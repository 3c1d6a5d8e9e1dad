--------------------------- MODULE AccountProofs ----------------------------
(***************************************************************************)
(* Proofs about Donations, RsiVerify and Credentials, for every set of     *)
(* orders and of requests in flight, and every number of deliveries,       *)
(* addresses, links, passwords, codes and failures.                        *)
(*                                                                         *)
(* Donations: the webhook implements the ledger, and an answered payment   *)
(* is coverage.  A delivery is past recording at most once per event,      *)
(* because the insert into revolut_webhook_events admits one.  So a        *)
(* payment that is recorded is granted, or in exactly one handler's hands, *)
(* or lost with a handler that stopped; and it meets a known order,        *)
(* because the payer gets the url only after the order's id is attached.   *)
(*                                                                         *)
(* RsiVerify: a verified handle was proven and a shown code stands.  A     *)
(* request past its read of the handle is about the handle the account     *)
(* has, unless a rename came in between (OwnRequest), and the code in      *)
(* force is the only one on show (ShownInv).                               *)
(*                                                                         *)
(* Credentials: a handler is what is left of its steps, and the invariant  *)
(* says what its family of steps knows (CredCallOK).  A link carries the   *)
(* address it proves: the staged one for the change token in force, the    *)
(* account's own for a verification, unless that address was opened        *)
(* already (Bound).  A sweep is for a password no later than the one in    *)
(* force, and a code that is not redeemed made no device (PairInv).        *)
(***************************************************************************)
EXTENDS Donations, RsiVerify, Credentials, TLAPS

\* Zenon proves a leaf unless the leaf cites SMT, which the arithmetic needs.
USE Zenon

-----------------------------------------------------------------------------
(* Donations.                                                              *)

Past(h) == hook[h].at \in {"find", "mark", "pay"}

Payment(o) == <<o, "COMPLETED">>

\* What Revolut knows and what was recorded here are in this order.
EventsInOrder ==
    /\ acked \subseteq recorded /\ recorded \subseteq dispatched /\ lost \subseteq recorded
    /\ \A o \in Orders : Payment(o) \in dispatched => o \in paid
    /\ \A o \in Orders : desk[o] = "url" => o \in attached
    /\ paid \subseteq attached

\* What a delivery in hand knows.
HooksInOrder ==
    /\ \A h \in Hooks : hook[h] # NoHook => Message(h) \in dispatched
    /\ \A h \in Hooks : hook[h].at = "mark" => hook[h].event \in Acted
    /\ \A h \in Hooks : hook[h].at = "pay" => hook[h].event = "COMPLETED"
    /\ \A h \in Hooks : Past(h) => Message(h) \in recorded \ lost
    /\ \A g, h \in Hooks : Past(g) /\ Past(h) /\ Message(g) = Message(h) => g = h

\* A recorded payment is granted or in one handler's hands, never both.
PaymentsInOrder ==
    /\ Ledger!Granted \subseteq Orders
    /\ \A o \in Ledger!Granted : Payment(o) \in recorded
    /\ \A h \in Hooks : Past(h) /\ hook[h].event = "COMPLETED"
                            => hook[h].order \notin Ledger!Granted
    /\ \A o \in Orders : Payment(o) \in recorded \ lost
          => o \in Ledger!Granted \/ \E h \in Hooks : Past(h) /\ Message(h) = Payment(o)

DonationInv == DonationTypeOK /\ EventsInOrder /\ HooksInOrder /\ PaymentsInOrder

BoundsAreNat == MaxRepeats \in Nat /\ MaxDonateFaults \in Nat

-----------------------------------------------------------------------------
\* A grant adds its order to those granted.
LEMMA GrantAdds ==
    ASSUME NEW o \in Orders, ledger \in Seq(Orders), ledger' = Append(ledger, o)
    PROVE  Ledger!Granted' = Ledger!Granted \cup {o}
BY SMT DEF Ledger!Granted

\* A request in flight carries an event of an order.
LEMMA InHand ==
    ASSUME DonationTypeOK, NEW h \in Hooks, hook[h].at # "idle"
    PROVE  /\ hook[h] \in [order : Orders, event : EventKinds,
                            at : {"record", "find", "mark", "pay"}]
           /\ hook[h] # NoHook
           /\ Message(h) \in Orders \X EventKinds
BY SMT DEF DonationTypeOK, NoHook, Message

\* Going on or answering keeps the types of the request and of the answers.
LEMMA HandlerTypes ==
    ASSUME DonationTypeOK, NEW h \in Hooks, hook[h].at # "idle",
           Answers(h) \/ \E at \in {"find", "mark", "pay"} : Moves(h, at)
    PROVE  /\ hook' \in [Hooks -> [order : Orders, event : EventKinds,
                               at : {"record", "find", "mark", "pay"}] \cup {NoHook}]
           /\ acked' \subseteq Orders \X EventKinds
<1>1. /\ hook[h] \in [order : Orders, event : EventKinds,
                       at : {"record", "find", "mark", "pay"}]
      /\ Message(h) \in Orders \X EventKinds
  BY InHand
<1>2. CASE Answers(h)
  BY <1>1, <1>2 DEF Answers, DonationTypeOK
<1>3. ASSUME NEW at \in {"find", "mark", "pay"}, Moves(h, at)
      PROVE  /\ hook' \in [Hooks -> [order : Orders, event : EventKinds,
                                 at : {"record", "find", "mark", "pay"}] \cup {NoHook}]
             /\ acked' \subseteq Orders \X EventKinds
  BY <1>1, <1>3 DEF Moves, DonationTypeOK
<1> QED  BY <1>2, <1>3

\* The types are kept by every step.
LEMMA DonationTypesKept ==
    ASSUME BoundsAreNat, DonationTypeOK, HooksInOrder, [DonationNext]_donationVars
    PROVE  DonationTypeOK'
<1> USE DEF BoundsAreNat, DonationTypeOK, revolut
<1>1. CASE UNCHANGED donationVars
  BY <1>1 DEF donationVars
<1>2. ASSUME NEW o \in Orders, CheckoutStep(o) PROVE DonationTypeOK'
  BY <1>2 DEF States, CheckoutStep, CreatePending, CreateOrder, AttachRevolutDetails
<1>3. ASSUME NEW o \in Orders, CheckoutFails(o) PROVE DonationTypeOK'
  <2>1. desk' \in [Orders -> {"none", "local", "ordered", "url", "failed", "unpaid"}]
    BY <1>3 DEF CheckoutFails
  <2>2. donateFaults' \in 0 .. MaxDonateFaults
    BY <1>3, SMT DEF CheckoutFails, DonateFault
  <2> QED  BY <1>3, <2>1, <2>2 DEF CheckoutFails
<1>4. ASSUME NEW o \in Orders, RevolutEmits(o) PROVE DonationTypeOK'
  BY <1>4, SMT DEF RevolutEmits, EventKinds, Acted
<1>5. ASSUME NEW h \in Hooks, NEW m \in Orders \X EventKinds, RevolutDelivers(h, m)
      PROVE  DonationTypeOK'
  BY <1>5, SMT DEF RevolutDelivers
<1>6. ASSUME NEW h \in Hooks, RecordWebhookEvent(h) PROVE DonationTypeOK'
  BY <1>6, InHand, HandlerTypes, SMT DEF RecordWebhookEvent
<1>7. ASSUME NEW h \in Hooks, FindByRevolutId(h) PROVE DonationTypeOK'
  BY <1>7, InHand, HandlerTypes, SMT DEF FindByRevolutId
<1>8. ASSUME NEW h \in Hooks, MarkState(h) PROVE DonationTypeOK'
  BY <1>8, InHand, HandlerTypes, SMT DEF MarkState, HooksInOrder, States
<1>9. ASSUME NEW h \in Hooks, MarkPaymentReceived(h) PROVE DonationTypeOK'
  BY <1>9, InHand, HandlerTypes, SMT DEF MarkPaymentReceived
<1>10. ASSUME NEW h \in Hooks, WebhookFails(h) PROVE DonationTypeOK'
  BY <1>10, InHand, SMT DEF WebhookFails, DonateFault, Message, NoHook
<1> QED
  BY <1>1, <1>2, <1>3, <1>4, <1>5, <1>6, <1>7, <1>8, <1>9, <1>10
     DEF DonationNext, WebhookStep

-----------------------------------------------------------------------------
\* Recording is the fence: what the checkout and Revolut do keeps the order.
LEMMA CheckoutKeepsOrder ==
    ASSUME DonationInv, DonationTypeOK', NEW o \in Orders,
           CheckoutStep(o) \/ CheckoutFails(o) \/ RevolutEmits(o)
    PROVE  EventsInOrder' /\ HooksInOrder' /\ PaymentsInOrder'
<1> USE DEF DonationInv, DonationTypeOK, revolut
<1>1. UNCHANGED <<acked, recorded, hook, ledger, lost>>
  BY DEF CheckoutStep, CreatePending, CreateOrder, AttachRevolutDetails,
         CheckoutFails, RevolutEmits
<1>2. dispatched \subseteq dispatched'
  BY DEF CheckoutStep, CreatePending, CreateOrder, AttachRevolutDetails,
         CheckoutFails, RevolutEmits
<1>3. HooksInOrder'
  BY <1>1, <1>2 DEF HooksInOrder, Past, Message
<1>4. PaymentsInOrder'
  BY <1>1, SMT DEF PaymentsInOrder, Past, Message, Payment, Ledger!Granted
<1>5. EventsInOrder'
  <2>1. CASE CheckoutStep(o) \/ CheckoutFails(o)
    BY <1>1, <2>1 DEF EventsInOrder, Payment, CheckoutStep, CreatePending,
       CreateOrder, AttachRevolutDetails, CheckoutFails
  <2>2. CASE RevolutEmits(o)
    BY <1>1, <2>2 DEF EventsInOrder, Payment, RevolutEmits
  <2> QED  BY <2>1, <2>2
<1> QED  BY <1>3, <1>4, <1>5

\* A request that leaves the others alone.
OthersStay(h) == \A g \in Hooks \ {h} : hook'[g] = hook[g]

\* A new delivery is not past recording.
LEMMA DeliveryKeepsOrder ==
    ASSUME DonationInv, DonationTypeOK', NEW h \in Hooks,
           NEW m \in Orders \X EventKinds, RevolutDelivers(h, m)
    PROVE  EventsInOrder' /\ HooksInOrder' /\ PaymentsInOrder'
<1> USE DEF DonationInv, DonationTypeOK, revolut
<1>1. /\ OthersStay(h) /\ hook[h] = NoHook
      /\ hook'[h] = [order |-> m[1], event |-> m[2], at |-> "record"]
      /\ m \in dispatched /\ m = <<m[1], m[2]>>
  BY SMT DEF RevolutDelivers, OthersStay
<1>2. UNCHANGED <<desk, attached, paid, dispatched, acked, recorded, ledger, lost>>
  BY DEF RevolutDelivers
<1>3. \A g \in Hooks : Past(g)' <=> Past(g)
  BY <1>1, SMT DEF OthersStay, Past, NoHook
<1>4. \A g \in Hooks : Past(g) => g # h /\ hook'[g] = hook[g]
  BY <1>1, SMT DEF OthersStay, Past, NoHook
<1>5. EventsInOrder'
  BY <1>2 DEF EventsInOrder, Payment
<1>8. \A g \in Hooks : hook'[g].at \in {"mark", "pay"} => hook'[g] = hook[g]
  BY <1>1, SMT DEF OthersStay
<1>9. Message(h)' = m
  BY <1>1, SMT DEF Message
<1>10. \A g \in Hooks \ {h} : Message(g)' = Message(g)
  BY <1>1 DEF OthersStay, Message
<1>6. HooksInOrder'
  <2>1. \A g \in Hooks : hook'[g] # NoHook => Message(g)' \in dispatched'
    BY <1>1, <1>2, <1>9, <1>10 DEF HooksInOrder, OthersStay
  <2>2. /\ \A g \in Hooks : hook'[g].at = "mark" => hook'[g].event \in Acted
        /\ \A g \in Hooks : hook'[g].at = "pay" => hook'[g].event = "COMPLETED"
    BY <1>8 DEF HooksInOrder
  <2>3. \A g \in Hooks : Past(g)' => Message(g)' \in recorded' \ lost'
    BY <1>2, <1>3, <1>4, <1>10 DEF HooksInOrder
  <2>4. \A f, g \in Hooks : Past(f)' /\ Past(g)' /\ Message(f)' = Message(g)' => f = g
    BY <1>3, <1>4, <1>10 DEF HooksInOrder
  <2> QED  BY <2>1, <2>2, <2>3, <2>4 DEF HooksInOrder
<1>7. PaymentsInOrder'
  BY <1>2, <1>3, <1>4, SMT DEF PaymentsInOrder, Message, Payment, Ledger!Granted
<1> QED  BY <1>5, <1>6, <1>7

\* One delivery of an event passes the insert; the others are answered.
LEMMA RecordKeepsOrder ==
    ASSUME DonationInv, DonationTypeOK', NEW h \in Hooks, RecordWebhookEvent(h)
    PROVE  EventsInOrder' /\ HooksInOrder' /\ PaymentsInOrder'
<1> USE DEF DonationInv, revolut
<1>1. /\ hook[h].at = "record" /\ hook[h] # NoHook
      /\ Message(h) \in dispatched
      /\ recorded' = recorded \cup {Message(h)}
      /\ UNCHANGED <<desk, attached, paid, dispatched, ledger, lost>>
  BY InHand DEF RecordWebhookEvent, HooksInOrder
<1>2. ~Past(h)
  BY <1>1 DEF Past
<1>3. CASE Message(h) \notin recorded
  <2>1. /\ OthersStay(h) /\ Message(h)' = Message(h) /\ acked' = acked
        /\ hook'[h].at = "find" /\ hook'[h].order = hook[h].order
        /\ hook'[h].event = hook[h].event
    BY <1>3, InHand, SMT
       DEF DonationTypeOK, RecordWebhookEvent, FirstSeen, Moves, OthersStay, Message
  <2>2. \A g \in Hooks \ {h} : Message(g)' = Message(g) /\ (Past(g)' <=> Past(g))
    BY <2>1 DEF OthersStay, Message, Past
  <2>3. \A g \in Hooks : Past(g) => Message(g) # Message(h)
    BY <1>3 DEF HooksInOrder
  <2>4. EventsInOrder'
    BY <1>1, <2>1 DEF EventsInOrder, Payment
  <2>5. HooksInOrder'
    BY <1>1, <1>3, <2>1, <2>2, <2>3, SMT DEF HooksInOrder, EventsInOrder, OthersStay, Past
  <2>6. PaymentsInOrder'
    <3>1. Ledger!Granted' = Ledger!Granted
      BY <1>1 DEF Ledger!Granted
    <3>2. hook[h].event = "COMPLETED" => hook[h].order \notin Ledger!Granted
      BY <1>3 DEF PaymentsInOrder, Message, Payment
    <3>3. \A g \in Hooks : Past(g)' /\ hook'[g].event = "COMPLETED"
                               => hook'[g].order \notin Ledger!Granted
      BY <2>1, <2>2, <3>2 DEF PaymentsInOrder, OthersStay
    <3>4. \A o \in Orders : Payment(o) \in recorded' \ lost'
            => o \in Ledger!Granted \/ \E g \in Hooks : Past(g)' /\ Message(g)' = Payment(o)
      BY <1>1, <1>2, <2>1, <2>2 DEF PaymentsInOrder, Past
    <3> QED  BY <1>1, <3>1, <3>3, <3>4 DEF PaymentsInOrder, Payment
  <2> QED  BY <2>4, <2>5, <2>6
<1>4. CASE Message(h) \in recorded
  <2>1. /\ OthersStay(h) /\ hook'[h] = NoHook /\ recorded' = recorded
        /\ acked' = acked \cup {Message(h)}
    BY <1>1, <1>4, SMT DEF DonationTypeOK, RecordWebhookEvent, FirstSeen, Answers, OthersStay
  <2>2. \A g \in Hooks : Past(g)' <=> Past(g)
    BY <1>2, <2>1, SMT DEF OthersStay, Past, NoHook
  <2>3. \A g \in Hooks : Past(g) => hook'[g] = hook[g]
    BY <1>2, <2>1 DEF OthersStay
  <2>4. EventsInOrder'
    BY <1>1, <1>4, <2>1 DEF EventsInOrder, Payment
  <2>5. HooksInOrder'
    BY <1>1, <2>1, <2>2, <2>3, SMT DEF HooksInOrder, OthersStay, Message, NoHook
  <2>6. PaymentsInOrder'
    BY <1>1, <2>1, <2>2, <2>3, SMT DEF PaymentsInOrder, Message, Payment, Ledger!Granted
  <2> QED  BY <2>4, <2>5, <2>6
<1> QED  BY <1>3, <1>4

\* A request that ends leaves what the others know.
LEMMA DoneKeepsHooks ==
    ASSUME HooksInOrder, NEW h \in Hooks, OthersStay(h), hook'[h] = NoHook,
           dispatched' = dispatched,
           \A g \in Hooks \ {h} : Past(g) => Message(g) \in recorded' \ lost'
    PROVE  HooksInOrder'
<1>1. hook'[h].at = "idle" /\ ~Past(h)'
  BY SMT DEF Past, NoHook
<1>2. \A g \in Hooks \ {h} : Message(g)' = Message(g) /\ (Past(g)' <=> Past(g))
  BY DEF OthersStay, Message, Past
<1>3. \A g \in Hooks : hook'[g] # NoHook => Message(g)' \in dispatched'
  BY <1>2 DEF HooksInOrder, OthersStay
<1>4. \A g \in Hooks : /\ hook'[g].at = "mark" => hook'[g].event \in Acted
                       /\ hook'[g].at = "pay" => hook'[g].event = "COMPLETED"
  BY <1>1 DEF HooksInOrder, OthersStay
<1>5. \A g \in Hooks : Past(g)' => Message(g)' \in recorded' \ lost'
  BY <1>1, <1>2
<1>6. \A f, g \in Hooks : Past(f)' /\ Past(g)' /\ Message(f)' = Message(g)' => f = g
  BY <1>1, <1>2 DEF HooksInOrder
<1> QED  BY <1>3, <1>4, <1>5, <1>6 DEF HooksInOrder

\* A handler past recording goes on to its next write.
LEMMA GoingOnKeepsOrder ==
    ASSUME DonationInv, DonationTypeOK', NEW h \in Hooks, NEW at \in {"mark", "pay"},
           Past(h), Moves(h, at),
           at = "mark" => hook[h].event \in Acted,
           at = "pay" => hook[h].event = "COMPLETED",
           UNCHANGED <<desk, attached, paid, dispatched, recorded, ledger, lost>>
    PROVE  EventsInOrder' /\ HooksInOrder' /\ PaymentsInOrder'
<1> USE DEF DonationInv
<1>1. /\ OthersStay(h) /\ acked' = acked /\ hook'[h].at = at
      /\ hook'[h].order = hook[h].order /\ hook'[h].event = hook[h].event
      /\ hook[h] # NoHook
  BY InHand DEF DonationTypeOK, Moves, OthersStay, Past
<1>2. \A g \in Hooks : Message(g)' = Message(g) /\ (Past(g)' <=> Past(g))
  BY <1>1 DEF OthersStay, Message, Past
<1>3. EventsInOrder'
  BY <1>1 DEF EventsInOrder, Payment
<1>4. HooksInOrder'
  BY <1>1, <1>2 DEF HooksInOrder, OthersStay
<1>5. PaymentsInOrder'
  BY <1>1, <1>2 DEF PaymentsInOrder, OthersStay, Payment, Ledger!Granted
<1> QED  BY <1>3, <1>4, <1>5

\* A handler past recording is done with an event that grants nothing.
LEMMA AnsweringKeepsOrder ==
    ASSUME DonationInv, DonationTypeOK', NEW h \in Hooks, Past(h), Answers(h),
           hook[h].event # "COMPLETED",
           UNCHANGED <<desk, attached, paid, dispatched, recorded, ledger, lost>>
    PROVE  EventsInOrder' /\ HooksInOrder' /\ PaymentsInOrder'
<1> USE DEF DonationInv
<1>1. /\ OthersStay(h) /\ hook'[h] = NoHook /\ acked' = acked \cup {Message(h)}
  BY DEF DonationTypeOK, Answers, OthersStay
<1>2. Message(h) \in recorded
  BY DEF HooksInOrder
<1>3. ~Past(h)'
  BY <1>1, SMT DEF Past, NoHook
<1>4. \A g \in Hooks \ {h} : Message(g)' = Message(g) /\ (Past(g)' <=> Past(g))
  BY <1>1 DEF OthersStay, Message, Past
<1>5. EventsInOrder'
  BY <1>1, <1>2 DEF EventsInOrder, Payment
<1>6. HooksInOrder'
  <2>1. \A g \in Hooks : Past(g) => Message(g) \in recorded' \ lost'
    BY DEF HooksInOrder
  <2> QED  BY <1>1, <2>1, DoneKeepsHooks
<1>7. \A o \in Orders : Message(h) # Payment(o)
  BY DEF Message, Payment
<1>8. PaymentsInOrder'
  BY <1>1, <1>3, <1>4, <1>7 DEF PaymentsInOrder, OthersStay, Payment, Ledger!Granted
<1> QED  BY <1>5, <1>6, <1>8

\* The handler that holds a payment grants it, and no other does.
LEMMA GrantingKeepsOrder ==
    ASSUME DonationInv, DonationTypeOK', NEW h \in Hooks, MarkPaymentReceived(h)
    PROVE  /\ EventsInOrder' /\ HooksInOrder' /\ PaymentsInOrder'
           /\ hook[h].order \in paid \ Ledger!Granted
<1> USE DEF DonationInv, revolut
<1>1. /\ hook[h].at = "pay" /\ Past(h) /\ hook[h].event = "COMPLETED"
      /\ hook[h].order \in Orders /\ Message(h) = Payment(hook[h].order)
  BY InHand DEF MarkPaymentReceived, HooksInOrder, Past, Message, Payment
<1>2. /\ OthersStay(h) /\ hook'[h] = NoHook /\ acked' = acked \cup {Message(h)}
      /\ UNCHANGED <<desk, attached, paid, dispatched, recorded, lost>>
  BY DEF DonationTypeOK, MarkPaymentReceived, Answers, OthersStay
<1>3. Message(h) \in recorded /\ Message(h) \in dispatched
  BY <1>1 DEF HooksInOrder, EventsInOrder
<1>4. Ledger!Granted' = Ledger!Granted \cup {hook[h].order}
  BY <1>1, GrantAdds DEF MarkPaymentReceived, DonationTypeOK
<1>5. ~Past(h)'
  BY <1>2, SMT DEF Past, NoHook
<1>6. \A g \in Hooks \ {h} : Message(g)' = Message(g) /\ (Past(g)' <=> Past(g))
  BY <1>2 DEF OthersStay, Message, Past
<1>7. EventsInOrder'
  BY <1>2, <1>3 DEF EventsInOrder, Payment
<1>8. HooksInOrder'
  <2>1. \A g \in Hooks : Past(g) => Message(g) \in recorded' \ lost'
    BY <1>2 DEF HooksInOrder
  <2> QED  BY <1>2, <2>1, DoneKeepsHooks
<1>9. PaymentsInOrder'
  <2>1. /\ Ledger!Granted' \subseteq Orders
        /\ \A o \in Ledger!Granted' : Payment(o) \in recorded'
    BY <1>1, <1>2, <1>3, <1>4 DEF PaymentsInOrder, Payment
  <2>2. \A g \in Hooks : Past(g)' /\ hook'[g].event = "COMPLETED"
                            => hook'[g].order \notin Ledger!Granted'
    <3>1. SUFFICES ASSUME NEW g \in Hooks, Past(g)', hook'[g].event = "COMPLETED",
                          hook'[g].order = hook[h].order
                   PROVE  FALSE
      BY <1>2, <1>4, <1>5, <1>6 DEF PaymentsInOrder, OthersStay
    <3>2. g # h /\ Past(g) /\ Message(g) = Message(h)
      BY <1>1, <1>2, <1>5, <1>6, <3>1 DEF OthersStay, Message, Payment
    <3> QED  BY <1>1, <3>2 DEF HooksInOrder
  <2>3. \A o \in Orders : Payment(o) \in recorded' \ lost'
          => o \in Ledger!Granted' \/ \E g \in Hooks : Past(g)' /\ Message(g)' = Payment(o)
    <3>1. \A o \in Orders : Message(h) = Payment(o) => o = hook[h].order
      BY <1>1, SMT DEF Payment
    <3> QED  BY <1>2, <1>4, <1>6, <3>1 DEF PaymentsInOrder
  <2> QED  BY <2>1, <2>2, <2>3 DEF PaymentsInOrder
<1>10. hook[h].order \in paid \ Ledger!Granted
  BY <1>1, <1>3 DEF EventsInOrder, PaymentsInOrder
<1> QED  BY <1>7, <1>8, <1>9, <1>10

\* A handler that stops either recorded nothing or loses its event.
LEMMA FailingKeepsOrder ==
    ASSUME DonationInv, DonationTypeOK', NEW h \in Hooks, WebhookFails(h)
    PROVE  EventsInOrder' /\ HooksInOrder' /\ PaymentsInOrder'
<1> USE DEF DonationInv, revolut
<1>1. /\ OthersStay(h) /\ hook'[h] = NoHook /\ hook[h] # NoHook
      /\ UNCHANGED <<desk, attached, paid, dispatched, acked, ledger>>
  BY DEF DonationTypeOK, WebhookFails, OthersStay
<1>2. Message(h) \in dispatched
  BY <1>1 DEF HooksInOrder
<1>3. ~Past(h)'
  BY <1>1, SMTT(20) DEF Past, NoHook
<1>4. \A g \in Hooks \ {h} : Message(g)' = Message(g) /\ (Past(g)' <=> Past(g))
  BY <1>1 DEF OthersStay, Message, Past
<1>5. Ledger!Granted' = Ledger!Granted
  BY <1>1 DEF Ledger!Granted
<1>6. CASE hook[h].at = "record" /\ UNCHANGED <<recorded, lost>>
  <2>1. ~Past(h)
    BY <1>6 DEF Past
  <2>2. EventsInOrder'
    BY <1>1, <1>6 DEF EventsInOrder, Payment
  <2>3. HooksInOrder'
    <3>1. \A g \in Hooks : Past(g) => Message(g) \in recorded' \ lost'
      BY <1>6 DEF HooksInOrder
    <3> QED  BY <1>1, <3>1, DoneKeepsHooks
  <2>4. PaymentsInOrder'
    BY <1>1, <1>3, <1>4, <1>5, <1>6, <2>1 DEF PaymentsInOrder, OthersStay, Payment
  <2> QED  BY <2>2, <2>3, <2>4
<1>7. CASE /\ hook[h].at # "record" \/ Message(h) \notin recorded
           /\ recorded' = recorded \cup {Message(h)} /\ lost' = lost \cup {Message(h)}
  <2>1. Past(h) \/ Message(h) \notin recorded
    BY <1>1, <1>7 DEF DonationTypeOK, Past
  <2>2. \A g \in Hooks \ {h} : Past(g) => Message(g) # Message(h)
    BY <2>1 DEF HooksInOrder
  <2>3. EventsInOrder'
    BY <1>1, <1>2, <1>7 DEF EventsInOrder, Payment
  <2>4. HooksInOrder'
    <3>1. \A g \in Hooks \ {h} : Past(g) => Message(g) \in recorded' \ lost'
      BY <1>7, <2>2 DEF HooksInOrder
    <3> QED  BY <1>1, <3>1, DoneKeepsHooks
  <2>5. PaymentsInOrder'
    BY <1>1, <1>3, <1>4, <1>5, <1>7 DEF PaymentsInOrder, OthersStay, Payment
  <2> QED  BY <2>3, <2>4, <2>5
<1> QED  BY <1>6, <1>7 DEF WebhookFails

\* The invariant holds at first.
LEMMA DonationInvInit == BoundsAreNat /\ DonationInit => DonationInv
BY SMT DEF BoundsAreNat, DonationInit, DonationInv, DonationTypeOK, States, EventsInOrder,
       HooksInOrder, PaymentsInOrder, Past, NoHook, Payment, Ledger!Granted

\* Every step keeps the invariant.
LEMMA DonationInvStep ==
    ASSUME BoundsAreNat, DonationInv, [DonationNext]_donationVars
    PROVE  DonationInv'
<1>1. DonationTypeOK'
  BY DonationTypesKept DEF DonationInv
<1> SUFFICES EventsInOrder' /\ HooksInOrder' /\ PaymentsInOrder'
  BY <1>1 DEF DonationInv
<1>2. CASE UNCHANGED donationVars
  <2>1. EventsInOrder'
    BY <1>2 DEF DonationInv, donationVars, EventsInOrder, Payment
  <2>2. HooksInOrder'
    BY <1>2 DEF DonationInv, donationVars, HooksInOrder, Past, Message
  <2>3. PaymentsInOrder'
    <3>1. Ledger!Granted' = Ledger!Granted
      BY <1>2 DEF donationVars, Ledger!Granted
    <3>2. \A h \in Hooks : hook'[h] = hook[h] /\ Message(h)' = Message(h)
                          /\ (Past(h)' <=> Past(h))
      BY <1>2 DEF donationVars, Message, Past
    <3>3. recorded' = recorded /\ lost' = lost
      BY <1>2 DEF donationVars
    <3> QED  BY <3>1, <3>2, <3>3 DEF DonationInv, PaymentsInOrder, Payment
  <2> QED  BY <2>1, <2>2, <2>3
<1>3. ASSUME NEW h \in Hooks, FindByRevolutId(h)
      PROVE  EventsInOrder' /\ HooksInOrder' /\ PaymentsInOrder'
  <2>1. Past(h) /\ Message(h) \in dispatched /\ hook[h].order \in Orders
    BY <1>3, InHand DEF DonationInv, FindByRevolutId, HooksInOrder, Past
  <2>2. hook[h].event = "COMPLETED" => hook[h].order \in attached
    BY <2>1 DEF DonationInv, EventsInOrder, Message, Payment
  <2> QED
    BY <1>1, <1>3, <2>1, <2>2, GoingOnKeepsOrder, AnsweringKeepsOrder
       DEF FindByRevolutId, Acted, revolut
<1>4. ASSUME NEW h \in Hooks, MarkState(h)
      PROVE  EventsInOrder' /\ HooksInOrder' /\ PaymentsInOrder'
  <2>1. Past(h)
    BY <1>4 DEF MarkState, Past
  <2> QED
    BY <1>1, <1>4, <2>1, GoingOnKeepsOrder, AnsweringKeepsOrder DEF MarkState, revolut
<1> QED
  BY <1>1, <1>2, <1>3, <1>4, CheckoutKeepsOrder, DeliveryKeepsOrder, RecordKeepsOrder,
     GrantingKeepsOrder, FailingKeepsOrder
     DEF DonationNext, WebhookStep

\* The invariant gives what the run checks.
LEMMA DonationInvSound == DonationInv => DonationsSound
<1> SUFFICES ASSUME DonationInv, NEW o \in Orders,
                    Payment(o) \in acked \ lost, ~Handled(Payment(o))
             PROVE  o \in Ledger!Granted
  BY DEF DonationInv, DonationsSound, AckedIsGranted, Payment
<1>1. Payment(o) \in recorded \ lost
  BY DEF DonationInv, EventsInOrder
<1>2. \A h \in Hooks : Past(h) => Message(h) # Payment(o)
  BY DEF Handled, Past
<1> QED  BY <1>1, <1>2 DEF DonationInv, PaymentsInOrder

\* An ORDER_COMPLETED that Revolut was answered with 200 is coverage, unless a
\* handler stopped with it, for any number of orders, requests and failures.
THEOREM AnsweredPaymentIsCoverage ==
    ASSUME BoundsAreNat PROVE DonationSpec => []DonationsSound
<1>1. DonationInit => DonationInv
  BY DonationInvInit
<1>2. DonationInv /\ [DonationNext]_donationVars => DonationInv'
  BY DonationInvStep
<1> QED  BY <1>1, <1>2, DonationInvSound, PTL DEF DonationSpec

\* Each step of the webhook is a payment, a grant of a paid order not granted
\* before, or nothing, in the ledger.
LEMMA DonationStepRefines ==
    ASSUME DonationInv, DonationInv', [DonationNext]_donationVars
    PROVE  [Ledger!LedgerNext]_(Ledger!ledgerVars)
<1> USE DEF Ledger!LedgerNext, Ledger!ledgerVars, revolut
<1>1. CASE UNCHANGED donationVars
  BY <1>1 DEF donationVars
<1>2. ASSUME NEW o \in Orders, CheckoutStep(o) \/ CheckoutFails(o)
      PROVE  UNCHANGED <<paid, ledger>>
  BY <1>2 DEF CheckoutStep, CreatePending, CreateOrder, AttachRevolutDetails, CheckoutFails
<1>3. ASSUME NEW o \in Orders, RevolutEmits(o)
      PROVE  Ledger!Pay(o) \/ UNCHANGED <<paid, ledger>>
  BY <1>3 DEF RevolutEmits, Ledger!Pay
<1>4. ASSUME NEW h \in Hooks, NEW m \in Orders \X EventKinds, RevolutDelivers(h, m)
      PROVE  UNCHANGED <<paid, ledger>>
  BY <1>4 DEF RevolutDelivers
<1>5. ASSUME NEW h \in Hooks,
             \/ RecordWebhookEvent(h) \/ FindByRevolutId(h) \/ MarkState(h)
             \/ WebhookFails(h)
      PROVE  UNCHANGED <<paid, ledger>>
  BY <1>5 DEF RecordWebhookEvent, FindByRevolutId, MarkState, WebhookFails
<1>6. ASSUME NEW h \in Hooks, MarkPaymentReceived(h)
      PROVE  \E o \in Orders : Ledger!Grant(o)
  <2>1. hook[h].order \in paid \ Ledger!Granted /\ hook[h].order \in Orders
    BY <1>6, GrantingKeepsOrder DEF DonationInv, DonationTypeOK
  <2> QED  BY <1>6, <2>1 DEF MarkPaymentReceived, Ledger!Grant
<1> QED
  BY <1>1, <1>2, <1>3, <1>4, <1>5, <1>6 DEF DonationNext, WebhookStep

\* The webhook implements the ledger: coverage is granted for paid orders only
\* and once for each, whatever is redelivered, repeated, handled twice at the
\* same time or cut short.
THEOREM WebhookImplementsLedger ==
    ASSUME BoundsAreNat PROVE DonationSpec => GrantsAsPromised
<1>1. DonationInit => DonationInv /\ Ledger!LedgerInit
  BY DonationInvInit DEF DonationInit, Ledger!LedgerInit
<1>2. DonationInv /\ [DonationNext]_donationVars => DonationInv'
  BY DonationInvStep
<1>3. DonationInv /\ DonationInv' /\ [DonationNext]_donationVars
        => [Ledger!LedgerNext]_(Ledger!ledgerVars)
  BY DonationStepRefines
<1> QED  BY <1>1, <1>2, <1>3, PTL DEF DonationSpec, GrantsAsPromised, Ledger!LedgerSpec

-----------------------------------------------------------------------------
(* RsiVerify.                                                              *)

\* A request past its read of the handle is about the handle the account has,
\* unless a rename came in between, and marks only a handle that was proven.
OwnRequest(r) ==
  /\ req[r].at = "issue" => req[r].code # 0
  /\ req[r].at \in {"bio", "mark"} => req[r].name \in Names /\ (moved \/ req[r].name = handle)
  /\ req[r].at = "mark" => req[r].name \in proven

\* The code in force is the only one on show, and no request is about to
\* replace it.
ShownInv ==
  doubled \/ IF Reuse THEN shown \subseteq {code} /\ Issuing = {} ELSE shown = {}

VerifyInv ==
  /\ VerifyTypeOK /\ codesIssued \in 0 .. MaxIssued /\ moved \in BOOLEAN
  /\ \A r \in Requests : OwnRequest(r)
  /\ VerifiedIsProven /\ ShownInv

RequestSet ==
  [at : {"idle", "issue", "bio", "mark"}, name : Names \cup {0}, code : 0 .. MaxIssued]

LEMMA NoRequestType ==
  ASSUME MaxIssued \in Nat
  PROVE  NoRequest \in RequestSet /\ NoRequest.at = "idle"
BY SMT DEF NoRequest, RequestSet

LEMMA InitVerifyInv ==
  ASSUME MaxIssued \in Nat, VerifyInit
  PROVE  VerifyInv
<1>1. VerifyTypeOK /\ codesIssued \in 0 .. MaxIssued /\ moved \in BOOLEAN
  <2>1. req \in [Requests -> RequestSet]
    BY NoRequestType DEF VerifyInit
  <2>2. 0 \in 0 .. MaxIssued
    BY SMT
  <2>3. moved \in BOOLEAN /\ unexpired \in BOOLEAN
    BY DEF VerifyInit
  <2>4. bio \in [Names -> 0 .. MaxIssued] /\ shown \subseteq 1 .. MaxIssued
    BY <2>2 DEF VerifyInit
  <2> QED
    BY <2>1, <2>2, <2>3, <2>4 DEF VerifyInit, VerifyTypeOK, RequestSet
<1>2. \A r \in Requests : OwnRequest(r)
  BY DEF VerifyInit, OwnRequest, NoRequest
<1>3. VerifiedIsProven /\ ShownInv
  BY DEF VerifyInit, VerifiedIsProven, ShownInv, Reuse
<1> QED
  BY <1>1, <1>2, <1>3 DEF VerifyInv

\* What a step of one request leaves of the others.
LEMMA RequestFrame ==
  ASSUME VerifyInv, NEW r \in Requests, NEW q, req' = [req EXCEPT ![r] = q],
         UNCHANGED <<handle, moved>>, proven \subseteq proven'
  PROVE  /\ req'[r] = q
         /\ OwnRequest(r)' => \A s \in Requests : OwnRequest(s)'
<1>1. req \in [Requests -> [at : {"idle", "issue", "bio", "mark"}, name : Names \cup {0},
                            code : 0 .. MaxIssued]]
  BY DEF VerifyInv, VerifyTypeOK
<1>2. req'[r] = q /\ \A s \in Requests \ {r} : req'[s] = req[s]
  BY <1>1
<1>3. \A s \in Requests \ {r} : OwnRequest(s)'
  BY <1>2 DEF VerifyInv, OwnRequest
<1> QED
  BY <1>2, <1>3

LEMMA IssueKeeps ==
  ASSUME MaxIssued \in Nat, VerifyInv, NEW r \in Requests, start(r) \/ reverify(r)
  PROVE  VerifyInv'
<1>1. /\ IssueCode(r)
      /\ UNCHANGED <<handle, rsiVerified, code, unexpired, bio, proven, moved, doubled>>
  BY DEF start, reverify
<1>2. CASE Reuse
  <2>1. shown' = shown \cup {code} /\ UNCHANGED <<req, codesIssued>>
    BY <1>1, <1>2 DEF IssueCode
  <2>2. VerifyTypeOK' /\ codesIssued' \in 0 .. MaxIssued /\ moved' \in BOOLEAN
    BY <1>1, <1>2, <2>1, SMT DEF VerifyInv, VerifyTypeOK, Reuse
  <2>3. \A s \in Requests : OwnRequest(s)'
    BY <1>1, <2>1 DEF VerifyInv, OwnRequest
  <2>4. VerifiedIsProven' /\ ShownInv'
    BY <1>1, <1>2, <2>1 DEF VerifyInv, VerifiedIsProven, ShownInv, Reuse, Issuing
  <2> QED
    BY <2>2, <2>3, <2>4 DEF VerifyInv
<1>3. CASE ~Reuse
  <2> DEFINE q == [at |-> "issue", name |-> handle, code |-> codesIssued + 1]
  <2>1. /\ codesIssued < MaxIssued /\ codesIssued' = codesIssued + 1 /\ UNCHANGED shown
        /\ req' = [req EXCEPT ![r] = q]
    BY <1>1, <1>3 DEF IssueCode
  <2>2. codesIssued' \in 1 .. MaxIssued /\ moved' \in BOOLEAN
    BY <1>1, <2>1, SMT DEF VerifyInv
  <2>3. q \in [at : {"idle", "issue", "bio", "mark"}, name : Names \cup {0}, code : 0 .. MaxIssued]
    BY <2>1, <2>2, SMT DEF VerifyInv, VerifyTypeOK
  <2>4. OwnRequest(r)'
    <3>1. req'[r] = q
      BY <1>1, <2>1, RequestFrame
    <3> QED
      BY <2>1, <2>2, <3>1, SMT DEF OwnRequest
  <2> HIDE DEF q
  <2>5. VerifyTypeOK'
    BY <1>1, <2>1, <2>3 DEF VerifyInv, VerifyTypeOK
  <2>6. \A s \in Requests : OwnRequest(s)'
    BY <1>1, <2>1, <2>4, RequestFrame
  <2>7. VerifiedIsProven' /\ ShownInv'
    BY <1>1, <1>3, <2>1 DEF VerifyInv, VerifiedIsProven, ShownInv, Reuse
  <2> QED
    BY <2>2, <2>5, <2>6, <2>7, SMT DEF VerifyInv
<1> QED
  BY <1>2, <1>3

LEMMA StoreKeeps ==
  ASSUME MaxIssued \in Nat, VerifyInv, NEW r \in Requests, set_rsi_verify_code(r)
  PROVE  VerifyInv'
<1>1. /\ req[r].at = "issue" /\ req' = [req EXCEPT ![r] = NoRequest]
      /\ code' = req[r].code /\ unexpired' = TRUE /\ shown' = shown \cup {req[r].code}
      /\ doubled' = (doubled \/ Issuing # {r})
      /\ UNCHANGED <<handle, rsiVerified, bio, codesIssued, proven, moved>>
  BY DEF set_rsi_verify_code
<1>2. req[r].code \in 1 .. MaxIssued
  BY <1>1, SMT DEF VerifyInv, VerifyTypeOK, OwnRequest
<1>3. VerifyTypeOK' /\ codesIssued' \in 0 .. MaxIssued /\ moved' \in BOOLEAN
  <2>1. req' \in [Requests -> RequestSet]
    BY <1>1, NoRequestType DEF VerifyInv, VerifyTypeOK, RequestSet
  <2> QED
    BY <1>1, <1>2, <2>1 DEF VerifyInv, VerifyTypeOK, RequestSet
<1>4. req'[r] = NoRequest /\ \A s \in Requests : OwnRequest(s)'
  <2>1. req'[r] = NoRequest
    BY <1>1, RequestFrame
  <2>2. OwnRequest(r)'
    BY <2>1, NoRequestType DEF OwnRequest
  <2> QED
    BY <1>1, <2>1, <2>2, RequestFrame
<1>5. VerifiedIsProven'
  BY <1>1 DEF VerifyInv, VerifiedIsProven
<1>6. ShownInv'
  <2>1. CASE doubled'
    BY <2>1 DEF ShownInv
  <2>2. CASE ~doubled'
    <3>1. ~doubled /\ Issuing = {r}
      BY <1>1, <2>2
    <3>2. shown = {}
      BY <3>1 DEF VerifyInv, ShownInv
    <3>3. Issuing' = {}
      <4>1. \A s \in Requests \ {r} : req'[s] = req[s]
        BY <1>1 DEF VerifyInv, VerifyTypeOK
      <4> QED
        BY <1>4, <3>1, <4>1, SMT DEF Issuing, NoRequest
    <3>4. shown' \subseteq {code'}
      BY <1>1, <3>2
    <3>5. Reuse'
      BY <1>1, <1>2, SMT DEF Reuse
    <3> QED
      BY <3>3, <3>4, <3>5 DEF ShownInv
  <2> QED
    BY <2>1, <2>2
<1> QED
  BY <1>3, <1>4, <1>5, <1>6 DEF VerifyInv

LEMMA VerifyKeeps ==
  ASSUME MaxIssued \in Nat, VerifyInv, NEW r \in Requests,
         verify(r) \/ check_bio(r) \/ mark_rsi_verified(r)
  PROVE  VerifyInv'
<1>1. ASSUME NEW q, req' = [req EXCEPT ![r] = q], q.at # "issue",
             q \in RequestSet,
             req[r].at # "issue"
      PROVE  Issuing' = Issuing
  <2>1. req'[r] = q /\ \A s \in Requests \ {r} : req'[s] = req[s]
    BY <1>1 DEF VerifyInv, VerifyTypeOK
  <2> QED
    BY <1>1, <2>1 DEF Issuing
<1>2. CASE verify(r)
  <2> DEFINE q == [at |-> "bio", name |-> handle, code |-> code]
  <2>1. /\ req[r] = NoRequest /\ req' = [req EXCEPT ![r] = q]
        /\ UNCHANGED <<handle, rsiVerified, code, unexpired, bio, codesIssued, shown, proven, moved,
                       doubled>>
    BY <1>2 DEF verify, BeginRequest
  <2>2. q \in [at : {"idle", "issue", "bio", "mark"}, name : Names \cup {0}, code : 0 .. MaxIssued]
    BY DEF VerifyInv, VerifyTypeOK
  <2>3. Issuing' = Issuing
    BY <1>1, <2>1, <2>2, NoRequestType DEF RequestSet
  <2>4. OwnRequest(r)'
    <3>1. req'[r] = q
      BY <2>1, RequestFrame
    <3> QED
      BY <2>1, <3>1 DEF OwnRequest, VerifyInv, VerifyTypeOK
  <2> HIDE DEF q
  <2>5. \A s \in Requests : OwnRequest(s)'
    BY <2>1, <2>4, RequestFrame
  <2>6. VerifyTypeOK' /\ codesIssued' \in 0 .. MaxIssued /\ moved' \in BOOLEAN
    BY <2>1, <2>2 DEF VerifyInv, VerifyTypeOK
  <2>7. VerifiedIsProven' /\ ShownInv'
    BY <2>1, <2>3 DEF VerifyInv, VerifiedIsProven, ShownInv, Reuse
  <2> QED
    BY <2>5, <2>6, <2>7 DEF VerifyInv
<1>3. CASE check_bio(r)
  <2>1. /\ req[r].at = "bio"
        /\ UNCHANGED <<handle, rsiVerified, code, unexpired, bio, codesIssued, shown, moved,
                        doubled>>
    BY <1>3 DEF check_bio
  <2>2. PICK q : /\ req' = [req EXCEPT ![r] = q]
                 /\ \/ q = [req[r] EXCEPT !.at = "mark"] /\ proven' = proven \cup {req[r].name}
                    \/ q = NoRequest /\ UNCHANGED proven
    BY <1>3 DEF check_bio
  <2>3. /\ q \in [at : {"idle", "issue", "bio", "mark"}, name : Names \cup {0},
                  code : 0 .. MaxIssued]
        /\ q.at # "issue"
    BY <2>2, SMT DEF VerifyInv, VerifyTypeOK, NoRequest
  <2>4. Issuing' = Issuing
    BY <1>1, <2>1, <2>2, <2>3 DEF RequestSet
  <2>5. OwnRequest(r)'
    <3>1. req'[r] = q
      BY <2>1, <2>2, RequestFrame
    <3>2. CASE q = NoRequest
      BY <3>1, <3>2, SMT DEF OwnRequest, NoRequest
    <3>3. CASE q = [req[r] EXCEPT !.at = "mark"] /\ proven' = proven \cup {req[r].name}
      BY <2>1, <3>1, <3>3 DEF OwnRequest, VerifyInv, VerifyTypeOK
    <3> QED
      BY <2>2, <3>2, <3>3
  <2>6. \A s \in Requests : OwnRequest(s)'
    BY <2>1, <2>2, <2>5, RequestFrame
  <2>7. proven \subseteq proven' /\ proven' \subseteq Names
    BY <2>1, <2>2 DEF VerifyInv, VerifyTypeOK, OwnRequest
  <2>8. VerifyTypeOK' /\ codesIssued' \in 0 .. MaxIssued /\ moved' \in BOOLEAN
    BY <2>1, <2>2, <2>3, <2>7 DEF VerifyInv, VerifyTypeOK
  <2>9. VerifiedIsProven' /\ ShownInv'
    BY <2>1, <2>4, <2>7 DEF VerifyInv, VerifiedIsProven, ShownInv, Reuse
  <2> QED
    BY <2>6, <2>8, <2>9 DEF VerifyInv
<1>4. CASE mark_rsi_verified(r)
  <2>1. /\ req[r].at = "mark" /\ req' = [req EXCEPT ![r] = NoRequest]
        /\ rsiVerified' = TRUE /\ code' = 0 /\ unexpired' = FALSE /\ shown' = {}
        /\ UNCHANGED <<handle, bio, codesIssued, proven, moved, doubled>>
    BY <1>4 DEF mark_rsi_verified
  <2>2. \A s \in Requests : OwnRequest(s)'
    <3>1. req'[r] = NoRequest
      BY <2>1, RequestFrame
    <3>2. OwnRequest(r)'
      BY <3>1, NoRequestType DEF OwnRequest
    <3> QED
      BY <2>1, <3>2, RequestFrame
  <2>3. VerifyTypeOK' /\ codesIssued' \in 0 .. MaxIssued /\ moved' \in BOOLEAN
    <3>1. req' \in [Requests -> RequestSet]
      BY <2>1, NoRequestType DEF VerifyInv, VerifyTypeOK, RequestSet
    <3>2. 0 \in 0 .. MaxIssued /\ shown' \subseteq 1 .. MaxIssued
      BY <2>1, SMT
    <3>3. rsiVerified' \in BOOLEAN /\ unexpired' \in BOOLEAN
      BY <2>1
    <3> QED
      BY <2>1, <3>1, <3>2, <3>3 DEF VerifyInv, VerifyTypeOK, RequestSet
  <2>4. VerifiedIsProven' /\ ShownInv'
    BY <2>1 DEF VerifyInv, VerifiedIsProven, OwnRequest, ShownInv, Reuse
  <2> QED
    BY <2>2, <2>3, <2>4 DEF VerifyInv
<1> QED
  BY <1>2, <1>3, <1>4

LEMMA NextVerifyInv ==
  ASSUME MaxIssued \in Nat, VerifyInv, [VerifyNext]_verifyVars
  PROVE  VerifyInv'
<1>1. ASSUME NEW h \in Names, Rename(h) PROVE VerifyInv'
  <2>1. /\ handle' = h /\ rsiVerified' = FALSE /\ code' = 0 /\ unexpired' = FALSE /\ shown' = {}
        /\ moved' = (moved \/ \E r \in Requests : req[r].at \in {"bio", "mark"})
        /\ UNCHANGED <<bio, req, codesIssued, proven, doubled>>
    BY <1>1 DEF Rename, reset_verification
  <2>2. VerifyTypeOK' /\ codesIssued' \in 0 .. MaxIssued /\ moved' \in BOOLEAN
    <3>0. 0 \in 0 .. MaxIssued /\ shown' \subseteq 1 .. MaxIssued
      BY <2>1, SMT
    <3>1. VerifyTypeOK'
      BY <1>1, <2>1, <3>0 DEF VerifyInv, VerifyTypeOK
    <3>2. moved' \in BOOLEAN
      BY <2>1 DEF VerifyInv
    <3> QED
      BY <2>1, <3>1, <3>2 DEF VerifyInv
  <2>3. \A s \in Requests : OwnRequest(s)'
    BY <2>1 DEF VerifyInv, OwnRequest
  <2>4. VerifiedIsProven' /\ ShownInv'
    BY <2>1 DEF VerifiedIsProven, ShownInv, Reuse
  <2> QED
    BY <2>2, <2>3, <2>4 DEF VerifyInv
<1>2. ASSUME UNCHANGED <<handle, rsiVerified, code, unexpired, req, codesIssued, shown, proven, moved,
                         doubled>>,
             bio' \in [Names -> 0 .. MaxIssued]
      PROVE  VerifyInv'
  <2>1. VerifyTypeOK' /\ codesIssued' \in 0 .. MaxIssued /\ moved' \in BOOLEAN
    BY <1>2 DEF VerifyInv, VerifyTypeOK
  <2>2. \A s \in Requests : OwnRequest(s)'
    BY <1>2 DEF VerifyInv, OwnRequest
  <2>3. VerifiedIsProven' /\ ShownInv'
    BY <1>2 DEF VerifyInv, VerifiedIsProven, ShownInv, Reuse, Issuing
  <2> QED
    BY <2>1, <2>2, <2>3 DEF VerifyInv
<1>3. ASSUME NEW h \in Names, PasteCode(h) PROVE VerifyInv'
  BY <1>2, <1>3, SMT DEF PasteCode, VerifyInv, VerifyTypeOK
<1>4. CASE UNCHANGED verifyVars
  BY <1>2, <1>4 DEF verifyVars, VerifyInv, VerifyTypeOK
<1>5. CASE CodeExpires
  <2>1. /\ unexpired' = FALSE /\ unexpired /\ shown' = shown \ {code}
        /\ UNCHANGED <<handle, rsiVerified, code, bio, req, codesIssued, proven, moved, doubled>>
    BY <1>5 DEF CodeExpires
  <2>2. VerifyTypeOK' /\ codesIssued' \in 0 .. MaxIssued /\ moved' \in BOOLEAN
    BY <2>1 DEF VerifyInv, VerifyTypeOK
  <2>3. \A s \in Requests : OwnRequest(s)'
    BY <2>1 DEF VerifyInv, OwnRequest
  <2>4. VerifiedIsProven' /\ ShownInv'
    BY <2>1 DEF VerifyInv, VerifiedIsProven, ShownInv, Reuse
  <2> QED
    BY <2>2, <2>3, <2>4 DEF VerifyInv
<1> QED
  BY <1>1, <1>3, <1>4, <1>5, IssueKeeps, StoreKeeps, VerifyKeeps DEF VerifyNext

\* Verification is sound for any handles, requests in flight and codes: the
\* mark is earned by the handle that carries it, and a shown code is the one
\* the server looks for (rsi_verify_routes.rs).
THEOREM VerificationIsSound ==
  ASSUME MaxIssued \in Nat
  PROVE  VerifySpec => []CodesSound
<1>1. VerifyInit => VerifyInv
  BY InitVerifyInv
<1>2. VerifyInv /\ [VerifyNext]_verifyVars => VerifyInv'
  BY NextVerifyInv
<1>3. VerifyInv => CodesSound
  BY DEF VerifyInv, CodesSound, ShownCodeStands, ShownInv, Reuse
<1> QED
  BY <1>1, <1>2, <1>3, PTL DEF VerifySpec

-----------------------------------------------------------------------------
(* Credentials.                                                            *)

CredBounds ==
  /\ MaxAddresses \in Nat \ {0} /\ MaxTokens \in Nat \ {0}
  /\ MaxPasswords \in Nat /\ MaxPairings \in Nat

\* What is left of a handler's steps.
VerifyStart == {<<"find", "set_verify", "mail">>, <<"set_verify", "mail">>}
ResetStart == {<<"find", "set_reset", "mail">>, <<"set_reset", "mail">>}
ChangeStart == {<<"find", "set_pending", "mail">>, <<"set_pending", "mail">>}
VerifyOpen == {<<"find_token", "mark">>, <<"mark">>}
ResetOpen == {<<"find_token", "reset", "revoke_all">>, <<"reset", "revoke_all">>}
ChangeOpen == {<<"find_token", "commit">>, <<"commit">>}
Started == {<<"mail">>}
Sweeps == {<<"revoke_all">>}
Redeems == {<<"redeem">>}
Plain == {<<>>, <<"check", "update", "revoke_all">>, <<"update", "revoke_all">>}
CredTodos == VerifyStart \cup ResetStart \cup ChangeStart \cup VerifyOpen \cup ResetOpen
               \cup ChangeOpen \cup Started \cup Sweeps \cup Redeems \cup Plain

CredCallSet == [todo : CredTodos, kind : LinkKinds \cup {"none"}, addr : 0 .. MaxAddresses,
                tok : Nat, pw : Nat]

\* The account's address was opened, or is excused.
AddressOpened == email \in proved \/ crossedMail

\* A link carries the address it proves: the staged one for the change token in
\* force, the account's own for a verification.
Bound(k, t, a) ==
  /\ k = "change" /\ token["change"] = t => a = pending
  /\ k = "verify" => AddressOpened \/ a = email

CredCallOK(q) ==
  /\ q \in CredCallSet
  /\ q.todo \in VerifyStart \cup VerifyOpen => q.kind = "verify"
  /\ q.todo \in ResetStart \cup ResetOpen => q.kind = "reset"
  /\ q.todo \in ChangeStart \cup ChangeOpen => q.kind = "change"
  /\ q.todo \in ChangeStart => q.addr \in Addresses
  /\ q.todo = <<"set_verify", "mail">> => AddressOpened \/ q.addr = email
  /\ q.todo \in Started => q.kind \in LinkKinds
  /\ q.todo \in Started \cup VerifyOpen \cup ResetOpen \cup ChangeOpen =>
       q.tok \in 1 .. minted /\ Bound(q.kind, q.tok, q.addr)
  /\ q.todo \in {<<"mark">>, <<"commit">>} => q.addr \in proved
  /\ q.todo \in Sweeps => q.pw <= password
  /\ q.todo \in Redeems => q.tok \in Pairings

SentOK(t, m) ==
  /\ t <= minted /\ m.kind \in LinkKinds /\ m.addr \in 0 .. MaxAddresses
  /\ Bound(m.kind, t, m.addr)

CredRowInv ==
  /\ CredTypeOK /\ minted \in 1 .. MaxTokens /\ VerifiedWasOpened
  /\ \A k \in LinkKinds : token[k] <= minted
CredCallsInv ==
  ccall \in [CredCalls -> CredCallSet] /\ \A c \in CredCalls : CredCallOK(ccall[c])
SentInv ==
  /\ DOMAIN sent = 1 .. MaxTokens
  /\ \A t \in 1 .. MaxTokens : sent[t] = Unsent \/ SentOK(t, sent[t])
NewestInv ==
  /\ newest \in [LinkKinds -> Nat] /\ overtaken \in [LinkKinds -> BOOLEAN] /\ NewestLinkStands
PairInv ==
  /\ codes \in [Pairings -> {"none", "open", "expired", "redeemed"}]
  /\ born \in [Pairings -> Nat] /\ made \in [Pairings -> Nat]
  /\ swept \in Nat /\ swept <= password /\ SweptArePaired
  /\ \A p \in Pairings : made[p] \in {0, 1} /\ (codes[p] # "redeemed" => made[p] = 0)

CredInv == CredRowInv /\ CredCallsInv /\ SentInv /\ NewestInv /\ PairInv

-----------------------------------------------------------------------------
LEMMA CredTails ==
  /\ Head(<<"find", "set_verify", "mail">>) = "find"
  /\ Tail(<<"find", "set_verify", "mail">>) = <<"set_verify", "mail">>
  /\ Head(<<"set_verify", "mail">>) = "set_verify" /\ Tail(<<"set_verify", "mail">>) = <<"mail">>
  /\ Head(<<"find", "set_reset", "mail">>) = "find"
  /\ Tail(<<"find", "set_reset", "mail">>) = <<"set_reset", "mail">>
  /\ Head(<<"set_reset", "mail">>) = "set_reset" /\ Tail(<<"set_reset", "mail">>) = <<"mail">>
  /\ Head(<<"find", "set_pending", "mail">>) = "find"
  /\ Tail(<<"find", "set_pending", "mail">>) = <<"set_pending", "mail">>
  /\ Head(<<"set_pending", "mail">>) = "set_pending"
  /\ Tail(<<"set_pending", "mail">>) = <<"mail">>
  /\ Head(<<"find_token", "mark">>) = "find_token" /\ Tail(<<"find_token", "mark">>) = <<"mark">>
  /\ Head(<<"mark">>) = "mark" /\ Tail(<<"mark">>) = <<>>
  /\ Head(<<"find_token", "reset", "revoke_all">>) = "find_token"
  /\ Tail(<<"find_token", "reset", "revoke_all">>) = <<"reset", "revoke_all">>
  /\ Head(<<"reset", "revoke_all">>) = "reset"
  /\ Tail(<<"reset", "revoke_all">>) = <<"revoke_all">>
  /\ Head(<<"find_token", "commit">>) = "find_token"
  /\ Tail(<<"find_token", "commit">>) = <<"commit">>
  /\ Head(<<"commit">>) = "commit" /\ Tail(<<"commit">>) = <<>>
  /\ Head(<<"mail">>) = "mail" /\ Tail(<<"mail">>) = <<>>
  /\ Head(<<"revoke_all">>) = "revoke_all" /\ Tail(<<"revoke_all">>) = <<>>
  /\ Head(<<"redeem">>) = "redeem" /\ Tail(<<"redeem">>) = <<>>
  /\ Head(<<"check", "update", "revoke_all">>) = "check"
  /\ Tail(<<"check", "update", "revoke_all">>) = <<"update", "revoke_all">>
  /\ Head(<<"update", "revoke_all">>) = "update"
  /\ Tail(<<"update", "revoke_all">>) = <<"revoke_all">>
BY SMT

LEMMA CredFamilies ==
  /\ \A t \in VerifyStart : t \notin ResetStart \cup ChangeStart \cup VerifyOpen \cup
         ResetOpen \cup ChangeOpen \cup Started \cup Sweeps \cup Redeems \cup Plain
  /\ \A t \in ResetStart : t \notin ChangeStart \cup VerifyOpen \cup ResetOpen \cup ChangeOpen \cup
         Started \cup Sweeps \cup Redeems \cup Plain
  /\ \A t \in ChangeStart : t \notin VerifyOpen \cup ResetOpen \cup ChangeOpen \cup Started \cup
         Sweeps \cup Redeems \cup Plain
  /\ \A t \in VerifyOpen : t \notin ResetOpen \cup ChangeOpen \cup Started \cup Sweeps \cup
         Redeems \cup Plain
  /\ \A t \in ResetOpen : t \notin ChangeOpen \cup Started \cup Sweeps \cup Redeems \cup Plain
  /\ \A t \in ChangeOpen : t \notin Started \cup Sweeps \cup Redeems \cup Plain
  /\ \A t \in Started : t \notin Sweeps \cup Redeems \cup Plain
  /\ \A t \in Sweeps : t \notin Redeems \cup Plain
  /\ \A t \in Redeems : t \notin Plain
<1>1. \A t \in VerifyStart : t \notin ResetStart \cup ChangeStart \cup VerifyOpen \cup
          ResetOpen \cup ChangeOpen \cup Started \cup Sweeps \cup Redeems \cup Plain
  BY SMT DEF VerifyStart, ResetStart, ChangeStart, VerifyOpen, ResetOpen, ChangeOpen, Started,
         Sweeps, Redeems, Plain
<1>2. \A t \in ResetStart : t \notin ChangeStart \cup VerifyOpen \cup ResetOpen \cup
          ChangeOpen \cup Started \cup Sweeps \cup Redeems \cup Plain
  BY SMT DEF ResetStart, ChangeStart, VerifyOpen, ResetOpen, ChangeOpen, Started, Sweeps, Redeems,
         Plain
<1>3. \A t \in ChangeStart : t \notin VerifyOpen \cup ResetOpen \cup ChangeOpen \cup Started \cup
          Sweeps \cup Redeems \cup Plain
  BY SMT DEF ChangeStart, VerifyOpen, ResetOpen, ChangeOpen, Started, Sweeps, Redeems, Plain
<1>4. \A t \in VerifyOpen : t \notin ResetOpen \cup ChangeOpen \cup Started \cup Sweeps \cup
          Redeems \cup Plain
  BY SMT DEF VerifyOpen, ResetOpen, ChangeOpen, Started, Sweeps, Redeems, Plain
<1>5. \A t \in ResetOpen : t \notin ChangeOpen \cup Started \cup Sweeps \cup Redeems \cup Plain
  BY SMT DEF ResetOpen, ChangeOpen, Started, Sweeps, Redeems, Plain
<1>6. \A t \in ChangeOpen : t \notin Started \cup Sweeps \cup Redeems \cup Plain
  BY SMT DEF ChangeOpen, Started, Sweeps, Redeems, Plain
<1>7. \A t \in Started : t \notin Sweeps \cup Redeems \cup Plain
  BY SMT DEF Started, Sweeps, Redeems, Plain
<1>8. \A t \in Sweeps : t \notin Redeems \cup Plain
  BY SMT DEF Sweeps, Redeems, Plain
<1>9. \A t \in Redeems : t \notin Plain
  BY SMT DEF Redeems, Plain
<1> QED
  BY <1>1, <1>2, <1>3, <1>4, <1>5, <1>6, <1>7, <1>8, <1>9

\* Where each step leads.
LEMMA NextCredTodo ==
  ASSUME NEW t \in CredTodos, t # <<>>
  PROVE  /\ Head(t) = "find" =>
              \/ t = <<"find", "set_verify", "mail">> /\ Tail(t) = <<"set_verify", "mail">>
              \/ t = <<"find", "set_reset", "mail">> /\ Tail(t) = <<"set_reset", "mail">>
              \/ t = <<"find", "set_pending", "mail">> /\ Tail(t) = <<"set_pending", "mail">>
         /\ Head(t) = "set_verify" => t = <<"set_verify", "mail">> /\ Tail(t) = <<"mail">>
         /\ Head(t) = "set_reset" => t = <<"set_reset", "mail">> /\ Tail(t) = <<"mail">>
         /\ Head(t) = "set_pending" => t = <<"set_pending", "mail">> /\ Tail(t) = <<"mail">>
         /\ Head(t) = "find_token" =>
              \/ t = <<"find_token", "mark">> /\ Tail(t) = <<"mark">>
              \/ t = <<"find_token", "reset", "revoke_all">> /\ Tail(t) = <<"reset", "revoke_all">>
              \/ t = <<"find_token", "commit">> /\ Tail(t) = <<"commit">>
         /\ Head(t) = "mark" => t = <<"mark">> /\ Tail(t) = <<>>
         /\ Head(t) = "reset" => t = <<"reset", "revoke_all">> /\ Tail(t) = <<"revoke_all">>
         /\ Head(t) = "commit" => t = <<"commit">> /\ Tail(t) = <<>>
         /\ Head(t) = "mail" => t = <<"mail">> /\ Tail(t) = <<>>
         /\ Head(t) = "revoke_all" => t = <<"revoke_all">> /\ Tail(t) = <<>>
         /\ Head(t) = "redeem" => t = <<"redeem">> /\ Tail(t) = <<>>
         /\ Head(t) = "check" =>
              t = <<"check", "update", "revoke_all">> /\ Tail(t) = <<"update", "revoke_all">>
         /\ Head(t) = "update" => t = <<"update", "revoke_all">> /\ Tail(t) = <<"revoke_all">>
BY CredTails
DEF CredTodos, VerifyStart, ResetStart, ChangeStart, VerifyOpen, ResetOpen, ChangeOpen,
    Started, Sweeps, Redeems, Plain

LEMMA CredHandlers ==
  /\ resend_verification \in VerifyStart /\ password_reset_start \in ResetStart
  /\ email_change_start \in ChangeStart /\ verify_email \in VerifyOpen
  /\ password_reset_complete \in ResetOpen /\ email_change_verify \in ChangeOpen
  /\ change_password \in Plain /\ redeem_code \in Redeems
BY SMT
DEF resend_verification, password_reset_start, email_change_start, verify_email,
    password_reset_complete, email_change_verify, change_password, redeem_code, VerifyStart,
    ResetStart, ChangeStart, VerifyOpen, ResetOpen, ChangeOpen, Plain, Redeems

\* The first step of a call is not one that a guard has been passed for.
LEMMA CredFirst ==
  /\ resend_verification # <<"set_verify", "mail">>
  /\ verify_email # <<"mark">> /\ email_change_verify # <<"commit">>
BY DEF resend_verification, verify_email, email_change_verify

-----------------------------------------------------------------------------
(* What a step leaves of the calls and the mails it does not touch.        *)

CredWorld ==
  /\ minted <= minted' /\ password <= password' /\ proved \subseteq proved'
  /\ crossedMail => crossedMail'
  /\ \/ token'["change"] = token["change"] /\ pending' = pending
     \/ token'["change"] \notin 1 .. minted
  /\ email' = email \/ AddressOpened'

LEMMA BoundKept ==
  ASSUME CredWorld, NEW k, NEW t \in 1 .. minted, NEW a, Bound(k, t, a)
  PROVE  Bound(k, t, a)'
BY DEF CredWorld, Bound, AddressOpened

LEMMA CallKept ==
  ASSUME CredRowInv, CredRowInv', CredWorld, NEW q, CredCallOK(q)
  PROVE  CredCallOK(q)'
<1>1. minted \in Nat /\ minted' \in Nat /\ minted <= minted'
  BY SMT DEF CredRowInv, CredWorld
<1>2. password \in Nat /\ password' \in Nat /\ password <= password'
  BY SMT DEF CredRowInv, CredTypeOK, CredWorld
<1>3. q.todo \in Started \cup VerifyOpen \cup ResetOpen \cup ChangeOpen =>
        q.tok \in 1 .. minted' /\ Bound(q.kind, q.tok, q.addr)'
  <2>1. SUFFICES ASSUME q.todo \in Started \cup VerifyOpen \cup ResetOpen \cup ChangeOpen
                 PROVE  q.tok \in 1 .. minted' /\ Bound(q.kind, q.tok, q.addr)'
    OBVIOUS
  <2>2. q.tok \in 1 .. minted /\ Bound(q.kind, q.tok, q.addr)
    BY <2>1 DEF CredCallOK
  <2> QED
    BY <1>1, <2>2, BoundKept, SMT
<1>4. q.todo \in Sweeps => q.pw <= password'
  BY <1>2, SMT DEF CredCallOK, CredCallSet
<1>5. AddressOpened \/ q.addr = email => AddressOpened' \/ q.addr = email'
  BY DEF CredWorld, AddressOpened
<1>6. q.addr \in proved => q.addr \in proved'
  BY DEF CredWorld
<1> QED
  BY <1>3, <1>4, <1>5, <1>6 DEF CredCallOK

LEMMA OtherCalls ==
  ASSUME CredCallsInv, NEW c \in CredCalls, NEW q, ccall' = [ccall EXCEPT ![c] = q]
  PROVE  ccall'[c] = q /\ \A d \in CredCalls \ {c} : ccall'[d] = ccall[d]
BY DEF CredCallsInv

LEMMA CredCallsKept ==
  ASSUME CredCallsInv, CredRowInv, CredRowInv', CredWorld,
         NEW c \in CredCalls, NEW q, ccall' = [ccall EXCEPT ![c] = q], CredCallOK(q)'
  PROVE  CredCallsInv'
<1>1. ccall'[c] = q /\ \A d \in CredCalls \ {c} : ccall'[d] = ccall[d]
  BY OtherCalls
<1>2. \A d \in CredCalls : CredCallOK(ccall[d])'
  <2>1. TAKE d \in CredCalls
  <2>2. PICK r : r = ccall'[d]
    OBVIOUS
  <2>3. CredCallOK(r)'
    <3>1. CASE d = c
      BY <1>1, <2>2, <3>1
    <3>2. CASE d # c
      <4>1. CredCallOK(r)
        BY <1>1, <2>2, <3>2 DEF CredCallsInv
      <4> QED
        BY <4>1, CallKept
    <3> QED
      BY <3>1, <3>2
  <2> QED
    BY <2>2, <2>3
<1>3. q \in CredCallSet
  BY DEF CredCallOK
<1> QED
  BY <1>2, <1>3 DEF CredCallsInv

LEMMA MailsKept ==
  ASSUME SentInv, CredRowInv, CredRowInv', CredWorld, UNCHANGED sent
  PROVE  SentInv'
<1>1. minted \in Nat /\ minted' \in Nat /\ minted <= minted'
  BY SMT DEF CredRowInv, CredWorld
<1>2. \A t \in 1 .. MaxTokens : sent[t] = Unsent \/ SentOK(t, sent[t])'
  <2>1. SUFFICES ASSUME NEW t \in 1 .. MaxTokens, sent[t] # Unsent PROVE SentOK(t, sent[t])'
    OBVIOUS
  <2>2. PICK m : m = sent[t]
    OBVIOUS
  <2>3. SentOK(t, m)
    BY <2>1, <2>2 DEF SentInv
  <2>4. t \in 1 .. minted
    BY <1>1, <2>3, SMT DEF SentOK
  <2>5. Bound(m.kind, t, m.addr)'
    BY <2>3, <2>4, BoundKept DEF SentOK
  <2>6. t <= minted'
    BY <1>1, <2>4, SMT
  <2> QED
    BY <2>2, <2>3, <2>5, <2>6 DEF SentOK
<1> QED
  BY <1>2 DEF SentInv

LEMMA NewestKept ==
  ASSUME CredCallsInv, NewestInv, NEW c \in CredCalls, NEW q, ccall' = [ccall EXCEPT ![c] = q],
         ~CAt(c, "mail"), UNCHANGED <<token, newest, overtaken>>
  PROVE  NewestInv'
<1>1. ccall'[c] = q /\ \A d \in CredCalls \ {c} : ccall'[d] = ccall[d]
  BY OtherCalls
<1>2. \A d \in CredCalls, k \in LinkKinds :
        CAt(d, "mail") /\ ccall[d].kind = k => CAt(d, "mail")' /\ ccall'[d].kind = k
  BY <1>1 DEF CAt
<1> QED
  BY <1>2 DEF NewestInv, NewestLinkStands

USE DEF credRow, credGhosts

-----------------------------------------------------------------------------
(* A call is in order when what its family asks for holds.                 *)

FamilyRule ==
  \A q \in CredCallSet :
    /\ q.todo \in Plain => CredCallOK(q)
    /\ /\ q.todo \in VerifyStart /\ q.kind = "verify"
       /\ q.todo = <<"set_verify", "mail">> => AddressOpened \/ q.addr = email
       => CredCallOK(q)
    /\ q.todo \in ResetStart /\ q.kind = "reset" => CredCallOK(q)
    /\ q.todo \in ChangeStart /\ q.kind = "change" /\ q.addr \in Addresses => CredCallOK(q)
    /\ /\ q.todo \in Started /\ q.kind \in LinkKinds
       /\ q.tok \in 1 .. minted /\ Bound(q.kind, q.tok, q.addr)
       => CredCallOK(q)
    /\ /\ \/ q.todo \in VerifyOpen /\ q.kind = "verify"
          \/ q.todo \in ResetOpen /\ q.kind = "reset"
          \/ q.todo \in ChangeOpen /\ q.kind = "change"
       /\ q.tok \in 1 .. minted /\ Bound(q.kind, q.tok, q.addr)
       /\ q.todo \in {<<"mark">>, <<"commit">>} => q.addr \in proved
       => CredCallOK(q)
    /\ q.todo \in Sweeps /\ q.pw <= password => CredCallOK(q)
    /\ q.todo \in Redeems /\ q.tok \in Pairings => CredCallOK(q)

LEMMA OfFamily == FamilyRule /\ FamilyRule'
<1>1. FamilyRule
  <2>1. SUFFICES ASSUME NEW q \in CredCallSet
                 PROVE  /\ q.todo \in Plain => CredCallOK(q)
                        /\ /\ q.todo \in VerifyStart /\ q.kind = "verify"
                           /\ q.todo = <<"set_verify", "mail">> => AddressOpened \/ q.addr = email
                           => CredCallOK(q)
                        /\ q.todo \in ResetStart /\ q.kind = "reset" => CredCallOK(q)
                        /\ /\ q.todo \in ChangeStart /\ q.kind = "change" /\ q.addr \in Addresses
                           => CredCallOK(q)
                        /\ /\ q.todo \in Started /\ q.kind \in LinkKinds
                           /\ q.tok \in 1 .. minted /\ Bound(q.kind, q.tok, q.addr)
                           => CredCallOK(q)
                        /\ /\ \/ q.todo \in VerifyOpen /\ q.kind = "verify"
                              \/ q.todo \in ResetOpen /\ q.kind = "reset"
                              \/ q.todo \in ChangeOpen /\ q.kind = "change"
                           /\ q.tok \in 1 .. minted /\ Bound(q.kind, q.tok, q.addr)
                           /\ q.todo \in {<<"mark">>, <<"commit">>} => q.addr \in proved
                           => CredCallOK(q)
                        /\ q.todo \in Sweeps /\ q.pw <= password => CredCallOK(q)
                        /\ q.todo \in Redeems /\ q.tok \in Pairings => CredCallOK(q)
    BY DEF FamilyRule
  <2>2. /\ <<"set_verify", "mail">> \in VerifyStart /\ <<"mark">> \in VerifyOpen
        /\ <<"commit">> \in ChangeOpen
    BY DEF VerifyStart, VerifyOpen, ChangeOpen
  <2> QED
    BY <2>2, CredFamilies DEF CredCallOK
<1> QED
  BY <1>1, PTL

LEMMA SpareOK == CredBounds => Spare \in CredCallSet /\ CredCallOK(Spare) /\ CredCallOK(Spare)'
<1>1. <<>> \in Plain /\ Spare = [todo |-> <<>>, kind |-> "none", addr |-> 0, tok |-> 0, pw |-> 0]
  BY DEF Plain, Spare
<1>2. <<>> \in CredTodos
  BY <1>1 DEF CredTodos
<1>3. CredBounds => Spare \in CredCallSet /\ Spare.todo \in Plain
  BY <1>1, <1>2, SMT DEF CredCallSet, CredBounds
<1> QED
  BY <1>3, OfFamily DEF FamilyRule

\* What a handler is left with after a step.
SameCall(q, r, u) ==
  /\ r \in CredCallSet /\ r.todo = u /\ r.kind = q.kind /\ r.addr = q.addr /\ r.tok = q.tok
  /\ r.pw = q.pw

LEMMA AfterLast ==
  ASSUME NEW q, Tail(q.todo) = <<>>
  PROVE  After(q) = Spare
BY DEF After

LEMMA AfterStep ==
  ASSUME NEW q \in CredCallSet, NEW u \in CredTodos, u # <<>>, Tail(q.todo) = u
  PROVE  SameCall(q, After(q), u)
<1>1. After(q) = [q EXCEPT !.todo = u]
  BY DEF After
<1> QED
  BY <1>1 DEF CredCallSet, SameCall

\* What a call at each of its steps is known to satisfy.
LEMMA AtCred ==
  ASSUME CredCallsInv, NEW c \in CredCalls, NEW s, CAt(c, s)
  PROVE  /\ ccall[c] \in CredCallSet /\ CredCallOK(ccall[c]) /\ ccall[c].todo \in CredTodos
         /\ ccall[c].todo # <<>> /\ Head(ccall[c].todo) = s
BY DEF CredCallsInv, CredCallSet, CAt

\* A step that moves one call, and leaves alone the mails and what they say.
LEMMA CredMove ==
  ASSUME CredInv, NEW c \in CredCalls, NEW q, ccall' = [ccall EXCEPT ![c] = q], CredCallOK(q)',
         CredRowInv', CredWorld, UNCHANGED sent, NewestInv', PairInv'
  PROVE  CredInv'
<1>1. CredCallsInv'
  BY CredCallsKept DEF CredInv
<1>2. SentInv'
  BY MailsKept DEF CredInv
<1> QED
  BY <1>1, <1>2 DEF CredInv

LEMMA WorldStays ==
  ASSUME CredRowInv, UNCHANGED <<token, pending, email, minted, password, proved, crossedMail>>
  PROVE  CredWorld
BY SMT DEF CredWorld, CredRowInv, CredTypeOK

\* A step that changes the call alone.
LEMMA CredQuiet ==
  ASSUME CredInv, NEW c \in CredCalls, NEW q, ccall' = [ccall EXCEPT ![c] = q], CredCallOK(q),
         ~CAt(c, "mail"), UNCHANGED <<credRow, codes, devices, others, sent, minted, credGhosts>>
  PROVE  CredInv'
<1>1. CredRowInv' /\ PairInv'
  BY DEF CredInv, CredRowInv, PairInv, CredTypeOK, VerifiedWasOpened, SweptArePaired
<1>2. CredWorld
  BY WorldStays DEF CredInv
<1>3. NewestInv'
  BY NewestKept DEF CredInv
<1>4. CredCallOK(q)'
  BY <1>1, <1>2, CallKept DEF CredInv
<1> QED
  BY <1>1, <1>2, <1>3, <1>4, CredMove

\* A step of no call, on the expiries, the other accounts, the codes and the devices.
LEMMA CredStill ==
  ASSUME CredInv, UNCHANGED <<ccall, sent, minted, email, verified, pending, token, password,
                              proved, newest, overtaken, crossedMail>>,
         CredTypeOK', PairInv'
  PROVE  CredInv'
<1>1. CredRowInv'
  BY DEF CredInv, CredRowInv, VerifiedWasOpened
<1>2. CredWorld
  BY WorldStays DEF CredInv
<1>3. SentInv'
  BY <1>1, <1>2, MailsKept DEF CredInv
<1>4. \A q : CredCallOK(q) => CredCallOK(q)'
  BY <1>1, <1>2, CallKept DEF CredInv
<1>5. CredCallsInv'
  <2>1. ASSUME NEW d \in CredCalls PROVE CredCallOK(ccall[d])'
    <3>1. PICK r : r = ccall[d]
      OBVIOUS
    <3>2. CredCallOK(r)'
      BY <1>4, <3>1 DEF CredInv, CredCallsInv
    <3> QED
      BY <3>1, <3>2
  <2> QED
    BY <2>1 DEF CredInv, CredCallsInv
<1>6. NewestInv'
  BY DEF CredInv, NewestInv, NewestLinkStands, CAt
<1> QED
  BY <1>1, <1>3, <1>5, <1>6 DEF CredInv
-----------------------------------------------------------------------------
(* The steps.                                                              *)

LEMMA BeginCredKeeps ==
  ASSUME CredBounds, CredInv, NEW c \in CredCalls, NEW q \in CredRequests, BeginCred(c, q)
  PROVE  CredInv'
<1>1. ~CAt(c, "mail")
  BY SMT DEF BeginCred, CAt, Spare
<1>2. CredCallOK(q)
  <2>1. CASE q = CredCall(resend_verification, "verify", 0, 0, 0)
    <3>1. q \in CredCallSet /\ q.todo = resend_verification /\ q.kind = "verify"
      BY <2>1, CredHandlers, SMT DEF CredCall, CredCallSet, CredTodos, LinkKinds, CredBounds
    <3> QED
      BY <3>1, CredHandlers, CredFirst, OfFamily DEF FamilyRule
  <2>2. CASE q = CredCall(change_password, "none", 0, 0, password)
    <3>1. q \in CredCallSet /\ q.todo = change_password
      BY <2>2, CredHandlers, SMT
      DEF CredCall, CredCallSet, CredTodos, CredBounds, CredInv, CredRowInv, CredTypeOK
    <3> QED
      BY <3>1, CredHandlers, OfFamily DEF FamilyRule
  <2>3. CASE \E a \in Addresses : q = CredCall(password_reset_start, "reset", a, 0, 0)
    <3>1. q \in CredCallSet /\ q.todo = password_reset_start /\ q.kind = "reset"
      BY <2>3, CredHandlers, SMT DEF CredCall, CredCallSet, CredTodos, LinkKinds, CredBounds, Addresses
    <3> QED
      BY <3>1, CredHandlers, OfFamily DEF FamilyRule
  <2>4. CASE \E a \in Addresses : q = CredCall(email_change_start, "change", a, 0, 0)
    <3>1. /\ q \in CredCallSet /\ q.todo = email_change_start /\ q.kind = "change"
          /\ q.addr \in Addresses
      BY <2>4, CredHandlers, SMT DEF CredCall, CredCallSet, CredTodos, LinkKinds, CredBounds, Addresses
    <3> QED
      BY <3>1, CredHandlers, OfFamily DEF FamilyRule
  <2>5. CASE \E t \in Mailed :
               q = CredCall(Opens(sent[t].kind), sent[t].kind, sent[t].addr, t, 0)
    <3>1. PICK t \in Mailed : q = CredCall(Opens(sent[t].kind), sent[t].kind, sent[t].addr, t, 0)
      BY <2>5
    <3>2. t \in 1 .. MaxTokens /\ SentOK(t, sent[t])
      BY <3>1 DEF Mailed, CredInv, SentInv
    <3>3. t \in 1 .. minted
      BY <3>2, SMT DEF SentOK, CredInv, CredRowInv
    <3>4. PICK k : k = sent[t].kind
      OBVIOUS
    <3>5. k \in LinkKinds
      BY <3>2, <3>4 DEF SentOK
    <3>6. \/ k = "verify" /\ Opens(k) = verify_email
          \/ k = "reset" /\ Opens(k) = password_reset_complete
          \/ k = "change" /\ Opens(k) = email_change_verify
      BY <3>5, SMT DEF Opens, LinkKinds
    <3>7. Opens(k) \in CredTodos
      BY <3>6, CredHandlers DEF CredTodos
    <3>8. /\ q \in CredCallSet /\ q.todo = Opens(k) /\ q.kind = k /\ q.tok = t
          /\ q.addr = sent[t].addr
      BY <3>1, <3>2, <3>3, <3>4, <3>5, <3>7, SMT DEF CredCall, CredCallSet, SentOK
    <3>9. q.tok \in 1 .. minted /\ Bound(q.kind, q.tok, q.addr)
      BY <3>2, <3>3, <3>4, <3>8 DEF SentOK
    <3>10. Opens(k) # <<"mark">> /\ Opens(k) # <<"commit">>
      <4>1. /\ verify_email # <<"commit">> /\ password_reset_complete # <<"mark">>
            /\ password_reset_complete # <<"commit">> /\ email_change_verify # <<"mark">>
        BY DEF verify_email, password_reset_complete, email_change_verify
      <4> QED
        BY <3>6, <4>1, CredFirst
    <3> QED
      BY <3>6, <3>8, <3>9, <3>10, CredHandlers, OfFamily DEF FamilyRule
  <2>6. CASE \E p \in Issued : q = CredCall(redeem_code, "none", 0, p, 0)
    <3>1. q \in CredCallSet /\ q.todo = redeem_code /\ q.tok \in Pairings
      BY <2>6, CredHandlers, SMT DEF CredCall, CredCallSet, CredTodos, CredBounds, Issued, Pairings
    <3> QED
      BY <3>1, CredHandlers, OfFamily DEF FamilyRule
  <2> QED
    BY <2>1, <2>2, <2>3, <2>4, <2>5, <2>6 DEF CredRequests
<1> QED
  BY <1>1, <1>2, CredQuiet DEF BeginCred

LEMMA CredFailKeeps ==
  ASSUME CredBounds, CredInv, NEW c \in CredCalls, CredFails(c)
  PROVE  CredInv'
<1>1. CASE ~CAt(c, "mail")
  BY <1>1, SpareOK, CredQuiet DEF CredFails
<1>2. CASE CAt(c, "mail")
  <2>1. CredRowInv' /\ PairInv' /\ CredWorld
    <3>1. UNCHANGED <<credRow, others, minted, proved, crossedMail, devices, codes, born, swept,
                      made>>
      BY DEF CredFails
    <3>2. CredWorld
      BY <3>1, WorldStays DEF CredInv
    <3> QED
      BY <3>1, <3>2
      DEF CredInv, CredRowInv, PairInv, CredTypeOK, VerifiedWasOpened, SweptArePaired
  <2>2. PICK k : k = ccall[c].kind
    OBVIOUS
  <2>3. k \in LinkKinds
    <3>1. ccall[c].todo \in Started
      BY <1>2, AtCred, NextCredTodo DEF CredInv, Started
    <3> QED
      BY <1>2, <2>2, <3>1, AtCred DEF CredInv, CredCallOK
  <2>4. newest' = [newest EXCEPT ![k] = 0]
    BY <1>2, <2>2 DEF CredFails
  <2>5. \A d \in CredCalls : d # c => ccall'[d] = ccall[d]
    BY DEF CredFails, CredInv, CredCallsInv
  <2>6. \A d \in CredCalls, j \in LinkKinds \ {k} :
          CAt(d, "mail") /\ ccall[d].kind = j => CAt(d, "mail")' /\ ccall'[d].kind = j
    BY <2>2, <2>5 DEF CAt
  <2>7. NewestInv'
    <3>1. newest' \in [LinkKinds -> Nat] /\ overtaken' = overtaken /\ token' = token
      <4>1. overtaken' = overtaken /\ token' = token
        BY DEF CredFails
      <4> QED
        BY <2>3, <2>4, <4>1 DEF CredInv, NewestInv
    <3>2. newest'[k] = 0 /\ \A j \in LinkKinds \ {k} : newest'[j] = newest[j]
      BY <2>3, <2>4 DEF CredInv, NewestInv
    <3> QED
      BY <2>6, <3>1, <3>2 DEF CredInv, NewestInv, NewestLinkStands
  <2> QED
    BY <2>1, <2>7, SpareOK, CredMove DEF CredFails
<1> QED
  BY <1>1, <1>2

LEMMA CredStopKeeps ==
  ASSUME CredBounds, CredInv, NEW c \in CredCalls, ccall' = [ccall EXCEPT ![c] = Spare],
         ~CAt(c, "mail"), UNCHANGED <<credRow, codes, devices, others, sent, minted, credGhosts>>
  PROVE  CredInv'
BY SpareOK, CredQuiet

LEMMA FindStartKeeps ==
  ASSUME CredBounds, CredInv, NEW c \in CredCalls, FindStart(c)
  PROVE  CredInv'
<1>q. PICK q : q = ccall[c]
  OBVIOUS
<1>r. PICK r : r = [q EXCEPT !.addr = IF q.kind = "verify" THEN email ELSE q.addr]
  OBVIOUS
<1>1. ccall' = [ccall EXCEPT ![c] = After(r)] \/ ccall' = [ccall EXCEPT ![c] = Spare]
  BY <1>q, <1>r DEF FindStart, CGoesIf
<1>2. /\ UNCHANGED <<credRow, codes, devices, others, sent, minted, credGhosts>>
      /\ CAt(c, "find")
  BY DEF FindStart
<1>3. ~CAt(c, "mail")
  BY <1>2 DEF CAt
<1>4. q \in CredCallSet /\ CredCallOK(q)
  BY <1>q, <1>2, AtCred DEF CredInv
<1>5. /\ r \in CredCallSet /\ r.todo = q.todo /\ r.kind = q.kind
      /\ q.kind = "verify" => r.addr = email
      /\ q.kind # "verify" => r.addr = q.addr
  BY <1>r, <1>4, SMT DEF CredCallSet, CredInv, CredRowInv, CredTypeOK, Addresses
<1>6. PICK u : u = Tail(q.todo)
  OBVIOUS
<1>7. \/ q.todo \in VerifyStart /\ u = <<"set_verify", "mail">>
      \/ q.todo \in ResetStart /\ u = <<"set_reset", "mail">>
      \/ q.todo \in ChangeStart /\ u = <<"set_pending", "mail">>
  BY <1>q, <1>2, <1>6, AtCred, NextCredTodo
  DEF CredInv, VerifyStart, ResetStart, ChangeStart
<1>8. u # <<>> /\ u \in CredTodos
  BY <1>7, SMT DEF CredTodos, VerifyStart, ResetStart, ChangeStart
<1>9. CredCallOK(After(r))
  <2>1. /\ After(r) \in CredCallSet /\ After(r).todo = u /\ After(r).kind = q.kind
        /\ After(r).addr = r.addr
    <3>1. r \in CredCallSet /\ u = Tail(r.todo)
      BY <1>5, <1>6
    <3>2. SameCall(r, After(r), u)
      BY <1>8, <3>1, AfterStep
    <3> QED
      BY <1>5, <3>2 DEF SameCall
  <2>2. CASE q.todo \in VerifyStart /\ u = <<"set_verify", "mail">>
    <3>1. q.kind = "verify" /\ u \in VerifyStart
      BY <1>4, <2>2 DEF CredCallOK, VerifyStart
    <3> QED
      BY <1>5, <2>1, <3>1, OfFamily DEF FamilyRule
  <2>3. CASE q.todo \in ResetStart /\ u = <<"set_reset", "mail">>
    <3>1. q.kind = "reset" /\ u \in ResetStart
      BY <1>4, <2>3 DEF CredCallOK, ResetStart
    <3> QED
      BY <2>1, <3>1, OfFamily DEF FamilyRule
  <2>4. CASE q.todo \in ChangeStart /\ u = <<"set_pending", "mail">>
    <3>1. q.kind = "change" /\ u \in ChangeStart /\ q.addr \in Addresses
      BY <1>4, <2>4 DEF CredCallOK, ChangeStart
    <3>2. r.addr = q.addr
      BY <1>5, <3>1
    <3> QED
      BY <2>1, <3>1, <3>2, OfFamily DEF FamilyRule
  <2> QED
    BY <1>7, <2>2, <2>3, <2>4
<1> QED
  BY <1>1, <1>2, <1>3, <1>9, CredQuiet, CredStopKeeps
LEMMA StoresKeeps ==
  ASSUME CredBounds, CredInv, NEW c \in CredCalls, NEW k \in LinkKinds, Stores(c, k),
         ccall[c] \in CredCallSet, ccall[c].kind = k, Tail(ccall[c].todo) = <<"mail">>,
         ~CAt(c, "mail"),
         k = "verify" => AddressOpened \/ ccall[c].addr = email,
         IF k = "change" THEN pending' = ccall[c].addr ELSE pending' = pending
  PROVE  CredInv'
<1>q. PICK q : q = ccall[c]
  OBVIOUS
<1>t. PICK t : t = minted + 1
  OBVIOUS
<1>r. PICK r : r = [q EXCEPT !.tok = t]
  OBVIOUS
<1>s. PICK s : s = After(r)
  OBVIOUS
<1>1. /\ minted < MaxTokens /\ minted' = t /\ token' = [token EXCEPT ![k] = t]
      /\ live' = [live EXCEPT ![k] = TRUE] /\ ccall' = [ccall EXCEPT ![c] = s]
  BY <1>q, <1>t, <1>r, <1>s DEF Stores, StoredToken, CGoes
<1>2. UNCHANGED <<email, verified, password, codes, devices, others, sent, credGhosts>>
  BY DEF Stores
<1>3. minted \in 1 .. MaxTokens /\ minted \in Nat /\ MaxTokens \in Nat
  BY SMT DEF CredInv, CredRowInv, CredBounds
<1>4. t \in Nat /\ t \in 1 .. MaxTokens /\ t \notin 1 .. minted /\ minted <= t
  BY <1>t, <1>1, <1>3, SMT
<1>5. /\ r \in CredCallSet /\ r.todo = q.todo /\ r.kind = k /\ r.addr = q.addr /\ r.tok = t
  BY <1>q, <1>r, <1>4 DEF CredCallSet
<1>6. <<"mail">> \in Started /\ <<"mail">> \in CredTodos /\ <<"mail">> # <<>>
  BY DEF CredTodos, Started
<1>7. s \in CredCallSet /\ s.todo = <<"mail">> /\ s.kind = k /\ s.addr = q.addr /\ s.tok = t
  <2>1. SameCall(r, After(r), <<"mail">>)
    BY <1>q, <1>5, <1>6, AfterStep
  <2> QED
    BY <1>s, <1>5, <2>1 DEF SameCall
<1>8. /\ token' \in [LinkKinds -> 0 .. MaxTokens] /\ token'[k] = t
      /\ \A j \in LinkKinds \ {k} : token'[j] = token[j]
  BY <1>1, <1>4, SMT DEF CredInv, CredRowInv, CredTypeOK
<1>9. CredWorld
  <2>1. \/ token'["change"] = token["change"] /\ pending' = pending
        \/ token'["change"] \notin 1 .. minted
    BY <1>4, <1>8 DEF LinkKinds
  <2>2. password <= password'
    BY <1>2, SMT DEF CredInv, CredRowInv, CredTypeOK
  <2> QED
    BY <1>1, <1>2, <1>4, <2>1, <2>2 DEF CredWorld
<1>10. CredRowInv'
  <2>1. pending' \in 0 .. MaxAddresses
    BY DEF CredInv, CredRowInv, CredTypeOK, CredCallSet
  <2>2. live' \in [LinkKinds -> BOOLEAN]
    BY <1>1 DEF CredInv, CredRowInv, CredTypeOK
  <2>3. CredTypeOK'
    BY <1>2, <1>8, <2>1, <2>2 DEF CredInv, CredRowInv, CredTypeOK
  <2>4. \A j \in LinkKinds : token'[j] <= minted'
    BY <1>1, <1>3, <1>4, <1>8, SMT DEF CredInv, CredRowInv, CredTypeOK
  <2>5. VerifiedWasOpened'
    BY <1>2 DEF CredInv, CredRowInv, VerifiedWasOpened
  <2> QED
    BY <1>1, <1>4, <2>3, <2>4, <2>5 DEF CredRowInv
<1>11. CredCallOK(s)'
  <2>1. s.tok \in 1 .. minted'
    BY <1>1, <1>4, <1>7, SMT
  <2>2. Bound(s.kind, s.tok, s.addr)'
    BY <1>q, <1>2, <1>7 DEF Bound, AddressOpened
  <2> QED
    BY <1>6, <1>7, <2>1, <2>2, OfFamily DEF FamilyRule
<1>12. NewestInv'
  <2>1. ccall'[c] = s /\ \A d \in CredCalls \ {c} : ccall'[d] = ccall[d]
    BY <1>1, OtherCalls DEF CredInv
  <2>2. CAt(c, "mail")' /\ ccall'[c].kind = k
    BY <1>6, <1>7, <2>1, CredTails DEF CAt
  <2>3. \A d \in CredCalls, j \in LinkKinds :
          CAt(d, "mail") /\ ccall[d].kind = j => CAt(d, "mail")' /\ ccall'[d].kind = j
    BY <2>1 DEF CAt
  <2> QED
    BY <1>2, <1>8, <2>2, <2>3 DEF CredInv, NewestInv, NewestLinkStands
<1>13. PairInv'
  BY <1>2 DEF CredInv, PairInv, SweptArePaired
<1> QED
  BY <1>1, <1>2, <1>9, <1>10, <1>11, <1>12, <1>13, CredMove

LEMMA SetTokenKeeps ==
  ASSUME CredBounds, CredInv, NEW c \in CredCalls,
         set_verification_token(c) \/ set_password_reset_token(c) \/ set_pending_email(c)
  PROVE  CredInv'
<1>1. CASE set_verification_token(c)
  <2>1. CAt(c, "set_verify") /\ Stores(c, "verify") /\ pending' = pending
    BY <1>1 DEF set_verification_token
  <2>2. /\ ccall[c] \in CredCallSet /\ CredCallOK(ccall[c])
        /\ ccall[c].todo = <<"set_verify", "mail">> /\ Tail(ccall[c].todo) = <<"mail">>
    BY <2>1, AtCred, NextCredTodo DEF CredInv
  <2>3. ccall[c].todo \in VerifyStart
    BY <2>2 DEF VerifyStart
  <2>4. ccall[c].kind = "verify" /\ (AddressOpened \/ ccall[c].addr = email)
    BY <2>2, <2>3 DEF CredCallOK
  <2>5. ~CAt(c, "mail") /\ "verify" \in LinkKinds
    BY <2>1 DEF CAt, LinkKinds
  <2> QED
    BY <2>1, <2>2, <2>4, <2>5, StoresKeeps
<1>2. CASE set_password_reset_token(c)
  <2>1. CAt(c, "set_reset") /\ Stores(c, "reset") /\ pending' = pending
    BY <1>2 DEF set_password_reset_token
  <2>2. /\ ccall[c] \in CredCallSet /\ CredCallOK(ccall[c])
        /\ ccall[c].todo = <<"set_reset", "mail">> /\ Tail(ccall[c].todo) = <<"mail">>
    BY <2>1, AtCred, NextCredTodo DEF CredInv
  <2>3. ccall[c].todo \in ResetStart
    BY <2>2 DEF ResetStart
  <2>4. ccall[c].kind = "reset"
    BY <2>2, <2>3 DEF CredCallOK
  <2>5. ~CAt(c, "mail") /\ "reset" \in LinkKinds
    BY <2>1 DEF CAt, LinkKinds
  <2> QED
    BY <2>1, <2>2, <2>4, <2>5, StoresKeeps
<1>3. CASE set_pending_email(c)
  <2>1. CAt(c, "set_pending") /\ Stores(c, "change") /\ pending' = ccall[c].addr
    BY <1>3 DEF set_pending_email
  <2>2. /\ ccall[c] \in CredCallSet /\ CredCallOK(ccall[c])
        /\ ccall[c].todo = <<"set_pending", "mail">> /\ Tail(ccall[c].todo) = <<"mail">>
    BY <2>1, AtCred, NextCredTodo DEF CredInv
  <2>3. ccall[c].todo \in ChangeStart
    BY <2>2 DEF ChangeStart
  <2>4. ccall[c].kind = "change"
    BY <2>2, <2>3 DEF CredCallOK
  <2>5. ~CAt(c, "mail") /\ "change" \in LinkKinds
    BY <2>1 DEF CAt, LinkKinds
  <2> QED
    BY <2>1, <2>2, <2>4, <2>5, StoresKeeps
<1> QED
  BY <1>1, <1>2, <1>3

LEMMA MailKeeps ==
  ASSUME CredBounds, CredInv, NEW c \in CredCalls, Mail(c)
  PROVE  CredInv'
<1>q. PICK q : q = ccall[c]
  OBVIOUS
<1>1. CAt(c, "mail")
  BY DEF Mail
<1>2. q \in CredCallSet /\ CredCallOK(q) /\ q.todo \in Started /\ Tail(q.todo) = <<>>
  BY <1>q, <1>1, AtCred, NextCredTodo DEF CredInv, Started
<1>3. q.kind \in LinkKinds /\ q.tok \in 1 .. minted /\ Bound(q.kind, q.tok, q.addr)
  BY <1>2 DEF CredCallOK
<1>4. ccall' = [ccall EXCEPT ![c] = Spare]
  BY <1>q, <1>2, AfterLast DEF Mail, CGoes
<1>5. /\ sent' = [sent EXCEPT ![q.tok] = [kind |-> q.kind, addr |-> q.addr]]
      /\ newest' = [newest EXCEPT ![q.kind] = q.tok]
      /\ overtaken' = [overtaken EXCEPT ![q.kind] = @ \/ token[q.kind] # q.tok]
  BY <1>q DEF Mail
<1>6. UNCHANGED <<credRow, codes, devices, others, minted, proved, crossedMail, born, swept, made>>
  BY DEF Mail
<1>7. CredWorld
  BY <1>6, WorldStays DEF CredInv
<1>8. CredRowInv' /\ PairInv'
  BY <1>6 DEF CredInv, CredRowInv, PairInv, CredTypeOK, VerifiedWasOpened, SweptArePaired
<1>9. CredCallsInv'
  BY <1>4, <1>7, <1>8, SpareOK, CredCallsKept DEF CredInv
<1>10. SentInv'
  <2>1. PICK m : m = [kind |-> q.kind, addr |-> q.addr]
    OBVIOUS
  <2>2. SentOK(q.tok, m)
    BY <1>2, <1>3, <2>1, SMT DEF SentOK, CredCallSet, CredInv, CredRowInv
  <2>3. \A t, n : SentOK(t, n) => SentOK(t, n)'
    BY <1>6 DEF SentOK, Bound, AddressOpened
  <2>4. q.tok \in 1 .. MaxTokens
    BY <1>3, SMT DEF CredInv, CredRowInv, CredBounds
  <2>5. sent'[q.tok] = m /\ \A t \in 1 .. MaxTokens : t # q.tok => sent'[t] = sent[t]
    BY <1>5, <2>1, <2>4 DEF CredInv, SentInv
  <2>6. DOMAIN sent' = 1 .. MaxTokens
    BY <1>5 DEF CredInv, SentInv
  <2>7. \A t \in 1 .. MaxTokens : sent'[t] = Unsent \/ SentOK(t, sent[t])'
    <3>1. SUFFICES ASSUME NEW t \in 1 .. MaxTokens, sent'[t] # Unsent PROVE SentOK(t, sent[t])'
      OBVIOUS
    <3>2. PICK n : n = sent'[t]
      OBVIOUS
    <3>3. SentOK(t, n)
      BY <2>2, <2>5, <3>1, <3>2 DEF CredInv, SentInv
    <3> QED
      BY <2>3, <3>2, <3>3
  <2> QED
    BY <2>6, <2>7 DEF SentInv
<1>11. NewestInv'
  <2>1. /\ newest' \in [LinkKinds -> Nat] /\ newest'[q.kind] = q.tok
        /\ \A j \in LinkKinds \ {q.kind} : newest'[j] = newest[j]
    BY <1>3, <1>5, SMT DEF CredInv, NewestInv, CredRowInv
  <2>2. /\ overtaken' \in [LinkKinds -> BOOLEAN]
        /\ overtaken'[q.kind] = (overtaken[q.kind] \/ token[q.kind] # q.tok)
        /\ \A j \in LinkKinds \ {q.kind} : overtaken'[j] = overtaken[j]
    BY <1>3, <1>5 DEF CredInv, NewestInv
  <2>3. \A d \in CredCalls \ {c} : ccall'[d] = ccall[d]
    BY <1>4, OtherCalls DEF CredInv
  <2>4. \A d \in CredCalls, j \in LinkKinds \ {q.kind} :
          CAt(d, "mail") /\ ccall[d].kind = j => CAt(d, "mail")' /\ ccall'[d].kind = j
    BY <1>q, <2>3 DEF CAt
  <2>5. token' = token
    BY <1>6
  <2>6. \A j \in LinkKinds \ {q.kind} : newest'[j] # 0 /\ ~overtaken'[j] =>
          \/ token'[j] = newest'[j]
          \/ \E d \in CredCalls : CAt(d, "mail")' /\ ccall'[d].kind = j
    BY <2>1, <2>2, <2>4, <2>5 DEF CredInv, NewestInv, NewestLinkStands
  <2>7. ~overtaken'[q.kind] => token'[q.kind] = newest'[q.kind]
    BY <2>1, <2>2, <2>5
  <2> QED
    BY <2>1, <2>2, <2>6, <2>7 DEF NewestInv, NewestLinkStands
<1> QED
  BY <1>8, <1>9, <1>10, <1>11 DEF CredInv
LEMMA FindTokenKeeps ==
  ASSUME CredBounds, CredInv, NEW c \in CredCalls, FindToken(c)
  PROVE  CredInv'
<1>q. PICK q : q = ccall[c]
  OBVIOUS
<1>1. CAt(c, "find_token") /\ ~CAt(c, "mail")
  BY DEF FindToken, CAt
<1>2. q \in CredCallSet /\ CredCallOK(q)
  BY <1>q, <1>1, AtCred DEF CredInv
<1>3. CASE ~(token[q.kind] = q.tok /\ live[q.kind])
  BY <1>q, <1>1, <1>3, CredStopKeeps DEF FindToken, CGoesIf
<1>4. CASE token[q.kind] = q.tok /\ live[q.kind]
  <2>1. ccall' = [ccall EXCEPT ![c] = After(q)] /\ proved' = proved \cup {q.addr}
    BY <1>q, <1>4 DEF FindToken, CGoesIf
  <2>2. UNCHANGED <<credRow, codes, devices, others, sent, minted, newest, overtaken, crossedMail,
                    born, swept, made>>
    BY DEF FindToken
  <2>3. CredWorld
    BY <2>1, <2>2, SMT DEF CredInv, CredRowInv, CredTypeOK, CredWorld
  <2>4. CredRowInv' /\ PairInv'
    BY <2>1, <2>2
    DEF CredInv, CredRowInv, PairInv, CredTypeOK, VerifiedWasOpened, SweptArePaired
  <2>5. PICK s : s = After(q)
    OBVIOUS
  <2>6. NewestInv'
    BY <1>1, <2>1, <2>2, <2>5, NewestKept DEF CredInv
  <2>7. PICK u : u = Tail(q.todo)
    OBVIOUS
  <2>8. \/ q.todo \in VerifyOpen /\ u = <<"mark">>
        \/ q.todo \in ResetOpen /\ u = <<"reset", "revoke_all">>
        \/ q.todo \in ChangeOpen /\ u = <<"commit">>
    BY <1>q, <1>1, <2>7, AtCred, NextCredTodo
    DEF CredInv, VerifyOpen, ResetOpen, ChangeOpen
  <2>9. /\ u # <<>> /\ u \in CredTodos
        /\ q.todo \in VerifyOpen => u \in VerifyOpen
        /\ q.todo \in ResetOpen => u \in ResetOpen
        /\ q.todo \in ChangeOpen => u \in ChangeOpen
    <3>1. u # <<>>
      BY <2>8, SMT
    <3>2. /\ <<"mark">> \in VerifyOpen /\ <<"reset", "revoke_all">> \in ResetOpen
          /\ <<"commit">> \in ChangeOpen
      BY DEF VerifyOpen, ResetOpen, ChangeOpen
    <3> QED
      BY <2>8, <3>1, <3>2, CredFamilies DEF CredTodos
  <2>10. SameCall(q, s, u)
    BY <1>2, <2>5, <2>7, <2>9, AfterStep
  <2>11. q.tok \in 1 .. minted /\ Bound(q.kind, q.tok, q.addr)
    BY <1>2, <2>8 DEF CredCallOK
  <2>12. q.tok \in 1 .. minted' /\ Bound(q.kind, q.tok, q.addr)'
    BY <2>2, <2>3, <2>11, BoundKept
  <2>13. \/ u \in VerifyOpen /\ q.kind = "verify"
         \/ u \in ResetOpen /\ q.kind = "reset"
         \/ u \in ChangeOpen /\ q.kind = "change"
    BY <1>2, <2>8, <2>9 DEF CredCallOK
  <2>14. CredCallOK(s)'
    <3>1. /\ s \in CredCallSet /\ s.todo = u /\ s.kind = q.kind /\ s.tok = q.tok
          /\ s.addr = q.addr /\ s.addr \in proved'
      BY <2>1, <2>10 DEF SameCall
    <3> QED
      BY <2>12, <2>13, <3>1, OfFamily DEF FamilyRule
  <2> QED
    BY <2>1, <2>2, <2>3, <2>4, <2>5, <2>6, <2>14, CredMove
<1> QED
  BY <1>3, <1>4

LEMMA WipesLeaves ==
  ASSUME CredBounds, CredInv, NEW c \in CredCalls, NEW k \in LinkKinds, Wipes(c, k),
         ~CAt(c, "mail"),
         NEW s, ccall' = [ccall EXCEPT ![c] = s], password' \in Nat, password <= password'
  PROVE  /\ token' \in [LinkKinds -> 0 .. MaxTokens] /\ live' \in [LinkKinds -> BOOLEAN]
         /\ token'[k] = 0 /\ \A j \in LinkKinds \ {k} : token'[j] = token[j]
         /\ \A j \in LinkKinds : token'[j] <= minted'
         /\ NewestInv' /\ PairInv'
<1>1. PICK b \in BOOLEAN : b = (token[k] # ccall[c].tok)
  OBVIOUS
<1>2. /\ token' = [token EXCEPT ![k] = 0] /\ live' = [live EXCEPT ![k] = FALSE]
      /\ newest' = IF b THEN newest ELSE [newest EXCEPT ![k] = 0]
      /\ overtaken' = [overtaken EXCEPT ![k] = @ \/ b]
      /\ UNCHANGED <<codes, devices, minted, born, swept, made>>
  BY <1>1 DEF Wipes
<1>3. /\ token' \in [LinkKinds -> 0 .. MaxTokens] /\ token'[k] = 0
      /\ \A j \in LinkKinds \ {k} : token'[j] = token[j]
  BY <1>2, SMT DEF CredBounds, CredInv, CredRowInv, CredTypeOK
<1>4. live' \in [LinkKinds -> BOOLEAN]
  BY <1>2 DEF CredInv, CredRowInv, CredTypeOK
<1>5. \A j \in LinkKinds : token'[j] <= minted'
  BY <1>2, <1>3, SMT DEF CredInv, CredRowInv
<1>6. /\ newest' \in [LinkKinds -> Nat] /\ (b \/ newest'[k] = 0)
      /\ \A j \in LinkKinds \ {k} : newest'[j] = newest[j]
  BY <1>2 DEF CredInv, NewestInv
<1>7. /\ overtaken' \in [LinkKinds -> BOOLEAN] /\ overtaken'[k] = (overtaken[k] \/ b)
      /\ \A j \in LinkKinds \ {k} : overtaken'[j] = overtaken[j]
  BY <1>2 DEF CredInv, NewestInv
<1>8. \A d \in CredCalls \ {c} : ccall'[d] = ccall[d]
  BY OtherCalls DEF CredInv
<1>9. \A d \in CredCalls, j \in LinkKinds :
        CAt(d, "mail") /\ ccall[d].kind = j => CAt(d, "mail")' /\ ccall'[d].kind = j
  BY <1>8 DEF CAt
<1>10. NewestInv'
  BY <1>3, <1>6, <1>7, <1>9 DEF CredInv, NewestInv, NewestLinkStands
<1>11. swept <= password'
  BY SMT DEF CredInv, PairInv, CredRowInv, CredTypeOK
<1>12. PairInv'
  BY <1>2, <1>11 DEF CredInv, PairInv, SweptArePaired
<1> QED
  BY <1>3, <1>4, <1>5, <1>10, <1>12

LEMMA MarkKeeps ==
  ASSUME CredBounds, CredInv, NEW c \in CredCalls, mark_email_verified(c)
  PROVE  CredInv'
<1>q. PICK q : q = ccall[c]
  OBVIOUS
<1>1. /\ CAt(c, "mark") /\ CGoes(c, q) /\ Wipes(c, "verify") /\ verified' = TRUE
      /\ UNCHANGED <<email, pending, password>> /\ ~CAt(c, "mail")
  BY <1>q DEF mark_email_verified, CAt
<1>2. CredCallOK(q) /\ q.todo = <<"mark">> /\ Tail(q.todo) = <<>>
  BY <1>q, <1>1, AtCred, NextCredTodo DEF CredInv
<1>3. ccall' = [ccall EXCEPT ![c] = Spare]
  BY <1>1, <1>2, AfterLast DEF CGoes
<1>4. AddressOpened
  <2>1. q.todo \in VerifyOpen
    BY <1>2 DEF VerifyOpen
  <2>2. q.kind = "verify" /\ Bound(q.kind, q.tok, q.addr) /\ q.addr \in proved
    BY <1>2, <2>1 DEF CredCallOK
  <2> QED
    BY <2>2 DEF Bound, AddressOpened
<1>5. "verify" \in LinkKinds /\ "change" \in LinkKinds /\ "change" # "verify"
  BY DEF LinkKinds
<1>6. password' \in Nat /\ password <= password'
  BY <1>1, SMT DEF CredInv, CredRowInv, CredTypeOK
<1>7. /\ token' \in [LinkKinds -> 0 .. MaxTokens] /\ live' \in [LinkKinds -> BOOLEAN]
      /\ token'["change"] = token["change"] /\ \A j \in LinkKinds : token'[j] <= minted'
      /\ NewestInv' /\ PairInv'
  BY <1>1, <1>3, <1>5, <1>6, WipesLeaves
<1>8. UNCHANGED <<devices, others, sent, minted, proved>> /\ (crossedMail => crossedMail')
  BY <1>1 DEF Wipes
<1>9. CredWorld
  BY <1>1, <1>6, <1>7, <1>8, SMT DEF CredWorld, CredInv, CredRowInv
<1>10. CredRowInv'
  <2>1. CredTypeOK'
    BY <1>1, <1>7, <1>8 DEF CredInv, CredRowInv, CredTypeOK
  <2>2. VerifiedWasOpened'
    BY <1>1, <1>4, <1>8 DEF VerifiedWasOpened, AddressOpened
  <2> QED
    BY <1>7, <1>8, <2>1, <2>2 DEF CredInv, CredRowInv
<1> QED
  BY <1>3, <1>7, <1>8, <1>9, <1>10, SpareOK, CredMove
\* The two steps that set a password leave the sweep to do.
LEMMA SweepAhead ==
  ASSUME CredBounds, CredInv, NEW c \in CredCalls, NEW q, q = ccall[c],
         q.todo = <<"reset", "revoke_all">> \/ q.todo = <<"update", "revoke_all">>,
         password' = password + 1, NEW s, s = After([q EXCEPT !.pw = password + 1])
  PROVE  CredCallOK(s)'
<1>1. PICK r : r = [q EXCEPT !.pw = password + 1]
  OBVIOUS
<1>2. password \in Nat /\ q \in CredCallSet
  BY SMT DEF CredInv, CredRowInv, CredTypeOK, CredCallsInv
<1>3. r \in CredCallSet /\ r.todo = q.todo /\ r.pw = password + 1
  BY <1>1, <1>2, SMT DEF CredCallSet
<1>4. Tail(r.todo) = <<"revoke_all">>
  BY <1>3, CredTails
<1>5. <<"revoke_all">> \in Sweeps /\ <<"revoke_all">> \in CredTodos /\ <<"revoke_all">> # <<>>
  BY DEF Sweeps, CredTodos
<1>6. SameCall(r, s, <<"revoke_all">>)
  BY <1>1, <1>3, <1>4, <1>5, AfterStep
<1>7. s \in CredCallSet /\ s.todo \in Sweeps /\ s.pw <= password'
  BY <1>2, <1>3, <1>5, <1>6, SMT DEF SameCall
<1> QED
  BY <1>7, OfFamily DEF FamilyRule

LEMMA ResetKeeps ==
  ASSUME CredBounds, CredInv, NEW c \in CredCalls, complete_password_reset(c)
  PROVE  CredInv'
<1>q. PICK q : q = ccall[c]
  OBVIOUS
<1>s. PICK s : s = After([q EXCEPT !.pw = password + 1])
  OBVIOUS
<1>1. /\ CAt(c, "reset") /\ ccall' = [ccall EXCEPT ![c] = s] /\ Wipes(c, "reset")
      /\ password < MaxPasswords /\ password' = password + 1
      /\ UNCHANGED <<email, verified, pending>> /\ ~CAt(c, "mail")
  BY <1>q, <1>s DEF complete_password_reset, CAt, CGoes
<1>2. q.todo = <<"reset", "revoke_all">>
  BY <1>q, <1>1, AtCred, NextCredTodo DEF CredInv
<1>3. CredCallOK(s)'
  BY <1>q, <1>s, <1>1, <1>2, SweepAhead
<1>4. "reset" \in LinkKinds /\ "change" \in LinkKinds /\ "change" # "reset"
  BY DEF LinkKinds
<1>5. password' \in Nat /\ password <= password' /\ password' \in 0 .. MaxPasswords
  BY <1>1, SMT DEF CredInv, CredRowInv, CredTypeOK, CredBounds
<1>6. /\ token' \in [LinkKinds -> 0 .. MaxTokens] /\ live' \in [LinkKinds -> BOOLEAN]
      /\ token'["change"] = token["change"] /\ \A j \in LinkKinds : token'[j] <= minted'
      /\ NewestInv' /\ PairInv'
  BY <1>1, <1>4, <1>5, WipesLeaves
<1>7. UNCHANGED <<devices, others, sent, minted, proved>> /\ (crossedMail => crossedMail')
  BY <1>1 DEF Wipes
<1>8. CredWorld
  BY <1>1, <1>5, <1>6, <1>7, SMT DEF CredWorld, CredInv, CredRowInv
<1>9. CredRowInv'
  <2>1. CredTypeOK'
    BY <1>1, <1>5, <1>6, <1>7 DEF CredInv, CredRowInv, CredTypeOK
  <2>2. VerifiedWasOpened'
    BY <1>1, <1>7 DEF CredInv, CredRowInv, VerifiedWasOpened
  <2> QED
    BY <1>6, <1>7, <2>1, <2>2 DEF CredInv, CredRowInv
<1> QED
  BY <1>1, <1>3, <1>6, <1>7, <1>8, <1>9, CredMove

LEMMA CommitKeeps ==
  ASSUME CredBounds, CredInv, NEW c \in CredCalls, commit_pending_email(c)
  PROVE  CredInv'
<1>q. PICK q : q = ccall[c]
  OBVIOUS
<1>1. CAt(c, "commit") /\ CGoes(c, q) /\ password' = password /\ ~CAt(c, "mail")
  BY <1>q DEF commit_pending_email, CAt
<1>2. CredCallOK(q) /\ q.todo = <<"commit">> /\ Tail(q.todo) = <<>>
  BY <1>q, <1>1, AtCred, NextCredTodo DEF CredInv
<1>3. ccall' = [ccall EXCEPT ![c] = Spare]
  BY <1>1, <1>2, AfterLast DEF CGoes
<1>4. CASE ~(pending # 0 /\ pending \notin others)
  BY <1>1, <1>3, <1>4, CredStopKeeps DEF commit_pending_email
<1>5. CASE pending # 0 /\ pending \notin others
  <2>1. Wipes(c, "change") /\ email' = pending /\ verified' = TRUE /\ pending' = 0
    BY <1>5 DEF commit_pending_email
  <2>2. password' \in Nat /\ password <= password' /\ "change" \in LinkKinds
    BY <1>1, SMT DEF CredInv, CredRowInv, CredTypeOK, LinkKinds
  <2>3. /\ token' \in [LinkKinds -> 0 .. MaxTokens] /\ live' \in [LinkKinds -> BOOLEAN]
        /\ token'["change"] = 0 /\ \A j \in LinkKinds : token'[j] <= minted'
        /\ NewestInv' /\ PairInv'
    BY <1>1, <1>3, <2>1, <2>2, WipesLeaves
  <2>4. /\ UNCHANGED <<devices, others, sent, minted, proved>> /\ (crossedMail => crossedMail')
        /\ token["change"] # q.tok => crossedMail'
    BY <1>q, <2>1 DEF Wipes
  <2>5. AddressOpened'
    <3>1. q.todo \in ChangeOpen
      BY <1>2 DEF ChangeOpen
    <3>2. q.kind = "change" /\ Bound(q.kind, q.tok, q.addr) /\ q.addr \in proved
      BY <1>2, <3>1 DEF CredCallOK
    <3> QED
      BY <2>1, <2>4, <3>2 DEF Bound, AddressOpened
  <2>6. CredWorld
    BY <2>2, <2>3, <2>4, <2>5, SMT DEF CredWorld, CredInv, CredRowInv
  <2>7. CredRowInv'
    <3>1. pending \in Addresses
      BY <1>5, SMT DEF CredInv, CredRowInv, CredTypeOK, Addresses, CredBounds
    <3>2. CredTypeOK'
      BY <1>1, <2>1, <2>3, <2>4, <3>1, SMT DEF CredInv, CredRowInv, CredTypeOK, CredBounds
    <3>3. VerifiedWasOpened'
      BY <2>5 DEF VerifiedWasOpened, AddressOpened
    <3> QED
      BY <2>3, <2>4, <3>2, <3>3 DEF CredInv, CredRowInv
  <2> QED
    BY <1>3, <2>3, <2>4, <2>6, <2>7, SpareOK, CredMove
<1> QED
  BY <1>4, <1>5

LEMMA CheckPasswordKeeps ==
  ASSUME CredBounds, CredInv, NEW c \in CredCalls, CheckPassword(c)
  PROVE  CredInv'
<1>q. PICK q : q = ccall[c]
  OBVIOUS
<1>1. /\ CAt(c, "check") /\ ~CAt(c, "mail")
      /\ UNCHANGED <<credRow, codes, devices, others, sent, minted, credGhosts>>
      /\ ccall' = [ccall EXCEPT ![c] = After(q)] \/ ccall' = [ccall EXCEPT ![c] = Spare]
  BY <1>q DEF CheckPassword, CGoesIf, CAt
<1>2. q \in CredCallSet /\ Tail(q.todo) = <<"update", "revoke_all">>
  BY <1>q, <1>1, AtCred, NextCredTodo DEF CredInv
<1>3. /\ <<"update", "revoke_all">> \in Plain /\ <<"update", "revoke_all">> \in CredTodos
      /\ <<"update", "revoke_all">> # <<>>
  BY DEF Plain, CredTodos
<1>4. SameCall(q, After(q), <<"update", "revoke_all">>)
  BY <1>2, <1>3, AfterStep
<1>5. CredCallOK(After(q))
  BY <1>3, <1>4, OfFamily DEF FamilyRule, SameCall
<1> QED
  BY <1>1, <1>5, CredQuiet, CredStopKeeps

LEMMA UpdateKeeps ==
  ASSUME CredBounds, CredInv, NEW c \in CredCalls, update_password(c)
  PROVE  CredInv'
<1>q. PICK q : q = ccall[c]
  OBVIOUS
<1>s. PICK s : s = After([q EXCEPT !.pw = password + 1])
  OBVIOUS
<1>1. /\ CAt(c, "update") /\ ccall' = [ccall EXCEPT ![c] = s]
      /\ password < MaxPasswords /\ password' = password + 1 /\ ~CAt(c, "mail")
      /\ UNCHANGED <<email, verified, pending, token, live, codes, devices, others, sent, minted,
                     credGhosts>>
  BY <1>q, <1>s DEF update_password, CAt, CGoes
<1>2. q.todo = <<"update", "revoke_all">>
  BY <1>q, <1>1, AtCred, NextCredTodo DEF CredInv
<1>3. CredCallOK(s)'
  BY <1>q, <1>s, <1>1, <1>2, SweepAhead
<1>4. password' \in Nat /\ password <= password' /\ password' \in 0 .. MaxPasswords
  BY <1>1, SMT DEF CredInv, CredRowInv, CredTypeOK, CredBounds
<1>5. CredWorld
  BY <1>1, <1>4, SMT DEF CredWorld, CredInv, CredRowInv
<1>6. CredRowInv'
  BY <1>1, <1>4 DEF CredInv, CredRowInv, CredTypeOK, VerifiedWasOpened
<1>7. NewestInv'
  BY <1>1, NewestKept DEF CredInv
<1>8. swept <= password'
  BY <1>4, SMT DEF CredInv, PairInv, CredRowInv, CredTypeOK
<1>9. PairInv'
  BY <1>1, <1>8 DEF CredInv, PairInv, SweptArePaired
<1> QED
  BY <1>1, <1>3, <1>5, <1>6, <1>7, <1>9, CredMove
LEMMA SweepKeeps ==
  ASSUME CredBounds, CredInv, NEW c \in CredCalls, revoke_all_for_user(c)
  PROVE  CredInv'
<1>q. PICK q : q = ccall[c]
  OBVIOUS
<1>1. /\ CAt(c, "revoke_all") /\ CGoes(c, q) /\ ~CAt(c, "mail")
      /\ devices' = [d \in Pairings |-> IF devices[d] = "none" THEN "none" ELSE "revoked"]
      /\ swept' = (IF q.pw > swept THEN q.pw ELSE swept)
      /\ UNCHANGED <<credRow, codes, others, sent, minted, proved, newest, overtaken, crossedMail,
                     born, made>>
  BY <1>q DEF revoke_all_for_user, CAt
<1>2. q \in CredCallSet /\ CredCallOK(q) /\ q.todo = <<"revoke_all">> /\ Tail(q.todo) = <<>>
  BY <1>q, <1>1, AtCred, NextCredTodo DEF CredInv
<1>3. ccall' = [ccall EXCEPT ![c] = Spare]
  BY <1>1, <1>2, AfterLast DEF CGoes
<1>4. q.pw <= password /\ q.pw \in Nat
  <2>1. q.todo \in Sweeps
    BY <1>2 DEF Sweeps
  <2> QED
    BY <1>2, <2>1 DEF CredCallOK, CredCallSet
<1>5. swept' \in Nat /\ swept' <= password'
  BY <1>1, <1>4 DEF CredInv, PairInv
<1>6. /\ devices' \in [Pairings -> {"none", "active", "revoked"}]
      /\ \A d \in Pairings : devices'[d] # "active"
  BY <1>1 DEF CredInv, CredRowInv, CredTypeOK
<1>7. PairInv'
  BY <1>1, <1>5, <1>6 DEF CredInv, PairInv, SweptArePaired
<1>8. CredWorld
  BY <1>1, WorldStays DEF CredInv
<1>9. CredRowInv'
  BY <1>1, <1>6 DEF CredInv, CredRowInv, CredTypeOK, VerifiedWasOpened
<1>10. NewestInv'
  BY <1>1, <1>3, NewestKept DEF CredInv
<1> QED
  BY <1>1, <1>3, <1>7, <1>8, <1>9, <1>10, SpareOK, CredMove

LEMMA RedeemKeeps ==
  ASSUME CredBounds, CredInv, NEW c \in CredCalls, RedeemCode(c)
  PROVE  CredInv'
<1>q. PICK q : q = ccall[c]
  OBVIOUS
<1>1. /\ CAt(c, "redeem") /\ CGoes(c, q) /\ ~CAt(c, "mail")
      /\ UNCHANGED <<credRow, others, sent, minted, proved, newest, overtaken, crossedMail, swept>>
  BY <1>q DEF RedeemCode, CAt
<1>2. q \in CredCallSet /\ CredCallOK(q) /\ q.todo = <<"redeem">> /\ Tail(q.todo) = <<>>
  BY <1>q, <1>1, AtCred, NextCredTodo DEF CredInv
<1>3. ccall' = [ccall EXCEPT ![c] = Spare]
  BY <1>1, <1>2, AfterLast DEF CGoes
<1>4. CASE codes[q.tok] # "open"
  BY <1>q, <1>1, <1>3, <1>4, CredStopKeeps DEF RedeemCode
<1>5. CASE codes[q.tok] = "open"
  <2>p. PICK p : p = q.tok
    OBVIOUS
  <2>1. p \in Pairings
    <3>1. q.todo \in Redeems
      BY <1>2 DEF Redeems
    <3> QED
      BY <1>2, <2>p, <3>1 DEF CredCallOK
  <2>2. /\ codes' = [codes EXCEPT ![p] = "redeemed"] /\ devices' = [devices EXCEPT ![p] = "active"]
        /\ born' = [born EXCEPT ![p] = password] /\ made' = [made EXCEPT ![p] = @ + 1]
    BY <1>q, <1>5, <2>p DEF RedeemCode
  <2>3. made[p] = 0 /\ password \in Nat /\ swept <= password
    BY <1>5, <2>p, <2>1, SMT DEF CredInv, PairInv, CredRowInv, CredTypeOK
  <2>4. /\ codes' \in [Pairings -> {"none", "open", "expired", "redeemed"}]
        /\ born' \in [Pairings -> Nat] /\ made' \in [Pairings -> Nat]
    BY <2>1, <2>2, <2>3, SMT DEF CredInv, PairInv
  <2>5. devices' \in [Pairings -> {"none", "active", "revoked"}]
    BY <2>1, <2>2 DEF CredInv, CredRowInv, CredTypeOK
  <2>6. \A d \in Pairings : made'[d] \in {0, 1} /\ (codes'[d] # "redeemed" => made'[d] = 0)
    BY <2>1, <2>2, <2>3, SMT DEF CredInv, PairInv
  <2>7. \A d \in Pairings : devices'[d] = "active" => born'[d] >= swept
    BY <2>1, <2>2, <2>3 DEF CredInv, PairInv, SweptArePaired, CredRowInv, CredTypeOK
  <2>8. PairInv'
    BY <1>1, <2>4, <2>6, <2>7 DEF CredInv, PairInv, SweptArePaired
  <2>9. CredWorld
    BY <1>1, WorldStays DEF CredInv
  <2>10. CredRowInv'
    BY <1>1, <2>5 DEF CredInv, CredRowInv, CredTypeOK, VerifiedWasOpened
  <2>11. NewestInv'
    BY <1>1, <1>3, NewestKept DEF CredInv
  <2> QED
    BY <1>1, <1>3, <2>8, <2>9, <2>10, <2>11, SpareOK, CredMove
<1> QED
  BY <1>4, <1>5

\* The steps that belong to no handler's call.
LEMMA OutsideKeeps ==
  ASSUME CredBounds, CredInv,
         \/ \E k \in LinkKinds : ExpireToken(k)
         \/ \E a \in Addresses : OtherSignsUp(a)
         \/ \E p \in Pairings : create_pairing(p) \/ ExpireCode(p) \/ RevokeDevice(p)
  PROVE  CredInv'
<1>1. ASSUME NEW k \in LinkKinds, ExpireToken(k) PROVE CredInv'
  <2>1. CredTypeOK'
    BY <1>1 DEF ExpireToken, CredInv, CredRowInv, CredTypeOK
  <2>2. PairInv'
    BY <1>1 DEF ExpireToken, CredInv, PairInv, SweptArePaired
  <2> QED
    BY <1>1, <2>1, <2>2, CredStill DEF ExpireToken
<1>2. ASSUME NEW a \in Addresses, OtherSignsUp(a) PROVE CredInv'
  <2>1. CredTypeOK'
    BY <1>2 DEF OtherSignsUp, CredInv, CredRowInv, CredTypeOK
  <2>2. PairInv'
    BY <1>2 DEF OtherSignsUp, CredInv, PairInv, SweptArePaired
  <2> QED
    BY <1>2, <2>1, <2>2, CredStill DEF OtherSignsUp
<1>3. ASSUME NEW p \in Pairings, create_pairing(p) \/ ExpireCode(p) PROVE CredInv'
  <2>1. /\ codes' = [codes EXCEPT ![p] = "open"] \/ codes' = [codes EXCEPT ![p] = "expired"]
        /\ codes[p] # "redeemed"
        /\ UNCHANGED <<credRow, devices, others, sent, ccall, minted, credGhosts>>
    BY <1>3 DEF create_pairing, ExpireCode
  <2>2. CredTypeOK'
    BY <2>1 DEF CredInv, CredRowInv, CredTypeOK
  <2>3. codes' \in [Pairings -> {"none", "open", "expired", "redeemed"}]
    BY <1>3, <2>1 DEF CredInv, PairInv
  <2>4. \A d \in Pairings : codes'[d] # "redeemed" => codes[d] # "redeemed"
    BY <2>1 DEF CredInv, PairInv
  <2>5. PairInv'
    BY <2>1, <2>3, <2>4 DEF CredInv, PairInv, SweptArePaired
  <2> QED
    BY <2>1, <2>2, <2>5, CredStill
<1>4. ASSUME NEW p \in Pairings, RevokeDevice(p) PROVE CredInv'
  <2>1. /\ devices' = [devices EXCEPT ![p] = "revoked"]
        /\ UNCHANGED <<credRow, codes, others, sent, ccall, minted, credGhosts>>
    BY <1>4 DEF RevokeDevice
  <2>2. CredTypeOK'
    BY <2>1 DEF CredInv, CredRowInv, CredTypeOK
  <2>3. \A d \in Pairings : devices'[d] = "active" => devices[d] = "active"
    BY <2>1 DEF CredInv, CredRowInv, CredTypeOK
  <2>4. PairInv'
    BY <2>1, <2>3 DEF CredInv, PairInv, SweptArePaired
  <2> QED
    BY <2>1, <2>2, <2>4, CredStill
<1> QED
  BY <1>1, <1>2, <1>3, <1>4

LEMMA CredNextKeeps ==
  ASSUME CredBounds, CredInv, [CredNext]_credVars
  PROVE  CredInv'
<1>1. CASE CredNext
  <2>1. ASSUME NEW c \in CredCalls, CredStep(c) PROVE CredInv'
    BY <2>1, FindStartKeeps, SetTokenKeeps, MailKeeps, FindTokenKeeps, MarkKeeps, ResetKeeps,
       CommitKeeps, CheckPasswordKeeps, UpdateKeeps, SweepKeeps, RedeemKeeps DEF CredStep
  <2> QED
    BY <1>1, <2>1, BeginCredKeeps, CredFailKeeps, OutsideKeeps DEF CredNext
<1>2. CASE UNCHANGED credVars
  <2>1. CredTypeOK' /\ PairInv'
    BY <1>2 DEF credVars, CredInv, CredRowInv, CredTypeOK, PairInv, SweptArePaired
  <2> QED
    BY <1>2, <2>1, CredStill DEF credVars
<1> QED
  BY <1>1, <1>2

LEMMA CredInitKeeps ==
  ASSUME CredBounds, CredInit
  PROVE  CredInv
<1> USE DEF LinkKinds
<1>1. CredRowInv
  <2>1. CredTypeOK
    <3>1. /\ email \in Addresses /\ pending \in 0 .. MaxAddresses
          /\ password \in 0 .. MaxPasswords
      BY SMT DEF CredInit, CredBounds, Addresses
    <3>2. token \in [LinkKinds -> 0 .. MaxTokens] /\ live \in [LinkKinds -> BOOLEAN]
      BY SMT DEF CredInit, CredBounds
    <3> QED
      BY <3>1, <3>2 DEF CredInit, CredTypeOK
  <2> QED
    BY <2>1, SMT DEF CredInit, CredRowInv, CredBounds, VerifiedWasOpened
<1>2. CredCallsInv
  BY SpareOK DEF CredInit, CredCallsInv
<1>3. SentInv
  <2>1. \A t \in 1 .. MaxTokens : t # 1 => sent[t] = Unsent
    BY DEF CredInit
  <2>2. SentOK(1, sent[1])
    BY SMT DEF CredInit, SentOK, Bound, AddressOpened, CredBounds
  <2> QED
    BY <2>1, <2>2 DEF CredInit, SentInv
<1>4. NewestInv
  BY DEF CredInit, NewestInv, NewestLinkStands
<1>5. PairInv
  BY SMT DEF CredInit, PairInv, SweptArePaired
<1> QED
  BY <1>1, <1>2, <1>3, <1>4, <1>5 DEF CredInv

\* Whatever the routes of the credentials do, and however their steps
\* interleave, fail and expire: a verified address is one whose own link was
\* opened, the newest link mailed is the stored one, a device that is not
\* revoked was paired under the password of the last sweep or a later one, and
\* a pairing code makes one device (with the excused overlaps named in
\* Credentials).
THEOREM CredentialsAreSound ==
  ASSUME CredBounds
  PROVE  CredSpec => []CredentialsSound
<1>1. CredInit => CredInv
  BY CredInitKeeps
<1>2. CredInv /\ [CredNext]_credVars => CredInv'
  BY CredNextKeeps
<1>3. CredInv => CredentialsSound
  BY SMT DEF CredInv, CredRowInv, NewestInv, PairInv, PairsOnce, CredentialsSound
<1> QED
  BY <1>1, <1>2, <1>3, PTL DEF CredSpec
=============================================================================
