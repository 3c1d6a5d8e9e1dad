-------------------------- MODULE TwoFactorProofs ---------------------------
(***************************************************************************)
(* The second factor is sound, for every set of calls in flight and every  *)
(* number of secrets, recovery codes, links and faults.                    *)
(*                                                                         *)
(* A handler is what is left of its steps, so the invariant speaks of the  *)
(* tails of the handlers (Todos).  A recovery code or a link that was used *)
(* up is in the hands of at most one call, which has yet to open a session *)
(* (SheetInv, MailInv); a disable that is past its clear leaves no codes   *)
(* (ClearedInv); and every call past the look at the limiter found room in *)
(* it, so failures and calls past it together stay below the limit and the *)
(* calls in flight (FailInv).                                              *)
(***************************************************************************)
EXTENDS TwoFactor, FiniteSetTheorems, TLAPS

\* Zenon proves a leaf unless the leaf cites SMT, which the arithmetic needs.
USE Zenon

FactorBounds ==
  /\ IsFiniteSet(TfaCalls) /\ TOTP_MAX_FAILS \in Nat \ {0}
  /\ MaxSecrets \in Nat /\ MaxSheets \in Nat /\ MaxLinks \in Nat

\* What is left of a handler's steps.
ConfirmTodos == {<<"find_off", "match", "mark", "regenerate">>, <<"match", "mark", "regenerate">>,
                 <<"mark", "regenerate">>}
RedeemTodos == {<<"consume", "fork">>, <<"fork">>}
SheetTodos == {<<"unlocked", "find_on", "look", "use", "record">>,
               <<"find_on", "look", "use", "record">>, <<"look", "use", "record">>,
               <<"use", "record">>, <<"record">>}
TotpTodos == {<<"unlocked", "find_on", "match", "record">>, <<"find_on", "match", "record">>,
              <<"match", "record">>}
OtherTodos == {<<>>, <<"find_off", "get_secret", "store">>, <<"get_secret", "store">>, <<"store">>,
               <<"clear", "disable">>, <<"disable">>, <<"find_on", "regenerate">>, <<"regenerate">>}
Todos == ConfirmTodos \cup RedeemTodos \cup SheetTodos \cup TotpTodos \cup OtherTodos

\* A challenge answered past the look at the limiter.
PastTodos == (SheetTodos \cup TotpTodos) \ {<<"unlocked", "find_on", "look", "use", "record">>,
                                           <<"unlocked", "find_on", "match", "record">>}
Past == {c \in TfaCalls : tcall[c].todo \in PastTodos}

CallSet == [todo : Todos, by : {"none", "totp", "sheet", "link"}, n : Nat, ok : BOOLEAN]

CallOK(q) ==
  /\ q \in CallSet
  /\ q.todo \in ConfirmTodos => q.n \in 0 .. MaxSecrets
  /\ q.todo = <<"mark", "regenerate">> => q.n # 0
  /\ q.todo \in RedeemTodos => q.n \in 1 .. MaxLinks
  /\ q.by = "sheet" => /\ q.n \in 1 .. printed /\ q.todo \in SheetTodos
                       /\ q.ok => q.todo = <<"record">>

\* A recovery code is spent once its row is used or gone, and the one call that
\* used it has yet to open a session or has opened it.
Spent(s) == s <= printed /\ ~Unused(s)
Holds(c, s) == tcall[c].by = "sheet" /\ tcall[c].ok /\ tcall[c].n = s
SheetInv ==
  \A s \in 1 .. MaxSheets :
    /\ opened[s] \in {0, 1} /\ (opened[s] = 1 => Spent(s))
    /\ \A c \in TfaCalls : Holds(c, s) => Spent(s) /\ opened[s] = 0
    /\ \A c, d \in TfaCalls : Holds(c, s) /\ Holds(d, s) => c = d

Forks(c, l) == tcall[c].todo = <<"fork">> /\ tcall[c].n = l
MailInv ==
  \A l \in 1 .. MaxLinks :
    /\ entered[l] \in {0, 1} /\ (entered[l] = 1 => links[l] = "dead")
    /\ \A c \in TfaCalls : Forks(c, l) => links[l] = "dead" /\ entered[l] = 0
    /\ \A c, d \in TfaCalls : Forks(c, l) /\ Forks(d, l) => c = d

\* No codes beside a disable that is past its clear.
ClearedInv == \A c \in TfaCalls : tcall[c].todo = <<"disable">> => sheet = 0 \/ tangled

\* Every call past the limiter found room in it.
FailInv == fails + Cardinality(Past) < TOTP_MAX_FAILS + Cardinality(TfaCalls)

RowInv == TfaTypeOK /\ FactorUsable /\ NoOrphanCodes /\ sheet <= printed
CallsInv == tcall \in [TfaCalls -> CallSet] /\ \A c \in TfaCalls : CallOK(tcall[c])
CountsInv == opened \in [1 .. MaxSheets -> Nat] /\ entered \in [1 .. MaxLinks -> Nat]

FactorInv == RowInv /\ CallsInv /\ CountsInv /\ SheetInv /\ MailInv /\ ClearedInv /\ FailInv

-----------------------------------------------------------------------------
LEMMA TodoTails ==
  /\ Head(<<"find_off", "match", "mark", "regenerate">>) = "find_off"
  /\ Tail(<<"find_off", "match", "mark", "regenerate">>) = <<"match", "mark", "regenerate">>
  /\ Head(<<"match", "mark", "regenerate">>) = "match"
  /\ Tail(<<"match", "mark", "regenerate">>) = <<"mark", "regenerate">>
  /\ Head(<<"mark", "regenerate">>) = "mark"
  /\ Tail(<<"mark", "regenerate">>) = <<"regenerate">>
  /\ Head(<<"consume", "fork">>) = "consume" /\ Tail(<<"consume", "fork">>) = <<"fork">>
  /\ Head(<<"fork">>) = "fork" /\ Tail(<<"fork">>) = <<>>
  /\ Head(<<"unlocked", "find_on", "look", "use", "record">>) = "unlocked"
  /\ Tail(<<"unlocked", "find_on", "look", "use", "record">>) =
       <<"find_on", "look", "use", "record">>
  /\ Head(<<"find_on", "look", "use", "record">>) = "find_on"
  /\ Tail(<<"find_on", "look", "use", "record">>) = <<"look", "use", "record">>
  /\ Head(<<"look", "use", "record">>) = "look"
  /\ Tail(<<"look", "use", "record">>) = <<"use", "record">>
  /\ Head(<<"use", "record">>) = "use" /\ Tail(<<"use", "record">>) = <<"record">>
  /\ Head(<<"record">>) = "record" /\ Tail(<<"record">>) = <<>>
  /\ Head(<<"unlocked", "find_on", "match", "record">>) = "unlocked"
  /\ Tail(<<"unlocked", "find_on", "match", "record">>) = <<"find_on", "match", "record">>
  /\ Head(<<"find_on", "match", "record">>) = "find_on"
  /\ Tail(<<"find_on", "match", "record">>) = <<"match", "record">>
  /\ Head(<<"match", "record">>) = "match" /\ Tail(<<"match", "record">>) = <<"record">>
  /\ Head(<<"find_off", "get_secret", "store">>) = "find_off"
  /\ Tail(<<"find_off", "get_secret", "store">>) = <<"get_secret", "store">>
  /\ Head(<<"get_secret", "store">>) = "get_secret"
  /\ Tail(<<"get_secret", "store">>) = <<"store">>
  /\ Head(<<"store">>) = "store" /\ Tail(<<"store">>) = <<>>
  /\ Head(<<"clear", "disable">>) = "clear" /\ Tail(<<"clear", "disable">>) = <<"disable">>
  /\ Head(<<"disable">>) = "disable" /\ Tail(<<"disable">>) = <<>>
  /\ Head(<<"find_on", "regenerate">>) = "find_on"
  /\ Tail(<<"find_on", "regenerate">>) = <<"regenerate">>
  /\ Head(<<"regenerate">>) = "regenerate" /\ Tail(<<"regenerate">>) = <<>>
  /\ <<"match", "mark", "regenerate">>[2] = "mark" /\ <<"match", "record">>[2] = "record"
BY SMT

\* Where each step leads.
StepsOn(t) ==
  /\ Head(t) = "find_off" =>
       \/ t = <<"find_off", "get_secret", "store">> /\ Tail(t) = <<"get_secret", "store">>
       \/ /\ t = <<"find_off", "match", "mark", "regenerate">>
          /\ Tail(t) = <<"match", "mark", "regenerate">>
  /\ Head(t) = "find_on" =>
       \/ t = <<"find_on", "regenerate">> /\ Tail(t) = <<"regenerate">>
       \/ t = <<"find_on", "match", "record">> /\ Tail(t) = <<"match", "record">>
       \/ t = <<"find_on", "look", "use", "record">> /\ Tail(t) = <<"look", "use", "record">>
  /\ Head(t) = "get_secret" => t = <<"get_secret", "store">> /\ Tail(t) = <<"store">>
  /\ Head(t) \in {"store", "disable", "regenerate", "record", "fork"} =>
       t = <<Head(t)>> /\ Tail(t) = <<>>
  /\ Head(t) = "match" =>
       \/ t = <<"match", "mark", "regenerate">> /\ t[2] = "mark"
            /\ Tail(t) = <<"mark", "regenerate">>
       \/ t = <<"match", "record">> /\ t[2] = "record" /\ Tail(t) = <<"record">>
  /\ Head(t) = "mark" => t = <<"mark", "regenerate">> /\ Tail(t) = <<"regenerate">>
  /\ Head(t) = "clear" => t = <<"clear", "disable">> /\ Tail(t) = <<"disable">>
  /\ Head(t) = "look" => /\ t = <<"look", "use", "record">> /\ Tail(t) = <<"use", "record">>
                         /\ Tail(Tail(t)) = <<"record">>
  /\ Head(t) = "use" => t = <<"use", "record">> /\ Tail(t) = <<"record">>
  /\ Head(t) = "unlocked" =>
       \/ /\ t = <<"unlocked", "find_on", "look", "use", "record">>
          /\ Tail(t) = <<"find_on", "look", "use", "record">>
       \/ /\ t = <<"unlocked", "find_on", "match", "record">>
          /\ Tail(t) = <<"find_on", "match", "record">>
  /\ Head(t) = "consume" => t = <<"consume", "fork">> /\ Tail(t) = <<"fork">>

LEMMA NextTodo ==
  ASSUME NEW t \in Todos, t # <<>>
  PROVE  StepsOn(t)
<1>1. CASE t \in ConfirmTodos
  BY <1>1, TodoTails DEF ConfirmTodos, StepsOn
<1>2. CASE t \in RedeemTodos
  BY <1>2, TodoTails DEF RedeemTodos, StepsOn
<1>3. CASE t \in SheetTodos
  BY <1>3, TodoTails DEF SheetTodos, StepsOn
<1>4. CASE t \in TotpTodos
  BY <1>4, TodoTails DEF TotpTodos, StepsOn
<1>5. CASE t \in OtherTodos
  BY <1>5, TodoTails DEF OtherTodos, StepsOn
<1> QED
  BY <1>1, <1>2, <1>3, <1>4, <1>5 DEF Todos

LEMMA Groups ==
  /\ \A t \in ConfirmTodos : t \notin RedeemTodos /\ t \notin SheetTodos /\ t \notin TotpTodos
  /\ \A t \in RedeemTodos : t \notin SheetTodos /\ t \notin TotpTodos
  /\ \A t \in SheetTodos : t \notin TotpTodos
  /\ \A t \in OtherTodos : /\ t \notin ConfirmTodos /\ t \notin RedeemTodos
                            /\ t \notin SheetTodos /\ t \notin TotpTodos
<1>1. \A t \in ConfirmTodos : t \notin RedeemTodos /\ t \notin SheetTodos /\ t \notin TotpTodos
  BY SMT DEF ConfirmTodos, RedeemTodos, SheetTodos, TotpTodos
<1>2. \A t \in RedeemTodos : t \notin SheetTodos /\ t \notin TotpTodos
  BY SMT DEF RedeemTodos, SheetTodos, TotpTodos
<1>3. \A t \in SheetTodos : t \notin TotpTodos
  BY SMT DEF SheetTodos, TotpTodos
<1>4. \A t \in OtherTodos : t \notin ConfirmTodos
  BY SMT DEF OtherTodos, ConfirmTodos
<1>5. \A t \in OtherTodos : t \notin RedeemTodos
  BY SMT DEF OtherTodos, RedeemTodos
<1>6. \A t \in OtherTodos : t \notin SheetTodos
  BY SMT DEF OtherTodos, SheetTodos
<1>7. \A t \in OtherTodos : t \notin TotpTodos
  BY SMT DEF OtherTodos, TotpTodos
<1> QED
  BY <1>1, <1>2, <1>3, <1>4, <1>5, <1>6, <1>7

\* A handler stays in its family and passes the guarded points in order.
LEMMA Onward ==
  /\ \A t \in ConfirmTodos : Tail(t) \in ConfirmTodos \/ Tail(t) = <<"regenerate">>
  /\ \A t \in RedeemTodos : Tail(t) \in RedeemTodos \/ Tail(t) = <<>>
  /\ \A t \in SheetTodos : Tail(t) \in SheetTodos \/ Tail(t) = <<>>
  /\ \A t \in TotpTodos : Tail(t) \in TotpTodos \/ Tail(t) = <<"record">>
  /\ \A t \in OtherTodos : t # <<>> => Tail(t) \in OtherTodos
  /\ <<>> \in OtherTodos /\ <<"regenerate">> \in OtherTodos /\ <<"record">> \in SheetTodos
<1>1. \A t \in ConfirmTodos : Tail(t) \in ConfirmTodos \/ Tail(t) = <<"regenerate">>
  BY TodoTails DEF ConfirmTodos
<1>2. \A t \in RedeemTodos : Tail(t) \in RedeemTodos \/ Tail(t) = <<>>
  BY TodoTails DEF RedeemTodos
<1>3. \A t \in SheetTodos : Tail(t) \in SheetTodos \/ Tail(t) = <<>>
  BY TodoTails DEF SheetTodos
<1>4. \A t \in TotpTodos : Tail(t) \in TotpTodos \/ Tail(t) = <<"record">>
  BY TodoTails DEF TotpTodos
<1>5. \A t \in OtherTodos : t # <<>> => Tail(t) \in OtherTodos
  BY TodoTails DEF OtherTodos
<1>6. <<>> \in OtherTodos /\ <<"regenerate">> \in OtherTodos /\ <<"record">> \in SheetTodos
  BY DEF OtherTodos, SheetTodos
<1> QED
  BY <1>1, <1>2, <1>3, <1>4, <1>5, <1>6

LEMMA TailGroups ==
  ASSUME NEW t \in Todos, t # <<>>, NEW u, u = Tail(t)
  PROVE  /\ u \in Todos
         /\ u \in ConfirmTodos => t \in ConfirmTodos
         /\ u \in RedeemTodos => t \in RedeemTodos
         /\ t \in SheetTodos => u = <<>> \/ u \in SheetTodos
         /\ u \in PastTodos => t \in PastTodos \/ Head(t) = "unlocked"
         /\ u = <<"fork">> => Head(t) = "consume"
         /\ u = <<"disable">> => Head(t) = "clear"
         /\ u = <<"mark", "regenerate">> => Head(t) = "match"
         /\ t = <<"record">> => u = <<>>
<1>1. u \in Todos
  BY Onward DEF Todos
<1>2. u \in ConfirmTodos => t \in ConfirmTodos
  BY Onward, Groups DEF Todos
<1>9. u \in RedeemTodos => t \in RedeemTodos
  BY Onward, Groups DEF Todos
<1>3. t \in SheetTodos => u = <<>> \/ u \in SheetTodos
  BY Onward
<1>4. u \in PastTodos => t \in PastTodos \/ Head(t) = "unlocked"
  <2>1. u \in SheetTodos \cup TotpTodos => t \in SheetTodos \cup TotpTodos
    BY Onward, Groups DEF Todos
  <2> QED
    BY <2>1, TodoTails DEF PastTodos
<1>5. u = <<"fork">> => Head(t) = "consume"
  BY SMT DEF Todos, ConfirmTodos, RedeemTodos, SheetTodos, TotpTodos, OtherTodos
<1>6. u = <<"disable">> => Head(t) = "clear"
  BY SMT DEF Todos, ConfirmTodos, RedeemTodos, SheetTodos, TotpTodos, OtherTodos
<1>7. u = <<"mark", "regenerate">> => Head(t) = "match"
  BY SMT DEF Todos, ConfirmTodos, RedeemTodos, SheetTodos, TotpTodos, OtherTodos
<1>8. t = <<"record">> => u = <<>>
  BY TodoTails
<1> QED
  BY <1>1, <1>2, <1>9, <1>3, <1>4, <1>5, <1>6, <1>7, <1>8

LEMMA Handlers ==
  /\ setup \in OtherTodos /\ disable \in OtherTodos /\ regenerate_recovery \in OtherTodos
  /\ confirm \in ConfirmTodos /\ confirm # <<"mark", "regenerate">> /\ redeem \in RedeemTodos
  /\ verify_login("totp") = <<"unlocked", "find_on", "match", "record">>
  /\ verify_login("sheet") = <<"unlocked", "find_on", "look", "use", "record">>
<1>1. /\ setup \in OtherTodos /\ disable \in OtherTodos /\ regenerate_recovery \in OtherTodos
      /\ confirm \in ConfirmTodos /\ redeem \in RedeemTodos
  BY DEF setup, disable, regenerate_recovery, confirm, redeem, OtherTodos, ConfirmTodos,
               RedeemTodos
<1>2. confirm # <<"mark", "regenerate">>
  BY TodoTails DEF confirm
<1> QED
  BY <1>1, <1>2 DEF verify_login

-----------------------------------------------------------------------------
(* What a step of one call leaves of the others.                           *)

LEMMA Others ==
  ASSUME CallsInv, NEW c \in TfaCalls, NEW q, tcall' = [tcall EXCEPT ![c] = q]
  PROVE  tcall'[c] = q /\ \A d \in TfaCalls \ {c} : tcall'[d] = tcall[d]
BY DEF CallsInv

LEMMA CallsKept ==
  ASSUME CallsInv, NEW c \in TfaCalls, NEW q, tcall' = [tcall EXCEPT ![c] = q],
         printed \in Nat, printed' \in Nat, printed <= printed',
         CallOK(q)
  PROVE  CallsInv'
<1>1. tcall'[c] = q /\ \A d \in TfaCalls \ {c} : tcall'[d] = tcall[d]
  BY Others
<1>2. \A d \in TfaCalls : CallOK(tcall[d])'
  BY <1>1, SMT DEF CallsInv, CallOK
<1>3. q \in CallSet
  BY DEF CallOK
<1> QED
  BY <1>2, <1>3 DEF CallsInv

LEMMA ClearedKept ==
  ASSUME CallsInv, ClearedInv, NEW c \in TfaCalls, NEW q, tcall' = [tcall EXCEPT ![c] = q],
         q.todo = <<"disable">> => sheet' = 0 \/ tangled',
         \/ UNCHANGED <<sheet, tangled>>
         \/ \A d \in TfaCalls : tcall[d].todo = <<"disable">> => sheet' = 0 \/ tangled'
  PROVE  ClearedInv'
<1>1. tcall'[c] = q /\ \A d \in TfaCalls \ {c} : tcall'[d] = tcall[d]
  BY Others
<1> QED
  BY <1>1, SMT DEF ClearedInv

LEMMA SheetKept ==
  ASSUME CallsInv, SheetInv, NEW c \in TfaCalls, NEW q, tcall' = [tcall EXCEPT ![c] = q],
         q.by = "sheet" => ~q.ok, UNCHANGED opened,
         \A s \in 1 .. MaxSheets : Spent(s) => Spent(s)'
  PROVE  SheetInv'
<1>1. tcall'[c] = q /\ \A d \in TfaCalls \ {c} : tcall'[d] = tcall[d]
  BY Others
<1>2. \A d \in TfaCalls, s \in 1 .. MaxSheets : Holds(d, s)' => Holds(d, s)
  BY <1>1 DEF Holds
<1> QED
  BY <1>2 DEF SheetInv

LEMMA MailKept ==
  ASSUME CallsInv, MailInv, NEW c \in TfaCalls, NEW q, tcall' = [tcall EXCEPT ![c] = q],
         q.todo # <<"fork">>, UNCHANGED entered,
         \A l \in 1 .. MaxLinks : links[l] = "dead" => links'[l] = "dead"
  PROVE  MailInv'
<1>1. tcall'[c] = q /\ \A d \in TfaCalls \ {c} : tcall'[d] = tcall[d]
  BY Others
<1>2. \A d \in TfaCalls, l \in 1 .. MaxLinks : Forks(d, l)' => Forks(d, l)
  BY <1>1 DEF Forks
<1> QED
  BY <1>2 DEF MailInv

LEMMA PastSize ==
  ASSUME FactorBounds, CallsInv
  PROVE  /\ IsFiniteSet(Past) /\ Cardinality(Past) \in Nat
         /\ Cardinality(TfaCalls) \in Nat /\ Cardinality(Past) <= Cardinality(TfaCalls)
<1>1. Past \subseteq TfaCalls
  BY DEF Past
<1> QED
  BY <1>1, FS_Subset, FS_CardinalityType DEF FactorBounds

LEMMA FailKept ==
  ASSUME FactorBounds, CallsInv, CallsInv', FailInv, NEW c \in TfaCalls, NEW q,
         tcall' = [tcall EXCEPT ![c] = q],
         q.todo \in PastTodos => tcall[c].todo \in PastTodos,
         fails \in Nat, fails' \in {fails, 0}
  PROVE  FailInv'
<1>1. Past' \subseteq Past
  BY Others DEF Past
<1>2. Cardinality(Past') <= Cardinality(Past) /\ Cardinality(Past') \in Nat
  BY <1>1, PastSize, FS_Subset, FS_CardinalityType
<1> QED
  BY <1>2, PastSize, SMT DEF FailInv, FactorBounds

\* Every step but those that look at the limiter, use a code or a link, or
\* answer.
LEMMA QuietCall ==
  ASSUME FactorBounds, FactorInv, NEW c \in TfaCalls, NEW q, tcall' = [tcall EXCEPT ![c] = q],
         printed \in Nat, printed' \in Nat, printed <= printed',
         CallOK(q), RowInv',
         q.todo \in PastTodos => tcall[c].todo \in PastTodos,
         q.by = "sheet" => ~q.ok, q.todo # <<"fork">>,
         q.todo = <<"disable">> => sheet' = 0 \/ tangled',
         \/ UNCHANGED <<sheet, tangled>>
         \/ \A d \in TfaCalls : tcall[d].todo = <<"disable">> => sheet' = 0 \/ tangled',
         \A s \in 1 .. MaxSheets : Spent(s) => Spent(s)',
         UNCHANGED <<opened, entered, links, fails>>
  PROVE  FactorInv'
<1>1. CallsInv'
  BY CallsKept DEF FactorInv
<1>2. SheetInv' /\ MailInv'
  BY SheetKept, MailKept DEF FactorInv
<1>3. ClearedInv'
  BY ClearedKept DEF FactorInv
<1>4. FailInv'
  BY <1>1, FailKept DEF FactorInv, RowInv, TfaTypeOK
<1> QED
  BY <1>1, <1>2, <1>3, <1>4 DEF FactorInv, CountsInv

USE DEF tfaRow, tfaCodes, tfaCounts, tfaGhosts

LEMMA RestingOK ==
  /\ CallOK(Resting) /\ Resting.todo \notin PastTodos /\ Resting.by # "sheet"
  /\ Resting.todo # <<"fork">> /\ Resting.todo # <<"disable">>
<1>1. <<>> \in OtherTodos /\ Resting = [todo |-> <<>>, by |-> "none", n |-> 0, ok |-> FALSE]
  BY DEF OtherTodos, Resting
<1>2. /\ <<>> \notin ConfirmTodos /\ <<>> \notin RedeemTodos /\ <<>> \notin SheetTodos
      /\ <<>> \notin TotpTodos
  BY <1>1, Groups
<1>3. <<>> # <<"fork">> /\ <<>> # <<"disable">> /\ <<>> # <<"mark", "regenerate">>
  OBVIOUS
<1>4. <<>> \notin PastTodos /\ <<>> \in Todos
  BY <1>1, <1>2 DEF PastTodos, Todos
<1> QED
  BY <1>1, <1>2, <1>3, <1>4 DEF CallOK, CallSet

\* A step that changes the call and nothing else.
LEMMA CallOnly ==
  ASSUME FactorBounds, FactorInv, NEW c \in TfaCalls, NEW q, tcall' = [tcall EXCEPT ![c] = q],
         CallOK(q), q.todo \in PastTodos => tcall[c].todo \in PastTodos,
         q.by = "sheet" => ~q.ok, q.todo # <<"fork">>, q.todo # <<"disable">>,
         UNCHANGED <<tfaRow, tfaCodes, links, fails, tfaCounts, tfaGhosts>>,
         app' \in 0 .. MaxSecrets
  PROVE  FactorInv'
<1>1. printed \in Nat
  BY SMT DEF FactorInv, RowInv, TfaTypeOK, FactorBounds
<1>2. RowInv'
  BY DEF FactorInv, RowInv, TfaTypeOK, FactorUsable, NoOrphanCodes
<1>3. \A s \in 1 .. MaxSheets : Spent(s) => Spent(s)'
  BY DEF Spent, Unused
<1>4. printed' \in Nat /\ printed <= printed'
  BY <1>1, SMT
<1> QED
  BY <1>1, <1>2, <1>3, <1>4, QuietCall

LEMMA StopKeeps ==
  ASSUME FactorBounds, FactorInv, NEW c \in TfaCalls, Stops(c),
         UNCHANGED <<tfaRow, tfaCodes, links, fails, tfaCounts, tfaGhosts>>,
         app' \in 0 .. MaxSecrets
  PROVE  FactorInv'
BY RestingOK, CallOnly DEF Stops

\* The next step of a handler.
LEMMA GoesOn ==
  ASSUME CallsInv, NEW c \in TfaCalls, tcall[c].todo # <<>>, Goes(c)
  PROVE  /\ tcall' = [tcall EXCEPT ![c] = NextCall(tcall[c])]
         /\ NextCall(tcall[c]).by = "sheet" => ~NextCall(tcall[c]).ok
         /\ Head(tcall[c].todo) \notin {"unlocked", "match"} =>
              /\ CallOK(NextCall(tcall[c]))
              /\ NextCall(tcall[c]).todo \in PastTodos => tcall[c].todo \in PastTodos
         /\ NextCall(tcall[c]).todo = <<"fork">> => Head(tcall[c].todo) = "consume"
         /\ NextCall(tcall[c]).todo = <<"disable">> => Head(tcall[c].todo) = "clear"
<1> DEFINE q == tcall[c]
<1>1. CallOK(q) /\ q \in CallSet /\ q.todo \in Todos
  BY DEF CallsInv, CallOK, CallSet
<1>2. tcall' = [tcall EXCEPT ![c] = NextCall(q)]
  BY DEF Goes
<1>3. CASE Tail(q.todo) = <<>>
  <2>1. NextCall(q) = Resting
    BY <1>3 DEF NextCall
  <2> QED
    BY <1>2, <2>1, RestingOK
<1>4. CASE Tail(q.todo) # <<>>
  <2>1. PICK u : u = Tail(q.todo)
    OBVIOUS
  <2>2. NextCall(q) = [q EXCEPT !.todo = u]
    BY <1>4, <2>1 DEF NextCall
  <2>3. PICK r : r = NextCall(q)
    OBVIOUS
  <2>4. r.todo = u /\ r.by = q.by /\ r.n = q.n /\ r.ok = q.ok
    BY <1>1, <2>2, <2>3 DEF CallSet
  <2>5. /\ u \in Todos
        /\ u \in ConfirmTodos => q.todo \in ConfirmTodos
        /\ u \in RedeemTodos => q.todo \in RedeemTodos
        /\ q.todo \in SheetTodos => u \in SheetTodos
        /\ u \in PastTodos => q.todo \in PastTodos \/ Head(q.todo) = "unlocked"
        /\ u = <<"fork">> => Head(q.todo) = "consume"
        /\ u = <<"disable">> => Head(q.todo) = "clear"
        /\ u = <<"mark", "regenerate">> => Head(q.todo) = "match"
        /\ q.todo # <<"record">>
    BY <1>1, <1>4, <2>1, TailGroups
  <2>6. r \in CallSet
    BY <1>1, <2>2, <2>3, <2>5 DEF CallSet
  <2>7. r.by = "sheet" => ~r.ok
    BY <1>1, <2>4, <2>5 DEF CallOK
  <2>8. Head(q.todo) # "match" => CallOK(r)
    BY <1>1, <2>4, <2>5, <2>6, <2>7 DEF CallOK
  <2> QED
    BY <1>2, <2>3, <2>4, <2>5, <2>7, <2>8
<1> QED
  BY <1>3, <1>4

LEMMA GoKeeps ==
  ASSUME FactorBounds, FactorInv, NEW c \in TfaCalls, Goes(c), tcall[c].todo # <<>>,
         Head(tcall[c].todo) \notin {"unlocked", "match", "consume", "clear"},
         UNCHANGED <<tfaRow, tfaCodes, links, fails, tfaCounts, tfaGhosts>>,
         app' \in 0 .. MaxSecrets
  PROVE  FactorInv'
<1> DEFINE q == NextCall(tcall[c])
<1>1. /\ tcall' = [tcall EXCEPT ![c] = q] /\ CallOK(q)
      /\ q.todo \in PastTodos => tcall[c].todo \in PastTodos
      /\ (q.by = "sheet" => ~q.ok) /\ q.todo # <<"fork">> /\ q.todo # <<"disable">>
  BY GoesOn DEF FactorInv
<1> QED
  BY <1>1, CallOnly

LEMMA FindUserKeeps ==
  ASSUME FactorBounds, FactorInv, NEW c \in TfaCalls, FindUser(c)
  PROVE  FactorInv'
<1>1. /\ Goes(c) \/ Stops(c)
      /\ tcall[c].todo # <<>> /\ Head(tcall[c].todo) \in {"find_off", "find_on"}
      /\ UNCHANGED <<tfaRow, tfaCodes, links, fails, app, tfaCounts, tfaGhosts>>
  BY DEF FindUser, At, GoesIf
<1>2. app' \in 0 .. MaxSecrets
  BY <1>1 DEF FactorInv, RowInv, TfaTypeOK
<1> QED
  BY <1>1, <1>2, StopKeeps, GoKeeps

LEMMA GetSecretKeeps ==
  ASSUME FactorBounds, FactorInv, NEW c \in TfaCalls, GetSecret(c)
  PROVE  FactorInv'
<1>1. /\ Goes(c) \/ Stops(c)
      /\ tcall[c].todo # <<>> /\ Head(tcall[c].todo) = "get_secret"
      /\ UNCHANGED <<tfaRow, tfaCodes, links, fails, tfaCounts, tfaGhosts>>
  BY DEF GetSecret, At, GoesIf
<1>2. app' \in 0 .. MaxSecrets
  BY DEF GetSecret, FactorInv, RowInv, TfaTypeOK
<1> QED
  BY <1>1, <1>2, StopKeeps, GoKeeps

LEMMA MatchKeeps ==
  ASSUME FactorBounds, FactorInv, NEW c \in TfaCalls, verify_now(c)
  PROVE  FactorInv'
<1> DEFINE ok == secret # 0 /\ tcall[c].n = secret
           r == [tcall[c] EXCEPT !.todo = Tail(@), !.ok = ok]
<1>1. /\ tcall[c].todo # <<>> /\ Head(tcall[c].todo) = "match"
      /\ UNCHANGED <<tfaRow, tfaCodes, links, fails, app, tfaCounts, tfaGhosts>>
      /\ \/ Stops(c)
         \/ /\ ok \/ tcall[c].todo[2] # "mark"
            /\ tcall' = [tcall EXCEPT ![c].todo = Tail(@), ![c].ok = ok]
  BY DEF verify_now, At
<1>2. app' \in 0 .. MaxSecrets /\ secret \in 0 .. MaxSecrets
  BY <1>1 DEF FactorInv, RowInv, TfaTypeOK
<1>3. CASE Stops(c)
  BY <1>1, <1>2, <1>3, StopKeeps
<1>4. CASE ~Stops(c)
  <2>1. CallOK(tcall[c]) /\ tcall[c] \in CallSet /\ tcall[c].todo \in Todos
    BY DEF FactorInv, CallsInv, CallOK, CallSet
  <2>2. tcall' = [tcall EXCEPT ![c] = r]
    BY <1>1, <1>4, <2>1 DEF FactorInv, CallsInv, CallSet
  <2>3. \/ /\ tcall[c].todo = <<"match", "mark", "regenerate">> /\ tcall[c].todo[2] = "mark"
           /\ Tail(tcall[c].todo) = <<"mark", "regenerate">>
        \/ tcall[c].todo = <<"match", "record">> /\ Tail(tcall[c].todo) = <<"record">>
    BY <1>1, <2>1, NextTodo DEF StepsOn
  <2>4. /\ r.todo = Tail(tcall[c].todo) /\ r.by = tcall[c].by /\ r.n = tcall[c].n /\ r.ok = ok
        /\ r.todo \in Todos => r \in CallSet
    BY <2>1 DEF CallSet
  <2>5. ok => tcall[c].n # 0
    BY <1>2
  <2> HIDE DEF r, ok
  <2>6. /\ <<"match", "mark", "regenerate">> \in ConfirmTodos
        /\ <<"mark", "regenerate">> \in ConfirmTodos
        /\ <<"match", "record">> \in TotpTodos /\ <<"record">> \in SheetTodos
    BY DEF ConfirmTodos, TotpTodos, SheetTodos
  <2>7. tcall[c].todo \notin SheetTodos
    BY <2>3, <2>6, Groups
  <2>8. r.todo = <<"mark", "regenerate">> => ok
    <3>1. <<"record">> # <<"mark", "regenerate">>
      OBVIOUS
    <3> QED
      BY <1>1, <1>4, <2>3, <2>4, <3>1
  <2>9. r.todo \in PastTodos => tcall[c].todo \in PastTodos
    <3>1. <<"match", "record">> \in PastTodos
      BY <2>6, TodoTails DEF PastTodos
    <3>2. <<"mark", "regenerate">> \notin PastTodos
      BY <2>6, Groups DEF PastTodos
    <3> QED
      BY <2>3, <2>4, <3>1, <3>2
  <2>10. CallOK(r)
    <3>1. r.by # "sheet"
      BY <2>1, <2>4, <2>7 DEF CallOK
    <3>2. r.todo \in Todos /\ r.todo \notin RedeemTodos
      BY <2>3, <2>4, <2>6, Groups DEF Todos
    <3>3. r.todo \in ConfirmTodos => tcall[c].todo \in ConfirmTodos
      BY <2>3, <2>4, <2>6, Groups
    <3> QED
      BY <2>1, <2>4, <2>5, <2>8, <3>1, <3>2, <3>3 DEF CallOK
  <2>11. r.by # "sheet" /\ r.todo # <<"fork">> /\ r.todo # <<"disable">>
    <3>1. /\ <<"record">> # <<"fork">> /\ <<"record">> # <<"disable">>
          /\ <<"mark", "regenerate">> # <<"fork">> /\ <<"mark", "regenerate">> # <<"disable">>
      OBVIOUS
    <3> QED
      BY <2>1, <2>3, <2>4, <2>7, <3>1 DEF CallOK
  <2> QED
    BY <1>1, <1>2, <2>2, <2>9, <2>10, <2>11, CallOnly
<1> QED
  BY <1>3, <1>4

-----------------------------------------------------------------------------
(* The steps that change the row or the codes.                             *)

LEMMA RowKeeps ==
  ASSUME FactorBounds, FactorInv, NEW c \in TfaCalls,
         start_totp_setup(c) \/ mark_totp_enabled(c) \/ disable_totp(c)
  PROVE  FactorInv'
<1> DEFINE q == NextCall(tcall[c])
<1>1. /\ Goes(c) /\ tcall[c].todo # <<>> /\ Head(tcall[c].todo) \in {"store", "mark", "disable"}
      /\ UNCHANGED <<tfaCodes, links, fails, printed, opened, entered, tangled>>
  BY DEF start_totp_setup, mark_totp_enabled, disable_totp, At
<1>2. /\ tcall' = [tcall EXCEPT ![c] = q] /\ CallOK(q)
      /\ q.todo \in PastTodos => tcall[c].todo \in PastTodos
      /\ (q.by = "sheet" => ~q.ok) /\ q.todo # <<"fork">> /\ q.todo # <<"disable">>
  BY <1>1, GoesOn DEF FactorInv
<1> HIDE DEF q
<1>3. CallOK(tcall[c]) /\ tcall[c] \in CallSet /\ tcall[c].todo \in Todos
  BY DEF FactorInv, CallsInv, CallOK, CallSet
<1>4. printed \in Nat /\ printed' \in Nat /\ printed <= printed'
  BY <1>1, SMT DEF FactorInv, RowInv, TfaTypeOK, FactorBounds
<1>5. \A s \in 1 .. MaxSheets : Spent(s) => Spent(s)'
  BY <1>1 DEF Spent, Unused
<1>6. ASSUME RowInv' PROVE FactorInv'
  BY <1>1, <1>2, <1>4, <1>5, <1>6, QuietCall
<1>7. CASE start_totp_setup(c)
  <2>1. /\ issued < MaxSecrets /\ issued' = issued + 1 /\ secret' = issued + 1 /\ app' = issued + 1
        /\ crossed' = (crossed \/ enabled) /\ UNCHANGED <<enabled, paired>>
    BY <1>7 DEF start_totp_setup
  <2>2. TfaTypeOK'
    BY <1>1, <2>1, SMT DEF FactorInv, RowInv, TfaTypeOK, FactorBounds
  <2>3. FactorUsable' /\ NoOrphanCodes' /\ (sheet <= printed)'
    BY <1>1, <2>1 DEF FactorInv, RowInv, FactorUsable, NoOrphanCodes
  <2> QED
    BY <1>6, <2>2, <2>3 DEF RowInv
<1>8. CASE mark_totp_enabled(c)
  <2>1. /\ enabled' = TRUE /\ paired' = tcall[c].n /\ crossed' = (crossed \/ secret # tcall[c].n)
        /\ UNCHANGED <<secret, app, issued>> /\ At(c, "mark")
    BY <1>8 DEF mark_totp_enabled
  <2>2. tcall[c].n \in 0 .. MaxSecrets /\ tcall[c].n # 0
    <3>1. tcall[c].todo = <<"mark", "regenerate">>
      BY <1>1, <1>3, <2>1, NextTodo DEF At, StepsOn
    <3>2. <<"mark", "regenerate">> \in ConfirmTodos
      BY DEF ConfirmTodos
    <3> QED
      BY <1>3, <3>1, <3>2 DEF CallOK
  <2>3. TfaTypeOK'
    <3>1. enabled' \in BOOLEAN /\ crossed' \in BOOLEAN
      BY <2>1 DEF FactorInv, RowInv, TfaTypeOK
    <3> QED
      BY <1>1, <2>1, <2>2, <3>1 DEF FactorInv, RowInv, TfaTypeOK, FactorBounds
  <2>4. FactorUsable' /\ NoOrphanCodes' /\ (sheet <= printed)'
    BY <1>1, <2>1, <2>2 DEF FactorInv, RowInv, FactorUsable, NoOrphanCodes
  <2> QED
    BY <1>6, <2>3, <2>4 DEF RowInv
<1>9. CASE disable_totp(c)
  <2>1. /\ secret' = 0 /\ enabled' = FALSE /\ crossed' = FALSE
        /\ UNCHANGED <<app, issued, paired>> /\ At(c, "disable")
    BY <1>9 DEF disable_totp
  <2>2. sheet = 0 \/ tangled
    <3>1. tcall[c].todo = <<"disable">>
      BY <1>1, <1>3, <2>1, NextTodo DEF At, StepsOn
    <3> QED
      BY <3>1 DEF FactorInv, ClearedInv
  <2>3. TfaTypeOK'
    <3>1. enabled' \in BOOLEAN /\ crossed' \in BOOLEAN
      BY <2>1
    <3> QED
      BY <1>1, <2>1, <3>1, SMT DEF FactorInv, RowInv, TfaTypeOK, FactorBounds
  <2>4. FactorUsable' /\ NoOrphanCodes' /\ (sheet <= printed)'
    BY <1>1, <2>1, <2>2 DEF FactorInv, RowInv, FactorUsable, NoOrphanCodes
  <2> QED
    BY <1>6, <2>3, <2>4 DEF RowInv
<1> QED
  BY <1>7, <1>8, <1>9

LEMMA CodesKeep ==
  ASSUME FactorBounds, FactorInv, NEW c \in TfaCalls,
         regenerate_for_user(c) \/ clear_for_user(c)
  PROVE  FactorInv'
<1> DEFINE q == NextCall(tcall[c])
<1>1. /\ Goes(c) /\ tcall[c].todo # <<>> /\ Head(tcall[c].todo) \in {"regenerate", "clear"}
      /\ UNCHANGED <<tfaRow, links, fails, app, issued, paired, opened, entered, crossed>>
  BY DEF regenerate_for_user, clear_for_user, At
<1>2. /\ tcall' = [tcall EXCEPT ![c] = q] /\ CallOK(q)
      /\ q.todo \in PastTodos => tcall[c].todo \in PastTodos
      /\ (q.by = "sheet" => ~q.ok) /\ q.todo # <<"fork">>
      /\ q.todo = <<"disable">> => Head(tcall[c].todo) = "clear"
  BY <1>1, GoesOn DEF FactorInv
<1> HIDE DEF q
<1>3. printed \in 0 .. MaxSheets /\ sheet \in 0 .. MaxSheets /\ sheet <= printed
  BY DEF FactorInv, RowInv, TfaTypeOK
<1>4. CASE regenerate_for_user(c)
  <2>1. /\ printed < MaxSheets /\ printed' = printed + 1 /\ sheet' = printed + 1 /\ used' = FALSE
        /\ tangled' = (~enabled \/ \E d \in TfaCalls : At(d, "disable"))
        /\ Head(tcall[c].todo) = "regenerate"
    BY <1>4 DEF regenerate_for_user, At
  <2>2. printed' \in 0 .. MaxSheets /\ sheet' \in 0 .. MaxSheets /\ sheet' <= printed'
        /\ printed <= printed' /\ printed \in Nat /\ printed' \in Nat
    BY <1>3, <2>1, SMT DEF FactorBounds
  <2>3. used' \in BOOLEAN /\ tangled' \in BOOLEAN
    BY <2>1
  <2>4. RowInv'
    <3>1. TfaTypeOK'
      BY <1>1, <2>2, <2>3 DEF FactorInv, RowInv, TfaTypeOK
    <3> QED
      BY <1>1, <2>1, <2>2, <3>1 DEF FactorInv, RowInv, FactorUsable, NoOrphanCodes
  <2>5. \A d \in TfaCalls : tcall[d].todo = <<"disable">> => sheet' = 0 \/ tangled'
    <3>1. <<"disable">> # <<>> /\ Head(<<"disable">>) = "disable"
      BY SMT
    <3> QED
      BY <2>1, <3>1 DEF At
  <2>6. \A s \in 1 .. MaxSheets : Spent(s) => Spent(s)'
    BY <1>3, <2>1, <2>2, SMT DEF Spent, Unused
  <2>7. q.todo # <<"disable">>
    BY <1>2, <2>1
  <2> QED
    BY <1>1, <1>2, <2>2, <2>4, <2>5, <2>6, <2>7, QuietCall
<1>5. CASE clear_for_user(c)
  <2>1. sheet' = 0 /\ used' = FALSE /\ tangled' = FALSE /\ UNCHANGED printed
    BY <1>5 DEF clear_for_user
  <2>2. /\ printed' \in 0 .. MaxSheets /\ sheet' \in 0 .. MaxSheets /\ sheet' <= printed'
        /\ printed <= printed' /\ printed \in Nat /\ printed' \in Nat
    BY <1>3, <2>1, SMT DEF FactorBounds
  <2>3. used' \in BOOLEAN /\ tangled' \in BOOLEAN
    BY <2>1
  <2>4. RowInv'
    <3>1. TfaTypeOK'
      BY <1>1, <2>1, <2>2, <2>3 DEF FactorInv, RowInv, TfaTypeOK
    <3> QED
      BY <1>1, <2>1, <2>2, <3>1 DEF FactorInv, RowInv, FactorUsable, NoOrphanCodes
  <2>5. \A s \in 1 .. MaxSheets : Spent(s) => Spent(s)'
    BY <1>3, <2>1, SMT DEF Spent, Unused
  <2> QED
    BY <1>1, <1>2, <2>1, <2>2, <2>4, <2>5, QuietCall
<1> QED
  BY <1>4, <1>5

-----------------------------------------------------------------------------
(* Answering a challenge.                                                  *)

LEMMA LookKeeps ==
  ASSUME FactorBounds, FactorInv, NEW c \in TfaCalls, LookForCode(c)
  PROVE  FactorInv'
<1>1. CallOK(tcall[c]) /\ tcall[c] \in CallSet /\ tcall[c].todo \in Todos
  BY DEF FactorInv, CallsInv, CallOK, CallSet
<1>2. /\ tcall[c].todo = <<"look", "use", "record">> /\ Tail(tcall[c].todo) = <<"use", "record">>
      /\ Tail(Tail(tcall[c].todo)) = <<"record">>
  BY <1>1, NextTodo DEF LookForCode, At, StepsOn
<1>3. PICK u \in {<<"use", "record">>, <<"record">>} : tcall' = [tcall EXCEPT ![c].todo = u]
  BY <1>2 DEF LookForCode
<1> DEFINE q == [tcall[c] EXCEPT !.todo = u]
<1>4. tcall' = [tcall EXCEPT ![c] = q]
  BY <1>3
<1>5. <<"look", "use", "record">> \in SheetTodos /\ u \in SheetTodos
  BY DEF SheetTodos
<1>6. /\ <<"look", "use", "record">> # <<"record">> /\ u # <<"fork">> /\ u # <<"disable">>
      /\ u # <<"mark", "regenerate">>
  BY SMT
<1>7. q.todo = u /\ q.by = tcall[c].by /\ q.n = tcall[c].n /\ q.ok = tcall[c].ok /\ q \in CallSet
  BY <1>1, <1>5 DEF CallSet, Todos
<1> HIDE DEF q
<1>8. q.by = "sheet" => ~q.ok
  BY <1>1, <1>2, <1>6, <1>7 DEF CallOK
<1>9. CallOK(q)
  BY <1>1, <1>5, <1>6, <1>7, <1>8, Groups DEF CallOK
<1>10. tcall[c].todo \in PastTodos
  BY <1>2, <1>5, TodoTails DEF PastTodos
<1>11. /\ UNCHANGED <<tfaRow, tfaCodes, links, fails, tfaCounts, tfaGhosts>>
       /\ app' \in 0 .. MaxSecrets
  BY DEF LookForCode, FactorInv, RowInv, TfaTypeOK
<1> QED
  BY <1>4, <1>6, <1>7, <1>8, <1>9, <1>10, <1>11, CallOnly

\* The call that marks the code holds its one sign-in.
LEMMA UseKeeps ==
  ASSUME FactorBounds, FactorInv, NEW c \in TfaCalls, UseCode(c)
  PROVE  FactorInv'
<1> DEFINE n == tcall[c].n
           b == Unused(n)
           q == [tcall[c] EXCEPT !.todo = <<"record">>, !.ok = b]
<1>1. CallOK(tcall[c]) /\ tcall[c] \in CallSet /\ tcall[c].todo \in Todos
  BY DEF FactorInv, CallsInv, CallOK, CallSet
<1>2. tcall[c].todo = <<"use", "record">> /\ Tail(tcall[c].todo) = <<"record">>
  BY <1>1, NextTodo DEF UseCode, At, StepsOn
<1>3. /\ tcall' = [tcall EXCEPT ![c].todo = Tail(@), ![c].ok = b] /\ used' = (used \/ b)
      /\ UNCHANGED <<tfaRow, sheet, links, fails, app, tfaCounts, tfaGhosts>>
  BY DEF UseCode, StillUnused
<1>4. tcall' = [tcall EXCEPT ![c] = q]
  BY <1>1, <1>2, <1>3 DEF FactorInv, CallsInv, CallSet
<1>5. <<"use", "record">> \in SheetTodos /\ <<"record">> \in SheetTodos
  BY DEF SheetTodos
<1>6. /\ <<"record">> # <<"fork">> /\ <<"record">> # <<"disable">>
      /\ <<"record">> # <<"mark", "regenerate">> /\ <<"record">> # <<"use", "record">>
  OBVIOUS
<1>7. /\ q.todo = <<"record">> /\ q.by = tcall[c].by /\ q.n = n /\ (q.ok <=> b) /\ q \in CallSet
  BY <1>1, <1>5 DEF CallSet, Todos, Unused
<1> HIDE DEF q
<1>8. CallOK(q)
  BY <1>1, <1>2, <1>5, <1>6, <1>7, Groups DEF CallOK
<1>9. tcall[c].todo \in PastTodos
  BY <1>2, <1>5, TodoTails DEF PastTodos
<1>10. tcall'[c] = q /\ \A d \in TfaCalls \ {c} : tcall'[d] = tcall[d]
  BY <1>4, Others DEF FactorInv
<1>11. RowInv'
  <2>1. used' \in BOOLEAN
    BY <1>3 DEF FactorInv, RowInv, TfaTypeOK, Unused
  <2> QED
    BY <1>3, <2>1 DEF FactorInv, RowInv, TfaTypeOK, FactorUsable, NoOrphanCodes
<1>12. CallsInv'
  <2>1. printed \in Nat /\ printed' \in Nat /\ printed <= printed'
    BY <1>3, SMT DEF FactorInv, RowInv, TfaTypeOK, FactorBounds
  <2> QED
    BY <1>4, <1>8, <2>1, CallsKept DEF FactorInv
<1>13. SheetInv'
  <2>1. \A s \in 1 .. MaxSheets : Spent(s) => Spent(s)'
    BY <1>3 DEF Spent, Unused
  <2>2. CASE ~b \/ q.by # "sheet"
    BY <1>3, <1>4, <1>7, <2>1, <2>2, SheetKept DEF FactorInv
  <2>3. CASE b /\ q.by = "sheet"
    <3>0. PICK m : m = n
      OBVIOUS
    <3>1. m \in 1 .. printed /\ printed \in 0 .. MaxSheets /\ MaxSheets \in Nat
      BY <1>1, <1>7, <2>3, <3>0 DEF CallOK, FactorInv, RowInv, TfaTypeOK, FactorBounds
    <3>2. m \in 1 .. MaxSheets /\ ~Spent(m)
      BY <2>3, <3>0, <3>1, SMT DEF Spent
    <3>3. Spent(m)'
      <4>1. used' /\ UNCHANGED printed
        BY <1>3, <2>3
      <4> QED
        BY <3>1, <4>1, SMT DEF Spent, Unused
    <3>4. opened[m] = 0 /\ \A d \in TfaCalls : ~Holds(d, m)
      BY <3>2 DEF FactorInv, SheetInv
    <3>5. \A d \in TfaCalls, s \in 1 .. MaxSheets : Holds(d, s)' => Holds(d, s) \/ (d = c /\ s = m)
      BY <1>7, <1>10, <3>0 DEF Holds
    <3> QED
      BY <1>3, <2>1, <3>3, <3>4, <3>5, SMT DEF FactorInv, SheetInv
  <2> QED
    BY <2>2, <2>3
<1>14. MailInv' /\ ClearedInv'
  BY <1>3, <1>4, <1>6, <1>7, MailKept, ClearedKept DEF FactorInv
<1>15. FailInv'
  BY <1>3, <1>4, <1>9, <1>12, FailKept DEF FactorInv, RowInv, TfaTypeOK
<1> QED
  BY <1>3, <1>11, <1>12, <1>13, <1>14, <1>15 DEF FactorInv, CountsInv

LEMMA TryKeeps ==
  ASSUME FactorBounds, FactorInv, NEW c \in TfaCalls, MayTry(c)
  PROVE  FactorInv'
<1>1. /\ tcall[c].todo # <<>> /\ Head(tcall[c].todo) = "unlocked"
      /\ UNCHANGED <<tfaRow, tfaCodes, links, fails, app, tfaCounts, tfaGhosts>>
  BY DEF MayTry, At
<1>2. app' \in 0 .. MaxSecrets
  BY <1>1 DEF FactorInv, RowInv, TfaTypeOK
<1>3. CASE Stops(c)
  BY <1>1, <1>2, <1>3, StopKeeps
<1>4. CASE Goes(c) /\ fails < TOTP_MAX_FAILS
  <2> DEFINE q == NextCall(tcall[c])
  <2>1. CallOK(tcall[c]) /\ tcall[c] \in CallSet /\ tcall[c].todo \in Todos
    BY DEF FactorInv, CallsInv, CallOK, CallSet
  <2>2. /\ tcall' = [tcall EXCEPT ![c] = q] /\ (q.by = "sheet" => ~q.ok)
        /\ q.todo # <<"fork">> /\ q.todo # <<"disable">>
    BY <1>1, <1>4, GoesOn DEF FactorInv
  <2>3. \/ /\ tcall[c].todo = <<"unlocked", "find_on", "look", "use", "record">>
           /\ Tail(tcall[c].todo) = <<"find_on", "look", "use", "record">>
        \/ /\ tcall[c].todo = <<"unlocked", "find_on", "match", "record">>
           /\ Tail(tcall[c].todo) = <<"find_on", "match", "record">>
    BY <1>1, <2>1, NextTodo DEF StepsOn
  <2>4. PICK u : u = Tail(tcall[c].todo)
    OBVIOUS
  <2>5. u \in SheetTodos \cup TotpTodos /\ u # <<>> /\ u \in Todos
    <3>1. <<"find_on", "look", "use", "record">> # <<>> /\ <<"find_on", "match", "record">> # <<>>
      OBVIOUS
    <3> QED
      BY <2>3, <2>4, <3>1 DEF SheetTodos, TotpTodos, Todos
  <2>6. q = [tcall[c] EXCEPT !.todo = u]
    BY <2>4, <2>5 DEF NextCall
  <2>7. q.todo = u /\ q.by = tcall[c].by /\ q.n = tcall[c].n /\ q.ok = tcall[c].ok /\ q \in CallSet
    BY <2>1, <2>5, <2>6 DEF CallSet
  <2> HIDE DEF q
  <2>8. CallOK(q)
    <3>1. tcall[c].todo \in SheetTodos => u \in SheetTodos
      BY <2>1, <1>1, <2>4, <2>5, TailGroups
    <3>2. u \notin ConfirmTodos /\ u \notin RedeemTodos /\ u # <<"mark", "regenerate">>
      BY <2>5, Groups DEF ConfirmTodos
    <3> QED
      BY <2>1, <2>2, <2>7, <3>1, <3>2 DEF CallOK
  <2>9. RowInv'
    BY <1>1 DEF FactorInv, RowInv, TfaTypeOK, FactorUsable, NoOrphanCodes
  <2>10. CallsInv'
    <3>1. printed \in Nat /\ printed' \in Nat /\ printed <= printed'
      BY <1>1, SMT DEF FactorInv, RowInv, TfaTypeOK, FactorBounds
    <3> QED
      BY <2>2, <2>8, <3>1, CallsKept DEF FactorInv
  <2>11. \A s \in 1 .. MaxSheets : Spent(s) => Spent(s)'
    BY <1>1 DEF Spent, Unused
  <2>12. SheetInv' /\ MailInv' /\ ClearedInv'
    BY <1>1, <2>2, <2>11, SheetKept, MailKept, ClearedKept DEF FactorInv
  <2>13. FailInv'
    <3>1. fails' = fails /\ fails \in Nat /\ TOTP_MAX_FAILS \in Nat
      BY <1>1 DEF FactorInv, RowInv, TfaTypeOK, FactorBounds
    <3>2. Cardinality(Past)' \in Nat /\ Cardinality(TfaCalls) \in Nat
          /\ Cardinality(Past)' <= Cardinality(TfaCalls)
      <4>1. Past' \subseteq TfaCalls
        BY DEF Past
      <4> QED
        BY <4>1, FS_Subset, FS_CardinalityType DEF FactorBounds
    <3> QED
      BY <1>4, <3>1, <3>2, SMT DEF FailInv
  <2> QED
    BY <1>1, <2>9, <2>10, <2>12, <2>13 DEF FactorInv, CountsInv
<1> QED
  BY <1>3, <1>4, SMT DEF MayTry, GoesIf, is_locked, FactorInv, RowInv, TfaTypeOK, FactorBounds

LEMMA RecordKeeps ==
  ASSUME FactorBounds, FactorInv, NEW c \in TfaCalls, Record(c)
  PROVE  FactorInv'
<1>1. CallOK(tcall[c]) /\ tcall[c] \in CallSet /\ tcall[c].todo \in Todos
  BY DEF FactorInv, CallsInv, CallOK, CallSet
<1>2. /\ tcall[c].todo # <<>> /\ Goes(c) /\ tcall[c].todo = <<"record">>
      /\ Tail(tcall[c].todo) = <<>>
      /\ fails' \in {0, fails + 1}
      /\ UNCHANGED <<tfaRow, tfaCodes, links, app, tfaCounts, paired, entered, crossed, tangled>>
  BY <1>1, NextTodo DEF Record, At, StepsOn
<1>3. tcall' = [tcall EXCEPT ![c] = Resting]
  BY <1>2 DEF Goes, NextCall
<1>4. tcall'[c] = Resting /\ \A d \in TfaCalls \ {c} : tcall'[d] = tcall[d]
  BY <1>3, Others DEF FactorInv
<1>5. fails \in Nat /\ fails' \in Nat
  BY <1>2, SMT DEF FactorInv, RowInv, TfaTypeOK
<1>6. RowInv'
  BY <1>2, <1>5 DEF FactorInv, RowInv, TfaTypeOK, FactorUsable, NoOrphanCodes
<1>7. CallsInv'
  <2>1. printed \in Nat /\ printed' \in Nat /\ printed <= printed'
    BY <1>2, SMT DEF FactorInv, RowInv, TfaTypeOK, FactorBounds
  <2> QED
    BY <1>3, <2>1, RestingOK, CallsKept DEF FactorInv
<1>8. MailInv' /\ ClearedInv'
  BY <1>2, <1>3, RestingOK, MailKept, ClearedKept DEF FactorInv
<1>9. \A s \in 1 .. MaxSheets : Spent(s) => Spent(s)'
  BY <1>2 DEF Spent, Unused
<1>10. SheetInv' /\ opened' \in [1 .. MaxSheets -> Nat]
  <2>1. CASE tcall[c].ok /\ tcall[c].by = "sheet"
    <3>1. PICK m : m = tcall[c].n
      OBVIOUS
    <3>2. m \in 1 .. printed /\ printed \in 0 .. MaxSheets /\ MaxSheets \in Nat
      BY <1>1, <2>1, <3>1 DEF CallOK, FactorInv, RowInv, TfaTypeOK, FactorBounds
    <3>3. m \in 1 .. MaxSheets /\ Holds(c, m)
      BY <2>1, <3>1, <3>2, SMT DEF Holds
    <3>4. /\ opened' = [opened EXCEPT ![m] = opened[m] + 1] /\ opened \in [1 .. MaxSheets -> Nat]
      BY <2>1, <3>1 DEF Record, FactorInv, CountsInv
    <3>5. /\ opened[m] = 0 /\ Spent(m) /\ \A d \in TfaCalls : Holds(d, m) => d = c
      BY <3>3 DEF FactorInv, SheetInv
    <3>6. /\ opened'[m] = 1 /\ opened' \in [1 .. MaxSheets -> Nat]
          /\ \A s \in 1 .. MaxSheets \ {m} : opened'[s] = opened[s]
      BY <3>3, <3>4, <3>5, SMT
    <3>7. \A d \in TfaCalls, s \in 1 .. MaxSheets : Holds(d, s)' => Holds(d, s) /\ d # c
      BY <1>4, RestingOK DEF Holds
    <3> QED
      BY <1>9, <3>5, <3>6, <3>7, SMT DEF FactorInv, SheetInv
  <2>2. CASE ~(tcall[c].ok /\ tcall[c].by = "sheet")
    <3>1. UNCHANGED opened
      BY <2>2 DEF Record
    <3> QED
      BY <1>3, <1>9, <3>1, RestingOK, SheetKept DEF FactorInv, CountsInv
  <2> QED
    BY <2>1, <2>2
<1>11. FailInv'
  <2>1. <<"record">> \in PastTodos
    <3>1. <<"record">> \in SheetTodos
      BY DEF SheetTodos
    <3> QED
      BY <3>1, TodoTails DEF PastTodos
  <2>2. c \in Past /\ Past' = Past \ {c}
    BY <1>2, <1>4, <2>1, RestingOK DEF Past
  <2>3. Cardinality(Past') = Cardinality(Past) - 1
    BY <2>2, PastSize, FS_RemoveElement DEF FactorInv
  <2> QED
    BY <1>2, <1>5, <2>3, PastSize, SMT DEF FactorInv, FailInv, FactorBounds
<1> QED
  BY <1>2, <1>6, <1>7, <1>8, <1>10, <1>11 DEF FactorInv, CountsInv

-----------------------------------------------------------------------------
(* Mailed links.                                                           *)

LEMMA ConsumeKeeps ==
  ASSUME FactorBounds, FactorInv, NEW c \in TfaCalls, Consume(c)
  PROVE  FactorInv'
<1>1. CallOK(tcall[c]) /\ tcall[c] \in CallSet /\ tcall[c].todo \in Todos
  BY DEF FactorInv, CallsInv, CallOK, CallSet
<1>2. /\ tcall[c].todo # <<>> /\ Head(tcall[c].todo) = "consume"
      /\ tcall[c].todo = <<"consume", "fork">> /\ Tail(tcall[c].todo) = <<"fork">>
      /\ UNCHANGED <<tfaRow, tfaCodes, fails, app, tfaCounts, tfaGhosts>>
  BY <1>1, NextTodo DEF Consume, At, StepsOn
<1>3. PICK l : l = tcall[c].n
  OBVIOUS
<1>4. l \in 1 .. MaxLinks
  <2>1. <<"consume", "fork">> \in RedeemTodos
    BY DEF RedeemTodos
  <2> QED
    BY <1>1, <1>2, <1>3, <2>1 DEF CallOK
<1>5. /\ links' = [links EXCEPT ![l] = "dead"]
      /\ links \in [1 .. MaxLinks -> {"none", "sent", "dead"}]
      /\ \/ Stops(c)
         \/ Goes(c) /\ links[l] = "sent"
  BY <1>3 DEF Consume, GoesIf, FactorInv, RowInv, TfaTypeOK
<1>6. /\ links' \in [1 .. MaxLinks -> {"none", "sent", "dead"}] /\ links'[l] = "dead"
      /\ \A k \in 1 .. MaxLinks \ {l} : links'[k] = links[k]
  BY <1>4, <1>5
<1>7. RowInv'
  BY <1>2, <1>6 DEF FactorInv, RowInv, TfaTypeOK, FactorUsable, NoOrphanCodes
<1>8. \A s \in 1 .. MaxSheets : Spent(s) => Spent(s)'
  BY <1>2 DEF Spent, Unused
<1>9. PICK q : /\ tcall' = [tcall EXCEPT ![c] = q] /\ CallOK(q) /\ q.todo \notin PastTodos
               /\ (q.by = "sheet" => ~q.ok) /\ q.todo # <<"disable">>
               /\ q.todo = <<"fork">> => q.n = l /\ links[l] = "sent"
  <2>1. CASE Stops(c)
    BY <2>1, RestingOK DEF Stops
  <2>2. CASE Goes(c) /\ links[l] = "sent"
    <3>1. NextCall(tcall[c]).n = l
      <4>1. <<"fork">> # <<>>
        OBVIOUS
      <4> QED
        BY <1>1, <1>2, <1>3, <4>1 DEF NextCall, CallSet
    <3>2. tcall[c].todo \notin PastTodos
      <4>1. <<"consume", "fork">> \in RedeemTodos
        BY DEF RedeemTodos
      <4> QED
        BY <1>2, <4>1, Groups DEF PastTodos
    <3> QED
      BY <1>2, <2>2, <3>1, <3>2, GoesOn DEF FactorInv
  <2> QED
    BY <1>5, <2>1, <2>2
<1>10. CallsInv'
  <2>1. printed \in Nat /\ printed' \in Nat /\ printed <= printed'
    BY <1>2, SMT DEF FactorInv, RowInv, TfaTypeOK, FactorBounds
  <2> QED
    BY <1>9, <2>1, CallsKept DEF FactorInv
<1>11. SheetInv' /\ ClearedInv'
  BY <1>2, <1>8, <1>9, SheetKept, ClearedKept DEF FactorInv
<1>12. FailInv'
  BY <1>2, <1>9, <1>10, FailKept DEF FactorInv, RowInv, TfaTypeOK
<1>13. MailInv'
  <2>1. tcall'[c] = q /\ \A d \in TfaCalls \ {c} : tcall'[d] = tcall[d]
    BY <1>9, Others DEF FactorInv
  <2>2. \A d \in TfaCalls, k \in 1 .. MaxLinks :
          Forks(d, k)' => Forks(d, k) \/ (d = c /\ k = l /\ links[l] = "sent")
    BY <1>9, <2>1 DEF Forks
  <2>3. links[l] = "sent" => entered[l] = 0 /\ \A d \in TfaCalls : ~Forks(d, l)
    BY <1>4 DEF FactorInv, MailInv
  <2> QED
    BY <1>2, <1>6, <2>2, <2>3 DEF FactorInv, MailInv
<1> QED
  BY <1>2, <1>7, <1>10, <1>11, <1>12, <1>13 DEF FactorInv, CountsInv

LEMMA ForkKeeps ==
  ASSUME FactorBounds, FactorInv, NEW c \in TfaCalls, Fork(c)
  PROVE  FactorInv'
<1>1. CallOK(tcall[c]) /\ tcall[c] \in CallSet /\ tcall[c].todo \in Todos
  BY DEF FactorInv, CallsInv, CallOK, CallSet
<1>2. /\ Goes(c) /\ tcall[c].todo = <<"fork">> /\ Tail(tcall[c].todo) = <<>>
      /\ UNCHANGED <<tfaRow, tfaCodes, links, fails, app, tfaCounts, paired, opened, crossed,
                     tangled>>
  BY <1>1, NextTodo DEF Fork, At, StepsOn
<1>3. tcall' = [tcall EXCEPT ![c] = Resting]
  BY <1>2 DEF Goes, NextCall
<1>4. PICK l : l = tcall[c].n
  OBVIOUS
<1>5. l \in 1 .. MaxLinks /\ Forks(c, l)
  <2>1. <<"fork">> \in RedeemTodos
    BY DEF RedeemTodos
  <2> QED
    BY <1>1, <1>2, <1>4, <2>1 DEF CallOK, Forks
<1>6. entered' = [entered EXCEPT ![l] = entered[l] + 1] /\ entered \in [1 .. MaxLinks -> Nat]
  BY <1>4 DEF Fork, FactorInv, CountsInv
<1>7. links[l] = "dead" /\ entered[l] = 0 /\ \A d \in TfaCalls : Forks(d, l) => d = c
  BY <1>5 DEF FactorInv, MailInv
<1>8. /\ entered'[l] = 1 /\ entered' \in [1 .. MaxLinks -> Nat]
      /\ \A k \in 1 .. MaxLinks \ {l} : entered'[k] = entered[k]
  BY <1>5, <1>6, <1>7, SMT
<1>9. RowInv'
  BY <1>2 DEF FactorInv, RowInv, TfaTypeOK, FactorUsable, NoOrphanCodes
<1>10. CallsInv'
  <2>1. printed \in Nat /\ printed' \in Nat /\ printed <= printed'
    BY <1>2, SMT DEF FactorInv, RowInv, TfaTypeOK, FactorBounds
  <2> QED
    BY <1>3, <2>1, RestingOK, CallsKept DEF FactorInv
<1>11. \A s \in 1 .. MaxSheets : Spent(s) => Spent(s)'
  BY <1>2 DEF Spent, Unused
<1>12. SheetInv' /\ ClearedInv'
  BY <1>2, <1>3, <1>11, RestingOK, SheetKept, ClearedKept DEF FactorInv
<1>13. FailInv'
  BY <1>2, <1>3, <1>10, RestingOK, FailKept DEF FactorInv, RowInv, TfaTypeOK
<1>14. MailInv'
  <2>1. tcall'[c] = Resting /\ \A d \in TfaCalls \ {c} : tcall'[d] = tcall[d]
    BY <1>3, Others DEF FactorInv
  <2>2. \A d \in TfaCalls, k \in 1 .. MaxLinks : Forks(d, k)' => Forks(d, k) /\ d # c
    BY <2>1, RestingOK DEF Forks
  <2> QED
    BY <1>2, <1>7, <1>8, <2>2, SMT DEF FactorInv, MailInv
<1> QED
  BY <1>2, <1>8, <1>9, <1>10, <1>12, <1>13, <1>14 DEF FactorInv, CountsInv

LEMMA BeginKeeps ==
  ASSUME FactorBounds, FactorInv, NEW c \in TfaCalls, NEW q \in TfaRequests, BeginTfa(c, q)
  PROVE  FactorInv'
<1>1. /\ app \in 0 .. MaxSecrets /\ printed \in 0 .. MaxSheets /\ MaxSheets \in Nat
      /\ MaxSecrets \in Nat /\ MaxLinks \in Nat /\ DOMAIN links = 1 .. MaxLinks
  BY DEF FactorInv, RowInv, TfaTypeOK, FactorBounds
<1>2. \/ q = Call(setup, "none", 0) \/ q = Call(confirm, "totp", app)
      \/ q = Call(disable, "none", 0)
      \/ q = Call(regenerate_recovery, "none", 0) \/ q = Call(verify_login("totp"), "totp", app)
      \/ \E s \in 1 .. printed : q = Call(verify_login("sheet"), "sheet", s)
      \/ \E l \in 1 .. MaxLinks : q = Call(redeem, "link", l)
  BY <1>1 DEF TfaRequests
<1>3. /\ q.todo \in Todos /\ q.todo # <<"mark", "regenerate">> /\ q.todo # <<"fork">>
      /\ q.todo # <<"disable">> /\ q.todo \notin PastTodos
  <2>1. \/ q.todo \in {setup, confirm, disable, regenerate_recovery, redeem}
        \/ q.todo \in {verify_login("totp"), verify_login("sheet")}
    BY <1>2, SMT DEF Call
  <2>2. /\ \A t \in {setup, confirm, disable, regenerate_recovery, redeem} :
             t \notin PastTodos /\ t \in Todos
        /\ \A t \in {verify_login("totp"), verify_login("sheet")} :
             t \notin PastTodos /\ t \in Todos
    BY Handlers, Groups DEF PastTodos, Todos, SheetTodos, TotpTodos
  <2>3. \A t \in {setup, confirm, disable, regenerate_recovery, redeem, verify_login("totp"),
                  verify_login("sheet")} :
          t # <<"mark", "regenerate">> /\ t # <<"fork">> /\ t # <<"disable">>
    <3>1. \A t \in {verify_login("totp"), verify_login("sheet")} :
            t # <<"mark", "regenerate">> /\ t # <<"fork">> /\ t # <<"disable">>
      BY TodoTails, Handlers
    <3>2. setup # <<"mark", "regenerate">> /\ setup # <<"fork">> /\ setup # <<"disable">>
      BY DEF setup
    <3>3. confirm # <<"mark", "regenerate">> /\ confirm # <<"fork">> /\ confirm # <<"disable">>
      BY DEF confirm
    <3>4. disable # <<"mark", "regenerate">> /\ disable # <<"fork">> /\ disable # <<"disable">>
      BY DEF disable
    <3>5. /\ regenerate_recovery # <<"mark", "regenerate">> /\ regenerate_recovery # <<"fork">>
          /\ regenerate_recovery # <<"disable">>
      BY DEF regenerate_recovery
    <3>6. redeem # <<"mark", "regenerate">> /\ redeem # <<"fork">> /\ redeem # <<"disable">>
      BY DEF redeem
    <3> QED
      BY <3>1, <3>2, <3>3, <3>4, <3>5, <3>6
  <2> QED
    BY <2>1, <2>2, <2>3
<1>4. q \in CallSet /\ q.ok = FALSE
  <2>1. \A m \in 1 .. printed : m \in Nat
    BY <1>1, SMT
  <2>2. \A m \in 1 .. MaxLinks : m \in Nat
    BY <1>1, SMT
  <2>3. app \in Nat /\ 0 \in Nat
    BY <1>1, SMT
  <2>4. \E t : \E b \in {"none", "totp", "sheet", "link"}, m \in Nat : q = Call(t, b, m)
    BY <1>2, <2>1, <2>2, <2>3
  <2> QED
    BY <1>3, <2>4, SMT DEF Call, CallSet
<1>5. /\ q.todo \in ConfirmTodos => q.n \in 0 .. MaxSecrets
      /\ q.todo \in RedeemTodos => q.n \in 1 .. MaxLinks
      /\ q.by = "sheet" => q.n \in 1 .. printed /\ q.todo \in SheetTodos
  <2>1. /\ setup \notin ConfirmTodos \cup RedeemTodos
        /\ disable \notin ConfirmTodos \cup RedeemTodos
        /\ regenerate_recovery \notin ConfirmTodos \cup RedeemTodos
        /\ confirm \notin RedeemTodos /\ redeem \notin ConfirmTodos
    BY Handlers, Groups
  <2>2. /\ verify_login("totp") \in TotpTodos /\ verify_login("sheet") \in SheetTodos
    BY Handlers DEF TotpTodos, SheetTodos
  <2>3. /\ verify_login("totp") \notin ConfirmTodos \cup RedeemTodos
        /\ verify_login("sheet") \notin ConfirmTodos \cup RedeemTodos
    BY <2>2, Groups
  <2> QED
    BY <1>1, <1>2, <2>1, <2>2, <2>3, SMT DEF Call
<1>6. CallOK(q)
  BY <1>3, <1>4, <1>5 DEF CallOK
<1>7. /\ tcall' = [tcall EXCEPT ![c] = q] /\ app' \in 0 .. MaxSecrets
      /\ UNCHANGED <<tfaRow, tfaCodes, links, fails, tfaCounts, tfaGhosts>>
  BY <1>1 DEF BeginTfa
<1> QED
  BY <1>3, <1>4, <1>6, <1>7, CallOnly

LEMMA OutsideKeeps ==
  ASSUME FactorBounds, FactorInv,
         \/ WindowEnds
         \/ \E l \in 1 .. MaxLinks : IssueLink(l) \/ Expire(l)
         \/ UNCHANGED tfaVars
  PROVE  FactorInv'
<1>1. UNCHANGED <<tfaRow, tfaCodes, app, tfaCounts, tcall, tfaGhosts>>
  BY DEF WindowEnds, IssueLink, Expire, tfaVars
<1>2. /\ links \in [1 .. MaxLinks -> {"none", "sent", "dead"}] /\ fails \in Nat
      /\ TOTP_MAX_FAILS \in Nat
  BY DEF FactorInv, RowInv, TfaTypeOK, FactorBounds
<1>3. /\ links' \in [1 .. MaxLinks -> {"none", "sent", "dead"}] /\ fails' \in {fails, 0}
      /\ \A l \in 1 .. MaxLinks : links[l] = "dead" => links'[l] = "dead"
  BY <1>2 DEF WindowEnds, IssueLink, Expire, tfaVars
<1>4. RowInv'
  BY <1>1, <1>2, <1>3, SMT DEF FactorInv, RowInv, TfaTypeOK, FactorUsable, NoOrphanCodes
<1>5. CallsInv' /\ ClearedInv' /\ CountsInv'
  BY <1>1 DEF FactorInv, CallsInv, CallOK, ClearedInv, CountsInv
<1>6. SheetInv'
  BY <1>1 DEF FactorInv, SheetInv, Holds, Spent, Unused
<1>7. MailInv'
  BY <1>1, <1>3 DEF FactorInv, MailInv, Forks
<1>8. FailInv'
  <2>1. Past' = Past
    BY <1>1 DEF Past
  <2> QED
    BY <1>2, <1>3, <2>1, PastSize, SMT DEF FactorInv, FailInv
<1> QED
  BY <1>4, <1>5, <1>6, <1>7, <1>8 DEF FactorInv

LEMMA InitFactorInv ==
  ASSUME FactorBounds, TfaInit
  PROVE  FactorInv
<1>0. /\ \A c \in TfaCalls : tcall[c] = Resting /\ CallOK(tcall[c])
      /\ 0 \in 0 .. MaxSecrets /\ 0 \in 0 .. MaxSheets /\ TOTP_MAX_FAILS \in Nat \ {0}
      /\ sheet = 0 /\ printed = 0 /\ fails = 0
  BY RestingOK, SMT DEF TfaInit, FactorBounds
<1>1. RowInv
  <2>1. enabled \in BOOLEAN /\ used \in BOOLEAN /\ crossed \in BOOLEAN /\ tangled \in BOOLEAN
    BY DEF TfaInit
  <2>2. links \in [1 .. MaxLinks -> {"none", "sent", "dead"}]
    BY DEF TfaInit
  <2> QED
    BY <1>0, <2>1, <2>2, SMT DEF TfaInit, RowInv, TfaTypeOK, FactorUsable, NoOrphanCodes
<1>2. CallsInv
  <2>1. Resting \in CallSet
    BY RestingOK DEF CallOK
  <2> QED
    BY <1>0, <2>1 DEF TfaInit, CallsInv
<1>3. CountsInv /\ SheetInv /\ MailInv /\ ClearedInv
  BY <1>0, RestingOK, SMT DEF TfaInit, CountsInv, SheetInv, MailInv, ClearedInv, Holds, Forks
<1>4. FailInv
  <2>1. Past = {}
    BY <1>0, RestingOK DEF Past
  <2> QED
    BY <1>0, <1>2, <2>1, PastSize, FS_EmptySet, SMT DEF FailInv
<1> QED
  BY <1>1, <1>2, <1>3, <1>4 DEF FactorInv

LEMMA NextFactorInv ==
  ASSUME FactorBounds, FactorInv, [TfaNext]_tfaVars
  PROVE  FactorInv'
<1>1. ASSUME NEW c \in TfaCalls, TfaStep(c) PROVE FactorInv'
  BY <1>1, FindUserKeeps, GetSecretKeeps, RowKeeps, MatchKeeps, CodesKeep, LookKeeps, UseKeeps,
     TryKeeps, RecordKeeps, ConsumeKeeps, ForkKeeps DEF TfaStep
<1>2. ASSUME NEW c \in TfaCalls, TfaFails(c) PROVE FactorInv'
  <2>1. Stops(c) /\ UNCHANGED <<tfaRow, tfaCodes, links, fails, tfaCounts, tfaGhosts>>
    BY <1>2 DEF TfaFails
  <2>2. app' \in 0 .. MaxSecrets
    BY <1>2 DEF TfaFails, FactorInv, RowInv, TfaTypeOK
  <2> QED
    BY <2>1, <2>2, StopKeeps
<1> QED
  BY <1>1, <1>2, BeginKeeps, OutsideKeeps DEF TfaNext

\* The second factor is sound for any number of calls in flight, secrets, sets
\* of codes, links and faults: one that is on is the one the user proved to
\* hold, codes exist only beside it, a code and a link sign in once, and the
\* limiter is passed by no more than the calls in flight (totp_routes.rs,
\* recovery_codes.rs, magic_link.rs).
THEOREM SecondFactorIsSound ==
  ASSUME FactorBounds
  PROVE  TfaSpec => []FactorSound
<1>1. TfaInit => FactorInv
  BY InitFactorInv
<1>2. FactorInv /\ [TfaNext]_tfaVars => FactorInv'
  BY NextFactorInv
<1>3. FactorInv => FactorSound
  <2> SUFFICES ASSUME FactorInv PROVE FactorSound
    OBVIOUS
  <2>1. TfaTypeOK /\ FactorUsable /\ NoOrphanCodes
    BY DEF FactorInv, RowInv
  <2>2. SignsInOnce
    BY SMT DEF FactorInv, CountsInv, SheetInv, MailInv, SignsInOnce
  <2>3. FailuresBounded
    BY PastSize, SMT DEF FactorInv, FailInv, FailuresBounded, RowInv, TfaTypeOK, FactorBounds
  <2> QED
    BY <2>1, <2>2, <2>3 DEF FactorSound
<1> QED
  BY <1>1, <1>2, <1>3, PTL DEF TfaSpec
=============================================================================
