------------------------------ MODULE Commerce ------------------------------
(***************************************************************************)
(* The pairing of shop requests with shop answers                          *)
(* (crates/starstats-core/src/transactions.rs), a pure function of a list  *)
(* of events.  An event is a record with its kind, its instant and the     *)
(* shop it names, NoId when the line carries none.  Commodity requests     *)
(* never have an answer and are not part of the pairing; the result token  *)
(* of an answer only chooses between two words for "answered".             *)
(***************************************************************************)
EXTENDS Naturals, FiniteSets, SequencesExt

\* An absent shop_id.
NoId == "-"

\* Both sides name the same shop, or one of them names none.
SameShop(a, b) == a.what = b.what \/ NoId \in {a.what, b.what}

\* The positions of the events of one kind.
Of(events, kind) == {i \in DOMAIN events : events[i].kind = kind}

\* The requests an answer may be paired with: free, of the same shop, not later.
Candidates(events, pairs, r) ==
    {q \in Of(events, "buy") \ DOMAIN pairs :
        /\ SameShop(events[q], events[r])
        /\ events[q].at <= events[r].at}

\* max_by keeps the last of the latest.
MostRecent(events, qs) ==
    CHOOSE q \in qs : \A p \in qs :
        \/ events[p].at < events[q].at
        \/ events[p].at = events[q].at /\ p <= q

\* The answers in the order they are given, each taking its most recent request.
pair_transactions(events) ==
    FoldLeft(LAMBDA pairs, r :
                LET qs == Candidates(events, pairs, r)
                IN  IF qs = {} THEN pairs
                    ELSE LET q == MostRecent(events, qs)
                         IN  [x \in DOMAIN pairs \union {q} |->
                                IF x = q THEN r ELSE pairs[x]],
             <<>>,
             SetToSortSeq(Of(events, "response"), LAMBDA a, b : a < b))
=============================================================================
