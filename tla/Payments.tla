------------------------------ MODULE Payments ------------------------------
(***************************************************************************)
(* A paid marketplace subscription (payments.py, db/payments.py): one row  *)
(* per subscriber and listing mirrors what Stripe says of it, and the      *)
(* marketplace subscription follows the row.  Stripe neither orders nor    *)
(* deduplicates its events; the subscriber checks out and leaves, the      *)
(* publisher approves, pauses and kicks, a listing turns paid              *)
(* (routers/marketplace.py, routers/webhooks.py).                          *)
(***************************************************************************)
EXTENDS Naturals, FiniteSets

CONSTANTS
    Approval,     \* the publisher admits by hand
    MaxEvents,    \* what Stripe sends
    MaxPeriods,   \* billing periods
    MaxCheckouts  \* sessions asked for

PAID == {"trialing", "active"}
LIVE == PAID \cup {"past_due"}
Forever == MaxPeriods + 1      \* 9999-12-31

VARIABLES
    \* Stripe
    live, period, refunded, now, sent,
    \* the payment row: status, whether it names a subscription, the last event's
    \* id and second, the period's end, the end of a withdrawal (0 for none)
    row,
    sub,          \* the marketplace subscription: "none", "unpaid", "pending", "active", "paused"
    priced,       \* the listing costs something
    asking,       \* checkout requests awaiting Stripe
    asked, open,  \* requests so far, open sessions
    leaving,      \* the unsubscribe awaits Stripe
    seen          \* history: events delivered

vars == <<live, period, refunded, now, sent, row, sub, priced, asking, asked, open, leaving, seen>>
stripe == <<live, period, refunded, now, sent>>
shop == <<priced, asking, asked, open, leaving>>

Event == [n : 1 .. MaxEvents, t : 1 .. MaxEvents + 1, kind : {"checkout", "sub", "failed", "refund"},
          status : LIVE \cup {"canceled"}, period : 0 .. MaxPeriods]

TypeOK ==
    /\ live \in {"none"} \cup LIVE \cup {"canceled"} /\ period \in 0 .. MaxPeriods
    /\ refunded \subseteq 1 .. MaxPeriods /\ now \in 1 .. MaxEvents + 1
    /\ sent \subseteq Event /\ seen \subseteq sent
    /\ row \in [st : {"none", "pending", "unpaid", "canceled"} \cup LIVE, sub : BOOLEAN,
                id : 0 .. MaxEvents, t : 0 .. MaxEvents + 1, period : 0 .. MaxPeriods, rev : 0 .. Forever]
    /\ sub \in {"none", "unpaid", "pending", "active", "paused"}
    /\ priced \in BOOLEAN /\ leaving \in BOOLEAN
    /\ asking \in 0 .. MaxCheckouts /\ asked \in 0 .. MaxCheckouts /\ open \in 0 .. MaxCheckouts

Init ==
    /\ live = "none" /\ period = 0 /\ refunded = {} /\ now = 1 /\ sent = {}
    /\ row = [st |-> "none", sub |-> FALSE, id |-> 0, t |-> 0, period |-> 0, rev |-> 0]
    /\ sub = "none" /\ priced = FALSE
    /\ asking = 0 /\ asked = 0 /\ open = 0 /\ leaving = FALSE /\ seen = {}
------------------------------------------------------------------------------
(* Stripe                                                                  *)

Send(kind, status, p) ==
    /\ Cardinality(sent) < MaxEvents
    /\ now' \in {now, now + 1}
    /\ sent' = sent \cup {[n |-> Cardinality(sent) + 1, t |-> now', kind |-> kind, status |-> status, period |-> p]}

Pays ==
    /\ open > 0 /\ live = "none"
    /\ live' = "active" /\ period' = 1
    /\ \/ Send("checkout", "active", 0) \/ Send("sub", "active", 1)
    /\ UNCHANGED <<refunded, row, sub, shop, seen>>

Bills ==
    /\ live \in LIVE
    /\ \/ live' = "active" /\ period' \in {period, period + 1} /\ period' <= MaxPeriods
          /\ Send("sub", live', period') /\ UNCHANGED refunded
       \/ /\ live' = "past_due" /\ UNCHANGED <<period, refunded>>
          /\ (Send("sub", live', period) \/ Send("failed", live', period))
       \/ live' = "canceled" /\ Send("sub", live', period) /\ UNCHANGED <<period, refunded>>
       \/ /\ live = "active" /\ refunded' = refunded \cup {period} /\ Send("refund", live, period)
          /\ UNCHANGED <<live, period>>
    /\ UNCHANGED <<row, sub, shop, seen>>
------------------------------------------------------------------------------
(* The events                                                              *)

StaleNever(e) == FALSE      \* fault: an old event is applied over a newer one

\* Applied already, or older than what was applied last.
Stale(e) == e.n = row.id \/ e.t < row.t

StampedRow(e, r) == [r EXCEPT !.id = e.n, !.t = e.t]

\* A refunded period stays withdrawn until a later one is paid.
Withdrawn(e) == row.rev # 0 /\ e.status \in PAID /\ ~(e.period # 0 /\ e.period > row.rev)

After(e) ==
    CASE e.kind = "checkout" ->
             [StampedRow(e, row) EXCEPT !.sub = TRUE,
              !.st = IF row.st \in {"none", "pending", "unpaid", "canceled"} THEN "active" ELSE row.st]
      [] e.kind = "sub" ->
             [StampedRow(e, row) EXCEPT !.sub = TRUE, !.period = e.period,
              !.st = IF Withdrawn(e) THEN "unpaid" ELSE e.status,
              !.rev = IF e.status \in PAID /\ ~Withdrawn(e) THEN 0 ELSE row.rev]
      [] e.kind = "failed" -> [StampedRow(e, row) EXCEPT !.st = "past_due"]
      [] e.kind = "refund" ->
             [StampedRow(e, row) EXCEPT !.st = "unpaid",
              !.rev = IF row.period = 0 THEN Forever ELSE row.period]

\* _apply: the marketplace subscription follows.
Followed(st) ==
    IF st \in PAID
      THEN IF sub = "unpaid" THEN IF Approval THEN "pending" ELSE "active" ELSE sub
      ELSE IF sub \in {"active", "pending"} THEN "unpaid" ELSE sub

\* handle_event: a failed invoice or a refund of a subscription no row names is
\* ignored.
Deliver(e) ==
    /\ e \in sent
    /\ seen' = seen \cup {e}
    /\ IF Stale(e) \/ (e.kind \in {"failed", "refund"} /\ ~row.sub)
         THEN UNCHANGED <<row, sub>>
         ELSE row' = After(e) /\ sub' = Followed(row'.st)
    /\ UNCHANGED <<stripe, shop>>
------------------------------------------------------------------------------
(* The subscriber and the publisher                                        *)

HasPaid == row.st \in PAID

\* _admission of a new row; an existing one keeps its status.
Subscribe ==
    /\ sub = "none"
    /\ sub' = IF priced /\ ~HasPaid THEN "unpaid" ELSE IF Approval THEN "pending" ELSE "active"
    /\ UNCHANGED <<stripe, row, shop, seen>>

\* create_checkout: refused while a subscription lives, the same link again while
\* one is open.
AskCheckout ==
    /\ asked < MaxCheckouts /\ sub # "none" /\ priced
    /\ ~(row.st \in LIVE /\ row.sub) /\ row.st # "pending"
    /\ asked' = asked + 1 /\ asking' = asking + 1
    /\ UNCHANGED <<stripe, row, sub, priced, open, leaving, seen>>

\* The session Stripe made is written over the row, whatever it says by then.
CheckoutMade ==
    /\ asking > 0 /\ asking' = asking - 1
    /\ \/ UNCHANGED <<row, open>>
       \/ open' = open + 1 /\ row' = [row EXCEPT !.st = "pending"]
    /\ UNCHANGED <<stripe, sub, priced, asked, leaving, seen>>

\* api_unsubscribe, with Stripe asked first when a subscription lives.
Leave ==
    /\ sub # "none" /\ ~leaving
    /\ IF row.st \in LIVE /\ row.sub
         THEN leaving' = TRUE /\ UNCHANGED sub
         ELSE sub' = "none" /\ UNCHANGED leaving
    /\ UNCHANGED <<stripe, row, priced, asking, asked, open, seen>>

Left ==
    /\ leaving /\ leaving' = FALSE
    /\ \/ UNCHANGED <<stripe, row, sub>>                    \* Stripe refused
       \/ /\ live \in LIVE /\ live' = "canceled"
          /\ Send("sub", "canceled", period) /\ UNCHANGED <<period, refunded>>
          /\ \/ row' = [row EXCEPT !.st = "canceled"] /\ sub' = "none"
             \/ UNCHANGED <<row, sub>>                      \* its answer was lost
       \/ live \notin LIVE /\ row' = [row EXCEPT !.st = "canceled"] /\ sub' = "none" /\ UNCHANGED stripe
    /\ UNCHANGED <<priced, asking, asked, open, seen>>

ActivateUnpaid == TRUE      \* fault: the publisher's word is enough
\* may_activate
MayActivate == ~priced \/ HasPaid

\* The publisher approves, pauses, resumes or removes the subscriber.
Publisher ==
    /\ sub # "none"
    /\ \/ sub' \in {"pending", "paused", "unpaid", "none"}
       \/ MayActivate /\ sub' = "active"
    /\ UNCHANGED <<stripe, row, shop, seen>>

\* demote_unpaid: nobody rides for free.
TurnPaid ==
    /\ ~priced /\ priced' = TRUE
    /\ sub' = IF sub \in {"active", "pending"} /\ ~HasPaid THEN "unpaid" ELSE sub
    /\ UNCHANGED <<stripe, row, asking, asked, open, leaving, seen>>

Next ==
    \/ Pays \/ Bills \/ Subscribe \/ AskCheckout \/ CheckoutMade
    \/ Leave \/ Left \/ Publisher \/ TurnPaid
    \/ \E e \in sent : Deliver(e)

Spec == Init /\ [][Next]_vars
------------------------------------------------------------------------------
(* Properties                                                              *)

\* The last event that was applied to the row paid it.
LastWordPays ==
    \E e \in seen : e.n = row.id /\ (e.kind = "checkout" \/ (e.kind = "sub" /\ e.status \in PAID))

\* Whatever order Stripe's events arrive in, however often, and whatever the
\* subscriber and the publisher do meanwhile: signals of a paid listing flow only
\* while its row is paid, or while a second checkout has put a row back to pending
\* that the last event had paid (create_checkout writes after its await); and the
\* newest subscription event that was delivered decides the row, when its second is
\* its own, until a checkout, a leave or a refund does.
AccessIsPaid ==
    /\ (priced /\ sub = "active") => HasPaid \/ (row.st = "pending" /\ LastWordPays)
    /\ \A e \in seen :
        (e.kind = "sub" /\ \A d \in seen : d = e \/ d.t < e.t)
        => row.st \in {e.status, "pending", "canceled"} \/ row.rev # 0

\* "Signals only flow while the subscription is paid" read of the row alone.  Not so:
\* an event that pays the row between a checkout's request and its answer is
\* overwritten with pending while the subscriber has his access (payments.py:209).
RowIsPaid == (priced /\ sub = "active") => HasPaid

\* "the same period was refunded / disputed: a routine update does not re-grant it"
\* (payments.py, handle_event): a refund of the period the row is in withdraws the
\* access, also when a routine update of that period arrived before it.
RefundWithdraws ==
    [][\A e \in seen' \ seen :
          (e.kind = "refund" /\ row.sub /\ e.period = row.period) => row'.st \notin PAID]_vars
==============================================================================
