----------------------------- MODULE OrderPayment -----------------------------
(***************************************************************************)
(* One order paid through Stripe: Order.status and Order.payment_status    *)
(* under the webhook receivers (order/signals/handlers.py), the API        *)
(* requests (order/views/order.py, pay_way/services.py), the beat task     *)
(* that cancels stuck orders and the staff, all at once.                   *)
(*                                                                         *)
(* A receiver holds the order's row lock from its lookup to its commit:    *)
(* one action.  A request that reads the order, calls Stripe and writes    *)
(* afterwards is several actions and keeps what it read in call[c].        *)
(* Stripe delivers its events in any order and more than once.             *)
(***************************************************************************)
EXTENDS Integers, FiniteSets

CONSTANTS
  Intents,        \* Stripe PaymentIntents
  NoIntent,       \* the empty payment_id
  FirstIntent,    \* the intent the cart was checked out with
  AgentIntent,    \* the intent of an agent's SharedPaymentToken charge
  Callers,        \* threads that serve a request or run the beat task
  Amount,         \* what one intent charges, in units of a partial refund
  Entrances,      \* what may happen at all, named at the actions it allows
  RefundAnswers   \* status of a Stripe refund: "succeeded", "pending"

\* Both intents the order can begin with exist; Stripe charges at least one unit.
ASSUME PaymentConstants ==
  /\ NoIntent \notin Intents
  /\ FirstIntent \in Intents /\ AgentIntent \in Intents
  /\ Amount \in Nat \ {0}
  /\ RefundAnswers \subseteq {"succeeded", "pending"}

VARIABLES
  status,     \* Order.status, "NONE" before the row is committed
  pay,        \* Order.payment_status
  pid,        \* Order.payment_id
  flagged,    \* metadata has "payment_after_cancel"
  shipments,  \* dispatches of the courier's create-shipment task
  refunds,    \* refunds OrderService.refund_order asked Stripe for, by intent
  done,       \* metadata "webhook_processed_<event>" marks
  charge,     \* state of each intent at Stripe
  back,       \* units of each intent Stripe has refunded
  sent,       \* events Stripe has created
  inbox,      \* events Stripe still delivers
  swallowed,  \* history: events whose receiver failed and that were acknowledged
  call        \* what each running request has read

orderVars == <<status, pay, pid, flagged, shipments, refunds, done>>
stripeVars == <<charge, back, sent, inbox, swallowed>>
vars == <<orderVars, stripeVars, call>>

Statuses == {"PENDING", "PROCESSING", "SHIPPED", "DELIVERED", "COMPLETED",
             "CANCELED", "RETURNED", "REFUNDED"}
PaymentStatuses == {"PENDING", "PROCESSING", "COMPLETED", "FAILED",
                    "REFUNDED", "PARTIALLY_REFUNDED", "CANCELED"}
Returned == {"REFUNDED", "PARTIALLY_REFUNDED"}
Settled == {"COMPLETED", "CANCELED"} \cup Returned

Events ==
  [kind : {"succeeded", "failed", "action", "session_paid", "session_unpaid"},
   intent : Intents, back : {0}]
  \cup [kind : {"refunded"}, intent : Intents, back : 1 .. Amount]

Event(kind, i) == [kind |-> kind, intent |-> i, back |-> 0]

Exists == status # "NONE"
IsPaid == pay = "COMPLETED"

\* Requests that bring a new intent, and requests about the one they read.
Creating == {"place", "retry", "intent", "retry_lock", "agent"}
Reading == {"poll", "poll_write", "refund"}

Call ==
  [op : {"idle", "beat"} \cup Creating \cup Reading, pay : PaymentStatuses,
   pid : Intents \cup {NoIntent}, to : Intents \cup {NoIntent}]

NoCall == [op |-> "idle", pay |-> "PENDING", pid |-> NoIntent, to |-> NoIntent]

Init ==
  /\ status = "NONE" /\ pay = "PENDING" /\ pid = NoIntent
  /\ flagged = FALSE /\ shipments = 0 /\ done = {}
  /\ refunds = [i \in Intents |-> 0]
  /\ charge = [i \in Intents |-> IF i = FirstIntent THEN "open" ELSE "none"]
  /\ back = [i \in Intents |-> 0]
  /\ sent = {} /\ inbox = {} /\ swallowed = {}
  /\ call = [c \in Callers |-> NoCall]

-----------------------------------------------------------------------------
\* Stripe and the shopper in front of it.  An intent creates an event of each
\* kind at most once.

Emit(es) ==
  /\ es \cap sent = {}
  /\ sent' = sent \cup es
  /\ inbox' = inbox \cup es
  /\ UNCHANGED swallowed

Becomes(i, s) == charge' = [charge EXCEPT ![i] = s]

Succeeds(i) ==
  /\ charge[i] \in {"open", "processing"}
  /\ Becomes(i, "succeeded") /\ Emit({Event("succeeded", i)})
  /\ UNCHANGED <<orderVars, back, call>>

Processes(i) ==
  /\ "slow" \in Entrances
  /\ charge[i] = "open" /\ Becomes(i, "processing")
  /\ UNCHANGED <<orderVars, back, sent, inbox, swallowed, call>>

Declines(i) ==
  /\ "decline" \in Entrances
  /\ charge[i] \in {"open", "processing"}
  /\ Becomes(i, "open") /\ Emit({Event("failed", i)})
  /\ UNCHANGED <<orderVars, back, call>>

AsksForAction(i) ==
  /\ "action" \in Entrances
  /\ charge[i] = "open" /\ Emit({Event("action", i)})
  /\ UNCHANGED <<orderVars, charge, back, call>>

\* No receiver listens to this one.
Lapses(i) ==
  /\ "lapse" \in Entrances
  /\ charge[i] = "open" /\ Becomes(i, "canceled")
  /\ UNCHANGED <<orderVars, back, sent, inbox, swallowed, call>>

\* The shopper pays on the hosted page, at once or with a slow method.
SessionPays(i) ==
  /\ charge[i] = "session" /\ Becomes(i, "succeeded")
  /\ Emit({Event("succeeded", i), Event("session_paid", i)})
  /\ UNCHANGED <<orderVars, back, call>>

SessionStaysUnpaid(i) ==
  /\ "unpaid" \in Entrances
  /\ charge[i] = "session" /\ Becomes(i, "processing")
  /\ Emit({Event("session_unpaid", i)})
  /\ UNCHANGED <<orderVars, back, call>>

Refundable(i, n) == charge[i] = "succeeded" /\ n > 0 /\ back[i] + n <= Amount

GiveBack(i, n) ==
  /\ back' = [back EXCEPT ![i] = @ + n]
  /\ Emit({[kind |-> "refunded", intent |-> i, back |-> back[i] + n]})
  /\ UNCHANGED charge

DashboardRefund(i, n) ==
  /\ "dashboard" \in Entrances
  /\ Refundable(i, n) /\ GiveBack(i, n)
  /\ UNCHANGED <<orderVars, call>>

Stripe ==
  \E i \in Intents :
    \/ Succeeds(i) \/ Processes(i) \/ Declines(i) \/ AsksForAction(i)
    \/ Lapses(i)
    \/ SessionPays(i) \/ SessionStaysUnpaid(i)
    \/ \E n \in 1 .. Amount : DashboardRefund(i, n)

-----------------------------------------------------------------------------
\* OrderService.update_order_status.

AllowedTransitions ==
  [s \in Statuses |->
     CASE s = "PENDING"    -> {"PROCESSING", "CANCELED"}
       [] s = "PROCESSING" -> {"SHIPPED", "CANCELED"}
       [] s = "SHIPPED"    -> {"DELIVERED", "RETURNED"}
       [] s = "DELIVERED"  -> {"COMPLETED", "RETURNED"}
       [] s = "RETURNED"   -> {"REFUNDED"}
       [] OTHER            -> {}]

\* The staff's update_status endpoint, and the carriers' tracking updates.
UpdateOrderStatus(to) ==
  /\ "staff" \in Entrances
  /\ Exists /\ to \in AllowedTransitions[status]
  /\ status' = to
  /\ UNCHANGED <<pay, pid, flagged, shipments, refunds, done, stripeVars, call>>

-----------------------------------------------------------------------------
\* The webhook receivers.

\* Mutant: a canceled order is flagged and shipped all the same.
ShipsCanceled(i) ==
  IF pay \in Returned \cup {"CANCELED"}
  THEN UNCHANGED <<status, pay, pid, flagged, shipments>>
  ELSE /\ pay' = "COMPLETED" /\ pid' = i
       /\ flagged' = (flagged \/ status = "CANCELED")
       /\ status' = IF status = "PENDING" THEN "PROCESSING" ELSE status
       /\ shipments' = shipments + 1

\* Mutant: only an order that still waits for its payment is looked after.
OnlyPendingMatters(i) ==
  IF pay \in Returned \cup {"CANCELED"}
  THEN UNCHANGED <<status, pay, pid, flagged, shipments>>
  ELSE /\ pay' = "COMPLETED" /\ pid' = i
       /\ status' = IF status = "PENDING" THEN "PROCESSING" ELSE status
       /\ shipments' = IF status = "PENDING" THEN shipments + 1 ELSE shipments
       /\ UNCHANGED flagged

\* The money of intent i has arrived: handle_payment_succeeded and the paid
\* branch of handle_stripe_checkout_completed.
PaymentReceived(i) ==
  IF pay \in Returned \cup {"CANCELED"}
  THEN UNCHANGED <<status, pay, pid, flagged, shipments>>
  ELSE /\ pay' = "COMPLETED" /\ pid' = i
       /\ flagged' = (flagged \/ status = "CANCELED")
       /\ status' = IF status = "PENDING" THEN "PROCESSING" ELSE status
       /\ shipments' = IF status = "CANCELED" THEN shipments ELSE shipments + 1

ByIntent(e) == Exists /\ pid = e.intent
Mark(e) == done' = done \cup {e}

\* Mutant: the mark of an earlier delivery is not looked at.
SucceedsAgain(e) ==
  /\ e.kind = "succeeded" /\ ByIntent(e)
  /\ Mark(e) /\ PaymentReceived(e.intent)
  /\ UNCHANGED refunds

\* Mutant: an error after the mark is swallowed (G0231).
MarksAndSwallows(e) ==
  /\ e.kind = "succeeded" /\ ByIntent(e) /\ e \notin done
  /\ Mark(e)
  /\ PaymentReceived(e.intent) \/ UNCHANGED <<status, pay, pid, flagged, shipments>>
  /\ UNCHANGED refunds

OnSucceeded(e) ==
  /\ e.kind = "succeeded" /\ ByIntent(e) /\ e \notin done
  /\ Mark(e) /\ PaymentReceived(e.intent)
  /\ UNCHANGED refunds

\* Mutant: a late failure overwrites a settled payment.
FailsSettled(e) ==
  /\ e.kind = "failed" /\ ByIntent(e) /\ e \notin done
  /\ Mark(e)
  /\ pay' = "FAILED"
  /\ UNCHANGED <<status, pid, flagged, shipments, refunds>>

OnFailed(e) ==
  /\ e.kind = "failed" /\ ByIntent(e) /\ e \notin done
  /\ Mark(e)
  /\ pay' = IF pay \in Settled THEN pay ELSE "FAILED"
  /\ UNCHANGED <<status, pid, flagged, shipments, refunds>>

\* An event that finds the payment past these states is not even marked.
OnRequiresAction(e) ==
  /\ e.kind = "action" /\ ByIntent(e) /\ e \notin done
  /\ pay \in {"PROCESSING", "PENDING"}
  /\ Mark(e) /\ pay' = "PENDING"
  /\ UNCHANGED <<status, pid, flagged, shipments, refunds>>

\* Mutant: the settled states are guarded here as in the other receivers.
RefundSkipsSettled(e) ==
  /\ e.kind = "refunded" /\ ByIntent(e) /\ e \notin done
  /\ Mark(e)
  /\ pay' = IF pay \in Settled THEN pay
            ELSE IF e.back >= Amount THEN "REFUNDED" ELSE "PARTIALLY_REFUNDED"
  /\ UNCHANGED <<status, pid, flagged, shipments, refunds>>

OnChargeRefunded(e) ==
  /\ e.kind = "refunded" /\ ByIntent(e) /\ e \notin done
  /\ Mark(e)
  /\ pay' = IF e.back >= Amount THEN "REFUNDED" ELSE "PARTIALLY_REFUNDED"
  /\ UNCHANGED <<status, pid, flagged, shipments, refunds>>

\* A session names the order, not the intent.
OnCheckoutCompleted(e) ==
  /\ Exists /\ e \notin done
  /\ Mark(e)
  /\ \/ e.kind = "session_paid" /\ PaymentReceived(e.intent)
     \/ /\ e.kind = "session_unpaid" /\ pay' = "PENDING"
        /\ UNCHANGED <<status, pid, flagged, shipments>>
  /\ UNCHANGED refunds

Ignored(e) ==
  \/ e \in done
  \/ ~Exists
  \/ e.kind \notin {"session_paid", "session_unpaid"} /\ pid # e.intent
  \/ e.kind = "action" /\ pay \notin {"PROCESSING", "PENDING"}

Handle(e) ==
  \/ OnSucceeded(e) \/ OnFailed(e) \/ OnRequiresAction(e)
  \/ OnChargeRefunded(e) \/ OnCheckoutCompleted(e)
  \/ Ignored(e) /\ UNCHANGED orderVars

\* A delivery; Stripe forgets the event when it takes the answer for an
\* acknowledgement, and repeats it otherwise.
Deliver(e, again) ==
  /\ e \in inbox /\ Handle(e)
  /\ inbox' = IF again THEN inbox ELSE inbox \ {e}
  /\ UNCHANGED <<charge, back, sent, swallowed, call>>

\* Every receiver but handle_stripe_payment_succeeded (G0231) ends in `except
\* Exception`: what it did in its savepoint is rolled back, the error is logged,
\* and Stripe hears that the event was taken; dj-stripe drops a redelivery.
\* handle_stripe_payment_failed has set its mark in a savepoint before.
Swallows(e) ==
  /\ "raises" \in Entrances
  /\ e \in inbox /\ ~Ignored(e) /\ e.kind # "succeeded"
  /\ inbox' = inbox \ {e} /\ swallowed' = swallowed \cup {e}
  /\ \/ e.kind = "failed" /\ Mark(e)
     \/ UNCHANGED done
  /\ UNCHANGED <<status, pay, pid, flagged, shipments, refunds, charge, back,
                 sent, call>>

-----------------------------------------------------------------------------
\* Requests.  call[c] holds what the request read before it called Stripe.

Reads(c, op, i) ==
  /\ call[c] = NoCall
  /\ call' = [call EXCEPT ![c] = [op |-> op, pay |-> pay, pid |-> pid, to |-> i]]
Answers(c) == call' = [call EXCEPT ![c] = NoCall]
Goes(c, op) == call' = [call EXCEPT ![c] = [@ EXCEPT !.op = op]]

\* StripePaymentProvider._map_stripe_status.
MapStripeStatus(s) ==
  CASE s = "processing" -> "PROCESSING"
    [] s = "succeeded" -> "COMPLETED"
    [] s = "canceled" -> "CANCELED"
    [] OTHER -> "PENDING"

\* create_order_from_cart: the intent's status is read while the cart is
\* locked and written with the order's row at the commit.
PlaceCheck(c) ==
  /\ ~Exists /\ \A d \in Callers : call[d].op # "place"
  /\ call[c] = NoCall /\ charge[FirstIntent] # "canceled"
  /\ call' = [call EXCEPT ![c] =
       [NoCall EXCEPT !.op = "place", !.to = FirstIntent,
                      !.pay = MapStripeStatus(charge[FirstIntent])]]
  /\ UNCHANGED <<orderVars, stripeVars>>

PlaceCommit(c) ==
  /\ call[c].op = "place" /\ Answers(c)
  /\ status' = "PENDING" /\ pay' = call[c].pay /\ pid' = call[c].to
  /\ UNCHANGED <<flagged, shipments, refunds, done, stripeVars>>

\* retry_payment and create_payment_intent: the checks, without a lock, and a
\* new intent at Stripe.
RetryCheck(c, i) ==
  /\ "retry" \in Entrances
  /\ Exists /\ charge[i] = "none"
  /\ ~IsPaid
  /\ \/ pay \in {"FAILED", "PENDING", "CANCELED"} /\ Reads(c, "retry", i)
     \/ Reads(c, "intent", i)
  /\ Becomes(i, "made")
  /\ UNCHANGED <<orderVars, back, sent, inbox, swallowed>>

\* PayWayService.process_payment saves the new intent on the row as it is now;
\* create_payment_intent answers with it.
RetrySave(c) ==
  /\ call[c].op \in {"retry", "intent"}
  /\ pay' = "PENDING" /\ pid' = call[c].to
  /\ IF call[c].op = "retry"
     THEN Goes(c, "retry_lock") /\ UNCHANGED charge
     ELSE Answers(c) /\ Becomes(call[c].to, "open")
  /\ UNCHANGED <<status, flagged, shipments, refunds, done, back, sent, inbox,
                 swallowed>>

\* .. and retry_payment writes it once more under the row lock.
RetryLock(c) ==
  /\ call[c].op = "retry_lock"
  /\ pay' = "PENDING" /\ pid' = call[c].to
  /\ Answers(c) /\ Becomes(call[c].to, "open")
  /\ UNCHANGED <<status, flagged, shipments, refunds, done, back, sent, inbox,
                 swallowed>>

CreateCheckoutSession(i) ==
  /\ "session" \in Entrances
  /\ Exists /\ ~IsPaid /\ charge[i] = "none"
  /\ Becomes(i, "session")
  /\ UNCHANGED <<orderVars, back, sent, inbox, swallowed, call>>

\* confirm_agent_payment: an unlocked check, one charge per order (Stripe's
\* idempotency key), which Stripe takes at once or leaves open ..
AgentCheck(c) ==
  /\ "agent" \in Entrances
  /\ Exists /\ ~IsPaid /\ charge[AgentIntent] = "none"
  /\ call[c] = NoCall
  /\ \E s \in {"succeeded", "processing", "open"} :
       /\ Becomes(AgentIntent, s)
       /\ IF s = "succeeded" THEN Emit({Event("succeeded", AgentIntent)})
                             ELSE UNCHANGED <<sent, inbox, swallowed>>
       /\ call' = [call EXCEPT ![c] =
            [NoCall EXCEPT !.op = "agent", !.to = AgentIntent,
                           !.pay = MapStripeStatus(s)]]
  /\ UNCHANGED <<orderVars, back>>

\* .. and its answer, written under the row lock.
AgentLock(c) ==
  /\ call[c].op = "agent" /\ Answers(c)
  /\ pay' = IF call[c].pay = "COMPLETED" THEN "COMPLETED" ELSE pay
  /\ pid' = call[c].to
  /\ UNCHANGED <<status, flagged, shipments, refunds, done, stripeVars>>

\* OrderService.get_payment_status: read, ask Stripe (a failed request counts
\* as FAILED), write if it differs from what was read.
PollRead(c) ==
  /\ "poll" \in Entrances
  /\ Exists /\ Reads(c, "poll", pid)
  /\ UNCHANGED <<orderVars, stripeVars>>

PollAsk(c) ==
  /\ call[c].op = "poll"
  /\ \E now \in {MapStripeStatus(charge[call[c].pid]), "FAILED"} :
       call' = [call EXCEPT ![c] =
                  IF now = call[c].pay THEN NoCall
                  ELSE [@ EXCEPT !.op = "poll_write", !.pay = now]]
  /\ UNCHANGED <<orderVars, stripeVars>>

PollWrite(c) ==
  /\ call[c].op = "poll_write" /\ Answers(c)
  /\ pay' = call[c].pay
  /\ UNCHANGED <<status, pid, flagged, shipments, refunds, done, stripeVars>>

\* refund_order.  What it writes when Stripe takes the refund of n units of
\* intent i: a refund in part is REFUNDED, too.
RefundTaken(i, n) ==
  /\ Refundable(i, n) /\ GiveBack(i, n)
  /\ refunds' = [refunds EXCEPT ![i] = @ + 1]
  /\ \E answer \in RefundAnswers :
       pay' = IF answer = "succeeded" THEN "REFUNDED" ELSE "PROCESSING"

RefundRead(c) ==
  /\ "clerk" \in Entrances
  /\ Exists /\ Reads(c, "refund", pid)
  /\ UNCHANGED <<orderVars, stripeVars>>

\* Mutant: only the object the request fetched is looked at.
RefundUnlocked(c) ==
  /\ call[c].op = "refund" /\ Answers(c)
  /\ IF call[c].pay = "COMPLETED"
     THEN \/ \E n \in 1 .. Amount : RefundTaken(call[c].pid, n)
          \/ UNCHANGED <<pay, refunds, stripeVars>>
     ELSE UNCHANGED <<pay, refunds, stripeVars>>
  /\ UNCHANGED <<status, pid, flagged, shipments, done>>

\* The row is locked and payment_status read again; payment_id and is_paid are
\* those of the object the request fetched.
RefundLock(c) ==
  /\ call[c].op = "refund" /\ Answers(c)
  /\ IF pay \notin Returned /\ call[c].pay = "COMPLETED"
     THEN \/ \E n \in 1 .. Amount : RefundTaken(call[c].pid, n)
          \/ UNCHANGED <<pay, refunds, stripeVars>>
     ELSE UNCHANGED <<pay, refunds, stripeVars>>
  /\ UNCHANGED <<status, pid, flagged, shipments, done>>

\* The process dies after Stripe took the refund and before the commit.
RefundLost(c) ==
  /\ "crash" \in Entrances
  /\ call[c].op = "refund" /\ Answers(c)
  /\ pay \notin Returned /\ call[c].pay = "COMPLETED"
  /\ \E n \in 1 .. Amount :
       Refundable(call[c].pid, n) /\ GiveBack(call[c].pid, n)
  /\ UNCHANGED orderVars

\* cancel_order; a refund that Stripe declines is logged and dropped.
CancelOrder(refundPayment) ==
  /\ Exists /\ status \in {"PENDING", "PROCESSING"}
  /\ status' = "CANCELED"
  /\ IF refundPayment /\ IsPaid
     THEN \/ RefundTaken(pid, Amount - back[pid])
          \/ UNCHANGED <<pay, refunds, stripeVars>>
     ELSE UNCHANGED <<pay, refunds, stripeVars>>
  /\ UNCHANGED <<pid, flagged, shipments, done>>

CustomerCancel ==
  /\ "cancel" \in Entrances
  /\ \E refundPayment \in BOOLEAN : CancelOrder(refundPayment)
  /\ UNCHANGED call

\* auto_cancel_stuck_pending_orders: the query, without a lock ..
AutoCancelSelect(c) ==
  /\ "beat" \in Entrances
  /\ status = "PENDING" /\ pay \in {"FAILED", "PENDING"}
  /\ Reads(c, "beat", NoIntent)
  /\ UNCHANGED <<orderVars, stripeVars>>

\* Mutant: the lock is taken and the status is not read again.
AutoCancelBlindly(c) ==
  /\ call[c].op = "beat" /\ Answers(c)
  /\ IF status \in {"PENDING", "PROCESSING"} THEN CancelOrder(FALSE)
     ELSE UNCHANGED <<orderVars, stripeVars>>

\* .. and each order under its lock, skipped when its status has moved on.
AutoCancelLock(c) ==
  /\ call[c].op = "beat" /\ Answers(c)
  /\ IF status = "PENDING" THEN CancelOrder(FALSE)
     ELSE UNCHANGED <<orderVars, stripeVars>>

Request(c) ==
  \/ PlaceCheck(c)
  \/ \E i \in Intents : RetryCheck(c, i)
  \/ AgentCheck(c) \/ PollRead(c) \/ RefundRead(c) \/ AutoCancelSelect(c)

Proceed(c) ==
  \/ PlaceCommit(c)
  \/ RetrySave(c) \/ RetryLock(c)
  \/ AgentLock(c)
  \/ PollAsk(c) \/ PollWrite(c)
  \/ RefundLock(c)
  \/ AutoCancelLock(c)

Next ==
  \/ Stripe
  \/ \E e \in Events, again \in BOOLEAN : Deliver(e, again)
  \/ \E e \in Events : Swallows(e)
  \/ \E c \in Callers : Request(c) \/ Proceed(c) \/ RefundLost(c)
  \/ \E i \in Intents : CreateCheckoutSession(i)
  \/ CustomerCancel
  \/ \E to \in Statuses : UpdateOrderStatus(to)

Spec == Init /\ [][Next]_vars

\* Stripe repeats events for days until they are acknowledged, and of the
\* requests that have begun some goes on; no single one is favoured.
FairSpec ==
  /\ Spec
  /\ WF_vars(\E e \in Events : Deliver(e, FALSE))
  /\ WF_vars(\E c \in Callers : Proceed(c))

-----------------------------------------------------------------------------
\* The order's row, Stripe's records and the requests have their shape.
TypeOK ==
  /\ status \in Statuses \cup {"NONE"}
  /\ pay \in PaymentStatuses
  /\ pid \in Intents \cup {NoIntent} /\ (Exists => pid \in Intents)
  /\ flagged \in BOOLEAN /\ shipments \in Nat
  /\ refunds \in [Intents -> Nat]
  /\ done \subseteq sent /\ inbox \subseteq sent /\ sent \subseteq Events
  /\ swallowed \subseteq sent
  /\ charge \in [Intents -> {"none", "made", "open", "processing",
                             "succeeded", "canceled", "session"}]
  /\ back \in [Intents -> 0 .. Amount]
  /\ call \in [Callers -> Call]
  /\ \A c \in Callers :
       /\ call[c].op \in Creating => call[c].to \in Intents
       /\ call[c].op \in Reading => call[c].pid \in Intents

\* All entrances together keep to the published transitions, and none asks
\* the courier for a shipment of a canceled order (G0281).
Lifecycle == INSTANCE OrderLifecycle
ImplementsLifecycle == Lifecycle!LifeSpec

\* However often Stripe repeats its events, one payment event asks for at most
\* one shipment.
PaymentEvents == {e \in done : e.kind \in {"succeeded", "session_paid"}}
OneShipmentPerEvent == shipments <= Cardinality(PaymentEvents)

\* Money that reaches an order which is already canceled is put on record for
\* a refund by hand (G0281).  It holds of what the receivers and a refund in
\* flight write; confirm_agent_payment and the status poll write COMPLETED on a
\* canceled order and set no flag, so it does not hold where "agent" or "poll"
\* is an entrance.
ReceiptOnCanceledIsFlagged ==
  [][status = "CANCELED" /\ ~IsPaid /\ pay' = "COMPLETED" => flagged']_vars

\* "Webhook payment_status writes never regress a SETTLED state"
\* (docs/order-system.md:396): no delivery takes a settled payment back to an
\* open state, and none pays a refunded or canceled one again.
WebhooksNeverRegress ==
  [][\A e \in Events, again \in BOOLEAN :
       Deliver(e, again) /\ pay \in Settled
         => /\ pay' \in Settled
            /\ pay # "COMPLETED" => pay' # "COMPLETED"]_vars

\* "Auto-cancel PENDING orders that will never be paid" (order/tasks.py:1651):
\* the task never cancels an order whose payment is recorded, although its
\* lock only reads the status again.
AutoCancelSparesPaid ==
  [][\A c \in Callers :
       call[c].op = "beat" /\ status # "CANCELED" /\ call'[c] = NoCall
         /\ status' = "CANCELED"
       => ~IsPaid]_vars

\* "two concurrent refunds both pass the stale in-memory guard and issue
\* duplicate provider refunds" is what refund_order's lock rules out (G0280):
\* it asks Stripe for at most one refund of an intent.
RefundOnce == \A i \in Intents : refunds[i] <= 1

\* A payment event that Stripe still delivers when the order's row is there
\* takes the order out of PENDING, unless the money went back first.
PaymentEventMovesOrder ==
  \A i \in Intents :
    status = "PENDING" /\ pid = i /\ Event("succeeded", i) \in inbox
      ~> status # "PENDING" \/ pay \in Returned

\* A refund made in Stripe's dashboard, or by a request that died before its
\* commit, reaches the order ("Without a handler, refunds initiated outside our
\* admin would never hit the DB", order/signals/handlers.py), unless its
\* receiver failed: handle_stripe_charge_refunded swallows the error, and Stripe
\* does not repeat the event.
RefundOf(e, i) == e.kind = "refunded" /\ e.intent = i
RefundReachesOrder ==
  \A i \in Intents :
    Exists /\ pid = i /\ (\E e \in inbox : RefundOf(e, i))
      ~> pay \in Returned \/ \E e \in swallowed : RefundOf(e, i)

=============================================================================
