------------------------------ MODULE VivaWebhook ------------------------------
(***************************************************************************)
(* Payments with Viva Wallet (order/views/viva_webhook.py): the hosted     *)
(* sessions of one order, the events Viva delivers at least once and in    *)
(* any order until they are answered 200, the Retrieve Transaction call    *)
(* that confirms each, the refunds, the status poll of the order page and  *)
(* the auto-cancel task.  Viva is external: txn is what really became of   *)
(* each of its transactions.                                               *)
(***************************************************************************)
EXTENDS Integers, FiniteSets

CONSTANTS
  Txns,       \* Viva transactions, each on a session of its own
  Requests,   \* webhook requests being answered at one time
  None,
  MaxEdits,   \* edits of the order's items by the staff
  MaxFaults   \* Viva calls that fail, and answers or commits that are lost

ASSUME VivaConstants ==
  /\ None \notin Txns /\ None \notin Requests
  /\ MaxFaults \in Nat /\ MaxEdits \in Nat

VARIABLES
  order,    \* the order's status, payment_status and payment_id
  total,    \* calculate_order_total_amount, which each edit changes
  asked,    \* the total each session asks for
  txn,      \* ground truth: the state of each transaction at Viva
  sent,     \* events Viva has to tell
  acked,    \* events it was answered 200 for, and need not repeat
  rows,     \* VivaWebhookEvent rows, unique by transaction and event type
  applied,  \* how often an event had its effects: writes, e-mails, shipment
  request,  \* where each webhook request stands
  lock,     \* the request that holds the order's row
  check,    \* a status poll between Viva's answer and its save
  faults,
  missed,   \* payments whose event was recorded on a failed verification
  refused   \* payments whose event was recorded and refused for their amount

price == <<total, asked>>
vars == <<order, price, txn, sent, acked, rows, applied, request, lock, check,
          faults, missed, refused>>

Types == {"paid", "failed", "reversed"}   \* 1796, 1798, 1797
Events == Types \X Txns
Answers == {"open", "F", "E", "R", "error"}
Payments == {"PENDING", "COMPLETED", "FAILED", "REFUNDED"}

VivaTypeOK ==
  /\ order \in [status : {"PENDING", "PROCESSING", "CANCELED"},
                payment : Payments, id : Txns \cup {None}]
  /\ total \in 0 .. MaxEdits /\ asked \in [Txns -> 0 .. MaxEdits]
  /\ txn \in [Txns -> {"none", "open", "F", "E", "R"}]
  /\ sent \subseteq Events /\ acked \subseteq sent /\ rows \subseteq sent
  /\ applied \in [Events -> Nat]
  /\ request \in [Requests ->
       [pc : {"idle", "waiting", "verified"}, ev : Events \cup {None},
        answer : Answers \cup {None}]]
  /\ lock \in Requests \cup {None}
  /\ check \in [seen : Payments \cup {None}, answer : Payments \cup {None}]
  /\ faults \in 0 .. MaxFaults /\ missed \subseteq Txns /\ refused \subseteq Txns

Idle == [pc |-> "idle", ev |-> None, answer |-> None]
NoCheck == [seen |-> None, answer |-> None]

Init ==
  /\ order = [status |-> "PENDING", payment |-> "PENDING", id |-> None]
  /\ total = 0 /\ asked = [t \in Txns |-> 0]
  /\ txn = [t \in Txns |-> "none"]
  /\ sent = {} /\ acked = {} /\ rows = {}
  /\ applied = [e \in Events |-> 0]
  /\ request = [r \in Requests |-> Idle] /\ lock = None
  /\ check = NoCheck /\ faults = 0 /\ missed = {} /\ refused = {}

webhook == <<acked, rows, applied, request, lock, missed, refused>>

Fault == faults < MaxFaults /\ faults' = faults + 1

-----------------------------------------------------------------------------
\* The customer and Viva.

\* create_checkout_session refuses a paid order, and no other, and asks for
\* what the order costs now.
OpensSession(t) ==
  /\ txn[t] = "none" /\ order.payment # "COMPLETED"
  /\ txn' = [txn EXCEPT ![t] = "open"]
  /\ asked' = [asked EXCEPT ![t] = total]
  /\ UNCHANGED <<order, total, sent, webhook, check, faults>>

\* The staff edits the quantities in the order's admin page.
EditsItems ==
  /\ total < MaxEdits /\ total' = total + 1
  /\ UNCHANGED <<order, asked, txn, sent, webhook, check, faults>>

Settles(t, how, type) ==
  /\ txn' = [txn EXCEPT ![t] = how] /\ sent' = sent \cup {<<type, t>>}

Pays(t) ==
  /\ txn[t] = "open" /\ Settles(t, "F", "paid")
  /\ UNCHANGED <<order, price, webhook, check, faults>>

Fails(t) ==
  /\ txn[t] = "open" /\ Settles(t, "E", "failed")
  /\ UNCHANGED <<order, price, webhook, check, faults>>

\* Refunded in Viva's own dashboard.
Reverses(t) ==
  /\ txn[t] = "F" /\ Settles(t, "R", "reversed")
  /\ UNCHANGED <<order, price, webhook, check, faults>>

-----------------------------------------------------------------------------
\* A webhook request: looked up, locked and verified, applied.

\* An event that has its row is answered at once, without a lock.
Receives(r, e) ==
  /\ request[r].pc = "idle" /\ e \in sent
  /\ IF e \in rows
       THEN acked' = acked \cup {e} /\ UNCHANGED request
       ELSE /\ request' = [request EXCEPT ![r] =
                 [pc |-> "waiting", ev |-> e, answer |-> None]]
            /\ UNCHANGED acked
  /\ UNCHANGED <<order, price, txn, sent, rows, applied, lock, check, faults,
                 missed, refused>>

\* Mutant: the row is not looked for again under the lock.
AlreadyDoneUnlocked(r) == FALSE

\* Under the lock the row is looked for again,
AlreadyDone(r) == request[r].ev \in rows

Duplicates(r) ==
  /\ request[r].pc = "waiting" /\ lock = None /\ AlreadyDone(r)
  /\ acked' = acked \cup {request[r].ev}
  /\ request' = [request EXCEPT ![r] = Idle]
  /\ UNCHANGED <<order, price, txn, sent, rows, applied, lock, check, faults,
                 missed, refused>>

\* and Viva is asked, while the lock is held.
Verifies(r) ==
  /\ request[r].pc = "waiting" /\ lock = None /\ ~AlreadyDone(r)
  /\ lock' = r
  /\ \/ /\ request' = [request EXCEPT ![r] =
             [pc |-> "verified", ev |-> request[r].ev,
              answer |-> txn[request[r].ev[2]]]]
        /\ UNCHANGED faults
     \/ /\ Fault
        /\ request' = [request EXCEPT ![r] =
             [pc |-> "verified", ev |-> request[r].ev, answer |-> "error"]]
  /\ UNCHANGED <<order, price, txn, sent, acked, rows, applied, check, missed,
                 refused>>

\* _handle_payment_created.  A failed call comes back as FAILED and is taken
\* for a payment that did not complete; a payment of another amount than the
\* order costs now is refused.  Neither has an effect or is redelivered.
AmountDiffers(t) == asked[t] # total

MayPay(t, answer) ==
  answer = "F" /\ ~AmountDiffers(t) /\ order.payment # "REFUNDED"

Paid(t) ==
  [status |-> IF order.status = "PENDING" THEN "PROCESSING" ELSE order.status,
   payment |-> "COMPLETED", id |-> t]

\* _handle_payment_failed: never over a settled payment.
\* Mutant: over any payment.
FailsSettled(answer) == answer = "E"

MayFail(answer) ==
  order.payment \notin {"COMPLETED", "REFUNDED"} /\ answer = "E"

\* _handle_reversal_created: whatever the order's payment is.
\* Mutant: only a payment that is booked can be reversed.
ReversesBooked(answer) == answer = "R" /\ order.payment = "COMPLETED"

MayReverse(answer) == answer = "R"

Takes(type, t, answer) ==
  CASE type = "paid" -> MayPay(t, answer)
    [] type = "failed" -> MayFail(answer)
    [] OTHER -> MayReverse(answer)

\* A failed verification of a failure or a reversal is answered 500; a failure
\* that would not matter is not even verified.
Refuses(type, answer) ==
  /\ answer = "error"
  /\ type = "reversed" \/
     (type = "failed" /\ order.payment \notin {"COMPLETED", "REFUNDED"})

Commits(r) ==
  LET e == request[r].ev
      answer == request[r].answer IN
  /\ request[r].pc = "verified" /\ ~Refuses(e[1], answer)
  /\ rows' = rows \cup {e} /\ acked' = acked \cup {e}
  /\ IF Takes(e[1], e[2], answer)
       THEN /\ applied' = [applied EXCEPT ![e] = applied[e] + 1]
            /\ order' = CASE e[1] = "paid" -> Paid(e[2])
                          [] e[1] = "failed" ->
                               [order EXCEPT !.payment = "FAILED"]
                          [] OTHER -> [order EXCEPT !.payment = "REFUNDED"]
       ELSE UNCHANGED <<order, applied>>
  /\ missed' = IF e[1] = "paid" /\ answer = "error"
                 THEN missed \cup {e[2]} ELSE missed
  /\ refused' = IF e[1] = "paid" /\ answer = "F" /\ AmountDiffers(e[2])
                  THEN refused \cup {e[2]} ELSE refused
  /\ lock' = None /\ request' = [request EXCEPT ![r] = Idle]
  /\ UNCHANGED <<price, txn, sent, check, faults>>

\* The transaction rolls back, the row's insert with it, and Viva redelivers.
\* Mutant: the row outlives the roll-back.
RollsBackButRow(r) ==
  /\ request[r].pc = "verified"
  /\ \/ Refuses(request[r].ev[1], request[r].answer) /\ UNCHANGED faults
     \/ Fault
  /\ rows' = rows \cup {request[r].ev}
  /\ lock' = None /\ request' = [request EXCEPT ![r] = Idle]
  /\ UNCHANGED <<order, price, txn, sent, acked, applied, check, missed, refused>>

RollsBack(r) ==
  /\ request[r].pc = "verified"
  /\ \/ Refuses(request[r].ev[1], request[r].answer) /\ UNCHANGED faults
     \/ Fault
  /\ lock' = None /\ request' = [request EXCEPT ![r] = Idle]
  /\ UNCHANGED <<order, price, txn, sent, acked, rows, applied, check, missed,
                 refused>>

-----------------------------------------------------------------------------
\* The shop.

\* refund_order, and cancel_order of a paid order: Viva takes the payment back
\* under the order's lock; the commit may be lost after it did.
Refunds(status) ==
  /\ lock = None /\ order.payment = "COMPLETED"
  /\ order.status # "CANCELED" \/ status = "CANCELED"
  /\ txn[order.id] = "F"
  /\ Settles(order.id, "R", "reversed")
  /\ \/ /\ order' = [order EXCEPT !.payment = "REFUNDED", !.status = status]
        /\ UNCHANGED faults
     \/ Fault /\ UNCHANGED order
  /\ UNCHANGED <<price, webhook, check>>

RefundsOrder == Refunds(order.status) \/ Refunds("CANCELED")

\* auto_cancel_stuck_pending_orders: failed, or never paid.
AutoCancels ==
  /\ lock = None
  /\ order.status = "PENDING" /\ order.payment \in {"PENDING", "FAILED"}
  /\ order' = [order EXCEPT !.status = "CANCELED"]
  /\ UNCHANGED <<price, txn, sent, webhook, check, faults>>

\* get_payment_status: Viva is asked about the payment_id without a lock; a
\* failed call counts as a failed payment.
Mapped(t) ==
  CASE txn[t] = "F" -> "COMPLETED" [] txn[t] = "R" -> "REFUNDED"
    [] OTHER -> "FAILED"

CheckAsks ==
  /\ check = NoCheck /\ order.id # None
  /\ \/ /\ check' = [seen |-> order.payment, answer |-> Mapped(order.id)]
        /\ UNCHANGED faults
     \/ Fault /\ check' = [seen |-> order.payment, answer |-> "FAILED"]
  /\ UNCHANGED <<order, price, txn, sent, webhook>>

CheckSaves ==
  /\ check # NoCheck /\ lock = None
  /\ order' = IF check.answer # check.seen
                THEN [order EXCEPT !.payment = check.answer] ELSE order
  /\ check' = NoCheck
  /\ UNCHANGED <<price, txn, sent, webhook, faults>>

-----------------------------------------------------------------------------
Next ==
  \/ \E t \in Txns : OpensSession(t) \/ Pays(t) \/ Fails(t) \/ Reverses(t)
  \/ \E r \in Requests :
       \/ \E e \in Events : Receives(r, e)
       \/ Duplicates(r) \/ Verifies(r) \/ Commits(r) \/ RollsBack(r)
  \/ RefundsOrder \/ AutoCancels \/ CheckAsks \/ CheckSaves \/ EditsItems

Spec == Init /\ [][Next]_vars

\* Viva repeats what was not answered 200, and of the requests in hand some
\* worker goes on: no single event or request is favoured.
Works(r) ==
  \/ \E e \in sent \ acked : Receives(r, e)
  \/ Duplicates(r) \/ Verifies(r) \/ Commits(r) \/ RollsBack(r)

Fairness == WF_vars(\E r \in Requests : Works(r))

FairSpec == Spec /\ Fairness

-----------------------------------------------------------------------------
\* An event has its effects at most once, and none without its row, however
\* often and by however many requests it is delivered at a time.
AppliedOnce ==
  \A e \in Events : applied[e] <= IF e \in rows THEN 1 ELSE 0

\* Viva is told to stop repeating an event only when its row is committed.
AckedIsRecorded == acked \subseteq rows

\* Of the requests in hand only the one that holds the order's row has a
\* verified answer, and its event has no row yet: this is why no second
\* delivery takes effect.
OneAtWork ==
  \A r \in Requests :
    /\ (request[r].pc = "verified") <=> (lock = r)
    /\ request[r].pc = "verified" => request[r].ev \notin rows
    /\ request[r].pc # "idle" => request[r].ev \in sent

\* The webhook's promise (viva_webhook.py:606-640): exactly-once effects out of
\* at-least-once delivery.
HandledOnce == VivaTypeOK /\ AppliedOnce /\ AckedIsRecorded /\ OneAtWork

\* A failed attempt never hides a payment that was booked: the order shows
\* FAILED only while no settled transaction's event was processed, except one
\* that was refused for its amount, or a call to Viva failed.
FailureHidesNoPayment ==
  order.payment = "FAILED" /\ faults = 0 =>
    \A t \in Txns : txn[t] = "F" => <<"paid", t>> \notin rows \/ t \in refused

\* A payment is booked on the order, late, repeated or out of order, unless the
\* call that should have verified it failed, the order's items were edited after
\* its session asked for their price (the event is recorded, answered 200 and
\* never booked, viva_webhook.py:774-793), its money went back meanwhile, or the
\* order was refunded already.
PaymentIsBooked ==
  \A t \in Txns :
    txn[t] = "F" /\ <<"paid", t>> \notin rows ~>
      (applied[<<"paid", t>>] > 0 \/ t \in missed \/ t \in refused
       \/ txn[t] = "R" \/ order.payment = "REFUNDED")

\* A reversal made elsewhere, or lost with the refund's commit, reaches the
\* order, even if it overtakes the payment it reverses.
ReversalIsBooked ==
  \A t \in Txns : txn[t] = "R" ~> applied[<<"reversed", t>>] > 0

\* What the handler's comment promises: when Viva cannot be reached the event
\* is not recorded, so that the payment reaches the order after all.
OutageLosesNoPayment ==
  \A t \in Txns : txn[t] = "F" ~> order.payment \in {"COMPLETED", "REFUNDED"}
=============================================================================
