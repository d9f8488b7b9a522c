------------------------------- MODULE Delivery -------------------------------
(***************************************************************************)
(* What becomes of a parcel after it was handed to a carrier, and how the  *)
(* order learns of it: the polls of ACS and BoxNow (poll_shipment_tracking *)
(* and sync_shipment_state), BoxNow's webhooks (apply_webhook_event), the  *)
(* moves of the order that follow (_apply_order_status_transition and      *)
(* maybe_advance_to_completed), and the reconciliation of the cash that    *)
(* ACS remits.  Every report is read outside the transaction that applies  *)
(* it, so reports arrive late, twice and out of order.                     *)
(*                                                                         *)
(* One order and its parcel: parcels share nothing.  The parcel's own      *)
(* history, trail, is external; the time of an event is its place in it.   *)
(***************************************************************************)
EXTENDS Integers, Sequences, FiniteSets

CONSTANTS
  Polls,       \* poll tasks: beat's, and staff's "Re-poll tracking"
  BoxNowPoll,  \* the one of them that may be BoxNow's
  Hooks,       \* webhook messages of BoxNow being worked on
  MaxTrail,    \* events of the parcel
  MaxCrashes   \* workers that die

ASSUME DeliveryConstants ==
  MaxTrail \in Nat /\ MaxCrashes \in Nat /\ BoxNowPoll \in Polls

VARIABLES
  carrier,  \* "acs" or "boxnow"; never changes
  cod,      \* paid in cash on delivery; never changes
  trail,    \* ground truth: what happened to the parcel, in order
  mint,     \* how far the task that created the parcel got
  row,      \* the shipment row: its state and last_event_at
  order,    \* the order's status and payment_status
  events,   \* BoxNowParcelEvent rows: which event, and who brought it
  told,     \* how many notices the customer got of each event
  poll,     \* where a poll stands
  hook,     \* the event a webhook message under way is about, or 0
  payout,   \* where ACS's payout of the collected cash stands
  crashes

fixed == <<carrier, cod>>
vars == <<fixed, trail, mint, row, order, events, told, poll, hook, payout,
          crashes>>

Kinds == {"moving", "arrived", "delivered", "returned", "missing", "canceled"}
Times == 1 .. MaxTrail
Statuses == {"PENDING", "PROCESSING", "SHIPPED", "DELIVERED", "COMPLETED",
             "RETURNED", "CANCELED"}

DeliveryTypeOK ==
  /\ carrier \in {"acs", "boxnow"} /\ cod \in BOOLEAN
  /\ trail \in Seq(Kinds) /\ Len(trail) \in 0 .. MaxTrail
  /\ mint \in {"called", "saved", "done", "cut"}
  /\ row \in [state : Kinds \cup {"none", "new"}, lastAt : 0 .. MaxTrail]
  /\ order \in [status : Statuses,
                payment : {"PENDING", "COMPLETED", "REFUNDED"}]
  /\ events \subseteq Times \X {"hook", "poll"}
  /\ told \in [Times -> Nat]
  /\ poll \in [Polls -> [pc : {"idle", "read"}, next : 1 .. MaxTrail + 1,
                         upto : 0 .. MaxTrail]]
  /\ hook \in [Hooks -> 0 .. MaxTrail]
  /\ payout \in {"none", "due", "read", "marked", "settled", "cut"}
  /\ crashes \in 0 .. MaxCrashes

Idle == [pc |-> "idle", next |-> 1, upto |-> 0]

Init ==
  /\ carrier \in {"acs", "boxnow"} /\ cod \in BOOLEAN
  /\ trail = <<>> /\ mint = "called"
  /\ row = [state |-> "none", lastAt |-> 0]
  /\ order \in [status : {"PENDING", "PROCESSING"},
                payment : {IF cod THEN "PENDING" ELSE "COMPLETED"}]
  /\ events = {} /\ told = [i \in Times |-> 0]
  /\ poll = [p \in Polls |-> Idle] /\ hook = [h \in Hooks |-> 0]
  /\ payout = "none" /\ crashes = 0

Known == mint # "called"   \* the row holds the voucher number or parcel id

-----------------------------------------------------------------------------
\* The carrier: what may happen next to a parcel.  A missing one may be found.
\* ACS fetches a parcel hours after its voucher; BoxNow may be faster than the
\* worker that saves the parcel id.

Follows(k) ==
  IF trail = <<>> THEN k \in {"moving"}
  ELSE LET last == trail[Len(trail)] IN
    CASE last = "moving" -> k \in {"arrived", "returned", "missing"}
      [] last = "arrived" -> k \in {"moving", "delivered", "returned"}
      [] last = "missing" -> k \in {"moving", "returned"}
      [] OTHER -> FALSE

Happens(k) ==
  /\ Len(trail) < MaxTrail /\ Follows(k)
  /\ IF carrier = "acs" THEN k # "missing" /\ mint \in {"done", "cut"} ELSE TRUE
  /\ trail' = Append(trail, k)
  /\ UNCHANGED <<fixed, mint, row, order, events, told, poll, hook, payout,
                 crashes>>

Happened == {trail[i] : i \in DOMAIN trail}

-----------------------------------------------------------------------------
\* Creating the parcel: the last phase, after the carrier's answer.

\* BoxNow saves and advances the order in one transaction, ACS in two.
Advanced(o) == IF o.status = "PENDING" THEN [o EXCEPT !.status = "PROCESSING"]
                                       ELSE o

MintSaves ==
  /\ mint = "called"
  /\ row' = [state |-> "new",
             lastAt |-> IF carrier = "boxnow" THEN Len(trail) ELSE row.lastAt]
  /\ IF carrier = "boxnow" THEN mint' = "done" /\ order' = Advanced(order)
                           ELSE mint' = "saved" /\ UNCHANGED order
  /\ UNCHANGED <<fixed, trail, events, told, poll, hook, payout, crashes>>

MintAdvances ==
  /\ mint = "saved" /\ mint' = "done"
  /\ order' = Advanced(order)
  /\ UNCHANGED <<fixed, trail, row, events, told, poll, hook, payout, crashes>>

\* The worker dies in between; the message, delivered again, finds the voucher
\* and returns.
MintCut ==
  /\ mint = "saved" /\ crashes < MaxCrashes
  /\ mint' = "cut" /\ crashes' = crashes + 1
  /\ UNCHANGED <<fixed, trail, row, order, events, told, poll, hook, payout>>

-----------------------------------------------------------------------------
\* The order, when a report reaches it.

Transitions ==
  { <<"PENDING", "PROCESSING">>, <<"PENDING", "CANCELED">>,
    <<"PROCESSING", "SHIPPED">>, <<"PROCESSING", "CANCELED">>,
    <<"SHIPPED", "DELIVERED">>, <<"SHIPPED", "RETURNED">>,
    <<"DELIVERED", "COMPLETED">>, <<"DELIVERED", "RETURNED">> }
Closed == {"DELIVERED", "COMPLETED", "CANCELED", "RETURNED"}

Target(k) ==
  CASE k = "arrived" -> "SHIPPED"
    [] k = "moving" -> IF carrier = "acs" THEN "SHIPPED" ELSE "none"
    [] k = "delivered" -> "DELIVERED"
    [] k \in {"returned", "missing"} -> "RETURNED"
    [] k = "canceled" -> "CANCELED"
    [] OTHER -> "none"

\* A locker opens only once the cash is in it; ACS remits later.
PaidAtLocker(o) ==
  IF carrier = "boxnow" /\ cod /\ o.payment = "PENDING"
    THEN [o EXCEPT !.payment = "COMPLETED"] ELSE o

\* maybe_advance_to_completed.
Completed(o) ==
  IF o.status = "DELIVERED" /\ o.payment = "COMPLETED"
    THEN [o EXCEPT !.status = "COMPLETED"] ELSE o

\* Mutants: a closed order is moved as any other; the missing hop through
\* SHIPPED is not walked.
ReportedAnyway(o, k) ==
  IF Target(k) = "none" THEN o ELSE [o EXCEPT !.status = Target(k)]
ReportedUnbridged(o, k) ==
  IF <<o.status, Target(k)>> \notin Transitions THEN o
  ELSE Completed(PaidAtLocker([o EXCEPT !.status = Target(k)]))

\* An order still at PROCESSING passes through SHIPPED on the way; a move
\* that is no transition is refused and the order stays as it is.
Reported(o, k) ==
  LET to == Target(k)
      from == IF o.status = "PROCESSING" /\ to \in {"DELIVERED", "RETURNED"}
                THEN "SHIPPED" ELSE o.status
  IN IF o.status \in Closed \/ <<from, to>> \notin Transitions THEN o
     ELSE IF to = "DELIVERED"
       THEN Completed(PaidAtLocker([o EXCEPT !.status = to]))
       ELSE [o EXCEPT !.status = to]

-----------------------------------------------------------------------------
\* Polls: the carrier is asked without a lock, the answer applied under one.

Stops == IF carrier = "acs" THEN {"none", "delivered", "returned", "canceled"}
         ELSE {"none", "delivered", "returned", "canceled", "missing"}

PollReads(p) ==
  /\ poll[p].pc = "idle" /\ Known
  /\ trail # <<>>
  /\ poll' = [poll EXCEPT ![p] =
       [pc |-> "read", next |-> 1, upto |-> Len(trail)]]
  /\ UNCHANGED <<fixed, trail, mint, row, order, events, told, hook, payout,
                 crashes>>

\* Beat polls what is not final, BoxNow's parcels a quarter of an hour apart at
\* the least, so one poll at a time; ACS rows staff poll whenever they like.
BeatPolls(p) ==
  /\ row.state \notin Stops
  /\ carrier = "boxnow" => p = BoxNowPoll
  /\ PollReads(p)

StaffPolls(p) == carrier = "acs" /\ PollReads(p)

PollDies(p) ==
  /\ poll[p].pc = "read" /\ crashes < MaxCrashes
  /\ poll' = [poll EXCEPT ![p] = Idle] /\ crashes' = crashes + 1
  /\ UNCHANGED <<fixed, trail, mint, row, order, events, told, hook, payout>>

\* from_tracking_summary: a final state is never left, any other is replaced
\* by the answer, however old it is.
FromSummary(k) ==
  IF row.state \in {"delivered", "returned", "canceled"} THEN row.state ELSE k

\* ACS: the answer's state, and the time of its newest checkpoint.
AcsPollApplies(p) ==
  LET at == poll[p].upto
      state == FromSummary(trail[at]) IN
  /\ carrier = "acs" /\ poll[p].pc = "read"
  /\ row' = [state |-> state,
             lastAt |-> IF at > row.lastAt THEN at ELSE row.lastAt]
  /\ order' = IF state = row.state THEN order ELSE Reported(order, state)
  /\ told' = IF state = "arrived" /\ row.state # "arrived"
               THEN [told EXCEPT ![at] = told[at] + 1] ELSE told
  /\ poll' = [poll EXCEPT ![p] = Idle]
  /\ UNCHANGED <<fixed, trail, mint, events, hook, payout, crashes>>

Newest(i) ==
  IF i > row.lastAt THEN [state |-> trail[i], lastAt |-> i] ELSE row

\* BoxNow: one event is recorded, in a transaction of its own.  The order and
\* the customer hear of it even when it is older than the row's state.
Records(i, by) ==
  /\ events' = events \cup {<<i, by>>}
  /\ row' = Newest(i)
  /\ order' = Reported(order, trail[i])
  /\ told' = IF trail[i] \in {"arrived", "delivered"}
               THEN [told EXCEPT ![i] = told[i] + 1] ELSE told

Seen(i) == {<<i, "hook">>, <<i, "poll">>} \cap events # {}

\* The answer's events, oldest first; one the row knows already is passed over.
BoxNowPollApplies(p) ==
  LET i == poll[p].next IN
  /\ carrier = "boxnow" /\ poll[p].pc = "read"
  /\ IF Seen(i) THEN UNCHANGED <<events, row, order, told>>
                ELSE Records(i, "poll")
  /\ poll' = [poll EXCEPT ![p] =
       IF i = poll[p].upto THEN Idle ELSE [poll[p] EXCEPT !.next = i + 1]]
  /\ UNCHANGED <<fixed, trail, mint, hook, payout, crashes>>

-----------------------------------------------------------------------------
\* BoxNow's webhooks: any event, any number of times, or never.

\* Before the transaction, messages already recorded and parcels not yet known
\* are dropped.
HookArrives(h, i) ==
  /\ carrier = "boxnow" /\ hook[h] = 0 /\ i \in DOMAIN trail
  /\ Known /\ <<i, "hook">> \notin events
  /\ hook' = [hook EXCEPT ![h] = i]
  /\ UNCHANGED <<fixed, trail, mint, row, order, events, told, poll, payout,
                 crashes>>

\* Mutant: what was checked before the transaction is not checked again.
HookAppliesUnchecked(h) ==
  /\ hook[h] # 0
  /\ Records(hook[h], "hook")
  /\ hook' = [hook EXCEPT ![h] = 0]
  /\ UNCHANGED <<fixed, trail, mint, poll, payout, crashes>>

\* In it: the message is looked for again, then recorded.  An event that a
\* poll recorded under its own id is not recognised.
HookApplies(h) ==
  /\ hook[h] # 0
  /\ IF <<hook[h], "hook">> \in events
       THEN UNCHANGED <<events, row, order, told>>
       ELSE Records(hook[h], "hook")
  /\ hook' = [hook EXCEPT ![h] = 0]
  /\ UNCHANGED <<fixed, trail, mint, poll, payout, crashes>>

-----------------------------------------------------------------------------
\* ACS remits the cash; reconcile_cod_payouts reads the payout days later.

Remits ==
  /\ carrier = "acs" /\ cod /\ payout = "none"
  /\ "delivered" \in Happened
  /\ payout' = "due"
  /\ UNCHANGED <<fixed, trail, mint, row, order, events, told, poll, hook,
                 crashes>>

\* The payment is looked at without a lock, and again by nobody.
PayoutReads ==
  /\ payout = "due"
  /\ payout' = IF order.payment = "PENDING" THEN "read" ELSE "settled"
  /\ UNCHANGED <<fixed, trail, mint, row, order, events, told, poll, hook,
                 crashes>>

PayoutMarks ==
  /\ payout = "read" /\ payout' = "marked"
  /\ order' = [order EXCEPT !.payment = "COMPLETED"]
  /\ UNCHANGED <<fixed, trail, mint, row, events, told, poll, hook, crashes>>

PayoutAdvances ==
  /\ payout = "marked" /\ payout' = "settled"
  /\ order' = Completed(order)
  /\ UNCHANGED <<fixed, trail, mint, row, events, told, poll, hook, crashes>>

\* The worker dies; the message, delivered again, starts over, or finds the
\* payment booked and returns.
PayoutDies ==
  /\ payout \in {"read", "marked"} /\ crashes < MaxCrashes
  /\ payout' = IF payout = "read" THEN "due" ELSE "cut"
  /\ crashes' = crashes + 1
  /\ UNCHANGED <<fixed, trail, mint, row, order, events, told, poll, hook>>

-----------------------------------------------------------------------------
\* Meanwhile, in the shop.

\* cancel_order with its cascade: the parcel is stopped when the carrier still
\* agrees to it, and the order is canceled whatever the carrier says.
OrderCancels ==
  /\ order.status \in {"PENDING", "PROCESSING"}
  /\ order' = [order EXCEPT !.status = "CANCELED"]
  /\ \/ Known /\ row.state = "new" /\ trail = <<>> /\ MaxTrail > 0
        /\ trail' = Append(trail, "canceled")
        /\ row' = [row EXCEPT !.state = "canceled"]
     \/ ~Known /\ row' = [row EXCEPT !.state = "canceled"] /\ UNCHANGED trail
     \/ Known /\ UNCHANGED <<trail, row>>
  /\ UNCHANGED <<fixed, mint, events, told, poll, hook, payout, crashes>>

\* refund_order: cash on delivery has no payment id to refund.
OrderRefunds ==
  /\ ~cod /\ order.payment = "COMPLETED"
  /\ order' = [order EXCEPT !.payment = "REFUNDED"]
  /\ UNCHANGED <<fixed, trail, mint, row, events, told, poll, hook, payout,
                 crashes>>

-----------------------------------------------------------------------------
Next ==
  \/ \E k \in Kinds : Happens(k)
  \/ MintSaves \/ MintAdvances \/ MintCut
  \/ \E p \in Polls :
       \/ BeatPolls(p) \/ StaffPolls(p) \/ PollDies(p)
       \/ AcsPollApplies(p) \/ BoxNowPollApplies(p)
  \/ \E h \in Hooks :
       \/ \E i \in Times : HookArrives(h, i)
       \/ HookApplies(h)
  \/ Remits \/ PayoutReads \/ PayoutMarks \/ PayoutAdvances \/ PayoutDies
  \/ OrderCancels \/ OrderRefunds

Spec == Init /\ [][Next]_vars

\* Celery runs what it was given, beat polls what is not final and ACS remits
\* what it collected; webhooks, staff and parcels owe nothing.
Fairness ==
  /\ WF_vars(MintSaves) /\ WF_vars(MintAdvances)
  /\ \A p \in Polls :
       /\ WF_vars(BeatPolls(p))
       /\ WF_vars(AcsPollApplies(p)) /\ WF_vars(BoxNowPollApplies(p))
  /\ \A h \in Hooks : WF_vars(HookApplies(h))
  /\ WF_vars(Remits) /\ WF_vars(PayoutReads) /\ WF_vars(PayoutMarks)
  /\ WF_vars(PayoutAdvances)

FairSpec == Spec /\ Fairness

-----------------------------------------------------------------------------
\* Whatever order the reports are applied in, the order claims nothing of the
\* parcel that the carrier did not see happen, never goes back, and is paid in
\* cash only once handed over.
F == INSTANCE Fulfilment WITH
       status <- order.status, payment <- order.payment, happened <- Happened
ImplementsFulfilment == F!FulfilmentSpec

\* BoxNow: the row shows the newest event that was recorded, unless it was
\* canceled or has had none since the parcel was created, and the customer was
\* told of an event as often as a row was written for it.
RowShowsNewest ==
  carrier = "boxnow" =>
    /\ \A e \in events : e[1] <= row.lastAt
    /\ row.state \notin {"none", "new", "canceled"} =>
         Seen(row.lastAt) /\ row.state = trail[row.lastAt]
ToldOncePerRow ==
  carrier = "boxnow" =>
    \A i \in DOMAIN trail : trail[i] \in {"arrived", "delivered"} =>
      told[i] = Cardinality({e \in events : e[1] = i})

\* With the shape of the tables, what late, repeated and reordered reports keep.
ReportsInOrder == DeliveryTypeOK /\ RowShowsNewest /\ ToldOncePerRow

\* A delivery is found out, even with every webhook lost: the order gets to
\* DELIVERED or beyond, unless it was closed before or never left PENDING
\* because the worker that minted its voucher died before advancing it.
DeliveryIsSeen ==
  "delivered" \in Happened ~> (order.status \in Closed \/ mint = "cut")

\* And a delivered order whose payment came in is completed, unless the payment
\* was refunded or the reconciliation died between its two transactions.
PaidIsCompleted ==
  (order.status = "DELIVERED" /\ order.payment = "COMPLETED")
    ~> (order.status # "DELIVERED" \/ order.payment = "REFUNDED"
        \/ payout = "cut")

\* Webhooks lost, polls cut short: the order catches up with its parcel.
OrderCatchesUp == DeliveryIsSeen /\ PaidIsCompleted
=============================================================================
