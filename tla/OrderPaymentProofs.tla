-------------------------- MODULE OrderPaymentProofs --------------------------
(***************************************************************************)
(* What holds of one order and its payment for any number of intents,      *)
(* callers and refund units, and whichever entrances are in use.           *)
(***************************************************************************)
EXTENDS OrderPayment, FiniteSetTheorems, TLAPS

\* The disjuncts of Next, one by one.
LEMMA NextSteps ==
  ASSUME Next
  PROVE  \/ Stripe
         \/ \E e \in Events, again \in BOOLEAN : Deliver(e, again)
         \/ \E e \in Events : Swallows(e)
         \/ \E c \in Callers : Request(c)
         \/ \E c \in Callers : Proceed(c)
         \/ \E c \in Callers : RefundLost(c)
         \/ \E i \in Intents : CreateCheckoutSession(i)
         \/ CustomerCancel
         \/ \E to \in Statuses : UpdateOrderStatus(to)
  BY DEF Next

\* What Stripe does on its own, and what a request does before it writes,
\* leaves the order's row alone.
LEMMA RowUntouched ==
  ASSUME \/ Stripe
         \/ \E c \in Callers : Request(c)
         \/ \E c \in Callers : RefundLost(c)
         \/ \E i \in Intents : CreateCheckoutSession(i)
         \/ \E c \in Callers : PollAsk(c)
  PROVE  UNCHANGED orderVars
<1>1. CASE Stripe
  BY <1>1 DEF Stripe, Succeeds, Processes, Declines, AsksForAction, Lapses,
              SessionPays, SessionStaysUnpaid, DashboardRefund
<1>2. CASE \E c \in Callers : Request(c)
  BY <1>2 DEF Request, PlaceCheck, RetryCheck, AgentCheck, PollRead, RefundRead,
              AutoCancelSelect
<1> QED
  BY <1>1, <1>2 DEF RefundLost, CreateCheckoutSession, PollAsk

-----------------------------------------------------------------------------
\* Type correctness.

\* _map_stripe_status answers with a PaymentStatus.
LEMMA MapTyped == \A s : MapStripeStatus(s) \in PaymentStatuses
  BY DEF MapStripeStatus, PaymentStatuses

\* What confirm_agent_payment keeps of the charge it asked for.
LEMMA AgentAsks ==
  ASSUME NEW c \in Callers, AgentCheck(c)
  PROVE  /\ UNCHANGED orderVars
         /\ \E new \in Call :
              /\ call' = [call EXCEPT ![c] = new]
              /\ new.op = "agent" /\ new.to = AgentIntent
         /\ UNCHANGED back
         /\ \E s \in {"succeeded", "processing", "open"} : Becomes(AgentIntent, s)
         /\ UNCHANGED <<sent, inbox, swallowed>> \/ Emit({Event("succeeded", AgentIntent)})
         /\ "agent" \in Entrances
<1>1. PICK s \in {"succeeded", "processing", "open"} :
        /\ Becomes(AgentIntent, s)
        /\ IF s = "succeeded" THEN Emit({Event("succeeded", AgentIntent)})
                              ELSE UNCHANGED <<sent, inbox, swallowed>>
        /\ call' = [call EXCEPT ![c] =
             [NoCall EXCEPT !.op = "agent", !.to = AgentIntent,
                            !.pay = MapStripeStatus(s)]]
  BY DEF AgentCheck
<1> DEFINE new == [NoCall EXCEPT !.op = "agent", !.to = AgentIntent,
                                 !.pay = MapStripeStatus(s)]
<1>2. new \in Call /\ new.op = "agent" /\ new.to = AgentIntent
  BY MapTyped, PaymentConstants DEF NoCall, Call, Creating
<1>3. call' = [call EXCEPT ![c] = new]
  BY <1>1
<1> HIDE DEF new
<1> QED
  BY <1>1, <1>2, <1>3 DEF AgentCheck

\* The parts of TypeOK that only Stripe's side or only the row's side writes.
RowOK ==
  /\ status \in Statuses \cup {"NONE"}
  /\ pay \in PaymentStatuses
  /\ pid \in Intents \cup {NoIntent} /\ (Exists => pid \in Intents)
  /\ flagged \in BOOLEAN /\ shipments \in Nat
StripeOK ==
  /\ inbox \subseteq sent /\ sent \subseteq Events /\ swallowed \subseteq sent
  /\ charge \in [Intents -> {"none", "made", "open", "processing",
                             "succeeded", "canceled", "session"}]
  /\ back \in [Intents -> 0 .. Amount]
CallsOK ==
  /\ call \in [Callers -> Call]
  /\ \A c \in Callers :
       /\ call[c].op \in Creating => call[c].to \in Intents
       /\ call[c].op \in Reading => call[c].pid \in Intents

\* TypeOK is the conjunction of its parts.
LEMMA TypeParts ==
  TypeOK <=> /\ RowOK /\ StripeOK /\ CallsOK
             /\ refunds \in [Intents -> Nat] /\ done \subseteq sent
  BY DEF TypeOK, RowOK, StripeOK, CallsOK

\* Events of the declared shape stay the only ones sent, and no others are delivered.
LEMMA EmitKeepsType ==
  ASSUME StripeOK, NEW es \in SUBSET Events, Emit(es)
  PROVE  /\ inbox' \subseteq sent' /\ sent' \subseteq Events /\ sent \subseteq sent'
         /\ swallowed' \subseteq sent'
  BY DEF StripeOK, Emit

\* An event without an amount has the declared shape.
LEMMA EventTyped ==
  ASSUME NEW i \in Intents,
         NEW kind \in {"succeeded", "failed", "action", "session_paid",
                       "session_unpaid"}
  PROVE  Event(kind, i) \in Events
  BY DEF Event, Events

\* A refund stays within the charge and keeps Stripe's records typed.
LEMMA GiveBackKeepsType ==
  ASSUME StripeOK, NEW i \in Intents, NEW n \in Int, Refundable(i, n),
         GiveBack(i, n)
  PROVE  StripeOK' /\ sent \subseteq sent'
<1>1. back[i] \in 0 .. Amount /\ back[i] + n \in 1 .. Amount
  BY PaymentConstants DEF StripeOK, Refundable
<1>2. [kind |-> "refunded", intent |-> i, back |-> back[i] + n] \in Events
  BY <1>1 DEF Events
<1>3. back' \in [Intents -> 0 .. Amount]
  BY <1>1, PaymentConstants DEF GiveBack, StripeOK
<1> QED
  BY <1>2, <1>3, EmitKeepsType DEF GiveBack, StripeOK

\* Stripe's own steps keep its records typed and touch no order, no request.
LEMMA StripeKeepsType ==
  ASSUME StripeOK, Stripe
  PROVE  StripeOK' /\ sent \subseteq sent' /\ UNCHANGED <<orderVars, call>>
<1> PICK i \in Intents :
      \/ Succeeds(i) \/ Processes(i) \/ Declines(i) \/ AsksForAction(i)
      \/ Lapses(i)
      \/ SessionPays(i) \/ SessionStaysUnpaid(i)
      \/ \E n \in 1 .. Amount : DashboardRefund(i, n)
  BY DEF Stripe
<1>1. CASE Succeeds(i)
  BY <1>1, EventTyped, EmitKeepsType DEF Succeeds, Becomes, StripeOK
<1>2. CASE Processes(i) \/ Lapses(i)
  BY <1>2 DEF Processes, Lapses, Becomes, StripeOK
<1>3. CASE Declines(i)
  BY <1>3, EventTyped, EmitKeepsType DEF Declines, Becomes, StripeOK
<1>4. CASE AsksForAction(i)
  BY <1>4, EventTyped, EmitKeepsType DEF AsksForAction, StripeOK
<1>5. CASE SessionPays(i)
  BY <1>5, EventTyped, EmitKeepsType DEF SessionPays, Becomes, StripeOK
<1>6. CASE SessionStaysUnpaid(i)
  BY <1>6, EventTyped, EmitKeepsType DEF SessionStaysUnpaid, Becomes, StripeOK
<1>7. ASSUME NEW n \in 1 .. Amount, DashboardRefund(i, n)
      PROVE  StripeOK' /\ sent \subseteq sent' /\ UNCHANGED <<orderVars, call>>
  BY <1>7, GiveBackKeepsType, PaymentConstants DEF DashboardRefund
<1> QED
  BY <1>1, <1>2, <1>3, <1>4, <1>5, <1>6, <1>7

\* The receipt of money writes typed values.
LEMMA ReceivedKeepsType ==
  ASSUME RowOK, Exists, NEW i \in Intents, PaymentReceived(i)
  PROVE  RowOK'
<1>1. CASE pay \in Returned \cup {"CANCELED"}
  BY <1>1 DEF PaymentReceived, RowOK, Exists
<1>2. CASE pay \notin Returned \cup {"CANCELED"}
  BY <1>2 DEF PaymentReceived, RowOK, Exists, Statuses, PaymentStatuses
<1> QED
  BY <1>1, <1>2

\* Every receiver keeps the order's row typed and marks only sent events.
LEMMA HandleKeepsType ==
  ASSUME TypeOK, NEW e \in inbox, Handle(e)
  PROVE  RowOK' /\ done' \subseteq sent /\ UNCHANGED refunds
<1>0. e \in sent /\ e.intent \in Intents /\ RowOK /\ done \subseteq sent
  BY TypeParts DEF TypeOK, Events
<1>1. CASE OnSucceeded(e)
  BY <1>0, <1>1, ReceivedKeepsType DEF OnSucceeded, Mark, ByIntent
<1>2. CASE OnFailed(e)
  BY <1>0, <1>2 DEF OnFailed, Mark, RowOK, Exists, PaymentStatuses
<1>3. CASE OnRequiresAction(e)
  BY <1>0, <1>3 DEF OnRequiresAction, Mark, RowOK, Exists, PaymentStatuses
<1>4. CASE OnChargeRefunded(e)
  BY <1>0, <1>4 DEF OnChargeRefunded, Mark, RowOK, Exists, PaymentStatuses
<1>5. CASE OnCheckoutCompleted(e)
  <2>1. CASE PaymentReceived(e.intent)
    BY <1>0, <1>5, <2>1, ReceivedKeepsType DEF OnCheckoutCompleted, Mark
  <2>2. CASE pay' = "PENDING" /\ UNCHANGED <<status, pid, flagged, shipments>>
    BY <1>0, <1>5, <2>2 DEF OnCheckoutCompleted, Mark, RowOK, Exists,
                            PaymentStatuses
  <2> QED
    BY <1>5, <2>1, <2>2 DEF OnCheckoutCompleted
<1>6. CASE UNCHANGED orderVars
  BY <1>0, <1>6 DEF orderVars, RowOK, Exists
<1> QED
  BY <1>1, <1>2, <1>3, <1>4, <1>5, <1>6 DEF Handle

\* A request that answers leaves the other requests typed.
LEMMA AnswerKeepsType ==
  ASSUME CallsOK, NEW c \in Callers, Answers(c)
  PROVE  CallsOK'
  BY DEF CallsOK, Answers, NoCall, Call, PaymentStatuses, Creating, Reading

\* A request that reads the order keeps a typed record of it.
LEMMA ReadKeepsType ==
  ASSUME CallsOK, RowOK, NEW c \in Callers, NEW i \in Intents \cup {NoIntent},
         NEW op \in {"beat"} \cup Creating \cup Reading, Reads(c, op, i),
         op \in Creating => i \in Intents, op \in Reading => Exists
  PROVE  CallsOK'
<1> DEFINE new == [op |-> op, pay |-> pay, pid |-> pid, to |-> i]
<1>1. new \in Call /\ (op \in Reading => pid \in Intents)
  BY DEF RowOK, Call
<1>2. call' = [call EXCEPT ![c] = new]
  BY DEF Reads
<1>3. new.op = op /\ new.pid = pid /\ new.to = i
  OBVIOUS
<1> HIDE DEF new
<1> QED
  BY <1>1, <1>2, <1>3 DEF CallsOK

\* The first step of every request keeps the types.
LEMMA RequestKeepsType ==
  ASSUME TypeOK, NEW c \in Callers, Request(c)
  PROVE  TypeOK'
<1>0. RowOK /\ StripeOK /\ CallsOK /\ done \subseteq sent
  BY TypeParts
<1>1. ASSUME CallsOK', StripeOK', sent \subseteq sent', UNCHANGED orderVars
      PROVE  TypeOK'
  BY <1>0, <1>1 DEF TypeOK, RowOK, StripeOK, CallsOK, orderVars, Exists
<1>2. CASE PlaceCheck(c)
  <2> DEFINE new == [NoCall EXCEPT !.op = "place", !.to = FirstIntent,
                                   !.pay = MapStripeStatus(charge[FirstIntent])]
  <2>1. new \in Call /\ new.op = "place" /\ new.to \in Intents
    BY MapTyped, PaymentConstants DEF NoCall, Call, Creating
  <2>2. call' = [call EXCEPT ![c] = new] /\ UNCHANGED <<orderVars, stripeVars>>
    BY <1>2 DEF PlaceCheck
  <2> HIDE DEF new
  <2>3. CallsOK'
    BY <1>0, <2>1, <2>2 DEF CallsOK, Reading
  <2> QED
    BY <1>0, <1>1, <2>2, <2>3 DEF StripeOK, stripeVars
<1>3. ASSUME NEW i \in Intents, RetryCheck(c, i)
      PROVE  TypeOK'
  <2>1. CallsOK'
    BY <1>0, <1>3, ReadKeepsType DEF RetryCheck, Creating, Reading
  <2>2. StripeOK' /\ UNCHANGED orderVars /\ sent' = sent
    BY <1>0, <1>3 DEF RetryCheck, Becomes, StripeOK
  <2> QED
    BY <1>1, <2>1, <2>2
<1>4. CASE AgentCheck(c)
  <2>1. CallsOK'
    BY <1>0, <1>4, AgentAsks, PaymentConstants DEF CallsOK, Reading, Creating
  <2>2. charge' \in [Intents -> {"none", "made", "open", "processing",
                                 "succeeded", "canceled", "session"}]
    BY <1>0, <1>4, AgentAsks, PaymentConstants DEF Becomes, StripeOK
  <2>3. {Event("succeeded", AgentIntent)} \in SUBSET Events
    BY EventTyped, PaymentConstants
  <2>4. StripeOK' /\ UNCHANGED orderVars /\ sent \subseteq sent'
    BY <1>0, <1>4, <2>2, <2>3, AgentAsks, EmitKeepsType DEF StripeOK
  <2> QED
    BY <1>1, <2>1, <2>4
<1>5. CASE PollRead(c) \/ RefundRead(c)
  <2>1. CallsOK'
    BY <1>0, <1>5, ReadKeepsType DEF PollRead, RefundRead, RowOK, Creating,
                                     Reading
  <2> QED
    BY <1>0, <1>1, <1>5, <2>1 DEF PollRead, RefundRead, StripeOK, stripeVars
<1>6. CASE AutoCancelSelect(c)
  <2>1. CallsOK'
    BY <1>0, <1>6, ReadKeepsType DEF AutoCancelSelect, Creating, Reading
  <2> QED
    BY <1>0, <1>1, <1>6, <2>1 DEF AutoCancelSelect, StripeOK, stripeVars
<1> QED
  BY <1>2, <1>3, <1>4, <1>5, <1>6 DEF Request

\* A refund that Stripe takes keeps the types.
LEMMA RefundTakenKeepsType ==
  ASSUME StripeOK, refunds \in [Intents -> Nat], NEW i \in Intents, NEW n \in Int,
         RefundTaken(i, n)
  PROVE  /\ StripeOK' /\ sent \subseteq sent' /\ pay' \in PaymentStatuses
         /\ refunds' \in [Intents -> Nat]
  BY GiveBackKeepsType DEF RefundTaken, PaymentStatuses

\* cancel_order keeps the types, with or without a refund.
LEMMA CancelKeepsType ==
  ASSUME TypeOK, NEW refundPayment \in BOOLEAN, CancelOrder(refundPayment)
  PROVE  /\ RowOK' /\ StripeOK' /\ sent \subseteq sent' /\ done' = done
         /\ refunds' \in [Intents -> Nat]
<1>0. RowOK /\ StripeOK /\ refunds \in [Intents -> Nat] /\ pid \in Intents
  BY TypeParts DEF CancelOrder, RowOK
<1>1. Amount - back[pid] \in Int
  BY <1>0, PaymentConstants DEF StripeOK
<1>2. /\ StripeOK' /\ sent \subseteq sent' /\ pay' \in PaymentStatuses
      /\ refunds' \in [Intents -> Nat]
  <2>1. CASE RefundTaken(pid, Amount - back[pid])
    BY <1>0, <1>1, <2>1, RefundTakenKeepsType
  <2>2. CASE UNCHANGED <<pay, refunds, stripeVars>>
    BY <1>0, <2>2 DEF StripeOK, stripeVars, RowOK
  <2> QED
    BY <2>1, <2>2 DEF CancelOrder
<1> QED
  BY <1>0, <1>2 DEF CancelOrder, RowOK, Exists, Statuses

\* A caller's own request goes on as the operation it then is.
LEMMA GoesKeepsType ==
  ASSUME CallsOK, NEW c \in Callers, call[c].op = "retry", Goes(c, "retry_lock")
  PROVE  CallsOK'
<1> DEFINE new == [call[c] EXCEPT !.op = "retry_lock"]
<1>1. new \in Call /\ new.op = "retry_lock" /\ new.to \in Intents
  BY DEF CallsOK, Call, Creating
<1>2. call' = [call EXCEPT ![c] = new]
  BY DEF Goes
<1> HIDE DEF new
<1> QED
  BY <1>1, <1>2 DEF CallsOK, Creating, Reading

\* The later steps of every request keep the types.
LEMMA ProceedKeepsType ==
  ASSUME TypeOK, NEW c \in Callers, Proceed(c)
  PROVE  TypeOK'
<1>0. /\ RowOK /\ StripeOK /\ CallsOK /\ done \subseteq sent
      /\ refunds \in [Intents -> Nat] /\ call[c] \in Call
      /\ call[c].op \in Creating => call[c].to \in Intents
      /\ call[c].op \in Reading => call[c].pid \in Intents
      /\ call[c].pay \in PaymentStatuses
  BY TypeParts DEF CallsOK, Call
<1>1. ASSUME RowOK', CallsOK', UNCHANGED <<refunds, done, stripeVars>>
      PROVE  TypeOK'
  BY <1>0, <1>1, TypeParts DEF TypeOK, RowOK, StripeOK, CallsOK, stripeVars, Exists
<1>2. CASE PlaceCommit(c)
  <2>1. RowOK'
    BY <1>0, <1>2 DEF PlaceCommit, RowOK, Statuses, Exists, Creating
  <2> QED
    BY <1>0, <1>1, <1>2, <2>1, AnswerKeepsType DEF PlaceCommit
<1>3. ASSUME RetrySave(c) \/ RetryLock(c)
      PROVE  TypeOK'
  <2>1. call[c].to \in Intents
    BY <1>0, <1>3 DEF RetrySave, RetryLock, Creating
  <2>2. RowOK' /\ UNCHANGED <<refunds, done, sent, inbox, swallowed, back>>
    BY <1>0, <1>3, <2>1
       DEF RetrySave, RetryLock, RowOK, Exists, PaymentStatuses
  <2>3. CallsOK'
    BY <1>0, <1>3, AnswerKeepsType, GoesKeepsType DEF RetrySave, RetryLock
  <2>4. charge' \in [Intents -> {"none", "made", "open", "processing",
                                 "succeeded", "canceled", "session"}]
    BY <1>0, <1>3 DEF RetrySave, RetryLock, Becomes, StripeOK
  <2> QED
    BY <1>0, <2>2, <2>3, <2>4 DEF TypeOK, RowOK, StripeOK, CallsOK, Exists
<1>4. CASE AgentLock(c)
  <2>1. RowOK'
    BY <1>0, <1>4 DEF AgentLock, RowOK, PaymentStatuses, Exists, Creating
  <2> QED
    BY <1>0, <1>1, <1>4, <2>1, AnswerKeepsType DEF AgentLock
<1>5. CASE PollAsk(c)
  <2>1. PICK now \in {MapStripeStatus(charge[call[c].pid]), "FAILED"} :
          call' = [call EXCEPT ![c] =
                     IF now = call[c].pay THEN NoCall
                     ELSE [call[c] EXCEPT !.op = "poll_write", !.pay = now]]
    BY <1>5 DEF PollAsk
  <2>2. now \in PaymentStatuses
    BY MapTyped DEF PaymentStatuses
  <2> DEFINE new == [call[c] EXCEPT !.op = "poll_write", !.pay = now]
  <2>3. new \in Call /\ new.op = "poll_write" /\ new.pid \in Intents
    BY <1>0, <1>5, <2>2 DEF PollAsk, Call, Reading
  <2>4. ASSUME now = call[c].pay PROVE CallsOK'
    BY <1>0, <2>1, <2>4, AnswerKeepsType DEF Answers
  <2>5. ASSUME now # call[c].pay PROVE CallsOK'
    <3>1. call' = [call EXCEPT ![c] = new]
      BY <2>1, <2>5
    <3> HIDE DEF new
    <3> QED
      BY <1>0, <2>3, <3>1 DEF CallsOK, Creating, Reading
  <2> QED
    BY <1>0, <1>1, <1>5, <2>4, <2>5 DEF PollAsk, orderVars, RowOK, Exists
<1>6. CASE PollWrite(c)
  <2>1. RowOK'
    BY <1>0, <1>6 DEF PollWrite, RowOK, Exists
  <2> QED
    BY <1>0, <1>1, <1>6, <2>1, AnswerKeepsType DEF PollWrite
<1>7. CASE RefundLock(c)
  <2>1. /\ StripeOK' /\ sent \subseteq sent' /\ pay' \in PaymentStatuses
        /\ refunds' \in [Intents -> Nat]
    <3>1. ASSUME NEW n \in 1 .. Amount, RefundTaken(call[c].pid, n)
          PROVE  <2>1
      BY <1>0, <1>7, <3>1, RefundTakenKeepsType DEF RefundLock, Reading
    <3>2. CASE UNCHANGED <<pay, refunds, stripeVars>>
      BY <1>0, <3>2 DEF StripeOK, stripeVars, RowOK
    <3> QED
      BY <1>7, <3>1, <3>2 DEF RefundLock
  <2>2. RowOK' /\ done' = done
    BY <1>0, <1>7, <2>1 DEF RefundLock, RowOK, Exists
  <2>3. CallsOK'
    BY <1>0, <1>7, AnswerKeepsType DEF RefundLock
  <2> QED
    BY <1>0, <2>1, <2>2, <2>3 DEF TypeOK, RowOK, StripeOK, CallsOK, Exists
<1>8. CASE AutoCancelLock(c)
  <2>1. CallsOK'
    BY <1>0, <1>8, AnswerKeepsType DEF AutoCancelLock
  <2>2. CASE CancelOrder(FALSE)
    BY <1>0, <2>1, <2>2, CancelKeepsType DEF TypeOK, RowOK, StripeOK, CallsOK, Exists
  <2>3. CASE UNCHANGED <<orderVars, stripeVars>>
    BY <1>0, <1>1, <2>1, <2>3 DEF orderVars, RowOK, Exists
  <2> QED
    BY <1>8, <2>2, <2>3 DEF AutoCancelLock
<1> QED
  BY <1>2, <1>3, <1>4, <1>5, <1>6, <1>7, <1>8 DEF Proceed

\* TypeOK is inductive.
LEMMA TypeStep ==
  ASSUME TypeOK, [Next]_vars
  PROVE  TypeOK'
<1>0. /\ RowOK /\ StripeOK /\ CallsOK /\ done \subseteq sent
      /\ refunds \in [Intents -> Nat]
  BY TypeParts
<1>1. CASE Stripe
  <2>1. StripeOK' /\ sent \subseteq sent' /\ UNCHANGED <<orderVars, call>>
    BY <1>0, <1>1, StripeKeepsType
  <2> QED
    BY <1>0, <2>1 DEF TypeOK, RowOK, StripeOK, CallsOK, orderVars, Exists
<1>2. ASSUME NEW e \in Events, NEW again \in BOOLEAN, Deliver(e, again)
      PROVE  TypeOK'
  <2>1. RowOK' /\ done' \subseteq sent /\ UNCHANGED refunds
    BY <1>2, HandleKeepsType DEF Deliver
  <2> QED
    BY <1>0, <1>2, <2>1 DEF Deliver, TypeOK, RowOK, StripeOK, CallsOK, Exists
<1>3. ASSUME NEW c \in Callers, Request(c) \/ Proceed(c)
      PROVE  TypeOK'
  BY <1>3, RequestKeepsType, ProceedKeepsType
<1>4. ASSUME NEW c \in Callers, RefundLost(c)
      PROVE  TypeOK'
  <2>1. PICK n \in 1 .. Amount :
          Refundable(call[c].pid, n) /\ GiveBack(call[c].pid, n)
    BY <1>4 DEF RefundLost
  <2>2. call[c].pid \in Intents
    BY <1>0, <1>4 DEF RefundLost, CallsOK, Reading
  <2>3. StripeOK' /\ sent \subseteq sent'
    BY <1>0, <2>1, <2>2, GiveBackKeepsType
  <2>4. CallsOK'
    BY <1>0, <1>4, AnswerKeepsType DEF RefundLost
  <2> QED
    BY <1>0, <1>4, <2>3, <2>4
       DEF RefundLost, TypeOK, RowOK, StripeOK, CallsOK, orderVars, Exists
<1>5. ASSUME NEW i \in Intents, CreateCheckoutSession(i)
      PROVE  TypeOK'
  BY <1>0, <1>5 DEF CreateCheckoutSession, Becomes, TypeOK, RowOK, StripeOK,
                    CallsOK, orderVars, Exists
<1>6. CASE CustomerCancel
  <2>1. /\ RowOK' /\ StripeOK' /\ sent \subseteq sent' /\ done' = done
        /\ refunds' \in [Intents -> Nat]
    BY <1>6, CancelKeepsType DEF CustomerCancel
  <2> QED
    BY <1>0, <1>6, <2>1
       DEF CustomerCancel, TypeOK, RowOK, StripeOK, CallsOK, Exists
<1>7. ASSUME NEW to \in Statuses, UpdateOrderStatus(to)
      PROVE  TypeOK'
  BY <1>0, <1>7 DEF UpdateOrderStatus, TypeOK, RowOK, StripeOK, CallsOK,
                    stripeVars, Exists, Statuses
<1>8. CASE UNCHANGED vars
  BY <1>0, <1>8 DEF vars, orderVars, stripeVars, TypeOK, RowOK, StripeOK, CallsOK, Exists
<1>9. ASSUME NEW e \in Events, Swallows(e)
      PROVE  TypeOK'
  <2>1. e \in sent /\ done' \subseteq sent
    BY <1>0, <1>9 DEF Swallows, Mark, StripeOK
  <2> QED
    BY <1>0, <1>9, <2>1 DEF Swallows, TypeOK, RowOK, StripeOK, CallsOK, Exists
<1> QED
  BY <1>1, <1>2, <1>3, <1>4, <1>5, <1>6, <1>7, <1>8, <1>9, NextSteps

\* The order's row, Stripe's records and the requests keep their shape in
\* every run, however many intents, callers and units there are.
THEOREM PaymentTypeCorrect == Spec => []TypeOK
<1>1. Init => TypeOK
  <2> SUFFICES ASSUME Init PROVE TypeOK
    OBVIOUS
  <2>1. NoCall \in Call /\ NoCall.op \notin Creating \cup Reading
    BY DEF NoCall, Call, PaymentStatuses, Creating, Reading
  <2>2. RowOK /\ done \subseteq sent /\ refunds \in [Intents -> Nat]
    BY DEF Init, RowOK, PaymentStatuses, Exists
  <2>3. charge \in [Intents -> {"none", "made", "open", "processing",
                                "succeeded", "canceled", "session"}]
    BY DEF Init
  <2>4. back \in [Intents -> 0 .. Amount]
    BY PaymentConstants DEF Init
  <2>5. CallsOK
    BY <2>1 DEF Init, CallsOK
  <2> QED
    BY <2>2, <2>3, <2>4, <2>5, TypeParts DEF Init, StripeOK
<1>2. TypeOK /\ [Next]_vars => TypeOK'
  BY TypeStep
<1> QED
  BY <1>1, <1>2, PTL DEF Spec

-----------------------------------------------------------------------------
\* The order's lifecycle.

\* The row of an order is written once: by the one request that places it.
Placing == \A c \in Callers : call[c].op = "place" =>
             ~Exists /\ \A d \in Callers : call[d].op = "place" => d = c

\* Only one request places the order, and only while there is no row.
LEMMA PlacingStep ==
  ASSUME TypeOK, Placing, [Next]_vars
  PROVE  Placing'
<1>0. call \in [Callers -> Call]
  BY DEF TypeOK
<1>1. ASSUME ~Exists => UNCHANGED status,
             \A d \in Callers : call'[d].op = "place" => call[d].op = "place"
      PROVE  Placing'
  BY <1>1 DEF Placing, Exists
<1>2. CASE Stripe
  BY <1>1, <1>2, RowUntouched, StripeKeepsType, TypeParts DEF orderVars
<1>3. ASSUME NEW e \in Events, NEW again \in BOOLEAN, Deliver(e, again)
      PROVE  Placing'
  <2>1. ~Exists => UNCHANGED status
    BY <1>3 DEF Deliver, Handle, OnSucceeded, OnFailed, OnRequiresAction,
                OnChargeRefunded, OnCheckoutCompleted, ByIntent, orderVars
  <2> QED
    BY <1>1, <1>3, <2>1 DEF Deliver
<1>4. ASSUME NEW c \in Callers, PlaceCheck(c)
      PROVE  Placing'
  BY <1>0, <1>4 DEF PlaceCheck, Placing, Exists, orderVars
<1>5. ASSUME NEW c \in Callers, NEW op \in {"beat"} \cup Creating \cup Reading,
             NEW i, op # "place", Reads(c, op, i), UNCHANGED status
      PROVE  Placing'
  BY <1>0, <1>1, <1>5 DEF Reads
<1>6. ASSUME NEW c \in Callers, Request(c)
      PROVE  Placing'
  <2>1. ASSUME NEW i \in Intents, RetryCheck(c, i)
        PROVE  Placing'
    BY <1>5, <2>1 DEF RetryCheck, Creating, orderVars
  <2> QED
    BY <1>0, <1>1, <1>4, <1>5, <1>6, <2>1, AgentAsks
       DEF Request, PollRead, RefundRead, AutoCancelSelect, Creating, Reading,
           orderVars
<1>7. ASSUME NEW c \in Callers, PlaceCommit(c)
      PROVE  Placing'
  BY <1>0, <1>7 DEF PlaceCommit, Answers, NoCall, Placing
<1>8. ASSUME NEW c \in Callers, Answers(c), ~Exists => UNCHANGED status
      PROVE  Placing'
  BY <1>0, <1>1, <1>8 DEF Answers, NoCall
<1>9. ASSUME NEW c \in Callers, Proceed(c)
      PROVE  Placing'
  <2>1. CASE RetrySave(c) /\ Goes(c, "retry_lock")
    BY <1>0, <1>1, <2>1 DEF RetrySave, Goes
  <2>2. CASE PollAsk(c)
    BY <1>0, <1>1, <2>2 DEF PollAsk, NoCall, orderVars
  <2>3. CASE AutoCancelLock(c)
    BY <1>8, <2>3 DEF AutoCancelLock, CancelOrder, orderVars
  <2> QED
    BY <1>7, <1>8, <1>9, <2>1, <2>2, <2>3
       DEF Proceed, RetrySave, RetryLock, AgentLock, PollWrite, RefundLock
<1>10. ASSUME NEW c \in Callers, RefundLost(c)
       PROVE  Placing'
  BY <1>8, <1>10 DEF RefundLost, orderVars
<1>11. CASE CustomerCancel \/ \E i \in Intents : CreateCheckoutSession(i)
  BY <1>1, <1>11 DEF CustomerCancel, CancelOrder, CreateCheckoutSession, orderVars
<1>12. CASE \/ \E to \in Statuses : UpdateOrderStatus(to)
            \/ \E e \in Events : Swallows(e)
  BY <1>1, <1>12 DEF UpdateOrderStatus, Swallows
<1>13. CASE UNCHANGED vars
  BY <1>1, <1>13 DEF vars, orderVars
<1> QED
  BY <1>2, <1>3, <1>6, <1>9, <1>10, <1>11, <1>12, <1>13, NextSteps

\* Money received is a shipment the lifecycle allows, or no change to it.
LEMMA ReceivedShips ==
  ASSUME TypeOK, Exists, NEW i \in Intents, PaymentReceived(i)
  PROVE  Lifecycle!Ship \/ UNCHANGED <<status, shipments>>
<1>1. CASE pay \in Returned \cup {"CANCELED"}
  BY <1>1 DEF PaymentReceived
<1>2. CASE pay \notin Returned \cup {"CANCELED"} /\ status = "CANCELED"
  BY <1>2 DEF PaymentReceived
<1>3. CASE pay \notin Returned \cup {"CANCELED"} /\ status # "CANCELED"
  BY <1>3 DEF PaymentReceived, Exists, Lifecycle!Ship
<1> QED
  BY <1>1, <1>2, <1>3

\* cancel_order is a published transition without a shipment.
LEMMA CancelMoves ==
  ASSUME NEW refundPayment \in BOOLEAN, CancelOrder(refundPayment)
  PROVE  \E edge \in Lifecycle!Transitions : Lifecycle!Move(edge[2])
<1> DEFINE edge == <<status, "CANCELED">>
<1>1. edge \in Lifecycle!Transitions /\ edge[2] = "CANCELED"
  BY DEF CancelOrder, Lifecycle!Transitions
<1>2. Lifecycle!Move("CANCELED")
  BY <1>1 DEF CancelOrder, Lifecycle!Move
<1> QED
  BY <1>1, <1>2

\* Every step of the order is a step of OrderLifecycle or stutters.
LEMMA LifecycleStep ==
  ASSUME TypeOK, Placing, [Next]_vars
  PROVE  [Lifecycle!LifeNext]_Lifecycle!lifeVars
<1> USE DEF Lifecycle!LifeNext, Lifecycle!lifeVars
<1>1. CASE UNCHANGED orderVars
  BY <1>1 DEF orderVars
<1>2. ASSUME NEW e \in Events, NEW again \in BOOLEAN, Deliver(e, again)
      PROVE  [Lifecycle!LifeNext]_Lifecycle!lifeVars
  <2>1. e.intent \in Intents
    BY DEF Events
  <2>2. ASSUME Exists, PaymentReceived(e.intent)
        PROVE  [Lifecycle!LifeNext]_Lifecycle!lifeVars
    BY <2>1, <2>2, ReceivedShips
  <2> QED
    BY <1>1, <1>2, <2>2
       DEF Deliver, Handle, OnSucceeded, OnFailed, OnRequiresAction,
           OnChargeRefunded, OnCheckoutCompleted, ByIntent
<1>3. ASSUME NEW c \in Callers, Proceed(c)
      PROVE  [Lifecycle!LifeNext]_Lifecycle!lifeVars
  <2>1. CASE PlaceCommit(c)
    BY <2>1 DEF PlaceCommit, Placing, Exists, Lifecycle!Place
  <2>2. CASE CancelOrder(FALSE)
    BY <2>2, CancelMoves
  <2> QED
    BY <1>1, <1>3, <2>1, <2>2
       DEF Proceed, RetrySave, RetryLock, AgentLock, PollAsk, PollWrite,
           RefundLock, AutoCancelLock, orderVars
<1>4. CASE CustomerCancel
  BY <1>4, CancelMoves DEF CustomerCancel
<1>5. ASSUME NEW to \in Statuses, UpdateOrderStatus(to)
      PROVE  [Lifecycle!LifeNext]_Lifecycle!lifeVars
  <2> DEFINE edge == <<status, to>>
  <2>1. edge \in Lifecycle!Transitions /\ edge[2] = to
    BY <1>5 DEF UpdateOrderStatus, AllowedTransitions, Statuses, Exists, TypeOK,
                Lifecycle!Transitions
  <2>2. Lifecycle!Move(to)
    BY <1>5, <2>1 DEF UpdateOrderStatus, Lifecycle!Move
  <2> QED
    BY <2>1, <2>2
<1>6. CASE UNCHANGED vars \/ \E e \in Events : Swallows(e)
  BY <1>6 DEF vars, orderVars, Swallows
<1> QED
  BY <1>1, <1>2, <1>3, <1>4, <1>5, <1>6, NextSteps, RowUntouched

\* All the entrances to an order together implement the published lifecycle,
\* whichever of them are in use: a status never skips a transition and no
\* shipment is asked for a canceled order or one that does not exist yet.
THEOREM PaymentImplementsLifecycle == Spec => ImplementsLifecycle
<1>1. Init => Lifecycle!LifeInit /\ Placing
  BY DEF Init, Lifecycle!LifeInit, Placing, NoCall
<1>2. TypeOK /\ Placing /\ [Next]_vars => Placing'
  BY PlacingStep
<1>3. TypeOK /\ Placing /\ [Next]_vars => [Lifecycle!LifeNext]_Lifecycle!lifeVars
  BY LifecycleStep
<1> QED
  BY <1>1, <1>2, <1>3, PaymentTypeCorrect, PTL
     DEF Spec, ImplementsLifecycle, Lifecycle!LifeSpec

-----------------------------------------------------------------------------
\* One shipment for each payment event: the marks are a finite set that grows
\* with every event that is acted on.

Shipped == IsFiniteSet(done) /\ OneShipmentPerEvent

\* Marking an event without a shipment keeps the bound.
LEMMA MoreMarks ==
  ASSUME TypeOK, Shipped, NEW e, Mark(e), UNCHANGED shipments
  PROVE  Shipped'
<1>1. IsFiniteSet(done')
  BY FS_AddElement DEF Mark, Shipped
<1>2. PaymentEvents \subseteq PaymentEvents' /\ PaymentEvents' \subseteq done'
  BY DEF PaymentEvents, Mark
<1>3. IsFiniteSet(PaymentEvents')
  BY <1>1, <1>2, FS_Subset
<1>4. /\ Cardinality(PaymentEvents) \in Nat /\ Cardinality(PaymentEvents') \in Nat
      /\ Cardinality(PaymentEvents) <= Cardinality(PaymentEvents')
  BY <1>2, <1>3, FS_Subset, FS_CardinalityType
<1> QED
  BY <1>1, <1>4 DEF Shipped, OneShipmentPerEvent, TypeOK

\* A payment event that is marked for the first time pays for one shipment.
LEMMA PaidMarks ==
  ASSUME TypeOK, Shipped, NEW e \in Events, e \notin done, Mark(e),
         e.kind \in {"succeeded", "session_paid"}, shipments' <= shipments + 1,
         shipments' \in Nat
  PROVE  Shipped'
<1>1. IsFiniteSet(done')
  BY FS_AddElement DEF Mark, Shipped
<1>2. PaymentEvents' = PaymentEvents \cup {e} /\ e \notin PaymentEvents
  BY DEF PaymentEvents, Mark
<1>3. IsFiniteSet(PaymentEvents)
  BY FS_Subset DEF Shipped, PaymentEvents
<1>4. /\ Cardinality(PaymentEvents) \in Nat
      /\ Cardinality(PaymentEvents') = Cardinality(PaymentEvents) + 1
  BY <1>2, <1>3, FS_AddElement, FS_CardinalityType
<1> QED
  BY <1>1, <1>4 DEF Shipped, OneShipmentPerEvent, TypeOK

\* The bound of the shipments by the marks is inductive.
LEMMA ShippedStep ==
  ASSUME TypeOK, Shipped, [Next]_vars
  PROVE  Shipped'
<1>1. ASSUME UNCHANGED <<done, shipments>>
      PROVE  Shipped'
  BY <1>1 DEF Shipped, OneShipmentPerEvent, PaymentEvents
<1>2. ASSUME NEW e \in Events, NEW again \in BOOLEAN, Deliver(e, again)
      PROVE  Shipped'
  <2>1. ASSUME NEW i, PaymentReceived(i)
        PROVE  shipments' \in Nat /\ shipments' <= shipments + 1
    BY <2>1 DEF PaymentReceived, TypeOK
  <2>2. CASE OnSucceeded(e)
    BY <2>1, <2>2, PaidMarks DEF OnSucceeded
  <2>3. CASE OnCheckoutCompleted(e)
    <3>1. CASE e.kind = "session_paid" /\ PaymentReceived(e.intent)
      BY <2>1, <2>3, <3>1, PaidMarks DEF OnCheckoutCompleted
    <3>2. CASE UNCHANGED shipments
      BY <2>3, <3>2, MoreMarks DEF OnCheckoutCompleted
    <3> QED
      BY <2>3, <3>1, <3>2 DEF OnCheckoutCompleted
  <2>4. CASE OnFailed(e) \/ OnRequiresAction(e) \/ OnChargeRefunded(e)
    BY <2>4, MoreMarks DEF OnFailed, OnRequiresAction, OnChargeRefunded
  <2>5. CASE UNCHANGED orderVars
    BY <1>1, <2>5 DEF orderVars
  <2> QED
    BY <1>2, <2>2, <2>3, <2>4, <2>5 DEF Deliver, Handle
<1>3. ASSUME NEW c \in Callers, Proceed(c)
      PROVE  Shipped'
  BY <1>1, <1>3 DEF Proceed, PlaceCommit, RetrySave, RetryLock, AgentLock, PollAsk,
     PollWrite, RefundLock, AutoCancelLock, CancelOrder, orderVars
<1>4. CASE CustomerCancel \/ \E to \in Statuses : UpdateOrderStatus(to)
  BY <1>1, <1>4 DEF CustomerCancel, CancelOrder, UpdateOrderStatus
<1>5. CASE UNCHANGED orderVars
  BY <1>1, <1>5 DEF orderVars
<1>6. CASE UNCHANGED vars
  BY <1>5, <1>6 DEF vars
<1>7. ASSUME NEW e \in Events, Swallows(e)
      PROVE  Shipped'
  BY <1>1, <1>7, MoreMarks DEF Swallows
<1> QED
  BY <1>2, <1>3, <1>4, <1>5, <1>6, <1>7, NextSteps, RowUntouched

\* Repeated deliveries of a payment event never ask the courier for another
\* shipment, however many events there are and however often they come.
THEOREM PaymentShipsOnce == Spec => []OneShipmentPerEvent
<1>1. Init => Shipped
  <2> SUFFICES ASSUME Init PROVE Shipped
    OBVIOUS
  <2>1. PaymentEvents = {} /\ IsFiniteSet({}) /\ Cardinality({}) = 0
    BY FS_EmptySet DEF Init, PaymentEvents
  <2> QED
    BY <2>1 DEF Init, Shipped, OneShipmentPerEvent
<1>2. TypeOK /\ Shipped /\ [Next]_vars => Shipped'
  BY ShippedStep
<1>3. Shipped => OneShipmentPerEvent
  BY DEF Shipped
<1> QED
  BY <1>1, <1>2, <1>3, PaymentTypeCorrect, PTL DEF Spec

-----------------------------------------------------------------------------
\* What holds because an entrance is not in use.  The runs show that each of
\* these assumptions is needed.

\* Calls and events come only from entrances in use.
Fits(op) ==
  /\ op \in {"retry", "intent", "retry_lock"} => "retry" \in Entrances
  /\ op \in {"poll", "poll_write"} => "poll" \in Entrances
  /\ op = "agent" => "agent" \in Entrances
UsesEntrances ==
  /\ \A c \in Callers : Fits(call[c].op)
  /\ \A e \in sent : e.kind = "session_unpaid" => "unpaid" \in Entrances

\* Requests and unpaid-session events arise only from entrances that are in use.
LEMMA UsesStep ==
  ASSUME TypeOK, UsesEntrances, [Next]_vars
  PROVE  UsesEntrances'
<1>0. call \in [Callers -> Call]
  BY DEF TypeOK
<1>1. ASSUME UNCHANGED call, UNCHANGED sent
      PROVE  UsesEntrances'
  BY <1>1 DEF UsesEntrances
<1>2. ASSUME NEW c \in Callers, NEW new, call' = [call EXCEPT ![c] = new],
             Fits(new.op), UNCHANGED sent
      PROVE  UsesEntrances'
  BY <1>0, <1>2 DEF UsesEntrances
<1>3. ASSUME NEW es, Emit(es), UNCHANGED call,
             \A e \in es : e.kind = "session_unpaid" => "unpaid" \in Entrances
      PROVE  UsesEntrances'
  BY <1>3 DEF Emit, UsesEntrances
<1>4. ASSUME NEW c \in Callers, NEW new, call' = [call EXCEPT ![c] = new],
             Fits(new.op), NEW es, Emit(es),
             \A e \in es : e.kind = "session_unpaid" => "unpaid" \in Entrances
      PROVE  UsesEntrances'
  BY <1>0, <1>4 DEF Emit, UsesEntrances
<1>5. Fits("idle") /\ Fits("place") /\ Fits("refund") /\ Fits("beat")
  BY DEF Fits
<1>6. NoCall.op = "idle"
  BY DEF NoCall
<1>7. ASSUME NEW i, NEW n, GiveBack(i, n)
      PROVE  \E es : Emit(es) /\ \A e \in es : e.kind # "session_unpaid"
  <2> DEFINE new == [kind |-> "refunded", intent |-> i, back |-> back[i] + n]
  <2>1. Emit({new}) /\ new.kind = "refunded"
    BY <1>7 DEF GiveBack
  <2> HIDE DEF new
  <2> QED
    BY <2>1
<1>14. ASSUME NEW c \in Callers, NEW op, NEW i, Reads(c, op, i), Fits(op)
       PROVE  /\ UNCHANGED sent => UsesEntrances'
              /\ \A e : Emit({e}) /\ e.kind # "session_unpaid" => UsesEntrances'
  <2> DEFINE new == [op |-> op, pay |-> pay, pid |-> pid, to |-> i]
  <2>1. call' = [call EXCEPT ![c] = new] /\ new.op = op
    BY <1>14 DEF Reads
  <2> HIDE DEF new
  <2> QED
    BY <1>2, <1>4, <1>14, <2>1
<1>8. CASE Stripe
  <2> PICK i \in Intents :
        \/ Succeeds(i) \/ Processes(i) \/ Declines(i) \/ AsksForAction(i)
        \/ Lapses(i)
        \/ SessionPays(i) \/ SessionStaysUnpaid(i)
        \/ \E n \in 1 .. Amount : DashboardRefund(i, n)
    BY <1>8 DEF Stripe
  <2>1. CASE Succeeds(i) \/ Declines(i) \/ AsksForAction(i) \/ SessionPays(i)
    BY <1>3, <2>1 DEF Succeeds, Declines, AsksForAction, SessionPays, Event
  <2>2. CASE Processes(i) \/ Lapses(i)
    BY <1>1, <2>2 DEF Processes, Lapses
  <2>3. CASE SessionStaysUnpaid(i)
    BY <1>3, <2>3 DEF SessionStaysUnpaid, Event
  <2>4. ASSUME NEW n \in 1 .. Amount, DashboardRefund(i, n)
        PROVE  UsesEntrances'
    BY <1>3, <1>7, <2>4 DEF DashboardRefund
  <2> QED
    BY <2>1, <2>2, <2>3, <2>4
<1>9. ASSUME NEW c \in Callers, Request(c)
      PROVE  UsesEntrances'
  <2>1. CASE PlaceCheck(c)
    <3> DEFINE new == [NoCall EXCEPT !.op = "place", !.to = FirstIntent,
                                     !.pay = MapStripeStatus(charge[FirstIntent])]
    <3>1. call' = [call EXCEPT ![c] = new] /\ new.op = "place" /\ UNCHANGED sent
      BY <2>1 DEF PlaceCheck, NoCall, stripeVars
    <3> HIDE DEF new
    <3> QED
      BY <1>2, <1>5, <3>1
  <2>2. ASSUME NEW i \in Intents, RetryCheck(c, i)
        PROVE  UsesEntrances'
    BY <1>14, <2>2 DEF RetryCheck, Fits
  <2>3. CASE AgentCheck(c)
    <3>1. PICK new \in Call : call' = [call EXCEPT ![c] = new] /\ new.op = "agent"
      BY <2>3, AgentAsks
    <3> QED
      BY <1>0, <2>3, <3>1, AgentAsks DEF UsesEntrances, Fits, Emit, Event
  <2>4. CASE PollRead(c) \/ RefundRead(c) \/ AutoCancelSelect(c)
    BY <1>14, <2>4 DEF PollRead, RefundRead, AutoCancelSelect, Fits, stripeVars
  <2> QED
    BY <1>9, <2>1, <2>2, <2>3, <2>4 DEF Request
<1>10. ASSUME NEW c \in Callers, Answers(c)
       PROVE  /\ UNCHANGED sent => UsesEntrances'
              /\ \A i, n : GiveBack(i, n) => UsesEntrances'
  <2>1. UNCHANGED sent => UsesEntrances'
    BY <1>2, <1>5, <1>6, <1>10 DEF Answers
  <2>2. ASSUME NEW i, NEW n, GiveBack(i, n)
        PROVE  UsesEntrances'
    BY <1>4, <1>5, <1>6, <1>7, <1>10, <2>2 DEF Answers
  <2> QED
    BY <2>1, <2>2
<1>11. ASSUME NEW c \in Callers, Proceed(c)
       PROVE  UsesEntrances'
  <2>1. CASE RetrySave(c) /\ Goes(c, "retry_lock")
    BY <1>0, <1>2, <2>1 DEF RetrySave, Goes, Fits, UsesEntrances
  <2>2. CASE PollAsk(c)
    BY <1>0, <1>2, <1>5, <1>6, <2>2 DEF PollAsk, Fits, UsesEntrances, stripeVars, Call
  <2>3. CASE RefundLock(c)
    BY <1>10, <2>3 DEF RefundLock, RefundTaken, stripeVars
  <2>4. CASE AutoCancelLock(c)
    BY <1>10, <2>4 DEF AutoCancelLock, CancelOrder, stripeVars
  <2> QED
    BY <1>10, <1>11, <2>1, <2>2, <2>3, <2>4
       DEF Proceed, PlaceCommit, RetrySave, RetryLock, AgentLock, PollWrite, stripeVars
<1>12. ASSUME NEW c \in Callers, RefundLost(c)
       PROVE  UsesEntrances'
  BY <1>10, <1>12 DEF RefundLost
<1>13. CASE CustomerCancel
  <2>1. ASSUME NEW i, NEW n, GiveBack(i, n)
        PROVE  UsesEntrances'
    BY <1>3, <1>7, <1>13, <2>1 DEF CustomerCancel
  <2> QED
    BY <1>1, <1>13, <2>1 DEF CustomerCancel, CancelOrder, RefundTaken, stripeVars
<1>15. CASE \/ \E i \in Intents : CreateCheckoutSession(i)
            \/ \E e \in Events, again \in BOOLEAN : Deliver(e, again)
            \/ \E e \in Events : Swallows(e)
            \/ \E to \in Statuses : UpdateOrderStatus(to)
            \/ UNCHANGED vars
  BY <1>1, <1>15 DEF CreateCheckoutSession, Deliver, Swallows, UpdateOrderStatus,
                     vars, stripeVars
<1> QED
  BY <1>8, <1>9, <1>11, <1>12, <1>13, <1>15, NextSteps

\* The invariants every later proof starts from.
LEMMA Invariants == Spec => [](TypeOK /\ Placing /\ UsesEntrances)
<1>1. Init => Placing /\ UsesEntrances
  BY DEF Init, Placing, UsesEntrances, Fits, NoCall
<1>2. TypeOK /\ Placing /\ [Next]_vars => Placing'
  BY PlacingStep
<1>3. TypeOK /\ UsesEntrances /\ [Next]_vars => UsesEntrances'
  BY UsesStep
<1> QED
  BY <1>1, <1>2, <1>3, PaymentTypeCorrect, PTL DEF Spec

\* What the receivers may do to the payment of an order.
LEMMA HandlePays ==
  ASSUME NEW e \in Events, Handle(e), e.kind # "session_unpaid"
  PROVE  \/ pay' = pay /\ UNCHANGED <<status, refunds>>
         \/ PaymentReceived(e.intent) /\ Exists /\ UNCHANGED refunds
         \/ pay \notin Settled /\ pay' # "COMPLETED" /\ UNCHANGED <<status, refunds>>
         \/ pay' \in Returned /\ UNCHANGED <<status, refunds>>
  BY DEF Handle, OnSucceeded, OnFailed, OnRequiresAction, OnChargeRefunded,
         OnCheckoutCompleted, ByIntent, Settled, Returned, orderVars

\* Unless a Checkout session is completed unpaid, no delivery takes a settled
\* payment back to an open state, whatever order the events come in.
THEOREM WebhooksKeepSettled ==
  ASSUME "unpaid" \notin Entrances
  PROVE  Spec => WebhooksNeverRegress
<1>1. ASSUME TypeOK, UsesEntrances, NEW e \in Events, NEW again \in BOOLEAN,
             Deliver(e, again), pay \in Settled
      PROVE  pay' \in Settled /\ (pay # "COMPLETED" => pay' # "COMPLETED")
  <2>1. e.kind # "session_unpaid" /\ Handle(e)
    BY <1>1 DEF Deliver, TypeOK, UsesEntrances
  <2> QED
    BY <1>1, <2>1, HandlePays DEF PaymentReceived, Settled, Returned
<1>2. TypeOK /\ UsesEntrances =>
        [\A e \in Events, again \in BOOLEAN :
           Deliver(e, again) /\ pay \in Settled
             => /\ pay' \in Settled
                /\ pay # "COMPLETED" => pay' # "COMPLETED"]_vars
  BY <1>1
<1> QED
  BY <1>2, Invariants, PTL DEF WebhooksNeverRegress

\* Where neither an agent's charge nor a status poll writes the payment, no
\* step but a payment's arrival makes an existing order paid.
LEMMA PaidByReceipt ==
  ASSUME TypeOK, Placing, UsesEntrances, Next, "agent" \notin Entrances,
         "poll" \notin Entrances, Exists, ~IsPaid, IsPaid'
  PROVE  \E i \in Intents : PaymentReceived(i)
<1>1. ASSUME NEW e \in Events, NEW again \in BOOLEAN, Deliver(e, again)
      PROVE  \E i \in Intents : PaymentReceived(i)
  <2>1. e.intent \in Intents
    BY DEF Events
  <2> QED
    BY <1>1, <2>1 DEF Deliver, Handle, OnSucceeded, OnFailed, OnRequiresAction,
       OnChargeRefunded, OnCheckoutCompleted, orderVars, IsPaid
<1>2. ASSUME NEW c \in Callers, Proceed(c)
      PROVE  FALSE
  <2>1. call[c].op \notin {"place", "agent", "poll", "poll_write"}
    BY DEF Placing, UsesEntrances, Fits
  <2> QED
    BY <1>2, <2>1 DEF Proceed, PlaceCommit, RetrySave, RetryLock, AgentLock,
       PollAsk, PollWrite, RefundLock, RefundTaken, AutoCancelLock, CancelOrder,
       orderVars, IsPaid
<1>3. CASE CustomerCancel
  BY <1>3 DEF CustomerCancel, CancelOrder, RefundTaken, IsPaid
<1>4. CASE \/ \E to \in Statuses : UpdateOrderStatus(to)
           \/ \E e \in Events : Swallows(e)
  BY <1>4 DEF UpdateOrderStatus, Swallows, IsPaid
<1>5. CASE UNCHANGED orderVars
  BY <1>5 DEF orderVars, IsPaid
<1> QED
  BY <1>1, <1>2, <1>3, <1>4, <1>5, NextSteps, RowUntouched

\* Where neither an agent's charge nor a status poll writes the payment, money
\* that reaches a canceled order is flagged for a refund by hand.
THEOREM ReceiptsAreFlagged ==
  ASSUME "agent" \notin Entrances, "poll" \notin Entrances
  PROVE  Spec => ReceiptOnCanceledIsFlagged
<1>1. ASSUME TypeOK, Placing, UsesEntrances, Next, status = "CANCELED", ~IsPaid,
             pay' = "COMPLETED"
      PROVE  flagged'
  <2>1. PICK i \in Intents : PaymentReceived(i)
    BY <1>1, PaidByReceipt DEF Exists, IsPaid
  <2> QED
    BY <1>1, <2>1 DEF PaymentReceived, IsPaid
<1>2. TypeOK /\ Placing /\ UsesEntrances /\ [Next]_vars =>
        [status = "CANCELED" /\ ~IsPaid /\ pay' = "COMPLETED" => flagged']_vars
  BY <1>1
<1> QED
  BY <1>2, Invariants, PTL DEF Spec, ReceiptOnCanceledIsFlagged

\* The beat task's order, as long as it is PENDING, is not paid.
BeatWaits ==
  \A c \in Callers :
    call[c].op = "beat" => Exists /\ (status = "PENDING" => ~IsPaid)

\* A beat call or a refund has been running, or begins with its read.
Began(b) ==
  \/ call[b].op = call'[b].op
  \/ AutoCancelSelect(b) /\ call'[b].op = "beat"
  \/ RefundRead(b) /\ call'[b].op = "refund"

\* A caller that runs the beat task or a refund did so before, or begins now.
LEMMA RequestBegins ==
  ASSUME TypeOK, [Next]_vars, NEW b \in Callers, call'[b].op \in {"beat", "refund"}
  PROVE  Began(b)
<1>0. call \in [Callers -> Call]
  BY DEF TypeOK
<1>1. CASE UNCHANGED call
  BY <1>1 DEF Began
<1>2. ASSUME NEW c \in Callers, NEW new, call' = [call EXCEPT ![c] = new],
             new.op \notin {"beat", "refund"} \/ (b = c => Began(b))
      PROVE  Began(b)
  BY <1>0, <1>2 DEF Began
<1>3. NoCall.op = "idle"
  BY DEF NoCall
<1>4. ASSUME NEW c \in Callers, NEW op, NEW i, Reads(c, op, i),
             \/ op \notin {"beat", "refund"}
             \/ op = "beat" /\ AutoCancelSelect(c)
             \/ op = "refund" /\ RefundRead(c)
      PROVE  Began(b)
  <2> DEFINE new == [op |-> op, pay |-> pay, pid |-> pid, to |-> i]
  <2>1. call' = [call EXCEPT ![c] = new] /\ new.op = op
    BY <1>4 DEF Reads
  <2> HIDE DEF new
  <2> QED
    BY <1>0, <1>2, <1>4, <2>1 DEF Began
<1>5. ASSUME NEW c \in Callers, Request(c)
      PROVE  Began(b)
  <2>1. CASE PlaceCheck(c)
    <3> DEFINE new == [NoCall EXCEPT !.op = "place", !.to = FirstIntent,
                                     !.pay = MapStripeStatus(charge[FirstIntent])]
    <3>1. call' = [call EXCEPT ![c] = new] /\ new.op = "place"
      BY <2>1 DEF PlaceCheck, NoCall
    <3> HIDE DEF new
    <3> QED
      BY <1>2, <3>1
  <2>2. ASSUME NEW i \in Intents, RetryCheck(c, i)
        PROVE  Began(b)
    BY <1>4, <2>2 DEF RetryCheck
  <2>3. CASE AgentCheck(c) \/ PollRead(c) \/ RefundRead(c)
    BY <1>2, <1>4, <2>3, AgentAsks DEF PollRead, RefundRead
  <2>4. CASE AutoCancelSelect(c)
    BY <1>4, <2>4 DEF AutoCancelSelect
  <2> QED
    BY <1>5, <2>1, <2>2, <2>3, <2>4 DEF Request
<1>6. ASSUME NEW c \in Callers, Answers(c)
      PROVE  Began(b)
  BY <1>2, <1>3, <1>6 DEF Answers
<1>7. ASSUME NEW c \in Callers, Proceed(c)
      PROVE  Began(b)
  <2>1. CASE Goes(c, "retry_lock")
    <3> DEFINE new == [call[c] EXCEPT !.op = "retry_lock"]
    <3>1. call' = [call EXCEPT ![c] = new] /\ new.op = "retry_lock"
      BY <1>0, <2>1 DEF Goes, Call
    <3> HIDE DEF new
    <3> QED
      BY <1>2, <3>1
  <2>2. CASE PollAsk(c)
    <3> PICK now : call' = [call EXCEPT ![c] =
                     IF now = call[c].pay THEN NoCall
                     ELSE [call[c] EXCEPT !.op = "poll_write", !.pay = now]]
      BY <2>2 DEF PollAsk
    <3> DEFINE new == IF now = call[c].pay THEN NoCall
                      ELSE [call[c] EXCEPT !.op = "poll_write", !.pay = now]
    <3>1. call' = [call EXCEPT ![c] = new] /\ new.op \in {"idle", "poll_write"}
      BY <1>0, <1>3 DEF Call
    <3> HIDE DEF new
    <3> QED
      BY <1>2, <3>1
  <2> QED
    BY <1>6, <1>7, <2>1, <2>2
       DEF Proceed, PlaceCommit, RetrySave, RetryLock, AgentLock, PollWrite,
           RefundLock, AutoCancelLock
<1>8. ASSUME NEW c \in Callers, RefundLost(c)
      PROVE  Began(b)
  BY <1>6, <1>8 DEF RefundLost
<1> QED
  BY <1>1, <1>5, <1>7, <1>8, NextSteps, TypeParts, StripeKeepsType
     DEF Deliver, Swallows, CreateCheckoutSession, CustomerCancel, UpdateOrderStatus,
         vars

\* BeatWaits is inductive where every recorded payment also moves the status on.
LEMMA BeatStep ==
  ASSUME TypeOK, Placing, UsesEntrances, BeatWaits, [Next]_vars,
         "agent" \notin Entrances, "poll" \notin Entrances
  PROVE  BeatWaits'
<1> SUFFICES ASSUME NEW b \in Callers, call'[b].op = "beat"
             PROVE  Exists' /\ (status' = "PENDING" => ~IsPaid')
  BY DEF BeatWaits
<1>1. CASE AutoCancelSelect(b)
  BY <1>1 DEF AutoCancelSelect, orderVars, Exists, IsPaid
<1>2. CASE UNCHANGED vars
  BY <1>2 DEF vars, orderVars, BeatWaits, Exists, IsPaid
<1>3. CASE call[b].op = "beat" /\ Next
  <2>1. Exists /\ (status = "PENDING" => ~IsPaid)
    BY <1>3 DEF BeatWaits
  <2>2. Exists' /\ (status' = "PENDING" => status = "PENDING")
    BY <2>1, LifecycleStep DEF Exists, Lifecycle!LifeNext, Lifecycle!lifeVars,
       Lifecycle!Place, Lifecycle!Move, Lifecycle!Ship, Lifecycle!Transitions
  <2>3. ASSUME status' = "PENDING", IsPaid'
        PROVE  FALSE
    <3>1. PICK i \in Intents : PaymentReceived(i)
      BY <1>3, <2>1, <2>2, <2>3, PaidByReceipt
    <3> QED
      BY <2>1, <2>2, <2>3, <3>1 DEF PaymentReceived, IsPaid
  <2> QED
    BY <2>2, <2>3
<1> QED
  BY <1>1, <1>2, <1>3, RequestBegins DEF Began

\* Where neither an agent's charge nor a status poll writes the payment, the
\* beat task never cancels a paid order: reading the status again under the
\* lock is enough, because a payment's arrival moves the status with it.
THEOREM AutoCancelNeedsNoPayCheck ==
  ASSUME "agent" \notin Entrances, "poll" \notin Entrances
  PROVE  Spec => AutoCancelSparesPaid
<1>1. Init => BeatWaits
  BY DEF Init, BeatWaits, NoCall
<1>2. TypeOK /\ Placing /\ UsesEntrances /\ BeatWaits /\ [Next]_vars => BeatWaits'
  BY BeatStep
<1>3. ASSUME TypeOK, Placing, UsesEntrances, BeatWaits, Next, NEW b \in Callers,
             call[b].op = "beat", status # "CANCELED", call'[b] = NoCall,
             status' = "CANCELED", IsPaid
      PROVE  FALSE
  <2>1. status # "PENDING" /\ Exists
    BY <1>3 DEF BeatWaits
  <2>2. call' # call
    BY <1>3 DEF NoCall
  <2>3. ASSUME NEW e \in Events, NEW again \in BOOLEAN, Deliver(e, again)
        PROVE  FALSE
    BY <2>2, <2>3 DEF Deliver
  <2>4. ASSUME NEW c \in Callers, Proceed(c)
        PROVE  FALSE
    BY <1>3, <2>1, <2>4
       DEF Proceed, PlaceCommit, RetrySave, RetryLock, AgentLock, PollAsk,
           PollWrite, RefundLock, AutoCancelLock, orderVars
  <2>5. CASE \/ CustomerCancel \/ \E to \in Statuses : UpdateOrderStatus(to)
             \/ \E e \in Events : Swallows(e)
    BY <2>2, <2>5 DEF CustomerCancel, UpdateOrderStatus, Swallows
  <2>6. CASE UNCHANGED orderVars
    BY <1>3, <2>6 DEF orderVars
  <2> QED
    BY <1>3, <2>3, <2>4, <2>5, <2>6, NextSteps, RowUntouched
<1>4. TypeOK /\ Placing /\ UsesEntrances /\ BeatWaits /\ [Next]_vars =>
        [\A c \in Callers :
           call[c].op = "beat" /\ status # "CANCELED" /\ call'[c] = NoCall
             /\ status' = "CANCELED"
           => ~IsPaid]_vars
  BY <1>3
<1> QED
  BY <1>1, <1>2, <1>4, Invariants, PTL DEF Spec, AutoCancelSparesPaid

-----------------------------------------------------------------------------
\* Where nothing writes the payment over, a refund stays on record until the
\* next one is asked for.
OnRecord ==
  /\ \A i \in Intents : refunds[i] \in {0, 1} /\ (refunds[i] = 1 => pay \in Returned)
  /\ ~Exists => pay = "PENDING"
RefundsFind == \A c \in Callers : call[c].op = "refund" => Exists

\* A refund that Stripe takes at once leaves the payment REFUNDED.
LEMMA RefundTakenKeepsRecord ==
  ASSUME TypeOK, OnRecord, NEW i \in Intents, NEW n, RefundTaken(i, n),
         pay \notin Returned, RefundAnswers \subseteq {"succeeded"}, UNCHANGED status, Exists
  PROVE  OnRecord'
<1>1. refunds' = [refunds EXCEPT ![i] = refunds[i] + 1] /\ pay' = "REFUNDED"
  BY DEF RefundTaken
<1>2. \A j \in Intents : refunds[j] = 0
  BY DEF OnRecord
<1> QED
  BY <1>1, <1>2 DEF TypeOK, OnRecord, Returned, Exists

\* A refund request only begins on an order that exists.
LEMMA RefundsFindStep ==
  ASSUME TypeOK, Placing, RefundsFind, [Next]_vars
  PROVE  RefundsFind'
<1>1. Exists => Exists'
  BY LifecycleStep DEF Exists, Lifecycle!LifeNext, Lifecycle!lifeVars,
     Lifecycle!Place, Lifecycle!Move, Lifecycle!Ship, Lifecycle!Transitions
<1> QED
  BY <1>1, RequestBegins DEF Began, RefundRead, RefundsFind

\* OnRecord is inductive where nothing writes a returned payment over.
LEMMA OnRecordStep ==
  ASSUME TypeOK, Placing, UsesEntrances, OnRecord, RefundsFind, [Next]_vars,
         {"retry", "poll", "agent", "unpaid"} \cap Entrances = {},
         RefundAnswers \subseteq {"succeeded"}
  PROVE  OnRecord'
<1>1. ASSUME UNCHANGED refunds, Exists', pay \in Returned => pay' \in Returned
      PROVE  OnRecord'
  BY <1>1 DEF OnRecord
<1>2. CASE UNCHANGED orderVars
  BY <1>2 DEF orderVars, OnRecord, Exists
<1>3. ASSUME NEW e \in Events, NEW again \in BOOLEAN, Deliver(e, again)
      PROVE  OnRecord'
  <2>1. e.kind # "session_unpaid" /\ Handle(e)
    BY <1>3 DEF Deliver, TypeOK, UsesEntrances
  <2>2. CASE UNCHANGED orderVars
    BY <1>2, <2>2
  <2>3. CASE ~UNCHANGED orderVars
    <3>1. Exists
      BY <2>1, <2>3 DEF Handle, OnSucceeded, OnFailed, OnRequiresAction,
         OnChargeRefunded, OnCheckoutCompleted, ByIntent
    <3>2. UNCHANGED refunds /\ Exists' /\ (pay \in Returned => pay' \in Returned)
      BY <2>1, <3>1, HandlePays DEF PaymentReceived, Exists, Settled
    <3> QED
      BY <1>1, <3>2
  <2> QED
    BY <2>2, <2>3
<1>4. ASSUME NEW i \in Intents, NEW n, RefundTaken(i, n), pay \notin Returned,
             Exists, UNCHANGED status
      PROVE  OnRecord'
  BY <1>4, RefundTakenKeepsRecord
<1>5. ASSUME NEW refundPayment \in BOOLEAN, CancelOrder(refundPayment)
      PROVE  OnRecord'
  <2>1. pid \in Intents /\ Exists /\ Exists'
    BY <1>5 DEF CancelOrder, TypeOK, Exists
  <2>2. ASSUME IsPaid, RefundTaken(pid, Amount - back[pid])
        PROVE  OnRecord'
    <3>1. \A i \in Intents : refunds[i] = 0
      BY <2>2 DEF OnRecord, IsPaid, Returned
    <3>2. refunds' = [refunds EXCEPT ![pid] = refunds[pid] + 1] /\ pay' = "REFUNDED"
      BY <2>2 DEF RefundTaken
    <3> QED
      BY <2>1, <3>1, <3>2 DEF OnRecord, Returned, TypeOK
  <2> QED
    BY <1>1, <1>5, <2>1, <2>2 DEF CancelOrder
<1>6. ASSUME NEW c \in Callers, Proceed(c)
      PROVE  OnRecord'
  <2>1. call[c].op \notin {"retry", "intent", "retry_lock", "agent", "poll", "poll_write"}
    BY DEF UsesEntrances, Fits
  <2>2. CASE PlaceCommit(c)
    BY <2>2 DEF PlaceCommit, Placing, OnRecord, Exists, Returned
  <2>3. CASE RefundLock(c)
    <3>0. call[c].pid \in Intents
      BY <2>3 DEF RefundLock, TypeOK, Reading
    <3>1. Exists
      BY <2>3 DEF RefundLock, RefundsFind
    <3> QED
      BY <1>1, <1>4, <2>3, <3>0, <3>1 DEF RefundLock, Exists
  <2>4. CASE AutoCancelLock(c)
    BY <1>2, <1>5, <2>4 DEF AutoCancelLock
  <2> QED
    BY <1>6, <2>1, <2>2, <2>3, <2>4
       DEF Proceed, RetrySave, RetryLock, AgentLock, PollAsk, PollWrite
<1>7. CASE CustomerCancel
  BY <1>5, <1>7 DEF CustomerCancel
<1>8. CASE \/ \E to \in Statuses : UpdateOrderStatus(to)
           \/ \E e \in Events : Swallows(e)
  BY <1>1, <1>8 DEF UpdateOrderStatus, Swallows, Statuses, Exists, OnRecord
<1>9. CASE UNCHANGED vars
  BY <1>2, <1>9 DEF vars
<1> QED
  BY <1>2, <1>3, <1>6, <1>7, <1>8, <1>9, NextSteps, RowUntouched

\* Where refunds are prompt, and neither a retry, an unpaid session, an agent's
\* charge nor a status poll writes the payment over, the lock that reads
\* payment_status again makes a second refund of an intent impossible, however
\* many clerks there are and whatever they have read before.
THEOREM RefundsAskOnce ==
  ASSUME {"retry", "poll", "agent", "unpaid"} \cap Entrances = {},
         RefundAnswers \subseteq {"succeeded"}
  PROVE  Spec => []RefundOnce
<1>1. Init => OnRecord /\ RefundsFind
  BY DEF Init, OnRecord, RefundsFind, NoCall
<1>2. TypeOK /\ Placing /\ RefundsFind /\ [Next]_vars => RefundsFind'
  BY RefundsFindStep
<1>3. TypeOK /\ Placing /\ UsesEntrances /\ OnRecord /\ RefundsFind /\ [Next]_vars
        => OnRecord'
  BY OnRecordStep
<1>4. OnRecord => RefundOnce
  BY DEF OnRecord, RefundOnce
<1> QED
  BY <1>1, <1>2, <1>3, <1>4, Invariants, PTL DEF Spec

=============================================================================
