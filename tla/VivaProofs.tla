------------------------------ MODULE VivaProofs ------------------------------
(***************************************************************************)
(* What the Viva webhook keeps, for any number of transactions, webhook    *)
(* requests and faults: an event takes effect once and is acknowledged     *)
(* only with its row, and without faults a failed attempt hides no booked  *)
(* payment.                                                                *)
(***************************************************************************)
EXTENDS VivaWebhook, TLAPS

\* What Viva tells is true of the transaction and stays so.
SentIsTrue ==
  \A e \in sent :
    /\ e[1] = "paid" => txn[e[2]] \in {"F", "R"}
    /\ e[1] = "failed" => txn[e[2]] = "E"
    /\ e[1] = "reversed" => txn[e[2]] = "R"

\* A payment is only booked or asked about under the transaction that made it.
PaidIsNamed ==
  /\ order.payment = "COMPLETED" => order.id # None
  /\ check # NoCheck => order.id # None /\ check.answer \in Payments

VInv == HandledOnce /\ SentIsTrue /\ PaidIsNamed

LEMMA EventParts ==
  ASSUME NEW e \in Events
  PROVE  e[1] \in Types /\ e[2] \in Txns /\ e = <<e[1], e[2]>>
  BY DEF Events

LEMMA InitVInv ==
  ASSUME Init
  PROVE  VInv
<1>1. VivaTypeOK
  BY VivaConstants DEF Init, VivaTypeOK, Idle, NoCheck, Payments, Answers
<1>2. AppliedOnce /\ AckedIsRecorded
  BY DEF Init, AppliedOnce, AckedIsRecorded
<1>3. OneAtWork
  BY VivaConstants DEF Init, OneAtWork, Idle
<1>4. SentIsTrue /\ PaidIsNamed
  BY DEF Init, SentIsTrue, PaidIsNamed
<1> QED
  BY <1>1, <1>2, <1>3, <1>4 DEF VInv, HandledOnce

\* A step that leaves the webhook's tables and requests alone, and only lets
\* Viva learn more that is true.
LEMMA OutsideStep ==
  ASSUME VInv, UNCHANGED webhook, sent \subseteq sent', VivaTypeOK',
         SentIsTrue', PaidIsNamed'
  PROVE  VInv'
  BY DEF VInv, HandledOnce, AppliedOnce, AckedIsRecorded, OneAtWork, webhook

\* A transaction settles: Viva's new event is true, and no old one turns false.
LEMMA SettlesKeeps ==
  ASSUME VInv, NEW t \in Txns, NEW how, NEW type, Settles(t, how, type),
         \/ txn[t] = "open" /\ how = "F" /\ type = "paid"
         \/ txn[t] = "open" /\ how = "E" /\ type = "failed"
         \/ txn[t] = "F" /\ how = "R" /\ type = "reversed"
  PROVE  /\ txn' \in [Txns -> {"none", "open", "F", "E", "R"}]
         /\ sent' \subseteq Events /\ sent \subseteq sent'
         /\ SentIsTrue'
<1>1. <<type, t>> \in Events
  BY DEF Events, Types
<1>2. txn' \in [Txns -> {"none", "open", "F", "E", "R"}]
  BY DEF VInv, HandledOnce, VivaTypeOK, Settles
<1>3. SentIsTrue'
  <2> SUFFICES ASSUME NEW e \in sent'
               PROVE  /\ e[1] = "paid" => txn'[e[2]] \in {"F", "R"}
                      /\ e[1] = "failed" => txn'[e[2]] = "E"
                      /\ e[1] = "reversed" => txn'[e[2]] = "R"
    BY DEF SentIsTrue
  <2>1. CASE e \in sent
    <3>1. e \in Events
      BY <2>1 DEF VInv, HandledOnce, VivaTypeOK
    <3>2. e[2] \in Txns /\ e[1] \in Types
      BY <3>1, EventParts
    <3>3. /\ e[1] = "paid" => txn[e[2]] \in {"F", "R"}
          /\ e[1] = "failed" => txn[e[2]] = "E"
          /\ e[1] = "reversed" => txn[e[2]] = "R"
      BY <2>1 DEF VInv, SentIsTrue
    <3>4. txn'[e[2]] = IF e[2] = t THEN how ELSE txn[e[2]]
      BY <3>2 DEF VInv, HandledOnce, VivaTypeOK, Settles
    <3> QED
      BY <3>2, <3>3, <3>4 DEF Types
  <2>2. CASE e = <<type, t>>
    <3>1. txn'[t] = how
      BY DEF VInv, HandledOnce, VivaTypeOK, Settles
    <3> QED
      BY <2>2, <3>1
  <2> QED
    BY <2>1, <2>2 DEF Settles
<1> QED
  BY <1>1, <1>2, <1>3 DEF VInv, HandledOnce, VivaTypeOK, Settles

LEMMA VivaStep ==
  ASSUME VInv, NEW t \in Txns, Pays(t) \/ Fails(t) \/ Reverses(t)
  PROVE  VInv'
<1>1. /\ txn' \in [Txns -> {"none", "open", "F", "E", "R"}]
      /\ sent' \subseteq Events /\ sent \subseteq sent' /\ SentIsTrue'
  <2>1. CASE Pays(t)
    BY <2>1, SettlesKeeps DEF Pays
  <2>2. CASE Fails(t)
    BY <2>2, SettlesKeeps DEF Fails
  <2>3. CASE Reverses(t)
    BY <2>3, SettlesKeeps DEF Reverses
  <2> QED
    BY <2>1, <2>2, <2>3
<1>2. UNCHANGED <<order, price, webhook, check, faults>>
  BY DEF Pays, Fails, Reverses
<1>3. VivaTypeOK'
  BY <1>1, <1>2 DEF VInv, HandledOnce, VivaTypeOK, webhook, price
<1> QED
  BY <1>1, <1>2, <1>3, OutsideStep DEF VInv, PaidIsNamed

LEMMA SessionStep ==
  ASSUME VInv, NEW t \in Txns, OpensSession(t)
  PROVE  VInv'
<1>1. VivaTypeOK'
  BY DEF VInv, HandledOnce, VivaTypeOK, OpensSession, webhook
<1>2. SentIsTrue'
  <2> SUFFICES ASSUME NEW e \in sent PROVE txn'[e[2]] = txn[e[2]]
    BY DEF VInv, SentIsTrue, OpensSession
  <2>1. e[2] \in Txns /\ e[1] \in Types
    BY EventParts DEF VInv, HandledOnce, VivaTypeOK
  <2>2. txn[e[2]] # "none"
    BY <2>1 DEF VInv, SentIsTrue, Types
  <2> QED
    BY <2>1, <2>2 DEF OpensSession, VInv, HandledOnce, VivaTypeOK
<1> QED
  BY <1>1, <1>2, OutsideStep DEF VInv, PaidIsNamed, OpensSession

-----------------------------------------------------------------------------
\* The webhook's own steps.  Each proves the parts it can disturb.

LEMMA ReceivesStep ==
  ASSUME VInv, NEW r \in Requests, NEW e \in Events, Receives(r, e)
  PROVE  VInv'
<1>1. VivaTypeOK'
  BY VivaConstants DEF VInv, HandledOnce, VivaTypeOK, Receives, price
<1>2. AppliedOnce' /\ AckedIsRecorded'
  BY DEF VInv, HandledOnce, AppliedOnce, AckedIsRecorded, Receives
<1>3. OneAtWork'
  BY DEF VInv, HandledOnce, OneAtWork, Receives, VivaTypeOK
<1> QED
  BY <1>1, <1>2, <1>3 DEF VInv, HandledOnce, SentIsTrue, PaidIsNamed, Receives

LEMMA DuplicatesStep ==
  ASSUME VInv, NEW r \in Requests, Duplicates(r)
  PROVE  VInv'
<1>1. request[r].ev \in sent /\ request[r].ev \in rows
  BY DEF VInv, HandledOnce, OneAtWork, Duplicates, AlreadyDone
<1>2. VivaTypeOK'
  BY <1>1, VivaConstants DEF VInv, HandledOnce, VivaTypeOK, Duplicates, Idle,
     price
<1>3. AppliedOnce' /\ AckedIsRecorded'
  BY <1>1 DEF VInv, HandledOnce, AppliedOnce, AckedIsRecorded, Duplicates
<1>4. OneAtWork'
  BY VivaConstants DEF VInv, HandledOnce, OneAtWork, Duplicates, VivaTypeOK, Idle
<1> QED
  BY <1>2, <1>3, <1>4 DEF VInv, HandledOnce, SentIsTrue, PaidIsNamed, Duplicates

LEMMA VerifiesStep ==
  ASSUME VInv, NEW r \in Requests, Verifies(r)
  PROVE  VInv'
<1> DEFINE e == request[r].ev
<1>1. e \in sent /\ e \in Events
  BY DEF VInv, HandledOnce, OneAtWork, VivaTypeOK, Verifies
<1>2. txn[e[2]] \in Answers
  <2>1. e[2] \in Txns /\ e[1] \in Types
    BY <1>1, EventParts
  <2>2. txn[e[2]] \in {"F", "E", "R"}
    BY <1>1, <2>1 DEF VInv, SentIsTrue, Types
  <2> QED
    BY <2>2 DEF Answers
<1>3. PICK a \in Answers :
        /\ request' = [request EXCEPT ![r] =
             [pc |-> "verified", ev |-> e, answer |-> a]]
        /\ faults' \in 0 .. MaxFaults
  BY <1>2, VivaConstants DEF Verifies, Answers, Fault, VInv, HandledOnce, VivaTypeOK
<1>4. VivaTypeOK'
  <2>1. request' \in [Requests ->
       [pc : {"idle", "waiting", "verified"}, ev : Events \cup {None},
        answer : Answers \cup {None}]]
    BY <1>1, <1>3 DEF VInv, HandledOnce, VivaTypeOK
  <2> QED
    BY <1>3, <2>1 DEF VInv, HandledOnce, VivaTypeOK, Verifies, price
<1>5. AppliedOnce' /\ AckedIsRecorded'
  BY DEF VInv, HandledOnce, AppliedOnce, AckedIsRecorded, Verifies
<1>6. OneAtWork'
  BY <1>1, <1>3, VivaConstants DEF VInv, HandledOnce, OneAtWork, Verifies,
     AlreadyDone, VivaTypeOK
<1> QED
  BY <1>4, <1>5, <1>6 DEF VInv, HandledOnce, SentIsTrue, PaidIsNamed, Verifies

\* The effects are the only place where `applied` grows, and the row that is
\* committed with them was not there.
LEMMA CommitsStep ==
  ASSUME VInv, NEW r \in Requests, Commits(r)
  PROVE  VInv'
<1> DEFINE e == request[r].ev
<1>1. e \in sent /\ e \in Events /\ e \notin rows /\ lock = r
  BY DEF VInv, HandledOnce, OneAtWork, VivaTypeOK, Commits
<1>2. e[1] \in Types /\ e[2] \in Txns
  BY <1>1, EventParts
<1>3. /\ order' \in [status : {"PENDING", "PROCESSING", "CANCELED"},
                     payment : Payments, id : Txns \cup {None}]
      /\ order'.payment = "COMPLETED" => order'.id # None
      /\ order.id # None => order'.id # None
  <2>0. /\ order \in [status : {"PENDING", "PROCESSING", "CANCELED"},
                      payment : Payments, id : Txns \cup {None}]
        /\ order.payment = "COMPLETED" => order.id # None
    BY DEF VInv, HandledOnce, VivaTypeOK, PaidIsNamed
  <2>1. CASE ~Takes(e[1], e[2], request[r].answer)
    BY <2>0, <2>1 DEF Commits
  <2>2. CASE Takes(e[1], e[2], request[r].answer) /\ e[1] = "paid"
    <3>1. order' = Paid(e[2])
      BY <2>2 DEF Commits
    <3> QED
      BY <1>2, <2>0, <3>1, VivaConstants DEF Paid, Payments
  <2>3. CASE Takes(e[1], e[2], request[r].answer) /\ e[1] = "failed"
    <3>1. order' = [order EXCEPT !.payment = "FAILED"]
      BY <2>3 DEF Commits
    <3> QED
      BY <2>0, <3>1 DEF Payments
  <2>4. CASE Takes(e[1], e[2], request[r].answer) /\ e[1] = "reversed"
    <3>1. order' = [order EXCEPT !.payment = "REFUNDED"]
      BY <2>4 DEF Commits
    <3> QED
      BY <2>0, <3>1 DEF Payments
  <2> QED
    BY <1>2, <2>1, <2>2, <2>3, <2>4 DEF Types
<1>4. /\ applied' \in [Events -> Nat]
      /\ \A x \in Events :
           applied'[x] <= applied[x] + IF x = e THEN 1 ELSE 0
  <2>1. CASE Takes(e[1], e[2], request[r].answer)
    <3>1. applied' = [applied EXCEPT ![e] = applied[e] + 1]
      BY <2>1 DEF Commits
    <3> QED
      BY <1>1, <3>1 DEF VInv, HandledOnce, VivaTypeOK
  <2>2. CASE ~Takes(e[1], e[2], request[r].answer)
    <3>1. applied' = applied
      BY <2>2 DEF Commits
    <3> QED
      BY <1>1, <3>1 DEF VInv, HandledOnce, VivaTypeOK
  <2> QED
    BY <2>1, <2>2
<1>5. /\ rows' = rows \cup {e} /\ acked' = acked \cup {e}
      /\ lock' = None /\ request' = [request EXCEPT ![r] = Idle]
      /\ UNCHANGED <<total, asked, txn, sent, check, faults>>
  BY DEF Commits, price
<1>6. missed' \subseteq Txns /\ refused' \subseteq Txns
  BY <1>2 DEF Commits, VInv, HandledOnce, VivaTypeOK
<1>7. VivaTypeOK'
  <2>1. request' \in [Requests ->
       [pc : {"idle", "waiting", "verified"}, ev : Events \cup {None},
        answer : Answers \cup {None}]]
    BY <1>5 DEF VInv, HandledOnce, VivaTypeOK, Idle
  <2> QED
    BY <1>1, <1>3, <1>4, <1>5, <1>6, <2>1 DEF VInv, HandledOnce, VivaTypeOK
<1>8. AppliedOnce'
  <2> SUFFICES ASSUME NEW x \in Events
               PROVE  applied'[x] <= IF x \in rows' THEN 1 ELSE 0
    BY DEF AppliedOnce
  <2>1. applied[x] <= (IF x \in rows THEN 1 ELSE 0) /\ applied[x] \in Nat
        /\ applied'[x] \in Nat
    BY <1>4 DEF VInv, HandledOnce, AppliedOnce, VivaTypeOK
  <2> QED
    BY <1>1, <1>4, <1>5, <2>1
<1>9. AckedIsRecorded'
  BY <1>5 DEF VInv, HandledOnce, AckedIsRecorded
<1>10. OneAtWork'
  <2> SUFFICES ASSUME NEW q \in Requests
               PROVE  /\ (request'[q].pc = "verified") <=> (lock' = q)
                      /\ request'[q].pc = "verified" => request'[q].ev \notin rows'
                      /\ request'[q].pc # "idle" => request'[q].ev \in sent'
    BY DEF OneAtWork
  <2>1. CASE q = r
    BY <1>5, <2>1, VivaConstants DEF Idle, VInv, HandledOnce, VivaTypeOK
  <2>2. CASE q # r
    BY <1>1, <1>5, <2>2, VivaConstants DEF VInv, HandledOnce, OneAtWork, VivaTypeOK
  <2> QED
    BY <2>1, <2>2
<1> QED
  BY <1>3, <1>5, <1>7, <1>8, <1>9, <1>10 DEF VInv, HandledOnce, SentIsTrue,
     PaidIsNamed

LEMMA RollsBackStep ==
  ASSUME VInv, NEW r \in Requests, RollsBack(r)
  PROVE  VInv'
<1>1. lock = r
  BY DEF VInv, HandledOnce, OneAtWork, RollsBack
<1>2. faults' \in 0 .. MaxFaults
  BY VivaConstants DEF RollsBack, Fault, VInv, HandledOnce, VivaTypeOK
<1>3. VivaTypeOK'
  BY <1>2 DEF VInv, HandledOnce, VivaTypeOK, RollsBack, Idle, price
<1>4. AppliedOnce' /\ AckedIsRecorded'
  BY DEF VInv, HandledOnce, AppliedOnce, AckedIsRecorded, RollsBack
<1>5. OneAtWork'
  BY <1>1, VivaConstants DEF VInv, HandledOnce, OneAtWork, RollsBack, VivaTypeOK,
     Idle
<1> QED
  BY <1>3, <1>4, <1>5 DEF VInv, HandledOnce, SentIsTrue, PaidIsNamed, RollsBack

-----------------------------------------------------------------------------
\* The shop's own steps.

LEMMA RefundsStep ==
  ASSUME VInv, RefundsOrder
  PROVE  VInv'
<1>1. PICK to \in {"PENDING", "PROCESSING", "CANCELED"} : Refunds(to)
  BY DEF RefundsOrder, VInv, HandledOnce, VivaTypeOK
<1>2. order.id \in Txns
  BY <1>1 DEF Refunds, VInv, PaidIsNamed, HandledOnce, VivaTypeOK
<1>3. /\ txn' \in [Txns -> {"none", "open", "F", "E", "R"}]
      /\ sent' \subseteq Events /\ sent \subseteq sent' /\ SentIsTrue'
  BY <1>1, <1>2, SettlesKeeps DEF Refunds
<1>4. /\ order' \in [status : {"PENDING", "PROCESSING", "CANCELED"},
                     payment : Payments, id : Txns \cup {None}]
      /\ order'.id = order.id
      /\ faults' \in 0 .. MaxFaults
  <2>0. /\ order \in [status : {"PENDING", "PROCESSING", "CANCELED"},
                      payment : Payments, id : Txns \cup {None}]
        /\ faults \in 0 .. MaxFaults
    BY DEF VInv, HandledOnce, VivaTypeOK
  <2>1. CASE /\ order' = [order EXCEPT !.payment = "REFUNDED", !.status = to]
             /\ UNCHANGED faults
    BY <2>0, <2>1 DEF Payments
  <2>2. CASE Fault /\ UNCHANGED order
    BY <2>0, <2>2, VivaConstants DEF Fault
  <2> QED
    BY <1>1, <2>1, <2>2 DEF Refunds
<1>5. UNCHANGED webhook /\ UNCHANGED check /\ UNCHANGED price
  BY <1>1 DEF Refunds
<1>6. VivaTypeOK'
  BY <1>3, <1>4, <1>5 DEF VInv, HandledOnce, VivaTypeOK, webhook, price
<1>7. PaidIsNamed'
  BY <1>2, <1>4, <1>5, VivaConstants DEF VInv, PaidIsNamed
<1> QED
  BY <1>3, <1>5, <1>6, <1>7, OutsideStep

LEMMA ShopStep ==
  ASSUME VInv, AutoCancels \/ CheckAsks \/ CheckSaves
  PROVE  VInv'
<1>1. UNCHANGED <<total, asked, txn, sent, webhook>>
  BY DEF AutoCancels, CheckAsks, CheckSaves, price
<1>2. SentIsTrue'
  BY <1>1 DEF VInv, SentIsTrue
<1>3. CASE AutoCancels
  <2>1. VivaTypeOK' /\ PaidIsNamed'
    BY <1>1, <1>3 DEF AutoCancels, VInv, HandledOnce, VivaTypeOK, PaidIsNamed, webhook
  <2> QED
    BY <1>1, <1>2, <2>1, OutsideStep
<1>4. CASE CheckAsks
  <2>1. order.id # None /\ order' = order
    BY <1>4 DEF CheckAsks
  <2>2. /\ check' \in [seen : Payments \cup {None}, answer : Payments \cup {None}]
        /\ check'.answer \in Payments
        /\ faults' \in 0 .. MaxFaults
    BY <1>4, VivaConstants DEF CheckAsks, Mapped, Payments, Fault, VInv, HandledOnce,
       VivaTypeOK
  <2>3. VivaTypeOK' /\ PaidIsNamed'
    BY <1>1, <2>1, <2>2 DEF VInv, HandledOnce, VivaTypeOK, PaidIsNamed, webhook
  <2> QED
    BY <1>1, <1>2, <2>3, OutsideStep
<1>5. CASE CheckSaves
  <2>1. order.id # None /\ order'.id = order.id /\ check' = NoCheck
    BY <1>5 DEF CheckSaves, VInv, PaidIsNamed, HandledOnce, VivaTypeOK
  <2>2. order' \in [status : {"PENDING", "PROCESSING", "CANCELED"},
                    payment : Payments, id : Txns \cup {None}]
    <3>1. check.answer \in Payments
      BY <1>5 DEF CheckSaves, VInv, PaidIsNamed
    <3> QED
      BY <1>5, <3>1 DEF CheckSaves, VInv, HandledOnce, VivaTypeOK
  <2>3. VivaTypeOK' /\ PaidIsNamed'
    BY <1>1, <1>5, <2>1, <2>2 DEF CheckSaves, NoCheck, VInv, HandledOnce, VivaTypeOK,
       PaidIsNamed, webhook
  <2> QED
    BY <1>1, <1>2, <2>3, OutsideStep
<1> QED
  BY <1>3, <1>4, <1>5

\* The staff's edit of the order's items.
LEMMA EditStep ==
  ASSUME VInv, EditsItems
  PROVE  VInv'
<1>1. VivaTypeOK'
  BY VivaConstants DEF EditsItems, VInv, HandledOnce, VivaTypeOK, webhook
<1> QED
  BY <1>1, OutsideStep DEF EditsItems, VInv, SentIsTrue, PaidIsNamed

-----------------------------------------------------------------------------
LEMMA VInvStep ==
  ASSUME VInv, [Next]_vars
  PROVE  VInv'
<1>1. CASE UNCHANGED vars
  BY <1>1 DEF vars, price, VInv, HandledOnce, VivaTypeOK, AppliedOnce, AckedIsRecorded,
     OneAtWork, SentIsTrue, PaidIsNamed
<1>2. ASSUME NEW t \in Txns,
             OpensSession(t) \/ Pays(t) \/ Fails(t) \/ Reverses(t)
      PROVE  VInv'
  BY <1>2, SessionStep, VivaStep
<1>3. ASSUME NEW r \in Requests,
             \/ \E e \in Events : Receives(r, e)
             \/ Duplicates(r) \/ Verifies(r) \/ Commits(r) \/ RollsBack(r)
      PROVE  VInv'
  BY <1>3, ReceivesStep, DuplicatesStep, VerifiesStep, CommitsStep, RollsBackStep
<1>4. ASSUME RefundsOrder \/ AutoCancels \/ CheckAsks \/ CheckSaves
      PROVE  VInv'
  BY <1>4, RefundsStep, ShopStep
<1> QED
  BY <1>1, <1>2, <1>3, <1>4, EditStep DEF Next

LEMMA VInvAlways == Spec => []VInv
<1>1. Init => VInv
  BY InitVInv
<1>2. VInv /\ [Next]_vars => VInv'
  BY VInvStep
<1> QED
  BY <1>1, <1>2, PTL DEF Spec

\* Exactly-once effects: whatever is delivered twice, at once or again after a
\* roll-back, an event is applied at most once, with its row, and acknowledged
\* only when the row is there (viva_webhook.py:606-640).
THEOREM VivaHandlesOnce == Spec => []HandledOnce
<1>1. VInv => HandledOnce
  BY DEF VInv
<1> QED
  BY <1>1, VInvAlways, PTL

-----------------------------------------------------------------------------
\* While no call fails: what an order's payment names was paid at Viva, so a
\* poll never reads FAILED; what the lock's holder read is still true; and
\* while the order shows no settled payment no payment's row is there, but of one
\* that was refused for its amount.
Unfailing ==
  faults = 0 =>
    /\ order.id # None => txn[order.id] \in {"F", "R"}
    /\ check # NoCheck => check.answer \in {"COMPLETED", "REFUNDED"}
    /\ \A r \in Requests :
         request[r].pc = "verified" /\ request[r].ev[1] = "paid" =>
           request[r].answer = "F" \/ txn[request[r].ev[2]] = "R"
    /\ order.payment \in {"PENDING", "FAILED"} =>
         \A t \in Txns : txn[t] = "F" => <<"paid", t>> \notin rows \/ t \in refused

\* A transaction that settles keeps it: a payment that is made has no row yet.
LEMMA SettlesUnfailing ==
  ASSUME VInv, Unfailing, NEW t \in Txns, NEW how, NEW type, Settles(t, how, type),
         \/ txn[t] = "open" /\ how \in {"F", "E"}
         \/ txn[t] = "F" /\ how = "R",
         faults = 0
  PROVE  /\ \A q \in Txns : txn[q] \in {"F", "R"} => txn'[q] \in {"F", "R"}
         /\ \A q \in Txns : txn[q] = "R" => txn'[q] = "R"
         /\ \A q \in Txns : txn'[q] = "F" /\ <<"paid", q>> \in rows => txn[q] = "F"
<1>1. txn' = [txn EXCEPT ![t] = how] /\ txn \in [Txns -> {"none", "open", "F", "E", "R"}]
  BY DEF Settles, VInv, HandledOnce, VivaTypeOK
<1>2. ASSUME NEW q \in Txns, <<"paid", q>> \in rows
      PROVE  txn[q] \in {"F", "R"}
  <2>1. <<"paid", q>> \in sent
    BY <1>2 DEF VInv, HandledOnce, VivaTypeOK
  <2> QED
    BY <2>1 DEF VInv, SentIsTrue
<1>3. ASSUME NEW q \in Txns
      PROVE  txn'[q] = IF q = t THEN how ELSE txn[q]
  BY <1>1
<1> QED
  BY <1>2, <1>3

LEMMA VivaUnfailing ==
  ASSUME VInv, Unfailing, NEW t \in Txns,
         OpensSession(t) \/ Pays(t) \/ Fails(t) \/ Reverses(t)
  PROVE  Unfailing'
<1> SUFFICES ASSUME faults' = 0 PROVE Unfailing'
  BY DEF Unfailing
<1>1. UNCHANGED <<order, rows, request, check, faults, refused>>
  BY DEF OpensSession, Pays, Fails, Reverses, webhook
<1>2. /\ \A q \in Txns : txn[q] \in {"F", "R"} => txn'[q] \in {"F", "R"}
      /\ \A q \in Txns : txn[q] = "R" => txn'[q] = "R"
      /\ \A q \in Txns : txn'[q] = "F" /\ <<"paid", q>> \in rows => txn[q] = "F"
  <2>1. CASE OpensSession(t)
    BY <2>1 DEF OpensSession, VInv, HandledOnce, VivaTypeOK
  <2>2. CASE Pays(t)
    BY <1>1, <2>2, SettlesUnfailing DEF Pays
  <2>3. CASE Fails(t)
    BY <1>1, <2>3, SettlesUnfailing DEF Fails
  <2>4. CASE Reverses(t)
    BY <1>1, <2>4, SettlesUnfailing DEF Reverses
  <2> QED
    BY <2>1, <2>2, <2>3, <2>4
<1>3. /\ order.id \in Txns \cup {None}
      /\ \A r \in Requests : request[r].pc = "verified" =>
           request[r].ev[2] \in Txns
  <2>1. order.id \in Txns \cup {None}
    BY DEF VInv, HandledOnce, VivaTypeOK
  <2>2. ASSUME NEW r \in Requests, request[r].pc = "verified"
        PROVE  request[r].ev[2] \in Txns
    <3>1. request[r].ev \in Events
      BY <2>2 DEF VInv, HandledOnce, VivaTypeOK, OneAtWork
    <3> QED
      BY <3>1, EventParts
  <2> QED
    BY <2>1, <2>2
<1> QED
  BY <1>1, <1>2, <1>3 DEF Unfailing

LEMMA VerifiesUnfailing ==
  ASSUME VInv, Unfailing, NEW r \in Requests, Verifies(r)
  PROVE  Unfailing'
<1> SUFFICES ASSUME faults' = 0 PROVE Unfailing'
  BY DEF Unfailing
<1> DEFINE e == request[r].ev
<1>1. e \in sent /\ e[2] \in Txns /\ e[1] \in Types
  BY EventParts DEF VInv, HandledOnce, OneAtWork, VivaTypeOK, Verifies
<1>2. faults = 0 /\ request' = [request EXCEPT ![r] =
        [pc |-> "verified", ev |-> e, answer |-> txn[e[2]]]]
  BY VivaConstants DEF Verifies, Fault, VInv, HandledOnce, VivaTypeOK
<1>3. UNCHANGED <<order, txn, rows, check, refused>>
  BY DEF Verifies
<1>4. e[1] = "paid" => txn[e[2]] \in {"F", "R"}
  BY <1>1 DEF VInv, SentIsTrue
<1>5. ASSUME NEW q \in Requests, request'[q].pc = "verified",
             request'[q].ev[1] = "paid"
      PROVE  request'[q].answer = "F" \/ txn'[request'[q].ev[2]] = "R"
  <2>1. CASE q = r
    BY <1>2, <1>3, <1>4, <1>5, <2>1 DEF VInv, HandledOnce, VivaTypeOK
  <2>2. CASE q # r
    BY <1>2, <1>3, <1>5, <2>2 DEF Unfailing, VInv, HandledOnce, VivaTypeOK
  <2> QED
    BY <2>1, <2>2
<1> QED
  BY <1>2, <1>3, <1>5 DEF Unfailing

LEMMA CommitsUnfailing ==
  ASSUME VInv, Unfailing, NEW r \in Requests, Commits(r)
  PROVE  Unfailing'
<1> SUFFICES ASSUME faults' = 0 PROVE Unfailing'
  BY DEF Unfailing
<1> DEFINE e == request[r].ev
           a == request[r].answer
<1>1. e \in sent /\ e[2] \in Txns /\ e[1] \in Types /\ e = <<e[1], e[2]>>
  BY EventParts DEF VInv, HandledOnce, OneAtWork, VivaTypeOK, Commits
<1>2. /\ UNCHANGED <<txn, check, faults>> /\ faults = 0
      /\ rows' = rows \cup {e} /\ request' = [request EXCEPT ![r] = Idle]
  BY DEF Commits
<1>3. e[1] = "paid" => txn[e[2]] \in {"F", "R"} /\ (a = "F" \/ txn[e[2]] = "R")
  BY <1>1, <1>2 DEF VInv, SentIsTrue, Unfailing, Commits
<1>4. order \in [status : {"PENDING", "PROCESSING", "CANCELED"},
                 payment : Payments, id : Txns \cup {None}]
  BY DEF VInv, HandledOnce, VivaTypeOK
<1>5. \/ order' = order /\ ~Takes(e[1], e[2], a)
      \/ order' = Paid(e[2]) /\ Takes(e[1], e[2], a) /\ e[1] = "paid"
      \/ order' = [order EXCEPT !.payment = "FAILED"] /\ Takes(e[1], e[2], a)
           /\ e[1] = "failed"
      \/ order' = [order EXCEPT !.payment = "REFUNDED"]
  <2>1. CASE ~Takes(e[1], e[2], a)
    BY <2>1 DEF Commits
  <2>2. CASE Takes(e[1], e[2], a) /\ e[1] = "paid"
    BY <2>2 DEF Commits
  <2>3. CASE Takes(e[1], e[2], a) /\ e[1] = "failed"
    BY <2>3 DEF Commits
  <2>4. CASE Takes(e[1], e[2], a) /\ e[1] = "reversed"
    BY <2>4 DEF Commits
  <2> QED
    BY <1>1, <2>1, <2>2, <2>3, <2>4 DEF Types
<1>6. order'.id # None => txn'[order'.id] \in {"F", "R"}
  <2>1. order'.id = order.id \/ (order'.id = e[2] /\ e[1] = "paid")
    BY <1>4, <1>5 DEF Paid
  <2> QED
    BY <1>2, <1>3, <2>1 DEF Unfailing
<1>7. ASSUME NEW q \in Requests, request'[q].pc = "verified"
      PROVE  q # r /\ request'[q] = request[q]
  BY <1>2, <1>7 DEF Idle, VInv, HandledOnce, VivaTypeOK
<1>8. ASSUME order'.payment \in {"PENDING", "FAILED"}, NEW t \in Txns,
             txn'[t] = "F"
      PROVE  <<"paid", t>> \notin rows' \/ t \in refused'
  <2>1. order.payment \in {"PENDING", "FAILED"}
    BY <1>4, <1>5, <1>8 DEF Paid, Takes, MayFail, Payments
  <2>2. <<"paid", t>> \notin rows \/ t \in refused'
    <3>1. refused \subseteq refused'
      BY DEF Commits
    <3> QED
      BY <1>2, <1>8, <2>1, <3>1 DEF Unfailing
  <2>3. ~(e[1] = "paid" /\ e[2] = t) \/ t \in refused'
    <3> SUFFICES ASSUME e[1] = "paid", e[2] = t, t \notin refused' PROVE FALSE
      OBVIOUS
    <3>1. a = "F" /\ ~AmountDiffers(t)
      <4>1. a = "F"
        BY <1>2, <1>3, <1>8
      <4> QED
        BY <4>1 DEF Commits
    <3>2. Takes(e[1], e[2], a)
      BY <2>1, <3>1 DEF Takes, MayPay
    <3>3. order' = Paid(e[2]) \/ order'.payment = "REFUNDED"
      BY <1>4, <1>5, <3>2
    <3> QED
      BY <1>8, <3>3 DEF Paid
  <2> QED
    BY <1>1, <1>2, <2>2, <2>3
<1> QED
  BY <1>2, <1>6, <1>7, <1>8 DEF Unfailing

LEMMA ShopUnfailing ==
  ASSUME VInv, Unfailing, RefundsOrder \/ AutoCancels \/ CheckAsks \/ CheckSaves
  PROVE  Unfailing'
<1> SUFFICES ASSUME faults' = 0 PROVE Unfailing'
  BY DEF Unfailing
<1>1. order \in [status : {"PENDING", "PROCESSING", "CANCELED"},
                 payment : Payments, id : Txns \cup {None}]
  BY DEF VInv, HandledOnce, VivaTypeOK
<1>2. faults = 0 /\ ~Fault
  BY VivaConstants DEF RefundsOrder, Refunds, AutoCancels, CheckAsks, CheckSaves,
     Fault, VInv, HandledOnce, VivaTypeOK
<1>3. UNCHANGED <<rows, request, refused>>
  BY DEF RefundsOrder, Refunds, AutoCancels, CheckAsks, CheckSaves, webhook
<1>4. CASE RefundsOrder
  <2>1. PICK to : Refunds(to)
    BY <1>4 DEF RefundsOrder
  <2>2. order.id \in Txns /\ UNCHANGED check
    BY <2>1 DEF Refunds, VInv, PaidIsNamed, HandledOnce, VivaTypeOK
  <2>3. order'.id = order.id /\ order'.payment = "REFUNDED"
    BY <1>1, <1>2, <2>1 DEF Refunds
  <2>4. /\ \A q \in Txns : txn[q] \in {"F", "R"} => txn'[q] \in {"F", "R"}
        /\ \A q \in Txns : txn[q] = "R" => txn'[q] = "R"
    BY <1>2, <2>1, <2>2, SettlesUnfailing DEF Refunds
  <2>5. ASSUME NEW r \in Requests, request[r].pc = "verified"
        PROVE  request[r].ev[2] \in Txns
    <3>1. request[r].ev \in Events
      BY <2>5 DEF VInv, HandledOnce, VivaTypeOK, OneAtWork
    <3> QED
      BY <3>1, EventParts
  <2> QED
    BY <1>2, <1>3, <2>2, <2>3, <2>4, <2>5 DEF Unfailing
<1>5. CASE AutoCancels
  <2>1. order'.id = order.id /\ order'.payment = order.payment
    BY <1>1, <1>5 DEF AutoCancels
  <2> QED
    BY <1>2, <1>3, <1>5, <2>1 DEF AutoCancels, Unfailing
<1>6. CASE CheckAsks
  <2>1. check'.answer = Mapped(order.id) /\ order.id # None
    BY <1>2, <1>6 DEF CheckAsks
  <2>2. check'.answer \in {"COMPLETED", "REFUNDED"}
    BY <1>2, <2>1 DEF Mapped, Unfailing
  <2> QED
    BY <1>2, <1>3, <1>6, <2>2 DEF CheckAsks, Unfailing
<1>7. CASE CheckSaves
  <2>1. check.answer \in {"COMPLETED", "REFUNDED"}
    BY <1>2, <1>7 DEF CheckSaves, Unfailing
  <2>2. order'.id = order.id /\ order'.payment \in {order.payment, "COMPLETED", "REFUNDED"}
    BY <1>1, <1>7, <2>1 DEF CheckSaves
  <2>3. order'.payment \in {"PENDING", "FAILED"} => order.payment \in {"PENDING", "FAILED"}
    BY <2>2
  <2> QED
    BY <1>2, <1>3, <1>7, <2>2, <2>3 DEF CheckSaves, Unfailing
<1> QED
  BY <1>4, <1>5, <1>6, <1>7

LEMMA UnfailingStep ==
  ASSUME VInv, Unfailing, [Next]_vars
  PROVE  Unfailing'
<1>1. CASE UNCHANGED vars
  BY <1>1 DEF vars, Unfailing
<1>2. ASSUME NEW r \in Requests,
             (\E e \in Events : Receives(r, e)) \/ Duplicates(r)
      PROVE  Unfailing'
  <2>1. UNCHANGED <<order, txn, rows, check, faults, refused>>
    BY <1>2 DEF Receives, Duplicates
  <2>2. ASSUME NEW q \in Requests, request'[q].pc = "verified"
        PROVE  request'[q] = request[q]
    BY <1>2, <2>2 DEF Receives, Duplicates, Idle, VInv, HandledOnce, VivaTypeOK
  <2> QED
    BY <2>1, <2>2 DEF Unfailing
<1>3. ASSUME NEW r \in Requests, RollsBack(r)
      PROVE  Unfailing'
  <2>1. UNCHANGED <<order, txn, rows, check, refused>> /\ (faults' = 0 => faults = 0)
    BY <1>3, VivaConstants DEF RollsBack, Fault, VInv, HandledOnce, VivaTypeOK
  <2>2. ASSUME NEW q \in Requests, request'[q].pc = "verified"
        PROVE  request'[q] = request[q]
    BY <1>3, <2>2 DEF RollsBack, Idle, VInv, HandledOnce, VivaTypeOK
  <2> QED
    BY <2>1, <2>2 DEF Unfailing
<1>4. CASE EditsItems
  BY <1>4 DEF EditsItems, Unfailing, webhook
<1> QED
  BY <1>1, <1>2, <1>3, <1>4, VivaUnfailing, VerifiesUnfailing, CommitsUnfailing,
     ShopUnfailing DEF Next

\* A failed attempt, or a late failed event, never hides a payment that was
\* booked, as long as no call to Viva fails: with a failed call a status poll
\* writes FAILED over a paid order (order/services.py:2026).  A payment that was
\* refused for its amount is no booked payment.
THEOREM VivaShowsPayments == Spec => []FailureHidesNoPayment
<1>1. Init => Unfailing
  BY DEF Init, Unfailing, Idle
<1>2. VInv /\ Unfailing /\ [Next]_vars => Unfailing'
  BY UnfailingStep
<1>3. Unfailing => FailureHidesNoPayment
  BY DEF Unfailing, FailureHidesNoPayment
<1> QED
  BY <1>1, <1>2, <1>3, VInvAlways, PTL DEF Spec
=============================================================================
