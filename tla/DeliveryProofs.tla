---------------------------- MODULE DeliveryProofs ----------------------------
(***************************************************************************)
(* What following a parcel keeps, for any number of polls and webhook      *)
(* messages and any history of the parcel: the rows show the newest report *)
(* and the customer is told of each once, and the order's moves implement  *)
(* Fulfilment.                                                             *)
(***************************************************************************)
EXTENDS Delivery, FiniteSetTheorems, TLAPS

\* What is being applied was read from the parcel's history.
ReadsWereThere ==
  /\ \A p \in Polls : poll[p].pc = "read" =>
       /\ 1 <= poll[p].next /\ poll[p].next <= poll[p].upto
       /\ poll[p].upto <= Len(trail)
  /\ \A h \in Hooks : hook[h] <= Len(trail)
  /\ \A e \in events : e[1] <= Len(trail)
  /\ row.lastAt <= Len(trail)

\* Nobody reports on a parcel the row does not know, and nobody was told of
\* what has not happened.
NothingEarly ==
  /\ ~Known => /\ events = {} /\ row.state \in {"none", "canceled"}
               /\ \A p \in Polls : poll[p].pc = "idle"
               /\ \A h \in Hooks : hook[h] = 0
  /\ carrier = "boxnow" => \A i \in Times : i > Len(trail) => told[i] = 0
  /\ carrier # "boxnow" => \A h \in Hooks : hook[h] = 0

\* A payout is of cash that ACS collected; nobody else books it.
PayoutIsOfCash ==
  /\ payout # "none" =>
       carrier = "acs" /\ cod /\ "delivered" \in Happened
  /\ payout = "read" => order.payment = "PENDING"

\* An order that was delivered was so according to the carrier.
ShownHappened ==
  order.status = "DELIVERED" => "delivered" \in Happened

DInv ==
  ReportsInOrder /\ ReadsWereThere /\ NothingEarly /\ PayoutIsOfCash
    /\ ShownHappened

LEMMA InitDInv ==
  ASSUME Init
  PROVE  DInv
<1>1. DeliveryTypeOK
  BY DeliveryConstants DEF Init, DeliveryTypeOK, Idle, Times, Statuses
<1>2. trail = <<>> /\ Len(trail) = 0 /\ Happened = {}
  BY DEF Init, Happened
<1>3. ReportsInOrder
  BY <1>1, <1>2 DEF Init, ReportsInOrder, RowShowsNewest, ToldOncePerRow
<1>4. ReadsWereThere /\ NothingEarly
  BY <1>2 DEF Init, ReadsWereThere, NothingEarly, Idle, Times
<1> QED
  BY <1>2, <1>3, <1>4 DEF Init, DInv, PayoutIsOfCash, ShownHappened

\* The parcel's history only grows at its end.
LEMMA TrailGrows ==
  ASSUME DeliveryTypeOK, NEW k \in Kinds, trail' = Append(trail, k)
  PROVE  /\ Len(trail') = Len(trail) + 1 /\ trail' \in Seq(Kinds)
         /\ \A i \in 1 .. Len(trail) : trail'[i] = trail[i]
         /\ DOMAIN trail = 1 .. Len(trail)
         /\ DOMAIN trail' = 1 .. Len(trail) + 1
         /\ Happened' = Happened \cup {k}
<1>1. trail \in Seq(Kinds)
  BY DEF DeliveryTypeOK
<1>2. /\ Len(trail') = Len(trail) + 1 /\ trail' \in Seq(Kinds)
      /\ \A i \in 1 .. Len(trail) : trail'[i] = trail[i]
      /\ trail'[Len(trail) + 1] = k
      /\ DOMAIN trail = 1 .. Len(trail)
      /\ DOMAIN trail' = 1 .. Len(trail) + 1
      /\ Len(trail) \in Nat
  BY <1>1
<1>3. Happened' = {trail'[i] : i \in DOMAIN trail'}
  BY DEF Happened
<1>4. Happened' = Happened \cup {k}
  BY <1>2, <1>3 DEF Happened
<1> QED
  BY <1>2, <1>4

LEMMA TrailKept ==
  ASSUME trail' = trail
  PROVE  Happened' = Happened
  BY DEF Happened

\* What a report makes of an order: nothing, or a move ahead that the reported
\* event is ground for; it books cash at a locker, and only with the parcel.
LEMMA ReportMoves ==
  ASSUME DeliveryTypeOK, NEW k \in Kinds
  PROVE  LET o == Reported(order, k) IN
         /\ o \in [status : Statuses,
                   payment : {"PENDING", "COMPLETED", "REFUNDED"}]
         /\ o.payment = order.payment
              \/ (/\ carrier = "boxnow" /\ cod /\ k = "delivered"
                  /\ order.payment = "PENDING" /\ o.payment = "COMPLETED")
         /\ \/ o = order
            \/ /\ o.status \in F!Ahead(order.status)
               /\ o.status = "SHIPPED" => k \in {"moving", "arrived"}
               /\ o.status \in {"DELIVERED", "COMPLETED"} => k = "delivered"
               /\ o.status = "RETURNED" => k \in {"returned", "missing"}
               /\ o.status = "COMPLETED" => o.payment = "COMPLETED"
<1>1. order \in [status : Statuses,
                 payment : {"PENDING", "COMPLETED", "REFUNDED"}]
  BY DEF DeliveryTypeOK
<1> DEFINE to == Target(k)
           from == IF order.status = "PROCESSING"
                        /\ to \in {"DELIVERED", "RETURNED"}
                     THEN "SHIPPED" ELSE order.status
<1>2. /\ to \in {"SHIPPED", "DELIVERED", "RETURNED", "CANCELED", "none"}
      /\ to = "SHIPPED" => k \in {"moving", "arrived"}
      /\ to = "DELIVERED" => k = "delivered"
      /\ to = "RETURNED" => k \in {"returned", "missing"}
  BY DEF Target
<1>3. CASE order.status \in Closed \/ <<from, to>> \notin Transitions
  BY <1>1, <1>3 DEF Reported
<1>4. CASE /\ order.status \notin Closed /\ <<from, to>> \in Transitions
           /\ to # "DELIVERED"
  <2>1. Reported(order, k) = [order EXCEPT !.status = to]
    BY <1>4 DEF Reported
  <2>2. to \in F!Ahead(order.status) /\ to # "COMPLETED" /\ to \in Statuses
    BY <1>1, <1>2, <1>4 DEF Transitions, Closed, F!Ahead, Statuses
  <2> HIDE DEF to
  <2> QED
    BY <1>1, <1>2, <1>4, <2>1, <2>2
<1>5. CASE /\ order.status \notin Closed /\ <<from, to>> \in Transitions
           /\ to = "DELIVERED"
  <2>1. Reported(order, k) =
          Completed(PaidAtLocker([order EXCEPT !.status = "DELIVERED"]))
    BY <1>5 DEF Reported
  <2>2. {"DELIVERED", "COMPLETED"} \subseteq F!Ahead(order.status)
    BY <1>1, <1>5 DEF Transitions, Closed, F!Ahead, Statuses
  <2>3. k = "delivered"
    BY <1>2, <1>5
  <2> HIDE DEF to
  <2> QED
    BY <1>1, <2>1, <2>2, <2>3 DEF Completed, PaidAtLocker, Statuses
<1> QED
  BY <1>3, <1>4, <1>5

\* The events of a time, and one more of them.
LEMMA OneMoreEvent ==
  ASSUME DeliveryTypeOK, NEW i \in Times, NEW by \in {"hook", "poll"},
         <<i, by>> \notin events, events' = events \cup {<<i, by>>},
         NEW j \in Times
  PROVE  LET Of(E) == {e \in E : e[1] = j} IN
         /\ Cardinality(Of(events)) \in Nat
         /\ Cardinality(Of(events')) =
              Cardinality(Of(events)) + (IF j = i THEN 1 ELSE 0)
<1> DEFINE Of(E) == {e \in E : e[1] = j}
<1>1. IsFiniteSet({<<j, "hook">>, <<j, "poll">>})
  <2>1. IsFiniteSet({<<j, "hook">>})
    BY FS_Singleton
  <2>2. {<<j, "hook">>, <<j, "poll">>} = {<<j, "hook">>} \cup {<<j, "poll">>}
    OBVIOUS
  <2> QED
    BY <2>1, <2>2, FS_AddElement, ZenonT(60)
<1>2. Of(events) \subseteq {<<j, "hook">>, <<j, "poll">>}
  BY DEF DeliveryTypeOK
<1>3. IsFiniteSet(Of(events)) /\ Cardinality(Of(events)) \in Nat
  BY <1>1, <1>2, FS_Subset, FS_CardinalityType
<1>4. CASE j = i
  <2>1. Of(events') = Of(events) \cup {<<i, by>>} /\ <<i, by>> \notin Of(events)
    BY <1>4
  <2> QED
    BY <1>3, <1>4, <2>1, FS_AddElement
<1>5. CASE j # i
  <2>0. <<i, by>>[1] # j
    BY <1>5
  <2>1. Of(events') = Of(events)
    BY <2>0
  <2>2. Cardinality(Of(events')) = Cardinality(Of(events))
    BY <2>1
  <2> HIDE DEF Of
  <2>3. Cardinality(Of(events')) = Cardinality(Of(events)) + 0
    BY <1>3, <2>2
  <2> QED
    BY <1>3, <1>5, <2>3 DEF Of
<1> QED
  BY <1>4, <1>5

\* The order hears of an event of the history, and of nothing else.
LEMMA HearsKeeps ==
  ASSUME DInv, NEW i \in DOMAIN trail, order' = Reported(order, trail[i]),
         UNCHANGED <<carrier, cod, trail, payout>>
  PROVE  /\ order' \in [status : Statuses,
                        payment : {"PENDING", "COMPLETED", "REFUNDED"}]
         /\ PayoutIsOfCash' /\ ShownHappened'
<1>1. DeliveryTypeOK /\ trail[i] \in Kinds /\ trail[i] \in Happened
  BY DEF DInv, ReportsInOrder, DeliveryTypeOK, Happened
<1>2. Happened' = Happened
  BY TrailKept
<1> DEFINE o == Reported(order, trail[i])
<1>3. /\ o \in [status : Statuses,
                payment : {"PENDING", "COMPLETED", "REFUNDED"}]
      /\ o.payment = order.payment \/ carrier = "boxnow"
      /\ o.status = "DELIVERED" =>
           order.status = "DELIVERED" \/ trail[i] = "delivered"
  BY <1>1, ReportMoves
<1>4. o = order'
  OBVIOUS
<1> HIDE DEF o
<1>5. PayoutIsOfCash'
  BY <1>2, <1>3, <1>4 DEF DInv, PayoutIsOfCash
<1>6. ShownHappened'
  BY <1>1, <1>2, <1>3, <1>4 DEF DInv, ShownHappened
<1> QED
  BY <1>3, <1>4, <1>5, <1>6

LEMMA RecordsKeeps ==
  ASSUME DInv, carrier = "boxnow", Known,
         NEW i \in DOMAIN trail, NEW by \in {"hook", "poll"},
         <<i, by>> \notin events, Records(i, by),
         UNCHANGED <<fixed, trail, mint, payout>>
  PROVE  /\ events' \subseteq Times \X {"hook", "poll"}
         /\ row' \in [state : Kinds \cup {"none", "new"},
                      lastAt : 0 .. MaxTrail]
         /\ row'.lastAt <= Len(trail)
         /\ \A e \in events' : e[1] <= Len(trail)
         /\ order' \in [status : Statuses,
                        payment : {"PENDING", "COMPLETED", "REFUNDED"}]
         /\ told' \in [Times -> Nat]
         /\ \A j \in Times : j > Len(trail) => told'[j] = 0
         /\ RowShowsNewest' /\ ToldOncePerRow'
         /\ PayoutIsOfCash' /\ ShownHappened'
<1>1. DeliveryTypeOK /\ ReadsWereThere /\ NothingEarly /\ RowShowsNewest
        /\ ToldOncePerRow
  BY DEF DInv, ReportsInOrder
<1>2. /\ trail \in Seq(Kinds) /\ Len(trail) \in 0 .. MaxTrail
      /\ DOMAIN trail = 1 .. Len(trail) /\ trail[i] \in Kinds
      /\ i \in 1 .. Len(trail) /\ i \in Times
      /\ Len(trail) <= MaxTrail /\ MaxTrail \in Nat /\ Len(trail) \in Nat
  BY <1>1, DeliveryConstants DEF DeliveryTypeOK, Times
<1>3. events' = events \cup {<<i, by>>} /\ row' = Newest(i)
  BY DEF Records
<1>4. /\ row \in [state : Kinds \cup {"none", "new"}, lastAt : 0 .. MaxTrail]
      /\ events \subseteq Times \X {"hook", "poll"}
      /\ told \in [Times -> Nat] /\ row.lastAt <= Len(trail)
      /\ row.lastAt \in Nat
  BY <1>1 DEF DeliveryTypeOK, ReadsWereThere
<1>5. events' \subseteq Times \X {"hook", "poll"}
  BY <1>2, <1>3, <1>4
<1>6. \A e \in events' : e[1] <= Len(trail)
  BY <1>1, <1>2, <1>3 DEF ReadsWereThere
<1>7. /\ row' \in [state : Kinds \cup {"none", "new"}, lastAt : 0 .. MaxTrail]
      /\ row'.lastAt <= Len(trail)
      /\ i <= row'.lastAt /\ row.lastAt <= row'.lastAt
      /\ row' = row \/ (row'.lastAt = i /\ row'.state = trail[i])
  BY <1>2, <1>3, <1>4 DEF Newest, Times
<1>8. RowShowsNewest'
  <2>1. \A e \in events' : e[1] <= row'.lastAt
    <3> TAKE e \in events'
    <3>1. CASE e \in events
      <4>1. e[1] <= row.lastAt /\ e[1] \in Nat
        BY <1>1, <1>4, <3>1 DEF RowShowsNewest, Times
      <4> QED
        BY <1>4, <1>7, <4>1
    <3>2. CASE e = <<i, by>>
      BY <1>7, <3>2
    <3> QED
      BY <1>3, <3>1, <3>2
  <2>2. ASSUME row'.state \notin {"none", "new", "canceled"}
        PROVE  /\ {<<row'.lastAt, "hook">>, <<row'.lastAt, "poll">>}
                    \cap events' # {}
               /\ row'.state = trail[row'.lastAt]
    <3>1. CASE row' = row
      <4>1. {<<row.lastAt, "hook">>, <<row.lastAt, "poll">>} \cap events # {}
            /\ row.state = trail[row.lastAt]
        BY <1>1, <2>2, <3>1 DEF RowShowsNewest, Seen
      <4> QED
        BY <1>3, <3>1, <4>1
    <3>2. CASE row'.lastAt = i /\ row'.state = trail[i]
      BY <1>3, <3>2
    <3> QED
      BY <1>7, <3>1, <3>2
  <2> QED
    BY <2>1, <2>2 DEF RowShowsNewest, Seen
<1>9. told' = IF trail[i] \in {"arrived", "delivered"}
                THEN [told EXCEPT ![i] = told[i] + 1] ELSE told
  BY DEF Records
<1>10. told' \in [Times -> Nat]
  BY <1>2, <1>4, <1>9
<1>11. \A j \in Times : j > Len(trail) => told'[j] = 0
  <2>1. \A j \in Times : j > Len(trail) => told[j] = 0 /\ j # i
    BY <1>1, <1>2 DEF NothingEarly
  <2> QED
    BY <1>4, <1>9, <2>1
<1>12. ToldOncePerRow'
  <2> SUFFICES ASSUME NEW j \in DOMAIN trail,
                      trail[j] \in {"arrived", "delivered"}
               PROVE  told'[j] = Cardinality({e \in events' : e[1] = j})
    BY DEF ToldOncePerRow
  <2>1. j \in Times
    BY <1>2 DEF Times
  <2>2. told[j] = Cardinality({e \in events : e[1] = j})
    BY <1>1 DEF ToldOncePerRow
  <2>3. Cardinality({e \in events' : e[1] = j}) =
          told[j] + (IF j = i THEN 1 ELSE 0)
    BY <1>1, <1>2, <1>3, <2>1, <2>2, OneMoreEvent, ZenonT(60)
  <2>4. told'[j] = IF j = i THEN told[j] + 1 ELSE told[j]
    BY <1>2, <1>4, <1>9, <2>1
  <2>5. told[j] \in Nat
    BY <1>4, <2>1
  <2> QED
    BY <2>3, <2>4, <2>5
<1>13. /\ order' \in [status : Statuses,
                      payment : {"PENDING", "COMPLETED", "REFUNDED"}]
       /\ PayoutIsOfCash' /\ ShownHappened'
  <2>1. order' = Reported(order, trail[i])
    BY DEF Records
  <2> QED
    BY <2>1, HearsKeeps DEF fixed
<1> QED
  BY <1>5, <1>6, <1>7, <1>8, <1>10, <1>11, <1>12, <1>13

\* The parts of DInv about reports do not move with the order alone.
LEMMA ReportsStay ==
  ASSUME DInv, UNCHANGED <<carrier, trail, row, events, told>>
  PROVE  RowShowsNewest' /\ ToldOncePerRow' /\ Happened' = Happened
  BY DEF DInv, ReportsInOrder, RowShowsNewest, ToldOncePerRow, Seen, Happened

\* An event is added to the parcel's history, and the row perhaps closed.
LEMMA GrowthKeeps ==
  ASSUME DInv, NEW k \in Kinds, trail' = Append(trail, k),
         Len(trail) < MaxTrail,
         UNCHANGED <<fixed, mint, events, told, poll, hook, payout>>,
         order' \in {order, [order EXCEPT !.status = "CANCELED"]},
         row' \in {row, [row EXCEPT !.state = "canceled"]},
         DeliveryTypeOK'
  PROVE  DInv'
<1>1. DeliveryTypeOK /\ ReadsWereThere /\ NothingEarly /\ RowShowsNewest
        /\ ToldOncePerRow /\ PayoutIsOfCash /\ ShownHappened
  BY DEF DInv, ReportsInOrder
<1>2. /\ Len(trail') = Len(trail) + 1 /\ trail' \in Seq(Kinds)
      /\ \A i \in 1 .. Len(trail) : trail'[i] = trail[i]
      /\ DOMAIN trail = 1 .. Len(trail)
      /\ DOMAIN trail' = 1 .. Len(trail) + 1
      /\ Happened' = Happened \cup {k}
  BY <1>1, TrailGrows
<1>3. /\ Len(trail) \in Nat /\ MaxTrail \in Nat
      /\ row \in [state : Kinds \cup {"none", "new"}, lastAt : 0 .. MaxTrail]
      /\ order \in [status : Statuses,
                    payment : {"PENDING", "COMPLETED", "REFUNDED"}]
      /\ events \subseteq Times \X {"hook", "poll"}
      /\ poll \in [Polls -> [pc : {"idle", "read"}, next : 1 .. MaxTrail + 1,
                             upto : 0 .. MaxTrail]]
      /\ hook \in [Hooks -> 0 .. MaxTrail]
  BY <1>1, DeliveryConstants DEF DeliveryTypeOK
<1>4. row'.lastAt = row.lastAt /\ (row'.state = row.state \/ row'.state = "canceled")
  BY <1>3
<1>5. ReadsWereThere'
  <2>1. \A p \in Polls : poll[p].pc = "read" =>
          /\ 1 <= poll[p].next /\ poll[p].next <= poll[p].upto
          /\ poll[p].upto <= Len(trail) + 1
    BY <1>1, <1>3 DEF ReadsWereThere
  <2>2. \A h \in Hooks : hook[h] <= Len(trail) + 1
    BY <1>1, <1>3 DEF ReadsWereThere
  <2>3. \A e \in events : e[1] <= Len(trail) + 1
    BY <1>1, <1>3 DEF ReadsWereThere, Times
  <2>4. row.lastAt <= Len(trail) + 1
    BY <1>1, <1>3 DEF ReadsWereThere
  <2> QED
    BY <1>2, <1>4, <2>1, <2>2, <2>3, <2>4 DEF ReadsWereThere
<1>6. NothingEarly'
  <2>1. \A i \in Times : i > Len(trail) + 1 => i > Len(trail)
    BY <1>3 DEF Times
  <2> QED
    BY <1>1, <1>2, <1>4, <2>1 DEF NothingEarly, Known, fixed
<1>7. RowShowsNewest'
  <2> SUFFICES ASSUME carrier = "boxnow"
               PROVE  /\ \A e \in events : e[1] <= row.lastAt
                      /\ row'.state \notin {"none", "new", "canceled"} =>
                           Seen(row.lastAt)' /\ row'.state = trail'[row.lastAt]
    BY <1>4 DEF RowShowsNewest, fixed
  <2>1. \A e \in events : e[1] <= row.lastAt
    BY <1>1 DEF RowShowsNewest
  <2>2. ASSUME row'.state \notin {"none", "new", "canceled"}
        PROVE  Seen(row.lastAt)' /\ row'.state = trail'[row.lastAt]
    <3>1. row'.state = row.state
      BY <1>4, <2>2
    <3>2. Seen(row.lastAt) /\ row.state = trail[row.lastAt]
      BY <1>1, <2>2, <3>1 DEF RowShowsNewest
    <3>3. row.lastAt \in 1 .. Len(trail)
      <4>1. row.lastAt <= Len(trail)
        BY <1>1 DEF ReadsWereThere
      <4>2. row.lastAt \in Times
        BY <1>3, <3>2 DEF Seen
      <4> QED
        BY <1>3, <4>1, <4>2 DEF Times
    <3>4. {<<row'.lastAt, "hook">>, <<row'.lastAt, "poll">>} \cap events' # {}
      BY <1>4, <3>2 DEF Seen
    <3> QED
      BY <1>2, <1>4, <3>1, <3>2, <3>3, <3>4 DEF Seen
  <2> QED
    BY <2>1, <2>2
<1>8. ToldOncePerRow'
  <2> SUFFICES ASSUME carrier = "boxnow", NEW i \in DOMAIN trail',
                      trail'[i] \in {"arrived", "delivered"}
               PROVE  told[i] = Cardinality({e \in events : e[1] = i})
    BY DEF ToldOncePerRow, fixed
  <2>1. CASE i \in 1 .. Len(trail)
    BY <1>1, <1>2, <2>1 DEF ToldOncePerRow
  <2>2. CASE i = Len(trail) + 1
    <3>1. i \in Times /\ i > Len(trail)
      BY <1>3, <2>2 DEF Times
    <3>2. told[i] = 0
      BY <1>1, <3>1 DEF NothingEarly
    <3>3. {e \in events : e[1] = i} = {}
      BY <1>1, <1>3, <3>1 DEF ReadsWereThere, Times
    <3> QED
      BY <3>2, <3>3, FS_EmptySet
  <2> QED
    BY <1>2, <1>3, <2>1, <2>2
<1>9. PayoutIsOfCash'
  BY <1>1, <1>2, <1>3 DEF PayoutIsOfCash, fixed
<1>10. ShownHappened'
  BY <1>1, <1>2, <1>3 DEF ShownHappened
<1> QED
  BY <1>5, <1>6, <1>7, <1>8, <1>9, <1>10 DEF DInv, ReportsInOrder

LEMMA EventKeeps ==
  ASSUME DInv, carrier = "boxnow", Known,
         NEW i \in DOMAIN trail, NEW by \in {"hook", "poll"},
         \/ UNCHANGED <<events, row, order, told>>
         \/ <<i, by>> \notin events /\ Records(i, by),
         UNCHANGED <<fixed, trail, mint, payout>>
  PROVE  /\ events' \subseteq Times \X {"hook", "poll"}
         /\ row' \in [state : Kinds \cup {"none", "new"},
                      lastAt : 0 .. MaxTrail]
         /\ row'.lastAt <= Len(trail)
         /\ \A e \in events' : e[1] <= Len(trail)
         /\ order' \in [status : Statuses,
                        payment : {"PENDING", "COMPLETED", "REFUNDED"}]
         /\ told' \in [Times -> Nat]
         /\ \A j \in Times : j > Len(trail) => told'[j] = 0
         /\ RowShowsNewest' /\ ToldOncePerRow'
         /\ PayoutIsOfCash' /\ ShownHappened'
<1>1. CASE UNCHANGED <<events, row, order, told>>
  <2>1. UNCHANGED <<carrier, cod, trail, payout>>
    BY DEF fixed
  <2>2. RowShowsNewest' /\ ToldOncePerRow' /\ Happened' = Happened
    BY <1>1, <2>1, ReportsStay
  <2>3. PayoutIsOfCash' /\ ShownHappened'
    BY <1>1, <2>1, <2>2 DEF DInv, PayoutIsOfCash, ShownHappened
  <2> QED
    BY <1>1, <2>1, <2>2, <2>3
    DEF DInv, ReportsInOrder, DeliveryTypeOK, ReadsWereThere, NothingEarly
<1>2. CASE <<i, by>> \notin events /\ Records(i, by)
  BY <1>2, RecordsKeeps
<1> QED
  BY <1>1, <1>2

LEMMA NextKeepsDInv ==
  ASSUME DInv, Next
  PROVE  DInv'
<1>0. DeliveryTypeOK /\ ReadsWereThere /\ NothingEarly /\ RowShowsNewest
        /\ ToldOncePerRow /\ PayoutIsOfCash /\ ShownHappened
  BY DEF DInv, ReportsInOrder
<1>1. /\ trail \in Seq(Kinds) /\ Len(trail) \in Nat /\ Len(trail) <= MaxTrail
      /\ MaxTrail \in Nat /\ DOMAIN trail = 1 .. Len(trail)
      /\ MaxCrashes \in Nat /\ crashes \in 0 .. MaxCrashes
      /\ row \in [state : Kinds \cup {"none", "new"}, lastAt : 0 .. MaxTrail]
      /\ order \in [status : Statuses,
                    payment : {"PENDING", "COMPLETED", "REFUNDED"}]
      /\ poll \in [Polls -> [pc : {"idle", "read"}, next : 1 .. MaxTrail + 1,
                             upto : 0 .. MaxTrail]]
      /\ hook \in [Hooks -> 0 .. MaxTrail]
      /\ told \in [Times -> Nat]
  BY <1>0, DeliveryConstants DEF DeliveryTypeOK
<1>2. ASSUME NEW k \in Kinds, Happens(k)
      PROVE  DInv'
  <2>1. trail' = Append(trail, k)
    BY <1>2 DEF Happens
  <2>2. trail' \in Seq(Kinds) /\ Len(trail') = Len(trail) + 1
    BY <1>0, <2>1, TrailGrows
  <2>3. DeliveryTypeOK'
    BY <1>0, <1>1, <1>2, <2>2 DEF DeliveryTypeOK, Happens, fixed
  <2> QED
    BY <1>2, <2>1, <2>3, GrowthKeeps DEF Happens, fixed
<1>3. CASE MintSaves
  <2>1. /\ row' = [state |-> "new",
                   lastAt |-> IF carrier = "boxnow" THEN Len(trail)
                                                    ELSE row.lastAt]
        /\ order' = order \/ order' = Advanced(order)
        /\ mint' \in {"saved", "done"}
        /\ UNCHANGED <<fixed, trail, events, told, poll, hook, payout, crashes>>
    BY <1>3 DEF MintSaves
  <2>2. ~Known /\ events = {}
    BY <1>0, <1>3 DEF MintSaves, Known, NothingEarly
  <2>3. /\ order' \in [status : Statuses,
                       payment : {"PENDING", "COMPLETED", "REFUNDED"}]
        /\ order'.payment = order.payment
        /\ order'.status = "DELIVERED" => order.status = "DELIVERED"
    BY <1>1, <2>1 DEF Advanced, Statuses
  <2>4. row' \in [state : Kinds \cup {"none", "new"}, lastAt : 0 .. MaxTrail]
        /\ row'.lastAt <= Len(trail) /\ row'.state = "new"
    <3>1. Len(trail) \in 0 .. MaxTrail /\ row.lastAt \in 0 .. MaxTrail
          /\ row.lastAt <= Len(trail)
      BY <1>0, <1>1 DEF ReadsWereThere
    <3>2. (IF carrier = "boxnow" THEN Len(trail) ELSE row.lastAt) \in 0 .. MaxTrail
      BY <3>1
    <3>3. row'.lastAt = (IF carrier = "boxnow" THEN Len(trail) ELSE row.lastAt)
          /\ row'.state = "new"
      BY <2>1
    <3>4. row' \in [state : Kinds \cup {"none", "new"}, lastAt : 0 .. MaxTrail]
      BY <2>1, <3>2
    <3>5. row'.lastAt <= Len(trail)
      <4>1. CASE carrier = "boxnow"
        BY <1>1, <3>3, <4>1
      <4>2. CASE carrier # "boxnow"
        BY <3>1, <3>3, <4>2
      <4> QED
        BY <4>1, <4>2
    <3> QED
      BY <3>3, <3>4, <3>5
  <2>5. DeliveryTypeOK'
    BY <1>0, <2>1, <2>3, <2>4 DEF DeliveryTypeOK, fixed
  <2>6. RowShowsNewest'
    BY <2>1, <2>2, <2>4 DEF RowShowsNewest
  <2>7. ToldOncePerRow'
    BY <1>0, <2>1 DEF ToldOncePerRow, fixed
  <2>8. ReadsWereThere'
    BY <1>0, <2>1, <2>4 DEF ReadsWereThere
  <2>9. NothingEarly'
    BY <1>0, <2>1 DEF NothingEarly, Known, fixed
  <2>10. Happened' = Happened
    BY <2>1, TrailKept
  <2>11. PayoutIsOfCash'
    BY <1>0, <2>1, <2>3, <2>10 DEF PayoutIsOfCash, fixed
  <2>12. ShownHappened'
    BY <1>0, <2>3, <2>10 DEF ShownHappened
  <2> QED
    BY <2>5, <2>6, <2>7, <2>8, <2>9, <2>11, <2>12
    DEF DInv, ReportsInOrder, PayoutIsOfCash, ShownHappened, fixed
<1>4. CASE MintAdvances
  <2>1. /\ order' \in [status : Statuses,
                       payment : {"PENDING", "COMPLETED", "REFUNDED"}]
        /\ order'.payment = order.payment
        /\ order'.status = "DELIVERED" => order.status = "DELIVERED"
    BY <1>1, <1>4 DEF MintAdvances, Advanced, Statuses
  <2>2. RowShowsNewest' /\ ToldOncePerRow' /\ Happened' = Happened
    BY <1>4, ReportsStay DEF MintAdvances, fixed
  <2>3. DeliveryTypeOK'
    BY <1>0, <1>4, <2>1 DEF DeliveryTypeOK, MintAdvances, fixed
  <2>4. ReadsWereThere' /\ NothingEarly'
    BY <1>0, <1>4 DEF ReadsWereThere, NothingEarly, Known, MintAdvances, fixed
  <2> QED
    BY <1>0, <1>4, <2>1, <2>2, <2>3, <2>4
    DEF DInv, ReportsInOrder, PayoutIsOfCash, ShownHappened, MintAdvances, fixed
<1>5. CASE MintCut
  <2>1. RowShowsNewest' /\ ToldOncePerRow' /\ Happened' = Happened
    BY <1>5, ReportsStay DEF MintCut, fixed
  <2>2. DeliveryTypeOK'
    BY <1>0, <1>1, <1>5 DEF DeliveryTypeOK, MintCut, fixed
  <2>3. ReadsWereThere' /\ NothingEarly'
    BY <1>0, <1>5 DEF ReadsWereThere, NothingEarly, Known, MintCut, fixed
  <2> QED
    BY <1>0, <1>5, <2>1, <2>2, <2>3
    DEF DInv, ReportsInOrder, PayoutIsOfCash, ShownHappened, MintCut, fixed
<1>6. ASSUME NEW p \in Polls, PollReads(p)
      PROVE  DInv'
  <2>1. Len(trail) # 0
    BY <1>1, <1>6 DEF PollReads
  <2>2. poll' = [poll EXCEPT ![p] =
                   [pc |-> "read", next |-> 1, upto |-> Len(trail)]]
    BY <1>6 DEF PollReads
  <2>3. /\ poll' \in [Polls -> [pc : {"idle", "read"}, next : 1 .. MaxTrail + 1,
                                upto : 0 .. MaxTrail]]
        /\ \A q \in Polls : poll'[q] = IF q = p
             THEN [pc |-> "read", next |-> 1, upto |-> Len(trail)]
             ELSE poll[q]
    BY <1>1, <2>2
  <2>4. RowShowsNewest' /\ ToldOncePerRow' /\ Happened' = Happened
    BY <1>6, ReportsStay DEF PollReads, fixed
  <2>5. DeliveryTypeOK'
    BY <1>0, <1>6, <2>3 DEF DeliveryTypeOK, PollReads, fixed
  <2>6. ReadsWereThere'
    <3>1. \A q \in Polls : poll'[q].pc = "read" =>
            /\ 1 <= poll'[q].next /\ poll'[q].next <= poll'[q].upto
            /\ poll'[q].upto <= Len(trail)
      BY <1>0, <1>1, <2>1, <2>3 DEF ReadsWereThere
    <3> QED
      BY <1>0, <1>6, <3>1 DEF ReadsWereThere, PollReads
  <2>7. NothingEarly'
    BY <1>0, <1>6 DEF NothingEarly, Known, PollReads, fixed
  <2> QED
    BY <1>0, <1>6, <2>4, <2>5, <2>6, <2>7
    DEF DInv, ReportsInOrder, PayoutIsOfCash, ShownHappened, PollReads, fixed
<1>7. ASSUME NEW p \in Polls, PollDies(p)
      PROVE  DInv'
  <2>1. /\ poll' \in [Polls -> [pc : {"idle", "read"}, next : 1 .. MaxTrail + 1,
                                upto : 0 .. MaxTrail]]
        /\ \A q \in Polls : poll'[q] = IF q = p THEN Idle ELSE poll[q]
        /\ Idle.pc = "idle"
    BY <1>1, <1>7 DEF PollDies, Idle
  <2>2. RowShowsNewest' /\ ToldOncePerRow' /\ Happened' = Happened
    BY <1>7, ReportsStay DEF PollDies, fixed
  <2>3. DeliveryTypeOK'
    BY <1>0, <1>1, <1>7, <2>1 DEF DeliveryTypeOK, PollDies, fixed
  <2>4. ReadsWereThere' /\ NothingEarly'
    BY <1>0, <1>7, <2>1 DEF ReadsWereThere, NothingEarly, Known, PollDies, fixed
  <2> QED
    BY <1>0, <1>7, <2>2, <2>3, <2>4
    DEF DInv, ReportsInOrder, PayoutIsOfCash, ShownHappened, PollDies, fixed
<1>8. ASSUME NEW p \in Polls, AcsPollApplies(p)
      PROVE  DInv'
  <2> DEFINE at == poll[p].upto
             state == FromSummary(trail[at])
  <2>1. /\ carrier = "acs" /\ poll[p].pc = "read"
        /\ row' = [state |-> state,
                   lastAt |-> IF at > row.lastAt THEN at ELSE row.lastAt]
        /\ order' = IF state = row.state THEN order ELSE Reported(order, state)
        /\ told' = IF state = "arrived" /\ row.state # "arrived"
                     THEN [told EXCEPT ![at] = told[at] + 1] ELSE told
        /\ poll' = [poll EXCEPT ![p] = Idle]
        /\ UNCHANGED <<fixed, trail, mint, events, hook, payout, crashes>>
    BY <1>8 DEF AcsPollApplies
  <2>2. at \in 1 .. Len(trail) /\ trail[at] \in Kinds /\ at \in Times
    BY <1>0, <1>1, <2>1 DEF ReadsWereThere, Times
  <2>3. state = row.state \/ state = trail[at]
    BY DEF FromSummary
  <2>4. state \in Kinds
    BY <1>1, <2>2 DEF FromSummary, Kinds
  <2> HIDE DEF at, state
  <2>5. /\ order' \in [status : Statuses,
                       payment : {"PENDING", "COMPLETED", "REFUNDED"}]
        /\ PayoutIsOfCash' /\ ShownHappened'
    <3>1. CASE state = row.state
      <4>1. Happened' = Happened
        BY <2>1, TrailKept
      <4> QED
        BY <1>0, <1>1, <2>1, <3>1, <4>1
        DEF PayoutIsOfCash, ShownHappened, fixed
    <3>2. CASE state # row.state
      <4>1. order' = Reported(order, trail[at]) /\ at \in DOMAIN trail
        BY <1>1, <2>1, <2>2, <2>3, <3>2
      <4> QED
        BY <2>1, <4>1, HearsKeeps DEF fixed
    <3> QED
      BY <3>1, <3>2
  <2>6. /\ row' \in [state : Kinds \cup {"none", "new"}, lastAt : 0 .. MaxTrail]
        /\ row'.lastAt <= Len(trail)
    <3>1. row.lastAt \in 0 .. MaxTrail /\ row.lastAt <= Len(trail)
      BY <1>0, <1>1 DEF ReadsWereThere
    <3>2. row'.lastAt \in 0 .. MaxTrail /\ row'.lastAt <= Len(trail)
      BY <1>1, <2>1, <2>2, <3>1 DEF Times
    <3> QED
      BY <2>1, <2>4, <3>2
  <2>7. told' \in [Times -> Nat]
    BY <1>1, <2>1, <2>2
  <2>8. /\ poll' \in [Polls -> [pc : {"idle", "read"}, next : 1 .. MaxTrail + 1,
                                upto : 0 .. MaxTrail]]
        /\ \A q \in Polls : poll'[q] = IF q = p THEN Idle ELSE poll[q]
        /\ Idle.pc = "idle"
    BY <1>1, <2>1 DEF Idle
  <2>9. DeliveryTypeOK'
    BY <1>0, <2>1, <2>5, <2>6, <2>7, <2>8 DEF DeliveryTypeOK, fixed
  <2>10. RowShowsNewest' /\ ToldOncePerRow'
    BY <2>1 DEF RowShowsNewest, ToldOncePerRow, fixed
  <2>11. ReadsWereThere'
    BY <1>0, <2>1, <2>6, <2>8 DEF ReadsWereThere
  <2>12. Known
    BY <1>0, <2>1 DEF NothingEarly
  <2>13. NothingEarly'
    BY <1>0, <2>1, <2>12 DEF NothingEarly, Known, fixed
  <2> QED
    BY <2>5, <2>9, <2>10, <2>11, <2>13 DEF DInv, ReportsInOrder
<1>9. ASSUME NEW p \in Polls, BoxNowPollApplies(p)
      PROVE  DInv'
  <2> DEFINE i == poll[p].next
  <2>1. /\ carrier = "boxnow" /\ poll[p].pc = "read"
        /\ IF Seen(i) THEN UNCHANGED <<events, row, order, told>>
                      ELSE Records(i, "poll")
        /\ poll' = [poll EXCEPT ![p] = IF i = poll[p].upto THEN Idle
                                       ELSE [poll[p] EXCEPT !.next = i + 1]]
        /\ UNCHANGED <<fixed, trail, mint, hook, payout, crashes>>
    BY <1>9 DEF BoxNowPollApplies
  <2>2. /\ 1 <= i /\ i <= poll[p].upto /\ poll[p].upto <= Len(trail)
        /\ i \in Nat /\ poll[p].upto \in Nat
    BY <1>0, <1>1, <2>1 DEF ReadsWereThere
  <2>3. i \in DOMAIN trail
    BY <1>1, <2>2
  <2>4. Known
    BY <1>0, <2>1 DEF NothingEarly
  <2>5. /\ poll' \in [Polls -> [pc : {"idle", "read"}, next : 1 .. MaxTrail + 1,
                                upto : 0 .. MaxTrail]]
        /\ \A q \in Polls : poll'[q].pc = "read" =>
             /\ 1 <= poll'[q].next /\ poll'[q].next <= poll'[q].upto
             /\ poll'[q].upto <= Len(trail)
    <3>1. /\ Idle \in [pc : {"idle", "read"}, next : 1 .. MaxTrail + 1,
                       upto : 0 .. MaxTrail]
          /\ Idle.pc = "idle"
      BY <1>1 DEF Idle
    <3>2. CASE i = poll[p].upto
      BY <1>0, <1>1, <2>1, <3>1, <3>2 DEF ReadsWereThere
    <3>3. CASE i # poll[p].upto
      <4>1. i + 1 \in 1 .. MaxTrail + 1 /\ 1 <= i + 1 /\ i + 1 <= poll[p].upto
        BY <1>1, <2>2, <3>3
      <4>2. poll' = [poll EXCEPT ![p] = [poll[p] EXCEPT !.next = i + 1]]
        BY <2>1, <3>3
      <4>3. /\ poll' \in [Polls -> [pc : {"idle", "read"},
                                    next : 1 .. MaxTrail + 1,
                                    upto : 0 .. MaxTrail]]
            /\ poll'[p].next = i + 1 /\ poll'[p].upto = poll[p].upto
            /\ \A q \in Polls : q # p => poll'[q] = poll[q]
        BY <1>1, <4>1, <4>2
      <4> QED
        BY <1>0, <2>2, <4>1, <4>3 DEF ReadsWereThere
    <3> QED
      BY <3>2, <3>3
  <2>6. /\ events' \subseteq Times \X {"hook", "poll"}
        /\ row' \in [state : Kinds \cup {"none", "new"}, lastAt : 0 .. MaxTrail]
        /\ row'.lastAt <= Len(trail)
        /\ \A e \in events' : e[1] <= Len(trail)
        /\ order' \in [status : Statuses,
                       payment : {"PENDING", "COMPLETED", "REFUNDED"}]
        /\ told' \in [Times -> Nat]
        /\ \A j \in Times : j > Len(trail) => told'[j] = 0
        /\ RowShowsNewest' /\ ToldOncePerRow'
        /\ PayoutIsOfCash' /\ ShownHappened'
    <3>1. \/ UNCHANGED <<events, row, order, told>>
          \/ <<i, "poll">> \notin events /\ Records(i, "poll")
      BY <2>1 DEF Seen
    <3>2. UNCHANGED <<fixed, trail, mint, payout>>
      BY <2>1
    <3> HIDE DEF i
    <3> QED
      BY <2>1, <2>3, <2>4, <3>1, <3>2, EventKeeps
  <2>7. DeliveryTypeOK'
    BY <1>0, <2>1, <2>5, <2>6 DEF DeliveryTypeOK, fixed
  <2>8. ReadsWereThere'
    BY <1>0, <2>1, <2>5, <2>6 DEF ReadsWereThere
  <2>9. NothingEarly'
    BY <1>0, <2>1, <2>4, <2>6 DEF NothingEarly, Known, fixed
  <2> QED
    BY <2>6, <2>7, <2>8, <2>9 DEF DInv, ReportsInOrder
<1>10. ASSUME NEW h \in Hooks, NEW i \in Times, HookArrives(h, i)
       PROVE  DInv'
  <2>1. /\ Known /\ i \in 1 .. Len(trail) /\ carrier = "boxnow"
        /\ hook' = [hook EXCEPT ![h] = i]
        /\ UNCHANGED <<fixed, trail, mint, row, order, events, told, poll,
                       payout, crashes>>
    BY <1>1, <1>10 DEF HookArrives
  <2>2. /\ hook' \in [Hooks -> 0 .. MaxTrail]
        /\ \A g \in Hooks : hook'[g] <= Len(trail)
    <3>1. i \in 0 .. MaxTrail /\ i <= Len(trail)
      BY <1>1, <2>1
    <3>2. \A g \in Hooks : hook[g] <= Len(trail)
      BY <1>0 DEF ReadsWereThere
    <3> QED
      BY <1>1, <2>1, <3>1, <3>2
  <2>3. RowShowsNewest' /\ ToldOncePerRow' /\ Happened' = Happened
    BY <2>1, ReportsStay DEF fixed
  <2>4. DeliveryTypeOK'
    BY <1>0, <2>1, <2>2 DEF DeliveryTypeOK, fixed
  <2>5. ReadsWereThere'
    BY <1>0, <2>1, <2>2 DEF ReadsWereThere
  <2>6. NothingEarly' /\ PayoutIsOfCash' /\ ShownHappened'
    BY <1>0, <2>1, <2>3
    DEF NothingEarly, Known, PayoutIsOfCash, ShownHappened, fixed
  <2> QED
    BY <2>3, <2>4, <2>5, <2>6 DEF DInv, ReportsInOrder
<1>11. ASSUME NEW h \in Hooks, HookApplies(h)
       PROVE  DInv'
  <2> DEFINE i == hook[h]
  <2>1. /\ i # 0
        /\ IF <<i, "hook">> \in events
             THEN UNCHANGED <<events, row, order, told>>
             ELSE Records(i, "hook")
        /\ hook' = [hook EXCEPT ![h] = 0]
        /\ UNCHANGED <<fixed, trail, mint, poll, payout, crashes>>
    BY <1>11 DEF HookApplies
  <2>2. Known /\ carrier = "boxnow"
    BY <1>0, <2>1 DEF NothingEarly
  <2>3. i \in DOMAIN trail
    BY <1>0, <1>1, <2>1 DEF ReadsWereThere
  <2>4. /\ events' \subseteq Times \X {"hook", "poll"}
        /\ row' \in [state : Kinds \cup {"none", "new"}, lastAt : 0 .. MaxTrail]
        /\ row'.lastAt <= Len(trail)
        /\ \A e \in events' : e[1] <= Len(trail)
        /\ order' \in [status : Statuses,
                       payment : {"PENDING", "COMPLETED", "REFUNDED"}]
        /\ told' \in [Times -> Nat]
        /\ \A j \in Times : j > Len(trail) => told'[j] = 0
        /\ RowShowsNewest' /\ ToldOncePerRow'
        /\ PayoutIsOfCash' /\ ShownHappened'
    <3>1. \/ UNCHANGED <<events, row, order, told>>
          \/ <<i, "hook">> \notin events /\ Records(i, "hook")
      BY <2>1
    <3>2. UNCHANGED <<fixed, trail, mint, payout>>
      BY <2>1
    <3> HIDE DEF i
    <3> QED
      BY <2>2, <2>3, <3>1, <3>2, EventKeeps
  <2>5. /\ hook' \in [Hooks -> 0 .. MaxTrail]
        /\ \A g \in Hooks : hook'[g] <= Len(trail)
    <3>1. \A g \in Hooks : hook[g] <= Len(trail)
      BY <1>0 DEF ReadsWereThere
    <3> QED
      BY <1>1, <2>1, <3>1
  <2>6. DeliveryTypeOK'
    BY <1>0, <2>1, <2>4, <2>5 DEF DeliveryTypeOK, fixed
  <2>7. ReadsWereThere'
    BY <1>0, <2>1, <2>4, <2>5 DEF ReadsWereThere
  <2>8. NothingEarly'
    BY <2>1, <2>2, <2>4 DEF NothingEarly, Known, fixed
  <2> QED
    BY <2>4, <2>6, <2>7, <2>8 DEF DInv, ReportsInOrder
<1>12. CASE Remits
  <2>1. RowShowsNewest' /\ ToldOncePerRow' /\ Happened' = Happened
    BY <1>12, ReportsStay DEF Remits, fixed
  <2>2. DeliveryTypeOK'
    BY <1>0, <1>12 DEF DeliveryTypeOK, Remits, fixed
  <2>3. ReadsWereThere' /\ NothingEarly' /\ PayoutIsOfCash' /\ ShownHappened'
    BY <1>0, <1>12, <2>1
    DEF ReadsWereThere, NothingEarly, Known, PayoutIsOfCash, ShownHappened,
        Remits, fixed
  <2> QED
    BY <2>1, <2>2, <2>3 DEF DInv, ReportsInOrder
<1>13. CASE PayoutReads
  <2>1. RowShowsNewest' /\ ToldOncePerRow' /\ Happened' = Happened
    BY <1>13, ReportsStay DEF PayoutReads, fixed
  <2>2. DeliveryTypeOK'
    BY <1>0, <1>13 DEF DeliveryTypeOK, PayoutReads, fixed
  <2>3. ReadsWereThere' /\ NothingEarly' /\ PayoutIsOfCash' /\ ShownHappened'
    BY <1>0, <1>13, <2>1
    DEF ReadsWereThere, NothingEarly, Known, PayoutIsOfCash, ShownHappened,
        PayoutReads, fixed
  <2> QED
    BY <2>1, <2>2, <2>3 DEF DInv, ReportsInOrder
<1>14. CASE PayoutMarks
  <2>1. RowShowsNewest' /\ ToldOncePerRow' /\ Happened' = Happened
    BY <1>14, ReportsStay DEF PayoutMarks, fixed
  <2>2. /\ order' \in [status : Statuses,
                       payment : {"PENDING", "COMPLETED", "REFUNDED"}]
        /\ order'.status = order.status
    BY <1>1, <1>14 DEF PayoutMarks
  <2>3. DeliveryTypeOK'
    BY <1>0, <1>14, <2>2 DEF DeliveryTypeOK, PayoutMarks, fixed
  <2>4. ReadsWereThere' /\ NothingEarly' /\ PayoutIsOfCash' /\ ShownHappened'
    BY <1>0, <1>14, <2>1, <2>2
    DEF ReadsWereThere, NothingEarly, Known, PayoutIsOfCash, ShownHappened,
        PayoutMarks, fixed
  <2> QED
    BY <2>1, <2>3, <2>4 DEF DInv, ReportsInOrder
<1>15. CASE PayoutAdvances
  <2>1. RowShowsNewest' /\ ToldOncePerRow' /\ Happened' = Happened
    BY <1>15, ReportsStay DEF PayoutAdvances, fixed
  <2>2. /\ order' \in [status : Statuses,
                       payment : {"PENDING", "COMPLETED", "REFUNDED"}]
        /\ order'.status = "DELIVERED" => order.status = "DELIVERED"
    BY <1>1, <1>15 DEF PayoutAdvances, Completed, Statuses
  <2>3. DeliveryTypeOK'
    BY <1>0, <1>15, <2>2 DEF DeliveryTypeOK, PayoutAdvances, fixed
  <2>4. ReadsWereThere' /\ NothingEarly' /\ PayoutIsOfCash' /\ ShownHappened'
    BY <1>0, <1>15, <2>1, <2>2
    DEF ReadsWereThere, NothingEarly, Known, PayoutIsOfCash, ShownHappened,
        PayoutAdvances, fixed
  <2> QED
    BY <2>1, <2>3, <2>4 DEF DInv, ReportsInOrder
<1>16. CASE PayoutDies
  <2>1. RowShowsNewest' /\ ToldOncePerRow' /\ Happened' = Happened
    BY <1>16, ReportsStay DEF PayoutDies, fixed
  <2>2. DeliveryTypeOK'
    BY <1>0, <1>1, <1>16 DEF DeliveryTypeOK, PayoutDies, fixed
  <2>3. ReadsWereThere' /\ NothingEarly' /\ PayoutIsOfCash' /\ ShownHappened'
    BY <1>0, <1>16, <2>1
    DEF ReadsWereThere, NothingEarly, Known, PayoutIsOfCash, ShownHappened,
        PayoutDies, fixed
  <2> QED
    BY <2>1, <2>2, <2>3 DEF DInv, ReportsInOrder
<1>17. CASE OrderCancels
  <2>1. /\ order' = [order EXCEPT !.status = "CANCELED"]
        /\ UNCHANGED <<fixed, mint, events, told, poll, hook, payout, crashes>>
        /\ row' \in {row, [row EXCEPT !.state = "canceled"]}
    BY <1>17 DEF OrderCancels
  <2>2. /\ order' \in [status : Statuses,
                       payment : {"PENDING", "COMPLETED", "REFUNDED"}]
        /\ order'.status = "CANCELED" /\ order'.payment = order.payment
        /\ row' \in [state : Kinds \cup {"none", "new"}, lastAt : 0 .. MaxTrail]
        /\ row'.lastAt = row.lastAt
        /\ row'.state \in {row.state, "canceled"}
    BY <1>1, <2>1 DEF Statuses, Kinds
  <2>3. CASE UNCHANGED trail
    <3>1. DeliveryTypeOK'
      BY <1>0, <2>1, <2>2, <2>3 DEF DeliveryTypeOK, fixed
    <3>2. RowShowsNewest' /\ ToldOncePerRow'
      <4>1. Seen(row.lastAt)' = Seen(row.lastAt)
        BY <2>1, <2>2 DEF Seen
      <4>2. ToldOncePerRow'
        BY <1>0, <2>1, <2>3 DEF ToldOncePerRow, fixed
      <4>3. RowShowsNewest'
        BY <1>0, <2>1, <2>2, <2>3, <4>1 DEF RowShowsNewest, Seen, fixed
      <4> QED
        BY <4>2, <4>3
    <3>3. Happened' = Happened
      BY <2>3, TrailKept
    <3>4. ReadsWereThere' /\ NothingEarly' /\ PayoutIsOfCash' /\ ShownHappened'
      BY <1>0, <2>1, <2>2, <2>3, <3>3
      DEF ReadsWereThere, NothingEarly, Known, PayoutIsOfCash, ShownHappened,
          fixed
    <3> QED
      BY <3>1, <3>2, <3>4 DEF DInv, ReportsInOrder
  <2>4. CASE trail' = Append(trail, "canceled") /\ trail = <<>> /\ MaxTrail > 0
    <3>1. "canceled" \in Kinds /\ Len(trail) < MaxTrail /\ Len(trail) = 0
      BY <1>1, <2>4 DEF Kinds
    <3>2. trail' \in Seq(Kinds) /\ Len(trail') = 1
      BY <1>0, <2>4, <3>1, TrailGrows
    <3>3. DeliveryTypeOK'
      BY <1>0, <1>1, <2>1, <2>2, <2>4, <3>2 DEF DeliveryTypeOK, fixed
    <3> QED
      BY <2>1, <2>4, <3>1, <3>3, GrowthKeeps
  <2> QED
    BY <1>17, <2>3, <2>4 DEF OrderCancels
<1>18. CASE OrderRefunds
  <2>1. RowShowsNewest' /\ ToldOncePerRow' /\ Happened' = Happened
    BY <1>18, ReportsStay DEF OrderRefunds, fixed
  <2>2. /\ order' \in [status : Statuses,
                       payment : {"PENDING", "COMPLETED", "REFUNDED"}]
        /\ order'.status = order.status
    BY <1>1, <1>18 DEF OrderRefunds
  <2>3. DeliveryTypeOK'
    BY <1>0, <1>18, <2>2 DEF DeliveryTypeOK, OrderRefunds, fixed
  <2>4. ReadsWereThere' /\ NothingEarly' /\ PayoutIsOfCash' /\ ShownHappened'
    BY <1>0, <1>18, <2>1, <2>2
    DEF ReadsWereThere, NothingEarly, Known, PayoutIsOfCash, ShownHappened,
        OrderRefunds, fixed
  <2> QED
    BY <2>1, <2>3, <2>4 DEF DInv, ReportsInOrder
<1>19. ASSUME NEW p \in Polls, BeatPolls(p) \/ StaffPolls(p)
       PROVE  DInv'
  BY <1>6, <1>19 DEF BeatPolls, StaffPolls
<1> QED
  BY <1>2, <1>3, <1>4, <1>5, <1>7, <1>8, <1>9, <1>10, <1>11, <1>12, <1>13,
     <1>14, <1>15, <1>16, <1>17, <1>18, <1>19 DEF Next

LEMMA StutterKeepsDInv ==
  ASSUME DInv, UNCHANGED vars
  PROVE  DInv'
<1>1. RowShowsNewest' /\ ToldOncePerRow' /\ Happened' = Happened
  BY ReportsStay DEF vars, fixed
<1>2. DeliveryTypeOK'
  BY DEF DInv, ReportsInOrder, DeliveryTypeOK, vars, fixed
<1>3. ReadsWereThere' /\ NothingEarly' /\ PayoutIsOfCash' /\ ShownHappened'
  BY <1>1
  DEF DInv, ReadsWereThere, NothingEarly, Known, PayoutIsOfCash, ShownHappened,
      vars, fixed
<1> QED
  BY <1>1, <1>2, <1>3 DEF DInv, ReportsInOrder

LEMMA DeliveryInvariant == Spec => []DInv
<1>1. DInv /\ [Next]_vars => DInv'
  BY NextKeepsDInv, StutterKeepsDInv
<1> QED
  BY <1>1, InitDInv, PTL DEF Spec

\* For any number of polls and webhook messages, and any history of the parcel,
\* BoxNow's row shows the newest event it was told of and the customer hears of
\* an event once for each row of it: reports that come late, twice or out of
\* order (apply_webhook_event, sync_shipment_state) are sorted out.
THEOREM DeliveryReportsInOrder == Spec => []ReportsInOrder
<1>1. DInv => ReportsInOrder
  BY DEF DInv
<1> QED
  BY <1>1, DeliveryInvariant, PTL

-----------------------------------------------------------------------------
\* The refinement: what a report makes of the order is a Report of Fulfilment.
LEMMA HearsReports ==
  ASSUME DInv, NEW i \in DOMAIN trail, order' = Reported(order, trail[i]),
         UNCHANGED <<carrier, cod, trail>>
  PROVE  F!FulfilmentNext \/ UNCHANGED F!fulfilmentVars
<1>1. DeliveryTypeOK /\ trail[i] \in Kinds /\ trail[i] \in Happened
  BY DEF DInv, ReportsInOrder, DeliveryTypeOK, Happened
<1>2. Happened' = Happened
  BY TrailKept
<1> DEFINE o == Reported(order, trail[i])
<1>3. /\ o \in [status : Statuses,
                payment : {"PENDING", "COMPLETED", "REFUNDED"}]
      /\ o.payment = order.payment
           \/ (/\ carrier = "boxnow" /\ cod /\ trail[i] = "delivered"
               /\ order.payment = "PENDING" /\ o.payment = "COMPLETED")
      /\ \/ o = order
         \/ /\ o.status \in F!Ahead(order.status)
            /\ o.status = "SHIPPED" => trail[i] \in {"moving", "arrived"}
            /\ o.status \in {"DELIVERED", "COMPLETED"} => trail[i] = "delivered"
            /\ o.status = "RETURNED" => trail[i] \in {"returned", "missing"}
            /\ o.status = "COMPLETED" => o.payment = "COMPLETED"
  BY <1>1, ReportMoves
<1>4. o = order'
  OBVIOUS
<1> HIDE DEF o
<1>5. CASE o = order
  BY <1>2, <1>4, <1>5 DEF F!fulfilmentVars
<1>6. CASE o # order
  <2>1. order'.status \in F!Ahead(order.status) /\ F!Grounds(order'.status)
    BY <1>1, <1>3, <1>4, <1>6 DEF F!Grounds
  <2>2. order'.payment = order.payment
          \/ (F!Collected /\ order'.payment = "COMPLETED")
    BY <1>1, <1>3, <1>4 DEF F!Collected
  <2>3. order'.status = "COMPLETED" => order'.payment = "COMPLETED"
    BY <1>3, <1>4, <1>6
  <2>4. F!Report
    BY <1>2, <2>1, <2>2, <2>3 DEF F!Report
  <2> QED
    BY <2>4 DEF F!FulfilmentNext
<1> QED
  BY <1>5, <1>6

\* So is an order's move to PROCESSING or CANCELED without the parcel.
LEMMA MovesUngrounded ==
  ASSUME NEW to \in {"PROCESSING", "CANCELED"}, to \in F!Ahead(order.status),
         order'.status = to, order'.payment = order.payment, UNCHANGED trail
  PROVE  F!FulfilmentNext
<1>1. Happened' = Happened
  BY TrailKept
<1>2. F!Grounds(to)
  BY DEF F!Grounds
<1>3. F!Report
  BY <1>1, <1>2 DEF F!Report
<1> QED
  BY <1>3 DEF F!FulfilmentNext

LEMMA OrderRests ==
  ASSUME UNCHANGED <<order, trail>>
  PROVE  UNCHANGED F!fulfilmentVars
  BY TrailKept DEF F!fulfilmentVars

LEMMA NextRefines ==
  ASSUME DInv, [Next]_vars
  PROVE  F!FulfilmentNext \/ UNCHANGED F!fulfilmentVars
<1>0. DeliveryTypeOK /\ ReadsWereThere /\ PayoutIsOfCash /\ ShownHappened
  BY DEF DInv, ReportsInOrder
<1>1. /\ order \in [status : Statuses,
                    payment : {"PENDING", "COMPLETED", "REFUNDED"}]
      /\ Len(trail) \in Nat /\ DOMAIN trail = 1 .. Len(trail)
      /\ poll \in [Polls -> [pc : {"idle", "read"}, next : 1 .. MaxTrail + 1,
                             upto : 0 .. MaxTrail]]
      /\ hook \in [Hooks -> 0 .. MaxTrail] /\ MaxTrail \in Nat
  BY <1>0, DeliveryConstants DEF DeliveryTypeOK
<1>2. ASSUME UNCHANGED <<order, trail>>
      PROVE  UNCHANGED F!fulfilmentVars
  BY <1>2, OrderRests
<1>3. ASSUME NEW k \in Kinds, Happens(k)
      PROVE  F!FulfilmentNext
  <2>1. Happened' = Happened \cup {k} /\ UNCHANGED order
    BY <1>0, <1>3, TrailGrows DEF Happens
  <2>2. k \in F!Kinds
    BY DEF F!Kinds, Kinds
  <2>3. F!Happens
    BY <2>1, <2>2 DEF F!Happens
  <2> QED
    BY <2>3 DEF F!FulfilmentNext
<1>4. ASSUME order' \in {order, Advanced(order)}, UNCHANGED trail
      PROVE  F!FulfilmentNext \/ UNCHANGED F!fulfilmentVars
  <2>1. CASE order' = order
    BY <1>2, <1>4, <2>1
  <2>2. CASE order' # order
    <3>1. /\ order.status = "PENDING" /\ order'.status = "PROCESSING"
          /\ order'.payment = order.payment
      BY <1>1, <1>4, <2>2 DEF Advanced
    <3>2. "PROCESSING" \in F!Ahead(order.status)
      BY <3>1 DEF F!Ahead
    <3> QED
      BY <1>4, <3>1, <3>2, MovesUngrounded
  <2> QED
    BY <2>1, <2>2
<1>5. ASSUME NEW p \in Polls, AcsPollApplies(p)
      PROVE  F!FulfilmentNext \/ UNCHANGED F!fulfilmentVars
  <2> DEFINE at == poll[p].upto
             state == FromSummary(trail[at])
  <2>1. /\ poll[p].pc = "read" /\ UNCHANGED <<carrier, cod, trail>>
        /\ order' = IF state = row.state THEN order ELSE Reported(order, state)
    BY <1>5 DEF AcsPollApplies, fixed
  <2>2. at \in DOMAIN trail
    BY <1>0, <1>1, <2>1 DEF ReadsWereThere
  <2>3. state = row.state \/ state = trail[at]
    BY DEF FromSummary
  <2> HIDE DEF at, state
  <2>4. CASE state = row.state
    BY <1>2, <2>1, <2>4
  <2>5. CASE state # row.state
    <3>1. order' = Reported(order, trail[at])
      BY <2>1, <2>3, <2>5
    <3> QED
      BY <2>1, <2>2, <3>1, HearsReports
  <2> QED
    BY <2>4, <2>5
<1>6. ASSUME NEW p \in Polls, BoxNowPollApplies(p)
      PROVE  F!FulfilmentNext \/ UNCHANGED F!fulfilmentVars
  <2> DEFINE i == poll[p].next
  <2>1. /\ poll[p].pc = "read" /\ UNCHANGED <<carrier, cod, trail>>
        /\ UNCHANGED order \/ Records(i, "poll")
    BY <1>6 DEF BoxNowPollApplies, fixed
  <2>2. i \in DOMAIN trail
    BY <1>0, <1>1, <2>1 DEF ReadsWereThere
  <2> HIDE DEF i
  <2>3. CASE Records(i, "poll")
    <3>1. order' = Reported(order, trail[i])
      BY <2>3 DEF Records
    <3> QED
      BY <2>1, <2>2, <3>1, HearsReports
  <2> QED
    BY <1>2, <2>1, <2>3
<1>7. ASSUME NEW h \in Hooks, HookApplies(h)
      PROVE  F!FulfilmentNext \/ UNCHANGED F!fulfilmentVars
  <2> DEFINE i == hook[h]
  <2>1. /\ i # 0 /\ UNCHANGED <<carrier, cod, trail>>
        /\ UNCHANGED order \/ Records(i, "hook")
    BY <1>7 DEF HookApplies, fixed
  <2>2. i \in DOMAIN trail
    BY <1>0, <1>1, <2>1 DEF ReadsWereThere
  <2> HIDE DEF i
  <2>3. CASE Records(i, "hook")
    <3>1. order' = Reported(order, trail[i])
      BY <2>3 DEF Records
    <3> QED
      BY <2>1, <2>2, <3>1, HearsReports
  <2> QED
    BY <1>2, <2>1, <2>3
<1>8. CASE PayoutMarks
  <2>1. Happened' = Happened
    BY <1>8, TrailKept DEF PayoutMarks
  <2>2. /\ order'.status = order.status /\ order'.payment = "COMPLETED"
        /\ order.payment = "PENDING" /\ "delivered" \in Happened
    BY <1>0, <1>1, <1>8 DEF PayoutMarks, PayoutIsOfCash
  <2>3. F!Collect
    BY <2>1, <2>2 DEF F!Collect, F!Collected
  <2> QED
    BY <2>3 DEF F!FulfilmentNext
<1>9. CASE PayoutAdvances
  <2>1. order' = Completed(order) /\ UNCHANGED trail
    BY <1>9 DEF PayoutAdvances
  <2>2. Happened' = Happened
    BY <2>1, TrailKept
  <2>3. CASE order.status = "DELIVERED" /\ order.payment = "COMPLETED"
    <3>1. order'.status = "COMPLETED" /\ order'.payment = order.payment
      BY <1>1, <2>1, <2>3 DEF Completed
    <3>2. "delivered" \in Happened
      BY <1>0, <2>3 DEF ShownHappened
    <3>3. "COMPLETED" \in F!Ahead(order.status) /\ F!Grounds("COMPLETED")
      BY <2>3, <3>2 DEF F!Ahead, F!Grounds
    <3>4. F!Report
      BY <2>2, <2>3, <3>1, <3>3 DEF F!Report
    <3> QED
      BY <3>4 DEF F!FulfilmentNext
  <2>4. CASE ~(order.status = "DELIVERED" /\ order.payment = "COMPLETED")
    <3>1. order' = order
      BY <2>1, <2>4 DEF Completed
    <3> QED
      BY <1>2, <2>1, <3>1
  <2> QED
    BY <2>3, <2>4
<1>10. CASE OrderCancels
  <2>1. /\ order.status \in {"PENDING", "PROCESSING"}
        /\ order'.status = "CANCELED" /\ order'.payment = order.payment
    BY <1>1, <1>10 DEF OrderCancels
  <2>2. CASE UNCHANGED trail
    <3>1. "CANCELED" \in F!Ahead(order.status)
      BY <2>1 DEF F!Ahead
    <3> QED
      BY <2>1, <2>2, <3>1, MovesUngrounded
  <2>3. CASE trail' = Append(trail, "canceled")
    <3>1. Happened' = Happened \cup {"canceled"}
      BY <1>0, <2>3, TrailGrows DEF Kinds
    <3>2. F!Stop
      BY <2>1, <3>1 DEF F!Stop
    <3> QED
      BY <3>2 DEF F!FulfilmentNext
  <2> QED
    BY <1>10, <2>2, <2>3 DEF OrderCancels
<1>11. CASE OrderRefunds
  <2>1. Happened' = Happened
    BY <1>11, TrailKept DEF OrderRefunds
  <2>2. /\ order.payment = "COMPLETED" /\ order'.payment = "REFUNDED"
        /\ order'.status = order.status
    BY <1>1, <1>11 DEF OrderRefunds
  <2>3. F!Refund
    BY <2>1, <2>2 DEF F!Refund
  <2> QED
    BY <2>3 DEF F!FulfilmentNext
<1>12. ASSUME \/ MintCut \/ Remits \/ PayoutReads \/ PayoutDies
              \/ UNCHANGED vars
              \/ \E p \in Polls :
                   BeatPolls(p) \/ StaffPolls(p) \/ PollDies(p)
              \/ \E h \in Hooks, i \in Times : HookArrives(h, i)
       PROVE  UNCHANGED <<order, trail>>
  BY <1>12
  DEF MintCut, Remits, PayoutReads, PayoutDies, vars, BeatPolls, StaffPolls,
      PollReads, PollDies, HookArrives
<1>13. ASSUME MintSaves \/ MintAdvances
       PROVE  order' \in {order, Advanced(order)} /\ UNCHANGED trail
  BY <1>13 DEF MintSaves, MintAdvances
<1> QED
  BY <1>2, <1>3, <1>4, <1>5, <1>6, <1>7, <1>8, <1>9, <1>10, <1>11, <1>12,
     <1>13 DEF Next

LEMMA InitRefines ==
  ASSUME Init
  PROVE  F!FulfilmentInit
<1>1. Happened = {}
  BY DEF Init, Happened
<1> QED
  BY <1>1 DEF Init, F!FulfilmentInit

\* Whichever carrier reports, and however late, often or out of order, the
\* order's status and payment move as Fulfilment allows: never back, never
\* ahead of the parcel, and paid in cash only with the parcel handed over
\* (_apply_order_status_transition, maybe_advance_to_completed).
THEOREM DeliveryImplementsFulfilment == Spec => ImplementsFulfilment
<1>1. DInv /\ [Next]_vars => [F!FulfilmentNext]_F!fulfilmentVars
  BY NextRefines
<1>2. Init => F!FulfilmentInit
  BY InitRefines
<1> QED
  BY <1>1, <1>2, DeliveryInvariant, PTL
  DEF Spec, ImplementsFulfilment, F!FulfilmentSpec
===============================================================================
