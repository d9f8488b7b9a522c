--------------------------- MODULE AcsVoucherProofs ---------------------------
(***************************************************************************)
(* What the vouchers keep, for any number of shipments, vouchers, messages,*)
(* cancellations, pickup lists and faults: no live voucher is unknown to   *)
(* the shop, and, while ACS answers within the claim's TTL, a canceled row *)
(* holds no live voucher; unless staff reset rows for re-minting, an order *)
(* has one parcel, and a linked one is on that list or an earlier one.     *)
(***************************************************************************)
EXTENDS AcsVoucher, FiniteSetTheorems, TLAPS

RowType ==
  [voucher : Vouchers \cup {None}, state : RowStates, minting : Claims,
   canceling : Claims, list : Lists \cup {None}, alerted : BOOLEAN,
   orphans : SUBSET Vouchers, previous : SUBSET Vouchers]
OrderType ==
  [status : {"PENDING", "PROCESSING", "CANCELED"},
   cascade : {"none", "sent", "refused"}]
TaskType ==
  [pc : {"queued", "calling", "minted", "failing", "rejected", "saved", "done",
         "alerted", "dropped"},
   v : Vouchers \cup {None}, tries : 0 .. MaxTries]
CancelType ==
  [pc : {"idle", "calling", "deleted", "failing", "done"},
   s : Shipments \cup {None}, v : Vouchers \cup {None}, whole : BOOLEAN]
IssueType ==
  [pc : {"idle", "calling", "issued"}, of : SUBSET Shipments,
   list : Lists \cup {None}]
AcsType ==
  [at : {"unissued", "live", "deleted"}, of : Shipments \cup {None},
   list : Lists \cup {None}]

LEMMA Types ==
  AcsTypeOK <=>
    /\ row \in [Shipments -> RowType] /\ order \in [Shipments -> OrderType]
    /\ task \in [Tasks -> TaskType] /\ cancel \in [Cancels -> CancelType]
    /\ issue \in [Issuers -> IssueType]
    /\ lock \in [Shipments -> Cancels \cup {None}] /\ issueLock \in BOOLEAN
    /\ acs \in [Vouchers -> AcsType] /\ lists \subseteq Lists
    /\ lost \subseteq Vouchers \cup Lists \cup Shipments
    /\ crashes \in 0 .. MaxCrashes
    /\ digest \subseteq Shipments /\ told \subseteq Shipments
  BY DEF AcsTypeOK, RowType, OrderType, TaskType, CancelType, IssueType, AcsType

LEMMA TypesNext ==
  AcsTypeOK' <=>
    /\ row' \in [Shipments -> RowType] /\ order' \in [Shipments -> OrderType]
    /\ task' \in [Tasks -> TaskType] /\ cancel' \in [Cancels -> CancelType]
    /\ issue' \in [Issuers -> IssueType]
    /\ lock' \in [Shipments -> Cancels \cup {None}] /\ issueLock' \in BOOLEAN
    /\ acs' \in [Vouchers -> AcsType] /\ lists' \subseteq Lists
    /\ lost' \subseteq Vouchers \cup Lists \cup Shipments
    /\ crashes' \in 0 .. MaxCrashes
    /\ digest' \subseteq Shipments /\ told' \subseteq Shipments
  BY DEF AcsTypeOK, RowType, OrderType, TaskType, CancelType, IssueType, AcsType

\* A worker holds a number only between ACS's answer and the row, and it is one
\* ACS issued for the worker's shipment.
HandsHold ==
  /\ \A t \in Tasks :
       /\ task[t].pc = "minted" <=> task[t].v # None
       /\ task[t].v # None => /\ acs[task[t].v].of = TaskOf[t]
                              /\ acs[task[t].v].at # "unissued"
  /\ \A v \in Vouchers : acs[v].at = "live" => acs[v].of \in Shipments

AInv == AcsInv /\ HandsHold

LEMMA InitAInv ==
  ASSUME Init
  PROVE  AInv
<1>1. AcsTypeOK
  <2>1. /\ row \in [Shipments -> RowType] /\ task \in [Tasks -> TaskType]
        /\ cancel \in [Cancels -> CancelType]
        /\ issue \in [Issuers -> IssueType] /\ acs \in [Vouchers -> AcsType]
    BY CourierConstants
    DEF Init, RowType, TaskType, CancelType, IssueType, AcsType, RowStates,
        Claims
  <2>2. order \in [Shipments -> OrderType]
    BY DEF Init, OrderType
  <2>3. /\ lock \in [Shipments -> Cancels \cup {None}]
        /\ crashes \in 0 .. MaxCrashes
    BY CourierConstants DEF Init
  <2> QED
    BY <2>1, <2>2, <2>3, Types DEF Init
<1>2. VouchersAccounted /\ HandsHold
  BY DEF Init, VouchersAccounted, HandsHold
<1> QED
  BY <1>1, <1>2 DEF AInv, AcsInv

\* A step that takes no voucher from where it is known.
LEMMA QuietStep ==
  ASSUME AInv, AcsTypeOK',
         \A t \in Tasks : /\ task'[t].v = task[t].v
                          /\ task'[t].pc = "minted" <=> task[t].pc = "minted",
         \A s \in Shipments : /\ row'[s].voucher = row[s].voucher
                              /\ row'[s].orphans = row[s].orphans
                              /\ row'[s].previous = row[s].previous,
         \A v \in Vouchers : /\ acs'[v].of = acs[v].of
                             /\ acs'[v].at = "live" => acs[v].at = "live"
                             /\ acs'[v].at = "unissued" => acs[v].at = "unissued",
         lost \subseteq lost'
  PROVE  AInv'
<1>1. HandsHold'
  <2>1. \A t \in Tasks : task[t].v \in Vouchers \cup {None}
    BY Types DEF AInv, AcsInv, TaskType
  <2> QED
    BY <2>1 DEF AInv, HandsHold
<1>2. VouchersAccounted'
  <2> SUFFICES ASSUME NEW v \in Vouchers, acs'[v].at = "live"
               PROVE  LET s == acs'[v].of IN
                      \/ v \in lost' \/ InHand(v)'
                      \/ v = row'[s].voucher \/ v \in row'[s].orphans
                      \/ v \in row'[s].previous
    BY DEF VouchersAccounted
  <2>1. acs[v].at = "live" /\ acs'[v].of = acs[v].of /\ acs[v].of \in Shipments
    BY DEF AInv, HandsHold
  <2>2. LET s == acs[v].of IN
        \/ v \in lost \/ InHand(v)
        \/ v = row[s].voucher \/ v \in row[s].orphans \/ v \in row[s].previous
    BY <2>1 DEF AInv, AcsInv, VouchersAccounted
  <2>3. InHand(v) => InHand(v)'
    BY DEF InHand
  <2> QED
    BY <2>1, <2>2, <2>3
<1> QED
  BY <1>1, <1>2 DEF AInv, AcsInv
\* What such a step may do to a row, and to what ACS holds.
RowMoves(r) ==
  {r} \cup {[r EXCEPT !.minting = x] : x \in Claims}
      \cup {[r EXCEPT !.canceling = x] : x \in Claims}
      \cup {[r EXCEPT !.state = "CANCELED"],
            [r EXCEPT !.state = "CANCELED", !.canceling = "none"]}
      \cup {[r EXCEPT !.list = l] : l \in Lists \cup {None}}
      \cup {[r EXCEPT !.alerted = x] : x \in BOOLEAN}
AcsMoves(a) ==
  {a, [a EXCEPT !.at = "deleted"]} \cup {[a EXCEPT !.list = l] : l \in Lists}

LEMMA RowMoved ==
  ASSUME NEW r \in RowType, NEW q \in RowMoves(r)
  PROVE  /\ q \in RowType /\ q.voucher = r.voucher
         /\ q.orphans = r.orphans /\ q.previous = r.previous
<1>1. CASE q \in {r} \cup {[r EXCEPT !.minting = x] : x \in Claims}
                     \cup {[r EXCEPT !.canceling = x] : x \in Claims}
  BY <1>1 DEF RowType
<1>2. CASE q \in {[r EXCEPT !.state = "CANCELED"],
                  [r EXCEPT !.state = "CANCELED", !.canceling = "none"]}
  <2>1. "CANCELED" \in RowStates /\ "none" \in Claims
    BY DEF RowStates, Claims
  <2> QED
    BY <1>2, <2>1 DEF RowType
<1>3. CASE q \in {[r EXCEPT !.list = l] : l \in Lists \cup {None}}
  BY <1>3 DEF RowType
<1>4. CASE q \in {[r EXCEPT !.alerted = x] : x \in BOOLEAN}
  BY <1>4 DEF RowType
<1> QED
  BY <1>1, <1>2, <1>3, <1>4 DEF RowMoves

LEMMA CancelMoved ==
  ASSUME NEW r \in CancelType,
         NEW p \in {"idle", "calling", "deleted", "failing", "done"}
  PROVE  [r EXCEPT !.pc = p] \in CancelType
  BY DEF CancelType

LEMMA OrderMoved ==
  ASSUME NEW r \in OrderType
  PROVE  /\ [r EXCEPT !.status = "PROCESSING"] \in OrderType
         /\ \A x \in {"sent", "refused"} :
              [status |-> "CANCELED", cascade |-> x] \in OrderType
  BY DEF OrderType

LEMMA RowsMoved ==
  ASSUME row \in [Shipments -> RowType], row' = [z \in Shipments |-> row'[z]],
         \A z \in Shipments : row'[z] \in RowMoves(row[z])
  PROVE  /\ row' \in [Shipments -> RowType]
         /\ \A z \in Shipments : /\ row'[z].voucher = row[z].voucher
                                 /\ row'[z].orphans = row[z].orphans
                                 /\ row'[z].previous = row[z].previous
<1>1. \A z \in Shipments : row[z] \in RowType
  OBVIOUS
<1> QED
  BY <1>1, RowMoved

LEMMA AcsMoved ==
  ASSUME acs \in [Vouchers -> AcsType], acs' = [v \in Vouchers |-> acs'[v]],
         \A v \in Vouchers : acs'[v] \in AcsMoves(acs[v])
  PROVE  /\ acs' \in [Vouchers -> AcsType]
         /\ \A v \in Vouchers : /\ acs'[v].of = acs[v].of
                                /\ acs'[v].at = "live" => acs[v].at = "live"
                                /\ acs'[v].at = "unissued" => acs[v].at = "unissued"
<1>1. ASSUME NEW a \in AcsType, NEW b \in AcsMoves(a)
      PROVE  /\ b \in AcsType /\ b.of = a.of
             /\ b.at = "live" => a.at = "live"
             /\ b.at = "unissued" => a.at = "unissued"
  BY <1>1 DEF AcsMoves, AcsType
<1>2. \A v \in Vouchers : acs[v] \in AcsType
  OBVIOUS
<1> QED
  BY <1>1, <1>2

\* ACS answers: its new voucher is in the worker's hand.
LEMMA MintedStep ==
  ASSUME AInv, NEW t \in Tasks, NEW v \in Vouchers,
         task[t].pc = "calling", acs[v].at = "unissued",
         TaskOf[t] \in Shipments,
         task' \in [Tasks -> TaskType],
         task'[t].pc = "minted", task'[t].v = v,
         \A u \in Tasks : u # t => task'[u] = task[u],
         acs' \in [Vouchers -> AcsType],
         acs'[v].at = "live", acs'[v].of = TaskOf[t],
         \A w \in Vouchers : w # v => acs'[w] = acs[w],
         UNCHANGED <<row, order, cancel, lock, issue, issueLock, lists, lost,
                     crashes, digest, told>>
  PROVE  AInv'
<1>0. AcsTypeOK /\ HandsHold /\ VouchersAccounted /\ None \notin Vouchers
  BY CourierConstants DEF AInv, AcsInv
<1>1. AcsTypeOK'
  BY <1>0, Types, TypesNext
<1>2. \A u \in Tasks : task[u].v \in Vouchers \cup {None}
  BY <1>0, Types DEF TaskType
<1>3. HandsHold'
  BY <1>0, <1>2 DEF HandsHold
<1>4. VouchersAccounted'
  <2> SUFFICES ASSUME NEW w \in Vouchers, acs'[w].at = "live"
               PROVE  LET s == acs'[w].of IN
                      \/ w \in lost' \/ InHand(w)'
                      \/ w = row'[s].voucher \/ w \in row'[s].orphans
                      \/ w \in row'[s].previous
    BY DEF VouchersAccounted
  <2>1. CASE w = v
    BY <2>1 DEF InHand
  <2>2. CASE w # v
    <3>1. task[t].v = None
      BY <1>0 DEF HandsHold
    <3>2. InHand(w) => InHand(w)'
      BY <1>0, <3>1 DEF InHand
    <3> QED
      BY <1>0, <2>2, <3>2 DEF VouchersAccounted
  <2> QED
    BY <2>1, <2>2
<1> QED
  BY <1>1, <1>3, <1>4 DEF AInv, AcsInv

LEMMA NextKeepsAInv ==
  ASSUME AInv, Next
  PROVE  AInv'
<1>0. /\ row \in [Shipments -> RowType] /\ order \in [Shipments -> OrderType]
      /\ task \in [Tasks -> TaskType] /\ cancel \in [Cancels -> CancelType]
      /\ issue \in [Issuers -> IssueType]
      /\ lock \in [Shipments -> Cancels \cup {None}] /\ issueLock \in BOOLEAN
      /\ acs \in [Vouchers -> AcsType] /\ lists \subseteq Lists
      /\ lost \subseteq Vouchers \cup Lists \cup Shipments
      /\ crashes \in 0 .. MaxCrashes
      /\ digest \subseteq Shipments /\ told \subseteq Shipments
  BY Types DEF AInv, AcsInv
<1>f. /\ \A z \in Shipments : /\ row[z].voucher \in Vouchers \cup {None}
                              /\ row[z].canceling \in Claims
                              /\ row[z].list \in Lists \cup {None}
      /\ \A r \in Issuers : issue[r].list \in Lists \cup {None}
                              /\ issue[r].of \subseteq Shipments
      /\ \A u \in Tasks : task[u].v \in Vouchers \cup {None}
  BY <1>0 DEF RowType, IssueType, TaskType
<1>h. HandsHold
  BY DEF AInv
<1>a. VouchersAccounted
  BY DEF AInv, AcsInv
<1>1. ASSUME NEW t \in Tasks, MintDone(t)
      PROVE  AInv'
  <2>1. /\ task' \in [Tasks -> TaskType]
        /\ \A u \in Tasks : /\ task'[u].v = task[u].v
                            /\ task'[u].pc = "minted" <=> task[u].pc = "minted"
    BY <1>0, <1>f, <1>h, <1>1, CourierConstants DEF MintDone, HandsHold, TaskType
  <2>2. AcsTypeOK'
    BY <1>0, <1>h, <1>1, <2>1, TypesNext
    DEF MintDone, runs, digests, ground
  <2> QED
    BY <1>1, <2>1, <2>2, QuietStep
    DEF MintDone, ground
<1>2. ASSUME NEW t \in Tasks, MintBusy(t)
      PROVE  AInv'
  <2>1. /\ task' \in [Tasks -> TaskType]
        /\ \A u \in Tasks : /\ task'[u].v = task[u].v
                            /\ task'[u].pc = "minted" <=> task[u].pc = "minted"
    BY <1>0, <1>f, <1>h, <1>2, CourierConstants DEF MintBusy, Retry, HandsHold, TaskType
  <2>2. AcsTypeOK'
    BY <1>0, <1>h, <1>2, <2>1, TypesNext
    DEF MintBusy, runs, digests, ground
  <2> QED
    BY <1>2, <2>1, <2>2, QuietStep
    DEF MintBusy, ground
<1>3. ASSUME NEW t \in Tasks, MintClaim(t)
      PROVE  AInv'
  <2>1. /\ row' \in [Shipments -> RowType]
        /\ \A z \in Shipments : /\ row'[z].voucher = row[z].voucher
                                /\ row'[z].orphans = row[z].orphans
                                /\ row'[z].previous = row[z].previous
    <3>1. row' = [z \in Shipments |-> row'[z]]
      BY <1>0, <1>h, <1>3 DEF MintClaim
    <3>2. \A z \in Shipments : row'[z] \in RowMoves(row[z])
      BY <1>0, <1>f, <1>h, <1>3, CourierConstants, ZenonT(60) DEF MintClaim, RowMoves, Claims
    <3> QED
      BY <1>0, <3>1, <3>2, RowsMoved
  <2>2. /\ task' \in [Tasks -> TaskType]
        /\ \A u \in Tasks : /\ task'[u].v = task[u].v
                            /\ task'[u].pc = "minted" <=> task[u].pc = "minted"
    BY <1>0, <1>f, <1>h, <1>3, CourierConstants DEF MintClaim, HandsHold, TaskType
  <2>3. AcsTypeOK'
    BY <1>0, <1>h, <1>3, <2>1, <2>2, TypesNext
    DEF MintClaim, runs, digests, ground
  <2> QED
    BY <1>3, <2>1, <2>2, <2>3, QuietStep
    DEF MintClaim, ground
<1>4. ASSUME NEW t \in Tasks, MintFails(t)
      PROVE  AInv'
  <2>1. /\ task' \in [Tasks -> TaskType]
        /\ \A u \in Tasks : /\ task'[u].v = task[u].v
                            /\ task'[u].pc = "minted" <=> task[u].pc = "minted"
    BY <1>0, <1>f, <1>h, <1>4, CourierConstants DEF MintFails, HandsHold, TaskType
  <2>2. AcsTypeOK'
    BY <1>0, <1>h, <1>4, <2>1, TypesNext
    DEF MintFails, runs, digests, ground
  <2> QED
    BY <1>4, <2>1, <2>2, QuietStep
    DEF MintFails, ground
<1>5. ASSUME NEW t \in Tasks, MintRelease(t)
      PROVE  AInv'
  <2>1. /\ row' \in [Shipments -> RowType]
        /\ \A z \in Shipments : /\ row'[z].voucher = row[z].voucher
                                /\ row'[z].orphans = row[z].orphans
                                /\ row'[z].previous = row[z].previous
    <3>1. row' = [z \in Shipments |-> row'[z]]
      BY <1>0, <1>h, <1>5 DEF MintRelease
    <3>2. \A z \in Shipments : row'[z] \in RowMoves(row[z])
      BY <1>0, <1>f, <1>h, <1>5, CourierConstants DEF MintRelease, RowMoves, Claims
    <3> QED
      BY <1>0, <3>1, <3>2, RowsMoved
  <2>2. /\ task' \in [Tasks -> TaskType]
        /\ \A u \in Tasks : /\ task'[u].v = task[u].v
                            /\ task'[u].pc = "minted" <=> task[u].pc = "minted"
    BY <1>0, <1>f, <1>h, <1>5, CourierConstants DEF MintRelease, Retry, HandsHold, TaskType
  <2>3. AcsTypeOK'
    BY <1>0, <1>h, <1>5, <2>1, <2>2, TypesNext
    DEF MintRelease, runs, digests, ground
  <2> QED
    BY <1>5, <2>1, <2>2, <2>3, QuietStep
    DEF MintRelease, ground
<1>6. ASSUME NEW t \in Tasks, MintAdvance(t)
      PROVE  AInv'
  <2>1. order' \in [Shipments -> OrderType]
    <3>1. order' \in {order, [order EXCEPT ![TaskOf[t]].status = "PROCESSING"]}
      BY <1>6 DEF MintAdvance
    <3>2. TaskOf[t] \in Shipments
      BY CourierConstants
    <3> QED
      BY <1>0, <3>1, <3>2, OrderMoved
  <2>2. /\ task' \in [Tasks -> TaskType]
        /\ \A u \in Tasks : /\ task'[u].v = task[u].v
                            /\ task'[u].pc = "minted" <=> task[u].pc = "minted"
    BY <1>0, <1>f, <1>h, <1>6, CourierConstants DEF MintAdvance, HandsHold, TaskType
  <2>3. AcsTypeOK'
    BY <1>0, <1>h, <1>6, <2>1, <2>2, TypesNext
    DEF MintAdvance, runs, digests, ground
  <2> QED
    BY <1>6, <2>1, <2>2, <2>3, QuietStep
    DEF MintAdvance, ground
<1>7. ASSUME NEW s \in Shipments, MintClaimLapses(s)
      PROVE  AInv'
  <2>1. /\ row' \in [Shipments -> RowType]
        /\ \A z \in Shipments : /\ row'[z].voucher = row[z].voucher
                                /\ row'[z].orphans = row[z].orphans
                                /\ row'[z].previous = row[z].previous
    <3>1. row' = [z \in Shipments |-> row'[z]]
      BY <1>0, <1>7 DEF MintClaimLapses
    <3>2. \A z \in Shipments : row'[z] \in RowMoves(row[z])
      BY <1>0, <1>f, <1>7, CourierConstants DEF MintClaimLapses, RowMoves, Claims
    <3> QED
      BY <1>0, <3>1, <3>2, RowsMoved
  <2>2. AcsTypeOK'
    BY <1>0, <1>7, <2>1, TypesNext
    DEF MintClaimLapses, runs, digests, ground
  <2> QED
    BY <1>7, <2>1, <2>2, QuietStep
    DEF MintClaimLapses, ground
<1>8. ASSUME NEW c \in Cancels, NEW s \in Shipments, StaffCancel(c, s)
      PROVE  AInv'
  <2>1. /\ row' \in [Shipments -> RowType]
        /\ \A z \in Shipments : /\ row'[z].voucher = row[z].voucher
                                /\ row'[z].orphans = row[z].orphans
                                /\ row'[z].previous = row[z].previous
    <3>1. row' = [z \in Shipments |-> row'[z]]
      BY <1>0, <1>8 DEF StaffCancel, CancelLocally
    <3>2. \A z \in Shipments : row'[z] \in RowMoves(row[z])
      BY <1>0, <1>f, <1>8, CourierConstants DEF StaffCancel, CancelLocally, RowMoves, Claims
    <3> QED
      BY <1>0, <3>1, <3>2, RowsMoved
  <2>2. cancel' \in [Cancels -> CancelType]
    <3> DEFINE new == [pc |-> "calling", s |-> s, v |-> row[s].voucher,
                       whole |-> FALSE]
    <3>1. cancel' \in {[cancel EXCEPT ![c].pc = "done"],
                       [cancel EXCEPT ![c] = new]}
      BY <1>8 DEF StaffCancel
    <3>2. new \in CancelType /\ [cancel[c] EXCEPT !.pc = "done"] \in CancelType
      BY <1>0, <1>f, CancelMoved DEF CancelType
    <3> HIDE DEF new
    <3> QED
      BY <1>0, <3>1, <3>2
  <2>3. AcsTypeOK'
    BY <1>0, <1>8, <2>1, <2>2, TypesNext
    DEF StaffCancel, runs, digests, ground
  <2> QED
    BY <1>8, <2>1, <2>2, <2>3, QuietStep
    DEF StaffCancel, ground
<1>9. ASSUME NEW c \in Cancels, NEW s \in Shipments, OrderCancel(c, s)
      PROVE  AInv'
  <2>1. /\ row' \in [Shipments -> RowType]
        /\ \A z \in Shipments : /\ row'[z].voucher = row[z].voucher
                                /\ row'[z].orphans = row[z].orphans
                                /\ row'[z].previous = row[z].previous
    <3>1. row' = [z \in Shipments |-> row'[z]]
      BY <1>0, <1>9 DEF OrderCancel, CancelLocally
    <3>2. \A z \in Shipments : row'[z] \in RowMoves(row[z])
      BY <1>0, <1>f, <1>9, CourierConstants DEF OrderCancel, CancelLocally, RowMoves, Claims
    <3> QED
      BY <1>0, <3>1, <3>2, RowsMoved
  <2>2. order' \in [Shipments -> OrderType]
    BY <1>0, <1>f, <1>9, CourierConstants DEF OrderCancel, OrderCanceled, OrderType
  <2>3. lock' \in [Shipments -> Cancels \cup {None}]
    BY <1>0, <1>f, <1>9 DEF OrderCancel
  <2>4. cancel' \in [Cancels -> CancelType]
    <3> DEFINE new == [pc |-> "calling", s |-> s, v |-> row[s].voucher,
                       whole |-> TRUE]
    <3>1. cancel' \in {[cancel EXCEPT ![c].pc = "done"],
                       [cancel EXCEPT ![c] = new]}
      BY <1>9 DEF OrderCancel
    <3>2. new \in CancelType /\ [cancel[c] EXCEPT !.pc = "done"] \in CancelType
      BY <1>0, <1>f, CancelMoved DEF CancelType
    <3> HIDE DEF new
    <3> QED
      BY <1>0, <3>1, <3>2
  <2>5. AcsTypeOK'
    BY <1>0, <1>9, <2>1, <2>2, <2>3, <2>4, TypesNext
    DEF OrderCancel, runs, digests, ground
  <2> QED
    BY <1>9, <2>1, <2>2, <2>3, <2>4, <2>5, QuietStep
    DEF OrderCancel, ground
<1>10. ASSUME NEW c \in Cancels, CancelCall(c)
       PROVE  AInv'
  <2>1. /\ acs' \in [Vouchers -> AcsType]
        /\ \A v \in Vouchers : /\ acs'[v].of = acs[v].of
                               /\ acs'[v].at = "live" => acs[v].at = "live"
                               /\ acs'[v].at = "unissued" => acs[v].at = "unissued"
    <3>1. acs' = [v \in Vouchers |-> acs'[v]]
      BY <1>0, <1>10 DEF CancelCall, Deleted
    <3>2. \A v \in Vouchers : acs'[v] \in AcsMoves(acs[v])
      BY <1>0, <1>f, <1>10, CourierConstants DEF CancelCall, Deleted, AcsMoves, Claims
    <3> QED
      BY <1>0, <3>1, <3>2, AcsMoved
  <2>2. cancel' \in [Cancels -> CancelType]
    BY <1>0, <1>f, <1>10 DEF CancelCall, CancelType
  <2>3. AcsTypeOK'
    BY <1>0, <1>10, <2>1, <2>2, TypesNext
    DEF CancelCall, runs, digests, ground
  <2> QED
    BY <1>10, <2>1, <2>2, <2>3, QuietStep
    DEF CancelCall, ground
<1>11. ASSUME NEW c \in Cancels, CancelFails(c)
       PROVE  AInv'
  <2>1. cancel' \in [Cancels -> CancelType]
    BY <1>0, <1>f, <1>11, SMTT(30) DEF CancelFails, CancelType
  <2>2. AcsTypeOK'
    BY <1>0, <1>11, <2>1, TypesNext
    DEF CancelFails, runs, digests, ground
  <2> QED
    BY <1>11, <2>1, <2>2, QuietStep
    DEF CancelFails, ground
<1>12. ASSUME NEW c \in Cancels, CancelAnswerLost(c)
       PROVE  AInv'
  <2>1. /\ acs' \in [Vouchers -> AcsType]
        /\ \A v \in Vouchers : /\ acs'[v].of = acs[v].of
                               /\ acs'[v].at = "live" => acs[v].at = "live"
                               /\ acs'[v].at = "unissued" => acs[v].at = "unissued"
    <3>1. acs' = [v \in Vouchers |-> acs'[v]]
      BY <1>0, <1>12 DEF CancelAnswerLost, Deleted
    <3>2. \A v \in Vouchers : acs'[v] \in AcsMoves(acs[v])
      BY <1>0, <1>f, <1>12, CourierConstants DEF CancelAnswerLost, Deleted, AcsMoves, Claims
    <3> QED
      BY <1>0, <3>1, <3>2, AcsMoved
  <2>2. cancel' \in [Cancels -> CancelType]
    BY <1>0, <1>f, <1>12 DEF CancelAnswerLost, CancelType
  <2>3. crashes' \in 0 .. MaxCrashes
    BY <1>0, <1>f, <1>12, CourierConstants DEF CancelAnswerLost, Fault
  <2>4. AcsTypeOK'
    BY <1>0, <1>12, <2>1, <2>2, <2>3, TypesNext
    DEF CancelAnswerLost, runs, digests, ground
  <2> QED
    BY <1>12, <2>1, <2>2, <2>3, <2>4, QuietStep
    DEF CancelAnswerLost, ground
<1>13. ASSUME NEW c \in Cancels, CancelSave(c)
       PROVE  AInv'
  <2>1. /\ row' \in [Shipments -> RowType]
        /\ \A z \in Shipments : /\ row'[z].voucher = row[z].voucher
                                /\ row'[z].orphans = row[z].orphans
                                /\ row'[z].previous = row[z].previous
    <3>1. row' = [z \in Shipments |-> row'[z]]
      BY <1>0, <1>13 DEF CancelSave, ClaimAfterFailure
    <3>2. \A z \in Shipments : row'[z] \in RowMoves(row[z])
      BY <1>0, <1>f, <1>13, CourierConstants DEF CancelSave, ClaimAfterFailure, RowMoves, Claims
    <3> QED
      BY <1>0, <3>1, <3>2, RowsMoved
  <2>2. order' \in [Shipments -> OrderType]
    <3>1. \/ order' = order
          \/ \E x \in {"sent", "refused"} :
               order' = [order EXCEPT ![cancel[c].s] =
                           [status |-> "CANCELED", cascade |-> x]]
      BY <1>13 DEF CancelSave, OrderCanceled
    <3> QED
      BY <1>0, <3>1, OrderMoved
  <2>3. lock' \in [Shipments -> Cancels \cup {None}]
    BY <1>0, <1>f, <1>13 DEF CancelSave
  <2>4. cancel' \in [Cancels -> CancelType]
    <3>1. cancel' = [cancel EXCEPT ![c].pc = "done"]
      BY <1>13 DEF CancelSave
    <3> QED
      BY <1>0, <3>1, CancelMoved
  <2>5. AcsTypeOK'
    BY <1>0, <1>13, <2>1, <2>2, <2>3, <2>4, TypesNext
    DEF CancelSave, runs, digests, ground
  <2> QED
    BY <1>13, <2>1, <2>2, <2>3, <2>4, <2>5, QuietStep
    DEF CancelSave, ground
<1>14. ASSUME NEW c \in Cancels, CancelCrash(c)
       PROVE  AInv'
  <2>1. lock' \in [Shipments -> Cancels \cup {None}]
    BY <1>0, <1>f, <1>14 DEF CancelCrash
  <2>2. cancel' \in [Cancels -> CancelType]
    BY <1>0, <1>f, <1>14 DEF CancelCrash, CancelType
  <2>3. crashes' \in 0 .. MaxCrashes
    BY <1>0, <1>f, <1>14, CourierConstants DEF CancelCrash, Fault
  <2>4. AcsTypeOK'
    BY <1>0, <1>14, <2>1, <2>2, <2>3, TypesNext
    DEF CancelCrash, runs, digests, ground
  <2> QED
    BY <1>14, <2>1, <2>2, <2>3, <2>4, QuietStep
    DEF CancelCrash, ground
<1>33. ASSUME NEW c \in Cancels, CancelDeadlock(c)
       PROVE  AInv'
  <2>1. cancel' \in [Cancels -> CancelType]
    <3>1. [cancel[c] EXCEPT !.pc = "done"] \in CancelType
      BY <1>0 DEF CancelType
    <3> QED
      BY <1>0, <1>33, <3>1 DEF CancelDeadlock
  <2>2. AcsTypeOK'
    BY <1>0, <1>33, <2>1, TypesNext DEF CancelDeadlock, runs, digests, ground
  <2> QED
    BY <1>33, <2>2, QuietStep DEF CancelDeadlock, ground
<1>15. ASSUME NEW s \in Shipments, CancelClaimLapses(s)
       PROVE  AInv'
  <2>1. /\ row' \in [Shipments -> RowType]
        /\ \A z \in Shipments : /\ row'[z].voucher = row[z].voucher
                                /\ row'[z].orphans = row[z].orphans
                                /\ row'[z].previous = row[z].previous
    <3>1. row' = [z \in Shipments |-> row'[z]]
      BY <1>0, <1>15 DEF CancelClaimLapses
    <3>2. \A z \in Shipments : row'[z] \in RowMoves(row[z])
      BY <1>0, <1>f, <1>15, CourierConstants DEF CancelClaimLapses, RowMoves, Claims
    <3> QED
      BY <1>0, <3>1, <3>2, RowsMoved
  <2>2. AcsTypeOK'
    BY <1>0, <1>15, <2>1, TypesNext
    DEF CancelClaimLapses, runs, digests, ground
  <2> QED
    BY <1>15, <2>1, <2>2, QuietStep
    DEF CancelClaimLapses, ground
<1>16. ASSUME NEW s \in Shipments, Retire(s)
       PROVE  AInv'
  <2>1. /\ row' \in [Shipments -> RowType]
        /\ \A z \in Shipments : /\ row'[z].voucher = row[z].voucher
                                /\ row'[z].orphans = row[z].orphans
                                /\ row'[z].previous = row[z].previous
    <3>1. row' = [z \in Shipments |-> row'[z]]
      BY <1>0, <1>16 DEF Retire, CancelLocally
    <3>2. \A z \in Shipments : row'[z] \in RowMoves(row[z])
      BY <1>0, <1>f, <1>16, CourierConstants DEF Retire, CancelLocally, RowMoves, Claims
    <3> QED
      BY <1>0, <3>1, <3>2, RowsMoved
  <2>2. AcsTypeOK'
    BY <1>0, <1>16, <2>1, TypesNext
    DEF Retire, runs, digests, ground
  <2> QED
    BY <1>16, <2>1, <2>2, QuietStep
    DEF Retire, ground
<1>17. ASSUME NEW r \in Issuers, IssueBegin(r)
       PROVE  AInv'
  <2>1. issue' \in [Issuers -> IssueType]
    BY <1>0, <1>f, <1>17 DEF IssueBegin, Candidates, IssueType
  <2>2. AcsTypeOK'
    BY <1>0, <1>17, <2>1, TypesNext
    DEF IssueBegin, runs, digests, ground
  <2> QED
    BY <1>17, <2>1, <2>2, QuietStep
    DEF IssueBegin, ground
<1>18. ASSUME NEW r \in Issuers, IssueCall(r)
       PROVE  AInv'
  <2>1. /\ acs' \in [Vouchers -> AcsType]
        /\ \A v \in Vouchers : /\ acs'[v].of = acs[v].of
                               /\ acs'[v].at = "live" => acs[v].at = "live"
                               /\ acs'[v].at = "unissued" => acs[v].at = "unissued"
    <3>1. acs' = [v \in Vouchers |-> acs'[v]]
      BY <1>0, <1>18 DEF IssueCall, OnNewList, FreshLists
    <3>2. \A v \in Vouchers : acs'[v] \in AcsMoves(acs[v])
      BY <1>0, <1>f, <1>18, CourierConstants DEF IssueCall, OnNewList, FreshLists, AcsMoves, Claims
    <3> QED
      BY <1>0, <3>1, <3>2, AcsMoved
  <2>2. issue' \in [Issuers -> IssueType]
    <3>1. PICK l \in Lists :
            issue' = [issue EXCEPT ![r].pc = "issued", ![r].list = l]
      BY <1>18 DEF IssueCall, FreshLists
    <3>2. [issue[r] EXCEPT !.pc = "issued", !.list = l] \in IssueType
      BY <1>0, <3>1 DEF IssueType
    <3>3. issue' = [issue EXCEPT ![r] =
                      [issue[r] EXCEPT !.pc = "issued", !.list = l]]
      BY <1>0, <3>1
    <3> QED
      BY <1>0, <3>2, <3>3
  <2>3. AcsTypeOK'
    BY <1>0, <1>18, <2>1, <2>2, TypesNext
    DEF IssueCall, FreshLists, runs, digests, ground
  <2> QED
    BY <1>18, <2>1, <2>2, <2>3, QuietStep
    DEF IssueCall, ground
<1>19. ASSUME NEW r \in Issuers, IssueEnds(r)
       PROVE  AInv'
  <2>1. issue' \in [Issuers -> IssueType]
    BY <1>0, <1>f, <1>19 DEF IssueEnds, NoRun, IssueType
  <2>2. AcsTypeOK'
    BY <1>0, <1>19, <2>1, TypesNext
    DEF IssueEnds, runs, digests, ground
  <2> QED
    BY <1>19, <2>1, <2>2, QuietStep
    DEF IssueEnds, ground
<1>20. ASSUME NEW r \in Issuers, IssueSave(r)
       PROVE  AInv'
  <2>1. /\ row' \in [Shipments -> RowType]
        /\ \A z \in Shipments : /\ row'[z].voucher = row[z].voucher
                                /\ row'[z].orphans = row[z].orphans
                                /\ row'[z].previous = row[z].previous
    <3>1. row' = [z \in Shipments |-> row'[z]]
      BY <1>0, <1>20 DEF IssueSave, Linked
    <3>2. \A z \in Shipments : row'[z] \in RowMoves(row[z])
      BY <1>0, <1>f, <1>20, CourierConstants DEF IssueSave, Linked, RowMoves, Claims
    <3> QED
      BY <1>0, <3>1, <3>2, RowsMoved
  <2>2. issue' \in [Issuers -> IssueType]
    BY <1>0, <1>f, <1>20 DEF IssueSave, NoRun, IssueType
  <2>3. AcsTypeOK'
    BY <1>0, <1>20, <2>1, <2>2, TypesNext
    DEF IssueSave, runs, digests, ground
  <2> QED
    BY <1>20, <2>1, <2>2, <2>3, QuietStep
    DEF IssueSave, ground
<1>21. ASSUME NEW r \in Issuers, IssueCrash(r)
       PROVE  AInv'
  <2>1. issue' \in [Issuers -> IssueType]
    BY <1>0, <1>f, <1>21 DEF IssueCrash, NoRun, IssueType
  <2>2. crashes' \in 0 .. MaxCrashes
    BY <1>0, <1>f, <1>21, CourierConstants DEF IssueCrash, Fault
  <2>3. /\ lost \subseteq lost'
        /\ lost' \subseteq Vouchers \cup Lists \cup Shipments
    BY <1>0, <1>f, <1>21, CourierConstants DEF IssueCrash
  <2>4. AcsTypeOK'
    BY <1>0, <1>21, <2>1, <2>2, <2>3, TypesNext
    DEF IssueCrash, runs, digests, ground
  <2> QED
    BY <1>21, <2>1, <2>2, <2>3, <2>4, QuietStep
    DEF IssueCrash, ground
<1>22. CASE IssueLockLapses
  <2>1. AcsTypeOK'
    BY <1>0, <1>22, TypesNext
    DEF IssueLockLapses, runs, digests, ground
  <2> QED
    BY <1>22, <2>1, QuietStep
    DEF IssueLockLapses, ground
<1>23. CASE DigestClaim
  <2>1. /\ row' \in [Shipments -> RowType]
        /\ \A z \in Shipments : /\ row'[z].voucher = row[z].voucher
                                /\ row'[z].orphans = row[z].orphans
                                /\ row'[z].previous = row[z].previous
    <3>1. row' = [z \in Shipments |-> row'[z]]
      BY <1>0, <1>23 DEF DigestClaim
    <3>2. \A z \in Shipments : row'[z] \in RowMoves(row[z])
      BY <1>0, <1>f, <1>23, CourierConstants DEF DigestClaim, RowMoves, Claims
    <3> QED
      BY <1>0, <3>1, <3>2, RowsMoved
  <2>2. AcsTypeOK'
    BY <1>0, <1>23, <2>1, TypesNext
    DEF DigestClaim, Stale, runs, digests, ground
  <2> QED
    BY <1>23, <2>1, <2>2, QuietStep
    DEF DigestClaim, ground
<1>24. CASE DigestSend
  <2>1. AcsTypeOK'
    BY <1>0, <1>24, TypesNext
    DEF DigestSend, runs, digests, ground
  <2> QED
    BY <1>24, <2>1, QuietStep
    DEF DigestSend, ground
<1>25. CASE DigestFails
  <2>1. /\ row' \in [Shipments -> RowType]
        /\ \A z \in Shipments : /\ row'[z].voucher = row[z].voucher
                                /\ row'[z].orphans = row[z].orphans
                                /\ row'[z].previous = row[z].previous
    <3>1. row' = [z \in Shipments |-> row'[z]]
      BY <1>0, <1>25 DEF DigestFails
    <3>2. \A z \in Shipments : row'[z] \in RowMoves(row[z])
      BY <1>0, <1>f, <1>25, CourierConstants DEF DigestFails, RowMoves, Claims
    <3> QED
      BY <1>0, <3>1, <3>2, RowsMoved
  <2>2. crashes' \in 0 .. MaxCrashes
    BY <1>0, <1>f, <1>25, CourierConstants DEF DigestFails, Fault
  <2>3. AcsTypeOK'
    BY <1>0, <1>25, <2>1, <2>2, TypesNext
    DEF DigestFails, runs, digests, ground
  <2> QED
    BY <1>25, <2>1, <2>2, <2>3, QuietStep
    DEF DigestFails, ground
<1>26. CASE DigestCrash
  <2>1. crashes' \in 0 .. MaxCrashes
    BY <1>0, <1>f, <1>26, CourierConstants DEF DigestCrash, Fault
  <2>2. /\ lost \subseteq lost'
        /\ lost' \subseteq Vouchers \cup Lists \cup Shipments
    BY <1>0, <1>f, <1>26, CourierConstants DEF DigestCrash
  <2>3. AcsTypeOK'
    BY <1>0, <1>26, <2>1, <2>2, TypesNext
    DEF DigestCrash, runs, digests, ground
  <2> QED
    BY <1>26, <2>1, <2>2, <2>3, QuietStep
    DEF DigestCrash, ground
<1>27. ASSUME NEW t \in Tasks, MintCall(t)
       PROVE  AInv'
  <2>1. PICK v \in FreshVouchers :
          /\ acs' = Issued(v, TaskOf[t])
          /\ task' = [task EXCEPT ![t].pc = "minted", ![t].v = v]
    BY <1>27 DEF MintCall
  <2>2. /\ task[t].pc = "calling" /\ v \in Vouchers /\ acs[v].at = "unissued"
        /\ UNCHANGED <<row, order, cancel, lock, issue, issueLock, lists, lost,
                       crashes, digest, told>>
    BY <1>27 DEF MintCall, FreshVouchers, runs, digests
  <2>3. TaskOf[t] \in Shipments /\ None \notin Vouchers
    BY CourierConstants
  <2>4. /\ task' \in [Tasks -> TaskType]
        /\ task'[t].pc = "minted" /\ task'[t].v = v
        /\ \A u \in Tasks : u # t => task'[u] = task[u]
    BY <1>0, <2>1, <2>2 DEF TaskType
  <2>5. /\ acs' \in [Vouchers -> AcsType]
        /\ acs'[v].at = "live" /\ acs'[v].of = TaskOf[t]
        /\ \A w \in Vouchers : w # v => acs'[w] = acs[w]
    BY <1>0, <2>1, <2>2, <2>3 DEF Issued, AcsType
  <2> QED
    BY <1>0, <2>2, <2>3, <2>4, <2>5, MintedStep
<1>28. ASSUME NEW t \in Tasks, MintAnswerLost(t)
       PROVE  AInv'
  <2>1. PICK v \in FreshVouchers :
          acs' = Issued(v, TaskOf[t]) /\ lost' = lost \cup {v}
    BY <1>28 DEF MintAnswerLost
  <2>2. /\ task[t].pc = "calling" /\ v \in Vouchers /\ acs[v].at = "unissued"
        /\ task' = [task EXCEPT ![t].pc = "failing"]
        /\ crashes' \in 0 .. MaxCrashes
        /\ UNCHANGED <<row, order, cancel, lock, issue, issueLock, lists,
                       digest, told>>
    BY <1>0, <1>28, CourierConstants
    DEF MintAnswerLost, FreshVouchers, runs, digests, Fault
  <2>3. TaskOf[t] \in Shipments
    BY CourierConstants
  <2>4. /\ task' \in [Tasks -> TaskType]
        /\ \A u \in Tasks : /\ task'[u].v = task[u].v
                            /\ task'[u].pc = "minted" <=> task[u].pc = "minted"
    BY <1>0, <2>2 DEF TaskType
  <2>5. /\ acs' \in [Vouchers -> AcsType]
        /\ acs'[v].at = "live" /\ acs'[v].of = TaskOf[t]
        /\ \A w \in Vouchers : w # v => acs'[w] = acs[w]
    BY <1>0, <2>1, <2>2, <2>3 DEF Issued, AcsType
  <2>6. AcsTypeOK'
    BY <1>0, <2>1, <2>2, <2>4, <2>5, TypesNext
  <2>7. HandsHold'
    <3>1. \A u \in Tasks : task[u].v # None => task[u].v # v
      BY <1>h, <2>2 DEF HandsHold
    <3>2. \A w \in Vouchers : acs'[w].at = "live" => acs'[w].of \in Shipments
      BY <1>h, <2>3, <2>5 DEF HandsHold
    <3>3. \A u \in Tasks : task[u].v # None => acs'[task[u].v] = acs[task[u].v]
      BY <1>f, <2>5, <3>1
    <3> QED
      BY <1>h, <2>4, <3>2, <3>3 DEF HandsHold
  <2>8. VouchersAccounted'
    <3> SUFFICES ASSUME NEW w \in Vouchers, acs'[w].at = "live"
                 PROVE  LET s == acs'[w].of IN
                        \/ w \in lost' \/ InHand(w)'
                        \/ w = row'[s].voucher \/ w \in row'[s].orphans
                        \/ w \in row'[s].previous
      BY DEF VouchersAccounted
    <3>1. CASE w = v
      BY <2>1, <3>1
    <3>2. CASE w # v
      <4>1. InHand(w) => InHand(w)'
        BY <2>4 DEF InHand
      <4> QED
        BY <1>a, <2>1, <2>2, <2>5, <3>2, <4>1 DEF VouchersAccounted
    <3> QED
      BY <3>1, <3>2
  <2> QED
    BY <2>6, <2>7, <2>8 DEF AInv, AcsInv
<1>29. ASSUME NEW t \in Tasks, MintSave(t)
       PROVE  AInv'
  <2> DEFINE z == TaskOf[t]
             v == task[t].v
  <2>1. /\ task[t].pc = "minted" /\ row[z].voucher = None
        /\ row' = SaveVoucher(z, v)
        /\ task' = [task EXCEPT ![t].pc = "saved", ![t].v = None]
        /\ UNCHANGED <<order, cancel, lock, issue, issueLock, acs, lists, lost,
                       crashes, digest, told>>
    BY <1>29 DEF MintSave, runs, ground, digests
  <2>2. z \in Shipments /\ None \notin Vouchers
    BY CourierConstants
  <2>3. v \in Vouchers /\ acs[v].of = z
    BY <1>f, <1>h, <2>1 DEF HandsHold
  <2> HIDE DEF z, v
  <2>4. /\ row' \in [Shipments -> RowType] /\ row'[z].voucher = v
        /\ \A y \in Shipments : /\ y # z => row'[y] = row[y]
                                /\ row'[y].orphans = row[y].orphans
                                /\ row'[y].previous = row[y].previous
    <3> DEFINE new == [row[z] EXCEPT !.voucher = v, !.state = "NEW",
                                     !.minting = "none"]
    <3>1. row' = [row EXCEPT ![z] = new]
      BY <1>0, <2>1, <2>2 DEF SaveVoucher
    <3>2. row[z] \in RowType
      BY <1>0, <2>2
    <3>3. /\ new \in RowType /\ new.voucher = v
          /\ new.orphans = row[z].orphans /\ new.previous = row[z].previous
      BY <2>3, <3>2 DEF RowType, RowStates, Claims
    <3> HIDE DEF new
    <3> QED
      BY <1>0, <2>2, <3>1, <3>3
  <2>5. /\ task' \in [Tasks -> TaskType]
        /\ task'[t].v = None /\ task'[t].pc = "saved"
        /\ \A u \in Tasks : u # t => task'[u] = task[u]
    BY <1>0, <2>1, ZenonT(60) DEF TaskType
  <2>6. AcsTypeOK'
    BY <1>0, <2>1, <2>4, <2>5, TypesNext
  <2>7. HandsHold'
    BY <1>h, <2>1, <2>5 DEF HandsHold
  <2>8. VouchersAccounted'
    <3> SUFFICES ASSUME NEW w \in Vouchers, acs'[w].at = "live"
                 PROVE  LET s == acs'[w].of IN
                        \/ w \in lost' \/ InHand(w)'
                        \/ w = row'[s].voucher \/ w \in row'[s].orphans
                        \/ w \in row'[s].previous
      BY DEF VouchersAccounted
    <3>1. CASE w = v
      BY <2>1, <2>3, <2>4, <3>1
    <3>2. CASE w # v
      <4>1. InHand(w) => InHand(w)'
        BY <2>5, <3>2 DEF InHand, v
      <4>2. acs[w].of \in Shipments /\ w # None
        BY <1>h, <2>1, <2>2 DEF HandsHold
      <4>3. w = row[acs[w].of].voucher => w = row'[acs[w].of].voucher
        BY <2>1, <2>4, <4>2
      <4> QED
        BY <1>a, <2>1, <2>4, <4>1, <4>2, <4>3 DEF VouchersAccounted
    <3> QED
      BY <3>1, <3>2
  <2> QED
    BY <2>6, <2>7, <2>8 DEF AInv, AcsInv
<1>30. ASSUME NEW t \in Tasks, MintDuplicate(t)
       PROVE  AInv'
  <2> DEFINE z == TaskOf[t]
             v == task[t].v
  <2>1. /\ task[t].pc = "minted"
        /\ \/ acs' = Deleted(v) /\ UNCHANGED row
           \/ row' = KeepOrphan(z, v) /\ UNCHANGED acs
        /\ task' = [task EXCEPT ![t].pc = "done", ![t].v = None]
        /\ UNCHANGED <<order, cancel, lock, issue, issueLock, lists, lost,
                       crashes, digest, told>>
    BY <1>30 DEF MintDuplicate, runs, digests
  <2>2. z \in Shipments /\ None \notin Vouchers
    BY CourierConstants
  <2>3. v \in Vouchers /\ acs[v].of = z
    BY <1>f, <1>h, <2>1 DEF HandsHold
  <2>4. /\ task' \in [Tasks -> TaskType]
        /\ task'[t].v = None /\ task'[t].pc = "done"
        /\ \A u \in Tasks : u # t => task'[u] = task[u]
    BY <1>0, <2>1 DEF TaskType
  <2> HIDE DEF z, v
  <2>5. CASE acs' = Deleted(v) /\ UNCHANGED row
    <3>1. /\ acs' \in [Vouchers -> AcsType] /\ acs'[v].at = "deleted"
          /\ \A w \in Vouchers : acs'[w].of = acs[w].of
                                 /\ (w # v => acs'[w] = acs[w])
      BY <1>0, <2>3, <2>5 DEF Deleted, AcsType
    <3>2. AcsTypeOK'
      BY <1>0, <2>1, <2>4, <2>5, <3>1, TypesNext
    <3>3. HandsHold'
      <4>1. \A u \in Tasks : task'[u].v # None =>
              /\ task[u].v = task'[u].v
              /\ acs'[task[u].v].of = acs[task[u].v].of
              /\ acs'[task[u].v].at # "unissued"
        BY <1>f, <1>h, <2>4, <3>1 DEF HandsHold
      <4>2. \A w \in Vouchers : acs'[w].at = "live" => acs'[w].of \in Shipments
        BY <1>h, <3>1 DEF HandsHold
      <4> QED
        BY <1>h, <2>4, <4>1, <4>2 DEF HandsHold
    <3>4. VouchersAccounted'
      <4> SUFFICES ASSUME NEW w \in Vouchers, acs'[w].at = "live"
                   PROVE  LET s == acs'[w].of IN
                          \/ w \in lost' \/ InHand(w)'
                          \/ w = row'[s].voucher \/ w \in row'[s].orphans
                          \/ w \in row'[s].previous
        BY DEF VouchersAccounted
      <4>1. w # v
        BY <3>1
      <4>2. InHand(w) => InHand(w)'
        BY <2>4, <4>1 DEF InHand, v
      <4> QED
        BY <1>a, <2>1, <2>5, <3>1, <4>1, <4>2 DEF VouchersAccounted
    <3> QED
      BY <3>2, <3>3, <3>4 DEF AInv, AcsInv
  <2>6. CASE row' = KeepOrphan(z, v) /\ UNCHANGED acs
    <3>1. /\ row' \in [Shipments -> RowType] /\ v \in row'[z].orphans
          /\ \A y \in Shipments : /\ row'[y].voucher = row[y].voucher
                                  /\ row[y].orphans \subseteq row'[y].orphans
                                  /\ row'[y].previous = row[y].previous
      BY <1>0, <2>2, <2>3, <2>6 DEF KeepOrphan, RowType
    <3>2. AcsTypeOK'
      BY <1>0, <2>1, <2>4, <2>6, <3>1, TypesNext
    <3>3. HandsHold'
      BY <1>h, <2>4, <2>6 DEF HandsHold
    <3>4. VouchersAccounted'
      <4> SUFFICES ASSUME NEW w \in Vouchers, acs'[w].at = "live"
                   PROVE  LET s == acs'[w].of IN
                          \/ w \in lost' \/ InHand(w)'
                          \/ w = row'[s].voucher \/ w \in row'[s].orphans
                          \/ w \in row'[s].previous
        BY DEF VouchersAccounted
      <4>1. CASE w = v
        BY <2>3, <2>6, <3>1, <4>1
      <4>2. CASE w # v
        <5>1. InHand(w) => InHand(w)'
          BY <2>4, <4>2 DEF InHand, v
        <5>2. acs[w].of \in Shipments
          BY <1>h, <2>6 DEF HandsHold
        <5> QED
          BY <1>a, <2>1, <2>6, <3>1, <5>1, <5>2 DEF VouchersAccounted
      <4> QED
        BY <4>1, <4>2
    <3> QED
      BY <3>2, <3>3, <3>4 DEF AInv, AcsInv
  <2> QED
    BY <2>1, <2>5, <2>6
<1>31. ASSUME NEW t \in Tasks, MintCrash(t) \/ MintDeadlock(t)
       PROVE  AInv'
  <2>1. /\ lost' = IF task[t].v = None THEN lost ELSE lost \cup {task[t].v}
        /\ \E p \in {"queued", "dropped"} :
             task' = [task EXCEPT ![t].pc = p, ![t].v = None]
        /\ crashes' \in 0 .. MaxCrashes
        /\ UNCHANGED <<row, order, cancel, lock, issue, issueLock, acs, lists,
                       digest, told>>
    BY <1>0, <1>31, CourierConstants
    DEF MintCrash, MintDeadlock, Fault, runs, digests
  <2>2. /\ task' \in [Tasks -> TaskType]
        /\ task'[t].v = None /\ task'[t].pc # "minted"
        /\ \A u \in Tasks : u # t => task'[u] = task[u]
    <3>1. CASE task' = [task EXCEPT ![t].pc = "queued", ![t].v = None]
      BY <1>0, <3>1 DEF TaskType
    <3>2. CASE task' = [task EXCEPT ![t].pc = "dropped", ![t].v = None]
      BY <1>0, <3>2 DEF TaskType
    <3> QED
      BY <2>1, <3>1, <3>2
  <2>3. lost' \subseteq Vouchers \cup Lists \cup Shipments
    BY <1>0, <1>f, <2>1
  <2>4. AcsTypeOK'
    BY <1>0, <2>1, <2>2, <2>3, TypesNext
  <2>5. HandsHold'
    BY <1>h, <2>1, <2>2 DEF HandsHold
  <2>6. VouchersAccounted'
    <3> SUFFICES ASSUME NEW w \in Vouchers, acs'[w].at = "live"
                 PROVE  LET s == acs'[w].of IN
                        \/ w \in lost' \/ InHand(w)'
                        \/ w = row'[s].voucher \/ w \in row'[s].orphans
                        \/ w \in row'[s].previous
      BY DEF VouchersAccounted
    <3>1. InHand(w) => InHand(w)' \/ w \in lost'
      BY <2>1, <2>2, CourierConstants DEF InHand
    <3> QED
      BY <1>a, <2>1, <3>1 DEF VouchersAccounted
  <2> QED
    BY <2>4, <2>5, <2>6 DEF AInv, AcsInv
<1>32. ASSUME NEW s \in Shipments, Reset(s)
       PROVE  AInv'
  <2>1. /\ row' = [row EXCEPT
             ![s].previous = IF row[s].voucher = None THEN row[s].previous
                             ELSE row[s].previous \cup {row[s].voucher},
             ![s].voucher = None, ![s].state = "PENDING_CREATION",
             ![s].minting = "none", ![s].canceling = "none"]
        /\ UNCHANGED <<order, task, cancel, lock, issue, issueLock, acs, lists,
                       lost, crashes, digest, told>>
    BY <1>32 DEF Reset, runs, ground, digests
  <2> DEFINE old == row[s]
             prev == IF old.voucher = None THEN old.previous
                     ELSE old.previous \cup {old.voucher}
             new == [old EXCEPT !.previous = prev, !.voucher = None,
                       !.state = "PENDING_CREATION", !.minting = "none",
                       !.canceling = "none"]
  <2>2. row' = [row EXCEPT ![s] = new]
    BY <1>0, <2>1
  <2>3. prev \subseteq Vouchers /\ old \in RowType
    BY <1>0 DEF RowType
  <2>4. /\ new \in RowType /\ new.orphans = old.orphans /\ new.previous = prev
    <3> HIDE DEF prev, old
    <3> QED
      BY <2>3 DEF RowType, RowStates, Claims
  <2> HIDE DEF new
  <2>5. /\ row' \in [Shipments -> RowType]
        /\ \A y \in Shipments : /\ y # s => row'[y] = row[y]
                                /\ row'[y].orphans = row[y].orphans
        /\ row'[s].previous = prev
    BY <1>0, <2>2, <2>4
  <2>6. AcsTypeOK'
    BY <1>0, <2>1, <2>5, TypesNext
  <2>7. HandsHold'
    BY <1>h, <2>1 DEF HandsHold
  <2>8. VouchersAccounted'
    <3> SUFFICES ASSUME NEW w \in Vouchers, acs'[w].at = "live"
                 PROVE  LET z == acs'[w].of IN
                        \/ w \in lost' \/ InHand(w)'
                        \/ w = row'[z].voucher \/ w \in row'[z].orphans
                        \/ w \in row'[z].previous
      BY DEF VouchersAccounted
    <3>1. InHand(w) => InHand(w)'
      BY <2>1 DEF InHand
    <3>2. acs[w].of \in Shipments
      BY <1>h, <2>1 DEF HandsHold
    <3>3. \/ w \in lost \/ InHand(w)
          \/ w = row[acs[w].of].voucher \/ w \in row[acs[w].of].orphans
          \/ w \in row[acs[w].of].previous
      BY <1>a, <2>1 DEF VouchersAccounted
    <3>4. CASE acs[w].of = s
      <4>1. w # None
        BY CourierConstants
      <4>2. w = old.voucher \/ w \in old.previous => w \in prev
        BY <4>1
      <4>3. /\ acs'[w].of = s /\ lost' = lost
            /\ row'[s].orphans = old.orphans /\ row'[s].previous = prev
        BY <2>1, <2>5, <3>4
      <4>4. \/ w \in lost \/ InHand(w)
            \/ w = old.voucher \/ w \in old.orphans \/ w \in old.previous
        BY <3>3, <3>4
      <4> HIDE DEF old, prev
      <4> QED
        BY <3>1, <4>2, <4>3, <4>4
    <3>5. CASE acs[w].of # s
      BY <2>1, <2>5, <3>1, <3>2, <3>3, <3>5
    <3> QED
      BY <3>4, <3>5
  <2> QED
    BY <2>6, <2>7, <2>8 DEF AInv, AcsInv
<1> QED
  BY <1>1, <1>2, <1>3, <1>4, <1>5, <1>6, <1>7, <1>8, <1>9, <1>10, <1>11,
     <1>12, <1>13, <1>14, <1>15, <1>16, <1>17, <1>18, <1>19, <1>20, <1>21,
     <1>22, <1>23, <1>24, <1>25, <1>26, <1>27, <1>28, <1>29, <1>30, <1>31,
     <1>32, <1>33
  DEF Next, MintStep, CancelStep, IssueStep

\* Whatever crashes and answers are lost, whoever cancels, re-issues, retires
\* or lists at the same time: every voucher that is live at ACS is a row's, a
\* recorded orphan, a former one, in a worker's hand, or was lost with it.
THEOREM VouchersStayAccounted == Spec => []AcsInv
<1>1. AInv /\ UNCHANGED vars => AInv'
  <2> SUFFICES ASSUME AInv, UNCHANGED vars
               PROVE  AInv'
    OBVIOUS
  <2>1. AcsTypeOK'
    BY Types, TypesNext DEF AInv, AcsInv, vars, ground, runs, digests
  <2> QED
    BY <2>1, QuietStep DEF vars, ground
<1>2. AInv /\ [Next]_vars => AInv'
  BY <1>1, NextKeepsAInv
<1>3. AInv => AcsInv
  BY DEF AInv
<1> QED
  BY <1>2, <1>3, InitAInv, PTL DEF Spec

-----------------------------------------------------------------------------
\* A cancellation under way is about the voucher its row still has; the claim
\* or the lock it took keeps every other one out.
Active == {"calling", "deleted", "failing"}

CancelHolds ==
  \A c \in Cancels : cancel[c].pc \in Active =>
    /\ cancel[c].s \in Shipments /\ cancel[c].v \in Vouchers
    /\ row[cancel[c].s].voucher = cancel[c].v
    /\ row[cancel[c].s].state # "CANCELED"
    /\ IF cancel[c].whole THEN lock[cancel[c].s] = c
                          ELSE row[cancel[c].s].canceling = "fresh"
    /\ cancel[c].pc = "deleted" => acs[cancel[c].v].at = "deleted"

OneCancels ==
  \A c, d \in Cancels :
    cancel[c].pc \in Active /\ cancel[d].pc \in Active
      /\ cancel[c].s = cancel[d].s => c = d

CanceledIsDeleted ==
  \A s \in Shipments :
    row[s].state = "CANCELED" /\ row[s].voucher # None
      => acs[row[s].voucher].at = "deleted"

HInv == CancelHolds /\ OneCancels /\ CanceledIsDeleted

LEMMA DeletedStays ==
  ASSUME AInv, Next, NEW v \in Vouchers, acs[v].at = "deleted"
  PROVE  acs'[v].at = "deleted"
<1>0. acs \in [Vouchers -> AcsType]
  BY Types DEF AInv, AcsInv
<1>1. ASSUME NEW w \in FreshVouchers, NEW s, acs' = Issued(w, s)
      PROVE  acs'[v].at = "deleted"
  BY <1>0, <1>1 DEF FreshVouchers, Issued
<1>2. ASSUME NEW w, acs' = Deleted(w)
      PROVE  acs'[v].at = "deleted"
  BY <1>0, <1>2 DEF Deleted, AcsType
<1>3. ASSUME NEW l, acs' = OnNewList(l)
      PROVE  acs'[v].at = "deleted"
  BY <1>0, <1>3 DEF OnNewList, AcsType
<1>4. ASSUME NEW t \in Tasks, MintCall(t) \/ MintAnswerLost(t)
      PROVE  acs'[v].at = "deleted"
  BY <1>1, <1>4 DEF MintCall, MintAnswerLost
<1>5. ASSUME NEW t \in Tasks, MintDuplicate(t)
      PROVE  acs'[v].at = "deleted"
  BY <1>2, <1>5 DEF MintDuplicate
<1>6. ASSUME NEW c \in Cancels, CancelCall(c) \/ CancelAnswerLost(c)
      PROVE  acs'[v].at = "deleted"
  BY <1>2, <1>6 DEF CancelCall, CancelAnswerLost
<1>7. ASSUME NEW r \in Issuers, IssueCall(r)
      PROVE  acs'[v].at = "deleted"
  BY <1>3, <1>7 DEF IssueCall
<1>8. ASSUME NEW t \in Tasks,
             \/ MintDone(t) \/ MintBusy(t) \/ MintClaim(t) \/ MintFails(t)
             \/ MintRelease(t) \/ MintSave(t) \/ MintAdvance(t) \/ MintCrash(t)
             \/ MintDeadlock(t)
      PROVE  UNCHANGED acs
  BY <1>8 DEF MintDone, MintBusy, MintClaim, MintFails, MintRelease, MintSave,
              MintAdvance, MintCrash, MintDeadlock, ground
<1>9. ASSUME NEW c \in Cancels,
             \/ CancelFails(c) \/ CancelSave(c) \/ CancelCrash(c)
             \/ CancelDeadlock(c)
             \/ \E s \in Shipments : StaffCancel(c, s) \/ OrderCancel(c, s)
      PROVE  UNCHANGED acs
  BY <1>9 DEF CancelFails, CancelSave, CancelCrash, CancelDeadlock,
              StaffCancel, OrderCancel, ground
<1>10. ASSUME NEW r \in Issuers,
              IssueBegin(r) \/ IssueEnds(r) \/ IssueSave(r) \/ IssueCrash(r)
       PROVE  UNCHANGED acs
  BY <1>10 DEF IssueBegin, IssueEnds, IssueSave, IssueCrash, ground
<1>11. ASSUME \/ IssueLockLapses \/ DigestClaim \/ DigestSend \/ DigestFails
              \/ DigestCrash
              \/ \E s \in Shipments : MintClaimLapses(s) \/ CancelClaimLapses(s)
                                        \/ Reset(s) \/ Retire(s)
       PROVE  UNCHANGED acs
  BY <1>11 DEF IssueLockLapses, DigestClaim, DigestSend, DigestFails,
               DigestCrash, MintClaimLapses, CancelClaimLapses, Reset, Retire,
               ground
<1> QED
  BY <1>4, <1>5, <1>6, <1>7, <1>8, <1>9, <1>10, <1>11
  DEF Next, MintStep, CancelStep, IssueStep

\* Steps of the mint, the pickup list and the digest, as far as a cancellation
\* sees them: a voucher is only written where there is none.
LEMMA AsideStep ==
  ASSUME HInv, AInv, UNCHANGED <<cancel, lock>>,
         \A v \in Vouchers : acs[v].at = "deleted" => acs'[v].at = "deleted",
         \A s \in Shipments :
           \/ /\ row'[s].voucher = row[s].voucher /\ row'[s].state = row[s].state
              /\ row'[s].canceling = row[s].canceling
           \/ row[s].voucher = None /\ row'[s].state = "NEW"
  PROVE  HInv'
<1>1. None \notin Vouchers
  BY CourierConstants
<1>2. CancelHolds'
  <2> SUFFICES ASSUME NEW c \in Cancels, cancel[c].pc \in Active
               PROVE  /\ cancel[c].s \in Shipments /\ cancel[c].v \in Vouchers
                      /\ row'[cancel[c].s].voucher = cancel[c].v
                      /\ row'[cancel[c].s].state # "CANCELED"
                      /\ IF cancel[c].whole THEN lock[cancel[c].s] = c
                         ELSE row'[cancel[c].s].canceling = "fresh"
                      /\ cancel[c].pc = "deleted" =>
                           acs'[cancel[c].v].at = "deleted"
    BY DEF CancelHolds
  <2> QED
    BY <1>1 DEF HInv, CancelHolds
<1>3. OneCancels'
  BY DEF HInv, OneCancels
<1>4. CanceledIsDeleted'
  <2> SUFFICES ASSUME NEW s \in Shipments, row'[s].state = "CANCELED",
                      row'[s].voucher # None
               PROVE  acs'[row'[s].voucher].at = "deleted"
    BY DEF CanceledIsDeleted
  <2>1. row'[s].voucher = row[s].voucher /\ row[s].state = "CANCELED"
    OBVIOUS
  <2>2. row[s].voucher \in Vouchers
    BY <2>1, Types DEF AInv, AcsInv, RowType
  <2> QED
    BY <2>1, <2>2 DEF HInv, CanceledIsDeleted
<1> QED
  BY <1>2, <1>3, <1>4 DEF HInv

LEMMA InitHInv ==
  ASSUME Init
  PROVE  HInv
  BY DEF Init, HInv, CancelHolds, OneCancels, CanceledIsDeleted, Active

\* A cancellation that has ended, or has not begun, holds nothing: only the
\* others are to be looked at, and its step left what they hold alone.
LEMMA CancelEnds ==
  ASSUME HInv, AInv, NEW c \in Cancels,
         cancel'[c].pc \notin Active,
         \A d \in Cancels \ {c} : cancel'[d] = cancel[d],
         \A v \in Vouchers : acs[v].at = "deleted" => acs'[v].at = "deleted",
         \A d \in Cancels \ {c} : cancel[d].pc \in Active =>
           /\ row'[cancel[d].s].voucher = row[cancel[d].s].voucher
           /\ row'[cancel[d].s].state = row[cancel[d].s].state
           /\ row'[cancel[d].s].canceling = row[cancel[d].s].canceling
           /\ lock'[cancel[d].s] = lock[cancel[d].s],
         CanceledIsDeleted'
  PROVE  HInv'
<1>1. \A d \in Cancels : cancel'[d].pc \in Active
        => d # c /\ cancel'[d] = cancel[d] /\ cancel[d].pc \in Active
  OBVIOUS
<1>2. OneCancels'
  <2> SUFFICES ASSUME NEW d \in Cancels, NEW e \in Cancels,
                      cancel'[d].pc \in Active, cancel'[e].pc \in Active,
                      cancel'[d].s = cancel'[e].s
               PROVE  d = e
    BY DEF OneCancels
  <2> QED
    BY <1>1 DEF HInv, OneCancels
<1>3. CancelHolds'
  <2> SUFFICES ASSUME NEW d \in Cancels, cancel'[d].pc \in Active
               PROVE  /\ cancel'[d].s \in Shipments /\ cancel'[d].v \in Vouchers
                      /\ row'[cancel'[d].s].voucher = cancel'[d].v
                      /\ row'[cancel'[d].s].state # "CANCELED"
                      /\ IF cancel'[d].whole THEN lock'[cancel'[d].s] = d
                         ELSE row'[cancel'[d].s].canceling = "fresh"
                      /\ cancel'[d].pc = "deleted" =>
                           acs'[cancel'[d].v].at = "deleted"
    BY DEF CancelHolds
  <2> QED
    BY <1>1 DEF HInv, CancelHolds
<1> QED
  BY <1>2, <1>3 DEF HInv

\* A cancellation moves on, and nothing of the rows or the locks with it.
LEMMA CancelGoesOn ==
  ASSUME HInv, AInv, NEW c \in Cancels, UNCHANGED <<row, lock>>,
         cancel[c].pc = "calling",
         NEW p \in {"deleted", "failing"},
         \A d \in Cancels : /\ d # c => cancel'[d].pc = cancel[d].pc
                            /\ cancel'[d].s = cancel[d].s
                            /\ cancel'[d].v = cancel[d].v
                            /\ cancel'[d].whole = cancel[d].whole,
         cancel'[c].pc = p,
         p = "deleted" => acs'[cancel[c].v].at = "deleted",
         \A v \in Vouchers : acs[v].at = "deleted" => acs'[v].at = "deleted"
  PROVE  HInv'
<1>2. \A d \in Cancels :
        /\ cancel'[d].pc \in Active => cancel[d].pc \in Active
        /\ cancel'[d].s = cancel[d].s
        /\ cancel'[d].v = cancel[d].v
        /\ cancel'[d].whole = cancel[d].whole
        /\ cancel'[d].pc = "deleted" =>
             cancel[d].pc = "deleted" \/ (d = c /\ p = "deleted")
  BY DEF Active
<1>3. OneCancels'
  BY <1>2 DEF HInv, OneCancels
<1>4. CancelHolds'
  <2> SUFFICES ASSUME NEW d \in Cancels, cancel'[d].pc \in Active
               PROVE  /\ cancel[d].s \in Shipments /\ cancel[d].v \in Vouchers
                      /\ row[cancel[d].s].voucher = cancel[d].v
                      /\ row[cancel[d].s].state # "CANCELED"
                      /\ IF cancel[d].whole THEN lock[cancel[d].s] = d
                         ELSE row[cancel[d].s].canceling = "fresh"
                      /\ cancel'[d].pc = "deleted" =>
                           acs'[cancel[d].v].at = "deleted"
    BY <1>2 DEF CancelHolds
  <2> QED
    BY <1>2 DEF HInv, CancelHolds
<1>5. CanceledIsDeleted'
  <2> SUFFICES ASSUME NEW s \in Shipments, row[s].state = "CANCELED",
                      row[s].voucher # None
               PROVE  acs'[row[s].voucher].at = "deleted"
    BY DEF CanceledIsDeleted
  <2>1. row[s].voucher \in Vouchers
    BY Types DEF AInv, AcsInv, RowType
  <2> QED
    BY <2>1 DEF HInv, CanceledIsDeleted
<1> QED
  BY <1>3, <1>4, <1>5 DEF HInv

\* A cancellation begins: the row it is about has none under way.
LEMMA CancelBegins ==
  ASSUME HInv, AInv, NEW c \in Cancels, NEW s \in Shipments, UNCHANGED acs,
         NEW w \in BOOLEAN,
         CancelAnswer(s) = "call", lock[s] = None,
         cancel' = [cancel EXCEPT ![c] = [pc |-> "calling", s |-> s,
                      v |-> row[s].voucher, whole |-> w]],
         IF w THEN lock' = [lock EXCEPT ![s] = c] /\ UNCHANGED row
              ELSE row' = [row EXCEPT ![s].canceling = "fresh"] /\ UNCHANGED lock
  PROVE  HInv'
<1>0. /\ cancel \in [Cancels -> CancelType] /\ row \in [Shipments -> RowType]
      /\ lock \in [Shipments -> Cancels \cup {None}]
  BY Types DEF AInv, AcsInv
<1>1. /\ row[s].state # "CANCELED" /\ row[s].voucher # None
      /\ row[s].canceling # "fresh"
  BY DEF CancelAnswer
<1>2. /\ row[s].voucher \in Vouchers
      /\ \A z \in Shipments : /\ row'[z].voucher = row[z].voucher
                              /\ row'[z].state = row[z].state
                              /\ z # s => row'[z].canceling = row[z].canceling
      /\ ~w => row'[s].canceling = "fresh"
      /\ \A z \in Shipments : z # s => lock'[z] = lock[z]
      /\ w => lock'[s] = c
  BY <1>0, <1>1 DEF RowType
<1>3. /\ \A d \in Cancels \ {c} : cancel'[d] = cancel[d]
      /\ cancel'[c].pc = "calling" /\ cancel'[c].s = s
      /\ cancel'[c].v = row[s].voucher /\ cancel'[c].whole = w
  BY <1>0
<1>4. \A d \in Cancels : cancel[d].pc \in Active => cancel[d].s # s
  <2> SUFFICES ASSUME NEW d \in Cancels, cancel[d].pc \in Active,
                      cancel[d].s = s
               PROVE  FALSE
    OBVIOUS
  <2>1. d # None
    BY CourierConstants
  <2> QED
    BY <1>1, <2>1 DEF HInv, CancelHolds
<1>5. OneCancels'
  <2> SUFFICES ASSUME NEW d \in Cancels, NEW e \in Cancels,
                      cancel'[d].pc \in Active, cancel'[e].pc \in Active,
                      cancel'[d].s = cancel'[e].s
               PROVE  d = e
    BY DEF OneCancels
  <2>1. CASE d # c /\ e # c
    BY <2>1, <1>3 DEF HInv, OneCancels
  <2>2. CASE d = c \/ e = c
    BY <2>2, <1>3, <1>4
  <2> QED
    BY <2>1, <2>2
<1>6. CancelHolds'
  <2> SUFFICES ASSUME NEW d \in Cancels, cancel'[d].pc \in Active
               PROVE  /\ cancel'[d].s \in Shipments /\ cancel'[d].v \in Vouchers
                      /\ row'[cancel'[d].s].voucher = cancel'[d].v
                      /\ row'[cancel'[d].s].state # "CANCELED"
                      /\ IF cancel'[d].whole THEN lock'[cancel'[d].s] = d
                         ELSE row'[cancel'[d].s].canceling = "fresh"
                      /\ cancel'[d].pc = "deleted" =>
                           acs'[cancel'[d].v].at = "deleted"
    BY DEF CancelHolds
  <2>1. CASE d # c
    <3>1. cancel'[d] = cancel[d] /\ cancel[d].s # s
      BY <2>1, <1>3, <1>4
    <3> QED
      BY <3>1, <1>2 DEF HInv, CancelHolds
  <2>2. CASE d = c
    BY <2>2, <1>1, <1>2, <1>3
  <2> QED
    BY <2>1, <2>2
<1>7. CanceledIsDeleted'
  BY <1>2 DEF HInv, CanceledIsDeleted
<1> QED
  BY <1>5, <1>6, <1>7 DEF HInv

LEMMA NextKeepsHInv ==
  ASSUME AInv, HInv, Next, ~SlowCalls, "retire" \notin Entrances
  PROVE  HInv'
<1>0. /\ row \in [Shipments -> RowType] /\ cancel \in [Cancels -> CancelType]
      /\ lock \in [Shipments -> Cancels \cup {None}]
  BY Types DEF AInv, AcsInv
<1>a. \A v \in Vouchers : acs[v].at = "deleted" => acs'[v].at = "deleted"
  BY DeletedStays
<1>n. None \notin Vouchers /\ None \notin Cancels /\ None \notin Shipments
  BY CourierConstants
<1>c. \A c \in Cancels : cancel[c].pc \in Active <=>
        cancel[c].pc \in {"calling", "deleted", "failing"}
  BY DEF Active
\* Rows but for the one a step writes.
<1>1. ASSUME NEW t \in Tasks,
             MintStep(t) \/ MintAnswerLost(t) \/ MintCrash(t) \/ MintDeadlock(t)
      PROVE  HInv'
  <2>t. TaskOf[t] \in Shipments
    BY CourierConstants
  <2>1. CASE MintClaim(t)
    <3>1. \A s \in Shipments : /\ row'[s].voucher = row[s].voucher
                               /\ row'[s].state = row[s].state
                               /\ row'[s].canceling = row[s].canceling
      BY <1>0, <2>1, <2>t DEF MintClaim, RowType
    <3> QED
      BY <1>a, <2>1, <3>1, AsideStep DEF MintClaim
  <2>2. CASE MintRelease(t)
    <3>1. \A s \in Shipments : /\ row'[s].voucher = row[s].voucher
                               /\ row'[s].state = row[s].state
                               /\ row'[s].canceling = row[s].canceling
      BY <1>0, <2>2, <2>t DEF MintRelease, RowType
    <3> QED
      BY <1>a, <2>2, <3>1, AsideStep DEF MintRelease
  <2>3. CASE MintSave(t)
    <3>1. \A s \in Shipments :
            IF s = TaskOf[t] THEN row[s].voucher = None /\ row'[s].state = "NEW"
                             ELSE row'[s] = row[s]
      BY <1>0, <2>3, <2>t DEF MintSave, SaveVoucher, RowType
    <3> QED
      BY <1>a, <2>3, <3>1, AsideStep DEF MintSave
  <2>4. CASE MintDuplicate(t)
    <3>1. \A s \in Shipments : /\ row'[s].voucher = row[s].voucher
                               /\ row'[s].state = row[s].state
                               /\ row'[s].canceling = row[s].canceling
      BY <1>0, <2>4, <2>t DEF MintDuplicate, KeepOrphan, RowType
    <3> QED
      BY <1>a, <2>4, <3>1, AsideStep DEF MintDuplicate
  <2>5. CASE \/ MintDone(t) \/ MintBusy(t) \/ MintCall(t) \/ MintFails(t)
             \/ MintAdvance(t) \/ MintAnswerLost(t) \/ MintCrash(t)
             \/ MintDeadlock(t)
    <3>1. UNCHANGED <<row, cancel, lock>>
      BY <2>5 DEF MintDone, MintBusy, MintCall, MintFails, MintAdvance,
                  MintAnswerLost, MintCrash, MintDeadlock
    <3> QED
      BY <1>a, <3>1, AsideStep
  <2> QED
    BY <1>1, <2>1, <2>2, <2>3, <2>4, <2>5 DEF MintStep
<1>2. ASSUME NEW c \in Cancels, NEW s \in Shipments, StaffCancel(c, s)
      PROVE  HInv'
  <2>1. CASE CancelAnswer(s) = "call"
    <3>1. /\ row' = [row EXCEPT ![s].canceling = "fresh"]
          /\ cancel' = [cancel EXCEPT ![c] = [pc |-> "calling", s |-> s,
                          v |-> row[s].voucher, whole |-> FALSE]]
          /\ lock[s] = None /\ UNCHANGED <<lock, acs>>
      BY <1>2, <2>1 DEF StaffCancel, ground
    <3> QED
      BY <2>1, <3>1, CancelBegins
  <2>2. CASE CancelAnswer(s) \in {"already", "refused"}
    <3>1. /\ UNCHANGED <<row, lock, acs>>
          /\ cancel' = [cancel EXCEPT ![c].pc = "done"]
      BY <1>2, <2>2 DEF StaffCancel, ground
    <3>2. /\ cancel'[c].pc \notin Active
          /\ \A d \in Cancels \ {c} : cancel'[d] = cancel[d]
      BY <1>0, <3>1 DEF CancelType, Active
    <3>3. CanceledIsDeleted'
      BY <3>1 DEF HInv, CanceledIsDeleted
    <3> QED
      BY <1>a, <3>1, <3>2, <3>3, CancelEnds
  <2>3. CASE CancelAnswer(s) = "local"
    <3>1. /\ row' = CancelLocally(s) /\ UNCHANGED <<lock, acs>>
          /\ cancel' = [cancel EXCEPT ![c].pc = "done"]
          /\ row[s].voucher = None
      BY <1>2, <2>3 DEF StaffCancel, ground, CancelAnswer
    <3>2. /\ cancel'[c].pc \notin Active
          /\ \A d \in Cancels \ {c} : cancel'[d] = cancel[d]
      BY <1>0, <3>1 DEF CancelType, Active
    <3>3. \A z \in Shipments : /\ row'[z].voucher = row[z].voucher
                               /\ z # s => row'[z] = row[z]
      BY <1>0, <3>1 DEF CancelLocally, RowType
    <3>4. CanceledIsDeleted'
      BY <3>1, <3>3 DEF HInv, CanceledIsDeleted
    <3>5. \A d \in Cancels : cancel[d].pc \in Active =>
            cancel[d].s # s /\ cancel[d].s \in Shipments
      BY <1>n, <3>1 DEF HInv, CancelHolds
    <3> QED
      BY <1>a, <3>1, <3>2, <3>3, <3>4, <3>5, CancelEnds
  <2> QED
    BY <1>2, <2>1, <2>2, <2>3 DEF StaffCancel
<1>3. ASSUME NEW c \in Cancels, NEW s \in Shipments, OrderCancel(c, s)
      PROVE  HInv'
  <2>1. CASE /\ CancelAnswer(s) = "call"
             /\ lock' = [lock EXCEPT ![s] = c]
             /\ cancel' = [cancel EXCEPT ![c] = [pc |-> "calling", s |-> s,
                             v |-> row[s].voucher, whole |-> TRUE]]
             /\ UNCHANGED <<row, order>>
    <3>1. lock[s] = None /\ UNCHANGED acs
      BY <1>3 DEF OrderCancel, ground
    <3> QED
      BY <2>1, <3>1, CancelBegins
  <2>2. CASE /\ UNCHANGED <<row, lock>>
             /\ cancel' = [cancel EXCEPT ![c].pc = "done"]
    <3>1. /\ UNCHANGED <<row, lock, acs>>
          /\ cancel' = [cancel EXCEPT ![c].pc = "done"]
      BY <1>3, <2>2 DEF OrderCancel, ground
    <3>2. /\ cancel'[c].pc \notin Active
          /\ \A d \in Cancels \ {c} : cancel'[d] = cancel[d]
      BY <1>0, <3>1 DEF CancelType, Active
    <3>3. CanceledIsDeleted'
      BY <3>1 DEF HInv, CanceledIsDeleted
    <3> QED
      BY <1>a, <3>1, <3>2, <3>3, CancelEnds
  <2>3. CASE /\ CancelAnswer(s) \in {"already", "local"}
             /\ row' = CancelLocally(s) /\ UNCHANGED lock
             /\ cancel' = [cancel EXCEPT ![c].pc = "done"]
    <3>1. /\ row' = CancelLocally(s) /\ UNCHANGED <<lock, acs>>
          /\ cancel' = [cancel EXCEPT ![c].pc = "done"]
          /\ row[s].voucher = None \/ row[s].state = "CANCELED"
      BY <1>3, <2>3 DEF OrderCancel, ground, CancelAnswer
    <3>2. /\ cancel'[c].pc \notin Active
          /\ \A d \in Cancels \ {c} : cancel'[d] = cancel[d]
      BY <1>0, <3>1 DEF CancelType, Active
    <3>3. \A z \in Shipments : /\ row'[z].voucher = row[z].voucher
                               /\ z # s => row'[z] = row[z]
      BY <1>0, <3>1 DEF CancelLocally, RowType
    <3>4. CanceledIsDeleted'
      BY <3>1, <3>3 DEF HInv, CanceledIsDeleted
    <3>5. \A d \in Cancels : cancel[d].pc \in Active =>
            cancel[d].s # s /\ cancel[d].s \in Shipments
      BY <1>n, <3>1 DEF HInv, CancelHolds
    <3> QED
      BY <1>a, <3>1, <3>2, <3>3, <3>4, <3>5, CancelEnds
  <2> QED
    BY <1>3, <2>1, <2>2, <2>3 DEF OrderCancel
<1>15. ASSUME NEW c \in Cancels, CancelDeadlock(c)
       PROVE  HInv'
  <2>1. /\ UNCHANGED <<row, lock, acs>>
        /\ cancel' = [cancel EXCEPT ![c].pc = "done"]
    BY <1>15 DEF CancelDeadlock, ground
  <2>2. /\ cancel'[c].pc \notin Active
        /\ \A d \in Cancels \ {c} : cancel'[d] = cancel[d]
    BY <1>0, <2>1 DEF CancelType, Active
  <2>3. CanceledIsDeleted'
    BY <2>1 DEF HInv, CanceledIsDeleted
  <2> QED
    BY <1>a, <2>1, <2>2, <2>3, CancelEnds
<1>4. ASSUME NEW c \in Cancels, CancelCall(c)
      PROVE  HInv'
  <2>1. /\ UNCHANGED <<row, lock>> /\ cancel[c].pc = "calling"
        /\ cancel' = [cancel EXCEPT ![c].pc = "deleted"]
        /\ acs' = Deleted(cancel[c].v)
    BY <1>4 DEF CancelCall
  <2>2. cancel[c].v \in Vouchers
    BY <2>1 DEF HInv, CancelHolds, Active
  <2>3. acs'[cancel[c].v].at = "deleted"
    BY <2>1, <2>2, Types DEF Deleted, AcsType, AInv, AcsInv
  <2>4. /\ cancel'[c].pc = "deleted"
        /\ \A d \in Cancels : /\ d # c => cancel'[d].pc = cancel[d].pc
                              /\ cancel'[d].s = cancel[d].s
                              /\ cancel'[d].v = cancel[d].v
                              /\ cancel'[d].whole = cancel[d].whole
    BY <1>0, <2>1 DEF CancelType
  <2> QED
    BY <1>a, <2>1, <2>3, <2>4, CancelGoesOn
<1>5. ASSUME NEW c \in Cancels, CancelFails(c) \/ CancelAnswerLost(c)
      PROVE  HInv'
  <2>1. /\ UNCHANGED <<row, lock>> /\ cancel[c].pc = "calling"
        /\ cancel' = [cancel EXCEPT ![c].pc = "failing"]
    BY <1>5 DEF CancelFails, CancelAnswerLost
  <2>2. /\ cancel'[c].pc = "failing"
        /\ \A d \in Cancels : /\ d # c => cancel'[d].pc = cancel[d].pc
                              /\ cancel'[d].s = cancel[d].s
                              /\ cancel'[d].v = cancel[d].v
                              /\ cancel'[d].whole = cancel[d].whole
    BY <1>0, <2>1 DEF CancelType
  <2> QED
    BY <1>a, <2>1, <2>2, CancelGoesOn
<1>6. ASSUME NEW c \in Cancels, CancelSave(c)
      PROVE  HInv'
  <2> DEFINE s == cancel[c].s
  <2>0. /\ cancel[c].pc \in Active /\ s \in Shipments
        /\ cancel[c].v \in Vouchers /\ row[s].voucher = cancel[c].v
        /\ cancel[c].pc = "deleted" => acs[cancel[c].v].at = "deleted"
    BY <1>6 DEF CancelSave, HInv, CancelHolds, Active
  <2>1. /\ UNCHANGED acs /\ cancel' = [cancel EXCEPT ![c].pc = "done"]
        /\ lock' = [lock EXCEPT ![s] = None] \/ UNCHANGED lock
    BY <1>6 DEF CancelSave, ground
  <2>2. \/ /\ cancel[c].pc = "deleted"
           /\ row' = [row EXCEPT ![s].state = "CANCELED",
                                 ![s].canceling = "none"]
        \/ \E claim \in ClaimAfterFailure(c) :
             row' = [row EXCEPT ![s].canceling = claim]
    BY <1>6 DEF CancelSave
  <2>3. /\ cancel'[c].pc \notin Active
        /\ \A d \in Cancels \ {c} : cancel'[d] = cancel[d]
    BY <1>0, <2>1 DEF CancelType, Active
  <2>4. \A d \in Cancels \ {c} : cancel[d].pc \in Active =>
          cancel[d].s # s /\ cancel[d].s \in Shipments
    BY <2>0 DEF HInv, OneCancels, CancelHolds
  <2>5. /\ \A z \in Shipments : z # s => row'[z] = row[z]
        /\ row'[s].voucher = row[s].voucher
        /\ cancel[c].pc = "deleted" \/ row'[s].state = row[s].state
    BY <1>0, <2>0, <2>2, ZenonT(60) DEF RowType
  <2>6. \A z \in Shipments : z # s => lock'[z] = lock[z]
    BY <1>0, <2>1
  <2>7. CanceledIsDeleted'
    <3> SUFFICES ASSUME NEW z \in Shipments, row'[z].state = "CANCELED",
                        row'[z].voucher # None
                 PROVE  acs[row'[z].voucher].at = "deleted"
      BY <2>1 DEF CanceledIsDeleted
    <3> HIDE DEF s
    <3>1. CASE z # s
      BY <3>1, <2>5 DEF HInv, CanceledIsDeleted
    <3>2. CASE z = s
      BY <3>2, <2>0, <2>5 DEF HInv, CanceledIsDeleted
    <3> QED
      BY <3>1, <3>2
  <2> HIDE DEF s
  <2> QED
    BY <1>a, <2>3, <2>4, <2>5, <2>6, <2>7, CancelEnds
<1>7. ASSUME NEW c \in Cancels, CancelCrash(c)
      PROVE  HInv'
  <2>1. /\ UNCHANGED <<row, acs>> /\ cancel[c].pc \in Active
        /\ cancel' = [cancel EXCEPT ![c] =
             [pc |-> "idle", s |-> None, v |-> None, whole |-> FALSE]]
        /\ lock' = IF cancel[c].whole
                     THEN [lock EXCEPT ![cancel[c].s] = None] ELSE lock
    BY <1>7 DEF CancelCrash, Active
  <2>2. /\ cancel'[c].pc \notin Active
        /\ \A d \in Cancels \ {c} : cancel'[d] = cancel[d]
    BY <1>0, <2>1 DEF Active
  <2>3. \A d \in Cancels \ {c} : cancel[d].pc \in Active =>
          cancel[d].s # cancel[c].s /\ cancel[d].s \in Shipments
    BY <2>1 DEF HInv, OneCancels, CancelHolds
  <2>4. \A z \in Shipments : z # cancel[c].s => lock'[z] = lock[z]
    BY <1>0, <2>1
  <2>5. CanceledIsDeleted'
    BY <2>1 DEF HInv, CanceledIsDeleted
  <2> QED
    BY <1>a, <2>1, <2>2, <2>3, <2>4, <2>5, CancelEnds
<1>8. ASSUME NEW r \in Issuers, IssueBegin(r) \/ IssueStep(r) \/ IssueCrash(r)
      PROVE  HInv'
  <2>1. CASE IssueSave(r)
    <3>1. \A s \in Shipments : /\ row'[s].voucher = row[s].voucher
                               /\ row'[s].state = row[s].state
                               /\ row'[s].canceling = row[s].canceling
      BY <1>0, <2>1 DEF IssueSave, Linked, RowType
    <3> QED
      BY <1>a, <2>1, <3>1, AsideStep DEF IssueSave
  <2>2. CASE IssueBegin(r) \/ IssueCall(r) \/ IssueEnds(r) \/ IssueCrash(r)
    <3>1. UNCHANGED <<row, cancel, lock>>
      BY <2>2 DEF IssueBegin, IssueCall, IssueEnds, IssueCrash
    <3> QED
      BY <1>a, <3>1, AsideStep
  <2> QED
    BY <1>8, <2>1, <2>2 DEF IssueStep
<1>9. ASSUME NEW s \in Shipments, MintClaimLapses(s)
      PROVE  HInv'
  <2>1. \A z \in Shipments : /\ row'[z].voucher = row[z].voucher
                             /\ row'[z].state = row[z].state
                             /\ row'[z].canceling = row[z].canceling
    BY <1>0, <1>9 DEF MintClaimLapses, RowType
  <2> QED
    BY <1>a, <1>9, <2>1, AsideStep DEF MintClaimLapses
\* Within its TTL the claim outlasts the call it was taken for.
<1>10. ASSUME NEW s \in Shipments, CancelClaimLapses(s)
       PROVE  HInv'
  <2>1. /\ UNCHANGED <<cancel, lock, acs>>
        /\ row' = [row EXCEPT ![s].canceling = "stale"]
        /\ \A c \in Cancels : cancel[c].s = s => cancel[c].pc \notin Active
    BY <1>10, <1>c DEF CancelClaimLapses, ground
  <2>2. \A z \in Shipments : /\ row'[z].voucher = row[z].voucher
                             /\ row'[z].state = row[z].state
                             /\ z # s => row'[z] = row[z]
    BY <1>0, <2>1 DEF RowType
  <2>3. CanceledIsDeleted'
    BY <2>1, <2>2 DEF HInv, CanceledIsDeleted
  <2>4. OneCancels'
    BY <2>1 DEF HInv, OneCancels
  <2>5. CancelHolds'
    BY <2>1, <2>2 DEF HInv, CancelHolds
  <2> QED
    BY <2>3, <2>4, <2>5 DEF HInv
<1>11. ASSUME NEW s \in Shipments, Reset(s)
       PROVE  HInv'
  <2>1. /\ UNCHANGED <<cancel, lock, acs>> /\ row[s].state = "CANCELED"
        /\ \A z \in Shipments : z # s => row'[z] = row[z]
        /\ row'[s].voucher = None
    BY <1>0, <1>11 DEF Reset, ground, RowType
  <2>2. \A c \in Cancels : cancel[c].pc \in Active => cancel[c].s # s
    BY <2>1 DEF HInv, CancelHolds
  <2>3. CanceledIsDeleted'
    BY <2>1 DEF HInv, CanceledIsDeleted
  <2>4. OneCancels'
    BY <2>1 DEF HInv, OneCancels
  <2>5. CancelHolds'
    BY <2>1, <2>2 DEF HInv, CancelHolds
  <2> QED
    BY <2>3, <2>4, <2>5 DEF HInv
<1>12. ASSUME IssueLockLapses \/ DigestSend \/ DigestCrash
       PROVE  HInv'
  <2>1. UNCHANGED <<row, cancel, lock>>
    BY <1>12 DEF IssueLockLapses, DigestSend, DigestCrash
  <2> QED
    BY <1>a, <2>1, AsideStep
<1>13. ASSUME DigestClaim \/ DigestFails
       PROVE  HInv'
  <2>1. \A z \in Shipments : /\ row'[z].voucher = row[z].voucher
                             /\ row'[z].state = row[z].state
                             /\ row'[z].canceling = row[z].canceling
    BY <1>0, <1>13 DEF DigestClaim, DigestFails, RowType
  <2>2. UNCHANGED <<cancel, lock>>
    BY <1>13 DEF DigestClaim, DigestFails
  <2> QED
    BY <1>a, <2>1, <2>2, AsideStep
<1>14. \A s \in Shipments : ~Retire(s)
  BY DEF Retire
<1> QED
  BY <1>1, <1>2, <1>3, <1>4, <1>5, <1>6, <1>7, <1>8, <1>9, <1>10, <1>11,
     <1>12, <1>13, <1>14, <1>15
  DEF Next, CancelStep

\* A canceled row that holds a voucher holds one ACS has deleted, when no call
\* outlasts its claim and nobody retires rows by hand: the two conditions the
\* phases of cancel_voucher rest on.
THEOREM CanceledHoldNoParcel ==
  ASSUME ~SlowCalls, "retire" \notin Entrances
  PROVE  Spec => []CanceledIsDead
<1>1. AInv /\ HInv /\ [Next]_vars => AInv' /\ HInv'
  <2>1. CASE Next
    BY <2>1, NextKeepsAInv, NextKeepsHInv
  <2>2. CASE UNCHANGED vars
    BY <2>2 DEF vars, runs, digests, ground, AInv, AcsInv, AcsTypeOK,
       VouchersAccounted, InHand, HandsHold, HInv, CancelHolds, OneCancels,
       CanceledIsDeleted, Active
  <2> QED
    BY <2>1, <2>2
<1>2. Init => AInv /\ HInv
  BY InitAInv, InitHInv
<1>3. HInv => CanceledIsDead
  BY DEF HInv, CanceledIsDeleted, CanceledIsDead
<1> QED
  BY <1>1, <1>2, <1>3, PTL DEF Spec
-----------------------------------------------------------------------------
\* One parcel.  A task between its claim and its answer is alone with its row.
Minting(t) == task[t].pc \in {"calling", "minted", "failing", "rejected"}

MintsAlone ==
  /\ \A t \in Tasks : Minting(t) =>
       row[TaskOf[t]].minting = "fresh" /\ row[TaskOf[t]].voucher = None
  /\ \A t, u \in Tasks :
       (Minting(t) /\ Minting(u) /\ TaskOf[t] = TaskOf[u]) => t = u

NoSpares ==
  \A s \in Shipments : row[s].orphans = {} /\ row[s].previous = {}

MInv == MintsAlone /\ NoSpares

\* No task begins to mint, and the rows of those that do stay as they are.
LEMMA NoneBeginsToMint ==
  ASSUME MInv, \A t \in Tasks : Minting(t)' => Minting(t),
         \A t \in Tasks : Minting(t)' =>
           /\ row'[TaskOf[t]].minting = row[TaskOf[t]].minting
           /\ row'[TaskOf[t]].voucher = row[TaskOf[t]].voucher,
         \A s \in Shipments : /\ row'[s].orphans = row[s].orphans
                              /\ row'[s].previous = row[s].previous
  PROVE  MInv'
<1>1. NoSpares'
  BY DEF MInv, NoSpares
<1>2. MintsAlone'
  BY DEF MInv, MintsAlone
<1> QED
  BY <1>1, <1>2 DEF MInv

LEMMA MintKeepsMInv ==
  ASSUME AInv, MInv, NEW t \in Tasks,
         MintStep(t) \/ MintAnswerLost(t) \/ MintCrash(t) \/ MintDeadlock(t)
  PROVE  MInv'
<1>0. /\ row \in [Shipments -> RowType] /\ task \in [Tasks -> TaskType]
      /\ TaskOf[t] \in Shipments
  BY Types, CourierConstants DEF AInv, AcsInv
<1>1. CASE MintClaim(t)
  <2> DEFINE s == TaskOf[t]
  <2>1. /\ row[s].voucher = None /\ row[s].minting # "fresh"
        /\ row' = [row EXCEPT ![s].minting = "fresh"]
        /\ task' = [task EXCEPT ![t].pc = "calling"]
    BY <1>1 DEF MintClaim
  <2>2. \A u \in Tasks : u # t => task'[u] = task[u]
    BY <2>1
  <2>3. \A u \in Tasks : TaskOf[u] = s => ~Minting(u)
    BY <2>1 DEF MInv, MintsAlone
  <2>4. /\ row'[s].minting = "fresh" /\ row'[s].voucher = None
        /\ \A z \in Shipments : /\ z # s => row'[z] = row[z]
                                /\ row'[z].orphans = row[z].orphans
                                /\ row'[z].previous = row[z].previous
    BY <1>0, <2>1 DEF RowType
  <2>5. \A u \in Tasks : TaskOf[u] \in Shipments
    BY CourierConstants
  <2> HIDE DEF s
  <2>6. NoSpares'
    BY <2>4 DEF MInv, NoSpares
  <2>7. \A u \in Tasks : Minting(u)' =>
          u = t \/ (Minting(u) /\ TaskOf[u] # s)
    BY <2>2, <2>3 DEF Minting
  <2>8. MintsAlone'
    BY <2>4, <2>5, <2>7 DEF MInv, MintsAlone, s
  <2> QED
    BY <2>6, <2>8 DEF MInv
<1>2. CASE MintRelease(t) \/ MintSave(t)
  <2> DEFINE s == TaskOf[t]
  <2>1. Minting(t) /\ task' = [task EXCEPT ![t] = task'[t]]
    BY <1>0, <1>2 DEF MintRelease, MintSave, Minting
  <2>2. ~Minting(t)'
    BY <1>0, <1>2 DEF MintRelease, MintSave, Minting, Retry, TaskType
  <2>3. \A z \in Shipments : /\ z # s => row'[z] = row[z]
                             /\ row'[z].orphans = row[z].orphans
                             /\ row'[z].previous = row[z].previous
    BY <1>0, <1>2 DEF MintRelease, MintSave, SaveVoucher, RowType
  <2>4. \A u \in Tasks : TaskOf[u] \in Shipments
    BY CourierConstants
  <2>5. \A u \in Tasks : Minting(u)' => (Minting(u) /\ u # t)
    <3>1. \A u \in Tasks : u # t => task'[u] = task[u]
      BY <1>0, <2>1
    <3> QED
      BY <2>2, <3>1 DEF Minting
  <2> HIDE DEF s
  <2>6. \A u \in Tasks : Minting(u)' => TaskOf[u] # s
    BY <2>1, <2>5 DEF MInv, MintsAlone, s
  <2> QED
    BY <2>3, <2>4, <2>5, <2>6, NoneBeginsToMint
<1>3. CASE MintDuplicate(t)
  BY <1>3 DEF MintDuplicate, MInv, MintsAlone, Minting
<1>4. CASE \/ MintDone(t) \/ MintBusy(t) \/ MintCall(t) \/ MintFails(t)
           \/ MintAdvance(t) \/ MintAnswerLost(t) \/ MintCrash(t)
           \/ MintDeadlock(t)
  <2>1. UNCHANGED row
    BY <1>4 DEF MintDone, MintBusy, MintCall, MintFails, MintAdvance,
                MintAnswerLost, MintCrash, MintDeadlock
  <2>2. \A u \in Tasks : Minting(u)' => Minting(u)
    <3> SUFFICES ASSUME NEW u \in Tasks, Minting(u)'
                 PROVE  Minting(u)
      OBVIOUS
    <3>1. CASE MintDone(t) \/ MintBusy(t)
      BY <1>0, <3>1 DEF MintDone, MintBusy, Retry, Minting, TaskType
    <3>2. CASE MintCall(t) \/ MintFails(t) \/ MintAnswerLost(t)
      BY <1>0, <3>2 DEF MintCall, MintFails, MintAnswerLost, Minting, TaskType
    <3>3. CASE MintAdvance(t) \/ MintCrash(t) \/ MintDeadlock(t)
      BY <1>0, <3>3 DEF MintAdvance, MintCrash, MintDeadlock, Minting, TaskType
    <3> QED
      BY <1>4, <3>1, <3>2, <3>3
  <2> QED
    BY <2>1, <2>2, NoneBeginsToMint
<1> QED
  BY <1>1, <1>2, <1>3, <1>4 DEF MintStep

LEMMA NextKeepsMInv ==
  ASSUME AInv, MInv, Next, ~SlowCalls, "reissue" \notin Entrances
  PROVE  MInv'
<1>0. /\ row \in [Shipments -> RowType] /\ cancel \in [Cancels -> CancelType]
      /\ issue \in [Issuers -> IssueType]
      /\ \A t \in Tasks : TaskOf[t] \in Shipments
  BY Types, CourierConstants DEF AInv, AcsInv
<1>a. ASSUME UNCHANGED task,
             \A s \in Shipments : /\ row'[s].minting = row[s].minting
                                  /\ row'[s].voucher = row[s].voucher
                                  /\ row'[s].orphans = row[s].orphans
                                  /\ row'[s].previous = row[s].previous
      PROVE  MInv'
  <2>1. \A t \in Tasks : Minting(t)' => Minting(t)
    BY <1>a DEF Minting
  <2> QED
    BY <1>0, <1>a, <2>1, NoneBeginsToMint
<1>1. ASSUME NEW t \in Tasks,
             MintStep(t) \/ MintAnswerLost(t) \/ MintCrash(t) \/ MintDeadlock(t)
      PROVE  MInv'
  BY <1>1, MintKeepsMInv
<1>2. ASSUME NEW c \in Cancels, NEW s \in Shipments,
             StaffCancel(c, s) \/ OrderCancel(c, s)
      PROVE  MInv'
  <2>1. UNCHANGED task
    BY <1>2 DEF StaffCancel, OrderCancel
  <2>2. \/ UNCHANGED row \/ row' = CancelLocally(s)
        \/ row' = [row EXCEPT ![s].canceling = "fresh"]
    BY <1>2 DEF StaffCancel, OrderCancel
  <2>3. \A z \in Shipments : /\ row'[z].minting = row[z].minting
                             /\ row'[z].voucher = row[z].voucher
                             /\ row'[z].orphans = row[z].orphans
                             /\ row'[z].previous = row[z].previous
    BY <1>0, <2>2 DEF CancelLocally, RowType
  <2> QED
    BY <1>a, <2>1, <2>3
<1>3. ASSUME NEW c \in Cancels, CancelSave(c)
      PROVE  MInv'
  <2> DEFINE s == cancel[c].s
  <2>1. UNCHANGED task
    BY <1>3 DEF CancelSave
  <2>2. \/ row' = [row EXCEPT ![s].state = "CANCELED", ![s].canceling = "none"]
        \/ \E claim \in ClaimAfterFailure(c) :
             row' = [row EXCEPT ![s].canceling = claim]
    BY <1>3 DEF CancelSave
  <2>3. \A z \in Shipments : /\ row'[z].minting = row[z].minting
                             /\ row'[z].voucher = row[z].voucher
                             /\ row'[z].orphans = row[z].orphans
                             /\ row'[z].previous = row[z].previous
    <3> HIDE DEF s
    <3> QED
      BY <1>0, <2>2 DEF RowType
  <2> QED
    BY <1>a, <2>1, <2>3
<1>4. ASSUME NEW c \in Cancels,
             \/ CancelCall(c) \/ CancelFails(c) \/ CancelAnswerLost(c)
             \/ CancelCrash(c) \/ CancelDeadlock(c)
      PROVE  MInv'
  <2>1. UNCHANGED <<row, task>>
    BY <1>4 DEF CancelCall, CancelFails, CancelAnswerLost, CancelCrash,
                CancelDeadlock
  <2> QED
    BY <1>a, <2>1
<1>5. ASSUME NEW r \in Issuers, IssueBegin(r) \/ IssueStep(r) \/ IssueCrash(r)
      PROVE  MInv'
  <2>1. UNCHANGED task
    BY <1>5 DEF IssueBegin, IssueStep, IssueCall, IssueEnds, IssueSave, IssueCrash
  <2>2. UNCHANGED row \/ row' = Linked(issue[r].of, issue[r].list)
    BY <1>5 DEF IssueBegin, IssueStep, IssueCall, IssueEnds, IssueSave, IssueCrash
  <2>3. \A z \in Shipments : /\ row'[z].minting = row[z].minting
                             /\ row'[z].voucher = row[z].voucher
                             /\ row'[z].orphans = row[z].orphans
                             /\ row'[z].previous = row[z].previous
    BY <1>0, <2>2 DEF Linked, RowType
  <2> QED
    BY <1>a, <2>1, <2>3
\* A claim lapses only when no call is behind it.
<1>6. ASSUME NEW s \in Shipments, MintClaimLapses(s)
      PROVE  MInv'
  <2>1. /\ UNCHANGED task
        /\ \A t \in Tasks : TaskOf[t] = s => ~Minting(t)
    BY <1>6 DEF MintClaimLapses, Minting
  <2>2. \A z \in Shipments : /\ z # s => row'[z] = row[z]
                             /\ row'[z].orphans = row[z].orphans
                             /\ row'[z].previous = row[z].previous
    BY <1>0, <1>6 DEF MintClaimLapses, RowType
  <2>3. \A t \in Tasks : Minting(t)' => Minting(t) /\ TaskOf[t] # s
    BY <2>1 DEF Minting
  <2> QED
    BY <1>0, <2>2, <2>3, NoneBeginsToMint
<1>7. ASSUME NEW s \in Shipments, CancelClaimLapses(s) \/ Retire(s)
      PROVE  MInv'
  <2>1. UNCHANGED task
    BY <1>7 DEF CancelClaimLapses, Retire
  <2>2. \A z \in Shipments : /\ row'[z].minting = row[z].minting
                             /\ row'[z].voucher = row[z].voucher
                             /\ row'[z].orphans = row[z].orphans
                             /\ row'[z].previous = row[z].previous
    BY <1>0, <1>7 DEF CancelClaimLapses, Retire, CancelLocally, RowType
  <2> QED
    BY <1>a, <2>1, <2>2
<1>8. \A s \in Shipments : ~Reset(s)
  BY DEF Reset
<1>9. ASSUME DigestClaim \/ DigestFails
      PROVE  MInv'
  <2>1. \A z \in Shipments : /\ row'[z].minting = row[z].minting
                             /\ row'[z].voucher = row[z].voucher
                             /\ row'[z].orphans = row[z].orphans
                             /\ row'[z].previous = row[z].previous
    BY <1>0, <1>9 DEF DigestClaim, DigestFails, RowType
  <2>2. UNCHANGED task
    BY <1>9 DEF DigestClaim, DigestFails
  <2> QED
    BY <1>a, <2>1, <2>2
<1>10. ASSUME IssueLockLapses \/ DigestSend \/ DigestCrash
       PROVE  MInv'
  <2>1. UNCHANGED <<row, task>>
    BY <1>10 DEF IssueLockLapses, DigestSend, DigestCrash
  <2> QED
    BY <1>a, <2>1
<1> QED
  BY <1>1, <1>2, <1>3, <1>4, <1>5, <1>6, <1>7, <1>8, <1>9, <1>10
  DEF Next, CancelStep

\* Two live vouchers of a shipment that nothing swallowed are the same one.
LEMMA LiveIsOne ==
  ASSUME AInv, MInv, NEW s \in Shipments,
         NEW v \in Vouchers \ lost, NEW w \in Vouchers \ lost,
         acs[v].at = "live", acs[v].of = s, acs[w].at = "live", acs[w].of = s
  PROVE  v = w
<1>0. HandsHold /\ MintsAlone /\ NoSpares /\ None \notin Vouchers
  BY CourierConstants DEF AInv, MInv
<1>1. ASSUME NEW x \in Vouchers \ lost, acs[x].at = "live", acs[x].of = s
      PROVE  x = row[s].voucher \/ \E t \in Tasks : task[t].v = x
  BY <1>0, <1>1 DEF AInv, AcsInv, VouchersAccounted, InHand, NoSpares
<1>2. ASSUME NEW x \in Vouchers, NEW t \in Tasks, task[t].v = x, acs[x].of = s
      PROVE  TaskOf[t] = s /\ Minting(t)
  BY <1>0, <1>2 DEF HandsHold, Minting
<1>3. CASE v = row[s].voucher /\ w = row[s].voucher
  BY <1>3
<1>4. CASE \E t, u \in Tasks : task[t].v = v /\ task[u].v = w
  BY <1>0, <1>2, <1>4 DEF MintsAlone
<1>5. CASE \E t \in Tasks, x, y \in {v, w} :
             task[t].v = x /\ y = row[s].voucher
  <2>1. PICK t \in Tasks : /\ task[t].v \in {v, w}
                           /\ row[s].voucher \in {v, w}
    BY <1>5
  <2>2. TaskOf[t] = s /\ Minting(t)
    BY <1>2, <2>1
  <2> QED
    BY <1>0, <2>1, <2>2 DEF MintsAlone
<1> QED
  BY <1>1, <1>3, <1>4, <1>5

\* However many messages, redeliveries and workers: an order has one parcel at
\* ACS, when no call outlasts its claim and nobody re-issues by hand.
THEOREM MintsOneParcel ==
  ASSUME ~SlowCalls, "reissue" \notin Entrances
  PROVE  Spec => []OneParcel
<1>1. AInv /\ MInv /\ [Next]_vars => AInv' /\ MInv'
  <2>1. CASE Next
    BY <2>1, NextKeepsAInv, NextKeepsMInv
  <2>2. CASE UNCHANGED vars
    BY <2>2 DEF vars, runs, digests, ground, AInv, AcsInv, AcsTypeOK,
       VouchersAccounted, InHand, HandsHold, MInv, MintsAlone, NoSpares, Minting
  <2> QED
    BY <2>1, <2>2
<1>2. Init => AInv /\ MInv
  <2>1. Init => MInv
    BY DEF Init, MInv, MintsAlone, NoSpares, Minting
  <2> QED
    BY <2>1, InitAInv
<1>3. AInv /\ MInv => OneParcel
  <2> SUFFICES ASSUME AInv, MInv, NEW s \in Shipments
               PROVE  Cardinality({v \in Vouchers \ lost :
                        acs[v].at = "live" /\ acs[v].of = s}) <= 1
    BY DEF OneParcel
  <2> DEFINE P == {v \in Vouchers \ lost : acs[v].at = "live" /\ acs[v].of = s}
  <2>1. \A v, w \in P : v = w
    BY LiveIsOne
  <2> HIDE DEF P
  <2>2. Cardinality(P) <= 1
    <3>1. CASE P = {}
      BY <3>1, FS_EmptySet
    <3>2. CASE P # {}
      <4>1. PICK v : v \in P
        BY <3>2
      <4>2. P = {v}
        BY <2>1, <4>1
      <4> QED
        BY <4>2, FS_Singleton
    <3> QED
      BY <3>1, <3>2
  <2> QED
    BY <2>2 DEF P
<1> QED
  BY <1>1, <1>2, <1>3, PTL DEF Spec
-----------------------------------------------------------------------------
\* Pickup lists.  What a run named before its call is on the list ACS made, or
\* was on one before.
Behind(a, l) == a.at = "deleted" \/ (a.list \in Lists /\ a.list <= l)

ListsKnown ==
  \A v \in Vouchers : /\ acs[v].list # None => acs[v].list \in lists
                      /\ acs[v].at = "unissued" => acs[v].list = None
RunsAreBehind ==
  \A r \in Issuers :
    /\ issue[r].pc = "issued" => issue[r].list \in lists
    /\ \A s \in issue[r].of :
         /\ row[s].voucher # None
         /\ issue[r].pc = "issued" => Behind(acs[row[s].voucher], issue[r].list)
RowsAreBehind ==
  \A s \in Shipments :
    /\ row[s].voucher # None => acs[row[s].voucher].at # "unissued"
    /\ row[s].list # None => /\ row[s].voucher # None
                             /\ Behind(acs[row[s].voucher], row[s].list)

PInv == ListsKnown /\ RunsAreBehind /\ RowsAreBehind

\* ACS takes nothing back: a deleted voucher stays deleted, and one that is on a
\* list stays on it.
AcsGoesOn ==
  \A v \in Vouchers :
    /\ acs[v].at = "deleted" => acs'[v].at = "deleted"
    /\ acs[v].at # "unissued" => acs'[v].at # "unissued"
    /\ acs[v].list # None => acs'[v].list = acs[v].list
    /\ acs'[v].list # None => acs'[v].list \in lists'
    /\ acs'[v].at = "unissued" => acs'[v].list = None

LEMMA AcsStepsOn ==
  ASSUME AInv, ListsKnown, Next
  PROVE  AcsGoesOn /\ lists \subseteq lists'
<1>0. /\ acs \in [Vouchers -> AcsType] /\ None \notin Lists
      /\ lists \subseteq Lists
  BY Types, CourierConstants DEF AInv, AcsInv
<1>a. ASSUME NEW v \in Vouchers, NEW s \in Shipments, acs[v].at = "unissued",
             acs' = Issued(v, s), UNCHANGED lists
      PROVE  AcsGoesOn /\ lists \subseteq lists'
  <2>1. /\ acs'[v].at = "live" /\ acs'[v].list = None /\ acs[v].list = None
        /\ \A w \in Vouchers : w # v => acs'[w] = acs[w]
    BY <1>0, <1>a DEF Issued, ListsKnown
  <2> QED
    BY <1>a, <2>1 DEF AcsGoesOn, ListsKnown
<1>b. ASSUME NEW v, acs' = Deleted(v), UNCHANGED lists
      PROVE  AcsGoesOn /\ lists \subseteq lists'
  <2>1. \A w \in Vouchers : /\ acs'[w].list = acs[w].list
                            /\ acs'[w].at \in {acs[w].at, "deleted"}
    BY <1>0, <1>b DEF Deleted, AcsType
  <2> QED
    BY <1>b, <2>1 DEF AcsGoesOn, ListsKnown
<1>c. ASSUME UNCHANGED <<acs, lists>>
      PROVE  AcsGoesOn /\ lists \subseteq lists'
  BY <1>c DEF AcsGoesOn, ListsKnown
<1>1. ASSUME NEW t \in Tasks,
             MintStep(t) \/ MintAnswerLost(t) \/ MintCrash(t) \/ MintDeadlock(t)
      PROVE  AcsGoesOn /\ lists \subseteq lists'
  <2>1. CASE MintCall(t) \/ MintAnswerLost(t)
    <3>1. TaskOf[t] \in Shipments
      BY CourierConstants
    <3>2. \E v \in Vouchers : /\ acs[v].at = "unissued"
                              /\ acs' = Issued(v, TaskOf[t])
      BY <2>1 DEF MintCall, MintAnswerLost, FreshVouchers
    <3>3. UNCHANGED lists
      BY <2>1 DEF MintCall, MintAnswerLost
    <3> QED
      BY <1>a, <3>1, <3>2, <3>3
  <2>2. CASE MintDuplicate(t)
    <3>1. UNCHANGED <<acs, lists>> \/ (acs' = Deleted(task[t].v) /\ UNCHANGED lists)
      BY <2>2 DEF MintDuplicate
    <3> QED
      BY <1>b, <1>c, <3>1
  <2>3. CASE \/ MintDone(t) \/ MintBusy(t) \/ MintClaim(t) \/ MintFails(t)
             \/ MintRelease(t) \/ MintSave(t) \/ MintAdvance(t)
             \/ MintCrash(t) \/ MintDeadlock(t)
    <3>1. UNCHANGED <<acs, lists>>
      BY <2>3 DEF MintDone, MintBusy, MintClaim, MintFails, MintRelease,
           MintSave, MintAdvance, MintCrash, MintDeadlock, ground
    <3> QED
      BY <1>c, <3>1
  <2> QED
    BY <1>1, <2>1, <2>2, <2>3 DEF MintStep
<1>2. ASSUME NEW c \in Cancels,
             \/ CancelCall(c) \/ CancelFails(c) \/ CancelSave(c)
             \/ CancelAnswerLost(c) \/ CancelCrash(c) \/ CancelDeadlock(c)
      PROVE  AcsGoesOn /\ lists \subseteq lists'
  <2>1. \/ UNCHANGED <<acs, lists>>
        \/ acs' = Deleted(cancel[c].v) /\ UNCHANGED lists
    BY <1>2 DEF CancelCall, CancelFails, CancelSave, CancelAnswerLost,
                CancelCrash, CancelDeadlock, ground
  <2> QED
    BY <1>b, <1>c, <2>1
<1>3. ASSUME NEW r \in Issuers, IssueCall(r)
      PROVE  AcsGoesOn /\ lists \subseteq lists'
  <2>1. PICK l \in Lists : /\ acs' = OnNewList(l)
                           /\ lists' = lists \cup {l}
    BY <1>3 DEF IssueCall, FreshLists
  <2>2. \A v \in Vouchers :
          /\ acs'[v].at = acs[v].at
          /\ \/ acs'[v].list = acs[v].list
             \/ acs[v].at = "live" /\ acs[v].list = None /\ acs'[v].list = l
    BY <1>0, <2>1 DEF OnNewList, Deletable, AcsType
  <2> QED
    BY <1>0, <2>1, <2>2 DEF AcsGoesOn, ListsKnown
<1>4. ASSUME \/ \E r \in Issuers : \/ IssueBegin(r) \/ IssueEnds(r)
                                   \/ IssueSave(r) \/ IssueCrash(r)
             \/ \E c \in Cancels, s \in Shipments :
                  StaffCancel(c, s) \/ OrderCancel(c, s)
             \/ \E s \in Shipments : \/ MintClaimLapses(s)
                  \/ CancelClaimLapses(s) \/ Reset(s) \/ Retire(s)
             \/ IssueLockLapses \/ DigestClaim \/ DigestSend \/ DigestFails
             \/ DigestCrash
      PROVE  AcsGoesOn /\ lists \subseteq lists'
  <2>1. UNCHANGED <<acs, lists>>
    BY <1>4 DEF IssueBegin, IssueEnds, IssueSave, IssueCrash, StaffCancel,
         OrderCancel, MintClaimLapses, CancelClaimLapses, Reset, Retire,
         IssueLockLapses, DigestClaim, DigestSend, DigestFails, DigestCrash,
         ground
  <2> QED
    BY <1>c, <2>1
<1> QED
  BY <1>1, <1>2, <1>3, <1>4 DEF Next, CancelStep, IssueStep

\* What keeps the two relations: rows keep their voucher, gain only one that is
\* issued, and are linked only to a list their voucher is not ahead of; runs
\* name only rows with a voucher.
LEMMA RowsStayBehind ==
  ASSUME PInv, AcsGoesOn, lists \subseteq lists',
         \A s \in Shipments :
           /\ row[s].voucher \in Vouchers \cup {None}
           /\ row[s].voucher # None => row'[s].voucher = row[s].voucher
           /\ row'[s].voucher # None =>
                \/ row[s].voucher # None
                \/ acs'[row'[s].voucher].at # "unissued"
           /\ \/ row'[s].list = row[s].list
              \/ /\ row[s].voucher # None
                 /\ Behind(acs[row[s].voucher], row'[s].list),
         \A r \in Issuers :
           /\ issue'[r].pc = "issued" => issue'[r].list \in lists'
           /\ \A s \in issue'[r].of :
                /\ s \in Shipments /\ row[s].voucher # None
                /\ issue'[r].pc = "issued" =>
                     Behind(acs'[row[s].voucher], issue'[r].list)
  PROVE  PInv'
<1>0. ListsKnown /\ RunsAreBehind /\ RowsAreBehind /\ None \notin Lists
  BY CourierConstants DEF PInv
<1>1. ASSUME NEW v \in Vouchers, NEW l, Behind(acs[v], l)
      PROVE  Behind(acs'[v], l)
  BY <1>0, <1>1 DEF Behind, AcsGoesOn
<1>2. ListsKnown'
  BY DEF AcsGoesOn, ListsKnown
<1>3. RunsAreBehind'
  BY DEF RunsAreBehind
<1>4. RowsAreBehind'
  <2> SUFFICES ASSUME NEW s \in Shipments
               PROVE  /\ row'[s].voucher # None =>
                           acs'[row'[s].voucher].at # "unissued"
                      /\ row'[s].list # None =>
                           /\ row'[s].voucher # None
                           /\ Behind(acs'[row'[s].voucher], row'[s].list)
    BY DEF RowsAreBehind
  <2>1. row'[s].voucher # None => acs'[row'[s].voucher].at # "unissued"
    BY <1>0 DEF RowsAreBehind, AcsGoesOn
  <2>2. row'[s].list # None =>
          row[s].voucher # None /\ Behind(acs[row[s].voucher], row'[s].list)
    BY <1>0 DEF RowsAreBehind
  <2>3. row'[s].list # None =>
          row[s].voucher \in Vouchers /\ row'[s].voucher = row[s].voucher
    BY <2>2
  <2>4. row'[s].list # None => Behind(acs'[row[s].voucher], row'[s].list)
    BY <1>1, <2>2, <2>3
  <2> QED
    BY <2>1, <2>2, <2>3, <2>4
<1> QED
  BY <1>2, <1>3, <1>4 DEF PInv

\* A run goes on as it was or ends.
LEMMA RunsStayBehind ==
  ASSUME AInv, PInv, AcsGoesOn, lists \subseteq lists', NEW r \in Issuers,
         issue'[r] \in {issue[r], NoRun}
  PROVE  /\ issue'[r].pc = "issued" => issue'[r].list \in lists'
         /\ \A s \in issue'[r].of :
              /\ s \in Shipments /\ row[s].voucher # None
              /\ issue'[r].pc = "issued" =>
                   Behind(acs'[row[s].voucher], issue'[r].list)
<1>0. /\ row \in [Shipments -> RowType] /\ issue[r].of \subseteq Shipments
      /\ ListsKnown /\ RunsAreBehind /\ None \notin Lists
  BY Types, CourierConstants DEF AInv, AcsInv, PInv, IssueType
<1>1. CASE issue'[r] = NoRun
  BY <1>1 DEF NoRun
<1>2. CASE issue'[r] = issue[r]
  <2>1. issue'[r].pc = "issued" => issue'[r].list \in lists'
    BY <1>0, <1>2 DEF RunsAreBehind
  <2> SUFFICES ASSUME NEW s \in issue[r].of
               PROVE  /\ s \in Shipments /\ row[s].voucher # None
                      /\ issue[r].pc = "issued" =>
                           Behind(acs'[row[s].voucher], issue[r].list)
    BY <1>2, <2>1
  <2>2. /\ s \in Shipments /\ row[s].voucher # None
        /\ issue[r].pc = "issued" =>
             Behind(acs[row[s].voucher], issue[r].list)
    BY <1>0 DEF RunsAreBehind
  <2>3. row[s].voucher \in Vouchers
    BY <1>0, <2>2 DEF RowType
  <2> QED
    BY <1>0, <2>2, <2>3 DEF Behind, AcsGoesOn
<1> QED
  BY <1>1, <1>2

\* A step that keeps vouchers and links.
LEMMA LinksStay ==
  ASSUME AInv, PInv, AcsGoesOn, lists \subseteq lists',
         \A r \in Issuers : issue'[r] \in {issue[r], NoRun},
         \A s \in Shipments : /\ row'[s].voucher = row[s].voucher
                              /\ row'[s].list = row[s].list
  PROVE  PInv'
<1>1. \A s \in Shipments : row[s].voucher \in Vouchers \cup {None}
  BY Types DEF AInv, AcsInv, RowType
<1> QED
  BY <1>1, RowsStayBehind, RunsStayBehind

LEMMA IssueKeepsPInv ==
  ASSUME AInv, PInv, AcsGoesOn, lists \subseteq lists', NEW r \in Issuers,
         IssueBegin(r) \/ IssueStep(r) \/ IssueCrash(r)
  PROVE  PInv'
<1>0. /\ row \in [Shipments -> RowType] /\ issue \in [Issuers -> IssueType]
      /\ acs \in [Vouchers -> AcsType]
      /\ ListsKnown /\ RunsAreBehind /\ RowsAreBehind
      /\ None \notin Lists /\ lists \subseteq Lists /\ Lists \subseteq Nat
  BY Types, CourierConstants DEF AInv, AcsInv, PInv
<1>1. \A s \in Shipments : row[s].voucher \in Vouchers \cup {None}
  BY <1>0 DEF RowType
<1>2. CASE IssueBegin(r)
  <2>1. /\ UNCHANGED <<row, acs, lists>>
        /\ issue' = [issue EXCEPT ![r] =
             [pc |-> "calling", of |-> Candidates, list |-> None]]
    BY <1>2 DEF IssueBegin, ground
  <2>2. /\ issue'[r].pc = "calling" /\ issue'[r].of = Candidates
        /\ \A q \in Issuers : q # r => issue'[q] = issue[q]
    BY <1>0, <2>1
  <2>3. ASSUME NEW q \in Issuers
        PROVE  /\ issue'[q].pc = "issued" => issue'[q].list \in lists'
               /\ \A s \in issue'[q].of :
                    /\ s \in Shipments /\ row[s].voucher # None
                    /\ issue'[q].pc = "issued" =>
                         Behind(acs'[row[s].voucher], issue'[q].list)
    <3>1. CASE q = r
      BY <2>2, <3>1 DEF Candidates
    <3>2. CASE q # r
      BY <2>2, <3>2, RunsStayBehind
    <3> QED
      BY <3>1, <3>2
  <2> QED
    BY <1>1, <2>1, <2>3, RowsStayBehind
\* Every voucher that is issued is on a list after the call, or deleted.
<1>3. CASE IssueCall(r)
  <2>1. PICK l \in FreshLists :
          /\ acs' = OnNewList(l) /\ lists' = lists \cup {l}
          /\ issue' = [issue EXCEPT ![r].pc = "issued", ![r].list = l]
    BY <1>3 DEF IssueCall
  <2>2. UNCHANGED row
    BY <1>3 DEF IssueCall
  <2>3. l \in Lists /\ \A k \in lists : k < l
    BY <2>1 DEF FreshLists
  <2>4. /\ issue'[r].list = l /\ issue'[r].of = issue[r].of
        /\ \A q \in Issuers : q # r => issue'[q] = issue[q]
    BY <1>0, <2>1 DEF IssueType
  <2>5. ASSUME NEW v \in Vouchers, acs[v].at # "unissued"
        PROVE  Behind(acs'[v], l)
    <3>1. acs[v].at = "live" \/ acs[v].at = "deleted"
      BY <1>0, <2>5 DEF AcsType
    <3>2. CASE acs[v].at = "deleted"
      BY <3>2 DEF Behind, AcsGoesOn
    <3>3. CASE acs[v].at = "live" /\ acs[v].list # None
      <4>1. acs'[v].list = acs[v].list /\ acs[v].list \in lists
        BY <1>0, <3>3 DEF AcsGoesOn, ListsKnown
      <4>2. PICK k \in Lists : acs'[v].list = k /\ k < l
        BY <1>0, <2>3, <4>1
      <4>3. k <= l
        BY <1>0, <2>3, <4>2
      <4> QED
        BY <4>2, <4>3 DEF Behind
    <3>4. CASE acs[v].at = "live" /\ acs[v].list = None
      <4>1. acs'[v].list = l
        BY <1>0, <2>1, <3>4 DEF OnNewList, Deletable, AcsType
      <4>2. l <= l
        BY <1>0, <2>3
      <4> QED
        BY <2>3, <4>1, <4>2 DEF Behind
    <3> QED
      BY <3>1, <3>2, <3>3, <3>4
  <2>6. ASSUME NEW q \in Issuers
        PROVE  /\ issue'[q].pc = "issued" => issue'[q].list \in lists'
               /\ \A s \in issue'[q].of :
                    /\ s \in Shipments /\ row[s].voucher # None
                    /\ issue'[q].pc = "issued" =>
                         Behind(acs'[row[s].voucher], issue'[q].list)
    <3>1. CASE q = r
      <4>1. \A s \in issue[r].of : s \in Shipments /\ row[s].voucher # None
        BY <1>0 DEF IssueType, RunsAreBehind
      <4>2. \A s \in issue[r].of : Behind(acs'[row[s].voucher], l)
        BY <1>0, <1>1, <2>5, <4>1 DEF RowsAreBehind
      <4>3. l \in lists'
        BY <2>1
      <4> QED
        BY <2>4, <3>1, <4>1, <4>2, <4>3
    <3>2. CASE q # r
      BY <2>4, <3>2, RunsStayBehind
    <3> QED
      BY <3>1, <3>2
  <2> QED
    BY <1>1, <2>2, <2>6, RowsStayBehind
<1>4. CASE IssueEnds(r) \/ IssueCrash(r)
  <2>1. /\ UNCHANGED row
        /\ \A q \in Issuers : issue'[q] \in {issue[q], NoRun}
    BY <1>0, <1>4 DEF IssueEnds, IssueCrash
  <2> QED
    BY <2>1, LinksStay
<1>5. CASE IssueSave(r)
  <2>1. /\ issue[r].pc = "issued" /\ row' = Linked(issue[r].of, issue[r].list)
        /\ \A q \in Issuers : issue'[q] \in {issue[q], NoRun}
    BY <1>0, <1>5 DEF IssueSave
  <2>2. ASSUME NEW s \in Shipments
        PROVE  /\ row'[s].voucher = row[s].voucher
               /\ \/ row'[s].list = row[s].list
                  \/ /\ row[s].voucher # None
                     /\ Behind(acs[row[s].voucher], row'[s].list)
    <3>1. row[s] \in RowType
      BY <1>0
    <3>2. CASE s \in issue[r].of /\ row[s].list = None
      <4>1. row'[s] = [row[s] EXCEPT !.list = issue[r].list]
        BY <2>1, <3>2 DEF Linked
      <4>2. row'[s].voucher = row[s].voucher /\ row'[s].list = issue[r].list
        BY <3>1, <4>1 DEF RowType
      <4> QED
        BY <1>0, <2>1, <3>2, <4>2 DEF RunsAreBehind
    <3>3. CASE ~(s \in issue[r].of /\ row[s].list = None)
      BY <2>1, <3>3 DEF Linked
    <3> QED
      BY <3>2, <3>3
  <2>3. \A q \in Issuers :
          /\ issue'[q].pc = "issued" => issue'[q].list \in lists'
          /\ \A s \in issue'[q].of :
               /\ s \in Shipments /\ row[s].voucher # None
               /\ issue'[q].pc = "issued" =>
                    Behind(acs'[row[s].voucher], issue'[q].list)
    BY <2>1, RunsStayBehind
  <2> QED
    BY <1>1, <2>2, <2>3, RowsStayBehind
<1> QED
  BY <1>2, <1>3, <1>4, <1>5 DEF IssueStep

LEMMA NextKeepsPInv ==
  ASSUME AInv, PInv, Next, "reissue" \notin Entrances
  PROVE  PInv'
<1>0. /\ row \in [Shipments -> RowType]
      /\ \A t \in Tasks : TaskOf[t] \in Shipments
      /\ HandsHold /\ None \notin Vouchers
  BY Types, CourierConstants DEF AInv, AcsInv
<1>t. \A t \in Tasks : task[t].v \in Vouchers \cup {None}
  BY Types DEF AInv, AcsInv, TaskType
<1>1. AcsGoesOn /\ lists \subseteq lists'
  BY AcsStepsOn DEF PInv
<1>a. ASSUME UNCHANGED issue,
             \A s \in Shipments : /\ row'[s].voucher = row[s].voucher
                                  /\ row'[s].list = row[s].list
      PROVE  PInv'
  BY <1>1, <1>a, LinksStay
<1>2. ASSUME NEW t \in Tasks, MintSave(t)
      PROVE  PInv'
  <2> DEFINE s == TaskOf[t]
  <2>1. /\ row[s].voucher = None /\ row' = SaveVoucher(s, task[t].v)
        /\ task[t].pc = "minted" /\ UNCHANGED <<issue, acs, lists>>
    BY <1>2 DEF MintSave, runs, ground
  <2>2. task[t].v \in Vouchers /\ acs[task[t].v].at # "unissued"
    BY <1>0, <1>t, <2>1 DEF HandsHold
  <2>3. \A z \in Shipments : /\ z # s => row'[z] = row[z]
                             /\ row'[z].list = row[z].list
                             /\ z = s => row'[z].voucher = task[t].v
    BY <1>0, <2>1 DEF SaveVoucher, RowType
  <2> HIDE DEF s
  <2>4. \A z \in Shipments :
          /\ row[z].voucher \in Vouchers \cup {None}
          /\ row[z].voucher # None => row'[z].voucher = row[z].voucher
          /\ row'[z].voucher # None =>
               \/ row[z].voucher # None
               \/ acs'[row'[z].voucher].at # "unissued"
          /\ row'[z].list = row[z].list
    BY <1>0, <2>1, <2>2, <2>3 DEF RowType
  <2>5. \A q \in Issuers :
          /\ issue'[q].pc = "issued" => issue'[q].list \in lists'
          /\ \A z \in issue'[q].of :
               /\ z \in Shipments /\ row[z].voucher # None
               /\ issue'[q].pc = "issued" =>
                    Behind(acs'[row[z].voucher], issue'[q].list)
    BY <1>1, <2>1, RunsStayBehind
  <2> QED
    BY <1>1, <2>4, <2>5, RowsStayBehind
<1>3. ASSUME NEW t \in Tasks,
             MintClaim(t) \/ MintRelease(t) \/ MintDuplicate(t)
      PROVE  PInv'
  <2>1. UNCHANGED issue
    BY <1>3 DEF MintClaim, MintRelease, MintDuplicate, runs
  <2>2. \A z \in Shipments : /\ row'[z].voucher = row[z].voucher
                             /\ row'[z].list = row[z].list
    BY <1>0, <1>3 DEF MintClaim, MintRelease, MintDuplicate, KeepOrphan, RowType
  <2> QED
    BY <1>a, <2>1, <2>2
<1>4. ASSUME NEW t \in Tasks,
             \/ MintDone(t) \/ MintBusy(t) \/ MintCall(t) \/ MintFails(t)
             \/ MintAdvance(t) \/ MintAnswerLost(t) \/ MintCrash(t)
             \/ MintDeadlock(t)
      PROVE  PInv'
  <2>1. UNCHANGED <<row, issue>>
    BY <1>4 DEF MintDone, MintBusy, MintCall, MintFails, MintAdvance,
                MintAnswerLost, MintCrash, MintDeadlock, runs
  <2> QED
    BY <1>a, <2>1
<1>5. ASSUME NEW c \in Cancels, NEW s \in Shipments,
             StaffCancel(c, s) \/ OrderCancel(c, s)
      PROVE  PInv'
  <2>1. UNCHANGED issue
    BY <1>5 DEF StaffCancel, OrderCancel, runs
  <2>2. \/ UNCHANGED row \/ row' = CancelLocally(s)
        \/ row' = [row EXCEPT ![s].canceling = "fresh"]
    BY <1>5 DEF StaffCancel, OrderCancel
  <2>3. \A z \in Shipments : /\ row'[z].voucher = row[z].voucher
                             /\ row'[z].list = row[z].list
    BY <1>0, <2>2 DEF CancelLocally, RowType
  <2> QED
    BY <1>a, <2>1, <2>3
<1>6. ASSUME NEW c \in Cancels, CancelSave(c)
      PROVE  PInv'
  <2> DEFINE s == cancel[c].s
  <2>1. UNCHANGED issue
    BY <1>6 DEF CancelSave, runs
  <2>2. \/ row' = [row EXCEPT ![s].state = "CANCELED", ![s].canceling = "none"]
        \/ \E claim \in ClaimAfterFailure(c) :
             row' = [row EXCEPT ![s].canceling = claim]
    BY <1>6 DEF CancelSave
  <2>3. \A z \in Shipments : /\ row'[z].voucher = row[z].voucher
                             /\ row'[z].list = row[z].list
    <3> HIDE DEF s
    <3> QED
      BY <1>0, <2>2 DEF RowType
  <2> QED
    BY <1>a, <2>1, <2>3
<1>7. ASSUME NEW c \in Cancels,
             \/ CancelCall(c) \/ CancelFails(c) \/ CancelAnswerLost(c)
             \/ CancelCrash(c) \/ CancelDeadlock(c)
      PROVE  PInv'
  <2>1. UNCHANGED <<row, issue>>
    BY <1>7 DEF CancelCall, CancelFails, CancelAnswerLost, CancelCrash,
                CancelDeadlock, runs
  <2> QED
    BY <1>a, <2>1
<1>8. ASSUME NEW r \in Issuers, IssueBegin(r) \/ IssueStep(r) \/ IssueCrash(r)
      PROVE  PInv'
  BY <1>1, <1>8, IssueKeepsPInv
<1>9. ASSUME NEW s \in Shipments,
             MintClaimLapses(s) \/ CancelClaimLapses(s) \/ Retire(s)
      PROVE  PInv'
  <2>1. UNCHANGED issue
    BY <1>9 DEF MintClaimLapses, CancelClaimLapses, Retire, runs
  <2>2. \A z \in Shipments : /\ row'[z].voucher = row[z].voucher
                             /\ row'[z].list = row[z].list
    BY <1>0, <1>9 DEF MintClaimLapses, CancelClaimLapses, Retire, CancelLocally,
                      RowType
  <2> QED
    BY <1>a, <2>1, <2>2
<1>10. \A s \in Shipments : ~Reset(s)
  BY DEF Reset
<1>11. ASSUME DigestClaim \/ DigestFails
       PROVE  PInv'
  <2>1. \A z \in Shipments : /\ row'[z].voucher = row[z].voucher
                             /\ row'[z].list = row[z].list
    BY <1>0, <1>11 DEF DigestClaim, DigestFails, RowType
  <2>2. UNCHANGED issue
    BY <1>11 DEF DigestClaim, DigestFails, runs
  <2> QED
    BY <1>a, <2>1, <2>2
<1>12. ASSUME IssueLockLapses \/ DigestSend \/ DigestCrash
       PROVE  PInv'
  <2>1. UNCHANGED <<row, issue>>
    BY <1>12 DEF IssueLockLapses, DigestSend, DigestCrash, runs
  <2> QED
    BY <1>a, <2>1
<1> QED
  BY <1>2, <1>3, <1>4, <1>5, <1>6, <1>7, <1>8, <1>9, <1>10, <1>11, <1>12
  DEF Next, MintStep, CancelStep

\* No row is taken off the daily list for good while its parcel waits at ACS,
\* whatever is minted, canceled or fails during the call: only the re-issue of
\* a voucher in between could do that.
THEOREM LinkedStaysOnList ==
  ASSUME "reissue" \notin Entrances
  PROVE  Spec => []LinkedIsOnList
<1>1. AInv /\ PInv /\ [Next]_vars => AInv' /\ PInv'
  <2>1. CASE Next
    BY <2>1, NextKeepsAInv, NextKeepsPInv
  <2>2. CASE UNCHANGED vars
    BY <2>2 DEF vars, runs, digests, ground, AInv, AcsInv, AcsTypeOK,
       VouchersAccounted, InHand, HandsHold, PInv, ListsKnown, RunsAreBehind,
       RowsAreBehind
  <2> QED
    BY <2>1, <2>2
<1>2. Init => AInv /\ PInv
  <2>1. Init => PInv
    BY DEF Init, PInv, ListsKnown, RunsAreBehind, RowsAreBehind
  <2> QED
    BY <2>1, InitAInv
<1>3. PInv => LinkedIsOnList
  BY DEF PInv, RowsAreBehind, Behind, LinkedIsOnList
<1> QED
  BY <1>1, <1>2, <1>3, PTL DEF Spec
===============================================================================
