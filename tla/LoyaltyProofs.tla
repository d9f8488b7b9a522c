---------------------------- MODULE LoyaltyProofs ----------------------------
(***************************************************************************)
(* LoyaltyPoints, for any orders, workers, redeem requests and runs.       *)
(*                                                                         *)
(* The invariant is LedgerIsRight and AwardIsDue with Booked, what the     *)
(* rows an order does not have yet say of its tasks and requests: an order *)
(* that is not awarded has neither points nor bonus, one that is not       *)
(* checked out no redemption, and one worker at most stands between the    *)
(* award of an order and its bonus.  Each writer then moves the sums at    *)
(* one order, by what it read under the customer's lock.                   *)
(***************************************************************************)
EXTENDS LoyaltyPoints, Sums

Pays(w, o) == worker[w].pc = "bonus" /\ worker[w].o = o

Booked ==
  /\ \A o \in Orders \ awarded : earned[o] = 0 /\ bonus[o] = 0
  /\ \A o \in Orders : status[o] = "new" => redeemed[o] = 0
  /\ \A k \in Clients : web[k] # NoWeb =>
       /\ web[k].o \in Orders /\ web[k].points \in Amounts
       /\ status[web[k].o] # "new"
  /\ \A w \in Workers, o \in Orders : Pays(w, o) =>
       /\ o \in awarded /\ bonus[o] = 0
       /\ \A v \in Workers : Pays(v, o) => v = w
  /\ \A w \in Workers : worker[w] = Idle \/ worker[w].o \in Orders

LInv == LedgerIsRight /\ AwardIsDue /\ Booked

-----------------------------------------------------------------------------
\* The sums.

\* Points an order's rows add to the balance, and XP they stand for.
Points(o) == earned[o] + restored[o] + bonus[o] - redeemed[o] - reversed[o]
Net(o) == earned[o] - reversed[o]

\* What an order's rows are typed as.
LEMMA RowsTyped ==
  ASSUME LoyaltyTypeOK, NEW o \in Orders
  PROVE  /\ earned[o] \in Nat /\ redeemed[o] \in Nat /\ restored[o] \in Nat
         /\ reversed[o] \in Nat /\ bonus[o] \in Nat /\ marked[o] \in Nat
         /\ Points(o) \in Int /\ Net(o) \in Int
<1>1. /\ earned \in [Orders -> Nat] /\ redeemed \in [Orders -> Nat]
      /\ restored \in [Orders -> Nat] /\ reversed \in [Orders -> Nat]
      /\ bonus \in [Orders -> Nat] /\ marked \in [Orders -> Nat]
  BY DEF LoyaltyTypeOK
<1> QED
  BY <1>1 DEF Points, Net

LEMMA RowsTypedNext ==
  ASSUME LoyaltyTypeOK', NEW o \in Orders
  PROVE  /\ earned'[o] \in Nat /\ redeemed'[o] \in Nat /\ restored'[o] \in Nat
         /\ reversed'[o] \in Nat /\ bonus'[o] \in Nat
         /\ Points(o)' \in Int /\ Net(o)' \in Int
<1>1. /\ earned' \in [Orders -> Nat] /\ redeemed' \in [Orders -> Nat]
      /\ restored' \in [Orders -> Nat] /\ reversed' \in [Orders -> Nat]
      /\ bonus' \in [Orders -> Nat]
  BY DEF LoyaltyTypeOK
<1> QED
  BY <1>1 DEF Points, Net

\* The balance and the XP are sums of them.
LEMMA SumsAre ==
  /\ Balance = Opening - expired + SumFunctionOnSet([o \in Orders |-> Points(o)], Orders)
  /\ Balance' = Opening - expired' + SumFunctionOnSet([o \in Orders |-> Points(o)'], Orders)
  /\ XpIsEarned <=> user.xp = SumFunctionOnSet([o \in Orders |-> Net(o)], Orders)
  /\ XpIsEarned' <=> user'.xp = SumFunctionOnSet([o \in Orders |-> Net(o)'], Orders)
  BY DEF Balance, Points, Net, XpIsEarned, SumFunction

LEMMA BalanceTyped ==
  ASSUME LoyaltyTypeOK
  PROVE  Balance \in Int
<1> DEFINE f == [o \in Orders |-> Points(o)]
<1>1. \A o \in Orders : f[o] \in Int
  BY RowsTyped
<1>2. IsFiniteSet(Orders) /\ Opening \in Int /\ expired \in Int
  BY LoyaltyConstants DEF LoyaltyTypeOK
<1>3. Balance = Opening - expired + SumFunctionOnSet(f, Orders)
  BY SumsAre
<1> HIDE DEF f
<1>4. SumFunctionOnSet(f, Orders) \in Int
  BY <1>1, <1>2, SumIsInt
<1> QED
  BY <1>2, <1>3, <1>4

\* A writer that changes one order's rows moves the balance by their change.
LEMMA BalanceMoves ==
  ASSUME LoyaltyTypeOK, LoyaltyTypeOK', NEW o \in Orders, expired' = expired,
         \A x \in Orders \ {o} : Points(x)' = Points(x)
  PROVE  Balance' = Balance - Points(o) + Points(o)'
<1> DEFINE f == [x \in Orders |-> Points(x)]
           g == [x \in Orders |-> Points(x)']
           s == SumFunctionOnSet(f, Orders)
           t == SumFunctionOnSet(g, Orders)
<1>1. \A x \in Orders : f[x] \in Int /\ g[x] \in Int
  BY RowsTyped, RowsTypedNext
<1>2. \A x \in Orders \ {o} : f[x] = g[x]
  OBVIOUS
<1>3. f[o] = Points(o) /\ g[o] = Points(o)'
  OBVIOUS
<1>4. IsFiniteSet(Orders) /\ Opening \in Int /\ expired \in Int
  BY LoyaltyConstants DEF LoyaltyTypeOK
<1>5. Balance = Opening - expired + s /\ Balance' = Opening - expired + t
  BY SumsAre
<1> HIDE DEF f, g
<1>6. t = s - f[o] + g[o]
  BY <1>1, <1>2, <1>4, SumChanges
<1>7. s \in Int
  BY <1>1, <1>4, SumIsInt
<1> HIDE DEF s, t
<1>8. Balance' = Balance - f[o] + g[o]
  BY <1>1, <1>4, <1>5, <1>6, <1>7
<1> QED
  BY <1>3, <1>8

\* And the XP an order's awards and reversals make.
LEMMA XpMoves ==
  ASSUME LoyaltyTypeOK, LoyaltyTypeOK', XpIsEarned, NEW o \in Orders,
         \A x \in Orders \ {o} : Net(x)' = Net(x),
         user'.xp = user.xp - Net(o) + Net(o)'
  PROVE  XpIsEarned'
<1> DEFINE f == [x \in Orders |-> Net(x)]
           g == [x \in Orders |-> Net(x)']
           s == SumFunctionOnSet(f, Orders)
           t == SumFunctionOnSet(g, Orders)
<1>1. \A x \in Orders : f[x] \in Int /\ g[x] \in Int
  BY RowsTyped, RowsTypedNext
<1>2. \A x \in Orders \ {o} : f[x] = g[x]
  OBVIOUS
<1>3. f[o] = Net(o) /\ g[o] = Net(o)'
  OBVIOUS
<1>4. IsFiniteSet(Orders)
  BY LoyaltyConstants
<1>5. user.xp = s
  BY SumsAre
<1>6. XpIsEarned' <=> user'.xp = t
  BY SumsAre
<1> HIDE DEF f, g
<1>7. t = s - f[o] + g[o]
  BY <1>1, <1>2, <1>4, SumChanges
<1> QED
  BY <1>3, <1>5, <1>6, <1>7

\* No order brought more XP than the counter has.
LEMMA XpCovers ==
  ASSUME LoyaltyTypeOK, XpIsEarned, OncePerOrder, NEW o \in Orders
  PROVE  Net(o) <= user.xp
<1> DEFINE f == [x \in Orders |-> Net(x)]
           a == SumFunctionOnSet(f, {o})
           b == SumFunctionOnSet(f, Orders)
<1>1. \A x \in Orders : f[x] \in Int /\ 0 <= f[x]
  BY RowsTyped DEF OncePerOrder, Net
<1>2. IsFiniteSet(Orders) /\ {o} \in SUBSET Orders /\ IsFiniteSet({o})
  BY LoyaltyConstants, FS_Subset
<1>3. user.xp = b /\ f[o] = Net(o)
  BY SumsAre
<1> HIDE DEF f
<1>4. a <= b
  BY <1>1, <1>2, SumGrows
<1>5. a = f[o]
  <2>1. a = f[o] + SumFunctionOnSet(f, {o} \ {o}) /\ {o} \ {o} = {}
    BY <1>1, <1>2, SumApart
  <2>2. SumFunctionOnSet(f, {o} \ {o}) = 0
    BY <2>1, SumEmpty
  <2> QED
    BY <1>1, <2>1, <2>2
<1> QED
  BY <1>3, <1>4, <1>5

-----------------------------------------------------------------------------
\* The rows and the tasks' records keep their types.

LEMMA UserTyped ==
  ASSUME NEW xp \in Nat
  PROVE  /\ \A tier \in BOOLEAN : [xp |-> xp, tier |-> tier] \in [xp : Nat, tier : BOOLEAN]
         /\ [xp |-> xp, tier |-> TierOf(xp)] \in [xp : Nat, tier : BOOLEAN]
<1>1. TierOf(xp) \in BOOLEAN
  BY DEF TierOf
<1> QED
  BY <1>1

LEMMA TypeStep ==
  ASSUME LInv, [Next]_vars
  PROVE  LoyaltyTypeOK'
<1>1. LoyaltyTypeOK
  BY DEF LInv, LedgerIsRight
<1>2. ASSUME NEW o \in Orders, ChecksOut(o)
      PROVE  LoyaltyTypeOK'
  <2>1. ASSUME NEW p \in Amounts
        PROVE  [redeemed EXCEPT ![o] = p] \in [Orders -> Nat]
    BY <1>1, LoyaltyConstants DEF LoyaltyTypeOK
  <2>2. redeemed' \in [Orders -> Nat]
    BY <1>1, <1>2, <2>1 DEF LoyaltyTypeOK, ChecksOut
  <2>3. /\ status' = [status EXCEPT ![o] = "pending"]
        /\ UNCHANGED <<tasks, worker, earned, restored, reversed, bonus, awarded,
                       expired, marked, user, web, listed>>
    BY <1>2 DEF ChecksOut
  <2> QED
    BY <1>1, <2>2, <2>3 DEF LoyaltyTypeOK, tasks
<1>3. ASSUME NEW o \in Orders, NEW task \in {"award", "reverse"}, Signals(task, o),
             \/ UNCHANGED status
             \/ \E to \in {"completed", "canceled"} : status' = [status EXCEPT ![o] = to]
      PROVE  LoyaltyTypeOK'
  <2>1. due' \subseteq Tasks
    BY <1>1, <1>3 DEF LoyaltyTypeOK, Signals, Tasks
  <2>2. status' \in [Orders -> {"new", "pending", "completed", "canceled"}]
    BY <1>1, <1>3 DEF LoyaltyTypeOK
  <2> QED
    BY <1>1, <1>3, <2>1, <2>2 DEF LoyaltyTypeOK, Signals, ledger
<1>4. ASSUME NEW o \in Orders, NEW k \in Clients, NEW p \in Amounts, AsksToRedeem(k, o, p)
      PROVE  LoyaltyTypeOK'
  BY <1>1, <1>4 DEF LoyaltyTypeOK, AsksToRedeem, tasks, ledger
<1>5. ASSUME NEW k \in Clients, Redeems(k)
      PROVE  LoyaltyTypeOK'
  <2>1. web[k].o \in Orders /\ web[k].points \in Nat
    BY <1>5, LoyaltyConstants DEF LInv, Booked, Redeems
  <2>2. redeemed[web[k].o] \in Nat
    BY <1>1, <2>1, RowsTyped
  <2>3. redeemed' \in [Orders -> Nat]
    BY <1>1, <1>5, <2>1, <2>2 DEF LoyaltyTypeOK, Redeems
  <2> QED
    BY <1>1, <1>5, <2>3 DEF LoyaltyTypeOK, Redeems, NoWeb, tasks
<1>6. ASSUME NEW o \in Orders, NEW w \in Workers, Takes(w, o)
      PROVE  LoyaltyTypeOK'
  BY <1>1, <1>6 DEF LoyaltyTypeOK, Takes, tasks, ledger
<1>7. ASSUME NEW w \in Workers, Acknowledges(w)
      PROVE  /\ queue' \subseteq Tasks /\ UNCHANGED <<due, lost>>
             /\ worker' \in [Workers -> [o : Orders \cup {None},
                               pc : {None, "book", "bonus"}, tier : BOOLEAN]]
  BY <1>1, <1>7 DEF LoyaltyTypeOK, Acknowledges, Idle
<1>8. ASSUME NEW o \in Orders, NEW w \in Workers, Awards(w, o)
      PROVE  LoyaltyTypeOK'
  <2>1. CASE MayAward(o)
    <3> DEFINE points == Worth(worker[w].tier)
    <3>1. points \in Nat
      BY LoyaltyConstants DEF Worth
    <3>2. /\ earned' = [earned EXCEPT ![o] = earned[o] + points]
          /\ awarded' = awarded \cup {o}
          /\ user' = Recalculated(worker[w].tier, user.xp + points)
          /\ worker' = [worker EXCEPT ![w] = [o |-> o, pc |-> "bonus", tier |-> FALSE]]
          /\ UNCHANGED <<due, queue, lost>>
      BY <1>8, <2>1 DEF Awards
    <3> HIDE DEF points
    <3>3. user' \in [xp : Nat, tier : BOOLEAN]
      <4>1. user.xp + points \in Nat /\ user.tier \in BOOLEAN
        BY <1>1, <3>1 DEF LoyaltyTypeOK
      <4>2. \/ user' = [xp |-> user.xp + points, tier |-> user.tier]
            \/ user' = [xp |-> user.xp + points, tier |-> TierOf(user.xp + points)]
        BY <3>2 DEF Recalculated
      <4> QED
        BY <4>1, <4>2, UserTyped
    <3>4. earned' \in [Orders -> Nat] /\ awarded' \subseteq Orders
      BY <1>1, <3>1, <3>2 DEF LoyaltyTypeOK
    <3>5. worker' \in [Workers -> [o : Orders \cup {None},
                         pc : {None, "book", "bonus"}, tier : BOOLEAN]]
      BY <1>1, <3>2 DEF LoyaltyTypeOK
    <3> QED
      BY <1>1, <1>8, <3>2, <3>3, <3>4, <3>5 DEF LoyaltyTypeOK, Awards
  <2>2. CASE ~MayAward(o)
    BY <1>1, <1>7, <1>8, <2>2 DEF LoyaltyTypeOK, Awards
  <2> QED
    BY <2>1, <2>2
<1>9. ASSUME NEW o \in Orders, NEW w \in Workers, GivesBonus(w, o)
      PROVE  LoyaltyTypeOK'
  <2>1. Bonus \in Nat /\ bonus[o] \in Nat
    BY <1>1, RowsTyped, LoyaltyConstants
  <2>2. bonus' \in [Orders -> Nat]
    BY <1>1, <1>9, <2>1 DEF LoyaltyTypeOK, GivesBonus
  <2>3. Acknowledges(w)
    BY <1>9 DEF GivesBonus
  <2> QED
    BY <1>1, <1>7, <1>9, <2>2, <2>3 DEF LoyaltyTypeOK, GivesBonus
<1>10. ASSUME NEW o \in Orders, Reverses(o)
       PROVE  LoyaltyTypeOK'
  <2> DEFINE n == TakenBack(o)
  <2>1. earned[o] \in Nat /\ redeemed[o] \in Nat /\ restored[o] \in Nat
        /\ reversed[o] \in Nat /\ Balance \in Int /\ user.xp \in Nat
    BY <1>1, RowsTyped, BalanceTyped DEF LoyaltyTypeOK
  <2>2. n \in Nat
    BY <2>1 DEF TakenBack, Least, Most
  <2>3. XpAfter(o) = Most(0, user.xp - n)
    BY DEF XpAfter
  <2> HIDE DEF n
  <2>4. XpAfter(o) \in Nat
    BY <2>1, <2>2, <2>3 DEF Most
  <2>5. restored' \in [Orders -> Nat]
    BY <1>1, <1>10, <2>1 DEF LoyaltyTypeOK, Reverses
  <2>6. reversed' = [reversed EXCEPT ![o] = reversed[o] + n] \/ reversed' = reversed
    BY <1>10 DEF Reverses, n
  <2>7. reversed' \in [Orders -> Nat]
    BY <1>1, <2>1, <2>2, <2>6 DEF LoyaltyTypeOK
  <2>8. user' = [xp |-> XpAfter(o), tier |-> TierOf(XpAfter(o))] \/ user' = user
    BY <1>10 DEF Reverses
  <2>9. user' \in [xp : Nat, tier : BOOLEAN]
    BY <1>1, <2>4, <2>8, UserTyped DEF LoyaltyTypeOK
  <2>10. faults' \in 0 .. MaxFaults
    BY <1>1, <1>10, LoyaltyConstants DEF LoyaltyTypeOK, Reverses, Faulty
  <2> QED
    BY <1>1, <1>10, <2>5, <2>7, <2>9, <2>10 DEF LoyaltyTypeOK, Reverses
<1>11. ASSUME NEW w \in Workers, Dies(w)
       PROVE  LoyaltyTypeOK'
  <2>1. faults' \in 0 .. MaxFaults
    BY <1>1, <1>11, LoyaltyConstants DEF LoyaltyTypeOK, Dies, Faulty
  <2> QED
    BY <1>1, <1>11, <2>1 DEF LoyaltyTypeOK, Dies, ledger, Idle
<1>12. ASSUME NEW x \in Runs, Lists(x)
       PROVE  LoyaltyTypeOK'
  <2>1. PICK os \in SUBSET Unmarked : listed' = [listed EXCEPT ![x] = os]
    BY <1>12 DEF Lists
  <2>2. os \subseteq Orders
    BY <1>1 DEF LoyaltyTypeOK, Unmarked
  <2> QED
    BY <1>1, <1>12, <2>1, <2>2 DEF LoyaltyTypeOK, Lists, tasks, ledger
<1>13. ASSUME NEW x \in Runs, Expire(x)
       PROVE  LoyaltyTypeOK'
  <2> DEFINE n == Expires(listed[x])
  <2>1. n \in Nat
    <3>1. listed[x] \subseteq Orders /\ IsFiniteSet(listed[x])
      BY <1>1, LoyaltyConstants, FS_Subset DEF LoyaltyTypeOK
    <3>2. \A o \in listed[x] : earned[o] \in Int /\ 0 <= earned[o]
      BY <1>1, <3>1, RowsTyped
    <3> DEFINE s == SumFunctionOnSet(earned, listed[x])
    <3>3. s \in Int
      BY <3>1, <3>2, SumIsInt
    <3>4. 0 <= s
      BY <3>1, <3>2, SumNotNegative
    <3> HIDE DEF s
    <3>5. Balance \in Int
      BY <1>1, BalanceTyped
    <3>6. n = Least(s, Most(0, Balance))
      BY DEF Expires, s
    <3> HIDE DEF n
    <3> QED
      BY <3>3, <3>4, <3>5, <3>6 DEF Least, Most
  <2>2. expired' = expired + n
    BY <1>13 DEF Expire
  <2> HIDE DEF n
  <2>3. expired' \in Nat
    BY <1>1, <2>1, <2>2 DEF LoyaltyTypeOK
  <2>4. marked' \in [Orders -> Nat]
    BY <1>1, <1>13 DEF LoyaltyTypeOK, Expire
  <2> QED
    BY <1>1, <1>13, <2>3, <2>4 DEF LoyaltyTypeOK, Expire, tasks
<1>14. CASE UNCHANGED vars
  BY <1>1, <1>14 DEF LoyaltyTypeOK, vars, tasks, ledger
<1>15. ASSUME NEW o \in Orders, Completes(o) \/ Cancels(o) \/ RefundsOrder(o)
       PROVE  LoyaltyTypeOK'
  BY <1>3, <1>15 DEF Completes, Cancels, RefundsOrder, Becomes
<1>16. ASSUME NEW t \in due, Queues(t) \/ GoesUnsent(t)
       PROVE  LoyaltyTypeOK'
  <2>1. /\ due' \subseteq Tasks /\ queue' \subseteq Tasks /\ lost' \subseteq Orders
        /\ faults' \in 0 .. MaxFaults
    BY <1>1, <1>16, LoyaltyConstants DEF LoyaltyTypeOK, Queues, GoesUnsent, Loses, Faulty
  <2> QED
    BY <1>1, <1>16, <2>1 DEF LoyaltyTypeOK, Queues, GoesUnsent, ledger
<1>17. ASSUME NEW t \in Tasks, Fails(t)
       PROVE  /\ due' \subseteq Tasks /\ queue' \subseteq Tasks /\ lost' \subseteq Orders
              /\ faults' \in 0 .. MaxFaults
  BY <1>1, <1>17, LoyaltyConstants DEF LoyaltyTypeOK, Fails, Loses, Faulty
<1>18. ASSUME NEW o \in Orders, ReversalFails(o)
       PROVE  LoyaltyTypeOK'
  <2>1. <<"reverse", o>> \in Tasks
    BY DEF Tasks
  <2> QED
    BY <1>1, <1>17, <1>18, <2>1 DEF LoyaltyTypeOK, ReversalFails, ledger
<1>19. ASSUME NEW w \in Workers, AwardFails(w)
       PROVE  LoyaltyTypeOK'
  <2>1. <<"award", worker[w].o>> \in Tasks
    BY <1>19 DEF LInv, Booked, AwardFails, Tasks
  <2> QED
    BY <1>1, <1>17, <1>19, <2>1 DEF LoyaltyTypeOK, AwardFails, Idle, ledger
<1> QED
  BY <1>2, <1>4, <1>5, <1>6, <1>8, <1>9, <1>10, <1>11, <1>12, <1>13, <1>14, <1>15,
     <1>16, <1>18, <1>19 DEF Next, Works

-----------------------------------------------------------------------------
\* Each writer leaves the ledger right.

Sound == NeverOverdrawn /\ XpIsEarned /\ OncePerOrder /\ OneBonus

LEMMA LedgerSame ==
  ASSUME Sound, UNCHANGED <<ledger, user>>
  PROVE  Sound'
  BY DEF Sound, ledger, NeverOverdrawn, Balance, XpIsEarned, OncePerOrder, OneBonus

\* A redemption: an order without one spends what the balance has.
LEMMA RedeemSound ==
  ASSUME LInv, LoyaltyTypeOK', NEW o \in Orders, NEW p \in Amounts, redeemed[o] = 0,
         p <= Balance, redeemed' = [redeemed EXCEPT ![o] = p],
         UNCHANGED <<earned, restored, reversed, bonus, awarded, expired, marked, user>>
  PROVE  Sound'
<1>1. LoyaltyTypeOK /\ Sound /\ OncePerOrder
  BY DEF LInv, LedgerIsRight, Sound
<1>2. /\ redeemed'[o] = p /\ \A x \in Orders \ {o} : redeemed'[x] = redeemed[x]
      /\ p \in Nat
  BY <1>1, LoyaltyConstants DEF LoyaltyTypeOK
<1>3. NeverOverdrawn'
  <2>1. \A x \in Orders \ {o} : Points(x)' = Points(x)
    BY <1>2 DEF Points
  <2>2. Balance' = Balance - Points(o) + Points(o)'
    BY <1>1, <2>1, BalanceMoves
  <2>3. Points(o)' = Points(o) - p /\ Points(o) \in Int
    BY <1>1, <1>2, RowsTyped DEF Points
  <2>4. Balance \in Int
    BY <1>1, BalanceTyped
  <2> QED
    BY <1>2, <2>2, <2>3, <2>4 DEF NeverOverdrawn
<1>4. XpIsEarned'
  BY <1>1 DEF Sound, XpIsEarned
<1>5. OncePerOrder'
  <2>1. restored[o] = 0
    BY <1>1 DEF OncePerOrder
  <2> QED
    BY <1>1, <1>2, <2>1 DEF OncePerOrder
<1>6. OneBonus'
  BY <1>1 DEF Sound, OneBonus
<1> QED
  BY <1>3, <1>4, <1>5, <1>6 DEF Sound

\* An award: the first row of its order.
LEMMA AwardSound ==
  ASSUME LInv, LoyaltyTypeOK', NEW o \in Orders, NEW w \in Workers, Awards(w, o),
         o \notin awarded
  PROVE  Sound'
<1>1. LoyaltyTypeOK /\ Sound /\ OncePerOrder /\ earned[o] = 0
  BY DEF LInv, LedgerIsRight, Sound, Booked
<1> DEFINE points == Worth(worker[w].tier)
<1>2. points \in Nat /\ points \in {Base, Base * Multiplier}
  BY LoyaltyConstants DEF Worth
<1>3. /\ earned' = [earned EXCEPT ![o] = earned[o] + points]
      /\ user' = Recalculated(worker[w].tier, user.xp + points)
      /\ UNCHANGED <<redeemed, restored, reversed, bonus, expired>>
  BY DEF Awards, MayAward
<1> HIDE DEF points
<1>4. /\ earned'[o] = points /\ \A x \in Orders \ {o} : earned'[x] = earned[x]
      /\ user'.xp = user.xp + points /\ user.xp \in Nat
  BY <1>1, <1>2, <1>3 DEF LoyaltyTypeOK, Recalculated
<1>5. /\ Points(o)' = Points(o) + points /\ Points(o) \in Int
      /\ Net(o)' = Net(o) + points /\ Net(o) \in Int
  BY <1>1, <1>2, <1>3, <1>4, RowsTyped DEF Points, Net
<1>6. \A x \in Orders \ {o} : Points(x)' = Points(x) /\ Net(x)' = Net(x)
  BY <1>3, <1>4 DEF Points, Net
<1>7. NeverOverdrawn'
  <2>1. Balance' = Balance - Points(o) + Points(o)' /\ Balance \in Int
    BY <1>1, <1>3, <1>6, BalanceMoves, BalanceTyped
  <2> QED
    BY <1>1, <1>2, <1>5, <2>1 DEF Sound, NeverOverdrawn
<1>8. XpIsEarned'
  <2>1. user'.xp = user.xp - Net(o) + Net(o)'
    BY <1>2, <1>4, <1>5
  <2> QED
    BY <1>1, <1>6, <2>1, XpMoves DEF Sound
<1>9. OncePerOrder'
  <2>1. reversed[o] = 0
    BY <1>1, RowsTyped DEF OncePerOrder
  <2>2. \A x \in Orders : earned'[x] \in {0, Base, Base * Multiplier}
    BY <1>1, <1>2, <1>4 DEF OncePerOrder
  <2>3. \A x \in Orders : reversed'[x] <= earned'[x]
    BY <1>1, <1>2, <1>3, <1>4, <2>1 DEF OncePerOrder
  <2> QED
    BY <1>1, <1>3, <2>2, <2>3 DEF OncePerOrder
<1>10. OneBonus'
  BY <1>1, <1>3 DEF Sound, OneBonus
<1> QED
  BY <1>7, <1>8, <1>9, <1>10 DEF Sound

\* The bonus: no other order was awarded, so none has it.
LEMMA BonusSound ==
  ASSUME LInv, LoyaltyTypeOK', NEW o \in Orders, NEW w \in Workers, GivesBonus(w, o)
  PROVE  Sound'
<1>1. LoyaltyTypeOK /\ Sound /\ OncePerOrder
  BY DEF LInv, LedgerIsRight, Sound
<1>2. bonus[o] = 0 /\ Bonus \in Nat
  BY LoyaltyConstants DEF LInv, Booked, Pays, GivesBonus
<1>3. UNCHANGED <<earned, redeemed, restored, reversed, awarded, expired, marked, user>>
  BY DEF GivesBonus
<1>4. CASE bonus' = bonus
  BY <1>1, <1>3, <1>4, LedgerSame DEF ledger
<1>5. CASE FirstAward(o) /\ bonus' = [bonus EXCEPT ![o] = bonus[o] + Bonus]
  <2>1. \A x \in Orders \ {o} : bonus[x] = 0
    BY <1>5 DEF FirstAward, LInv, Booked
  <2>2. /\ bonus'[o] = Bonus /\ \A x \in Orders \ {o} : bonus'[x] = bonus[x]
        /\ DOMAIN bonus' = Orders
    BY <1>1, <1>2, <1>5 DEF LoyaltyTypeOK
  <2>3. NeverOverdrawn'
    <3>1. \A x \in Orders \ {o} : Points(x)' = Points(x)
      BY <1>3, <2>2 DEF Points
    <3>2. Balance' = Balance - Points(o) + Points(o)' /\ Balance \in Int
      BY <1>1, <1>3, <3>1, BalanceMoves, BalanceTyped
    <3>3. Points(o)' = Points(o) + Bonus /\ Points(o) \in Int
      BY <1>1, <1>2, <1>3, <2>2, RowsTyped DEF Points
    <3> QED
      BY <1>1, <1>2, <3>2, <3>3 DEF Sound, NeverOverdrawn
  <2>4. OneBonus'
    <3> DEFINE none == Orders \ {o}
               f == bonus'
    <3>1. IsFiniteSet(Orders) /\ IsFiniteSet(none)
      BY LoyaltyConstants, FS_Subset
    <3>2. \A x \in none : f[x] = 0
      BY <2>1, <2>2
    <3>3. (\A x \in Orders : f[x] \in Int) /\ f[o] = Bonus
      BY <1>2, <2>1, <2>2
    <3>4. OneBonus' <=> SumFunctionOnSet(f, Orders) <= Bonus
      BY <2>2 DEF OneBonus, SumFunction
    <3> HIDE DEF f
    <3>5. SumFunctionOnSet(f, Orders) = f[o] + SumFunctionOnSet(f, none)
      BY <3>1, <3>3, SumApart
    <3> HIDE DEF none
    <3>6. SumFunctionOnSet(f, none) = 0
      BY <3>1, <3>2, SumOfZeros
    <3> QED
      BY <1>2, <3>3, <3>4, <3>5, <3>6
  <2> QED
    BY <1>1, <1>3, <2>3, <2>4 DEF Sound, XpIsEarned, OncePerOrder
<1> QED
  BY <1>4, <1>5 DEF GivesBonus

\* A reversal: it gives the redemption back and takes no more of the award
\* than the balance then has.
LEMMA ReverseSound ==
  ASSUME LInv, LoyaltyTypeOK', NEW o \in Orders, Reverses(o)
  PROVE  Sound'
<1>1. LoyaltyTypeOK /\ Sound /\ OncePerOrder
  BY DEF LInv, LedgerIsRight, Sound
<1>2. UNCHANGED <<earned, redeemed, bonus, awarded, expired, marked>>
  BY DEF Reverses
<1>3. CASE UNCHANGED <<restored, reversed, user>>
  BY <1>1, <1>2, <1>3, LedgerSame DEF ledger
<1>4. CASE MayReverse(o) /\ HasPoints(o)
  <2> DEFINE n == TakenBack(o)
  <2>1. /\ earned[o] \in Nat /\ redeemed[o] \in Nat /\ restored[o] = 0
        /\ reversed[o] = 0 /\ Balance \in Int /\ 0 <= Balance /\ user.xp \in Nat
    BY <1>1, <1>4, RowsTyped, BalanceTyped
       DEF LoyaltyTypeOK, MayReverse, Sound, NeverOverdrawn
  <2>2. n \in Nat /\ n <= earned[o] /\ n <= Balance + redeemed[o]
    BY <2>1 DEF TakenBack, Least, Most
  <2>3. user'.xp = Most(0, user.xp - n)
    BY <1>4 DEF Reverses, XpAfter
  <2>4. /\ restored' = [restored EXCEPT ![o] = restored[o] + redeemed[o]]
        /\ reversed' = [reversed EXCEPT ![o] = reversed[o] + n]
    BY <1>4 DEF Reverses
  <2> HIDE DEF n
  <2>5. /\ restored'[o] = redeemed[o] /\ reversed'[o] = n
        /\ \A x \in Orders \ {o} : restored'[x] = restored[x] /\ reversed'[x] = reversed[x]
    BY <1>1, <2>1, <2>2, <2>4 DEF LoyaltyTypeOK
  <2>6. /\ Points(o)' = Points(o) + redeemed[o] - n /\ Points(o) \in Int
        /\ Net(o)' = Net(o) - n /\ Net(o) \in Int /\ Net(o) = earned[o]
    BY <1>1, <1>2, <2>1, <2>2, <2>5, RowsTyped DEF Points, Net
  <2>7. \A x \in Orders \ {o} : Points(x)' = Points(x) /\ Net(x)' = Net(x)
    BY <1>2, <2>5 DEF Points, Net
  <2>8. NeverOverdrawn'
    <3>1. Balance' = Balance - Points(o) + Points(o)'
      BY <1>1, <1>2, <2>7, BalanceMoves
    <3> QED
      BY <2>1, <2>2, <2>6, <3>1 DEF NeverOverdrawn
  <2>9. XpIsEarned'
    <3>1. Net(o) <= user.xp
      BY <1>1, XpCovers DEF Sound
    <3>2. user'.xp = user.xp - Net(o) + Net(o)'
      BY <2>1, <2>2, <2>3, <2>6, <3>1 DEF Most
    <3> QED
      BY <1>1, <2>7, <3>2, XpMoves DEF Sound
  <2>10. OncePerOrder'
    <3>1. \A x \in Orders : restored'[x] \in {0, redeemed'[x]}
      BY <1>1, <1>2, <2>5 DEF OncePerOrder
    <3>2. \A x \in Orders : reversed'[x] <= earned'[x]
      BY <1>1, <1>2, <2>2, <2>5 DEF OncePerOrder
    <3> QED
      BY <1>1, <1>2, <3>1, <3>2 DEF OncePerOrder
  <2>11. OneBonus'
    BY <1>1, <1>2 DEF Sound, OneBonus
  <2> QED
    BY <2>8, <2>9, <2>10, <2>11 DEF Sound
<1> QED
  BY <1>3, <1>4 DEF Reverses

\* An expiration takes no more than the balance.
LEMMA ExpireSound ==
  ASSUME LInv, LoyaltyTypeOK', NEW x \in Runs, Expire(x)
  PROVE  Sound'
<1>1. LoyaltyTypeOK /\ Sound /\ OncePerOrder
  BY DEF LInv, LedgerIsRight, Sound
<1>2. UNCHANGED <<earned, redeemed, restored, reversed, bonus, awarded, user>>
  BY DEF Expire
<1> DEFINE s == SumFunctionOnSet(earned, listed[x])
           t == SumFunctionOnSet([o \in Orders |-> Points(o)], Orders)
<1>3. expired' = expired + Least(s, Most(0, Balance))
  BY DEF Expire, Expires
<1>4. Balance = Opening - expired + t /\ Balance' = Opening - expired' + t
  <2>1. \A o \in Orders : Points(o)' = Points(o)
    BY <1>2 DEF Points
  <2> QED
    BY <2>1, SumsAre
<1>5. /\ Balance \in Int /\ 0 <= Balance /\ Opening \in Int /\ expired \in Int
      /\ expired' \in Int
  BY <1>1, BalanceTyped, LoyaltyConstants DEF LoyaltyTypeOK, Sound, NeverOverdrawn
<1>6. s \in Int
  <2>1. listed[x] \subseteq Orders /\ IsFiniteSet(listed[x])
    BY <1>1, LoyaltyConstants, FS_Subset DEF LoyaltyTypeOK
  <2>2. \A o \in listed[x] : earned[o] \in Int
    BY <1>1, <2>1, RowsTyped
  <2> QED
    BY <2>1, <2>2, SumIsInt
<1>7. t \in Int
  BY <1>1, RowsTyped, LoyaltyConstants, SumIsInt
<1> HIDE DEF s, t
<1>8. NeverOverdrawn'
  BY <1>3, <1>4, <1>5, <1>6, <1>7 DEF NeverOverdrawn, Least, Most
<1> QED
  BY <1>1, <1>2, <1>8 DEF Sound, XpIsEarned, OncePerOrder, OneBonus

\* Every step leaves the ledger right.
LEMMA SoundStep ==
  ASSUME LInv, LoyaltyTypeOK', [Next]_vars
  PROVE  Sound'
<1>1. Sound /\ LoyaltyTypeOK
  BY DEF LInv, LedgerIsRight, Sound
<1>2. ASSUME UNCHANGED <<ledger, user>>
      PROVE  Sound'
  BY <1>1, <1>2, LedgerSame
<1>3. ASSUME NEW o \in Orders, ChecksOut(o)
      PROVE  Sound'
  <2>1. UNCHANGED <<earned, restored, reversed, bonus, awarded, expired, marked, user>>
    BY <1>3 DEF ChecksOut
  <2>2. CASE UNCHANGED redeemed
    BY <1>2, <2>1, <2>2 DEF ledger
  <2>3. ASSUME NEW p \in Amounts, p <= Balance, redeemed' = [redeemed EXCEPT ![o] = p]
        PROVE  Sound'
    <3>1. redeemed[o] = 0
      BY <1>3 DEF LInv, Booked, ChecksOut
    <3> QED
      BY <2>1, <2>3, <3>1, RedeemSound
  <2> QED
    BY <1>3, <2>2, <2>3 DEF ChecksOut
<1>4. ASSUME NEW k \in Clients, Redeems(k)
      PROVE  Sound'
  <2>1. /\ web[k].o \in Orders /\ web[k].points \in Amounts
        /\ UNCHANGED <<earned, restored, reversed, bonus, awarded, expired, marked, user>>
    BY <1>4 DEF LInv, Booked, Redeems
  <2>2. CASE UNCHANGED redeemed
    BY <1>2, <2>1, <2>2 DEF ledger
  <2>3. CASE ~UNCHANGED redeemed
    <3>1. /\ Covers(web[k].points) /\ Redeemable(web[k].o)
          /\ redeemed' = [redeemed EXCEPT ![web[k].o] = redeemed[web[k].o] + web[k].points]
      BY <1>4, <2>3 DEF Redeems
    <3>2. redeemed[web[k].o] + web[k].points = web[k].points
      <4>1. redeemed[web[k].o] = 0
        BY <3>1 DEF Redeemable
      <4>2. \A p \in Amounts : 0 + p = p
        BY LoyaltyConstants
      <4> QED
        BY <2>1, <4>1, <4>2
    <3> QED
      BY <2>1, <3>1, <3>2, RedeemSound DEF Covers, Redeemable
  <2> QED
    BY <2>2, <2>3
<1>5. ASSUME NEW o \in Orders, NEW w \in Workers, Awards(w, o)
      PROVE  Sound'
  <2>1. CASE o \in awarded
    BY <1>2, <1>5, <2>1 DEF Awards, MayAward, ledger
  <2> QED
    BY <1>5, <2>1, AwardSound
<1>6. ASSUME \/ \E o \in Orders : \/ Completes(o) \/ Cancels(o) \/ RefundsOrder(o)
                                  \/ \E k \in Clients, p \in Amounts : AsksToRedeem(k, o, p)
                                  \/ \E w \in Workers : Takes(w, o)
                                  \/ ReversalFails(o)
             \/ \E t \in due : Queues(t) \/ GoesUnsent(t)
             \/ \E w \in Workers : AwardFails(w) \/ Dies(w)
             \/ \E x \in Runs : Lists(x)
             \/ UNCHANGED vars
      PROVE  Sound'
  BY <1>2, <1>6 DEF Completes, Cancels, RefundsOrder, Becomes, Signals, AsksToRedeem,
                    Takes, Queues, GoesUnsent, ReversalFails, AwardFails, Dies, Lists,
                    vars
<1> QED
  BY <1>3, <1>4, <1>5, <1>6, BonusSound, ReverseSound, ExpireSound DEF Next, Works

\* A worker acknowledges an award that is booked.
LEMMA AcknowledgesBooked ==
  ASSUME LInv, NEW o \in Orders, NEW w \in Workers, Acknowledges(w),
         \/ Awards(w, o) /\ o \in awarded
         \/ GivesBonus(w, o)
  PROVE  queue' = queue \ {<<"award", o>>} /\ o \in awarded
  BY DEF LInv, Booked, Pays, Awards, GivesBonus, Acknowledges

\* The award of an order is about to be sent, waits in the queue, or was lost.
Waits(o) == o \in lost \/ <<"award", o>> \in due \cup queue

\* It waits until it is booked.
LEMMA DueStep ==
  ASSUME LInv, [Next]_vars
  PROVE  AwardIsDue'
<1> SUFFICES ASSUME NEW x \in Orders, status'[x] = "completed", x \notin awarded'
             PROVE  Waits(x)'
  BY DEF AwardIsDue, Waits
<1>1. LoyaltyTypeOK
  BY DEF LInv, LedgerIsRight
<1>2. ASSUME status[x] = "completed", x \notin awarded
      PROVE  Waits(x)
  BY <1>2 DEF LInv, AwardIsDue, Waits
<1>3. ASSUME UNCHANGED status, awarded \subseteq awarded', Waits(x) => Waits(x)'
      PROVE  Waits(x)'
  BY <1>2, <1>3
<1>4. ASSUME UNCHANGED tasks
      PROVE  Waits(x) => Waits(x)'
  BY <1>4 DEF Waits, tasks
<1>5. ASSUME NEW o \in Orders, ChecksOut(o)
      PROVE  Waits(x)'
  <2>1. UNCHANGED <<tasks, awarded>> /\ status' = [status EXCEPT ![o] = "pending"]
    BY <1>5 DEF ChecksOut
  <2> QED
    BY <1>1, <1>2, <1>4, <2>1 DEF LoyaltyTypeOK
<1>6. ASSUME NEW o \in Orders, Completes(o) \/ Cancels(o) \/ RefundsOrder(o)
      PROVE  Waits(x)'
  <2>1. /\ UNCHANGED <<awarded, queue, lost>> /\ due \subseteq due'
        /\ \/ UNCHANGED status
           \/ status' = [status EXCEPT ![o] = "canceled"]
           \/ status' = [status EXCEPT ![o] = "completed"] /\ <<"award", o>> \in due'
    BY <1>6 DEF Completes, Cancels, RefundsOrder, Becomes, Signals, ledger
  <2>2. Waits(x) => Waits(x)'
    BY <2>1 DEF Waits
  <2> QED
    BY <1>1, <1>2, <2>1, <2>2 DEF LoyaltyTypeOK, Waits
<1>7. ASSUME NEW t \in due, Queues(t) \/ GoesUnsent(t)
      PROVE  Waits(x)'
  <2>1. UNCHANGED <<status, awarded>>
    BY <1>7 DEF Queues, GoesUnsent, ledger
  <2>2. Waits(x) => Waits(x)'
    BY <1>7 DEF Queues, GoesUnsent, Loses, Waits
  <2> QED
    BY <1>3, <2>1, <2>2
<1>8. ASSUME NEW t, Fails(t)
      PROVE  Waits(x) => Waits(x)'
  BY <1>8 DEF Fails, Loses, Waits
<1>9. ASSUME NEW o \in Orders, NEW w \in Workers, Awards(w, o) \/ GivesBonus(w, o)
      PROVE  Waits(x)'
  <2>1. UNCHANGED status /\ awarded \subseteq awarded'
    BY <1>9 DEF Awards, GivesBonus
  <2>2. CASE UNCHANGED <<due, queue, lost>>
    BY <1>3, <2>1, <2>2 DEF Waits
  <2>3. CASE ~UNCHANGED <<due, queue, lost>>
    <3>1. Acknowledges(w) /\ ((Awards(w, o) /\ o \in awarded) \/ GivesBonus(w, o))
      BY <1>9, <2>3 DEF Awards, GivesBonus, MayAward
    <3>2. queue' = queue \ {<<"award", o>>} /\ o \in awarded /\ UNCHANGED <<due, lost>>
      BY <3>1, AcknowledgesBooked DEF Acknowledges
    <3> QED
      BY <1>2, <2>1, <3>2 DEF Waits
  <2> QED
    BY <2>2, <2>3
<1>10. ASSUME NEW o \in Orders, Reverses(o)
       PROVE  Waits(x)'
  <2>1. /\ UNCHANGED <<status, awarded, due, lost>>
        /\ queue \ {<<"reverse", o>>} \subseteq queue'
    BY <1>10 DEF Reverses
  <2>2. Waits(x) => Waits(x)'
    BY <2>1 DEF Waits
  <2> QED
    BY <1>3, <2>1, <2>2
<1>11. ASSUME \/ \E o \in Orders : ReversalFails(o)
              \/ \E w \in Workers : AwardFails(w)
       PROVE  Waits(x)'
  <2>1. UNCHANGED <<status, awarded>> /\ \E t : Fails(t)
    BY <1>11 DEF ReversalFails, AwardFails, ledger
  <2> QED
    BY <1>3, <1>8, <2>1
<1>12. ASSUME NEW w \in Workers, Dies(w)
       PROVE  Waits(x)'
  BY <1>3, <1>12 DEF Dies, ledger, Waits
<1>13. ASSUME \/ \E o \in Orders : \/ \E k \in Clients, p \in Amounts : AsksToRedeem(k, o, p)
                                   \/ \E w \in Workers : Takes(w, o)
              \/ \E k \in Clients : Redeems(k)
              \/ \E r \in Runs : Lists(r) \/ Expire(r)
              \/ UNCHANGED vars
       PROVE  Waits(x)'
  BY <1>3, <1>4, <1>13 DEF AsksToRedeem, Takes, Redeems, Lists, Expire, vars, ledger
<1> QED
  BY <1>5, <1>6, <1>7, <1>9, <1>10, <1>11, <1>12, <1>13 DEF Next, Works

\* What Booked compares, by record.
LEMMA BookedSame ==
  ASSUME LInv, UNCHANGED <<awarded, earned, bonus, redeemed>>,
         \A o \in Orders : status'[o] = "new" => status[o] = "new",
         \A k \in Clients : \/ web'[k] \in {web[k], NoWeb}
                            \/ /\ web'[k].o \in Orders /\ web'[k].points \in Amounts
                               /\ status'[web'[k].o] # "new",
         \A w \in Workers : \/ worker'[w] \in {worker[w], Idle}
                            \/ worker'[w].pc = "book" /\ worker'[w].o \in Orders
  PROVE  Booked'
<1>1. Booked
  BY DEF LInv
<1> \A w \in Workers, o \in Orders : Pays(w, o)' => Pays(w, o)
  BY LoyaltyConstants DEF Pays, Idle
<1>2. ASSUME NEW k \in Clients, web'[k] # NoWeb
      PROVE  /\ web'[k].o \in Orders /\ web'[k].points \in Amounts
             /\ status'[web'[k].o] # "new"
  BY <1>1, <1>2 DEF Booked
<1>3. \A o \in Orders \ awarded' : earned'[o] = 0 /\ bonus'[o] = 0
  BY <1>1 DEF Booked
<1>4. \A o \in Orders : status'[o] = "new" => redeemed'[o] = 0
  BY <1>1 DEF Booked
<1>5. \A w \in Workers, o \in Orders : Pays(w, o)' =>
        /\ o \in awarded' /\ bonus'[o] = 0
        /\ \A v \in Workers : Pays(v, o)' => v = w
  BY <1>1 DEF Booked
<1>6. \A w \in Workers : worker'[w] = Idle \/ worker'[w].o \in Orders
  BY <1>1 DEF Booked
<1> QED
  BY <1>2, <1>3, <1>4, <1>5, <1>6 DEF Booked, NoWeb

LEMMA BookedStep ==
  ASSUME LInv, LoyaltyTypeOK', [Next]_vars
  PROVE  Booked'
<1>1. LoyaltyTypeOK /\ Booked
  BY DEF LInv, LedgerIsRight
<1>2. ASSUME UNCHANGED worker
      PROVE  \A w \in Workers, o \in Orders : Pays(w, o)' <=> Pays(w, o)
  BY <1>2 DEF Pays
<1>3. ASSUME NEW o \in Orders, ChecksOut(o)
      PROVE  Booked'
  <2>1. /\ UNCHANGED <<worker, earned, bonus, awarded, web>>
        /\ status' = [status EXCEPT ![o] = "pending"]
        /\ \A x \in Orders \ {o} : redeemed'[x] = redeemed[x]
    BY <1>1, <1>3 DEF ChecksOut, LoyaltyTypeOK
  <2>2. status'[o] = "pending" /\ \A x \in Orders \ {o} : status'[x] = status[x]
    BY <1>1, <2>1 DEF LoyaltyTypeOK
  <2> QED
    BY <1>1, <1>2, <2>1, <2>2 DEF Booked, NoWeb
<1>4. ASSUME NEW o \in Orders, Completes(o) \/ Cancels(o) \/ RefundsOrder(o)
      PROVE  Booked'
  <2>1. /\ UNCHANGED <<worker, ledger, web>>
        /\ \/ UNCHANGED status
           \/ \E to \in {"completed", "canceled"} : status' = [status EXCEPT ![o] = to]
    BY <1>4 DEF Completes, Cancels, RefundsOrder, Becomes, Signals
  <2>2. \A x \in Orders : status'[x] = "new" => status[x] = "new"
    BY <1>1, <2>1 DEF LoyaltyTypeOK
  <2> QED
    BY <2>1, <2>2, BookedSame DEF ledger
<1>5. ASSUME UNCHANGED <<status, worker, ledger, web>>
      PROVE  Booked'
  BY <1>5, BookedSame DEF ledger
<1>6. ASSUME NEW o \in Orders, NEW k \in Clients, NEW p \in Amounts, AsksToRedeem(k, o, p)
      PROVE  Booked'
  <2>1. /\ UNCHANGED <<status, worker, ledger>>
        /\ \A c \in Clients : web'[c] = web[c] \/ web'[c] = [o |-> o, points |-> p]
        /\ status[o] = "pending"
    BY <1>1, <1>6 DEF AsksToRedeem, LoyaltyTypeOK
  <2> QED
    BY <2>1, BookedSame DEF ledger
<1>7. ASSUME NEW k \in Clients, Redeems(k)
      PROVE  Booked'
  <2>1. /\ UNCHANGED <<status, worker, earned, bonus, awarded>>
        /\ \A c \in Clients : web'[c] \in {web[c], NoWeb}
    BY <1>1, <1>7 DEF Redeems, LoyaltyTypeOK
  <2>2. \A o \in Orders : status[o] = "new" => redeemed'[o] = redeemed[o]
    BY <1>1, <1>7 DEF Redeems, LoyaltyTypeOK, Booked
  <2> QED
    BY <1>1, <1>2, <2>1, <2>2 DEF Booked, NoWeb
<1>8. ASSUME NEW o \in Orders, NEW w \in Workers, Takes(w, o)
      PROVE  Booked'
  <2>1. UNCHANGED <<status, ledger, web>>
        /\ \A v \in Workers : \/ worker'[v] = worker[v]
                              \/ worker'[v].pc = "book" /\ worker'[v].o \in Orders
    BY <1>1, <1>8 DEF Takes, LoyaltyTypeOK
  <2> QED
    BY <2>1, BookedSame DEF ledger
<1>9. ASSUME NEW w \in Workers, worker' = [worker EXCEPT ![w] = Idle]
      PROVE  /\ \A v \in Workers, x \in Orders : Pays(v, x)' => Pays(v, x) /\ v # w
             /\ \A v \in Workers : worker'[v] \in {worker[v], Idle}
  BY <1>1, <1>9, LoyaltyConstants DEF Pays, Idle, LoyaltyTypeOK
<1>10. ASSUME NEW o \in Orders, NEW w \in Workers, Awards(w, o)
       PROVE  Booked'
  <2>1. CASE o \in awarded
    BY <1>9, <1>10, <2>1, BookedSame DEF Awards, MayAward, Acknowledges
  <2>2. CASE o \notin awarded
    <3>1. /\ UNCHANGED <<status, bonus, redeemed, web>>
          /\ awarded' = awarded \cup {o}
          /\ worker' = [worker EXCEPT ![w] = [o |-> o, pc |-> "bonus", tier |-> FALSE]]
          /\ earned' = [earned EXCEPT ![o] = earned[o] + Worth(worker[w].tier)]
      BY <1>10, <2>2 DEF Awards, MayAward
    <3>2. \A x \in Orders \ {o} : earned'[x] = earned[x]
      BY <1>1, <3>1 DEF LoyaltyTypeOK
    <3>3. \A v \in Workers, x \in Orders :
            Pays(v, x)' <=> IF v = w THEN x = o ELSE Pays(v, x)
      BY <1>1, <3>1 DEF Pays, LoyaltyTypeOK
    <3>4. bonus[o] = 0 /\ \A v \in Workers : ~Pays(v, o)
      BY <1>1, <2>2 DEF Booked
    <3>5. \A v \in Workers : worker'[v] = Idle \/ worker'[v].o \in Orders
      BY <1>1, <3>1 DEF LoyaltyTypeOK, Booked
    <3> QED
      BY <1>1, <3>1, <3>2, <3>3, <3>4, <3>5 DEF Booked
  <2> QED
    BY <2>1, <2>2
<1>11. ASSUME NEW o \in Orders, NEW w \in Workers, GivesBonus(w, o)
       PROVE  Booked'
  <2>1. /\ UNCHANGED <<status, earned, redeemed, awarded, web>>
        /\ worker' = [worker EXCEPT ![w] = Idle]
        /\ \A x \in Orders \ {o} : bonus'[x] = bonus[x]
    BY <1>1, <1>11 DEF GivesBonus, Acknowledges, LoyaltyTypeOK
  <2>2. o \in awarded /\ Pays(w, o)
    BY <1>1, <1>11 DEF Booked, Pays, GivesBonus
  <2>3. \A v \in Workers, x \in Orders : Pays(v, x)' => Pays(v, x) /\ x # o
    BY <1>1, <1>9, <2>1, <2>2, ZenonT(60) DEF Booked
  <2>4. \A x \in Orders \ awarded' : earned'[x] = 0 /\ bonus'[x] = 0
    BY <1>1, <2>1, <2>2 DEF Booked
  <2>5. \A v \in Workers, x \in Orders : Pays(v, x)' =>
          /\ x \in awarded' /\ bonus'[x] = 0
          /\ \A u \in Workers : Pays(u, x)' => u = v
    BY <1>1, <2>1, <2>3 DEF Booked
  <2>6. \A v \in Workers : worker'[v] = Idle \/ worker'[v].o \in Orders
    BY <1>1, <1>9, <2>1 DEF Booked
  <2> QED
    BY <1>1, <2>1, <2>4, <2>5, <2>6 DEF Booked, NoWeb
<1>12. ASSUME NEW w \in Workers, AwardFails(w) \/ Dies(w)
       PROVE  Booked'
  BY <1>9, <1>12, BookedSame DEF AwardFails, Dies, ledger
<1>13. ASSUME \/ \E o \in Orders : Reverses(o) \/ ReversalFails(o)
              \/ \E t \in due : Queues(t) \/ GoesUnsent(t)
              \/ \E x \in Runs : Lists(x) \/ Expire(x)
              \/ UNCHANGED vars
       PROVE  Booked'
  BY <1>5, <1>13, BookedSame
     DEF Reverses, ReversalFails, Queues, GoesUnsent, Lists, Expire, vars, ledger
<1> QED
  BY <1>3, <1>4, <1>6, <1>7, <1>8, <1>10, <1>11, <1>12, <1>13 DEF Next, Works

-----------------------------------------------------------------------------
LEMMA LInvInit == Init => LInv
<1> SUFFICES ASSUME Init
             PROVE  LInv
  OBVIOUS
<1>1. LoyaltyTypeOK
  BY LoyaltyConstants DEF Init, LoyaltyTypeOK, Zero, Idle, NoWeb
<1>2. Booked /\ AwardIsDue /\ OncePerOrder
  BY LoyaltyConstants
     DEF Init, Booked, AwardIsDue, OncePerOrder, Pays, Idle, Zero, NoWeb
<1>3. \A o \in Orders : Points(o) = 0 /\ Net(o) = 0
  BY DEF Init, Zero, Points, Net
<1> DEFINE f == [o \in Orders |-> Points(o)]
           g == [o \in Orders |-> Net(o)]
<1>4. (\A o \in Orders : f[o] = 0) /\ (\A o \in Orders : g[o] = 0)
  BY <1>3
<1>5. /\ Balance = Opening - expired + SumFunctionOnSet(f, Orders)
      /\ XpIsEarned <=> user.xp = SumFunctionOnSet(g, Orders)
      /\ expired = 0 /\ user.xp = 0 /\ Opening \in Nat
  BY SumsAre, LoyaltyConstants DEF Init
<1> HIDE DEF f, g
<1>6. SumFunctionOnSet(f, Orders) = 0 /\ SumFunctionOnSet(g, Orders) = 0
  BY <1>4, LoyaltyConstants, SumOfZeros
<1>7. NeverOverdrawn /\ XpIsEarned
  BY <1>5, <1>6 DEF NeverOverdrawn
<1>8. OneBonus
  <2>1. bonus = [o \in Orders |-> 0]
    BY DEF Init, Zero
  <2> DEFINE b == bonus
  <2>2. \A o \in Orders : b[o] = 0
    BY <2>1
  <2>3. SumFunction(bonus) = SumFunctionOnSet(b, Orders)
    BY <2>1 DEF SumFunction
  <2> HIDE DEF b
  <2>4. SumFunctionOnSet(b, Orders) = 0
    BY <2>2, LoyaltyConstants, SumOfZeros
  <2> QED
    BY <2>3, <2>4, LoyaltyConstants DEF OneBonus
<1> QED
  BY <1>1, <1>2, <1>7, <1>8 DEF LInv, LedgerIsRight

LEMMA LInvStep == LInv /\ [Next]_vars => LInv'
  BY TypeStep, SoundStep, DueStep, BookedStep DEF LInv, LedgerIsRight, Sound

LEMMA LInvAlways == Spec => []LInv
  BY LInvInit, LInvStep, PTL DEF Spec

\* The ledger is right after any interleaving of checkouts, redeem requests,
\* awards, reversals and expirations, whatever workers are lost: no debt, XP
\* that the rows account for, one award, redemption and reversal an order, one
\* bonus a customer (run loyalty).
THEOREM LoyaltyLedgerIsRight == Spec => []LedgerIsRight
<1>1. LInv => LedgerIsRight
  BY DEF LInv
<1> QED
  BY <1>1, LInvAlways, PTL

\* An award that is due is about to be sent or in the queue until it is booked,
\* unless it was not sent after COMMIT or dropped after the last retry: nothing
\* else loses it (run loyalty).
THEOREM LoyaltyAwardIsDue == Spec => []AwardIsDue
<1>1. LInv => AwardIsDue
  BY DEF LInv
<1> QED
  BY <1>1, LInvAlways, PTL

\* A reversal that does not fail is not acknowledged before the points spent on
\* its order are back (run loyalty).
THEOREM LoyaltyRedemptionReturns == Spec => RedemptionReturns
<1> DEFINE Returns ==
      \A o \in Orders :
        <<"reverse", o>> \in queue \ queue' /\ faults' = faults
        /\ redeemed[o] > 0 /\ reversed[o] = 0
        => restored'[o] = redeemed[o]
<1>1. LInv /\ [Next]_vars => [Returns]_vars
  <2> SUFFICES ASSUME LInv, Next, NEW o \in Orders, <<"reverse", o>> \in queue \ queue',
                      faults' = faults, redeemed[o] > 0, reversed[o] = 0
               PROVE  restored'[o] = redeemed[o]
    OBVIOUS
  <2>1. LoyaltyTypeOK /\ OncePerOrder
    BY DEF LInv, LedgerIsRight
  <2>2. Reverses(o)
    <3>1. ASSUME NEW x \in Orders, Completes(x) \/ Cancels(x) \/ RefundsOrder(x)
          PROVE  queue \subseteq queue'
      BY <3>1 DEF Completes, Cancels, RefundsOrder, Becomes, Signals
    <3>2. ASSUME NEW w \in Workers, Acknowledges(w)
          PROVE  <<"reverse", o>> \in queue'
      BY <3>2 DEF Acknowledges
    <3>3. ASSUME NEW x \in Orders, Reverses(x), x # o
          PROVE  <<"reverse", o>> \in queue'
      BY <3>3 DEF Reverses
    <3>4. ASSUME Faulty
          PROVE  FALSE
      BY <2>1, <3>4 DEF Faulty, LoyaltyTypeOK
    <3>5. ASSUME NEW x \in Orders, ReversalFails(x)
          PROVE  FALSE
      BY <3>4, <3>5 DEF ReversalFails, Fails
    <3>6. ASSUME NEW w \in Workers, AwardFails(w) \/ Dies(w)
          PROVE  FALSE
      BY <3>4, <3>6 DEF AwardFails, Fails, Dies
    <3>7. ASSUME NEW t \in due, Queues(t) \/ GoesUnsent(t)
          PROVE  queue \subseteq queue'
      BY <3>7 DEF Queues, GoesUnsent
    <3> QED
      BY <3>1, <3>2, <3>3, <3>5, <3>6, <3>7
         DEF Next, Works, ChecksOut, AsksToRedeem, Redeems, Takes, Awards,
             GivesBonus, Lists, Expire, tasks
  <2>3. CASE MayReverse(o)
    <3>1. restored' = [restored EXCEPT ![o] = restored[o] + redeemed[o]]
      BY <2>2, <2>3 DEF Reverses, HasPoints
    <3>2. restored[o] = 0 /\ redeemed[o] \in Nat
      BY <2>1, <2>3, RowsTyped DEF MayReverse
    <3> QED
      BY <2>1, <3>1, <3>2 DEF LoyaltyTypeOK
  <2>4. CASE ~MayReverse(o)
    BY <2>1, <2>2, <2>4 DEF Reverses, MayReverse, OncePerOrder
  <2> QED
    BY <2>3, <2>4
<1> QED
  BY <1>1, LInvAlways, PTL DEF Spec, RedemptionReturns

=============================================================================
