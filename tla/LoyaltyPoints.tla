----------------------------- MODULE LoyaltyPoints -----------------------------
(***************************************************************************)
(* Loyalty points of one customer (loyalty/services.py, signals.py,        *)
(* tasks.py, views/loyalty.py): an append-only ledger whose sum is the     *)
(* balance, the XP counter and the tier beside it, and who writes them:    *)
(* checkouts and the redeem endpoint, the award and reversal tasks that    *)
(* Celery delivers late, in any order and more than once, and the daily    *)
(* expiration.  Every writer locks the customer's row; what it read before *)
(* the lock is kept in worker, web and listed.  A task is sent after its   *)
(* transaction has committed (due) and dropped after its last retry: lost  *)
(* are the orders of whose award no message is left.                       *)
(***************************************************************************)
EXTENDS Integers, FiniteSets, Functions

CONSTANTS
  Orders,      \* orders of the customer
  Workers,     \* Celery processes
  Clients,     \* redeem requests at one time
  Runs,        \* expiration runs that may overlap
  None,
  Base,        \* points of an order without a tier
  Multiplier,  \* what a tier makes of them
  TierXp,      \* XP the tier starts at
  Opening,     \* points granted by staff
  Amounts,     \* points a customer asks to redeem
  Bonus,       \* new-customer bonus
  MaxDue,      \* bound on processes between a COMMIT and its callback
  MaxFaults    \* bound on lost processes, refused messages, failed attempts

ASSUME LoyaltyConstants ==
  /\ IsFiniteSet(Orders)
  /\ None \notin Orders
  /\ {Base, Multiplier, TierXp, Bonus} \subseteq Nat \ {0}
  /\ Opening \in Nat /\ Amounts \subseteq Nat \ {0}
  /\ {MaxDue, MaxFaults} \subseteq Nat

VARIABLES
  status,    \* the orders' states, as far as points depend on them
  due,       \* tasks of committed transactions that are still to be sent
  queue,     \* tasks delivered until they are acknowledged
  lost,      \* (history) awards never sent, or dropped after the last retry
  worker,    \* the award a Celery process runs, and the tier it read
  earned,    \* the ledger, by the order the rows refer to: EARN,
  redeemed,  \* REDEEM,
  restored,  \* ADJUST that gives a redemption back,
  reversed,  \* ADJUST that takes an award back
  bonus,     \* and BONUS
  awarded,   \* orders with an EARN row
  expired,   \* points taken by EXPIRE rows
  marked,    \* how many EXPIRE markers the award of an order has
  user,      \* total_xp and loyalty_tier
  web,       \* redeem requests between its look at the order and the lock
  listed,    \* awards a run found expirable before it locked the customer
  faults

ledger == <<earned, redeemed, restored, reversed, bonus, awarded, expired, marked>>
tasks == <<due, queue, lost, faults>>
vars == <<status, tasks, worker, ledger, user, web, listed>>

Tasks == {"award", "reverse"} \X Orders
Idle == [o |-> None, pc |-> None, tier |-> FALSE]

LoyaltyTypeOK ==
  /\ status \in [Orders -> {"new", "pending", "completed", "canceled"}]
  /\ due \subseteq Tasks /\ queue \subseteq Tasks /\ lost \subseteq Orders
  /\ faults \in 0 .. MaxFaults
  /\ worker \in [Workers -> [o : Orders \cup {None},
                             pc : {None, "book", "bonus"}, tier : BOOLEAN]]
  /\ \A f \in {earned, redeemed, restored, reversed, bonus, marked} :
       f \in [Orders -> Nat]
  /\ awarded \subseteq Orders /\ expired \in Nat
  /\ user \in [xp : Nat, tier : BOOLEAN]
  /\ web \in [Clients -> [o : Orders \cup {None}, points : Amounts \cup {None}]]
  /\ listed \in [Runs -> SUBSET Orders]

NoWeb == [o |-> None, points |-> None]
Zero == [o \in Orders |-> 0]

Init ==
  /\ status = [o \in Orders |-> "new"]
  /\ due = {} /\ queue = {} /\ lost = {} /\ faults = 0
  /\ worker = [w \in Workers |-> Idle]
  /\ earned = Zero /\ redeemed = Zero /\ restored = Zero /\ reversed = Zero
  /\ bonus = Zero /\ marked = Zero
  /\ awarded = {} /\ expired = 0
  /\ user = [xp |-> 0, tier |-> FALSE]
  /\ web = [k \in Clients |-> NoWeb] /\ listed = [x \in Runs |-> {}]

\* get_balance: the sum of the ledger.
Balance ==
  Opening - expired +
  SumFunction([o \in Orders |->
                 earned[o] + restored[o] + bonus[o] - redeemed[o] - reversed[o]])

Least(a, b) == IF a <= b THEN a ELSE b
Most(a, b) == IF a >= b THEN a ELSE b

-----------------------------------------------------------------------------
\* Orders.

\* redeem_points, under the customer's lock: the balance covers it, and the
\* order has no redemption.
Covers(p) == p <= Balance

Redeemable(o) == redeemed[o] = 0

\* A checkout redeems in the transaction that creates the order: a redemption
\* that is refused refuses the order.
ChecksOut(o) ==
  /\ status[o] = "new"
  /\ status' = [status EXCEPT ![o] = "pending"]
  /\ \/ UNCHANGED redeemed
     \/ \E p \in Amounts :
          /\ p <= Balance
          /\ redeemed' = [redeemed EXCEPT ![o] = p]
  /\ UNCHANGED <<tasks, worker, earned, restored, reversed, bonus, awarded,
                 expired, marked, user, web, listed>>

\* The receivers leave the task to a callback that runs after COMMIT.
Signals(task, o) ==
  /\ Cardinality(due) < MaxDue /\ due' = due \cup {<<task, o>>}
  /\ UNCHANGED <<queue, lost, faults, worker, ledger, user, web, listed>>

Becomes(o, to, task) ==
  /\ status[o] = "pending"
  /\ status' = [status EXCEPT ![o] = to]
  /\ Signals(task, o)

Completes(o) == Becomes(o, "completed", "award")
Cancels(o) == Becomes(o, "canceled", "reverse")

\* A refund is a matter of the payment: whatever the order's state, the state
\* stays, and the signal may come more than once.
RefundsOrder(o) ==
  /\ status[o] # "new"
  /\ Signals("reverse", o) /\ UNCHANGED status

\* The callback hands the task to the broker,
Queues(t) ==
  /\ t \in due
  /\ due' = due \ {t} /\ queue' = queue \cup {t}
  /\ UNCHANGED <<status, lost, faults, worker, ledger, user, web, listed>>

Faulty == faults < MaxFaults /\ faults' = faults + 1

Loses(t) == lost' = lost \cup {o \in Orders : t = <<"award", o>>}

\* or does not: the process is gone, or the broker refuses.  Nothing looks for
\* the order again.
GoesUnsent(t) ==
  /\ t \in due /\ Faulty
  /\ due' = due \ {t} /\ Loses(t)
  /\ UNCHANGED <<status, queue, worker, ledger, user, web, listed>>

\* The redeem endpoint looks at the order without a lock,
AsksToRedeem(k, o, p) ==
  /\ web[k] = NoWeb /\ status[o] = "pending" /\ redeemed[o] = 0
  /\ web' = [web EXCEPT ![k] = [o |-> o, points |-> p]]
  /\ UNCHANGED <<status, tasks, worker, ledger, user, listed>>

\* and redeems, or is refused, under the customer's: the order may have moved.
Redeems(k) ==
  LET o == web[k].o IN
  /\ web[k] # NoWeb
  /\ redeemed' = IF Covers(web[k].points) /\ Redeemable(o)
                   THEN [redeemed EXCEPT ![o] = redeemed[o] + web[k].points]
                   ELSE redeemed
  /\ web' = [web EXCEPT ![k] = NoWeb]
  /\ UNCHANGED <<status, tasks, worker, earned, restored, reversed, bonus,
                 awarded, expired, marked, user, listed>>

-----------------------------------------------------------------------------
\* The tasks.  One that is not acknowledged is delivered again, perhaps while
\* it still runs.

TierOf(xp) == xp >= TierXp

\* Before it locks the customer the award reads the order and the customer.
Takes(w, o) ==
  /\ worker[w] = Idle /\ <<"award", o>> \in queue
  /\ worker' = [worker EXCEPT ![w] = [o |-> o, pc |-> "book", tier |-> user.tier]]
  /\ UNCHANGED <<status, tasks, ledger, user, web, listed>>

Acknowledges(w) ==
  /\ queue' = queue \ {<<"award", worker[w].o>>}
  /\ worker' = [worker EXCEPT ![w] = Idle]
  /\ UNCHANGED <<due, lost>>

\* An attempt that raises is repeated; after the last retry the task is dropped.
\* Retries are not counted: any attempt may be the last.
Fails(t) ==
  /\ Faulty /\ UNCHANGED due
  /\ \/ queue' = queue \cup {t} /\ UNCHANGED lost
     \/ queue' = queue \ {t} /\ Loses(t)

\* The award is booked once, at the rate of the tier that was read; the tier
\* is set again where the XP call for another one than was read.
MayAward(o) == o \notin awarded

Worth(tier) == IF tier THEN Base * Multiplier ELSE Base

Recalculated(tier, xp) ==
  [xp |-> xp, tier |-> IF TierOf(xp) = tier THEN user.tier ELSE TierOf(xp)]

Awards(w, o) ==
  /\ worker[w].o = o /\ worker[w].pc = "book"
  /\ IF MayAward(o)
       THEN LET points == Worth(worker[w].tier) IN
            /\ earned' = [earned EXCEPT ![o] = earned[o] + points]
            /\ awarded' = awarded \cup {o}
            /\ user' = Recalculated(worker[w].tier, user.xp + points)
            /\ worker' = [worker EXCEPT ![w] =
                 [o |-> o, pc |-> "bonus", tier |-> FALSE]]
            /\ UNCHANGED <<due, queue, lost>>
       ELSE Acknowledges(w) /\ UNCHANGED <<earned, awarded, user>>
  /\ UNCHANGED <<status, redeemed, restored, reversed, bonus, expired, marked,
                 web, listed, faults>>

\* The bonus of the first order is a transaction of its own.
FirstAward(o) == awarded \subseteq {o}

GivesBonus(w, o) ==
  /\ worker[w].o = o /\ worker[w].pc = "bonus"
  /\ bonus' = IF FirstAward(o)
                THEN [bonus EXCEPT ![o] = bonus[o] + Bonus] ELSE bonus
  /\ Acknowledges(w)
  /\ UNCHANGED <<status, earned, redeemed, restored, reversed, awarded,
                 expired, marked, user, web, listed, faults>>

\* The reversal: once there is an ADJUST row it does nothing; it restores the
\* redemption first, then takes back what the balance has of the award.
MayReverse(o) == restored[o] = 0 /\ reversed[o] = 0

\* Mutant: the whole award is taken back.
TakenBackWhole(o) == earned[o]

TakenBack(o) == Least(earned[o], Most(0, Balance + redeemed[o]))

XpAfter(o) == Most(0, user.xp - TakenBack(o))

\* Mutant: an order that was never awarded has nothing to reverse.
OnlyAwarded(o) == o \in awarded

HasPoints(o) == o \in awarded \/ redeemed[o] > 0

Reverses(o) ==
  /\ <<"reverse", o>> \in queue
  /\ IF MayReverse(o) /\ HasPoints(o)
       THEN /\ restored' = [restored EXCEPT ![o] = restored[o] + redeemed[o]]
            /\ reversed' = [reversed EXCEPT ![o] = reversed[o] + TakenBack(o)]
            /\ user' = [xp |-> XpAfter(o), tier |-> TierOf(XpAfter(o))]
       ELSE UNCHANGED <<restored, reversed, user>>
  /\ \/ queue' = queue \ {<<"reverse", o>>} /\ UNCHANGED faults
     \/ UNCHANGED queue /\ Faulty
  /\ UNCHANGED <<status, due, lost, worker, earned, redeemed, bonus,
                 awarded, expired, marked, web, listed>>

\* A reversal that raises is rolled back.
ReversalFails(o) ==
  /\ <<"reverse", o>> \in queue /\ Fails(<<"reverse", o>>)
  /\ UNCHANGED <<status, worker, ledger, user, web, listed>>

\* An award raises before it is booked, or between it and the bonus,
AwardFails(w) ==
  /\ worker[w] # Idle /\ Fails(<<"award", worker[w].o>>)
  /\ worker' = [worker EXCEPT ![w] = Idle]
  /\ UNCHANGED <<status, ledger, user, web, listed>>

\* or its worker is lost.
\* Mutant: the task is acknowledged when it is taken.
DiesForGood(w) ==
  /\ worker[w] # Idle /\ Faulty
  /\ Acknowledges(w)
  /\ UNCHANGED <<status, ledger, user, web, listed>>

Dies(w) ==
  /\ worker[w] # Idle /\ Faulty
  /\ worker' = [worker EXCEPT ![w] = Idle]
  /\ UNCHANGED <<status, due, queue, lost, ledger, user, web, listed>>

-----------------------------------------------------------------------------
\* Expiration: the awards older than the cutoff without an EXPIRE marker are
\* listed first (os: as many as time has made so, and no fewer than an earlier
\* run found); the customer is locked afterwards, and never more is taken than
\* the balance holds.
Unmarked == {o \in awarded : marked[o] = 0}

Lists(x) ==
  /\ listed[x] = {}
  /\ \E os \in SUBSET Unmarked :
       /\ Unmarked \cap UNION Range(listed) \subseteq os
       /\ listed' = [listed EXCEPT ![x] = os]
  /\ UNCHANGED <<status, tasks, worker, ledger, user, web>>

Expires(os) ==
  Least(SumFunctionOnSet(earned, os), Most(0, Balance))

Expire(x) ==
  /\ listed[x] # {}
  /\ expired' = expired + Expires(listed[x])
  /\ marked' = [o \in Orders |-> marked[o] + IF o \in listed[x] THEN 1 ELSE 0]
  /\ listed' = [listed EXCEPT ![x] = {}]
  /\ UNCHANGED <<status, tasks, worker, earned, redeemed, restored, reversed,
                 bonus, awarded, user, web>>

-----------------------------------------------------------------------------
Works ==
  \E o \in Orders :
    \/ Reverses(o) \/ ReversalFails(o)
    \/ \E w \in Workers : Takes(w, o) \/ Awards(w, o) \/ GivesBonus(w, o)

Next ==
  \/ \E o \in Orders :
       \/ ChecksOut(o) \/ Completes(o) \/ Cancels(o) \/ RefundsOrder(o)
       \/ \E k \in Clients, p \in Amounts : AsksToRedeem(k, o, p)
  \/ \E k \in Clients : Redeems(k)
  \/ \E t \in due : Queues(t) \/ GoesUnsent(t)
  \/ Works \/ \E w \in Workers : AwardFails(w) \/ Dies(w)
  \/ \E x \in Runs : Lists(x) \/ Expire(x)

Spec == Init /\ [][Next]_vars

-----------------------------------------------------------------------------
\* The customer is never in debt, whatever is redeemed, reversed and expired
\* at the same time: no writer takes more than the ledger holds when it writes.
NeverOverdrawn == Balance >= 0

\* The XP counter, changed beside the ledger, is what the ledger's awards and
\* reversals make it: no update is lost, and restored points bring no XP.
XpIsEarned == user.xp = SumFunction([o \in Orders |-> earned[o] - reversed[o]])

\* However often a task is delivered and a request repeated, an order is
\* awarded, redeemed and reversed once: a second redemption would cost points
\* that no discount shows, a second reversal another order's points.
OncePerOrder ==
  \A o \in Orders :
    /\ earned[o] \in {0, Base, Base * Multiplier}
    /\ redeemed[o] \in {0} \cup Amounts
    /\ restored[o] \in {0, redeemed[o]} /\ reversed[o] <= earned[o]

\* Two first orders that complete together do not both bring the bonus.
OneBonus == SumFunction(bonus) <= Bonus

\* The ledger as the tasks and requests leave it, with the counter beside it.
LedgerIsRight ==
  LoyaltyTypeOK /\ NeverOverdrawn /\ XpIsEarned /\ OncePerOrder /\ OneBonus

\* Until a completed order is awarded its task is about to be sent, is waiting
\* to be delivered again, or was lost: never sent after COMMIT, or dropped after
\* the last retry.  No other way loses an award: not a worker that is gone, a
\* task that runs twice, nor the order in which the tasks come.
AwardIsDue ==
  \A o \in Orders :
    status[o] = "completed" /\ o \notin awarded
      => o \in lost \/ <<"award", o>> \in due \cup queue

\* A reversal leaves the queue in a step that is no failure only when points
\* spent on its order are back in full, also when it overtakes the award and
\* takes nothing back.
RedemptionReturns ==
  [][\A o \in Orders :
       <<"reverse", o>> \in queue \ queue' /\ faults' = faults
       /\ redeemed[o] > 0 /\ reversed[o] = 0
       => restored'[o] = redeemed[o]]_vars

=============================================================================
