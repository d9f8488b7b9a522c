------------------------------ MODULE AcsVoucher ------------------------------
(***************************************************************************)
(* The vouchers of the ACS courier (shipping_acs/services.py, tasks.py,    *)
(* admin.py): the Celery task that mints one, the cancellations of staff   *)
(* and of a canceled order, the admin's retire and re-issue, and the daily *)
(* pickup list.  Each works in three phases, a short transaction, an ACS   *)
(* call and another transaction, and anything may happen in between.  Acs  *)
(* itself is external: what it really holds is acs and lists, which the    *)
(* shop only learns of through the answers that reach it.                  *)
(***************************************************************************)
EXTENDS Integers, FiniteSets

CONSTANTS
  Shipments,   \* AcsShipment rows, one per order
  Vouchers,    \* voucher numbers ACS may issue
  Lists,       \* pickup lists ACS may issue, numbered as they are issued
  Tasks,       \* create_acs_voucher_for_order messages
  TaskOf,      \* the shipment of each message
  Cancels,     \* requests that cancel a voucher, or the order
  Issuers,     \* runs of the pickup list, by beat or by an admin
  None,        \* no voucher, no list, no lock holder
  MaxTries,    \* deliveries a message gets from Celery's retry policy
  MaxCrashes,  \* workers that die, and answers that get lost
  SlowCalls,   \* TRUE when an ACS call may outlast the claim taken for it
  Entrances    \* the admin's actions that are in play

ASSUME CourierConstants ==
  /\ TaskOf \in [Tasks -> Shipments]
  /\ MaxTries \in Nat /\ MaxCrashes \in Nat /\ SlowCalls \in BOOLEAN
  /\ None \notin Vouchers /\ None \notin Lists /\ None \notin Cancels
  /\ None \notin Shipments /\ Lists \subseteq Nat
  /\ Vouchers \cap Lists = {} /\ Vouchers \cap Shipments = {}
  /\ Lists \cap Shipments = {}

VARIABLES
  row,        \* the AcsShipment row of a shipment
  order,      \* its order: status and the outcome of the cancel cascade
  task,       \* where a mint message stands
  cancel,     \* where a cancellation stands
  issue,      \* where a pickup-list run stands
  lock,       \* cancellation whose open transaction holds order and row
  issueLock,  \* the cache key acs:pickup_list:lock
  acs,        \* ground truth: what ACS holds under a voucher number
  lists,      \* ground truth: pickup lists ACS has issued
  lost,       \* numbers and alerts that died with a worker, an answer or a
              \* transaction
  crashes,    \* faults so far
  digest,     \* rows whose stale_alert_sent a running digest has claimed
  told        \* shipments an e-mail to the admins has named

ground == <<acs, lists, lost, crashes>>
runs == <<issue, issueLock>>
digests == <<digest, told>>
vars == <<row, order, task, cancel, issue, lock, issueLock, acs, lists, lost,
          crashes, digest, told>>

Claims == {"none", "fresh", "stale"}
RowStates == {"PENDING_CREATION", "NEW", "CANCELED"}

AcsTypeOK ==
  /\ row \in [Shipments ->
       [voucher : Vouchers \cup {None}, state : RowStates, minting : Claims,
        canceling : Claims, list : Lists \cup {None}, alerted : BOOLEAN,
        orphans : SUBSET Vouchers, previous : SUBSET Vouchers]]
  /\ order \in [Shipments ->
       [status : {"PENDING", "PROCESSING", "CANCELED"},
        cascade : {"none", "sent", "refused"}]]
  /\ task \in [Tasks ->
       [pc : {"queued", "calling", "minted", "failing", "rejected", "saved",
              "done", "alerted", "dropped"},
        v : Vouchers \cup {None}, tries : 0 .. MaxTries]]
  /\ cancel \in [Cancels ->
       [pc : {"idle", "calling", "deleted", "failing", "done"},
        s : Shipments \cup {None}, v : Vouchers \cup {None},
        whole : BOOLEAN]]
  /\ issue \in [Issuers ->
       [pc : {"idle", "calling", "issued"}, of : SUBSET Shipments,
        list : Lists \cup {None}]]
  /\ lock \in [Shipments -> Cancels \cup {None}]
  /\ issueLock \in BOOLEAN
  /\ acs \in [Vouchers ->
       [at : {"unissued", "live", "deleted"}, of : Shipments \cup {None},
        list : Lists \cup {None}]]
  /\ lists \subseteq Lists
  /\ lost \subseteq Vouchers \cup Lists \cup Shipments
  /\ crashes \in 0 .. MaxCrashes
  /\ digest \subseteq Shipments /\ told \subseteq Shipments

Init ==
  /\ row = [s \in Shipments |->
       [voucher |-> None, state |-> "PENDING_CREATION", minting |-> "none",
        canceling |-> "none", list |-> None, alerted |-> FALSE,
        orphans |-> {}, previous |-> {}]]
  /\ order \in [Shipments ->
       [status : {"PENDING", "PROCESSING"}, cascade : {"none"}]]
  /\ task = [t \in Tasks |-> [pc |-> "queued", v |-> None, tries |-> 0]]
  /\ cancel = [c \in Cancels |->
       [pc |-> "idle", s |-> None, v |-> None, whole |-> FALSE]]
  /\ issue = [r \in Issuers |-> [pc |-> "idle", of |-> {}, list |-> None]]
  /\ lock = [s \in Shipments |-> None]
  /\ issueLock = FALSE
  /\ acs = [v \in Vouchers |->
       [at |-> "unissued", of |-> None, list |-> None]]
  /\ lists = {} /\ lost = {} /\ crashes = 0
  /\ digest = {} /\ told = {}

-----------------------------------------------------------------------------
\* ACS, as the client's calls see it.

FreshVouchers == {v \in Vouchers : acs[v].at = "unissued"}
FreshLists == {l \in Lists : \A k \in lists : k < l}
\* ACS refuses to delete a voucher that a pickup list holds.
Deletable(v) == acs[v].at = "live" /\ acs[v].list = None

Issued(v, s) == [acs EXCEPT ![v] = [at |-> "live", of |-> s, list |-> None]]
Deleted(v) == [acs EXCEPT ![v].at = "deleted"]
OnNewList(l) ==
  [v \in Vouchers |-> IF Deletable(v) THEN [acs[v] EXCEPT !.list = l]
                                      ELSE acs[v]]

Fault == crashes < MaxCrashes /\ crashes' = crashes + 1

\* The mint and cancel_voucher lock a row and then its order, cancel_order the
\* order and then the row: where they wait for one another PostgreSQL fails
\* one of them, and the other goes on.
RowFirst(s, c) ==
  \/ \E t \in Tasks : TaskOf[t] = s /\ task[t].pc \in {"queued", "minted"}
  \/ \E d \in Cancels \ {c} :
       \/ "staff" \in Entrances /\ cancel[d].pc = "idle"
       \/ cancel[d].s = s /\ cancel[d].pc = "deleted"

OrderFirst(s) ==
  /\ lock[s] = None /\ order[s].status # "CANCELED"
  /\ \E c \in Cancels : cancel[c].pc = "idle"

-----------------------------------------------------------------------------
\* Minting: create_voucher_for_order run by create_acs_voucher_for_order.

\* Mutant: a task that never gives up.
RetryForever(t) ==
  [pc |-> "queued", v |-> None, tries |-> task[t].tries]

\* AcsRetryableError: Celery re-queues the message until its tries are used.
Retry(t) ==
  IF task[t].tries < MaxTries
    THEN [pc |-> "queued", v |-> None, tries |-> task[t].tries + 1]
    ELSE [pc |-> "dropped", v |-> None, tries |-> task[t].tries]

\* Phase 1 finds the row's voucher and returns it.
MintDone(t) ==
  LET s == TaskOf[t] IN
  /\ task[t].pc = "queued" /\ lock[s] = None
  /\ row[s].voucher # None
  /\ task' = [task EXCEPT ![t].pc = "done"]
  /\ UNCHANGED <<row, order, cancel, lock, runs, ground, digests>>

\* Phase 1 finds another worker's claim, younger than its TTL.
MintBusy(t) ==
  LET s == TaskOf[t] IN
  /\ task[t].pc = "queued" /\ lock[s] = None
  /\ row[s].voucher = None /\ row[s].minting = "fresh"
  /\ task' = [task EXCEPT ![t] = Retry(t)]
  /\ UNCHANGED <<row, order, cancel, lock, runs, ground, digests>>

\* Mutant: a claim is not respected.
MintClaimAnyway(t) ==
  LET s == TaskOf[t] IN
  /\ task[t].pc = "queued" /\ lock[s] = None
  /\ row[s].voucher = None
  /\ row' = [row EXCEPT ![s].minting = "fresh"]
  /\ task' = [task EXCEPT ![t].pc = "calling"]
  /\ UNCHANGED <<order, cancel, lock, runs, ground, digests>>

\* Phase 1 stamps mint_started_at; neither the order's status nor the row's
\* state is looked at.
MintClaim(t) ==
  LET s == TaskOf[t] IN
  /\ task[t].pc = "queued" /\ lock[s] = None
  /\ row[s].voucher = None /\ row[s].minting # "fresh"
  /\ row' = [row EXCEPT ![s].minting = "fresh"]
  /\ task' = [task EXCEPT ![t].pc = "calling"]
  /\ UNCHANGED <<order, cancel, lock, runs, ground, digests>>

\* Phase 2: ACS_Create_Voucher answers with a number,
MintCall(t) ==
  /\ task[t].pc = "calling"
  /\ \E v \in FreshVouchers :
       /\ acs' = Issued(v, TaskOf[t])
       /\ task' = [task EXCEPT ![t].pc = "minted", ![t].v = v]
  /\ UNCHANGED <<row, order, cancel, lock, runs, lists, lost, crashes,
                 digests>>

\* fails for now or for good (a bad address),
MintFails(t) ==
  /\ task[t].pc = "calling"
  /\ \E how \in {"failing", "rejected"} :
       task' = [task EXCEPT ![t].pc = how]
  /\ UNCHANGED <<row, order, cancel, lock, runs, ground, digests>>

\* or mints a voucher whose number never arrives (a timeout).
MintAnswerLost(t) ==
  /\ task[t].pc = "calling" /\ Fault
  /\ \E v \in FreshVouchers :
       acs' = Issued(v, TaskOf[t]) /\ lost' = lost \cup {v}
  /\ task' = [task EXCEPT ![t].pc = "failing"]
  /\ UNCHANGED <<row, order, cancel, lock, runs, lists, digests>>

\* The failed call releases the claim, whoever holds it by now; a business
\* error alerts the admins, any other is retried.
MintRelease(t) ==
  LET s == TaskOf[t] IN
  /\ task[t].pc \in {"failing", "rejected"} /\ lock[s] = None
  /\ row' = [row EXCEPT ![s].minting = "none"]
  /\ task' = [task EXCEPT ![t] =
       IF task[t].pc = "failing" THEN Retry(t)
       ELSE [pc |-> "alerted", v |-> None, tries |-> task[t].tries]]
  /\ UNCHANGED <<order, cancel, lock, runs, ground, digests>>

\* Phase 3 writes the number, whatever became of the order and the row,
SaveVoucher(s, v) ==
  [row EXCEPT ![s].voucher = v, ![s].state = "NEW", ![s].minting = "none"]

MintSave(t) ==
  LET s == TaskOf[t] IN
  /\ task[t].pc = "minted" /\ lock[s] = None
  /\ row[s].voucher = None
  /\ row' = SaveVoucher(s, task[t].v)
  /\ task' = [task EXCEPT ![t].pc = "saved", ![t].v = None]
  /\ UNCHANGED <<order, cancel, lock, runs, ground, digests>>

\* or finds that another worker has saved one: ours is deleted at ACS, or
\* recorded as an orphan when ACS does not delete it.
\* Mutant: the duplicate is only logged.
LogOrphan(s, v) == row

KeepOrphan(s, v) == [row EXCEPT ![s].orphans = row[s].orphans \cup {v}]

MintDuplicate(t) ==
  LET s == TaskOf[t]
      v == task[t].v IN
  /\ task[t].pc = "minted" /\ lock[s] = None
  /\ row[s].voucher # None
  /\ \/ Deletable(v) /\ acs' = Deleted(v) /\ UNCHANGED row
     \/ row' = KeepOrphan(s, v) /\ UNCHANGED acs
  /\ task' = [task EXCEPT ![t].pc = "done", ![t].v = None]
  /\ UNCHANGED <<order, cancel, lock, runs, lists, lost, crashes, digests>>

\* _advance_pending_order_to_processing, in a transaction of its own.
MintAdvance(t) ==
  LET s == TaskOf[t] IN
  /\ task[t].pc = "saved" /\ lock[s] = None
  /\ order' = IF order[s].status = "PENDING"
                THEN [order EXCEPT ![s].status = "PROCESSING"] ELSE order
  /\ task' = [task EXCEPT ![t].pc = "done"]
  /\ UNCHANGED <<row, cancel, lock, runs, ground, digests>>

\* The worker dies; acks_late delivers the message again.
MintCrash(t) ==
  /\ task[t].pc \in {"calling", "minted", "failing", "rejected", "saved"}
  /\ Fault
  /\ lost' = IF task[t].v = None THEN lost ELSE lost \cup {task[t].v}
  /\ task' = [task EXCEPT ![t].pc = "queued", ![t].v = None]
  /\ UNCHANGED <<row, order, cancel, lock, runs, acs, lists, digests>>

\* Phase 1 or 3 is the victim of a deadlock: not an error the task retries, nor
\* one it alerts of; the claim stays behind.
MintDeadlock(t) ==
  /\ task[t].pc \in {"queued", "minted"} /\ OrderFirst(TaskOf[t])
  /\ lost' = IF task[t].v = None THEN lost ELSE lost \cup {task[t].v}
  /\ task' = [task EXCEPT ![t].pc = "dropped", ![t].v = None]
  /\ UNCHANGED <<row, order, cancel, lock, runs, acs, lists, crashes, digests>>

\* The claim passes its TTL.
MintClaimLapses(s) ==
  /\ row[s].minting = "fresh" /\ lock[s] = None
  /\ \/ SlowCalls
     \/ \A t \in Tasks : TaskOf[t] = s =>
          task[t].pc \notin {"calling", "minted", "failing", "rejected"}
  /\ row' = [row EXCEPT ![s].minting = "stale"]
  /\ UNCHANGED <<order, task, cancel, lock, runs, ground, digests>>

-----------------------------------------------------------------------------
\* Cancelling: cancel_voucher, and the order's cancellation around it.

\* Mutant: a cancellation in progress is not looked for.
CancelAnswerUnclaimed(s) ==
  IF row[s].state = "CANCELED" THEN "already"
  ELSE IF row[s].list # None THEN "refused"
  ELSE IF row[s].voucher = None THEN "local" ELSE "call"

\* Phase 1 of cancel_voucher: what it answers without a call to ACS.
CancelAnswer(s) ==
  IF row[s].state = "CANCELED" THEN "already"
  ELSE IF row[s].list # None THEN "refused"
  ELSE IF row[s].voucher = None THEN "local"
  ELSE IF row[s].canceling = "fresh" THEN "refused" ELSE "call"

CancelLocally(s) == [row EXCEPT ![s].state = "CANCELED"]

\* Staff cancel the voucher: each phase is a transaction of its own.
StaffCancel(c, s) ==
  /\ "staff" \in Entrances
  /\ cancel[c].pc = "idle" /\ lock[s] = None
  /\ \/ /\ CancelAnswer(s) \in {"already", "refused"}
        /\ UNCHANGED row
        /\ cancel' = [cancel EXCEPT ![c].pc = "done"]
     \/ /\ CancelAnswer(s) = "local"
        /\ row' = CancelLocally(s)
        /\ cancel' = [cancel EXCEPT ![c].pc = "done"]
     \/ /\ CancelAnswer(s) = "call"
        /\ row' = [row EXCEPT ![s].canceling = "fresh"]
        /\ cancel' = [cancel EXCEPT ![c] =
             [pc |-> "calling", s |-> s, v |-> row[s].voucher,
              whole |-> FALSE]]
  /\ UNCHANGED <<order, task, lock, runs, ground, digests>>

\* The order is canceled (cancel_order, or a status form whose signal runs
\* the same cascade): one transaction, whose locks last through the ACS call.
\* Whatever the carrier answers, the order is canceled; a cascade that is the
\* victim of a deadlock is rolled back to its savepoint and counts as refused.
OrderCanceled(s, cascade) ==
  [order EXCEPT ![s] = [status |-> "CANCELED", cascade |-> cascade]]

OrderCancel(c, s) ==
  /\ cancel[c].pc = "idle" /\ lock[s] = None
  /\ order[s].status \in {"PENDING", "PROCESSING"}
  /\ \/ /\ CancelAnswer(s) = "refused" \/ RowFirst(s, c)
        /\ order' = OrderCanceled(s, "refused")
        /\ cancel' = [cancel EXCEPT ![c].pc = "done"]
        /\ UNCHANGED <<row, lock>>
     \/ /\ CancelAnswer(s) \in {"already", "local"}
        /\ order' = OrderCanceled(s, "sent")
        /\ row' = CancelLocally(s)
        /\ cancel' = [cancel EXCEPT ![c].pc = "done"]
        /\ UNCHANGED lock
     \/ /\ CancelAnswer(s) = "call"
        /\ lock' = [lock EXCEPT ![s] = c]
        /\ cancel' = [cancel EXCEPT ![c] =
             [pc |-> "calling", s |-> s, v |-> row[s].voucher,
              whole |-> TRUE]]
        /\ UNCHANGED <<row, order>>
  /\ UNCHANGED <<task, runs, ground, digests>>

\* Phase 2: ACS_Delete_Voucher succeeds; a second deletion may, too.
CancelCall(c) ==
  LET v == cancel[c].v IN
  /\ cancel[c].pc = "calling"
  /\ acs[v].list = None
  /\ acs' = Deleted(v)
  /\ cancel' = [cancel EXCEPT ![c].pc = "deleted"]
  /\ UNCHANGED <<row, order, task, lock, runs, lists, lost, crashes, digests>>

\* It is refused or fails,
CancelFails(c) ==
  /\ cancel[c].pc = "calling"
  /\ cancel' = [cancel EXCEPT ![c].pc = "failing"]
  /\ UNCHANGED <<row, order, task, lock, runs, ground, digests>>

\* or deletes the voucher and the answer is lost.
CancelAnswerLost(c) ==
  LET v == cancel[c].v IN
  /\ cancel[c].pc = "calling" /\ Deletable(v) /\ Fault
  /\ acs' = Deleted(v)
  /\ cancel' = [cancel EXCEPT ![c].pc = "failing"]
  /\ UNCHANGED <<row, order, task, lock, runs, lists, lost, digests>>

\* Phase 3: CANCELED is written over whatever the row holds by now, or the
\* failed call gives the claim back, which may itself fail and is only
\* logged.  The order's own transaction commits.
ClaimAfterFailure(c) ==
  {"none", IF cancel[c].whole THEN "fresh" ELSE row[cancel[c].s].canceling}

CancelSave(c) ==
  LET s == cancel[c].s IN
  /\ cancel[c].pc \in {"deleted", "failing"}
  /\ lock[s] = IF cancel[c].whole THEN c ELSE None
  /\ \/ /\ cancel[c].pc = "deleted"
        /\ row' = [row EXCEPT ![s].state = "CANCELED",
                              ![s].canceling = "none"]
     \/ /\ cancel[c].pc = "failing"
        /\ \E claim \in ClaimAfterFailure(c) :
             row' = [row EXCEPT ![s].canceling = claim]
  /\ IF cancel[c].whole
       THEN /\ order' = OrderCanceled(s, IF cancel[c].pc = "deleted"
                                           THEN "sent" ELSE "refused")
            /\ lock' = [lock EXCEPT ![s] = None]
       ELSE UNCHANGED <<order, lock>>
  /\ cancel' = [cancel EXCEPT ![c].pc = "done"]
  /\ UNCHANGED <<task, runs, ground, digests>>

\* The worker dies, or idle_in_transaction_session_timeout ends the open
\* transaction: what the order's cancellation wrote is rolled back, what ACS
\* did is not.
CancelCrash(c) ==
  /\ cancel[c].pc \in {"calling", "deleted", "failing"} /\ Fault
  /\ lock' = IF cancel[c].whole
               THEN [lock EXCEPT ![cancel[c].s] = None] ELSE lock
  /\ cancel' = [cancel EXCEPT ![c] =
       [pc |-> "idle", s |-> None, v |-> None, whole |-> FALSE]]
  /\ UNCHANGED <<row, order, task, runs, acs, lists, lost, digests>>

\* Phase 3 of the staff's cancellation is the victim of a deadlock: ACS has
\* deleted the voucher, and the row does not say so.
CancelDeadlock(c) ==
  /\ cancel[c].pc = "deleted" /\ ~cancel[c].whole /\ OrderFirst(cancel[c].s)
  /\ cancel' = [cancel EXCEPT ![c].pc = "done"]
  /\ UNCHANGED <<row, order, task, lock, runs, ground, digests>>

CancelClaimLapses(s) ==
  /\ row[s].canceling = "fresh" /\ lock[s] = None
  /\ \/ SlowCalls
     \/ \A c \in Cancels : cancel[c].s = s =>
          cancel[c].pc \notin {"calling", "deleted", "failing"}
  /\ row' = [row EXCEPT ![s].canceling = "stale"]
  /\ UNCHANGED <<order, task, cancel, lock, runs, ground, digests>>

\* issue_voucher_now on a CANCELED row: reset_shipment_for_remint.
Reset(s) ==
  /\ "reissue" \in Entrances /\ lock[s] = None
  /\ row[s].state = "CANCELED" /\ row[s].list = None
  /\ row' = [row EXCEPT
       ![s].previous = IF row[s].voucher = None THEN row[s].previous
                       ELSE row[s].previous \cup {row[s].voucher},
       ![s].voucher = None, ![s].state = "PENDING_CREATION",
       ![s].minting = "none", ![s].canceling = "none"]
  /\ UNCHANGED <<order, task, cancel, lock, runs, ground, digests>>

\* retire_shipments: CANCELED on our side only.
Retire(s) ==
  /\ "retire" \in Entrances /\ lock[s] = None
  /\ row[s].state # "CANCELED"
  /\ row' = CancelLocally(s)
  /\ UNCHANGED <<order, task, cancel, lock, runs, ground, digests>>

-----------------------------------------------------------------------------
\* The daily pickup list: issue_daily_pickup_list.

Candidates ==
  {s \in Shipments : row[s].voucher # None /\ row[s].list = None
                     /\ row[s].state = "NEW"}

NoRun == [pc |-> "idle", of |-> {}, list |-> None]

\* cache.add wins the key; phase 1 reads the candidates without a lock.
IssueBegin(r) ==
  /\ issue[r].pc = "idle" /\ ~issueLock
  /\ Candidates # {}
  /\ issueLock' = TRUE
  /\ issue' = [issue EXCEPT ![r] =
       [pc |-> "calling", of |-> Candidates, list |-> None]]
  /\ UNCHANGED <<row, order, task, cancel, lock, ground, digests>>

\* Phase 2: ACS puts every live voucher it has on the new list,
IssueCall(r) ==
  /\ issue[r].pc = "calling"
  /\ \E v \in Vouchers : Deletable(v)
  /\ \E l \in FreshLists :
       /\ acs' = OnNewList(l) /\ lists' = lists \cup {l}
       /\ issue' = [issue EXCEPT ![r].pc = "issued", ![r].list = l]
  /\ UNCHANGED <<row, order, task, cancel, lock, issueLock, lost, crashes,
                 digests>>

\* or there is nothing to issue, or the call fails; finally drops the key,
\* whoever holds it by now.
IssueEnds(r) ==
  /\ issue[r].pc = "calling"
  /\ issue' = [issue EXCEPT ![r] = NoRun]
  /\ issueLock' = FALSE
  /\ UNCHANGED <<row, order, task, cancel, lock, ground, digests>>

\* Mutant: the candidates are read again after the call.
LinkedAnew(of, l) ==
  [s \in Shipments |-> IF s \in Candidates
                         THEN [row[s] EXCEPT !.list = l] ELSE row[s]]

\* Phase 3 links the candidates that no list holds yet.
Linked(of, l) ==
  [s \in Shipments |-> IF s \in of /\ row[s].list = None
                         THEN [row[s] EXCEPT !.list = l] ELSE row[s]]

IssueSave(r) ==
  /\ issue[r].pc = "issued"
  /\ \A s \in issue[r].of : row[s].list = None => lock[s] = None
  /\ row' = Linked(issue[r].of, issue[r].list)
  /\ issue' = [issue EXCEPT ![r] = NoRun]
  /\ issueLock' = FALSE
  /\ UNCHANGED <<order, task, cancel, lock, ground, digests>>

IssueCrash(r) ==
  /\ issue[r].pc # "idle" /\ Fault
  /\ lost' = IF issue[r].list = None THEN lost ELSE lost \cup {issue[r].list}
  /\ issue' = [issue EXCEPT ![r] = NoRun]
  /\ UNCHANGED <<row, order, task, cancel, lock, issueLock, acs, lists,
                 digests>>

IssueLockLapses ==
  /\ issueLock
  /\ SlowCalls \/ \A r \in Issuers : issue[r].pc = "idle"
  /\ issueLock' = FALSE
  /\ UNCHANGED <<row, order, task, cancel, lock, issue, ground, digests>>

-----------------------------------------------------------------------------
\* check_stale_acs_shipments, the backstop for rows nobody moves any more: a
\* row is stale after a day, when its messages have long come to an end.

Ended == {"done", "alerted", "dropped"}

\* Mutant: only rows with a voucher are looked at.
StaleTracking ==
  {s \in Shipments : ~row[s].alerted /\ lock[s] = None
     /\ row[s].voucher # None /\ row[s].state = "NEW"
     /\ \A t \in Tasks : TaskOf[t] = s => task[t].pc \in Ended}

Stale ==
  {s \in Shipments : ~row[s].alerted /\ lock[s] = None
     /\ row[s].state \in {"PENDING_CREATION", "NEW"}
     /\ \A t \in Tasks : TaskOf[t] = s => task[t].pc \in Ended}

\* The rows are claimed and the claim committed before the e-mail goes out,
DigestClaim ==
  /\ "digest" \in Entrances
  /\ digest = {} /\ Stale # {}
  /\ digest' = Stale
  /\ row' = [s \in Shipments |-> IF s \in Stale
                                   THEN [row[s] EXCEPT !.alerted = TRUE]
                                   ELSE row[s]]
  /\ UNCHANGED <<order, task, cancel, lock, runs, ground, told>>

\* which names them,
DigestSend ==
  /\ digest # {}
  /\ told' = told \cup digest /\ digest' = {}
  /\ UNCHANGED <<row, order, task, cancel, lock, runs, ground>>

\* or fails, and the claim is given back.
DigestFails ==
  /\ digest # {} /\ Fault
  /\ row' = [s \in Shipments |-> IF s \in digest
                                   THEN [row[s] EXCEPT !.alerted = FALSE]
                                   ELSE row[s]]
  /\ digest' = {}
  /\ UNCHANGED <<order, task, cancel, lock, runs, acs, lists, lost, told>>

\* A worker that dies in between leaves the rows claimed, and nobody told.
DigestCrash ==
  /\ digest # {} /\ Fault
  /\ lost' = lost \cup digest /\ digest' = {}
  /\ UNCHANGED <<row, order, task, cancel, lock, runs, acs, lists, told>>

-----------------------------------------------------------------------------
MintStep(t) ==
  \/ MintDone(t) \/ MintBusy(t) \/ MintClaim(t) \/ MintCall(t)
  \/ MintFails(t) \/ MintRelease(t) \/ MintSave(t) \/ MintDuplicate(t)
  \/ MintAdvance(t)

CancelStep(c) == CancelCall(c) \/ CancelFails(c) \/ CancelSave(c)

IssueStep(r) == IssueCall(r) \/ IssueEnds(r) \/ IssueSave(r)

Next ==
  \/ \E t \in Tasks :
       \/ MintStep(t) \/ MintAnswerLost(t) \/ MintCrash(t) \/ MintDeadlock(t)
  \/ \E c \in Cancels :
       \/ CancelStep(c) \/ CancelAnswerLost(c) \/ CancelCrash(c)
       \/ CancelDeadlock(c)
       \/ \E s \in Shipments : StaffCancel(c, s) \/ OrderCancel(c, s)
  \/ \E r \in Issuers : IssueBegin(r) \/ IssueStep(r) \/ IssueCrash(r)
  \/ \E s \in Shipments :
       \/ MintClaimLapses(s) \/ CancelClaimLapses(s) \/ Reset(s) \/ Retire(s)
  \/ IssueLockLapses
  \/ DigestClaim \/ DigestSend \/ DigestFails \/ DigestCrash

Spec == Init /\ [][Next]_vars

\* Workers take and finish their messages, requests run to their end, and
\* claims pass their TTL,
\* and beat runs the digest.
Fairness ==
  /\ \A t \in Tasks : WF_vars(MintStep(t))
  /\ \A c \in Cancels : WF_vars(CancelStep(c))
  /\ \A r \in Issuers : WF_vars(IssueStep(r))
  /\ \A s \in Shipments :
       WF_vars(MintClaimLapses(s)) /\ WF_vars(CancelClaimLapses(s))
  /\ WF_vars(IssueLockLapses)
  /\ WF_vars(DigestClaim) /\ WF_vars(DigestSend)

FairSpec == Spec /\ Fairness

-----------------------------------------------------------------------------
InHand(v) == \E t \in Tasks : task[t].v = v

\* Every parcel ACS is going to collect is one the shop knows of: it is the
\* row's voucher, it is named as an orphan or a former one, a worker is about
\* to record it, or its number died with a worker or a timed-out answer.
VouchersAccounted ==
  \A v \in Vouchers : acs[v].at = "live" =>
    LET s == acs[v].of IN
    \/ v \in lost \/ InHand(v)
    \/ v = row[s].voucher \/ v \in row[s].orphans \/ v \in row[s].previous

\* With the shape of the rows, what the mint's three phases keep.
AcsInv == AcsTypeOK /\ VouchersAccounted

\* A row that says CANCELED, and was not retired by hand, has no parcel left
\* at ACS: the phases of a cancellation never strike another voucher than the
\* one ACS deleted, though two are minted and canceled in between.
CanceledIsDead ==
  \A s \in Shipments :
    (row[s].state = "CANCELED" /\ row[s].voucher # None)
      => acs[row[s].voucher].at # "live"

\* While calls keep within the claim's TTL, an order has at most one parcel at
\* ACS, but for numbers that were lost: redelivered and duplicate messages do
\* not mint side by side.
OneParcel ==
  \A s \in Shipments :
    Cardinality({v \in Vouchers \ lost : acs[v].at = "live"
                                           /\ acs[v].of = s}) <= 1

\* A row that is linked to a list, which nobody will put on one again, has its
\* voucher on that list at ACS or on an earlier one, although the candidates
\* are read before the call and without a lock: ACS takes every voucher it has,
\* those minted meanwhile and those of a run that died included.
LinkedIsOnList ==
  \A s \in Shipments :
    LET v == row[s].voucher IN
    (row[s].list # None /\ v # None)
      => \/ acs[v].at = "deleted"
         \/ acs[v].list \in Lists /\ acs[v].list <= row[s].list

\* Whatever fails or dies, every mint message comes to an end and every lock
\* and claim is given back for good.
WorkEnds ==
  <>[](/\ \A t \in Tasks : task[t].pc \in Ended
       /\ \A s \in Shipments : lock[s] = None /\ row[s].minting # "fresh"
                                  /\ row[s].canceling # "fresh")

\* An order whose message came to nothing gets a voucher after all, or a human
\* hears of it: by the alert of a business error or by the daily digest, but
\* for a digest whose worker dies between its claim and its e-mail.
NobodyIsStranded ==
  \A t \in Tasks :
    LET s == TaskOf[t] IN
    (task[t].pc = "dropped")
      ~> (row[s].voucher # None \/ row[s].state = "CANCELED"
          \/ s \in told \cup lost)

=============================================================================
