------------------------------- MODULE Invoicing -------------------------------
(***************************************************************************)
(* Invoices (order/invoicing.py, models/invoice.py, mydata/service.py and  *)
(* the tasks of order/tasks.py): a legal register numbered without gaps,   *)
(* the tax authority's own book of it (AADE myDATA), the PDF in private    *)
(* storage and the e-mail that carries it.  Celery tasks form the chain    *)
(* generate -> submit -> mail; staff may start any step by hand.  What a   *)
(* worker read before a network call or a row lock is in worker.           *)
(*                                                                         *)
(* generate_invoice is one transaction: what it writes is seen when it     *)
(* commits, the row locks it holds are its pc ("render", "rerender").      *)
(* Storage and AADE are outside that transaction.  myDATA is switched on.  *)
(***************************************************************************)
EXTENDS Integers, FiniteSets, Functions

CONSTANTS
  Orders,     \* completed orders that want an invoice
  Touched,    \* those staff act on
  Workers,    \* Celery processes and staff requests at work
  None,
  Retries,    \* max_retries of every task
  MaxStaff,   \* steps staff take
  Faults,     \* what may go wrong,
  MaxFaults   \* and how often in all

FaultKinds == {"crash", "lost", "query", "render", "smtp", "late"}

ASSUME InvoicingConstants ==
  /\ IsFiniteSet(Orders) /\ Touched \subseteq Orders
  /\ None \notin Orders
  /\ {Retries, MaxStaff, MaxFaults} \subseteq Nat /\ Faults \subseteq FaultKinds

VARIABLES
  row,      \* Invoice: number (0: no row), mydata_status, mydata_mark
  next,     \* InvoiceCounter.next_number
  aade,     \* AADE's book, by number: none, live or void
  file,     \* the stored PDF: none, plain, or with the MARK printed
  jobs,     \* tasks delivered until they are acknowledged
  worker,
  flag,     \* INVOICE_EMAIL_SENT_FLAG in the order's metadata
  copies,   \* e-mails that went out
  cut,      \* (history) attempts cut off after their e-mail went out
  staff,
  faults    \* how often each fault happened

vars == <<row, next, aade, file, jobs, worker, flag, copies, cut, staff, faults>>

Numbers == 1 .. Cardinality(Orders)
Kinds == {"generate", "byhand", "redo", "submit", "cancel", "mail"}
Job(kind, o, n) == [kind |-> kind, o |-> o, tries |-> n]
Rows == [number : {0} \cup Numbers,
         status : {"NOT_SENT", "SUBMITTED", "CONFIRMED", "REJECTED", "CANCELED"},
         mark : {0} \cup Numbers]
NoRow == [number |-> 0, status |-> "NOT_SENT", mark |-> 0]
NoJob == [kind |-> None, o |-> None, tries |-> 0]
Idle == [pc |-> "idle", job |-> NoJob, row |-> NoRow, answer |-> None]

InvoicingTypeOK ==
  /\ row \in [Orders -> Rows] /\ next \in 1 .. Cardinality(Orders) + 1
  /\ aade \in [Numbers -> {"none", "live", "void"}]
  /\ file \in [Orders -> {"none", "plain", "marked"}]
  /\ jobs \subseteq [kind : Kinds, o : Orders, tries : 0 .. Retries]
  /\ \A w \in Workers :
       \/ worker[w] = Idle
       \/ worker[w] \in
            [pc : {"allocate", "render", "rewrite", "rerender", "intend", "send",
                   "answer", "recover", "force", "annul", "void", "mail", "ack"},
             job : [kind : Kinds, o : Orders, tries : 0 .. Retries], row : Rows,
             answer : {None, "success", "duplicate", "invalid", "transport"}]
  /\ flag \in [Orders -> BOOLEAN] /\ copies \in [Orders -> Nat]
  /\ cut \in [Orders -> Nat]
  /\ staff \in 0 .. MaxStaff /\ faults \in [FaultKinds -> Nat]

Init ==
  /\ row = [o \in Orders |-> NoRow] /\ next = 1
  /\ aade = [n \in Numbers |-> "none"] /\ file = [o \in Orders |-> "none"]
  /\ jobs = {Job("generate", o, 0) : o \in Orders}
  /\ worker = [w \in Workers |-> Idle]
  /\ flag = [o \in Orders |-> FALSE] /\ copies = [o \in Orders |-> 0]
  /\ cut = [o \in Orders |-> 0]
  /\ staff = 0 /\ faults = [k \in FaultKinds |-> 0]

At(w, pc) == worker[w].pc = pc
Order(w) == worker[w].job.o
Number(w) == row[Order(w)].number
Happens(kind) ==
  /\ kind \in Faults /\ SumFunction(faults) < MaxFaults
  /\ faults' = [faults EXCEPT ![kind] = faults[kind] + 1]

(* Both generations hold what they wrote until they commit: the counter's  *)
(* row and the new invoice, or the invoice that is rewritten.              *)
CounterLocked == \E w \in Workers : At(w, "render")
Locked(o) == \E w \in Workers : At(w, "rerender") /\ Order(w) = o

Goes(w, pc) == worker' = [worker EXCEPT ![w].pc = pc, ![w].answer = None]
(* The row a worker read matters to it while it rewrites or cancels.       *)
Begins(w, j, pc) ==
  /\ worker' = [worker EXCEPT ![w] =
                  [pc |-> pc, job |-> j, answer |-> None,
                   row |-> IF pc \in {"rewrite", "annul"} THEN row[j.o] ELSE NoRow]]
  /\ jobs' = jobs \ {j}
Ends(w, more) ==
  /\ worker' = [worker EXCEPT ![w] = Idle]
  /\ jobs' = jobs \cup more

Taken(w, j, kinds) == worker[w] = Idle /\ j \in jobs /\ j.kind \in kinds

(* self.retry while the task has attempts left.  Staff's own requests and  *)
(* a submission that was answered are not tried again.                     *)
Again(w) ==
  LET j == worker[w].job IN
  IF j.kind \notin {"byhand", "redo"} /\ j.tries < Retries
    THEN {Job(j.kind, j.o, j.tries + 1)} ELSE {}
Mail(o) == Job("mail", o, 0)
(* generate_order_invoice hands over to the submission; staff's own        *)
(* generation does not.                                                    *)
Chained(j) == IF j.kind = "generate" THEN {Job("submit", j.o, 0)} ELSE {}

-----------------------------------------------------------------------------
(* generate_invoice without force: an invoice that exists is returned.     *)
Looks(w, j) ==
  /\ Taken(w, j, {"generate", "byhand"})
  /\ IF row[j.o].number = 0
       THEN Begins(w, j, "allocate")
       ELSE jobs' = (jobs \ {j}) \cup Chained(j) /\ UNCHANGED worker
  /\ UNCHANGED <<row, next, aade, file, flag, copies, cut, staff, faults>>

(* The counter's row is locked, then the invoice is inserted: a second     *)
(* invoice of the order breaks the one-to-one key and rolls back.          *)
Allocates(w) ==
  /\ At(w, "allocate") /\ ~CounterLocked
  /\ IF row[Order(w)].number = 0 THEN Goes(w, "render") /\ UNCHANGED jobs
                                 ELSE Ends(w, Again(w))
  /\ UNCHANGED <<row, next, aade, file, flag, copies, cut, staff, faults>>

(* The PDF is rendered and stored, the transaction commits, and the task   *)
(* hands over to the submission.                                           *)
Renders(w) ==
  /\ At(w, "render")
  /\ row' = [row EXCEPT ![Order(w)].number = next] /\ next' = next + 1
  /\ file' = [file EXCEPT ![Order(w)] = "plain"]
  /\ Ends(w, Chained(worker[w].job))
  /\ UNCHANGED <<aade, flag, copies, cut, staff, faults>>

(* Nothing of a generation that fails is kept, its number included.        *)
RolledBack == UNCHANGED <<row, next>>

RenderFails(w) ==
  /\ At(w, "render") /\ Happens("render")
  /\ RolledBack
  /\ Ends(w, Again(w))
  /\ UNCHANGED <<aade, file, flag, copies, cut, staff>>

-----------------------------------------------------------------------------
(* generate_invoice with force, by staff or after a submission: the row is *)
(* read and its PDF is deleted from storage ...                            *)
ReadsForce(w) ==
  /\ worker' = [worker EXCEPT ![w].row = row[Order(w)], ![w].pc = "rewrite"]
  /\ file' = [file EXCEPT ![Order(w)] = "none"]

Redoes(w, j) ==
  /\ Taken(w, j, {"redo"}) /\ row[j.o].number # 0
  /\ Begins(w, j, "rewrite") /\ file' = [file EXCEPT ![j.o] = "none"]
  /\ UNCHANGED <<row, next, aade, flag, copies, cut, staff, faults>>

Forces(w) ==
  /\ At(w, "force") /\ ReadsForce(w)
  /\ UNCHANGED <<row, next, aade, jobs, flag, copies, cut, staff, faults>>

(* ... then save() writes every column of it, under the row's lock ...     *)
Rewrites(w) ==
  /\ At(w, "rewrite") /\ ~Locked(Order(w))
  /\ Goes(w, "rerender")
  /\ UNCHANGED <<row, next, aade, file, jobs, flag, copies, cut, staff, faults>>

Printed(r) == IF r.mark = 0 THEN "plain" ELSE "marked"
MailDue(w) == IF worker[w].job.kind = "submit" THEN {Mail(Order(w))} ELSE {}

(* ... and commits when the new PDF is stored.                             *)
Rerenders(w) ==
  /\ At(w, "rerender")
  /\ row' = [row EXCEPT ![Order(w)] = worker[w].row]
  /\ file' = [file EXCEPT ![Order(w)] = Printed(worker[w].row)]
  /\ Ends(w, MailDue(w))
  /\ UNCHANGED <<next, aade, flag, copies, cut, staff, faults>>

(* A failure rolls the row back; the deleted PDF does not come back.       *)
RerenderFails(w) ==
  /\ At(w, "rerender") /\ Happens("render")
  /\ Ends(w, MailDue(w))
  /\ UNCHANGED <<row, next, aade, file, flag, copies, cut, staff>>

-----------------------------------------------------------------------------
(* send_invoice_to_mydata and submit_invoice: an invoice that has its MARK *)
(* is not sent again.                                                      *)
Submits(w, j) ==
  /\ Taken(w, j, {"submit"})
  /\ Begins(w, j, IF row[j.o].mark # 0 THEN "force" ELSE "intend")
  /\ UNCHANGED <<row, next, aade, file, flag, copies, cut, staff, faults>>

Writes(o, r) == ~Locked(o) /\ row' = [row EXCEPT ![o] = r]

(* _persist_submission_intent, whatever the row has become meanwhile.      *)
Intends(w) ==
  /\ At(w, "intend")
  /\ Writes(Order(w), [row[Order(w)] EXCEPT !.status = "SUBMITTED"])
  /\ Goes(w, "send")
  /\ UNCHANGED <<next, aade, file, jobs, flag, copies, cut, staff, faults>>

(* Bad master data or the local XSD stop it before it is sent, which a     *)
(* missing seller VAT does without a note on the invoice; data that AADE   *)
(* has registered once are good.                                           *)
Refuses(w) ==
  /\ At(w, "intend") /\ aade[Number(w)] = "none"
  /\ \/ Writes(Order(w), [row[Order(w)] EXCEPT !.status = "REJECTED"])
     \/ UNCHANGED row
  /\ Ends(w, {Mail(Order(w))})
  /\ UNCHANGED <<next, aade, file, flag, copies, cut, staff, faults>>

Answered(w, a) == worker' = [worker EXCEPT ![w].answer = a, ![w].pc = "answer"]

(* AADE registers a number once and answers 228 the next time.             *)
Sends(w) ==
  /\ At(w, "send")
  /\ LET n == Number(w) IN
     \/ /\ aade[n] = "none" /\ aade' = [aade EXCEPT ![n] = "live"]
        /\ Answered(w, "success") /\ UNCHANGED faults
     \/ /\ aade[n] # "none" /\ Answered(w, "duplicate") /\ UNCHANGED <<aade, faults>>
     \/ /\ aade[n] = "none" /\ Answered(w, "invalid") /\ UNCHANGED <<aade, faults>>
  /\ UNCHANGED <<row, next, file, jobs, flag, copies, cut, staff>>

(* A gateway fault or a timeout: AADE may have registered the invoice.     *)
SendFails(w) ==
  /\ At(w, "send") /\ Happens("lost")
  /\ \/ UNCHANGED aade
     \/ aade[Number(w)] = "none" /\ aade' = [aade EXCEPT ![Number(w)] = "live"]
  /\ Answered(w, "transport")
  /\ UNCHANGED <<row, next, file, jobs, flag, copies, cut, staff>>

Confirmed(w, n) ==
  [row[Order(w)] EXCEPT !.status = "CONFIRMED", !.mark = n]

Confirms(w) ==
  /\ At(w, "answer") /\ worker[w].answer = "success"
  /\ Writes(Order(w), Confirmed(w, Number(w)))
  /\ Goes(w, "force")
  /\ UNCHANGED <<next, aade, file, jobs, flag, copies, cut, staff, faults>>

\* Mutant: a rejected invoice is not mailed.
RejectsSilently(w) ==
  /\ At(w, "answer") /\ worker[w].answer \in {"invalid", "duplicate"}
  /\ Writes(Order(w), [row[Order(w)] EXCEPT !.status = "REJECTED"])
  /\ IF worker[w].answer = "duplicate" THEN Goes(w, "recover") /\ UNCHANGED jobs
                                       ELSE Ends(w, {})
  /\ UNCHANGED <<next, aade, file, flag, copies, cut, staff, faults>>

Rejects(w) ==
  /\ At(w, "answer") /\ worker[w].answer \in {"invalid", "duplicate"}
  /\ Writes(Order(w), [row[Order(w)] EXCEPT !.status = "REJECTED"])
  /\ IF worker[w].answer = "duplicate" THEN Goes(w, "recover") /\ UNCHANGED jobs
                                       ELSE Ends(w, {Mail(Order(w))})
  /\ UNCHANGED <<next, aade, file, flag, copies, cut, staff, faults>>

\* Mutant: a lost answer ends the submission.
GivesUp(w) ==
  /\ At(w, "answer") /\ worker[w].answer = "transport"
  /\ Ends(w, {Mail(Order(w))})
  /\ UNCHANGED <<row, next, aade, file, flag, copies, cut, staff, faults>>

Resubmits(w) ==
  /\ At(w, "answer") /\ worker[w].answer = "transport"
  /\ Ends(w, IF Again(w) = {} THEN {Mail(Order(w))} ELSE Again(w))
  /\ UNCHANGED <<row, next, aade, file, flag, copies, cut, staff, faults>>

\* Mutant: any document of the date window will do.
MatchesAny(w) == {n \in Numbers : aade[n] # "none"}

(* recover_mark_for_invoice takes the one transmitted document with the    *)
(* invoice's uid; _persist_recovered_mark.                                 *)
Matches(w) == {n \in Numbers : aade[n] # "none" /\ n = Number(w)}

Recovers(w) ==
  /\ At(w, "recover")
  /\ \E n \in Matches(w) : Writes(Order(w), Confirmed(w, n))
  /\ Goes(w, "force")
  /\ UNCHANGED <<next, aade, file, jobs, flag, copies, cut, staff, faults>>

RecoveryFails(w) ==
  /\ At(w, "recover") /\ Happens("query")
  /\ Ends(w, {Mail(Order(w))})
  /\ UNCHANGED <<row, next, aade, file, flag, copies, cut, staff>>

-----------------------------------------------------------------------------
(* cancel_mydata_invoice and cancel_invoice.                               *)
Cancels(w, j) ==
  /\ Taken(w, j, {"cancel"}) /\ row[j.o].mark # 0
  /\ Begins(w, j, "annul")
  /\ UNCHANGED <<row, next, aade, file, flag, copies, cut, staff, faults>>

(* AADE cancels a MARK once; a second call is an error, recorded beside    *)
(* the status.                                                             *)
Annuls(w) ==
  /\ At(w, "annul")
  /\ LET n == worker[w].row.mark IN
     \/ /\ aade[n] = "live" /\ aade' = [aade EXCEPT ![n] = "void"]
        /\ Goes(w, "void") /\ UNCHANGED jobs
     \/ aade[n] = "void" /\ Ends(w, {}) /\ UNCHANGED aade
  /\ UNCHANGED <<row, next, file, flag, copies, cut, staff, faults>>

CancelUnheard(w) == Ends(w, Again(w)) /\ UNCHANGED row

AnnulFails(w) ==
  /\ At(w, "annul") /\ Happens("lost")
  /\ LET n == worker[w].row.mark IN
     UNCHANGED aade \/ (aade[n] = "live" /\ aade' = [aade EXCEPT ![n] = "void"])
  /\ CancelUnheard(w)
  /\ UNCHANGED <<next, file, flag, copies, cut, staff>>

Voids(w) ==
  /\ At(w, "void")
  /\ Writes(Order(w), [row[Order(w)] EXCEPT !.status = "CANCELED"])
  /\ Ends(w, {})
  /\ UNCHANGED <<next, aade, file, flag, copies, cut, staff, faults>>

-----------------------------------------------------------------------------
\* Mutant: the flag is set, not looked at.
ReservesAnyway(w, j) ==
  /\ Taken(w, j, {"mail"})
  /\ Begins(w, j, "mail") /\ flag' = [flag EXCEPT ![j.o] = TRUE]
  /\ UNCHANGED <<row, next, aade, file, copies, cut, staff, faults>>

(* send_invoice_email: the first attempt reserves the flag, a retry does   *)
(* not look at it.                                                         *)
Reserves(w, j) ==
  /\ Taken(w, j, {"mail"})
  /\ IF j.tries = 0 /\ flag[j.o]
       THEN jobs' = jobs \ {j} /\ UNCHANGED <<worker, flag>>
       ELSE Begins(w, j, "mail") /\ flag' = [flag EXCEPT ![j.o] = TRUE]
  /\ UNCHANGED <<row, next, aade, file, copies, cut, staff, faults>>

Delivers(w) ==
  /\ At(w, "mail") /\ file[Order(w)] # "none"
  /\ copies' = [copies EXCEPT ![Order(w)] = copies[Order(w)] + 1]
  /\ Goes(w, "ack")
  /\ UNCHANGED <<row, next, aade, file, jobs, flag, cut, staff, faults>>

(* Only the attempt that set the flag would release it, and that attempt is *)
(* retried.                                                                *)
Raises(w) ==
  /\ Ends(w, Again(w))
  /\ flag' = [flag EXCEPT ![Order(w)] =
                flag[Order(w)] /\ (Again(w) # {} \/ worker[w].job.tries > 0)]

(* The PDF cannot be opened or the mail server refuses.                    *)
DeliveryFails(w) ==
  /\ At(w, "mail")
  /\ \/ file[Order(w)] = "none" /\ UNCHANGED faults
     \/ Happens("smtp")
  /\ Raises(w)
  /\ UNCHANGED <<row, next, aade, file, copies, cut, staff>>

CutOff(o) == cut' = [cut EXCEPT ![o] = cut[o] + 1]

(* The mail server's answer is lost, or the note in the order's history    *)
(* fails: the copy is out, and the attempt is retried like any other.      *)
FailsLate(w) ==
  /\ At(w, "ack") /\ Happens("late")
  /\ Raises(w) /\ CutOff(Order(w))
  /\ UNCHANGED <<row, next, aade, file, copies, staff>>

Acks(w) ==
  /\ At(w, "ack") /\ Ends(w, {})
  /\ UNCHANGED <<row, next, aade, file, flag, copies, cut, staff, faults>>

-----------------------------------------------------------------------------
(* The actions of OrderAdmin.  Those on an invoice look for it first; the  *)
(* submission and the cancellation are queued.                             *)
StaffActs(o) ==
  /\ o \in Touched /\ staff < MaxStaff /\ staff' = staff + 1
  /\ \E kind \in {"byhand", "redo", "submit", "cancel"} :
       /\ kind \in {"redo", "submit"} => row[o].number # 0
       /\ kind = "cancel" => row[o].mark # 0
       /\ jobs' = jobs \cup {Job(kind, o, 0)}
  /\ UNCHANGED <<row, next, aade, file, worker, flag, copies, cut, faults>>

(* A worker is lost: an open transaction rolls back and the broker         *)
(* delivers the task again; a request of staff is not repeated.  A retry   *)
(* of the mail that is lost after its copy went out sends another.         *)
Dies(w) ==
  /\ worker[w] # Idle /\ Happens("crash")
  /\ Ends(w, IF worker[w].job.kind \in {"byhand", "redo"} THEN {}
             ELSE {worker[w].job})
  /\ IF At(w, "ack") /\ worker[w].job.tries > 0
       THEN CutOff(Order(w)) ELSE UNCHANGED cut
  /\ UNCHANGED <<row, next, aade, file, flag, copies, staff>>

-----------------------------------------------------------------------------
Takes(w) ==
  \E j \in jobs :
    \/ Looks(w, j) \/ Redoes(w, j) \/ Submits(w, j)
    \/ Cancels(w, j) \/ Reserves(w, j)
Works(w) ==
  \/ Takes(w)
  \/ Allocates(w) \/ Renders(w)
  \/ Forces(w) \/ Rewrites(w) \/ Rerenders(w)
  \/ Intends(w) \/ Refuses(w) \/ Sends(w)
  \/ Confirms(w) \/ Rejects(w) \/ Resubmits(w) \/ Recovers(w)
  \/ Annuls(w) \/ Voids(w)
  \/ Delivers(w) \/ DeliveryFails(w) \/ Acks(w)
Fails(w) ==
  \/ RenderFails(w) \/ RerenderFails(w) \/ SendFails(w) \/ RecoveryFails(w)
  \/ AnnulFails(w) \/ FailsLate(w) \/ Dies(w)

Next ==
  \/ \E w \in Workers : Works(w) \/ Fails(w)
  \/ \E o \in Orders : StaffActs(o)

Spec == Init /\ [][Next]_vars

(* Celery takes every task that is delivered, and a task that runs goes    *)
(* on.  Nothing makes staff act or a fault happen.                         *)
FairSpec == Spec /\ WF_vars(\E w \in Workers : Works(w))

-----------------------------------------------------------------------------
(* "The sequential register stays gap-free (Greek tax law forbids gaps)"   *)
(* and no number is used twice (invoicing.py:357, models/invoice.py:100):  *)
(* whatever workers race, fail or die, the invoices of the register carry  *)
(* exactly the numbers below the counter.                                  *)
NoGaps ==
  LET issued == {o \in Orders : row[o].number # 0} IN
  /\ {row[o].number : o \in issued} = 1 .. next - 1
  /\ IsInjective(Restrict([o \in Orders |-> row[o].number], issued))

(* "A wrong MARK must be impossible" (mydata/service.py:262): the MARK on  *)
(* an invoice is of its own registration at AADE, a confirmed invoice has  *)
(* one, and no invoice is canceled here unless it is there.                *)
MarkIsOwn ==
  \A o \in Orders :
    /\ row[o].mark # 0 => row[o].mark = row[o].number /\ aade[row[o].mark] # "none"
    /\ row[o].status = "CONFIRMED" => row[o].mark # 0
    /\ row[o].status = "CANCELED" => aade[row[o].number] = "void"

(* The register: the shape of its tables, its numbers and its MARKs.       *)
RegisterIsSound == InvoicingTypeOK /\ NoGaps /\ MarkIsOwn

(* One copy leaves, however often the chain is started and whatever fails  *)
(* before it, and one more at most for each attempt that is cut off after  *)
(* its copy went out: it raised, or was a retry whose worker was lost.     *)
(* "Idempotent via INVOICE_EMAIL_SENT_FLAG ... so a retry or a re-fired    *)
(* order_completed signal doesn't re-send" (order/tasks.py:1189); such a    *)
(* retry does.                                                             *)
MailedOnce == \A o \in Orders : copies[o] <= 1 + cut[o]

(* "A transport failure leaves enough state to recover on retry"           *)
(* (mydata/service.py:117): what AADE registered gets its MARK here, for   *)
(* good, through a lost answer, a lost worker or a repeated task, unless   *)
(* the recovery query is what fails.                                       *)
RegisteredIsMarked ==
  \A o \in Orders \ Touched : \A n \in Numbers :
    (row[o].number = n /\ aade[n] = "live")
      ~> [](row[o].mark = n \/ faults["query"] > 0)

(* The buyer gets the invoice whatever AADE says (order/tasks.py:1310): an *)
(* order whose generate task is in the queue is mailed one, through        *)
(* rejections, lost answers and a failing mail server.  A worker lost      *)
(* after it reserved the flag and a PDF that cannot be rendered are the    *)
(* exceptions; one fault does not use up the attempts, more may.           *)
InvoiceIsMailed ==
  \A o \in Orders \ Touched :
    <>(copies[o] > 0 \/ faults["crash"] + faults["render"] > 0)
================================================================================
