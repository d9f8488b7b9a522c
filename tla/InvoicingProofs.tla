--------------------------- MODULE InvoicingProofs ---------------------------
(***************************************************************************)
(* Invoices, for any number of orders, workers, retries and staff actions: *)
(* the register has no gap and no number twice, a MARK is the invoice's    *)
(* own, and one copy is mailed.                                            *)
(*                                                                         *)
(* A number, once on a row, stays, and AADE forgets nothing (GoesOn).  So  *)
(* what a worker read before a call or a lock can be old, but not wrong:   *)
(* it is still of the same number and its MARK is still registered         *)
(* (WorkerOk).  The mail's argument is who may still send: at most one     *)
(* task or worker, under the order's flag, and then every copy that went   *)
(* out is counted as cut off (MailOk).                                     *)
(***************************************************************************)
EXTENDS Invoicing, FiniteSetTheorems, TLAPS

JobType == [kind : Kinds, o : Orders, tries : 0 .. Retries]
WorkType ==
  [pc : {"allocate", "render", "rewrite", "rerender", "intend", "send",
         "answer", "recover", "force", "annul", "void", "mail", "ack"},
   job : JobType, row : Rows,
   answer : {None, "success", "duplicate", "invalid", "transport"}]

\* The parts of the type invariant, with the workers as a function.
TInv ==
  /\ row \in [Orders -> Rows] /\ next \in 1 .. Cardinality(Orders) + 1
  /\ aade \in [Numbers -> {"none", "live", "void"}]
  /\ file \in [Orders -> {"none", "plain", "marked"}]
  /\ jobs \subseteq JobType
  /\ worker \in [Workers -> WorkType \cup {Idle}]
  /\ flag \in [Orders -> BOOLEAN] /\ copies \in [Orders -> Nat]
  /\ cut \in [Orders -> Nat]
  /\ staff \in 0 .. MaxStaff /\ faults \in [FaultKinds -> Nat]

LEMMA Shape == TInv => InvoicingTypeOK
  BY DEF TInv, InvoicingTypeOK, WorkType, JobType

LEMMA HappensTyped ==
  ASSUME TInv, NEW kind, Happens(kind)
  PROVE  faults' \in [FaultKinds -> Nat]
<1>1. kind \in FaultKinds /\ faults \in [FaultKinds -> Nat]
  BY InvoicingConstants DEF TInv, Happens
<1>2. faults[kind] + 1 \in Nat
  BY <1>1
<1> QED
  BY <1>1, <1>2 DEF Happens

Byhand == {"generate", "byhand"}
Invoiced(o) == row[o].number # 0

\* What a row says of AADE is so: that it is registered, and that it is void.
Sound(r) ==
  /\ r.mark # 0 => r.mark = r.number /\ aade[r.mark] # "none"
  /\ r.status = "CONFIRMED" => r.mark # 0
  /\ r.status = "CANCELED" => r.number # 0 /\ aade[r.number] = "void"

\* The row a worker has read may be old, but it is of this invoice.
ReadOk(w) ==
  /\ worker[w].row.number = row[Order(w)].number /\ worker[w].row.number # 0
  /\ Sound(worker[w].row)

WorkerOk(w) ==
  LET pc == worker[w].pc
      kind == worker[w].job.kind IN
  worker[w] # Idle =>
    /\ kind \notin Byhand => Invoiced(Order(w))
    /\ pc \in {"allocate", "render"} => kind \in Byhand
    /\ pc = "render" => ~Invoiced(Order(w))
    /\ pc \in {"intend", "send", "answer", "recover", "force"} => kind = "submit"
    /\ pc \in {"rewrite", "rerender"} => kind \in {"submit", "redo"} /\ ReadOk(w)
    /\ pc = "annul" => kind = "cancel" /\ ReadOk(w) /\ worker[w].row.mark # 0
    /\ pc = "void" => kind = "cancel" /\ aade[Number(w)] = "void"
    /\ pc \in {"mail", "ack"} => kind = "mail"
    /\ (pc = "answer" /\ worker[w].answer = "success")
         => aade[Number(w)] # "none"

JobsOk == \A j \in jobs : j.kind \notin Byhand => Invoiced(j.o)
OneRenders == \A u, w \in Workers : (At(u, "render") /\ At(w, "render")) => u = w

RInv ==
  /\ TInv /\ NoGaps
  /\ \A o \in Orders : Sound(row[o])
  /\ \A w \in Workers : WorkerOk(w)
  /\ JobsOk /\ OneRenders

\* The numbers given and what AADE has registered are there for good.
GoesOn ==
  /\ \A o \in Orders : Invoiced(o) => row'[o].number = row[o].number
  /\ \A n \in Numbers : /\ aade[n] # "none" => aade'[n] # "none"
                        /\ aade[n] = "void" => aade'[n] = "void"

LEMMA SoundStays ==
  ASSUME GoesOn, NEW r \in Rows, Sound(r)
  PROVE  /\ r.mark # 0 => r.mark = r.number /\ aade'[r.mark] # "none"
         /\ r.status = "CONFIRMED" => r.mark # 0
         /\ r.status = "CANCELED" => r.number # 0 /\ aade'[r.number] = "void"
<1>1. r.mark \in {0} \cup Numbers /\ r.number \in {0} \cup Numbers
  BY DEF Rows
<1> QED
  BY <1>1 DEF Sound, GoesOn

\* Workers that a step leaves alone, but for one that holds the counter.
LEMMA WorkerStays ==
  ASSUME RInv, GoesOn, NEW u \in Workers, worker'[u] = worker[u],
         At(u, "render") => ~Invoiced(Order(u))'
  PROVE  WorkerOk(u)'
<1>1. CASE worker[u] = Idle
  BY <1>1 DEF WorkerOk
<1>2. CASE worker[u] # Idle
  <2>1. worker[u] \in WorkType /\ Order(u) \in Orders
    BY <1>2 DEF RInv, TInv, WorkType, JobType, Order
  <2>2. worker[u].row \in Rows /\ row[Order(u)].number \in {0} \cup Numbers
    BY <2>1 DEF RInv, TInv, WorkType, Rows
  <2>3. Order(u)' = Order(u) /\ At(u, "render")' = At(u, "render")
    BY DEF Order, At
  <2>4. Invoiced(Order(u)) => row'[Order(u)].number = row[Order(u)].number
    BY <2>1 DEF GoesOn
  <2>5. WorkerOk(u)
    BY DEF RInv
  <2>6. ReadOk(u) => ReadOk(u)'
    BY <2>2, <2>3, <2>4, SoundStays DEF ReadOk, Sound, Invoiced
  <2>7. Invoiced(Order(u)) => Invoiced(Order(u))'
    BY <2>3, <2>4 DEF Invoiced
  <2>8. Invoiced(Order(u)) =>
          /\ aade[Number(u)] = "void" => aade'[Number(u)'] = "void"
          /\ aade[Number(u)] # "none" => aade'[Number(u)'] # "none"
    BY <2>2, <2>3, <2>4 DEF GoesOn, Number, Invoiced
  <2>9. worker[u].pc \in {"void", "answer"} => Invoiced(Order(u))
    BY <1>2, <2>5 DEF WorkerOk, Byhand
  <2> QED
    BY <1>2, <2>3, <2>5, <2>6, <2>7, <2>8, <2>9 DEF WorkerOk, At
<1> QED
  BY <1>1, <1>2

\* A step of one worker that gives no number.
LEMMA OneWorks ==
  ASSUME RInv, TInv', GoesOn, NEW w \in Workers,
         \A u \in Workers : u # w => worker'[u] = worker[u],
         \A o \in Orders : row'[o].number = row[o].number,
         next' = next,
         \A o \in Orders : Sound(row[o])',
         WorkerOk(w)',
         At(w, "render")' => At(w, "render") \/ ~CounterLocked,
         \A j \in jobs' : j \in jobs \/ j.kind \in Byhand \/ Invoiced(j.o)
  PROVE  RInv'
<1>1. NoGaps'
  BY ZenonT(60) DEF RInv, NoGaps
<1>2. \A u \in Workers : WorkerOk(u)'
  <2> SUFFICES ASSUME NEW u \in Workers, u # w
               PROVE  WorkerOk(u)'
    OBVIOUS
  <2>1. At(u, "render") => ~Invoiced(Order(u))
    BY DEF RInv, WorkerOk, At, Idle
  <2>2. At(u, "render") => Order(u) \in Orders
    BY DEF RInv, TInv, WorkType, JobType, At, Idle, Order
  <2>3. At(u, "render") => ~Invoiced(Order(u))'
    BY <2>1, <2>2 DEF Invoiced, Order
  <2> QED
    BY <2>3, WorkerStays
<1>3. OneRenders'
  BY DEF RInv, OneRenders, At, CounterLocked
<1>4. JobsOk'
  BY DEF RInv, TInv, JobsOk, Invoiced, JobType
<1> QED
  BY <1>1, <1>2, <1>3, <1>4 DEF RInv

Places == {"allocate", "render", "rewrite", "rerender", "intend", "send",
           "answer", "recover", "force", "annul", "void", "mail", "ack"}

LEMMA BusyTyped ==
  ASSUME TInv, NEW w \in Workers, worker[w] # Idle
  PROVE  /\ worker[w] \in WorkType /\ Order(w) \in Orders
         /\ worker[w].job \in JobType /\ worker[w].row \in Rows
  BY DEF TInv, WorkType, JobType, Order

LEMMA AtBusy ==
  ASSUME NEW w \in Workers, NEW p \in Places, At(w, p)
  PROVE  worker[w] # Idle
  BY DEF At, Idle, Places

LEMMA IdleNoWork ==
  ASSUME NEW j \in JobType, NEW x, x.job = j
  PROVE  x # Idle
  BY InvoicingConstants DEF JobType, Idle, NoJob

\* The three ways a worker moves.
LEMMA GoesTo ==
  ASSUME TInv, NEW w \in Workers, worker[w] # Idle, NEW p \in Places,
         Goes(w, p)
  PROVE  /\ worker' \in [Workers -> WorkType \cup {Idle}]
         /\ worker'[w] \in WorkType /\ worker'[w] # Idle
         /\ worker'[w].pc = p /\ worker'[w].answer = None
         /\ worker'[w].job = worker[w].job /\ worker'[w].row = worker[w].row
         /\ \A u \in Workers : u # w => worker'[u] = worker[u]
<1> DEFINE x == [worker[w] EXCEPT !.pc = p, !.answer = None]
<1>1. worker[w] \in WorkType /\ worker[w].job \in JobType
  BY BusyTyped
<1>2. /\ x \in WorkType /\ x.pc = p /\ x.answer = None
      /\ x.job = worker[w].job /\ x.row = worker[w].row
  BY <1>1 DEF WorkType, Places
<1>3. worker' = [worker EXCEPT ![w] = x]
  BY DEF Goes, TInv
<1>4. x # Idle
  BY <1>1, <1>2, IdleNoWork
<1> HIDE DEF x
<1> QED
  BY <1>2, <1>3, <1>4 DEF TInv

LEMMA EndsWith ==
  ASSUME TInv, NEW w \in Workers, NEW more \in SUBSET JobType, Ends(w, more)
  PROVE  /\ worker' \in [Workers -> WorkType \cup {Idle}]
         /\ worker'[w] = Idle
         /\ \A u \in Workers : u # w => worker'[u] = worker[u]
         /\ jobs' \subseteq JobType /\ jobs' = jobs \cup more
  BY DEF Ends, TInv

LEMMA BeginsAt ==
  ASSUME TInv, NEW w \in Workers, NEW j \in jobs, NEW p \in Places,
         Begins(w, j, p)
  PROVE  /\ worker' \in [Workers -> WorkType \cup {Idle}]
         /\ worker'[w] # Idle
         /\ worker'[w].pc = p /\ worker'[w].job = j
         /\ p \in {"rewrite", "annul"} => worker'[w].row = row[j.o]
         /\ \A u \in Workers : u # w => worker'[u] = worker[u]
         /\ jobs' \subseteq JobType /\ jobs' = jobs \ {j}
<1> DEFINE x == [pc |-> p, job |-> j, answer |-> None,
                 row |-> IF p \in {"rewrite", "annul"} THEN row[j.o] ELSE NoRow]
<1>1. j \in JobType /\ j.o \in Orders
  BY DEF TInv, JobType
<1>2. NoRow \in Rows /\ row[j.o] \in Rows
  BY <1>1 DEF NoRow, Rows, TInv
<1>3. /\ x \in WorkType /\ x.pc = p /\ x.job = j
      /\ p \in {"rewrite", "annul"} => x.row = row[j.o]
  BY <1>1, <1>2 DEF WorkType, Places
<1>4. worker' = [worker EXCEPT ![w] = x]
  BY DEF Begins
<1>5. x # Idle
  BY <1>1, <1>3, IdleNoWork
<1>6. jobs' = jobs \ {j}
  BY DEF Begins
<1> HIDE DEF x
<1> QED
  BY <1>3, <1>4, <1>5, <1>6 DEF TInv

\* A task that is tried again is the same task, once more.
LEMMA TriedAgain ==
  ASSUME TInv, NEW w \in Workers, worker[w] # Idle, NEW k \in Again(w)
  PROVE  /\ k \in JobType /\ k.kind = worker[w].job.kind /\ k.o = Order(w)
         /\ k.tries = worker[w].job.tries + 1 /\ k.kind \notin {"byhand", "redo"}
         /\ \A l \in Again(w) : l = k
<1>1. worker[w].job \in JobType
  BY BusyTyped
<1> QED
  BY <1>1, InvoicingConstants DEF Again, Job, JobType, Order

LEMMA OneAgain ==
  ASSUME NEW w \in Workers
  PROVE  Again(w) = {} \/ \E k : Again(w) = {k}
  BY DEF Again

LEMMA MailTyped ==
  ASSUME NEW o \in Orders
  PROVE  /\ Mail(o) \in JobType /\ Mail(o).kind = "mail" /\ Mail(o).o = o
         /\ Mail(o).tries = 0
  BY InvoicingConstants DEF Mail, Job, JobType, Kinds

\* A step of one worker that writes no row and tells AADE nothing.
LEMMA WorksAside ==
  ASSUME RInv, NEW w \in Workers, UNCHANGED <<row, next, aade>>,
         worker' \in [Workers -> WorkType \cup {Idle}],
         \A u \in Workers : u # w => worker'[u] = worker[u],
         jobs' \subseteq JobType,
         file' \in [Orders -> {"none", "plain", "marked"}],
         flag' \in [Orders -> BOOLEAN], copies' \in [Orders -> Nat],
         cut' \in [Orders -> Nat],
         staff' \in 0 .. MaxStaff, faults' \in [FaultKinds -> Nat],
         WorkerOk(w)',
         At(w, "render")' => At(w, "render") \/ ~CounterLocked,
         \A j \in jobs' : j \in jobs \/ j.kind \in Byhand \/ Invoiced(j.o)
  PROVE  RInv'
<1>1. TInv'
  BY DEF RInv, TInv
<1>2. GoesOn
  BY DEF GoesOn
<1>3. \A o \in Orders : Sound(row[o])'
  BY DEF RInv, Sound
<1> QED
  BY <1>1, <1>2, <1>3, OneWorks

\* One that writes the row of its order, and keeps the number.
LEMMA WorksOnRow ==
  ASSUME RInv, NEW w \in Workers, NEW o \in Orders, NEW r \in Rows,
         row' = [row EXCEPT ![o] = r], r.number = row[o].number, Sound(r),
         UNCHANGED <<next, aade>>,
         worker' \in [Workers -> WorkType \cup {Idle}],
         \A u \in Workers : u # w => worker'[u] = worker[u],
         jobs' \subseteq JobType,
         file' \in [Orders -> {"none", "plain", "marked"}],
         flag' \in [Orders -> BOOLEAN], copies' \in [Orders -> Nat],
         cut' \in [Orders -> Nat],
         staff' \in 0 .. MaxStaff, faults' \in [FaultKinds -> Nat],
         WorkerOk(w)', ~At(w, "render")',
         \A j \in jobs' : j \in jobs \/ j.kind \in Byhand \/ Invoiced(j.o)
  PROVE  RInv'
<1>0. row \in [Orders -> Rows]
  BY DEF RInv, TInv
<1>1. \A q \in Orders : row'[q] = IF q = o THEN r ELSE row[q]
  BY <1>0
<1>2. TInv'
  BY <1>0 DEF RInv, TInv
<1>3. \A q \in Orders : row'[q].number = row[q].number
  BY <1>1
<1>4. GoesOn
  BY <1>3 DEF GoesOn
<1>5. \A q \in Orders : Sound(row[q])'
  BY <1>1 DEF RInv, Sound
<1> QED
  BY <1>2, <1>3, <1>4, <1>5, OneWorks

\* A worker takes a task.
LEMMA TakingKeeps ==
  ASSUME RInv, NEW w \in Workers, NEW j \in jobs,
         \/ Looks(w, j) \/ Redoes(w, j) \/ Submits(w, j)
         \/ Cancels(w, j) \/ Reserves(w, j)
  PROVE  RInv'
<1>0. /\ TInv /\ j \in JobType /\ j.o \in Orders
      /\ j.kind \notin Byhand => Invoiced(j.o)
      /\ file \in [Orders -> {"none", "plain", "marked"}]
      /\ flag \in [Orders -> BOOLEAN] /\ copies \in [Orders -> Nat]
      /\ cut \in [Orders -> Nat]
      /\ staff \in 0 .. MaxStaff /\ faults \in [FaultKinds -> Nat]
      /\ worker \in [Workers -> WorkType \cup {Idle}] /\ jobs \subseteq JobType
  BY DEF RInv, TInv, JobsOk, JobType
<1>1. CASE Looks(w, j)
  <2>1. UNCHANGED <<row, next, aade, file, flag, copies, cut, staff, faults>>
    BY <1>1 DEF Looks
  <2>2. CASE row[j.o].number = 0
    <3>1. Begins(w, j, "allocate") /\ j.kind \in Byhand
      BY <1>1, <2>2 DEF Looks, Taken, Byhand
    <3>2. "allocate" \in Places
      BY DEF Places
    <3>3. WorkerOk(w)'
      BY <1>0, <3>1, <3>2, BeginsAt DEF WorkerOk, Byhand
    <3>4. ~At(w, "render")'
      BY <1>0, <3>1, <3>2, BeginsAt DEF At
    <3>5. /\ worker' \in [Workers -> WorkType \cup {Idle}]
          /\ \A u \in Workers : u # w => worker'[u] = worker[u]
          /\ jobs' \subseteq JobType /\ \A k \in jobs' : k \in jobs
      BY <1>0, <3>1, <3>2, BeginsAt
    <3> QED
      BY <1>0, <2>1, <3>3, <3>4, <3>5, WorksAside
  <2>3. CASE row[j.o].number # 0
    <3>1. jobs' = (jobs \ {j}) \cup Chained(j) /\ UNCHANGED worker
      BY <1>1, <2>3 DEF Looks
    <3>2. \A k \in Chained(j) : k \in JobType /\ k.o = j.o
      BY <1>0, InvoicingConstants DEF Chained, Job, JobType, Kinds
    <3>3. /\ jobs' \subseteq JobType
          /\ \A k \in jobs' : k \in jobs \/ Invoiced(k.o)
      BY <1>0, <2>3, <3>1, <3>2 DEF Invoiced
    <3>4. GoesOn
      BY <2>1 DEF GoesOn
    <3>5. At(w, "render") => ~Invoiced(Order(w))'
      BY <2>1, <3>1 DEF RInv, WorkerOk, At, Idle, Invoiced, Order
    <3>6. WorkerOk(w)'
      BY <3>1, <3>4, <3>5, WorkerStays
    <3>7. At(w, "render")' => At(w, "render")
      BY <3>1 DEF At
    <3> QED
      BY <1>0, <2>1, <3>1, <3>3, <3>6, <3>7, WorksAside
  <2> QED
    BY <2>2, <2>3
<1>2. CASE Redoes(w, j)
  <2>1. /\ UNCHANGED <<row, next, aade, flag, copies, cut, staff, faults>>
        /\ Begins(w, j, "rewrite") /\ j.kind = "redo" /\ row[j.o].number # 0
        /\ file' = [file EXCEPT ![j.o] = "none"]
    BY <1>2 DEF Redoes, Taken
  <2>2. "rewrite" \in Places
    BY DEF Places
  <2>3. /\ worker'[w].pc = "rewrite" /\ worker'[w].job = j
        /\ worker'[w].row = row[j.o]
    BY <1>0, <2>1, <2>2, BeginsAt
  <2>4. Sound(row[j.o])'
    BY <1>0, <2>1 DEF RInv, Sound
  <2>5. ReadOk(w)'
    BY <2>1, <2>3, <2>4 DEF ReadOk, Order, Sound
  <2>6. WorkerOk(w)'
    BY <2>1, <2>3, <2>5 DEF WorkerOk, Invoiced, Order
  <2>7. ~At(w, "render")'
    BY <2>3 DEF At
  <2>8. /\ worker' \in [Workers -> WorkType \cup {Idle}]
        /\ \A u \in Workers : u # w => worker'[u] = worker[u]
        /\ jobs' \subseteq JobType /\ \A k \in jobs' : k \in jobs
        /\ file' \in [Orders -> {"none", "plain", "marked"}]
    BY <1>0, <2>1, <2>2, BeginsAt
  <2> QED
    BY <1>0, <2>1, <2>6, <2>7, <2>8, WorksAside
<1>3. CASE Submits(w, j)
  <2> DEFINE p == IF row[j.o].mark # 0 THEN "force" ELSE "intend"
  <2>1. /\ UNCHANGED <<row, next, aade, file, flag, copies, cut, staff, faults>>
        /\ Begins(w, j, p) /\ j.kind = "submit"
    BY <1>3 DEF Submits, Taken
  <2>2. p \in Places /\ p \in {"force", "intend"}
    BY DEF Places
  <2> HIDE DEF p
  <2>3. worker'[w].pc \in {"force", "intend"} /\ worker'[w].job = j
    BY <1>0, <2>1, <2>2, BeginsAt
  <2>4. WorkerOk(w)'
    BY <1>0, <2>1, <2>3 DEF WorkerOk, Invoiced, Order, Byhand
  <2>5. ~At(w, "render")'
    BY <2>3 DEF At
  <2>6. /\ worker' \in [Workers -> WorkType \cup {Idle}]
        /\ \A u \in Workers : u # w => worker'[u] = worker[u]
        /\ jobs' \subseteq JobType /\ \A k \in jobs' : k \in jobs
    BY <1>0, <2>1, <2>2, BeginsAt
  <2> QED
    BY <1>0, <2>1, <2>4, <2>5, <2>6, WorksAside
<1>4. CASE Cancels(w, j)
  <2>1. /\ UNCHANGED <<row, next, aade, file, flag, copies, cut, staff, faults>>
        /\ Begins(w, j, "annul") /\ j.kind = "cancel" /\ row[j.o].mark # 0
    BY <1>4 DEF Cancels, Taken
  <2>2. "annul" \in Places
    BY DEF Places
  <2>3. /\ worker'[w].pc = "annul" /\ worker'[w].job = j
        /\ worker'[w].row = row[j.o]
    BY <1>0, <2>1, <2>2, BeginsAt
  <2>4. Sound(row[j.o])' /\ row[j.o].number # 0
    BY <1>0, <2>1 DEF RInv, Sound
  <2>5. ReadOk(w)'
    BY <2>1, <2>3, <2>4 DEF ReadOk, Order, Sound
  <2>6. WorkerOk(w)'
    BY <2>1, <2>3, <2>4, <2>5 DEF WorkerOk, Invoiced, Order
  <2>7. ~At(w, "render")'
    BY <2>3 DEF At
  <2>8. /\ worker' \in [Workers -> WorkType \cup {Idle}]
        /\ \A u \in Workers : u # w => worker'[u] = worker[u]
        /\ jobs' \subseteq JobType /\ \A k \in jobs' : k \in jobs
    BY <1>0, <2>1, <2>2, BeginsAt
  <2> QED
    BY <1>0, <2>1, <2>6, <2>7, <2>8, WorksAside
<1>5. CASE Reserves(w, j)
  <2>1. /\ UNCHANGED <<row, next, aade, file, copies, cut, staff, faults>>
        /\ j.kind = "mail"
    BY <1>5 DEF Reserves, Taken
  <2>2. CASE j.tries = 0 /\ flag[j.o]
    <3>1. jobs' = jobs \ {j} /\ UNCHANGED <<worker, flag>>
      BY <1>5, <2>2 DEF Reserves
    <3>2. GoesOn
      BY <2>1 DEF GoesOn
    <3>3. At(w, "render") => ~Invoiced(Order(w))'
      BY <2>1, <3>1 DEF RInv, WorkerOk, At, Idle, Invoiced, Order
    <3>4. WorkerOk(w)'
      BY <3>1, <3>2, <3>3, WorkerStays
    <3>5. At(w, "render")' => At(w, "render")
      BY <3>1 DEF At
    <3>6. jobs' \subseteq JobType /\ \A k \in jobs' : k \in jobs
      BY <1>0, <3>1
    <3> QED
      BY <1>0, <2>1, <3>1, <3>4, <3>5, <3>6, WorksAside
  <2>3. CASE ~(j.tries = 0 /\ flag[j.o])
    <3>1. /\ Begins(w, j, "mail") /\ flag' = [flag EXCEPT ![j.o] = TRUE]
      BY <1>5, <2>3 DEF Reserves
    <3>2. "mail" \in Places
      BY DEF Places
    <3>3. worker'[w].pc = "mail" /\ worker'[w].job = j
      BY <1>0, <3>1, <3>2, BeginsAt
    <3>4. WorkerOk(w)'
      BY <1>0, <2>1, <3>3 DEF WorkerOk, Invoiced, Order, Byhand
    <3>5. ~At(w, "render")'
      BY <3>3 DEF At
    <3>6. /\ worker' \in [Workers -> WorkType \cup {Idle}]
          /\ \A u \in Workers : u # w => worker'[u] = worker[u]
          /\ jobs' \subseteq JobType /\ \A k \in jobs' : k \in jobs
          /\ flag' \in [Orders -> BOOLEAN]
      BY <1>0, <3>1, <3>2, BeginsAt
    <3> QED
      BY <1>0, <2>1, <3>4, <3>5, <3>6, WorksAside
  <2> QED
    BY <2>2, <2>3
<1> QED
  BY <1>1, <1>2, <1>3, <1>4, <1>5

\* A worker ends and leaves tasks behind, or goes on, and writes no row.
LEMMA EndsAside ==
  ASSUME RInv, NEW w \in Workers, NEW more \in SUBSET JobType, Ends(w, more),
         UNCHANGED <<row, next, aade>>,
         \A k \in more : k.kind \in Byhand \/ Invoiced(k.o),
         file' \in [Orders -> {"none", "plain", "marked"}],
         flag' \in [Orders -> BOOLEAN], copies' \in [Orders -> Nat],
         cut' \in [Orders -> Nat],
         staff' \in 0 .. MaxStaff, faults' \in [FaultKinds -> Nat]
  PROVE  RInv'
<1>1. TInv
  BY DEF RInv
<1>2. /\ worker' \in [Workers -> WorkType \cup {Idle}] /\ worker'[w] = Idle
      /\ \A u \in Workers : u # w => worker'[u] = worker[u]
      /\ jobs' \subseteq JobType /\ jobs' = jobs \cup more
  BY <1>1, EndsWith
<1>3. WorkerOk(w)' /\ ~At(w, "render")'
  BY <1>2 DEF WorkerOk, At, Idle
<1>4. \A k \in jobs' : k \in jobs \/ k.kind \in Byhand \/ Invoiced(k.o)
  BY <1>2
<1> QED
  BY <1>2, <1>3, <1>4, WorksAside

LEMMA GoesAside ==
  ASSUME RInv, NEW w \in Workers, worker[w] # Idle, NEW p \in Places,
         Goes(w, p), WorkerOk(w)',
         p = "render" => ~CounterLocked,
         UNCHANGED <<row, next, aade>>, jobs' \subseteq jobs,
         file' \in [Orders -> {"none", "plain", "marked"}],
         flag' \in [Orders -> BOOLEAN], copies' \in [Orders -> Nat],
         cut' \in [Orders -> Nat],
         staff' \in 0 .. MaxStaff, faults' \in [FaultKinds -> Nat]
  PROVE  RInv'
<1>1. TInv /\ jobs \subseteq JobType
  BY DEF RInv, TInv
<1>2. /\ worker' \in [Workers -> WorkType \cup {Idle}] /\ worker'[w].pc = p
      /\ \A u \in Workers : u # w => worker'[u] = worker[u]
  BY <1>1, GoesTo
<1>3. At(w, "render")' => ~CounterLocked
  BY <1>2 DEF At
<1> QED
  BY <1>1, <1>2, <1>3, WorksAside

\* What a worker at a place knows, and what it may leave behind.
LEMMA AtKnows ==
  ASSUME RInv, NEW w \in Workers, worker[w] # Idle
  PROVE  /\ worker[w] \in WorkType /\ Order(w) \in Orders
         /\ worker[w].row \in Rows /\ row[Order(w)] \in Rows
         /\ WorkerOk(w) /\ Sound(row[Order(w)])
         /\ TInv
         /\ \A k \in Again(w) : /\ k \in JobType /\ k.o = Order(w)
                                /\ k.kind \in Byhand \/ Invoiced(k.o)
         /\ Again(w) \in SUBSET JobType /\ {Mail(Order(w))} \in SUBSET JobType
         /\ Mail(Order(w)).o = Order(w)
<1>1. TInv
  BY DEF RInv
<1>2. /\ worker[w] \in WorkType /\ Order(w) \in Orders
      /\ worker[w].row \in Rows /\ row[Order(w)] \in Rows
  BY <1>1, BusyTyped DEF TInv
<1>3. WorkerOk(w) /\ Sound(row[Order(w)])
  BY <1>2 DEF RInv
<1>4. \A k \in Again(w) : /\ k \in JobType /\ k.o = Order(w)
                          /\ k.kind \in Byhand \/ Invoiced(k.o)
  BY <1>1, <1>3, TriedAgain DEF WorkerOk
<1> QED
  BY <1>1, <1>2, <1>3, <1>4, MailTyped

\* The counter is never past the last order.
LEMMA RoomForOne ==
  ASSUME RInv, NEW o \in Orders, ~Invoiced(o)
  PROVE  next \in Numbers
<1> DEFINE I == {x \in Orders : row[x].number # 0}
           f == [x \in I |-> row[x].number]
<1>1. /\ IsFiniteSet(Orders) /\ next \in 1 .. Cardinality(Orders) + 1
      /\ Cardinality(Orders) \in Nat
  BY InvoicingConstants, FS_CardinalityType DEF RInv, TInv
<1>2. {row[x].number : x \in I} = 1 .. next - 1
  BY DEF RInv, NoGaps
<1>3. f \in Surjection(I, 1 .. next - 1)
  BY <1>2 DEF Surjection
<1>4. I \in SUBSET (Orders \ {o})
  BY DEF Invoiced
<1> HIDE DEF I, f
<1>5. /\ IsFiniteSet(Orders \ {o})
      /\ Cardinality(Orders \ {o}) = Cardinality(Orders) - 1
  BY <1>1, FS_RemoveElement
<1>6. IsFiniteSet(I) /\ Cardinality(I) <= Cardinality(Orders \ {o})
  BY <1>4, <1>5, FS_Subset
<1>7. Cardinality(1 .. next - 1) <= Cardinality(I)
  BY <1>3, <1>6, FS_Surjection
<1>8. Cardinality(1 .. next - 1) = next - 1
  <2>1. next \in Int /\ next - 1 \in Int /\ ~(1 > next - 1 /\ next # 1)
    BY <1>1
  <2> QED
    BY <2>1, FS_Interval
<1>9. Cardinality(I) \in Nat
  BY <1>6, FS_CardinalityType
<1>10. next - 1 <= Cardinality(Orders) - 1
  BY <1>1, <1>5, <1>6, <1>7, <1>8, <1>9
<1> QED
  BY <1>1, <1>10 DEF Numbers

\* The next number makes the register one longer.
LEMMA NumberGiven ==
  ASSUME NoGaps, row \in [Orders -> Rows], next \in Nat \ {0}, NEW o \in Orders,
         ~Invoiced(o), next' = next + 1,
         \A x \in Orders : row'[x].number =
           IF x = o THEN next ELSE row[x].number
  PROVE  NoGaps'
<1> DEFINE I == {x \in Orders : row[x].number # 0}
<1>1. {row[x].number : x \in I} = 1 .. next - 1
  BY DEF NoGaps
<1>2. \A x, y \in I : row[x].number = row[y].number => x = y
  BY DEF NoGaps, IsInjective, Restrict
<1>3. {x \in Orders : row'[x].number # 0} = I \cup {o} /\ o \notin I
  BY DEF Invoiced
<1>4. \A x \in I : row[x].number \in 1 .. next - 1
  BY <1>1
<1>5. 1 .. next' - 1 = (1 .. next - 1) \cup {next}
  OBVIOUS
<1>6. {row'[x].number : x \in I \cup {o}} = (1 .. next - 1) \cup {next}
  <2>1. \A x \in I : row'[x].number = row[x].number
    BY <1>3
  <2>2. row'[o].number = next
    OBVIOUS
  <2> HIDE DEF I
  <2> QED
    BY <1>1, <2>1, <2>2
<1>7. \A x, y \in I \cup {o} : row'[x].number = row'[y].number => x = y
  <2>1. \A x \in I : row'[x].number = row[x].number /\ row[x].number # next
    BY <1>3, <1>4
  <2>2. row'[o].number = next
    OBVIOUS
  <2> HIDE DEF I
  <2> QED
    BY <1>2, <2>1, <2>2
<1>8. IsInjective(Restrict([x \in Orders |-> row'[x].number], I \cup {o}))
  BY <1>7 DEF IsInjective, Restrict
<1> HIDE DEF I
<1> QED
  BY <1>3, <1>5, <1>6, <1>8 DEF NoGaps

\* The generation, and the rewriting.
LEMMA GeneratingKeeps ==
  ASSUME RInv, NEW w \in Workers,
         \/ Allocates(w) \/ Renders(w) \/ RenderFails(w) \/ Forces(w)
         \/ Rewrites(w) \/ Rerenders(w) \/ RerenderFails(w)
  PROVE  RInv'
<1>0. /\ worker[w] # Idle
      /\ worker[w].pc \in {"allocate", "render", "force", "rewrite", "rerender"}
  <2>1. worker[w].pc \in {"allocate", "render", "force", "rewrite", "rerender"}
    BY DEF Allocates, Renders, RenderFails, Forces, Rewrites, Rerenders,
           RerenderFails, At
  <2> QED
    BY <2>1 DEF Idle
<1>k. /\ worker[w] \in WorkType /\ Order(w) \in Orders
      /\ worker[w].row \in Rows /\ row[Order(w)] \in Rows
      /\ WorkerOk(w) /\ Sound(row[Order(w)]) /\ TInv
      /\ Again(w) \in SUBSET JobType
      /\ \A k \in Again(w) : k.kind \in Byhand \/ Invoiced(k.o)
  BY <1>0, AtKnows
<1>t. /\ file \in [Orders -> {"none", "plain", "marked"}]
      /\ flag \in [Orders -> BOOLEAN] /\ copies \in [Orders -> Nat]
      /\ cut \in [Orders -> Nat]
      /\ staff \in 0 .. MaxStaff /\ faults \in [FaultKinds -> Nat]
      /\ worker \in [Workers -> WorkType \cup {Idle}] /\ jobs \subseteq JobType
      /\ row \in [Orders -> Rows] /\ next \in 1 .. Cardinality(Orders) + 1
      /\ aade \in [Numbers -> {"none", "live", "void"}]
  BY <1>k DEF TInv
<1>1. CASE Allocates(w)
  <2>1. /\ UNCHANGED <<row, next, aade, file, flag, copies, cut, staff, faults>>
        /\ ~CounterLocked /\ worker[w].pc = "allocate"
    BY <1>1 DEF Allocates, At
  <2>2. CASE row[Order(w)].number = 0
    <3>1. Goes(w, "render") /\ UNCHANGED jobs
      BY <1>1, <2>2 DEF Allocates
    <3>2. "render" \in Places
      BY DEF Places
    <3>3. /\ worker'[w].pc = "render" /\ worker'[w].job = worker[w].job
      BY <1>0, <1>k, <3>1, <3>2, GoesTo
    <3>4. WorkerOk(w)'
      BY <1>k, <1>0, <2>1, <2>2, <3>3 DEF WorkerOk, Order, Invoiced
    <3> QED
      BY <1>0, <1>t, <2>1, <3>1, <3>2, <3>4, GoesAside
  <2>3. CASE row[Order(w)].number # 0
    <3>1. Ends(w, Again(w))
      BY <1>1, <2>3 DEF Allocates
    <3> QED
      BY <1>k, <1>t, <2>1, <3>1, EndsAside
  <2> QED
    BY <2>2, <2>3
<1>2. CASE RenderFails(w)
  <2>1. /\ UNCHANGED <<row, next, aade, file, flag, copies, cut, staff>>
        /\ Ends(w, Again(w)) /\ faults' \in [FaultKinds -> Nat]
    BY <1>2, <1>k, HappensTyped DEF RenderFails, RolledBack
  <2> QED
    BY <1>k, <1>t, <2>1, EndsAside
<1>3. CASE Renders(w)
  <2> DEFINE o == Order(w)
  <2>1. /\ At(w, "render") /\ next' = next + 1
        /\ row' = [row EXCEPT ![o].number = next]
        /\ file' = [file EXCEPT ![o] = "plain"]
        /\ Ends(w, Chained(worker[w].job))
        /\ UNCHANGED <<aade, flag, copies, cut, staff, faults>>
    BY <1>3 DEF Renders
  <2>2. ~Invoiced(o)
    BY <1>0, <1>k, <2>1 DEF WorkerOk, At
  <2>3. next \in Numbers /\ next # 0
    BY <1>k, <1>t, <2>2, RoomForOne DEF Numbers
  <2>4. Chained(worker[w].job) \in SUBSET JobType
    BY <1>k, InvoicingConstants DEF Chained, Job, JobType, Kinds, WorkType
  <2>5. \A k \in Chained(worker[w].job) : k.o = o
    BY DEF Chained, Job, Order
  <2>6. /\ worker' \in [Workers -> WorkType \cup {Idle}] /\ worker'[w] = Idle
        /\ \A u \in Workers : u # w => worker'[u] = worker[u]
        /\ jobs' \subseteq JobType /\ jobs' = jobs \cup Chained(worker[w].job)
    BY <1>k, <2>1, <2>4, EndsWith
  <2> HIDE DEF o
  <2>7. o \in Orders
    BY <1>k DEF o
  <2>8. /\ \A q \in Orders : q # o => row'[q] = row[q]
        /\ row'[o] = [row[o] EXCEPT !.number = next]
    BY <1>t, <2>1, <2>7
  <2>9. /\ row'[o] \in Rows /\ row'[o].number = next
        /\ row'[o].mark = row[o].mark /\ row'[o].status = row[o].status
    BY <1>t, <2>3, <2>7, <2>8 DEF Rows
  <2>10. TInv'
    <3>1. next' \in 1 .. Cardinality(Orders) + 1
      <4>1. Cardinality(Orders) \in Nat
        BY InvoicingConstants, FS_CardinalityType
      <4> QED
        BY <4>1, <2>1, <2>3 DEF Numbers
    <3>2. row' \in [Orders -> Rows]
      BY <1>t, <2>1, <2>8, <2>9
    <3>3. file' \in [Orders -> {"none", "plain", "marked"}]
      BY <1>t, <2>1
    <3> QED
      BY <1>t, <2>1, <2>6, <3>1, <3>2, <3>3 DEF TInv
  <2>11. GoesOn
    BY <2>1, <2>2, <2>8 DEF GoesOn, Invoiced
  <2>12. NoGaps'
    <3>1. \A x \in Orders : row'[x].number =
            IF x = o THEN next ELSE row[x].number
      BY <2>8, <2>9
    <3>2. next \in Nat \ {0}
      BY <1>t, <2>3 DEF Numbers
    <3> QED
      BY <1>t, <2>1, <2>2, <2>7, <3>1, <3>2, NumberGiven DEF RInv
  <2>13. \A q \in Orders : Sound(row[q])'
    <3> SUFFICES ASSUME NEW q \in Orders
                 PROVE  Sound(row[q])'
      OBVIOUS
    <3>1. Sound(row[q])
      BY DEF RInv
    <3>2. CASE q # o
      BY <2>1, <2>8, <3>1, <3>2 DEF Sound
    <3>3. CASE q = o
      BY <2>1, <2>2, <2>9, <3>1, <3>3 DEF Sound, Invoiced
    <3> QED
      BY <3>2, <3>3
  <2>14. \A u \in Workers : WorkerOk(u)'
    <3>1. WorkerOk(w)'
      BY <2>6 DEF WorkerOk
    <3>2. ASSUME NEW u \in Workers, u # w
          PROVE  WorkerOk(u)'
      <4>1. ~At(u, "render")
        BY <2>1, <3>2 DEF RInv, OneRenders
      <4> QED
        BY <2>6, <2>11, <3>2, <4>1, WorkerStays
    <3> QED
      BY <3>1, <3>2
  <2>15. OneRenders'
    BY <2>6 DEF RInv, OneRenders, At, Idle
  <2>16. JobsOk'
    <3> SUFFICES ASSUME NEW k \in jobs', k.kind \notin Byhand
                 PROVE  row'[k.o].number # 0
      BY DEF JobsOk, Invoiced
    <3>1. CASE k \in jobs
      <4>1. Invoiced(k.o) /\ k.o \in Orders
        BY <1>t, <3>1 DEF RInv, JobsOk, JobType
      <4> QED
        BY <2>11, <4>1 DEF GoesOn, Invoiced
    <3>2. CASE k \in Chained(worker[w].job)
      BY <2>3, <2>5, <2>9, <3>2
    <3> QED
      BY <2>6, <3>1, <3>2
  <2> QED
    BY <2>10, <2>12, <2>13, <2>14, <2>15, <2>16 DEF RInv
<1>4. CASE Forces(w)
  <2>1. /\ UNCHANGED <<row, next, aade, jobs, flag, copies, cut, staff, faults>>
        /\ worker[w].pc = "force" /\ ReadsForce(w)
    BY <1>4 DEF Forces, At
  <2> DEFINE x == [worker[w] EXCEPT !.row = row[Order(w)], !.pc = "rewrite"]
  <2>2. /\ x \in WorkType /\ x.pc = "rewrite" /\ x.job = worker[w].job
        /\ x.row = row[Order(w)]
    BY <1>k DEF WorkType
  <2>3. worker' = [worker EXCEPT ![w] = x]
    BY <1>t, <2>1 DEF ReadsForce
  <2> HIDE DEF x
  <2>4. /\ worker' \in [Workers -> WorkType \cup {Idle}] /\ worker'[w] = x
        /\ \A u \in Workers : u # w => worker'[u] = worker[u]
    BY <1>t, <2>2, <2>3
  <2>5. file' \in [Orders -> {"none", "plain", "marked"}]
    BY <1>t, <2>1 DEF ReadsForce
  <2>6. worker[w].job.kind = "submit" /\ Invoiced(Order(w))
    BY <1>0, <1>k, <2>1 DEF WorkerOk, Byhand
  <2>7. ReadOk(w)'
    BY <1>k, <2>1, <2>2, <2>4, <2>6 DEF ReadOk, Order, Sound, Invoiced
  <2>8. WorkerOk(w)'
    BY <2>1, <2>2, <2>4, <2>6, <2>7 DEF WorkerOk, Order, Invoiced
  <2>9. ~At(w, "render")'
    BY <2>2, <2>4 DEF At
  <2> QED
    BY <1>t, <2>1, <2>4, <2>5, <2>8, <2>9, WorksAside
<1>5. CASE Rewrites(w)
  <2>1. /\ UNCHANGED <<row, next, aade, file, jobs, flag, copies, cut, staff, faults>>
        /\ worker[w].pc = "rewrite" /\ Goes(w, "rerender")
    BY <1>5 DEF Rewrites, At
  <2>2. "rerender" \in Places
    BY DEF Places
  <2>3. /\ worker'[w].pc = "rerender" /\ worker'[w].job = worker[w].job
        /\ worker'[w].row = worker[w].row
    BY <1>0, <1>k, <2>1, <2>2, GoesTo
  <2>4. ReadOk(w)'
    BY <1>0, <1>k, <2>1, <2>3 DEF WorkerOk, ReadOk, Order, Sound
  <2>5. WorkerOk(w)'
    BY <1>0, <1>k, <2>1, <2>3, <2>4 DEF WorkerOk, Order, Invoiced
  <2> QED
    BY <1>0, <1>t, <2>1, <2>2, <2>5, GoesAside
<1>6. CASE Rerenders(w) \/ RerenderFails(w)
  <2>1. /\ worker[w].pc = "rerender" /\ Ends(w, MailDue(w))
        /\ UNCHANGED <<next, aade, flag, copies, cut, staff>>
        /\ file' \in {file, [file EXCEPT ![Order(w)] = Printed(worker[w].row)]}
        /\ row' \in {row, [row EXCEPT ![Order(w)] = worker[w].row]}
        /\ faults' \in [FaultKinds -> Nat]
    <3>1. CASE Rerenders(w)
      BY <1>t, <3>1 DEF Rerenders, At
    <3>2. CASE RerenderFails(w)
      BY <1>k, <3>2, HappensTyped DEF RerenderFails, At
    <3> QED
      BY <1>6, <3>1, <3>2
  <2>2. ReadOk(w) /\ Invoiced(Order(w))
    BY <1>0, <1>k, <2>1 DEF WorkerOk, ReadOk, Invoiced
  <2>3. /\ MailDue(w) \in SUBSET JobType
        /\ \A k \in MailDue(w) : Invoiced(k.o)
    BY <1>0, <2>2, AtKnows DEF MailDue
  <2>4. /\ file' \in [Orders -> {"none", "plain", "marked"}]
        /\ faults' \in [FaultKinds -> Nat]
    <3>1. Printed(worker[w].row) \in {"none", "plain", "marked"}
      BY DEF Printed
    <3> QED
      BY <1>t, <2>1, <3>1
  <2>5. CASE row' = row
    BY <1>t, <2>1, <2>3, <2>4, <2>5, EndsAside
  <2>6. CASE row' = [row EXCEPT ![Order(w)] = worker[w].row]
    <3>1. /\ worker' \in [Workers -> WorkType \cup {Idle}] /\ worker'[w] = Idle
          /\ \A u \in Workers : u # w => worker'[u] = worker[u]
          /\ jobs' \subseteq JobType /\ jobs' = jobs \cup MailDue(w)
      BY <1>k, <2>1, <2>3, EndsWith
    <3>2. WorkerOk(w)' /\ ~At(w, "render")'
      BY <3>1 DEF WorkerOk, At, Idle
    <3>3. worker[w].row.number = row[Order(w)].number /\ Sound(worker[w].row)
      BY <2>2 DEF ReadOk
    <3>4. \A k \in jobs' : k \in jobs \/ Invoiced(k.o)
      BY <2>3, <3>1
    <3> QED
      BY <1>k, <1>t, <2>1, <2>4, <2>6, <3>1, <3>2, <3>3, <3>4, WorksOnRow
  <2> QED
    BY <2>1, <2>5, <2>6
<1> QED
  BY <1>1, <1>2, <1>3, <1>4, <1>5, <1>6

\* A worker hears of AADE, and AADE's book may have a line more or one struck.
LEMMA AnsweredWith ==
  ASSUME TInv, NEW w \in Workers, worker[w] # Idle,
         NEW a \in {"success", "duplicate", "invalid", "transport"},
         Answered(w, a)
  PROVE  /\ worker' \in [Workers -> WorkType \cup {Idle}]
         /\ worker'[w] # Idle
         /\ worker'[w].pc = "answer" /\ worker'[w].answer = a
         /\ worker'[w].job = worker[w].job
         /\ \A u \in Workers : u # w => worker'[u] = worker[u]
<1> DEFINE x == [worker[w] EXCEPT !.answer = a, !.pc = "answer"]
<1>1. worker[w] \in WorkType /\ worker[w].job \in JobType
  BY BusyTyped
<1>2. /\ x \in WorkType /\ x.pc = "answer" /\ x.answer = a
      /\ x.job = worker[w].job
  BY <1>1 DEF WorkType
<1>3. worker' = [worker EXCEPT ![w] = x]
  BY DEF Answered, TInv
<1>4. x # Idle
  BY <1>1, <1>2, IdleNoWork
<1> HIDE DEF x
<1> QED
  BY <1>2, <1>3, <1>4 DEF TInv

LEMMA TellsAade ==
  ASSUME RInv, NEW w \in Workers, NEW n \in Numbers, NEW v \in {"live", "void"},
         aade[n] = IF v = "live" THEN "none" ELSE "live",
         aade' = [aade EXCEPT ![n] = v],
         UNCHANGED <<row, next, file, flag, copies, cut, staff>>,
         worker' \in [Workers -> WorkType \cup {Idle}],
         \A u \in Workers : u # w => worker'[u] = worker[u],
         jobs' \subseteq JobType, faults' \in [FaultKinds -> Nat],
         WorkerOk(w)', ~At(w, "render")',
         \A j \in jobs' : j \in jobs \/ j.kind \in Byhand \/ Invoiced(j.o)
  PROVE  RInv'
<1>0. aade \in [Numbers -> {"none", "live", "void"}]
  BY DEF RInv, TInv
<1>1. \A m \in Numbers : aade'[m] = IF m = n THEN v ELSE aade[m]
  BY <1>0
<1>2. GoesOn
  BY <1>1 DEF GoesOn
<1>3. aade' \in [Numbers -> {"none", "live", "void"}]
  BY <1>0
<1>4. TInv'
  BY <1>3 DEF RInv, TInv
<1>5. \A o \in Orders : Sound(row[o])'
  <2> SUFFICES ASSUME NEW o \in Orders
               PROVE  Sound(row[o])'
    OBVIOUS
  <2>1. Sound(row[o]) /\ row[o] \in Rows /\ row'[o] = row[o]
    BY DEF RInv, TInv
  <2> QED
    BY <1>2, <2>1, SoundStays DEF Sound
<1> QED
  BY <1>2, <1>4, <1>5, OneWorks

\* What a step of the submission, of the cancellation or of the mail leaves
\* the worker with.
LEMMA EndIsOk ==
  ASSUME NEW w \in Workers, worker'[w] = Idle
  PROVE  WorkerOk(w)' /\ ~At(w, "render")'
  BY DEF WorkerOk, At, Idle

\* A step that writes the row of the worker's order and keeps the number.
LEMMA WritesRow ==
  ASSUME RInv, NEW w \in Workers, worker[w] # Idle, NEW r \in Rows,
         Writes(Order(w), r), r.number = row[Order(w)].number, Sound(r),
         UNCHANGED <<next, aade, file, flag, copies, cut, staff, faults>>,
         worker' \in [Workers -> WorkType \cup {Idle}],
         \A u \in Workers : u # w => worker'[u] = worker[u],
         jobs' \subseteq JobType,
         WorkerOk(w)', ~At(w, "render")',
         \A j \in jobs' : j \in jobs \/ j.kind \in Byhand \/ Invoiced(j.o)
  PROVE  RInv'
<1>1. /\ Order(w) \in Orders
      /\ file \in [Orders -> {"none", "plain", "marked"}]
      /\ flag \in [Orders -> BOOLEAN] /\ copies \in [Orders -> Nat]
      /\ cut \in [Orders -> Nat]
      /\ staff \in 0 .. MaxStaff /\ faults \in [FaultKinds -> Nat]
  BY BusyTyped DEF RInv, TInv
<1>2. row' = [row EXCEPT ![Order(w)] = r]
  BY DEF Writes
<1> QED
  BY <1>1, <1>2, WorksOnRow

\* The submission.
LEMMA SubmittingKeeps ==
  ASSUME RInv, NEW w \in Workers,
         \/ Intends(w) \/ Refuses(w) \/ Confirms(w) \/ Rejects(w)
         \/ Resubmits(w) \/ Recovers(w) \/ RecoveryFails(w)
  PROVE  RInv'
<1>0. /\ worker[w] # Idle
      /\ worker[w].pc \in {"intend", "answer", "recover"}
  <2>1. worker[w].pc \in {"intend", "answer", "recover"}
    BY DEF Intends, Refuses, Confirms, Rejects, Resubmits, Recovers,
           RecoveryFails, At
  <2> QED
    BY <2>1 DEF Idle
<1>k. /\ worker[w] \in WorkType /\ Order(w) \in Orders /\ row[Order(w)] \in Rows
      /\ WorkerOk(w) /\ Sound(row[Order(w)]) /\ TInv
      /\ Again(w) \in SUBSET JobType
      /\ \A k \in Again(w) : k.kind \in Byhand \/ Invoiced(k.o)
      /\ {Mail(Order(w))} \in SUBSET JobType /\ Mail(Order(w)).o = Order(w)
  BY <1>0, AtKnows
<1>t. /\ file \in [Orders -> {"none", "plain", "marked"}]
      /\ flag \in [Orders -> BOOLEAN] /\ copies \in [Orders -> Nat]
      /\ cut \in [Orders -> Nat]
      /\ staff \in 0 .. MaxStaff /\ faults \in [FaultKinds -> Nat]
      /\ worker \in [Workers -> WorkType \cup {Idle}] /\ jobs \subseteq JobType
      /\ row \in [Orders -> Rows]
      /\ aade \in [Numbers -> {"none", "live", "void"}]
  BY <1>k DEF TInv
<1>i. /\ worker[w].job.kind = "submit" /\ Invoiced(Order(w))
      /\ Number(w) \in Numbers /\ Number(w) # 0
  <2>1. worker[w].job.kind = "submit" /\ Invoiced(Order(w))
    BY <1>0, <1>k DEF WorkerOk, Byhand
  <2> QED
    BY <1>k, <2>1 DEF Invoiced, Number, Rows
<1>p. {"send", "force", "recover"} \subseteq Places
  BY DEF Places
\* A new status is as sound as the old one.
<1>s. ASSUME NEW s \in {"SUBMITTED", "REJECTED"}
      PROVE  LET r == [row[Order(w)] EXCEPT !.status = s] IN
             r \in Rows /\ r.number = row[Order(w)].number /\ Sound(r)
  BY <1>k DEF Rows, Sound
\* The worker goes on with the same task.
<1>g. ASSUME NEW q \in {"send", "force", "recover"}, Goes(w, q),
             \A o \in Orders : row'[o].number = row[o].number
      PROVE  /\ worker' \in [Workers -> WorkType \cup {Idle}]
             /\ \A u \in Workers : u # w => worker'[u] = worker[u]
             /\ WorkerOk(w)' /\ ~At(w, "render")'
  <2>1. /\ worker' \in [Workers -> WorkType \cup {Idle}]
        /\ worker'[w].pc = q /\ worker'[w].job = worker[w].job
        /\ \A u \in Workers : u # w => worker'[u] = worker[u]
    BY <1>0, <1>k, <1>p, <1>g, GoesTo
  <2>2. Invoiced(Order(w))'
    BY <1>g, <1>i, <1>k, <2>1 DEF Invoiced, Order
  <2> QED
    BY <1>i, <2>1, <2>2 DEF WorkerOk, At
<1>e. ASSUME NEW more \in SUBSET JobType, Ends(w, more),
             \A k \in more : k.kind \in Byhand \/ Invoiced(k.o)
      PROVE  /\ worker' \in [Workers -> WorkType \cup {Idle}]
             /\ \A u \in Workers : u # w => worker'[u] = worker[u]
             /\ WorkerOk(w)' /\ ~At(w, "render")'
             /\ jobs' \subseteq JobType
             /\ \A k \in jobs' : k \in jobs \/ k.kind \in Byhand \/ Invoiced(k.o)
  <2>1. /\ worker' \in [Workers -> WorkType \cup {Idle}] /\ worker'[w] = Idle
        /\ \A u \in Workers : u # w => worker'[u] = worker[u]
        /\ jobs' \subseteq JobType /\ jobs' = jobs \cup more
    BY <1>k, <1>e, EndsWith
  <2> QED
    BY <1>e, <2>1, EndIsOk
<1>m. \A k \in {Mail(Order(w))} : k.kind \in Byhand \/ Invoiced(k.o)
  BY <1>i, <1>k
<1>w. ASSUME NEW r \in Rows, r.number = row[Order(w)].number,
             Writes(Order(w), r)
      PROVE  \A o \in Orders : row'[o].number = row[o].number
  BY <1>t, <1>k, <1>w DEF Writes
<1>1. CASE Intends(w)
  <2> DEFINE r == [row[Order(w)] EXCEPT !.status = "SUBMITTED"]
  <2>1. /\ UNCHANGED <<next, aade, file, jobs, flag, copies, cut, staff, faults>>
        /\ Goes(w, "send") /\ Writes(Order(w), r)
    BY <1>1 DEF Intends
  <2>2. r \in Rows /\ r.number = row[Order(w)].number /\ Sound(r)
    BY <1>s
  <2> HIDE DEF r
  <2>3. \A o \in Orders : row'[o].number = row[o].number
    BY <2>1, <2>2, <1>w
  <2>4. /\ worker' \in [Workers -> WorkType \cup {Idle}]
        /\ \A u \in Workers : u # w => worker'[u] = worker[u]
        /\ WorkerOk(w)' /\ ~At(w, "render")'
    BY <2>1, <2>3, <1>g
  <2> QED
    BY <1>0, <1>t, <2>1, <2>2, <2>4, WritesRow
<1>2. CASE Refuses(w)
  <2> DEFINE r == [row[Order(w)] EXCEPT !.status = "REJECTED"]
  <2>1. /\ UNCHANGED <<next, aade, file, flag, copies, cut, staff, faults>>
        /\ Ends(w, {Mail(Order(w))})
        /\ Writes(Order(w), r) \/ UNCHANGED row
    BY <1>2 DEF Refuses
  <2>2. r \in Rows /\ r.number = row[Order(w)].number /\ Sound(r)
    BY <1>s
  <2> HIDE DEF r
  <2>3. /\ worker' \in [Workers -> WorkType \cup {Idle}]
        /\ \A u \in Workers : u # w => worker'[u] = worker[u]
        /\ WorkerOk(w)' /\ ~At(w, "render")'
        /\ jobs' \subseteq JobType
        /\ \A k \in jobs' : k \in jobs \/ k.kind \in Byhand \/ Invoiced(k.o)
    BY <1>k, <1>m, <2>1, <1>e
  <2>4. CASE Writes(Order(w), r)
    BY <1>0, <2>1, <2>2, <2>3, <2>4, WritesRow
  <2>5. CASE UNCHANGED row
    BY <1>k, <1>m, <1>t, <2>1, <2>5, EndsAside
  <2> QED
    BY <2>1, <2>4, <2>5
<1>c. ASSUME NEW n \in Numbers, n = Number(w), aade[n] # "none",
             Writes(Order(w), Confirmed(w, n)), Goes(w, "force"),
             UNCHANGED <<next, aade, file, jobs, flag, copies, cut, staff, faults>>
      PROVE  RInv'
  <2> DEFINE r == Confirmed(w, n)
  <2>1. r \in Rows /\ r.number = row[Order(w)].number /\ Sound(r)
    BY <1>c, <1>k, <1>i DEF Confirmed, Rows, Sound, Number
  <2> HIDE DEF r
  <2>2. Writes(Order(w), r)
    BY <1>c DEF r
  <2>3. \A o \in Orders : row'[o].number = row[o].number
    BY <2>1, <2>2, <1>w
  <2>4. /\ worker' \in [Workers -> WorkType \cup {Idle}]
        /\ \A u \in Workers : u # w => worker'[u] = worker[u]
        /\ WorkerOk(w)' /\ ~At(w, "render")'
    BY <1>c, <2>3, <1>g
  <2> QED
    BY <1>0, <1>c, <1>t, <2>1, <2>2, <2>4, WritesRow
<1>3. CASE Confirms(w)
  <2>1. aade[Number(w)] # "none"
    BY <1>0, <1>3, <1>k DEF Confirms, WorkerOk, At
  <2> QED
    BY <1>3, <1>i, <2>1, <1>c DEF Confirms
<1>4. CASE Recovers(w)
  <2>1. PICK n \in Matches(w) : Writes(Order(w), Confirmed(w, n))
    BY <1>4 DEF Recovers
  <2>2. n \in Numbers /\ n = Number(w) /\ aade[n] # "none"
    BY DEF Matches
  <2>3. /\ UNCHANGED <<next, aade, file, jobs, flag, copies, cut, staff, faults>>
        /\ Goes(w, "force")
    BY <1>4 DEF Recovers
  <2> QED
    BY <2>1, <2>2, <2>3, <1>c
<1>5. CASE Rejects(w)
  <2> DEFINE r == [row[Order(w)] EXCEPT !.status = "REJECTED"]
  <2>1. /\ UNCHANGED <<next, aade, file, flag, copies, cut, staff, faults>>
        /\ Writes(Order(w), r)
    BY <1>5 DEF Rejects
  <2>2. r \in Rows /\ r.number = row[Order(w)].number /\ Sound(r)
    BY <1>s
  <2> HIDE DEF r
  <2>3. CASE worker[w].answer = "duplicate"
    <3>1. Goes(w, "recover") /\ UNCHANGED jobs
      BY <1>5, <2>3 DEF Rejects
    <3>2. \A o \in Orders : row'[o].number = row[o].number
      BY <2>1, <2>2, <1>w
    <3>3. /\ worker' \in [Workers -> WorkType \cup {Idle}]
          /\ \A u \in Workers : u # w => worker'[u] = worker[u]
          /\ WorkerOk(w)' /\ ~At(w, "render")'
      BY <3>1, <3>2, <1>g
    <3> QED
      BY <1>0, <1>t, <2>1, <2>2, <3>1, <3>3, WritesRow
  <2>4. CASE worker[w].answer # "duplicate"
    <3>1. Ends(w, {Mail(Order(w))})
      BY <1>5, <2>4 DEF Rejects
    <3>2. /\ worker' \in [Workers -> WorkType \cup {Idle}]
          /\ \A u \in Workers : u # w => worker'[u] = worker[u]
          /\ WorkerOk(w)' /\ ~At(w, "render")'
          /\ jobs' \subseteq JobType
          /\ \A k \in jobs' : k \in jobs \/ k.kind \in Byhand \/ Invoiced(k.o)
      BY <1>k, <1>m, <3>1, <1>e
    <3> QED
      BY <1>0, <2>1, <2>2, <3>2, WritesRow
  <2> QED
    BY <2>3, <2>4
<1>6. CASE Resubmits(w)
  <2> DEFINE more == IF Again(w) = {} THEN {Mail(Order(w))} ELSE Again(w)
  <2>1. /\ UNCHANGED <<row, next, aade, file, flag, copies, cut, staff, faults>>
        /\ Ends(w, more)
    BY <1>6 DEF Resubmits
  <2>2. /\ more \in SUBSET JobType
        /\ \A k \in more : k.kind \in Byhand \/ Invoiced(k.o)
    BY <1>k, <1>m
  <2> HIDE DEF more
  <2> QED
    BY <1>t, <2>1, <2>2, EndsAside
<1>7. CASE RecoveryFails(w)
  <2>1. /\ UNCHANGED <<row, next, aade, file, flag, copies, cut, staff>>
        /\ Ends(w, {Mail(Order(w))}) /\ faults' \in [FaultKinds -> Nat]
    BY <1>7, <1>k, HappensTyped DEF RecoveryFails
  <2> QED
    BY <1>k, <1>m, <1>t, <2>1, EndsAside
<1> QED
  BY <1>1, <1>2, <1>3, <1>4, <1>5, <1>6, <1>7

\* The calls to AADE, of the submission and of the cancellation.
LEMMA CallingKeeps ==
  ASSUME RInv, NEW w \in Workers,
         \/ Sends(w) \/ SendFails(w) \/ Annuls(w) \/ AnnulFails(w) \/ Voids(w)
  PROVE  RInv'
<1>0. worker[w] # Idle /\ worker[w].pc \in {"send", "annul", "void"}
  <2>1. worker[w].pc \in {"send", "annul", "void"}
    BY DEF Sends, SendFails, Annuls, AnnulFails, Voids, At
  <2> QED
    BY <2>1 DEF Idle
<1>k. /\ worker[w] \in WorkType /\ Order(w) \in Orders /\ row[Order(w)] \in Rows
      /\ worker[w].row \in Rows
      /\ WorkerOk(w) /\ Sound(row[Order(w)]) /\ TInv
      /\ Again(w) \in SUBSET JobType
      /\ \A k \in Again(w) : k.kind \in Byhand \/ Invoiced(k.o)
  BY <1>0, AtKnows
<1>t. /\ file \in [Orders -> {"none", "plain", "marked"}]
      /\ flag \in [Orders -> BOOLEAN] /\ copies \in [Orders -> Nat]
      /\ cut \in [Orders -> Nat]
      /\ staff \in 0 .. MaxStaff /\ faults \in [FaultKinds -> Nat]
      /\ worker \in [Workers -> WorkType \cup {Idle}] /\ jobs \subseteq JobType
      /\ row \in [Orders -> Rows]
      /\ aade \in [Numbers -> {"none", "live", "void"}]
  BY <1>k DEF TInv
<1>i. /\ worker[w].job.kind \in {"submit", "cancel"} /\ Invoiced(Order(w))
      /\ Number(w) \in Numbers
  <2>1. worker[w].job.kind \in {"submit", "cancel"} /\ Invoiced(Order(w))
    BY <1>0, <1>k DEF WorkerOk, Byhand
  <2> QED
    BY <1>k, <2>1 DEF Invoiced, Number, Rows
<1>1. CASE Sends(w) \/ SendFails(w)
  <2> DEFINE n == Number(w)
             live == [aade EXCEPT ![n] = "live"]
  <2>1. /\ UNCHANGED <<row, next, file, jobs, flag, copies, cut, staff>>
        /\ worker[w].pc = "send" /\ faults' \in [FaultKinds -> Nat]
    BY <1>1, <1>k, <1>t, HappensTyped DEF Sends, SendFails, At
  <2>2. PICK a \in {"success", "duplicate", "invalid", "transport"} :
          /\ Answered(w, a)
          /\ \/ aade' = aade /\ a # "success"
             \/ aade[n] = "none" /\ aade' = live
    BY <1>1 DEF Sends, SendFails
  <2>3. worker[w].job.kind = "submit"
    BY <1>0, <1>k, <2>1 DEF WorkerOk
  <2>4. /\ worker' \in [Workers -> WorkType \cup {Idle}]
        /\ worker'[w].pc = "answer" /\ worker'[w].answer = a
        /\ worker'[w].job = worker[w].job
        /\ \A u \in Workers : u # w => worker'[u] = worker[u]
    BY <1>0, <1>k, <2>2, AnsweredWith
  <2>5. Number(w)' = n /\ Invoiced(Order(w))'
    BY <1>i, <2>1, <2>4 DEF Number, Order, Invoiced
  <2>6. aade' = live => aade'[n] = "live"
    BY <1>i, <1>t
  <2>7. WorkerOk(w)'
    BY <2>2, <2>3, <2>4, <2>5, <2>6 DEF WorkerOk
  <2>8. ~At(w, "render")'
    BY <2>4 DEF At
  <2>9. n \in Numbers
    BY <1>i
  <2>10. CASE aade' = aade
    BY <1>t, <2>1, <2>4, <2>7, <2>8, <2>10, WorksAside
  <2>11. CASE aade[n] = "none" /\ aade' = live
    <3> HIDE DEF n
    <3> QED
      BY <1>t, <2>1, <2>4, <2>7, <2>8, <2>9, <2>11, TellsAade
  <2> QED
    BY <2>2, <2>10, <2>11
\* The row the worker read has the MARK that is canceled, its own number.
<1>r. /\ worker[w].pc = "annul" =>
           /\ worker[w].job.kind = "cancel" /\ worker[w].row.mark = Number(w)
           /\ worker[w].row.mark \in Numbers
      /\ worker[w].pc = "void" =>
           worker[w].job.kind = "cancel" /\ aade[Number(w)] = "void"
  BY <1>0, <1>k, <1>i DEF WorkerOk, ReadOk, Sound, Number
<1>2. CASE Annuls(w)
  <2> DEFINE n == worker[w].row.mark
             void == [aade EXCEPT ![n] = "void"]
  <2>1. /\ UNCHANGED <<row, next, file, flag, copies, cut, staff, faults>>
        /\ worker[w].pc = "annul"
    BY <1>2 DEF Annuls, At
  <2>2. CASE aade[n] = "live" /\ aade' = void /\ Goes(w, "void") /\ UNCHANGED jobs
    <3>1. "void" \in Places
      BY DEF Places
    <3>2. /\ worker' \in [Workers -> WorkType \cup {Idle}]
          /\ worker'[w].pc = "void" /\ worker'[w].job = worker[w].job
          /\ \A u \in Workers : u # w => worker'[u] = worker[u]
      BY <1>0, <1>k, <2>2, <3>1, GoesTo
    <3>3. Number(w)' = n /\ Invoiced(Order(w))'
      BY <1>i, <1>r, <2>1, <3>2 DEF Number, Order, Invoiced
    <3>4. aade'[n] = "void"
      BY <1>r, <1>t, <2>1, <2>2
    <3>5. WorkerOk(w)' /\ ~At(w, "render")'
      BY <1>r, <2>1, <3>2, <3>3, <3>4 DEF WorkerOk, At
    <3>6. n \in Numbers
      BY <1>r, <2>1
    <3> HIDE DEF n
    <3> QED
      BY <1>t, <2>1, <2>2, <3>2, <3>5, <3>6, TellsAade
  <2>3. CASE Ends(w, {}) /\ UNCHANGED aade
    <3>1. {} \in SUBSET JobType
      OBVIOUS
    <3> QED
      BY <1>t, <2>1, <2>3, <3>1, EndsAside
  <2> QED
    BY <1>2, <2>2, <2>3 DEF Annuls
<1>3. CASE AnnulFails(w)
  <2> DEFINE n == worker[w].row.mark
             void == [aade EXCEPT ![n] = "void"]
  <2>1. /\ UNCHANGED <<row, next, file, flag, copies, cut, staff>>
        /\ worker[w].pc = "annul" /\ Ends(w, Again(w))
        /\ faults' \in [FaultKinds -> Nat]
        /\ UNCHANGED aade \/ (aade[n] = "live" /\ aade' = void)
    BY <1>3, <1>k, HappensTyped DEF AnnulFails, At, CancelUnheard
  <2>2. CASE UNCHANGED aade
    BY <1>k, <1>t, <2>1, <2>2, EndsAside
  <2>3. CASE aade[n] = "live" /\ aade' = void
    <3>1. /\ worker' \in [Workers -> WorkType \cup {Idle}] /\ worker'[w] = Idle
          /\ \A u \in Workers : u # w => worker'[u] = worker[u]
          /\ jobs' \subseteq JobType /\ jobs' = jobs \cup Again(w)
      BY <1>k, <2>1, EndsWith
    <3>2. WorkerOk(w)' /\ ~At(w, "render")'
      BY <3>1, EndIsOk
    <3>3. n \in Numbers
      BY <1>r, <2>1
    <3>4. \A k \in jobs' : k \in jobs \/ k.kind \in Byhand \/ Invoiced(k.o)
      BY <1>k, <3>1
    <3> HIDE DEF n
    <3> QED
      BY <2>1, <2>3, <3>1, <3>2, <3>3, <3>4, TellsAade
  <2> QED
    BY <2>1, <2>2, <2>3
<1>4. CASE Voids(w)
  <2> DEFINE r == [row[Order(w)] EXCEPT !.status = "CANCELED"]
  <2>1. /\ UNCHANGED <<next, aade, file, flag, copies, cut, staff, faults>>
        /\ worker[w].pc = "void" /\ Writes(Order(w), r) /\ Ends(w, {})
    BY <1>4 DEF Voids, At
  <2>2. r \in Rows /\ r.number = row[Order(w)].number /\ Sound(r)
    BY <1>k, <1>i, <1>r, <2>1 DEF Rows, Sound, Number, Invoiced
  <2> HIDE DEF r
  <2>3. {} \in SUBSET JobType
    OBVIOUS
  <2>4. /\ worker' \in [Workers -> WorkType \cup {Idle}] /\ worker'[w] = Idle
        /\ \A u \in Workers : u # w => worker'[u] = worker[u]
        /\ jobs' \subseteq JobType /\ \A k \in jobs' : k \in jobs
    BY <1>k, <2>1, <2>3, EndsWith
  <2>5. WorkerOk(w)' /\ ~At(w, "render")'
    BY <2>4, EndIsOk
  <2> QED
    BY <1>0, <2>1, <2>2, <2>4, <2>5, WritesRow
<1> QED
  BY <1>1, <1>2, <1>3, <1>4

\* The mail, and a worker that is lost.
LEMMA MailingKeeps ==
  ASSUME RInv, NEW w \in Workers,
         Delivers(w) \/ DeliveryFails(w) \/ FailsLate(w) \/ Acks(w) \/ Dies(w)
  PROVE  RInv'
<1>0. worker[w] # Idle
  BY DEF Delivers, DeliveryFails, FailsLate, Acks, Dies, At, Idle
<1>k. /\ worker[w] \in WorkType /\ Order(w) \in Orders
      /\ WorkerOk(w) /\ TInv /\ worker[w].job \in JobType
      /\ Again(w) \in SUBSET JobType
      /\ \A k \in Again(w) : k.kind \in Byhand \/ Invoiced(k.o)
  BY <1>0, AtKnows, BusyTyped
<1>t. /\ file \in [Orders -> {"none", "plain", "marked"}]
      /\ flag \in [Orders -> BOOLEAN] /\ copies \in [Orders -> Nat]
      /\ cut \in [Orders -> Nat]
      /\ staff \in 0 .. MaxStaff /\ faults \in [FaultKinds -> Nat]
      /\ worker \in [Workers -> WorkType \cup {Idle}] /\ jobs \subseteq JobType
  BY <1>k DEF TInv
<1>n. {} \in SUBSET JobType
  OBVIOUS
<1>1. CASE Delivers(w)
  <2>1. /\ UNCHANGED <<row, next, aade, file, jobs, flag, cut, staff, faults>>
        /\ worker[w].pc = "mail" /\ Goes(w, "ack")
        /\ copies' = [copies EXCEPT ![Order(w)] = copies[Order(w)] + 1]
    BY <1>1 DEF Delivers, At
  <2>2. "ack" \in Places
    BY DEF Places
  <2>3. worker'[w].pc = "ack" /\ worker'[w].job = worker[w].job
    BY <1>0, <1>k, <2>1, <2>2, GoesTo
  <2>4. WorkerOk(w)'
    BY <1>0, <1>k, <2>1, <2>3 DEF WorkerOk, Byhand, Order, Invoiced
  <2>5. copies' \in [Orders -> Nat]
    BY <1>k, <1>t, <2>1
  <2> QED
    BY <1>0, <1>t, <2>1, <2>2, <2>4, <2>5, GoesAside
<1>2. CASE DeliveryFails(w) \/ FailsLate(w)
  <2>1. /\ UNCHANGED <<row, next, aade, file, copies, staff>> /\ Raises(w)
        /\ faults' \in [FaultKinds -> Nat]
        /\ UNCHANGED cut \/ CutOff(Order(w))
    BY <1>2, <1>t, <1>k, HappensTyped DEF DeliveryFails, FailsLate
  <2>2. flag' \in [Orders -> BOOLEAN]
    <3>1. (flag[Order(w)] /\ (Again(w) # {} \/ worker[w].job.tries > 0)) \in BOOLEAN
      OBVIOUS
    <3>2. \E b \in BOOLEAN : flag' = [flag EXCEPT ![Order(w)] = b]
      BY <2>1, <3>1 DEF Raises
    <3> QED
      BY <1>t, <3>2
  <2>3. cut' \in [Orders -> Nat]
    BY <1>k, <1>t, <2>1 DEF CutOff
  <2>4. Ends(w, Again(w))
    BY <2>1 DEF Raises
  <2> QED
    BY <1>k, <1>t, <2>1, <2>2, <2>3, <2>4, EndsAside
<1>3. CASE Acks(w)
  BY <1>3, <1>t, <1>n, EndsAside DEF Acks
<1>4. CASE Dies(w)
  <2> DEFINE more == IF worker[w].job.kind \in {"byhand", "redo"} THEN {}
                     ELSE {worker[w].job}
  <2>1. /\ UNCHANGED <<row, next, aade, file, flag, copies, staff>>
        /\ Ends(w, more) /\ faults' \in [FaultKinds -> Nat]
        /\ cut' \in [Orders -> Nat]
    BY <1>4, <1>k, <1>t, HappensTyped DEF Dies, CutOff
  <2>2. /\ more \in SUBSET JobType
        /\ \A k \in more : k.kind \in Byhand \/ Invoiced(k.o)
    BY <1>0, <1>k DEF WorkerOk, Order
  <2> HIDE DEF more
  <2> QED
    BY <1>t, <2>1, <2>2, EndsAside
<1> QED
  BY <1>1, <1>2, <1>3, <1>4

LEMMA StaffKeeps ==
  ASSUME RInv, NEW o \in Orders, StaffActs(o)
  PROVE  RInv'
<1>1. /\ UNCHANGED <<row, next, aade, file, worker, flag, copies, cut, faults>>
      /\ staff < MaxStaff /\ staff' = staff + 1
  BY DEF StaffActs
<1>2. PICK kind \in {"byhand", "redo", "submit", "cancel"} :
        /\ kind \in {"redo", "submit"} => row[o].number # 0
        /\ kind = "cancel" => row[o].mark # 0
        /\ jobs' = jobs \cup {Job(kind, o, 0)}
  BY DEF StaffActs
<1>3. Job(kind, o, 0) \in JobType /\ Job(kind, o, 0).o = o
      /\ Job(kind, o, 0).kind = kind
  BY <1>2, InvoicingConstants DEF Job, JobType, Kinds
<1>4. Sound(row[o]) /\ row[o] \in Rows
  BY DEF RInv, TInv
<1>5. kind # "byhand" => Invoiced(o)
  BY <1>2, <1>4 DEF Sound, Rows, Invoiced
<1>6. TInv'
  BY <1>1, <1>2, <1>3, InvoicingConstants DEF RInv, TInv
<1>7. JobsOk'
  BY <1>1, <1>2, <1>3, <1>5 DEF RInv, JobsOk, Invoiced, Byhand
<1>8. NoGaps' /\ OneRenders'
  BY <1>1 DEF RInv, NoGaps, OneRenders, At
<1>9. \A q \in Orders : Sound(row[q])'
  BY <1>1 DEF RInv, Sound
<1>10. \A w \in Workers : WorkerOk(w)'
  BY <1>1, SMTT(30) DEF RInv, WorkerOk, ReadOk, Sound, Order, Number, Invoiced
<1> QED
  BY <1>6, <1>7, <1>8, <1>9, <1>10 DEF RInv

LEMMA RegisterStarts == Init => RInv
<1> SUFFICES ASSUME Init PROVE RInv
  OBVIOUS
<1>1. /\ row = [o \in Orders |-> NoRow] /\ next = 1
      /\ aade = [n \in Numbers |-> "none"] /\ file = [o \in Orders |-> "none"]
      /\ jobs = {Job("generate", o, 0) : o \in Orders}
      /\ worker = [w \in Workers |-> Idle]
      /\ flag = [o \in Orders |-> FALSE] /\ copies = [o \in Orders |-> 0]
      /\ cut = [o \in Orders |-> 0]
      /\ staff = 0 /\ faults = [k \in FaultKinds |-> 0]
  BY DEF Init
<1>2. Cardinality(Orders) \in Nat
  BY InvoicingConstants, FS_CardinalityType
<1>3. NoRow \in Rows /\ NoRow.number = 0
  BY DEF NoRow, Rows
<1>4. \A j \in jobs : j \in JobType /\ j.kind = "generate"
  BY <1>1, InvoicingConstants DEF Job, JobType, Kinds
<1>5. TInv
  <2>1. worker \in [Workers -> WorkType \cup {Idle}]
    BY <1>1
  <2>2. row \in [Orders -> Rows] /\ aade \in [Numbers -> {"none", "live", "void"}]
        /\ file \in [Orders -> {"none", "plain", "marked"}]
        /\ flag \in [Orders -> BOOLEAN] /\ copies \in [Orders -> Nat]
    BY <1>1, <1>3
  <2> QED
    BY <1>1, <1>2, <1>4, <2>1, <2>2, InvoicingConstants DEF TInv
<1>6. NoGaps
  <2>1. {o \in Orders : row[o].number # 0} = {}
    BY <1>1, <1>3
  <2>2. 1 .. next - 1 = {}
    BY <1>1
  <2>3. IsInjective(Restrict([o \in Orders |-> row[o].number], {}))
    BY DEF IsInjective, Restrict
  <2> QED
    BY <2>1, <2>2, <2>3 DEF NoGaps
<1>7. \A o \in Orders : Sound(row[o])
  BY <1>1 DEF NoRow, Sound
<1>8. (\A w \in Workers : WorkerOk(w)) /\ OneRenders
  BY <1>1 DEF WorkerOk, OneRenders, At, Idle
<1>9. JobsOk
  BY <1>4 DEF JobsOk, Byhand
<1> QED
  BY <1>5, <1>6, <1>7, <1>8, <1>9 DEF RInv

LEMMA RegisterKeeps ==
  ASSUME RInv, [Next]_vars
  PROVE  RInv'
<1>1. ASSUME NEW w \in Workers, Works(w) \/ Fails(w)
      PROVE  RInv'
  <2>1. CASE Takes(w)
    BY <2>1, TakingKeeps DEF Takes
  <2>2. CASE \/ Allocates(w) \/ Renders(w) \/ RenderFails(w) \/ Forces(w)
             \/ Rewrites(w) \/ Rerenders(w) \/ RerenderFails(w)
    BY <2>2, GeneratingKeeps
  <2>3. CASE \/ Intends(w) \/ Refuses(w) \/ Confirms(w) \/ Rejects(w)
             \/ Resubmits(w) \/ Recovers(w) \/ RecoveryFails(w)
    BY <2>3, SubmittingKeeps
  <2>4. CASE \/ Sends(w) \/ SendFails(w) \/ Annuls(w) \/ AnnulFails(w) \/ Voids(w)
    BY <2>4, CallingKeeps
  <2>5. CASE Delivers(w) \/ DeliveryFails(w) \/ FailsLate(w) \/ Acks(w) \/ Dies(w)
    BY <2>5, MailingKeeps
  <2> QED
    BY <1>1, <2>1, <2>2, <2>3, <2>4, <2>5 DEF Works, Fails
<1>2. ASSUME NEW o \in Orders, StaffActs(o)
      PROVE  RInv'
  BY <1>2, StaffKeeps
<1>3. CASE UNCHANGED vars
  BY <1>3, SMTT(30) DEF vars, RInv, TInv, NoGaps, Sound, WorkerOk, ReadOk, JobsOk,
              OneRenders, At, Order, Number, Invoiced
<1> QED
  BY <1>1, <1>2, <1>3 DEF Next

LEMMA RegisterHolds == Spec => []RInv
<1>1. RInv /\ [Next]_vars => RInv'
  BY RegisterKeeps
<1> QED
  BY <1>1, RegisterStarts, PTL DEF Spec

(* Whatever workers race for the counter, fail or die, and whatever staff  *)
(* start by hand, the register is numbered without gaps, every MARK is     *)
(* the invoice's own and no invoice is canceled here that is not at AADE.  *)
THEOREM RegisterStaysSound == Spec => []RegisterIsSound
<1>1. RInv => RegisterIsSound
  <2> SUFFICES ASSUME RInv PROVE RegisterIsSound
    OBVIOUS
  <2>1. InvoicingTypeOK /\ NoGaps
    BY Shape DEF RInv
  <2>2. MarkIsOwn
    BY DEF RInv, Sound, MarkIsOwn
  <2> QED
    BY <2>1, <2>2 DEF RegisterIsSound
<1> QED
  BY <1>1, RegisterHolds, PTL

-----------------------------------------------------------------------------
(* The mail.  A repeat is an attempt that does not look at the flag.       *)
Repeat(j, o) == j.kind = "mail" /\ j.o = o /\ j.tries > 0
Mails(w, o) == worker[w].pc \in {"mail", "ack"} /\ Order(w) = o

\* Every copy but those of attempts that were cut off has gone.
Settled(o) == copies[o] <= cut[o]

\* One worker or one repeat may still send, under the flag and before the copy.
MailOk(o) ==
  /\ \A j, k \in jobs : (Repeat(j, o) /\ Repeat(k, o)) => j = k
  /\ \A u, w \in Workers : (Mails(u, o) /\ Mails(w, o)) => u = w
  /\ \A j \in jobs, w \in Workers : ~(Repeat(j, o) /\ Mails(w, o))
  /\ \A j \in jobs : Repeat(j, o) => flag[o] /\ Settled(o)
  /\ \A w \in Workers : Mails(w, o) => flag[o] /\ (Settled(o) \/ At(w, "ack"))
  /\ copies[o] <= 1 + cut[o] /\ (flag[o] \/ Settled(o))

MInv == \A o \in Orders : MailOk(o)

\* An order for whose mail a step starts nothing.
LEMMA MailSame ==
  ASSUME NEW o \in Orders, MailOk(o),
         flag'[o] = flag[o], copies'[o] = copies[o], cut'[o] = cut[o],
         \A j \in jobs' : Repeat(j, o) => j \in jobs,
         \A u \in Workers : Mails(u, o)' => worker'[u] = worker[u]
  PROVE  MailOk(o)'
<1>1. \A u \in Workers : Mails(u, o)' => Mails(u, o) /\ (At(u, "ack") => At(u, "ack")')
  BY DEF Mails, Order, At
<1>2. Settled(o)' <=> Settled(o)
  BY DEF Settled
<1> QED
  BY <1>1, <1>2 DEF MailOk, Repeat

\* A step of worker w that is not at the mail and leaves no repeat.
Quiet == \A k \in jobs' : k \in jobs \/ k.kind # "mail" \/ k.tries = 0

LEMMA Quietly ==
  ASSUME MInv, NEW w \in Workers,
         flag' = flag, copies' = copies, cut' = cut,
         \A u \in Workers : u # w => worker'[u] = worker[u],
         worker'[w] = worker[w] \/ worker'[w].pc \notin {"mail", "ack"},
         Quiet
  PROVE  MInv'
<1> SUFFICES ASSUME NEW o \in Orders PROVE MailOk(o)'
  BY DEF MInv
<1>1. \A j \in jobs' : Repeat(j, o) => j \in jobs
  <2> SUFFICES ASSUME NEW j \in jobs', Repeat(j, o), j \notin jobs PROVE FALSE
    OBVIOUS
  <2>1. j.kind # "mail" \/ j.tries = 0
    BY DEF Quiet
  <2> QED
    BY <2>1 DEF Repeat
<1>2. \A u \in Workers : Mails(u, o)' => worker'[u] = worker[u]
  BY DEF Mails
<1> QED
  BY <1>1, <1>2, MailSame DEF MInv

\* A worker that is not at the mail has a task of another kind.
LEMMA NotMailing ==
  ASSUME RInv, NEW w \in Workers, worker[w] # Idle,
         worker[w].pc \notin {"mail", "ack"}
  PROVE  worker[w].job.kind # "mail"
<1>1. WorkerOk(w) /\ worker[w].pc \in Places
  BY BusyTyped DEF RInv, WorkType, Places
<1> QED
  BY <1>1 DEF WorkerOk, Byhand, Places

\* Its steps: it goes on,
LEMMA GoesQuietly ==
  ASSUME RInv, MInv, NEW w \in Workers, worker[w] # Idle,
         NEW p \in Places \ {"mail", "ack"}, Goes(w, p), UNCHANGED jobs,
         UNCHANGED <<flag, copies, cut>>
  PROVE  MInv'
<1>1. /\ worker'[w].pc = p /\ \A u \in Workers : u # w => worker'[u] = worker[u]
  BY GoesTo DEF RInv
<1>2. Quiet
  BY DEF Quiet
<1> QED
  BY <1>1, <1>2, Quietly

\* or ends, with a task for what comes next or for another attempt.
LEMMA EndsQuietly ==
  ASSUME RInv, MInv, NEW w \in Workers, worker[w] # Idle,
         worker[w].pc \notin {"mail", "ack"},
         NEW more \in {{}, Again(w), {Mail(Order(w))}, Chained(worker[w].job)},
         Ends(w, more), UNCHANGED <<flag, copies, cut>>
  PROVE  MInv'
<1>1. TInv /\ worker[w].job \in JobType /\ Order(w) \in Orders
  BY BusyTyped DEF RInv
<1>2. /\ more \in SUBSET JobType
      /\ \A k \in more : k.kind # "mail" \/ k.tries = 0
  <2>1. worker[w].job.kind # "mail"
    BY NotMailing
  <2>2. CASE more = {}
    BY <2>2
  <2>3. CASE more = Again(w)
    BY <1>1, <2>1, <2>3, TriedAgain
  <2>4. CASE more = {Mail(Order(w))}
    BY <1>1, <2>4, MailTyped
  <2>5. CASE more = Chained(worker[w].job)
    BY <1>1, <2>5, InvoicingConstants DEF Chained, Job, JobType, Kinds
  <2> QED
    BY <2>2, <2>3, <2>4, <2>5
<1>3. /\ worker'[w] = Idle /\ jobs' = jobs \cup more
      /\ \A u \in Workers : u # w => worker'[u] = worker[u]
  BY <1>1, <1>2, EndsWith
<1>4. worker'[w].pc \notin {"mail", "ack"}
  BY <1>3 DEF Idle
<1>5. Quiet
  BY <1>2, <1>3 DEF Quiet
<1> QED
  BY <1>3, <1>4, <1>5, Quietly

LEMMA TakingMails ==
  ASSUME RInv, MInv, NEW w \in Workers, NEW j \in jobs,
         Looks(w, j) \/ Redoes(w, j) \/ Submits(w, j) \/ Cancels(w, j)
  PROVE  MInv'
<1>1. TInv /\ UNCHANGED <<flag, copies, cut>>
  BY DEF RInv, Looks, Redoes, Submits, Cancels
<1>2. ASSUME NEW p \in {"allocate", "force", "intend", "annul", "rewrite"},
             Begins(w, j, p)
      PROVE  MInv'
  <2>1. p \in Places /\ p \notin {"mail", "ack"}
    BY DEF Places
  <2>2. /\ worker'[w].pc = p /\ jobs' = jobs \ {j}
        /\ \A u \in Workers : u # w => worker'[u] = worker[u]
    BY <1>1, <1>2, <2>1, BeginsAt
  <2>3. Quiet
    BY <2>2 DEF Quiet
  <2> QED
    BY <1>1, <2>1, <2>2, <2>3, Quietly
<1>3. CASE jobs' = (jobs \ {j}) \cup Chained(j) /\ UNCHANGED worker
  <2>1. \A k \in Chained(j) : k.kind # "mail" \/ k.tries = 0
    BY DEF Chained, Job
  <2>2. Quiet
    BY <1>3, <2>1 DEF Quiet
  <2> QED
    BY <1>1, <1>3, <2>1, <2>2, Quietly
<1>4. \/ \E p \in {"allocate", "force", "intend", "annul", "rewrite"} : Begins(w, j, p)
      \/ jobs' = (jobs \ {j}) \cup Chained(j) /\ UNCHANGED worker
  BY SMTT(30) DEF Looks, Redoes, Submits, Cancels
<1> QED
  BY <1>2, <1>3, <1>4

LEMMA GeneratingMails ==
  ASSUME RInv, MInv, NEW w \in Workers,
         \/ Allocates(w) \/ Renders(w) \/ RenderFails(w) \/ Forces(w)
         \/ Rewrites(w) \/ Rerenders(w) \/ RerenderFails(w)
  PROVE  MInv'
<1>0. /\ worker[w] # Idle /\ worker[w].pc \notin {"mail", "ack"}
      /\ UNCHANGED <<flag, copies, cut>>
  <2>1. worker[w].pc \in {"allocate", "render", "force", "rewrite", "rerender"}
    BY DEF Allocates, Renders, RenderFails, Forces, Rewrites, Rerenders,
           RerenderFails, At
  <2>2. UNCHANGED <<flag, copies, cut>>
    BY DEF Allocates, Renders, RenderFails, Forces, Rewrites, Rerenders,
           RerenderFails
  <2> QED
    BY <2>1, <2>2 DEF Idle
<1>1. CASE \E p \in {"render", "rerender"} : Goes(w, p) /\ UNCHANGED jobs
  BY <1>0, <1>1, GoesQuietly DEF Places
<1>2. CASE \E more \in {{}, Again(w), {Mail(Order(w))}, Chained(worker[w].job)} :
             Ends(w, more)
  BY <1>0, <1>2, EndsQuietly
<1>3. CASE Allocates(w) \/ Renders(w) \/ RenderFails(w) \/ Rewrites(w)
  BY <1>1, <1>2, <1>3 DEF Allocates, Renders, RenderFails, Rewrites
<1>4. CASE Rerenders(w) \/ RerenderFails(w)
  BY <1>2, <1>4 DEF Rerenders, RerenderFails, MailDue
<1>5. CASE Forces(w)
  <2>1. TInv /\ worker[w] \in WorkType
    BY <1>0, BusyTyped DEF RInv
  <2>2. /\ worker'[w].pc = "rewrite" /\ Quiet
        /\ \A u \in Workers : u # w => worker'[u] = worker[u]
    BY <1>5, <2>1 DEF Forces, ReadsForce, TInv, WorkType, Quiet
  <2> QED
    BY <1>0, <2>2, Quietly
<1> QED
  BY <1>3, <1>4, <1>5

LEMMA SubmittingMails ==
  ASSUME RInv, MInv, NEW w \in Workers,
         \/ Intends(w) \/ Refuses(w) \/ Confirms(w) \/ Rejects(w)
         \/ Resubmits(w) \/ Recovers(w) \/ RecoveryFails(w)
         \/ Sends(w) \/ SendFails(w) \/ Annuls(w) \/ AnnulFails(w) \/ Voids(w)
  PROVE  MInv'
<1>0. /\ worker[w] # Idle /\ worker[w].pc \notin {"mail", "ack"}
      /\ UNCHANGED <<flag, copies, cut>>
  <2>1. worker[w].pc \in {"intend", "send", "answer", "recover", "annul", "void"}
    BY DEF Intends, Refuses, Confirms, Rejects, Resubmits, Recovers, RecoveryFails,
           Sends, SendFails, Annuls, AnnulFails, Voids, At
  <2>2. UNCHANGED <<flag, copies, cut>>
    BY DEF Intends, Refuses, Confirms, Rejects, Resubmits, Recovers, RecoveryFails,
           Sends, SendFails, Annuls, AnnulFails, Voids
  <2> QED
    BY <2>1, <2>2 DEF Idle
<1>1. CASE \E p \in {"send", "force", "recover", "void"} : Goes(w, p) /\ UNCHANGED jobs
  BY <1>0, <1>1, GoesQuietly DEF Places
<1>2. CASE \E more \in {{}, Again(w), {Mail(Order(w))}} : Ends(w, more)
  BY <1>0, <1>2, EndsQuietly
<1>3. CASE \E a \in {"success", "duplicate", "invalid", "transport"} :
             Answered(w, a) /\ UNCHANGED jobs
  <2>1. /\ worker'[w].pc = "answer" /\ Quiet
        /\ \A u \in Workers : u # w => worker'[u] = worker[u]
    BY <1>0, <1>3, AnsweredWith DEF RInv, Quiet
  <2> QED
    BY <1>0, <2>1, Quietly
<1> QED
  <2>1. CASE Intends(w) \/ Confirms(w) \/ Recovers(w)
    BY <1>1, <2>1 DEF Intends, Confirms, Recovers
  <2>2. CASE \/ Refuses(w) \/ Resubmits(w) \/ RecoveryFails(w)
             \/ AnnulFails(w) \/ Voids(w)
    BY <1>2, <2>2 DEF Refuses, Resubmits, RecoveryFails, AnnulFails,
                      CancelUnheard, Voids
  <2>3. CASE Rejects(w) \/ Annuls(w)
    BY <1>1, <1>2, <2>3 DEF Rejects, Annuls
  <2>4. CASE Sends(w) \/ SendFails(w)
    BY <1>3, <2>4 DEF Sends, SendFails
  <2> QED
    BY <2>1, <2>2, <2>3, <2>4

LEMMA ReservingMails ==
  ASSUME RInv, MInv, NEW w \in Workers, NEW j \in jobs, Reserves(w, j)
  PROVE  MInv'
<1>0. /\ worker[w] = Idle /\ j.o \in Orders /\ j.kind = "mail" /\ j.tries \in Nat
      /\ flag \in [Orders -> BOOLEAN] /\ TInv
  BY InvoicingConstants DEF RInv, TInv, JobType, Reserves, Taken
<1>1. UNCHANGED <<copies, cut>>
  BY DEF Reserves
<1>2. CASE j.tries = 0 /\ flag[j.o]
  <2>1. Quiet /\ UNCHANGED <<worker, flag>>
    BY <1>2 DEF Reserves, Quiet
  <2> QED
    BY <1>1, <2>1, Quietly
<1>3. CASE ~(j.tries = 0 /\ flag[j.o])
  <2>1. Begins(w, j, "mail") /\ flag' = [flag EXCEPT ![j.o] = TRUE]
    BY <1>3 DEF Reserves
  <2>2. "mail" \in Places
    BY DEF Places
  <2>3. /\ worker'[w].pc = "mail" /\ worker'[w].job = j /\ jobs' = jobs \ {j}
        /\ \A u \in Workers : u # w => worker'[u] = worker[u]
    BY <1>0, <2>1, <2>2, BeginsAt
  <2>4. ASSUME NEW o \in Orders, o # j.o
        PROVE  MailOk(o)'
    <3>1. \A u \in Workers : Mails(u, o)' => worker'[u] = worker[u]
      BY <2>3, <2>4 DEF Mails, Order
    <3>2. flag'[o] = flag[o]
      BY <1>0, <2>1, <2>4
    <3> QED
      BY <1>1, <2>3, <3>1, <3>2, MailSame DEF MInv
  \* Nobody else may send: the flag was down, or this is the repeat.
  <2>5. ASSUME NEW o \in Orders, o = j.o
        PROVE  MailOk(o)'
    <3>1. MailOk(o) /\ flag'[o]
      BY <1>0, <2>1, <2>5 DEF MInv
    <3>2. /\ Settled(o)
          /\ \A u \in Workers : ~Mails(u, o)
          /\ \A k \in jobs : Repeat(k, o) => k = j
      <4>1. CASE j.tries = 0
        BY <1>3, <2>5, <3>1, <4>1 DEF MailOk
      <4>2. CASE j.tries # 0
        <5>1. Repeat(j, o)
          BY <1>0, <2>5, <4>2 DEF Repeat
        <5> QED
          BY <3>1, <5>1 DEF MailOk
      <4> QED
        BY <4>1, <4>2
    <3>3. \A u \in Workers : Mails(u, o)' => u = w
      BY <2>3, <3>2 DEF Mails, Order
    <3>4. \A k \in jobs' : ~Repeat(k, o)
      BY <2>3, <3>2
    <3>5. Settled(o)' /\ copies'[o] <= 1 + cut'[o]
      BY <1>1, <3>1, <3>2 DEF Settled, MailOk
    <3> QED
      BY <3>1, <3>3, <3>4, <3>5 DEF MailOk, Repeat
  <2> QED
    BY <2>4, <2>5 DEF MInv
<1> QED
  BY <1>2, <1>3

\* A worker at the mail, that is alone with its order's.
LEMMA AtMail ==
  ASSUME RInv, MInv, NEW w \in Workers, worker[w] # Idle,
         worker[w].pc \in {"mail", "ack"}, NEW o, o = Order(w)
  PROVE  /\ o \in Orders /\ TInv /\ worker[w].job.kind = "mail"
         /\ worker[w].job \in JobType /\ worker[w].job.o = o
         /\ worker[w].job.tries \in Nat
         /\ flag[o] = TRUE /\ copies[o] \in Nat /\ cut[o] \in Nat
         /\ copies[o] <= 1 + cut[o] /\ (At(w, "mail") => Settled(o))
         /\ \A u \in Workers : Mails(u, o) => u = w
         /\ \A k \in jobs : ~Repeat(k, o)
<1>1. /\ o \in Orders /\ TInv /\ worker[w].job \in JobType /\ WorkerOk(w)
  BY AtKnows, BusyTyped
<1>2. MailOk(o) /\ Mails(w, o)
  BY <1>1 DEF MInv, Mails
<1>3. worker[w].job.tries \in Nat /\ worker[w].job.kind = "mail"
  BY <1>1, InvoicingConstants DEF JobType, WorkerOk
<1> QED
  BY <1>1, <1>2, <1>3 DEF MailOk, TInv, At, Order

\* It leaves the mail with a repeat at most, and then every copy that is not
\* counted as cut off is still to come.
LEMMA LeavingMails ==
  ASSUME RInv, MInv, NEW w \in Workers, worker[w] # Idle,
         worker[w].pc \in {"mail", "ack"}, NEW o, o = Order(w),
         NEW more \in SUBSET JobType, Ends(w, more),
         \A k \in more : k.o = o /\ \A l \in more : l = k,
         \A p \in Orders : p # o => /\ flag'[p] = flag[p] /\ cut'[p] = cut[p],
         UNCHANGED copies, flag'[o] \in BOOLEAN, cut'[o] \in Nat,
         cut[o] <= cut'[o],
         \A k \in more : Repeat(k, o) => flag'[o] = TRUE /\ Settled(o)',
         flag'[o] = TRUE \/ Settled(o)'
  PROVE  MInv'
<1>1. /\ o \in Orders /\ TInv /\ copies[o] \in Nat /\ cut[o] \in Nat
      /\ copies[o] <= 1 + cut[o]
      /\ \A u \in Workers : Mails(u, o) => u = w
      /\ \A k \in jobs : ~Repeat(k, o)
  BY AtMail
<1>2. /\ worker'[w] = Idle /\ jobs' = jobs \cup more
      /\ \A u \in Workers : u # w => worker'[u] = worker[u]
  BY <1>1, EndsWith
<1>3. \A u \in Workers, p \in Orders : Mails(u, p)' => Mails(u, p) /\ u # w
  BY <1>2 DEF Mails, Order, Idle
<1>4. ASSUME NEW p \in Orders, p # o
      PROVE  MailOk(p)'
  <2>1. \A k \in jobs' : Repeat(k, p) => k \in jobs
    BY <1>2, <1>4 DEF Repeat
  <2>2. \A u \in Workers : Mails(u, p)' => worker'[u] = worker[u]
    BY <1>2, <1>3
  <2> QED
    BY <1>4, <2>1, <2>2, MailSame DEF MInv
<1>5. MailOk(o)'
  <2>1. \A u \in Workers : ~Mails(u, o)'
    BY <1>1, <1>3
  <2>2. \A k \in jobs' : Repeat(k, o) => k \in more
    BY <1>1, <1>2
  <2>3. copies'[o] <= 1 + cut'[o]
    BY <1>1
  <2> QED
    BY <2>1, <2>2, <2>3 DEF MailOk, Repeat
<1> QED
  BY <1>4, <1>5 DEF MInv

LEMMA SendingMails ==
  ASSUME RInv, MInv, NEW w \in Workers, NEW o, o = Order(w),
         Delivers(w) \/ DeliveryFails(w) \/ FailsLate(w) \/ Acks(w)
  PROVE  MInv'
<1>0. worker[w] # Idle /\ worker[w].pc \in {"mail", "ack"}
  BY DEF Delivers, DeliveryFails, FailsLate, Acks, At, Idle
<1>1. /\ o \in Orders /\ TInv /\ worker[w].job.kind = "mail"
      /\ worker[w].job \in JobType /\ worker[w].job.o = o
      /\ worker[w].job.tries \in Nat
      /\ flag[o] = TRUE /\ copies[o] \in Nat /\ cut[o] \in Nat
      /\ copies[o] <= 1 + cut[o] /\ (At(w, "mail") => Settled(o))
      /\ \A u \in Workers : Mails(u, o) => u = w
      /\ \A k \in jobs : ~Repeat(k, o)
  BY <1>0, AtMail
<1>t. /\ flag \in [Orders -> BOOLEAN] /\ copies \in [Orders -> Nat]
      /\ cut \in [Orders -> Nat]
  BY <1>1 DEF TInv
<1>2. CASE Delivers(w)
  <2>1. /\ UNCHANGED <<jobs, flag, cut>> /\ Goes(w, "ack") /\ At(w, "mail")
        /\ copies' = [copies EXCEPT ![o] = copies[o] + 1]
    BY <1>2 DEF Delivers
  <2>2. "ack" \in Places
    BY DEF Places
  <2>3. /\ worker'[w].pc = "ack" /\ worker'[w].job = worker[w].job
        /\ \A u \in Workers : u # w => worker'[u] = worker[u]
    BY <1>0, <1>1, <2>1, <2>2, GoesTo
  <2>4. ASSUME NEW p \in Orders, p # o
        PROVE  MailOk(p)'
    <3>1. copies'[p] = copies[p]
      BY <1>t, <2>1, <2>4
    <3>2. \A u \in Workers : Mails(u, p)' => worker'[u] = worker[u]
      BY <1>1, <2>3, <2>4 DEF Mails, Order
    <3> QED
      BY <2>1, <2>4, <3>1, <3>2, MailSame DEF MInv
  <2>5. MailOk(o)'
    <3>1. copies'[o] = copies[o] + 1 /\ copies[o] <= cut[o]
      BY <1>1, <1>t, <2>1 DEF Settled
    <3>2. \A u \in Workers : Mails(u, o)' => u = w
      BY <1>1, <2>3 DEF Mails, Order
    <3>3. copies'[o] <= 1 + cut'[o] /\ flag'[o]
      BY <1>1, <2>1, <3>1
    <3> QED
      BY <1>1, <2>1, <2>3, <3>2, <3>3 DEF MailOk, Repeat, At
  <2> QED
    BY <2>4, <2>5 DEF MInv
<1>3. CASE DeliveryFails(w) \/ FailsLate(w)
  <2>1. /\ Ends(w, Again(w)) /\ UNCHANGED copies
        /\ flag' = [flag EXCEPT ![o] =
                      flag[o] /\ (Again(w) # {} \/ worker[w].job.tries > 0)]
        /\ \/ At(w, "mail") /\ UNCHANGED cut
           \/ cut' = [cut EXCEPT ![o] = cut[o] + 1]
    BY <1>3 DEF DeliveryFails, FailsLate, Raises, CutOff
  <2>2. Again(w) \in SUBSET JobType /\ \A k \in Again(w) : k.o = o /\ \A l \in Again(w) : l = k
    BY <1>0, <1>1, AtKnows, TriedAgain
  <2>3. cut'[o] \in Nat /\ cut[o] <= cut'[o] /\ Settled(o)'
    BY <1>1, <1>t, <2>1 DEF Settled
  <2>4. \A p \in Orders : p # o => flag'[p] = flag[p] /\ cut'[p] = cut[p]
    BY <1>1, <1>t, <2>1
  <2>5. flag'[o] \in BOOLEAN /\ (Again(w) # {} => flag'[o] = TRUE)
    BY <1>1, <1>t, <2>1
  <2> QED
    BY <1>0, <2>1, <2>2, <2>3, <2>4, <2>5, LeavingMails
<1>4. CASE Acks(w)
  <2> DEFINE none == {}
  <2>1. Ends(w, none) /\ UNCHANGED <<flag, copies, cut>>
    BY <1>4 DEF Acks
  <2>2. /\ flag'[o] = TRUE /\ cut'[o] = cut[o] /\ copies' = copies
        /\ \A p \in Orders : p # o => flag'[p] = flag[p] /\ cut'[p] = cut[p]
    BY <1>1, <2>1
  <2>3. /\ none \in SUBSET JobType
        /\ \A k \in none : k.o = o /\ \A l \in none : l = k
        /\ \A k \in none : Repeat(k, o) => flag'[o] = TRUE /\ Settled(o)'
    OBVIOUS
  <2>4. cut'[o] \in Nat /\ cut[o] <= cut'[o]
    BY <1>1, <2>2
  <2>5. flag'[o] \in BOOLEAN
    BY <2>2
  <2> HIDE DEF none
  <2> QED
    BY <1>0, <1>1, <2>1, <2>2, <2>3, <2>4, <2>5, LeavingMails
<1> QED
  BY <1>2, <1>3, <1>4

\* A worker that is lost leaves its task: a first attempt then finds the flag, a
\* repeat counts as cut off where its copy had gone.
LEMMA DyingMails ==
  ASSUME RInv, MInv, NEW w \in Workers, NEW o, o = Order(w), Dies(w)
  PROVE  MInv'
<1> DEFINE more == IF worker[w].job.kind \in {"byhand", "redo"} THEN {}
                   ELSE {worker[w].job}
<1>0. worker[w] # Idle /\ Ends(w, more) /\ UNCHANGED <<flag, copies>>
  BY DEF Dies
<1>1. TInv /\ worker[w].job \in JobType /\ more \in SUBSET JobType
  BY <1>0, BusyTyped DEF RInv
<1>2. CASE worker[w].pc \notin {"mail", "ack"}
  <2>1. worker[w].job.kind # "mail" /\ UNCHANGED cut
    BY <1>0, <1>2, NotMailing DEF Dies, At
  <2>2. /\ worker'[w] = Idle /\ jobs' = jobs \cup more
        /\ \A u \in Workers : u # w => worker'[u] = worker[u]
    BY <1>0, <1>1, EndsWith
  <2>3. worker'[w].pc \notin {"mail", "ack"}
    BY <2>2 DEF Idle
  <2>4. Quiet
    BY <2>1, <2>2 DEF Quiet
  <2> HIDE DEF more
  <2> QED
    BY <1>0, <2>1, <2>2, <2>3, <2>4, Quietly
<1>3. CASE worker[w].pc \in {"mail", "ack"}
  <2>1. /\ o \in Orders /\ worker[w].job.kind = "mail" /\ worker[w].job.o = o
        /\ worker[w].job.tries \in Nat
        /\ flag[o] = TRUE /\ copies[o] \in Nat /\ cut[o] \in Nat
        /\ copies[o] <= 1 + cut[o] /\ (At(w, "mail") => Settled(o))
        /\ cut \in [Orders -> Nat]
    BY <1>0, <1>3, AtMail DEF TInv
  <2>2. IF At(w, "ack") /\ worker[w].job.tries > 0
          THEN cut' = [cut EXCEPT ![o] = cut[o] + 1] ELSE UNCHANGED cut
    BY DEF Dies, CutOff
  <2>3. /\ cut'[o] \in Nat /\ cut[o] <= cut'[o]
        /\ \A p \in Orders : p # o => cut'[p] = cut[p]
    BY <2>1, <2>2
  <2>4. worker[w].job.tries > 0 => Settled(o)'
    BY <1>0, <1>3, <2>1, <2>2 DEF Settled, At
  <2>5. \A k \in more : /\ k.o = o /\ \A l \in more : l = k
                        /\ Repeat(k, o) => Settled(o)'
    BY <2>1, <2>4 DEF Repeat
  <2>6. /\ flag'[o] = TRUE /\ copies' = copies
        /\ \A p \in Orders : p # o => flag'[p] = flag[p]
    BY <1>0, <2>1
  <2> HIDE DEF more
  <2> QED
    BY <1>0, <1>1, <1>3, <2>1, <2>3, <2>5, <2>6, LeavingMails
<1> QED
  BY <1>2, <1>3

LEMMA StaffMails ==
  ASSUME RInv, MInv, NEW o \in Orders, StaffActs(o)
  PROVE  MInv'
<1>1. UNCHANGED <<worker, flag, copies, cut>>
  BY DEF StaffActs
<1>2. \A k \in jobs' : k \in jobs \/ k.kind # "mail"
  BY DEF StaffActs, Job
<1> SUFFICES ASSUME NEW p \in Orders PROVE MailOk(p)'
  BY DEF MInv
<1> QED
  BY <1>1, <1>2, MailSame DEF MInv, Repeat

LEMMA MailStarts == Init => MInv
<1> SUFFICES ASSUME Init PROVE MInv
  OBVIOUS
<1>1. /\ \A o \in Orders : copies[o] = 0 /\ cut[o] = 0
      /\ \A w \in Workers : worker[w] = Idle
      /\ \A j \in jobs : j.kind = "generate"
  BY DEF Init, Job
<1> QED
  BY <1>1 DEF MInv, MailOk, Settled, Repeat, Mails, Idle

LEMMA MailKeeps ==
  ASSUME RInv, MInv, [Next]_vars
  PROVE  MInv'
<1>1. ASSUME NEW w \in Workers, Works(w) \/ Fails(w)
      PROVE  MInv'
  <2>1. CASE Takes(w)
    BY <2>1, TakingMails, ReservingMails DEF Takes
  <2>2. CASE \/ Allocates(w) \/ Renders(w) \/ RenderFails(w) \/ Forces(w)
             \/ Rewrites(w) \/ Rerenders(w) \/ RerenderFails(w)
    BY <2>2, GeneratingMails
  <2>3. CASE \/ Intends(w) \/ Refuses(w) \/ Confirms(w) \/ Rejects(w)
             \/ Resubmits(w) \/ Recovers(w) \/ RecoveryFails(w)
             \/ Sends(w) \/ SendFails(w) \/ Annuls(w) \/ AnnulFails(w) \/ Voids(w)
    BY <2>3, SubmittingMails
  <2>4. CASE Delivers(w) \/ DeliveryFails(w) \/ FailsLate(w) \/ Acks(w) \/ Dies(w)
    BY <2>4, SendingMails, DyingMails
  <2> QED
    BY <1>1, <2>1, <2>2, <2>3, <2>4 DEF Works, Fails
<1>2. ASSUME NEW o \in Orders, StaffActs(o)
      PROVE  MInv'
  BY <1>2, StaffMails
<1>3. CASE UNCHANGED vars
  BY <1>3, MailSame DEF vars, MInv
<1> QED
  BY <1>1, <1>2, <1>3 DEF Next

(* One copy of an invoice leaves, however often the chain is started,      *)
(* whatever fails before it and whatever staff do; any further copy is     *)
(* paid for by an attempt that was cut off after its copy had gone.        *)
THEOREM MailedAtMostOnce == Spec => []MailedOnce
<1>1. RInv /\ MInv /\ [Next]_vars => MInv'
  BY MailKeeps
<1>2. MInv => MailedOnce
  BY DEF MInv, MailOk, MailedOnce
<1> QED
  BY <1>1, <1>2, RegisterHolds, MailStarts, PTL DEF Spec
===============================================================================
