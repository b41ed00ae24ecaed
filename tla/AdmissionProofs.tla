--------------------------- MODULE AdmissionProofs ---------------------------
(* Theorems about Admission, for every number of users, processes and handlers
   and every batch size. *)
EXTENDS Admission, TLAPS

LEMMA InitInv == Init => IInv
BY DEF Init, IInv, TypeOK, StampsInOrder, BatchesInOrder, MarksGiven, AdmittedInOrder,
       TokenBeforeMark, Requests, Serving, Statuses

(* A preregistration begins, commits or fails. *)
LEMMA RegistryInv ==
    ASSUME IInv, NEW u \in Users, Register(u) \/ Registered(u) \/ RegisterFails(u)
    PROVE  IInv'
<1> USE DEF IInv, TypeOK, sale, workers
<1>1. CASE Register(u)
  <2>1. TypeOK'
    BY <1>1 DEF Register
  <2>2. StampsInOrder'
    BY <1>1 DEF Register, StampsInOrder
  <2>3. BatchesInOrder' /\ AdmittedInOrder' /\ TokenBeforeMark'
    BY <1>1 DEF Register, BatchesInOrder, AdmittedInOrder, TokenBeforeMark
  <2>4. MarksGiven'
    BY <1>1 DEF Register, MarksGiven, Serving
  <2> QED
    BY <2>1, <2>2, <2>3, <2>4
<1>2. CASE Registered(u) \/ RegisterFails(u)
  <2>1. TypeOK'
    BY <1>2 DEF Registered, RegisterFails
  <2>2. StampsInOrder'
    BY <1>2 DEF Registered, RegisterFails, StampsInOrder
  <2>3. BatchesInOrder' /\ AdmittedInOrder' /\ TokenBeforeMark'
    BY <1>2 DEF Registered, RegisterFails, BatchesInOrder, AdmittedInOrder, TokenBeforeMark
  <2>4. MarksGiven'
    BY <1>2 DEF Registered, RegisterFails, MarksGiven, Serving
  <2> QED
    BY <2>1, <2>2, <2>3, <2>4
<1> QED
  BY <1>1, <1>2

(* A fetched batch leaves nobody behind who is ahead of one of its users. *)
LEMMA FetchInv == ASSUME IInv, NEW p \in Processes, FetchBatch(p) PROVE IInv'
<1> USE DEF IInv, TypeOK, sale, registry
<1> PICK b \in SUBSET Waiting :
        /\ \A u \in b, w \in Waiting \ b : stamp[u] < stamp[w]
        /\ batch' = [batch EXCEPT ![p] = b]
  BY DEF FetchBatch
<1>1. TypeOK'
  BY DEF FetchBatch, Resting, Waiting
<1>2. BatchesInOrder'
  <2> SUFFICES ASSUME NEW q \in Processes, NEW u \in batch'[q], NEW w \in ahead[u]
               PROVE  w \in admitted \cup batch'[q]
    BY DEF FetchBatch, BatchesInOrder
  <2>1. CASE q # p
    BY <2>1 DEF BatchesInOrder
  <2>2. CASE q = p
    <3>1. u \in b /\ u \in rows /\ w \in rows /\ w \in Users /\ u \in Users
      BY <2>2 DEF Waiting
    <3>2. stamp[w] < stamp[u] /\ stamp[w] \in Int /\ stamp[u] \in Int
      BY <3>1 DEF StampsInOrder
    <3>3. w \in Waiting => w \in b
      BY <3>1, <3>2
    <3> QED
      BY <2>2, <3>1, <3>3 DEF Waiting
  <2> QED
    BY <2>1, <2>2
<1>3. MarksGiven'
  BY DEF FetchBatch, Resting, MarksGiven, Serving
<1>4. StampsInOrder' /\ AdmittedInOrder' /\ TokenBeforeMark'
  BY DEF FetchBatch, StampsInOrder, AdmittedInOrder, TokenBeforeMark
<1> QED
  BY <1>1, <1>2, <1>3, <1>4

LEMMA GiveTokenInv ==
    ASSUME IInv, NEW p \in Processes, NEW u \in Users, GiveToken(p, u)
    PROVE  IInv'
<1> USE DEF IInv, TypeOK, sale, registry
<1>1. TypeOK'
  BY DEF GiveToken, Serving
<1>2. MarksGiven'
  <2> SUFFICES ASSUME NEW q \in marking', NEW w \in Users, Serving(q, w)
               PROVE  w \in given'
    BY DEF GiveToken, MarksGiven, Serving
  <2>1. CASE q = p
    <3>1. u \in batch[p] /\ w \in batch[p] /\ stamp[u] <= stamp[w] /\ stamp[w] <= stamp[u]
      BY <2>1 DEF GiveToken, Serving
    <3>2. u = w
      BY <3>1 DEF StampsInOrder
    <3> QED
      BY <3>2 DEF GiveToken
  <2>2. CASE q # p
    BY <2>2 DEF GiveToken, MarksGiven
  <2> QED
    BY <2>1, <2>2
<1>3. StampsInOrder' /\ BatchesInOrder' /\ AdmittedInOrder' /\ TokenBeforeMark'
  BY DEF GiveToken, StampsInOrder, BatchesInOrder, AdmittedInOrder, TokenBeforeMark
<1> QED
  BY <1>1, <1>2, <1>3

(* The earliest of a batch is admitted, everybody ahead of whom already was. *)
LEMMA MarkInv ==
    ASSUME IInv, NEW p \in Processes, NEW u \in Users, MarkAdmitted(p, u)
    PROVE  IInv'
<1> USE DEF IInv, TypeOK, sale, registry
<1>1. TypeOK'
  BY DEF MarkAdmitted, Serving
<1>2. ahead[u] \subseteq admitted
  <2> SUFFICES ASSUME NEW w \in ahead[u], w \in batch[p] PROVE FALSE
    BY DEF MarkAdmitted, Serving, BatchesInOrder
  <2>1. u \in rows /\ w \in Users /\ stamp[w] \in Int /\ stamp[u] \in Int
    BY DEF MarkAdmitted, Serving
  <2>2. stamp[w] < stamp[u] /\ stamp[u] <= stamp[w]
    BY <2>1 DEF MarkAdmitted, Serving, StampsInOrder
  <2> QED
    BY <2>1, <2>2
<1>3. AdmittedInOrder' /\ TokenBeforeMark'
  BY <1>2 DEF MarkAdmitted, AdmittedInOrder, TokenBeforeMark, MarksGiven
<1>4. BatchesInOrder'
  BY DEF MarkAdmitted, BatchesInOrder
<1>5. StampsInOrder'
  BY DEF MarkAdmitted, StampsInOrder
<1>6. MarksGiven'
  BY DEF MarkAdmitted, MarksGiven, Serving
<1> QED
  BY <1>1, <1>3, <1>4, <1>5, <1>6

(* A worker that raises, is cancelled, ends or dies forgets its batch. *)
LEMMA StopInv ==
    ASSUME IInv, NEW p \in Processes, Abandon(p),
           running' \in {running, running \ {p}}, stale' = stale \cap running',
           req' \in [Handlers -> Requests \cup {Idle}],
           UNCHANGED <<sale, registry, admitted, given>>
    PROVE  IInv'
<1> USE DEF IInv, TypeOK, sale, registry, Abandon
<1>1. TypeOK'
  OBVIOUS
<1>2. BatchesInOrder'
  BY DEF BatchesInOrder
<1>3. MarksGiven'
  BY DEF MarksGiven, Serving
<1>4. StampsInOrder' /\ AdmittedInOrder' /\ TokenBeforeMark'
  BY DEF StampsInOrder, AdmittedInOrder, TokenBeforeMark
<1> QED
  BY <1>1, <1>2, <1>3, <1>4

LEMMA WorkerInv == ASSUME IInv, NEW p \in Processes, Worker(p) \/ Crash(p) PROVE IInv'
<1>1. CASE FetchBatch(p)
  BY <1>1, FetchInv
<1>2. ASSUME NEW u \in Users, GiveToken(p, u) PROVE IInv'
  BY <1>2, GiveTokenInv
<1>3. ASSUME NEW u \in Users, MarkAdmitted(p, u) PROVE IInv'
  BY <1>3, MarkInv
<1>4. CASE WorkerRaises(p)
  <2>1. stale = stale \cap running
    BY DEF IInv, TypeOK
  <2> QED
    BY <1>4, <2>1, StopInv DEF WorkerRaises, IInv, TypeOK
<1>5. CASE WorkerEnds(p)
  <2>1. stale' = stale \cap running'
    BY <1>5 DEF WorkerEnds, IInv, TypeOK
  <2>2. Abandon(p)
    BY <1>5 DEF WorkerEnds, Resting, Abandon, IInv, TypeOK
  <2> QED
    BY <1>5, <2>1, <2>2, StopInv DEF WorkerEnds, IInv, TypeOK
<1>6. CASE Crash(p)
  <2>1. stale' = stale \cap running'
    BY <1>6 DEF Crash, Stop, IInv, TypeOK
  <2>2. req' \in [Handlers -> Requests \cup {Idle}]
    BY <1>6 DEF Crash, IInv, TypeOK
  <2> QED
    BY <1>6, <2>1, <2>2, StopInv DEF Crash, Stop
<1> QED
  BY <1>1, <1>2, <1>3, <1>4, <1>5, <1>6 DEF Worker

(* What a step that leaves registrations and batches alone has to keep. *)
LEMMA SaleInv ==
    ASSUME IInv, status' \in Statuses, ended' \in BOOLEAN,
           running \subseteq running', running' \subseteq Processes, stale' \subseteq running',
           req' \in [Handlers -> Requests \cup {Idle}],
           UNCHANGED <<registry, admitted, given, batch, marking>>
    PROVE  IInv'
<1> USE DEF IInv, TypeOK, registry
<1>1. TypeOK'
  OBVIOUS
<1>2. BatchesInOrder' /\ StampsInOrder' /\ AdmittedInOrder' /\ TokenBeforeMark'
  BY DEF BatchesInOrder, StampsInOrder, AdmittedInOrder, TokenBeforeMark
<1>3. MarksGiven'
  BY DEF MarksGiven, Serving
<1> QED
  BY <1>1, <1>2, <1>3

LEMMA HandlingInv == ASSUME IInv, NEW h \in Handlers, Handling(h) PROVE IInv'
<1> USE DEF IInv, TypeOK, sale, workers
<1>1. ASSUME NEW p \in Processes, NEW to \in Statuses, SetStatus(h, p, to) PROVE IInv'
  BY <1>1, SaleInv DEF SetStatus, Requests
<1>2. CASE StartWorker(h)
  <2>1. req[h].proc \in Processes
    BY <1>2 DEF StartWorker, Requests, Idle
  <2> QED
    BY <1>2, <2>1, SaleInv DEF StartWorker, End
<1>3. CASE StopWorker(h)
  <2>1. req[h].proc \in Processes
    BY <1>3 DEF StopWorker, Requests, Idle
  <2> DEFINE p == req[h].proc
  <2>2. Abandon(p) /\ running' = running \ {p} /\ stale' = stale \cap running'
    BY <1>3 DEF StopWorker, Stop
  <2>3. req' \in [Handlers -> Requests \cup {Idle}]
    BY <1>3 DEF StopWorker, End
  <2>4. UNCHANGED <<sale, registry, admitted, given>>
    BY <1>3 DEF StopWorker
  <2> QED
    BY <2>1, <2>2, <2>3, <2>4, StopInv
<1>4. CASE Drop(h)
  BY <1>4, SaleInv DEF Drop, End
<1> QED
  BY <1>1, <1>2, <1>3, <1>4 DEF Handling

LEMMA NextInv == IInv /\ [Next]_vars => IInv'
<1> SUFFICES ASSUME IInv, [Next]_vars PROVE IInv'
  OBVIOUS
<1>1. ASSUME NEW u \in Users, Register(u) \/ Registered(u) \/ RegisterFails(u) PROVE IInv'
  BY <1>1, RegistryInv
<1>2. ASSUME NEW p \in Processes, Worker(p) \/ Crash(p) PROVE IInv'
  BY <1>2, WorkerInv
<1>3. ASSUME NEW h \in Handlers, Handling(h) PROVE IInv'
  BY <1>3, HandlingInv
<1>4. CASE EditDates
  <2>1. req' \in [Handlers -> Requests \cup {Idle}]
    BY <1>4 DEF EditDates, IInv, TypeOK, Requests, Idle
  <2> QED
    BY <1>4, <2>1, SaleInv DEF EditDates, IInv, TypeOK
<1>5. CASE EndPasses \/ AutoActivate \/ AutoComplete
  BY <1>5, SaleInv DEF EndPasses, AutoActivate, AutoComplete, workers, IInv, TypeOK, Statuses
<1>6. CASE UNCHANGED vars
  BY <1>6, SaleInv DEF vars, sale, workers, IInv, TypeOK
<1> QED
  BY <1>1, <1>2, <1>3, <1>4, <1>5, <1>6 DEF Next

-----------------------------------------------------------------------------
(* Registrations, workers and batches stay consistent with one another. *)
THEOREM AdmissionInvariant == Spec => []IInv
BY InitInv, NextInv, PTL DEF Spec

(* First come, first admitted, however many processes run workers. *)
THEOREM AlwaysInOrder == Spec => []AdmittedInOrder
<1>1. IInv => AdmittedInOrder
  BY DEF IInv
<1> QED
  BY <1>1, AdmissionInvariant, PTL

(* Nobody is marked as admitted without having been given a token. *)
THEOREM AlwaysTokenFirst == Spec => []TokenBeforeMark
<1>1. IInv => TokenBeforeMark
  BY DEF IInv
<1> QED
  BY <1>1, AdmissionInvariant, PTL

(* Type correctness of registrations, workers and requests. *)
THEOREM AdmissionTypeOK == Spec => []TypeOK
<1>1. IInv => TypeOK
  BY DEF IInv
<1> QED
  BY <1>1, AdmissionInvariant, PTL
=============================================================================
