------------------------ MODULE AuditLifecycleProofs ------------------------
(***************************************************************************)
(* Proofs about AuditLifecycle for every set of configurations, lines,     *)
(* workers and requests and every bound.                                   *)
(***************************************************************************)
EXTENDS AuditLifecycle, TLAPS

-----------------------------------------------------------------------------
(* The inductive invariant.                                                *)

\* The advisory lock of c is held by the one worker that audits c, if any.
LockInv ==
  /\ \A c \in Config, v, w \in Worker : v \in lock[c] /\ w \in lock[c] => v = w
  /\ \A w \in Worker : worker[w] # Idle => w \in lock[worker[w].config]

\* A configuration some process works on has been uploaded, and one a worker has
\* begun to audit or a request trains is no longer queued.
StartedInv ==
  /\ \A c \in Config :
       status[c] = "absent" => upload[c] = "none" /\ queue[c] = 0
  /\ \A w \in Worker : worker[w] # Idle =>
       LET s == status[worker[w].config] IN
       /\ s # "absent"
       /\ worker[w].pc = "begin" /\ s = "queued" => worker[w].loaded = "queued"
       /\ worker[w].pc \in {"reload", "parse", "gate", "evaluate"} => s # "queued"
  /\ \A r \in Request : request[r] # Idle =>
       status[request[r].config] \notin {"absent", "queued"}

\* Once a worker has begun, nobody else completes its configuration.
BegunInv ==
  \A w \in Worker :
    /\ worker[w].pc = "begin" /\ worker[w].loaded = "normalising" =>
         status[worker[w].config] # "complete"
    /\ worker[w].pc \in {"reload", "parse", "gate", "evaluate"} =>
         status[worker[w].config] # "complete"

\* A worker's normalised lines show approved fields its normalizer accepts.
ParsedInv ==
  \A w \in Worker : worker[w].pc \in {"gate", "evaluate"} =>
    \A l \in Line :
      LET c == worker[w].config
          field == worker[w].parsed[l] IN
      /\ field \in Field => learned[KeyOf[c][l]] = field
      /\ l \in LinesOf[c] => field \in Assignable[c] \cup {Unverified}

\* What a worker evaluates is what is stored, and waits for nobody.
EvaluatedInv ==
  \A w \in Worker : worker[w].pc = "evaluate" =>
    /\ findings[worker[w].config] = worker[w].parsed
    /\ Remaining(worker[w].parsed) = {}

IInv ==
  /\ TypeOK
  /\ LockInv
  /\ StartedInv
  /\ BegunInv
  /\ ParsedInv
  /\ EvaluatedInv
  /\ CompleteIsTrained
  /\ ConfirmedIsApproved

-----------------------------------------------------------------------------
(* Type correctness.                                                       *)

\* A process that is not idle has the record of a process at work.
LEMMA Busy ==
  ASSUME TypeOK
  PROVE  /\ \A w \in Worker : worker[w] # Idle <=> worker[w].pc # "idle"
         /\ \A w \in Worker : worker[w].pc # "idle" => worker[w] \in Running
         /\ \A r \in Request : request[r] # Idle <=> request[r].pc # "idle"
         /\ \A r \in Request : request[r].pc # "idle" => request[r] \in Serving
BY DEF TypeOK, Running, Serving, Idle, WorkerPC, RequestPC

\* The rows a normalizer produces for a configuration are rows of its lines.
LEMMA NormalisedType ==
  ASSUME TypeOK, NEW c \in Config
  PROVE  Normalised(c) \in Rows
BY ConfigAssumption DEF TypeOK, Normalised, Rows, Finding

\* An approval changes one row and one mapping.
LEMMA ApprovalType ==
  ASSUME TypeOK, NEW c \in Config, NEW l \in Line, NEW f \in Field
  PROVE  /\ [findings[c] EXCEPT ![l] = f] \in Rows
         /\ [learned EXCEPT ![KeyOf[c][l]] = f] \in [Key -> Field \cup {NoField}]
BY ConfigAssumption DEF TypeOK, Rows, Finding

LEMMA InitType == Init => TypeOK
BY BoundAssumption DEF Init, TypeOK, Status, Rows, NoRows, Finding, Idle

LEMMA UploadType ==
  ASSUME TypeOK, NEW c \in Config, UploadStep(c)
  PROVE  TypeOK'
<1> USE BoundAssumption DEF TypeOK, Status, Fault, Enqueue, MaybeEnqueue
<1>1. CASE Upload(c)              BY <1>1 DEF Upload
<1>2. CASE DispatchAudit(c)       BY <1>2 DEF DispatchAudit
<1>3. CASE DispatchAuditRaises(c) BY <1>3 DEF DispatchAuditRaises
<1>4. CASE MarkDispatchFailed(c)  BY <1>4 DEF MarkDispatchFailed
<1>5. CASE UploadCrash(c)         BY <1>5 DEF UploadCrash
<1>6. CASE Redeliver(c)           BY <1>6 DEF Redeliver
<1> QED BY <1>1, <1>2, <1>3, <1>4, <1>5, <1>6 DEF UploadStep

LEMMA WorkerType ==
  ASSUME TypeOK, NEW w \in Worker, WorkerStep(w)
  PROVE  TypeOK'
<1> DEFINE c == worker[w].config
<1>a. worker[w].pc # "idle" =>
        worker[w] \in Running /\ c \in Config /\ worker[w].parsed \in Rows
  BY Busy DEF Running
<1>b. ASSUME NEW d \in Config, DropRows(d)
      PROVE  request' \in [Request -> Serving \cup {Idle}]
  <2>1. ASSUME NEW r \in Request, request[r] # Idle
        PROVE  [request[r] EXCEPT !.live = FALSE] \in Serving
    <3>1. request[r] \in Serving  BY <2>1 DEF TypeOK
    <3> QED BY <3>1 DEF Serving
  <2>2. request' = [r \in Request |->
          IF request[r] # Idle /\ request[r].config = d /\ request[r].pc = "locking"
          THEN [request[r] EXCEPT !.live = FALSE] ELSE request[r]]
    BY <1>b DEF DropRows
  <2>3. \A r \in Request : request[r] \in Serving \cup {Idle}  BY DEF TypeOK
  <2> QED BY <2>1, <2>2, <2>3
<1> USE BoundAssumption DEF TypeOK
<1>1. ASSUME NEW d \in Config, AcquireAuditLock(w, d) PROVE TypeOK'
  <2>1. NoRows \in Rows  BY DEF NoRows, Rows, Finding
  <2> QED BY <1>1, <2>1 DEF AcquireAuditLock, Running, WorkerPC, Status
<1>2. ASSUME NEW d \in Config, IgnoreDuplicate(w, d) PROVE TypeOK'
  BY <1>2 DEF IgnoreDuplicate
<1>3. CASE FetchConfig(w)       BY <1>a, <1>3 DEF FetchConfig, Running, WorkerPC
<1>4. CASE BeginNormalising(w)
  BY <1>a, <1>4 DEF BeginNormalising, Running, WorkerPC, Written, Status
<1>5. CASE ReloadConfig(w)      BY <1>a, <1>5 DEF ReloadConfig, Running, WorkerPC
<1>6. CASE Parse(w)
  BY <1>a, <1>6, NormalisedType DEF Parse, Running, WorkerPC
<1>7. CASE PersistAndPause(w)
  BY <1>a, <1>b, <1>7 DEF PersistAndPause, Running, WorkerPC, Written, Status
<1>8. CASE PersistAndPass(w)
  BY <1>a, <1>b, <1>8 DEF PersistAndPass, Running, WorkerPC, Status
<1>9. CASE CompleteAudit(w)
  BY <1>a, <1>9 DEF CompleteAudit, Running, WorkerPC, Status
<1>10. CASE FailAudit(w)
  BY <1>a, <1>10 DEF FailAudit, Running, WorkerPC, Status, Fault
<1>11. CASE ReleaseAuditLock(w) BY <1>a, <1>11 DEF ReleaseAuditLock
<1>12. CASE WorkerCrash(w)      BY <1>a, <1>12, Busy DEF WorkerCrash, Fault
<1> QED BY <1>1, <1>2, <1>3, <1>4, <1>5, <1>6, <1>7, <1>8, <1>9, <1>10, <1>11,
           <1>12 DEF WorkerStep, TakeTask, RunAudit

LEMMA RequestType ==
  ASSUME TypeOK, NEW r \in Request, RequestStep(r)
  PROVE  TypeOK'
<1> DEFINE q == request[r]
<1>a. q.pc # "idle" => /\ q \in Serving
                       /\ q.config \in Config /\ q.line \in Line /\ q.field \in Field
  BY Busy DEF Serving
<1> USE BoundAssumption DEF TypeOK
<1>1. ASSUME NEW c \in Config, NEW l \in Line, NEW f \in Field, ReadConfig(r, c, l, f)
      PROVE  TypeOK'
  BY <1>1 DEF ReadConfig, Serving, RequestPC
<1>2. CASE RejectTraining(r)   BY <1>2 DEF RejectTraining
<1>3. CASE ApproveLine(r)      BY <1>a, <1>3, ApprovalType DEF ApproveLine
<1>4. CASE ApproveAndClaim(r)
  BY <1>a, <1>4, ApprovalType DEF ApproveAndClaim, Serving, RequestPC, Status
<1>5. CASE SendResume(r)       BY <1>a, <1>5 DEF SendResume, Enqueue
<1>6. CASE SendResumeRaises(r)
  BY <1>a, <1>6 DEF SendResumeRaises, Enqueue, MaybeEnqueue, Fault, Serving, RequestPC
<1>7. CASE RecoverTraining(r)  BY <1>a, <1>7 DEF RecoverTraining, Status
<1>8. CASE RequestCrash(r)     BY <1>8 DEF RequestCrash, Fault
<1> QED BY <1>1, <1>2, <1>3, <1>4, <1>5, <1>6, <1>7, <1>8
        DEF RequestStep, SubmitTraining

LEMMA NextType ==
  ASSUME TypeOK, [Next]_vars
  PROVE  TypeOK'
<1>1. CASE Next  BY <1>1, UploadType, WorkerType, RequestType DEF Next
<1>2. CASE UNCHANGED vars  BY <1>2 DEF vars, TypeOK
<1> QED BY <1>1, <1>2

\* Every variable keeps its type: in particular no message count leaves its
\* bound and no worker or request works on a configuration that does not exist.
THEOREM TypeCorrect == Spec => []TypeOK
<1>1. TypeOK /\ [Next]_vars => TypeOK'  BY NextType
<1> QED BY InitType, <1>1, PTL DEF Spec

-----------------------------------------------------------------------------
(* What the steps of uploads and of training requests can change.          *)

\* An upload changes one status: from absent to queued, or to failed.
LEMMA UploadEffect ==
  ASSUME TypeOK, StartedInv, NEW c \in Config, UploadStep(c)
  PROVE  /\ UNCHANGED <<findings, results, learned, lock, worker, request>>
         /\ \A d \in Config :
              \/ status'[d] = status[d]
              \/ status[d] = "absent" /\ status'[d] = "queued"
              \/ status[d] # "absent" /\ status'[d] = "failed"
         /\ \A d \in Config :
              status'[d] = "absent" => upload'[d] = "none" /\ queue'[d] = 0
<1> USE DEF TypeOK, StartedInv, Enqueue, MaybeEnqueue
<1>1. CASE Upload(c)              BY <1>1 DEF Upload
<1>2. CASE DispatchAudit(c)       BY <1>2 DEF DispatchAudit
<1>3. CASE DispatchAuditRaises(c) BY <1>3 DEF DispatchAuditRaises
<1>4. CASE MarkDispatchFailed(c)  BY <1>4 DEF MarkDispatchFailed
<1>5. CASE UploadCrash(c)         BY <1>5 DEF UploadCrash
<1>6. CASE Redeliver(c)           BY <1>6 DEF Redeliver
<1> QED BY <1>1, <1>2, <1>3, <1>4, <1>5, <1>6 DEF UploadStep

\* A training request moves a started audit between normalising and awaiting,
\* and changes a row or a mapping only from unapproved to the approved field.
LEMMA RequestEffect ==
  ASSUME TypeOK, StartedInv, NEW r \in Request, RequestStep(r)
  PROVE  /\ UNCHANGED <<results, lock, upload, worker>>
         /\ \A d \in Config :
              \/ status'[d] = status[d]
              \/ /\ status[d] \notin {"absent", "queued"}
                 /\ status'[d] = "normalising"
              \/ status[d] = "normalising" /\ status'[d] = "awaiting_training"
         /\ \A d \in Config, l \in Line :
              \/ findings'[d][l] = findings[d][l]
              \/ /\ findings[d][l] = Unverified
                 /\ findings'[d][l] \in Field
                 /\ learned'[KeyOf[d][l]] = findings'[d][l]
         /\ \A k \in Key : learned'[k] = learned[k] \/ learned[k] = NoField
         /\ \A d \in Config : status[d] = "absent" => queue'[d] = queue[d]
         /\ \A s \in Request : request'[s] # Idle =>
              status'[request'[s].config] \notin {"absent", "queued"}
<1> DEFINE q == request[r]
<1>a. q.pc # "idle" =>
        /\ q \in Serving /\ q # Idle
        /\ q.config \in Config /\ q.line \in Line /\ q.field \in Field
        /\ status[q.config] \notin {"absent", "queued"}
  BY Busy DEF Serving, StartedInv
<1>b. \A d \in Config, l \in Line : KeyOf[d][l] \in Key
  BY ConfigAssumption
<1>1. ASSUME NEW c \in Config, NEW l \in Line, NEW f \in Field, ReadConfig(r, c, l, f)
      PROVE  /\ UNCHANGED <<status, findings, results, learned, lock, queue, upload, worker>>
             /\ \A s \in Request : request'[s] # Idle =>
                  status'[request'[s].config] \notin {"absent", "queued"}
  BY <1>1 DEF ReadConfig, TypeOK, StartedInv
<1>2. CASE RejectTraining(r)
  BY <1>2 DEF RejectTraining, TypeOK, StartedInv
<1>3. CASE ApproveLine(r)
  BY <1>a, <1>b, <1>3
     DEF ApproveLine, Approvable, PatternAgrees, TypeOK, StartedInv, Rows
<1>4. CASE ApproveAndClaim(r)
  BY <1>a, <1>b, <1>4
     DEF ApproveAndClaim, Approvable, PatternAgrees, TypeOK, StartedInv, Rows, Idle
<1>5. CASE SendResume(r)
  BY <1>a, <1>5 DEF SendResume, Enqueue, TypeOK, StartedInv
<1>6. CASE SendResumeRaises(r)
  BY <1>a, <1>6 DEF SendResumeRaises, Enqueue, MaybeEnqueue, TypeOK, StartedInv, Idle
<1>7. CASE RecoverTraining(r)
  BY <1>a, <1>7 DEF RecoverTraining, TypeOK, StartedInv
<1>8. CASE RequestCrash(r)
  BY <1>8 DEF RequestCrash, TypeOK, StartedInv
<1> QED BY <1>1, <1>2, <1>3, <1>4, <1>5, <1>6, <1>7, <1>8
        DEF RequestStep, SubmitTraining

-----------------------------------------------------------------------------
(* Each part of the invariant under the steps of a worker.                 *)

\* The lock goes to a worker only when free, and leaves with the worker.
LEMMA WorkerLock ==
  ASSUME TypeOK, LockInv, NEW w \in Worker, WorkerStep(w)
  PROVE  LockInv'
<1> DEFINE c == worker[w].config
<1>a. worker[w].pc # "idle" =>
        worker[w] \in Running /\ worker[w] # Idle /\ c \in Config
  BY Busy DEF Running
<1>1. ASSUME NEW d \in Config, AcquireAuditLock(w, d) PROVE LockInv'
  BY <1>a, <1>1
     DEF AcquireAuditLock, TypeOK, LockInv, LockFree, Idle
<1>2. ASSUME NEW d \in Config, IgnoreDuplicate(w, d) PROVE LockInv'
  BY <1>2 DEF IgnoreDuplicate, TypeOK, LockInv, LockFree, Idle
<1>3. CASE FetchConfig(w)
  BY <1>a, <1>3 DEF FetchConfig, TypeOK, LockInv, LockFree, Idle
<1>4. CASE BeginNormalising(w)
  BY <1>a, <1>4 DEF BeginNormalising, TypeOK, LockInv, LockFree, Idle
<1>5. CASE ReloadConfig(w)
  BY <1>a, <1>5 DEF ReloadConfig, TypeOK, LockInv, LockFree, Idle
<1>6. CASE Parse(w)
  BY <1>a, <1>6 DEF Parse, TypeOK, LockInv, LockFree, Idle
<1>7. CASE PersistAndPause(w)
  BY <1>a, <1>7 DEF PersistAndPause, TypeOK, LockInv, LockFree, Idle, DropRows
<1>8. CASE PersistAndPass(w)
  BY <1>a, <1>8 DEF PersistAndPass, TypeOK, LockInv, LockFree, Idle, DropRows
<1>9. CASE CompleteAudit(w)
  BY <1>a, <1>9 DEF CompleteAudit, TypeOK, LockInv, LockFree, Idle
<1>10. CASE FailAudit(w)
  BY <1>a, <1>10 DEF FailAudit, TypeOK, LockInv, LockFree, Idle
<1>11. CASE ReleaseAuditLock(w)
  BY <1>a, <1>11 DEF ReleaseAuditLock, TypeOK, LockInv, LockFree, Idle
<1>12. CASE WorkerCrash(w)
  BY <1>a, <1>12 DEF WorkerCrash, TypeOK, LockInv, LockFree, Idle
<1> QED BY <1>1, <1>2, <1>3, <1>4, <1>5, <1>6,
           <1>7, <1>8, <1>9, <1>10, <1>11, <1>12
        DEF WorkerStep, TakeTask, RunAudit

\* A worker works on uploaded configurations and takes them out of the queue.
LEMMA WorkerStarted ==
  ASSUME TypeOK, LockInv, StartedInv, NEW w \in Worker, WorkerStep(w)
  PROVE  StartedInv'
<1> DEFINE c == worker[w].config
<1>a. worker[w].pc # "idle" =>
        worker[w] \in Running /\ worker[w] # Idle /\ c \in Config
  BY Busy DEF Running
<1>1. ASSUME NEW d \in Config, AcquireAuditLock(w, d) PROVE StartedInv'
  BY <1>a, <1>1
     DEF AcquireAuditLock, TypeOK, LockInv, StartedInv, Idle, Written
<1>2. ASSUME NEW d \in Config, IgnoreDuplicate(w, d) PROVE StartedInv'
  BY <1>2 DEF IgnoreDuplicate, TypeOK, LockInv, StartedInv, Idle, Written
<1>3. CASE FetchConfig(w)
  BY <1>a, <1>3 DEF FetchConfig, TypeOK, LockInv, StartedInv, Idle, Written
<1>4. CASE BeginNormalising(w)
  BY <1>a, <1>4 DEF BeginNormalising, TypeOK, LockInv, StartedInv, Idle, Written
<1>5. CASE ReloadConfig(w)
  BY <1>a, <1>5 DEF ReloadConfig, TypeOK, LockInv, StartedInv, Idle, Written
<1>6. CASE Parse(w)
  BY <1>a, <1>6 DEF Parse, TypeOK, LockInv, StartedInv, Idle, Written
<1>7. CASE PersistAndPause(w)
  BY <1>a, <1>7 DEF PersistAndPause, TypeOK, LockInv, StartedInv, Idle, Written, DropRows
<1>8. CASE PersistAndPass(w)
  BY <1>a, <1>8 DEF PersistAndPass, TypeOK, LockInv, StartedInv, Idle, Written, DropRows
<1>9. CASE CompleteAudit(w)
  BY <1>a, <1>9 DEF CompleteAudit, TypeOK, LockInv, StartedInv, Idle, Written
<1>10. CASE FailAudit(w)
  BY <1>a, <1>10 DEF FailAudit, TypeOK, LockInv, StartedInv, Idle, Written
<1>11. CASE ReleaseAuditLock(w)
  BY <1>a, <1>11 DEF ReleaseAuditLock, TypeOK, LockInv, StartedInv, Idle, Written
<1>12. CASE WorkerCrash(w)
  BY <1>a, <1>12 DEF WorkerCrash, TypeOK, LockInv, StartedInv, Idle, Written
<1> QED BY <1>1, <1>2, <1>3, <1>4, <1>5, <1>6,
           <1>7, <1>8, <1>9, <1>10, <1>11, <1>12
        DEF WorkerStep, TakeTask, RunAudit

\* Holding the lock, a worker is the only one that could complete the audit.
LEMMA WorkerBegun ==
  ASSUME TypeOK, LockInv, BegunInv, NEW w \in Worker, WorkerStep(w)
  PROVE  BegunInv'
<1> DEFINE c == worker[w].config
<1>a. worker[w].pc # "idle" =>
        worker[w] \in Running /\ worker[w] # Idle /\ c \in Config
  BY Busy DEF Running
<1>1. ASSUME NEW d \in Config, AcquireAuditLock(w, d) PROVE BegunInv'
  BY <1>a, <1>1
     DEF AcquireAuditLock, TypeOK, LockInv, BegunInv, Idle, Written
<1>2. ASSUME NEW d \in Config, IgnoreDuplicate(w, d) PROVE BegunInv'
  BY <1>2 DEF IgnoreDuplicate, TypeOK, LockInv, BegunInv, Idle, Written
<1>3. CASE FetchConfig(w)
  BY <1>a, <1>3 DEF FetchConfig, TypeOK, LockInv, BegunInv, Idle, Written
<1>4. CASE BeginNormalising(w)
  BY <1>a, <1>4 DEF BeginNormalising, TypeOK, LockInv, BegunInv, Idle, Written
<1>5. CASE ReloadConfig(w)
  BY <1>a, <1>5 DEF ReloadConfig, TypeOK, LockInv, BegunInv, Idle, Written
<1>6. CASE Parse(w)
  BY <1>a, <1>6 DEF Parse, TypeOK, LockInv, BegunInv, Idle, Written
<1>7. CASE PersistAndPause(w)
  BY <1>a, <1>7 DEF PersistAndPause, TypeOK, LockInv, BegunInv, Idle, Written
<1>8. CASE PersistAndPass(w)
  BY <1>a, <1>8 DEF PersistAndPass, TypeOK, LockInv, BegunInv, Idle, Written
<1>9. CASE CompleteAudit(w)
  BY <1>a, <1>9 DEF CompleteAudit, TypeOK, LockInv, BegunInv, Idle, Written
<1>10. CASE FailAudit(w)
  BY <1>a, <1>10 DEF FailAudit, TypeOK, LockInv, BegunInv, Idle, Written
<1>11. CASE ReleaseAuditLock(w)
  BY <1>a, <1>11 DEF ReleaseAuditLock, TypeOK, LockInv, BegunInv, Idle, Written
<1>12. CASE WorkerCrash(w)
  BY <1>a, <1>12 DEF WorkerCrash, TypeOK, LockInv, BegunInv, Idle, Written
<1> QED BY <1>1, <1>2, <1>3, <1>4, <1>5, <1>6,
           <1>7, <1>8, <1>9, <1>10, <1>11, <1>12
        DEF WorkerStep, TakeTask, RunAudit

\* Only the holder of the lock replaces the rows it evaluates.
LEMMA WorkerEvaluated ==
  ASSUME TypeOK, LockInv, EvaluatedInv, NEW w \in Worker, WorkerStep(w)
  PROVE  EvaluatedInv'
<1> DEFINE c == worker[w].config
<1>a. worker[w].pc # "idle" =>
        worker[w] \in Running /\ worker[w] # Idle /\ c \in Config
  BY Busy DEF Running
<1>1. ASSUME NEW d \in Config, AcquireAuditLock(w, d) PROVE EvaluatedInv'
  BY <1>a, <1>1
     DEF AcquireAuditLock, TypeOK, LockInv, EvaluatedInv, Idle,
         TrainingRequired, Remaining
<1>2. ASSUME NEW d \in Config, IgnoreDuplicate(w, d) PROVE EvaluatedInv'
  BY <1>2 DEF IgnoreDuplicate, TypeOK, LockInv, EvaluatedInv, Idle,
         TrainingRequired, Remaining
<1>3. CASE FetchConfig(w)
  BY <1>a, <1>3 DEF FetchConfig, TypeOK, LockInv, EvaluatedInv, Idle,
         TrainingRequired, Remaining
<1>4. CASE BeginNormalising(w)
  BY <1>a, <1>4 DEF BeginNormalising, TypeOK, LockInv, EvaluatedInv, Idle,
         TrainingRequired, Remaining
<1>5. CASE ReloadConfig(w)
  BY <1>a, <1>5 DEF ReloadConfig, TypeOK, LockInv, EvaluatedInv, Idle,
         TrainingRequired, Remaining
<1>6. CASE Parse(w)
  BY <1>a, <1>6 DEF Parse, TypeOK, LockInv, EvaluatedInv, Idle,
         TrainingRequired, Remaining
<1>7. CASE PersistAndPause(w)
  BY <1>a, <1>7 DEF PersistAndPause, TypeOK, LockInv, EvaluatedInv, Idle,
         TrainingRequired, Remaining
<1>8. CASE PersistAndPass(w)
  BY <1>a, <1>8 DEF PersistAndPass, TypeOK, LockInv, EvaluatedInv, Idle,
         TrainingRequired, Remaining
<1>9. CASE CompleteAudit(w)
  BY <1>a, <1>9 DEF CompleteAudit, TypeOK, LockInv, EvaluatedInv, Idle,
         TrainingRequired, Remaining
<1>10. CASE FailAudit(w)
  BY <1>a, <1>10 DEF FailAudit, TypeOK, LockInv, EvaluatedInv, Idle,
         TrainingRequired, Remaining
<1>11. CASE ReleaseAuditLock(w)
  BY <1>a, <1>11 DEF ReleaseAuditLock, TypeOK, LockInv, EvaluatedInv, Idle,
         TrainingRequired, Remaining
<1>12. CASE WorkerCrash(w)
  BY <1>a, <1>12 DEF WorkerCrash, TypeOK, LockInv, EvaluatedInv, Idle,
         TrainingRequired, Remaining
<1> QED BY <1>1, <1>2, <1>3, <1>4, <1>5, <1>6,
           <1>7, <1>8, <1>9, <1>10, <1>11, <1>12
        DEF WorkerStep, TakeTask, RunAudit

\* The gate and the lock keep unapproved rows away from a complete audit.
LEMMA WorkerComplete ==
  ASSUME TypeOK, LockInv, BegunInv, EvaluatedInv, CompleteIsTrained, NEW w \in Worker, WorkerStep(w)
  PROVE  CompleteIsTrained'
<1> DEFINE c == worker[w].config
<1>a. worker[w].pc # "idle" =>
        worker[w] \in Running /\ worker[w] # Idle /\ c \in Config
  BY Busy DEF Running
<1>1. ASSUME NEW d \in Config, AcquireAuditLock(w, d) PROVE CompleteIsTrained'
  BY <1>a, <1>1
     DEF AcquireAuditLock, TypeOK, BegunInv, EvaluatedInv, CompleteIsTrained,
         Written
<1>2. ASSUME NEW d \in Config, IgnoreDuplicate(w, d) PROVE CompleteIsTrained'
  BY <1>2 DEF IgnoreDuplicate, TypeOK, BegunInv, EvaluatedInv, CompleteIsTrained,
         Written
<1>3. CASE FetchConfig(w)
  BY <1>a, <1>3 DEF FetchConfig, TypeOK, BegunInv, EvaluatedInv, CompleteIsTrained,
         Written
<1>4. CASE BeginNormalising(w)
  BY <1>a, <1>4 DEF BeginNormalising, TypeOK, BegunInv, EvaluatedInv, CompleteIsTrained,
         Written
<1>5. CASE ReloadConfig(w)
  BY <1>a, <1>5 DEF ReloadConfig, TypeOK, BegunInv, EvaluatedInv, CompleteIsTrained,
         Written
<1>6. CASE Parse(w)
  BY <1>a, <1>6 DEF Parse, TypeOK, BegunInv, EvaluatedInv, CompleteIsTrained,
         Written
<1>7. CASE PersistAndPause(w)
  BY <1>a, <1>7 DEF PersistAndPause, TypeOK, BegunInv, EvaluatedInv, CompleteIsTrained,
         Written
<1>8. CASE PersistAndPass(w)
  BY <1>a, <1>8 DEF PersistAndPass, TypeOK, BegunInv, EvaluatedInv, CompleteIsTrained,
         Written
<1>9. CASE CompleteAudit(w)
  BY <1>a, <1>9 DEF CompleteAudit, TypeOK, BegunInv, EvaluatedInv, CompleteIsTrained,
         Written
<1>10. CASE FailAudit(w)
  BY <1>a, <1>10 DEF FailAudit, TypeOK, BegunInv, EvaluatedInv, CompleteIsTrained,
         Written
<1>11. CASE ReleaseAuditLock(w)
  BY <1>a, <1>11 DEF ReleaseAuditLock, TypeOK, BegunInv, EvaluatedInv, CompleteIsTrained,
         Written
<1>12. CASE WorkerCrash(w)
  BY <1>a, <1>12 DEF WorkerCrash, TypeOK, BegunInv, EvaluatedInv, CompleteIsTrained,
         Written
<1> QED BY <1>1, <1>2, <1>3, <1>4, <1>5, <1>6,
           <1>7, <1>8, <1>9, <1>10, <1>11, <1>12
        DEF WorkerStep, TakeTask, RunAudit

\* A normalised line shows what its mapping says and its normalizer accepts.
LEMMA WorkerParsed ==
  ASSUME TypeOK, ParsedInv, NEW w \in Worker, WorkerStep(w)
  PROVE  ParsedInv'
<1> DEFINE c == worker[w].config
<1>a. worker[w].pc # "idle" =>
        worker[w] \in Running /\ worker[w] # Idle /\ c \in Config
  BY Busy DEF Running
<1>1. ASSUME NEW d \in Config, AcquireAuditLock(w, d) PROVE ParsedInv'
  BY <1>1 DEF AcquireAuditLock, TypeOK, ParsedInv, Idle
<1>2. ASSUME NEW d \in Config, IgnoreDuplicate(w, d) PROVE ParsedInv'
  BY <1>2 DEF IgnoreDuplicate, TypeOK, ParsedInv, Idle
<1>3. CASE FetchConfig(w)
  BY <1>a, <1>3 DEF FetchConfig, TypeOK, ParsedInv, Idle
<1>4. CASE BeginNormalising(w)
  BY <1>a, <1>4 DEF BeginNormalising, TypeOK, ParsedInv, Idle
<1>5. CASE ReloadConfig(w)
  BY <1>a, <1>5 DEF ReloadConfig, TypeOK, ParsedInv, Idle
<1>6. CASE Parse(w)
  <2>1. c \in Config /\ UNCHANGED learned
    BY <1>a, <1>6 DEF Parse
  <2>2. worker'[w].config = c /\ worker'[w].parsed = Normalised(c)
    BY <1>a, <1>6 DEF Parse, TypeOK, Running
  <2>3. ASSUME NEW v \in Worker, v # w
        PROVE  worker'[v] = worker[v]
    BY <1>6, <2>3 DEF Parse, TypeOK
  <2>4. ASSUME NEW l \in Line
        PROVE  /\ Normalised(c)[l] \in Field => learned[KeyOf[c][l]] = Normalised(c)[l]
               /\ l \in LinesOf[c] => Normalised(c)[l] \in Assignable[c] \cup {Unverified}
    BY <2>1, <2>4, ConfigAssumption DEF Normalised
  <2> QED BY <2>1, <2>2, <2>3, <2>4 DEF ParsedInv
<1>7. CASE PersistAndPause(w)
  BY <1>a, <1>7 DEF PersistAndPause, TypeOK, ParsedInv, Idle
<1>8. CASE PersistAndPass(w)
  BY <1>a, <1>8 DEF PersistAndPass, TypeOK, ParsedInv, Idle
<1>9. CASE CompleteAudit(w)
  BY <1>a, <1>9 DEF CompleteAudit, TypeOK, ParsedInv, Idle
<1>10. CASE FailAudit(w)
  BY <1>a, <1>10 DEF FailAudit, TypeOK, ParsedInv, Idle
<1>11. CASE ReleaseAuditLock(w)
  BY <1>a, <1>11 DEF ReleaseAuditLock, TypeOK, ParsedInv, Idle
<1>12. CASE WorkerCrash(w)
  BY <1>a, <1>12 DEF WorkerCrash, TypeOK, ParsedInv, Idle
<1> QED BY <1>1, <1>2, <1>3, <1>4, <1>5, <1>6,
           <1>7, <1>8, <1>9, <1>10, <1>11, <1>12
        DEF WorkerStep, TakeTask, RunAudit

\* Rows are replaced by normalised lines only.
LEMMA WorkerConfirmed ==
  ASSUME TypeOK, ParsedInv, ConfirmedIsApproved, NEW w \in Worker, WorkerStep(w)
  PROVE  ConfirmedIsApproved'
<1> DEFINE c == worker[w].config
<1>a. worker[w].pc # "idle" =>
        worker[w] \in Running /\ worker[w] # Idle /\ c \in Config
  BY Busy DEF Running
<1>1. ASSUME NEW d \in Config, AcquireAuditLock(w, d) PROVE ConfirmedIsApproved'
  BY <1>1 DEF AcquireAuditLock, TypeOK, ConfirmedIsApproved
<1>2. ASSUME NEW d \in Config, IgnoreDuplicate(w, d) PROVE ConfirmedIsApproved'
  BY <1>2 DEF IgnoreDuplicate, TypeOK, ConfirmedIsApproved
<1>3. CASE FetchConfig(w)
  BY <1>a, <1>3 DEF FetchConfig, TypeOK, ConfirmedIsApproved
<1>4. CASE BeginNormalising(w)
  BY <1>a, <1>4 DEF BeginNormalising, TypeOK, ConfirmedIsApproved
<1>5. CASE ReloadConfig(w)
  BY <1>a, <1>5 DEF ReloadConfig, TypeOK, ConfirmedIsApproved
<1>6. CASE Parse(w)
  BY <1>a, <1>6 DEF Parse, TypeOK, ConfirmedIsApproved
<1>7. CASE PersistAndPause(w)
  BY <1>a, <1>7 DEF PersistAndPause, TypeOK, ConfirmedIsApproved, ParsedInv
<1>8. CASE PersistAndPass(w)
  BY <1>a, <1>8 DEF PersistAndPass, TypeOK, ConfirmedIsApproved, ParsedInv
<1>9. CASE CompleteAudit(w)
  BY <1>a, <1>9 DEF CompleteAudit, TypeOK, ConfirmedIsApproved
<1>10. CASE FailAudit(w)
  BY <1>a, <1>10 DEF FailAudit, TypeOK, ConfirmedIsApproved
<1>11. CASE ReleaseAuditLock(w)
  BY <1>a, <1>11 DEF ReleaseAuditLock, TypeOK, ConfirmedIsApproved
<1>12. CASE WorkerCrash(w)
  BY <1>a, <1>12 DEF WorkerCrash, TypeOK, ConfirmedIsApproved
<1> QED BY <1>1, <1>2, <1>3, <1>4, <1>5, <1>6,
           <1>7, <1>8, <1>9, <1>10, <1>11, <1>12
        DEF WorkerStep, TakeTask, RunAudit

-----------------------------------------------------------------------------
(* The invariant under every step, and what follows from it.               *)

LEMMA InitInv == Init => IInv
<1> SUFFICES ASSUME Init PROVE IInv
  OBVIOUS
<1>1. TypeOK  BY InitType
<1>2. LockInv /\ StartedInv /\ BegunInv /\ ParsedInv /\ EvaluatedInv
  BY DEF Init, LockInv, StartedInv, BegunInv, ParsedInv, EvaluatedInv, Idle
<1>3. CompleteIsTrained /\ ConfirmedIsApproved
  BY ConfigAssumption
     DEF Init, CompleteIsTrained, ConfirmedIsApproved, NoRows
<1> QED BY <1>1, <1>2, <1>3 DEF IInv

LEMMA UploadInv ==
  ASSUME IInv, NEW c \in Config, UploadStep(c)
  PROVE  IInv'
<1>1. TypeOK /\ StartedInv  BY DEF IInv
<1>a. \A w \in Worker : worker[w].pc # "idle" => worker[w].config \in Config /\ worker[w] # Idle
  BY <1>1, Busy DEF Running
<1>b. \A r \in Request : request[r] # Idle => request[r].config \in Config
  BY <1>1, Busy DEF Serving
<1>2. TypeOK'  BY <1>1, UploadType
<1>3. LockInv'  BY <1>1, UploadEffect DEF IInv, LockInv
<1>4. StartedInv'
  BY <1>1, <1>a, <1>b, UploadEffect, Busy DEF StartedInv, TypeOK
<1>5. BegunInv'
  BY <1>1, <1>a, UploadEffect, Busy DEF IInv, BegunInv, TypeOK
<1>6. ParsedInv' /\ EvaluatedInv' /\ ConfirmedIsApproved'
  BY <1>1, UploadEffect
     DEF IInv, ParsedInv, EvaluatedInv, ConfirmedIsApproved, Remaining
<1>7. CompleteIsTrained'
  BY <1>1, UploadEffect DEF IInv, CompleteIsTrained, Remaining
<1> QED BY <1>2, <1>3, <1>4, <1>5, <1>6, <1>7 DEF IInv

LEMMA RequestInv ==
  ASSUME IInv, NEW r \in Request, RequestStep(r)
  PROVE  IInv'
<1>1. TypeOK /\ StartedInv  BY DEF IInv
<1>a. \A w \in Worker : worker[w].pc # "idle" =>
        worker[w].config \in Config /\ worker[w].parsed \in Rows /\ worker[w] # Idle
  BY <1>1, Busy DEF Running
<1>b. \A d \in Config, l \in Line : KeyOf[d][l] \in Key
  BY ConfigAssumption
<1>c. NoField \notin Field /\ Unverified \notin Field
  BY ConfigAssumption
<1>2. TypeOK'  BY <1>1, RequestType
<1>3. LockInv'  BY <1>1, RequestEffect DEF IInv, LockInv
<1>4. StartedInv'
  BY <1>1, <1>a, RequestEffect, Busy DEF StartedInv, TypeOK
<1>5. BegunInv'
  BY <1>1, <1>a, RequestEffect DEF IInv, BegunInv, TypeOK
<1>6. ParsedInv'
  BY <1>1, <1>a, <1>b, <1>c, RequestEffect DEF IInv, ParsedInv, TypeOK, Rows
<1>7. ASSUME NEW d \in Config, Remaining(findings[d]) = {}
      PROVE  findings'[d] = findings[d]
  <2>1. \A l \in Line : findings'[d][l] = findings[d][l]
    BY <1>1, <1>7, RequestEffect DEF Remaining
  <2> QED BY <1>1, <1>2, <2>1 DEF TypeOK, Rows
<1>8. EvaluatedInv'
  BY <1>1, <1>a, <1>7, RequestEffect DEF IInv, EvaluatedInv, Remaining
<1>9. CompleteIsTrained'
  BY <1>1, <1>7, RequestEffect DEF IInv, CompleteIsTrained, Remaining
<1>10. ConfirmedIsApproved'
  BY <1>1, <1>b, <1>c, RequestEffect DEF IInv, ConfirmedIsApproved
<1> QED BY <1>2, <1>3, <1>4, <1>5, <1>6, <1>8, <1>9, <1>10 DEF IInv

LEMMA NextInv ==
  ASSUME IInv, [Next]_vars
  PROVE  IInv'
<1>1. ASSUME NEW w \in Worker, WorkerStep(w) PROVE IInv'
  BY <1>1, WorkerType, WorkerLock, WorkerStarted, WorkerBegun, WorkerParsed,
     WorkerEvaluated, WorkerComplete, WorkerConfirmed DEF IInv
<1>2. CASE Next  BY <1>1, <1>2, UploadInv, RequestInv DEF Next
<1>3. CASE UNCHANGED vars
  BY <1>3 DEF vars, IInv, TypeOK, LockInv, StartedInv, BegunInv, ParsedInv,
              EvaluatedInv, CompleteIsTrained, ConfirmedIsApproved, Remaining
<1> QED BY <1>2, <1>3

\* The inductive invariant holds in every reachable state.
THEOREM Invariance == Spec => []IInv
<1>1. IInv /\ [Next]_vars => IInv'  BY NextInv
<1> QED BY InitInv, <1>1, PTL DEF Spec

\* No audit is complete over a line without an approved field, and its results
\* are those of its stored findings (run_config_audit).
THEOREM CompleteTrained == Spec => []CompleteIsTrained
<1>1. IInv => CompleteIsTrained  BY DEF IInv
<1> QED BY Invariance, <1>1, PTL

\* Findings and learned mappings never disagree (submit_training, resolve).
THEOREM ConfirmedApproved == Spec => []ConfirmedIsApproved
<1>1. IInv => ConfirmedIsApproved  BY DEF IInv
<1> QED BY Invariance, <1>1, PTL
-----------------------------------------------------------------------------
(* AuditLifecycle implements AuditPromise.                                 *)

\* An upload, a duplicate delivery or a broker error submits or fails an audit.
LEMMA UploadPromise ==
  ASSUME IInv, NEW c \in Config, UploadStep(c)
  PROVE  Promise!Next \/ UNCHANGED Promise!vars
<1>1. TypeOK /\ StartedInv  BY DEF IInv
<1>2. CASE Upload(c)
  BY <1>2 DEF Upload, Promise!Next, Promise!Submit
<1>3. CASE MarkDispatchFailed(c)
  <2>1. status[c] \in Promise!Open \cup {"complete"}
    BY <1>1, <1>3 DEF MarkDispatchFailed, StartedInv, TypeOK, Status, Promise!Open
  <2>2. Promise!Progress(c) \/ Promise!Reopen(c)
    BY <1>3, <2>1 DEF MarkDispatchFailed, Promise!Progress, Promise!Reopen,
                      Promise!Open
  <2> QED BY <1>3, <2>2 DEF MarkDispatchFailed, Promise!Next
<1>4. CASE DispatchAudit(c) \/ DispatchAuditRaises(c) \/ UploadCrash(c) \/ Redeliver(c)
  BY <1>4 DEF DispatchAudit, DispatchAuditRaises, UploadCrash, Redeliver, Promise!vars
<1> QED BY <1>2, <1>3, <1>4 DEF UploadStep

\* A worker moves an audit on, fails it, runs a complete one again, or completes
\* one whose lines are all approved.
LEMMA WorkerPromise ==
  ASSUME IInv, NEW w \in Worker, WorkerStep(w)
  PROVE  Promise!Next \/ UNCHANGED Promise!vars
<1> DEFINE c == worker[w].config
<1>1. TypeOK /\ StartedInv /\ BegunInv /\ ParsedInv /\ EvaluatedInv  BY DEF IInv
<1>2. worker[w].pc # "idle" =>
        worker[w] \in Running /\ worker[w] # Idle /\ c \in Config
  BY <1>1, Busy DEF Running
<1>3. worker[w].pc # "idle" => status[c] \in Promise!Open \cup {"complete"}
  BY <1>1, <1>2 DEF StartedInv, TypeOK, Status, Promise!Open
<1>4. CASE BeginNormalising(w)
  <2>1. Promise!Progress(c) \/ Promise!Reopen(c) \/ UNCHANGED status
    BY <1>1, <1>2, <1>3, <1>4 DEF BeginNormalising, Written, TypeOK,
         Promise!Progress, Promise!Reopen, Promise!Open
  <2> QED BY <1>2, <1>4, <2>1 DEF BeginNormalising, Promise!Next
<1>5. CASE PersistAndPause(w)
  <2>1. status[c] # "complete"  BY <1>1, <1>5 DEF PersistAndPause, BegunInv
  <2>2. Promise!Progress(c) \/ UNCHANGED status
    BY <1>1, <1>2, <1>3, <1>5, <2>1 DEF PersistAndPause, Written, TypeOK,
         Promise!Progress, Promise!Open
  <2> QED BY <1>2, <1>5, <2>2 DEF PersistAndPause, Promise!Next
<1>6. CASE PersistAndPass(w)
  <2>1. status[c] # "complete"  BY <1>1, <1>6 DEF PersistAndPass, BegunInv
  <2>2. Promise!Progress(c)
    BY <1>2, <1>3, <1>6, <2>1 DEF PersistAndPass, Promise!Progress, Promise!Open
  <2> QED BY <1>2, <1>6, <2>2 DEF PersistAndPass, Promise!Next
<1>7. CASE CompleteAudit(w)
  <2>1. status[c] \in Promise!Open \ {"queued"}
    BY <1>1, <1>2, <1>3, <1>7 DEF CompleteAudit, BegunInv, StartedInv
  <2>2. \A l \in LinesOf[c] : learned[KeyOf[c][l]] \in Assignable[c]
    <3> SUFFICES ASSUME NEW l \in LinesOf[c]
                 PROVE  learned[KeyOf[c][l]] \in Assignable[c]
      OBVIOUS
    <3>1. l \in Line /\ Assignable[c] \subseteq Field /\ c \in Config
      BY <1>2, <1>7, ConfigAssumption DEF CompleteAudit
    <3>2. worker[w].parsed[l] \in Assignable[c] \cup {Unverified}
      BY <1>1, <1>7, <3>1 DEF CompleteAudit, ParsedInv
    <3>3. worker[w].parsed[l] # Unverified
      BY <1>1, <1>7, <3>1 DEF CompleteAudit, EvaluatedInv, Remaining
    <3> QED BY <1>1, <1>7, <3>1, <3>2, <3>3 DEF CompleteAudit, ParsedInv
  <2>3. Promise!Complete(c)
    BY <1>7, <2>1, <2>2 DEF CompleteAudit, Promise!Complete
  <2> QED BY <1>2, <1>7, <2>3 DEF CompleteAudit, Promise!Next
<1>8. CASE FailAudit(w)
  <2>1. Promise!Progress(c) \/ Promise!Reopen(c)
    BY <1>2, <1>3, <1>8 DEF FailAudit, Promise!Progress, Promise!Reopen, Promise!Open
  <2> QED BY <1>2, <1>8, <2>1 DEF FailAudit, Promise!Next
<1>9. CASE TakeTask(w) \/ FetchConfig(w) \/ ReloadConfig(w) \/ Parse(w)
           \/ ReleaseAuditLock(w) \/ WorkerCrash(w)
  BY <1>9 DEF TakeTask, AcquireAuditLock, IgnoreDuplicate, FetchConfig, ReloadConfig,
              Parse, ReleaseAuditLock, WorkerCrash, Promise!vars
<1> QED BY <1>4, <1>5, <1>6, <1>7, <1>8, <1>9 DEF WorkerStep, RunAudit

\* A training request approves a pattern at most once and reopens its audit.
LEMMA RequestPromise ==
  ASSUME IInv, NEW r \in Request, RequestStep(r)
  PROVE  Promise!Next \/ UNCHANGED Promise!vars
<1> DEFINE c == request[r].config
           k == KeyOf[c][request[r].line]
           f == request[r].field
<1>1. TypeOK /\ StartedInv  BY DEF IInv
<1>2. request[r].pc # "idle" =>
        /\ c \in Config /\ request[r].line \in Line /\ f \in Field
        /\ status[c] \in Promise!Open \cup {"complete"}
  BY <1>1, Busy DEF Serving, StartedInv, TypeOK, Status, Promise!Open
<1>3. request[r].pc # "idle" => k \in Key  BY <1>2, ConfigAssumption
<1>4. ASSUME Approvable(r), request[r].pc = "locking",
             learned' = [learned EXCEPT ![k] = f]
      PROVE  Promise!Approve(k, f) \/ UNCHANGED learned
  BY <1>1, <1>3, <1>4 DEF Approvable, PatternAgrees, TypeOK, NoField, Promise!Approve
<1>5. CASE ApproveLine(r)
  BY <1>2, <1>3, <1>4, <1>5 DEF ApproveLine, Promise!Next
<1>6. CASE ApproveAndClaim(r)
  <2>1. Promise!Approve(k, f) \/ UNCHANGED learned  BY <1>4, <1>6 DEF ApproveAndClaim
  <2>2. Promise!Progress(c) \/ Promise!Reopen(c)
    BY <1>2, <1>6 DEF ApproveAndClaim, Promise!Progress, Promise!Reopen, Promise!Open
  <2> QED BY <1>2, <1>3, <1>6, <2>1, <2>2 DEF ApproveAndClaim, Promise!Next
<1>7. CASE RecoverTraining(r)
  <2>1. Promise!Progress(c) \/ UNCHANGED status
    BY <1>1, <1>2, <1>7 DEF RecoverTraining, TypeOK, Promise!Progress, Promise!Open
  <2> QED BY <1>2, <1>7, <2>1 DEF RecoverTraining, Promise!Next
<1>8. CASE SubmitTraining(r) \/ RejectTraining(r) \/ SendResume(r)
           \/ SendResumeRaises(r) \/ RequestCrash(r)
  BY <1>8 DEF SubmitTraining, ReadConfig, RejectTraining, SendResume,
              SendResumeRaises, RequestCrash, Promise!vars
<1> QED BY <1>5, <1>6, <1>7, <1>8 DEF RequestStep

\* Uploads, workers and training requests together keep the promise of
\* AuditPromise: approvals are final, and only trained audits are complete.
THEOREM Refinement == Spec => PromiseKept
<1>1. Init => Promise!Init
  BY DEF Init, NoField, Promise!Init
<1>2. IInv /\ [Next]_vars => Promise!Next \/ UNCHANGED Promise!vars
  <2> SUFFICES ASSUME IInv, [Next]_vars
               PROVE  Promise!Next \/ UNCHANGED Promise!vars
    OBVIOUS
  <2>1. CASE Next  BY <2>1, UploadPromise, WorkerPromise, RequestPromise DEF Next
  <2>2. CASE UNCHANGED vars  BY <2>2 DEF vars, Promise!vars
  <2> QED BY <2>1, <2>2
<1>3. IInv /\ [Next]_vars => [Promise!Next]_(Promise!vars)  BY <1>2
<1> QED BY Invariance, <1>1, <1>3, PTL DEF Spec, PromiseKept, Promise!Spec
=============================================================================
