--------------------------- MODULE AuditLifecycle ---------------------------
(***************************************************************************)
(* The life of a configuration audit: the upload that stores and queues a  *)
(* configuration, the Celery workers that run run_config_audit under a     *)
(* PostgreSQL advisory lock, and the training requests that approve the    *)
(* lines no parser recognised and resume the audit.                        *)
(*                                                                         *)
(* A step is what the code does between two database commits.  What a      *)
(* process has read earlier stays in its own record, stale or not: a       *)
(* worker's and a request's copy of the status are ORM attributes that are *)
(* reloaded only where the session expires them.                           *)
(***************************************************************************)
EXTENDS Naturals, FiniteSets

CONSTANTS
  Config,      \* rows of the configs table
  Line,        \* source lines the vendor parsers do not recognise themselves
  Field,       \* schema fields an operator may submit, valid or not
  Key,         \* (user_id, vendor, pattern_signature) of a learned mapping
  Worker,      \* Celery worker processes
  Request,     \* training requests being served
  LinesOf,     \* the unrecognised lines of each configuration
  KeyOf,       \* the key a configuration's line is looked up with
  Assignable,  \* the fields each configuration's normalizer accepts
  MaxTasks,    \* bound: messages waiting for one configuration
  MaxFaults    \* bound: crashes, exceptions, duplicates and broker errors

NoField == "none"
Unverified == "unverified"

ASSUME ConfigAssumption ==
  /\ LinesOf \in [Config -> SUBSET Line]
  /\ KeyOf \in [Config -> [Line -> Key]]
  /\ Assignable \in [Config -> SUBSET Field]
  /\ NoField \notin Field
  /\ Unverified \notin Field

ASSUME BoundAssumption == MaxTasks \in Nat /\ MaxFaults \in Nat

VARIABLES
  status,      \* Config.status, "absent" before the upload
  findings,    \* the row of each line: none, unverified or its approved field
  results,     \* the findings the stored results were computed from, if any
  learned,     \* the field of each learned mapping
  lock,        \* the workers holding a configuration's advisory lock
  queue,       \* broker messages waiting per configuration
  upload,      \* where the upload that created a configuration is
  worker,      \* local state of each worker
  request,     \* local state of each training request
  faults       \* faults so far

vars == <<status, findings, results, learned, lock, queue, upload, worker,
          request, faults>>

Status == {"absent", "queued", "normalising", "awaiting_training",
           "compliance_check", "complete", "failed"}
Finding == Field \cup {NoField, Unverified}
Rows == [Line -> Finding]
NoRows == [l \in Line |-> NoField]

WorkerPC == {"idle", "fetch", "begin", "reload", "parse", "gate", "evaluate",
             "release"}
RequestPC == {"idle", "locking", "sending", "recovering"}

Idle == [pc |-> "idle"]
Running == [pc : WorkerPC \ {"idle"}, config : Config, loaded : Status,
            parsed : Rows]
Serving == [pc : RequestPC \ {"idle"}, config : Config, line : Line,
            field : Field, live : BOOLEAN]

TypeOK ==
  /\ status \in [Config -> Status]
  /\ findings \in [Config -> Rows]
  /\ results \in [Config -> SUBSET Rows]
  /\ learned \in [Key -> Field \cup {NoField}]
  /\ lock \in [Config -> SUBSET Worker]
  /\ queue \in [Config -> 0 .. MaxTasks]
  /\ upload \in [Config -> {"none", "sending", "errored", "done"}]
  /\ worker \in [Worker -> Running \cup {Idle}]
  /\ request \in [Request -> Serving \cup {Idle}]
  /\ faults \in 0 .. MaxFaults

Init ==
  /\ status = [c \in Config |-> "absent"]
  /\ findings = [c \in Config |-> NoRows]
  /\ results = [c \in Config |-> {}]
  /\ learned = [k \in Key |-> NoField]
  /\ lock = [c \in Config |-> {}]
  /\ queue = [c \in Config |-> 0]
  /\ upload = [c \in Config |-> "none"]
  /\ worker = [w \in Worker |-> Idle]
  /\ request = [r \in Request |-> Idle]
  /\ faults = 0

-----------------------------------------------------------------------------
(* Faults and messages.                                                    *)

Fault == faults < MaxFaults /\ faults' = faults + 1

\* Mutation: a publish the client library repeats.
EnqueueTwice(c) ==
  /\ queue[c] < MaxTasks
  /\ queue' = [queue EXCEPT ![c] = @ + 2]

\* One more message for c; the broker does not bound its queue, the model does.
Enqueue(c) ==
  /\ queue[c] < MaxTasks
  /\ queue' = [queue EXCEPT ![c] = @ + 1]

\* A publish that raises may or may not have reached the broker.
MaybeEnqueue(c) == Enqueue(c) \/ UNCHANGED queue

\* An ORM assignment emits an UPDATE only when it changes the loaded value.
Written(loaded, current, new) == IF loaded = new THEN current ELSE new

Remaining(rows) == {l \in Line : rows[l] = Unverified}

-----------------------------------------------------------------------------
(* Upload: persist_and_dispatch_configs.                                   *)

Upload(c) ==
  /\ status[c] = "absent"
  /\ status' = [status EXCEPT ![c] = "queued"]
  /\ upload' = [upload EXCEPT ![c] = "sending"]
  /\ UNCHANGED <<findings, results, learned, lock, queue, worker, request, faults>>

\* Mutation: recorded as sent, but never sent.
DispatchLost(c) ==
  /\ upload[c] = "sending"
  /\ upload' = [upload EXCEPT ![c] = "done"]
  /\ UNCHANGED <<status, findings, results, learned, lock, queue, worker,
                 request, faults>>

DispatchAudit(c) ==
  /\ upload[c] = "sending"
  /\ Enqueue(c)
  /\ upload' = [upload EXCEPT ![c] = "done"]
  /\ UNCHANGED <<status, findings, results, learned, lock, worker, request, faults>>

DispatchAuditRaises(c) ==
  /\ upload[c] = "sending"
  /\ Fault
  /\ MaybeEnqueue(c)
  /\ upload' = [upload EXCEPT ![c] = "errored"]
  /\ UNCHANGED <<status, findings, results, learned, lock, worker, request>>

\* The commit after the dispatch loop: written over whatever the row says now.
MarkDispatchFailed(c) ==
  /\ upload[c] = "errored"
  /\ upload' = [upload EXCEPT ![c] = "done"]
  /\ status' = [status EXCEPT ![c] = "failed"]
  /\ UNCHANGED <<findings, results, learned, lock, queue, worker, request, faults>>

\* The API process dies with the rows committed and the message unsent.
UploadCrash(c) ==
  /\ upload[c] \in {"sending", "errored"}
  /\ Fault
  /\ upload' = [upload EXCEPT ![c] = "done"]
  /\ UNCHANGED <<status, findings, results, learned, lock, queue, worker, request>>

\* A message still unacknowledged outlives the visibility timeout.
Redeliver(c) ==
  /\ queue[c] > 0
  /\ Fault
  /\ Enqueue(c)
  /\ UNCHANGED <<status, findings, results, learned, lock, upload, worker, request>>

-----------------------------------------------------------------------------
(* Worker: run_config_audit.                                               *)

\* Mutation: the try-lock's answer is not looked at.
LockUnchecked(c) == TRUE

\* pg_try_advisory_lock on a connection of its own would succeed.
LockFree(c) == lock[c] = {}

\* A worker takes a message (acknowledged at once) and wins the advisory lock.
AcquireAuditLock(w, c) ==
  /\ worker[w] = Idle
  /\ queue[c] > 0
  /\ LockFree(c)
  /\ queue' = [queue EXCEPT ![c] = @ - 1]
  /\ lock' = [lock EXCEPT ![c] = @ \cup {w}]
  /\ worker' = [worker EXCEPT ![w] = [pc |-> "fetch", config |-> c,
                  loaded |-> status[c], parsed |-> NoRows]]
  /\ UNCHANGED <<status, findings, results, learned, upload, request, faults>>

\* Mutation: a message may be dropped although no audit is running.
IgnoreMessage(w, c) ==
  /\ worker[w] = Idle
  /\ queue[c] > 0
  /\ queue' = [queue EXCEPT ![c] = @ - 1]
  /\ UNCHANGED <<status, findings, results, learned, lock, upload, worker,
                 request, faults>>

\* The lock is held: "already running", and the message is gone.
IgnoreDuplicate(w, c) ==
  /\ worker[w] = Idle
  /\ queue[c] > 0
  /\ ~LockFree(c)
  /\ queue' = [queue EXCEPT ![c] = @ - 1]
  /\ UNCHANGED <<status, findings, results, learned, lock, upload, worker,
                 request, faults>>

FetchConfig(w) ==
  /\ worker[w].pc = "fetch"
  /\ worker' = [worker EXCEPT ![w].pc = "begin",
                              ![w].loaded = status[worker[w].config]]
  /\ UNCHANGED <<status, findings, results, learned, lock, queue, upload,
                 request, faults>>

BeginNormalising(w) ==
  LET c == worker[w].config IN
  /\ worker[w].pc = "begin"
  /\ status' = [status EXCEPT
                  ![c] = Written(worker[w].loaded, @, "normalising")]
  /\ worker' = [worker EXCEPT ![w].pc = "reload"]
  /\ UNCHANGED <<findings, results, learned, lock, queue, upload, request, faults>>

\* The commit expired the row; reading user_id loads it again.
ReloadConfig(w) ==
  /\ worker[w].pc = "reload"
  /\ worker' = [worker EXCEPT ![w].pc = "parse",
                              ![w].loaded = status[worker[w].config]]
  /\ UNCHANGED <<status, findings, results, learned, lock, queue, upload,
                 request, faults>>

\* A line takes the field of its learned mapping if the normalizer accepts it.
Normalised(c) ==
  [l \in Line |->
     IF l \notin LinesOf[c] THEN NoField
     ELSE IF learned[KeyOf[c][l]] \in Assignable[c] THEN learned[KeyOf[c][l]]
     ELSE Unverified]

\* The mappings are read at once; the code queries them line by line (matcher.py:228).
Parse(w) ==
  /\ worker[w].pc = "parse"
  /\ worker' = [worker EXCEPT ![w].pc = "gate",
                              ![w].parsed = Normalised(worker[w].config)]
  /\ UNCHANGED <<status, findings, results, learned, lock, queue, upload,
                 request, faults>>

\* Mutation: the audit goes on with lines that have no approved field.
NeverRequired(rows) == FALSE

\* Unknown lines stop the audit, whether or not a proposal was stored for them.
TrainingRequired(rows) == Remaining(rows) # {}

\* Deleting and inserting the rows makes the ids that requests hold dangle.
DropRows(c) ==
  request' = [r \in Request |->
    IF request[r] # Idle /\ request[r].config = c /\ request[r].pc = "locking"
      THEN [request[r] EXCEPT !.live = FALSE] ELSE request[r]]

PersistAndPause(w) ==
  LET c == worker[w].config IN
  /\ worker[w].pc = "gate"
  /\ TrainingRequired(worker[w].parsed)
  /\ findings' = [findings EXCEPT ![c] = worker[w].parsed]
  /\ DropRows(c)
  /\ status' = [status EXCEPT
                  ![c] = Written(worker[w].loaded, @, "awaiting_training")]
  /\ worker' = [worker EXCEPT ![w].pc = "release"]
  /\ UNCHANGED <<results, learned, lock, queue, upload, faults>>

PersistAndPass(w) ==
  LET c == worker[w].config IN
  /\ worker[w].pc = "gate"
  /\ ~TrainingRequired(worker[w].parsed)
  /\ findings' = [findings EXCEPT ![c] = worker[w].parsed]
  /\ DropRows(c)
  /\ status' = [status EXCEPT ![c] = "compliance_check"]
  /\ worker' = [worker EXCEPT ![w].pc = "evaluate"]
  /\ UNCHANGED <<results, learned, lock, queue, upload, faults>>

\* Results, score, report and status in one commit.
CompleteAudit(w) ==
  LET c == worker[w].config IN
  /\ worker[w].pc = "evaluate"
  /\ results' = [results EXCEPT ![c] = {worker[w].parsed}]
  /\ status' = [status EXCEPT ![c] = "complete"]
  /\ worker' = [worker EXCEPT ![w].pc = "release"]
  /\ UNCHANGED <<findings, learned, lock, queue, upload, request, faults>>

\* Any exception once the row is loaded: roll back, write failed.
FailAudit(w) ==
  /\ worker[w].pc \in {"begin", "reload", "parse", "gate", "evaluate"}
  /\ Fault
  /\ status' = [status EXCEPT ![worker[w].config] = "failed"]
  /\ worker' = [worker EXCEPT ![w].pc = "release"]
  /\ UNCHANGED <<findings, results, learned, lock, queue, upload, request>>

ReleaseAuditLock(w) ==
  LET c == worker[w].config IN
  /\ worker[w].pc = "release"
  /\ lock' = [lock EXCEPT ![c] = @ \ {w}]
  /\ worker' = [worker EXCEPT ![w] = Idle]
  /\ UNCHANGED <<status, findings, results, learned, queue, upload, request, faults>>

\* The process is killed: its connections close, so the lock goes with it.
WorkerCrash(w) ==
  /\ worker[w] # Idle
  /\ Fault
  /\ lock' = [lock EXCEPT ![worker[w].config] = @ \ {w}]
  /\ worker' = [worker EXCEPT ![w] = Idle]
  /\ UNCHANGED <<status, findings, results, learned, queue, upload, request>>

-----------------------------------------------------------------------------
(* Training: submit_training.                                              *)

\* The ownership check loads the row; its status is never read again from the
\* database, because the locked query returns the object already in the session.
ReadConfig(r, c, l, f) ==
  /\ request[r] = Idle
  /\ status[c] = "awaiting_training"
  /\ findings[c][l] # NoField
  /\ request' = [request EXCEPT ![r] = [pc |-> "locking", config |-> c,
                   line |-> l, field |-> f, live |-> TRUE]]
  /\ UNCHANGED <<status, findings, results, learned, lock, queue, upload,
                 worker, faults>>

\* Mutation: an existing mapping is taken to be for the same field.
PatternUnchecked(q) == TRUE

\* The line's pattern has no mapping yet, or one to the submitted field.
PatternAgrees(q) == learned[KeyOf[q.config][q.line]] \in {NoField, q.field}

\* The finding still exists and is unverified, or confirmed as this very field.
Approvable(r) ==
  LET q == request[r] IN
  /\ q.live
  /\ findings[q.config][q.line] \in {Unverified, q.field}
  /\ PatternAgrees(q)

\* 404 or 409: nothing is written.
RejectTraining(r) ==
  /\ request[r].pc = "locking"
  /\ ~Approvable(r)
  /\ request' = [request EXCEPT ![r] = Idle]
  /\ UNCHANGED <<status, findings, results, learned, lock, queue, upload,
                 worker, faults>>

\* The transaction under the row locks, when lines are still unverified.
ApproveLine(r) ==
  LET q == request[r]
      rows == [findings[q.config] EXCEPT ![q.line] = q.field] IN
  /\ request[r].pc = "locking"
  /\ Approvable(r)
  /\ Remaining(rows) # {}
  /\ findings' = [findings EXCEPT ![q.config] = rows]
  /\ learned' = [learned EXCEPT ![KeyOf[q.config][q.line]] = q.field]
  /\ request' = [request EXCEPT ![r] = Idle]
  /\ UNCHANGED <<status, results, lock, queue, upload, worker, faults>>

\* The last line is confirmed: the same transaction claims the resume.
ApproveAndClaim(r) ==
  LET q == request[r]
      rows == [findings[q.config] EXCEPT ![q.line] = q.field] IN
  /\ request[r].pc = "locking"
  /\ Approvable(r)
  /\ Remaining(rows) = {}
  /\ findings' = [findings EXCEPT ![q.config] = rows]
  /\ learned' = [learned EXCEPT ![KeyOf[q.config][q.line]] = q.field]
  /\ status' = [status EXCEPT ![q.config] = "normalising"]
  /\ request' = [request EXCEPT ![r].pc = "sending"]
  /\ UNCHANGED <<results, lock, queue, upload, worker, faults>>

SendResume(r) ==
  /\ request[r].pc = "sending"
  /\ Enqueue(request[r].config)
  /\ request' = [request EXCEPT ![r] = Idle]
  /\ UNCHANGED <<status, findings, results, learned, lock, upload, worker, faults>>

SendResumeRaises(r) ==
  /\ request[r].pc = "sending"
  /\ Fault
  /\ MaybeEnqueue(request[r].config)
  /\ request' = [request EXCEPT ![r].pc = "recovering"]
  /\ UNCHANGED <<status, findings, results, learned, lock, upload, worker>>

\* Back to awaiting_training, unless a worker has moved the row on.
RecoverTraining(r) ==
  LET c == request[r].config IN
  /\ request[r].pc = "recovering"
  /\ status' = [status EXCEPT
                  ![c] = IF @ = "normalising" THEN "awaiting_training" ELSE @]
  /\ request' = [request EXCEPT ![r] = Idle]
  /\ UNCHANGED <<findings, results, learned, lock, queue, upload, worker, faults>>

\* The API process dies between the claim and the dispatch or its recovery.
RequestCrash(r) ==
  /\ request[r].pc \in {"sending", "recovering"}
  /\ Fault
  /\ request' = [request EXCEPT ![r] = Idle]
  /\ UNCHANGED <<status, findings, results, learned, lock, queue, upload, worker>>

-----------------------------------------------------------------------------
UploadStep(c) ==
  \/ Upload(c) \/ DispatchAudit(c) \/ DispatchAuditRaises(c)
  \/ MarkDispatchFailed(c) \/ UploadCrash(c) \/ Redeliver(c)

TakeTask(w) == \E c \in Config : AcquireAuditLock(w, c) \/ IgnoreDuplicate(w, c)

RunAudit(w) ==
  \/ FetchConfig(w) \/ BeginNormalising(w) \/ ReloadConfig(w) \/ Parse(w)
  \/ PersistAndPause(w) \/ PersistAndPass(w) \/ CompleteAudit(w)
  \/ ReleaseAuditLock(w)

WorkerStep(w) == TakeTask(w) \/ RunAudit(w) \/ FailAudit(w) \/ WorkerCrash(w)

SubmitTraining(r) ==
  \E c \in Config, l \in Line, f \in Field : ReadConfig(r, c, l, f)

RequestStep(r) ==
  \/ SubmitTraining(r) \/ RejectTraining(r) \/ ApproveLine(r)
  \/ ApproveAndClaim(r) \/ SendResume(r) \/ SendResumeRaises(r)
  \/ RecoverTraining(r) \/ RequestCrash(r)

Next ==
  \/ \E c \in Config : UploadStep(c)
  \/ \E w \in Worker : WorkerStep(w)
  \/ \E r \in Request : RequestStep(r)

Spec == Init /\ [][Next]_vars

\* Workers that keep running and an API that finishes what it accepted; an
\* operator is never obliged to train anything.
Fairness ==
  /\ \A w \in Worker : WF_vars(TakeTask(w)) /\ WF_vars(RunAudit(w))
  /\ \A c \in Config : WF_vars(DispatchAudit(c)) /\ WF_vars(MarkDispatchFailed(c))
  /\ \A r \in Request :
       /\ WF_vars(RejectTraining(r)) /\ WF_vars(ApproveLine(r))
       /\ WF_vars(ApproveAndClaim(r)) /\ WF_vars(SendResume(r))
       /\ WF_vars(RecoverTraining(r))

FairSpec == Spec /\ Fairness

-----------------------------------------------------------------------------
(* Properties.                                                             *)

\* A complete audit rests on stored results that were computed from exactly the
\* findings now stored, and none of those waits for an operator: whatever
\* duplicates, crashes and late training requests did, no report was produced
\* over an unapproved line (run_config_audit's gate and advisory lock).
CompleteIsTrained ==
  \A c \in Config : status[c] = "complete" =>
    results[c] = {findings[c]} /\ Remaining(findings[c]) = {}

\* Every confirmed line shows the field its pattern was approved for: the copy
\* in the finding and the copy in learned_mappings never disagree, also when
\* two configurations share the pattern (submit_training, resolve).
ConfirmedIsApproved ==
  \A c \in Config, l \in Line :
    findings[c][l] \in Field => learned[KeyOf[c][l]] = findings[c][l]

\* What a caller of the system relies on, see AuditPromise.
Promise == INSTANCE AuditPromise WITH phase <- status, book <- learned
PromiseKept == Promise!Spec

\* The comment in submit_training: the row lock "ensures only one request
\* claims the resume".  Without faults a configuration would then never have
\* more than one audit message sent or about to be sent.
OneResumeClaim ==
  \A c \in Config :
    queue[c] + Cardinality({r \in Request :
      request[r].pc = "sending" /\ request[r].config = c}) <= 1

\* A configuration claimed for a resume has something left that will resume it:
\* a message, a request about to send one, or a worker.
ResumeNotLost ==
  \A c \in Config : status[c] = "normalising" =>
    \/ lock[c] # {}
    \/ queue[c] > 0
    \/ \E r \in Request :
         request[r].pc \in {"sending", "recovering"} /\ request[r].config = c

\* AI_HANDOFF: training "converts the finding to confirmed only after operator
\* approval; a resumed audit rebuilds it from the approved learned mapping as
\* confirmed".  No step turns a confirmed line back into one that waits.
ConfirmedStaysConfirmed ==
  [][\A c \in Config, l \in Line :
       findings[c][l] \in Field => findings'[c][l] \in Field]_vars

\* Without faults, an uploaded configuration is eventually audited, paused for training or
\* failed: it does not stay queued.
QueuedIsAnswered ==
  \A c \in Config :
    status[c] = "queued" ~>
      status[c] \in {"awaiting_training", "complete", "failed"} \/ faults > 0

\* Without faults, a resume message that finds the advisory lock free leads to
\* an answer: the paused audit completes or pauses again.
ResumeIsAnswered ==
  \A c \in Config :
    status[c] = "normalising" /\ queue[c] > 0 /\ lock[c] = {} ~>
      status[c] \in {"awaiting_training", "complete", "failed"} \/ faults > 0
=============================================================================
