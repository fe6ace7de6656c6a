------------------------ MODULE AuditSchedulesProofs ------------------------
(***************************************************************************)
(* Proofs about AuditSchedules for every set of schedules, credentials,    *)
(* pollers, workers and requests, every set of PATCH bodies and every      *)
(* bound.                                                                  *)
(***************************************************************************)
EXTENDS AuditSchedules, TLAPS

-----------------------------------------------------------------------------
(* Type correctness.                                                       *)

\* The initial rows, tasks and messages are of their types.
LEMMA InitTypeOK == Init => TypeOK
  <1> SUFFICES ASSUME Init PROVE TypeOK
    OBVIOUS
  <1>1. Stored \subseteq Credential
    BY DEF Stored
  <1>2. credential \in [Credential -> {"absent", "stored", "revoked"}]
        /\ reference \in [Schedule -> Credential \cup {None}]
    BY <1>1 DEF Init
  <1>3. enabled \in [Schedule -> BOOLEAN] /\ status \in [Schedule -> Status]
    BY DEF Init, Status, NoRow
  <1>4. failures \in [Schedule -> 0 .. Threshold] /\ due \in [Schedule -> BOOLEAN]
        /\ sends \in [Schedule -> Nat]
    BY ScheduleAssumption DEF Init, ScheduleAssumption
  <1>5. job \in [Schedule -> [0 .. MaxRetries -> 0 .. MaxMessages]]
    BY ScheduleAssumption DEF Init, ScheduleAssumption
  <1>6. poller \in [Poller -> Polling \cup {Idle}]
        /\ worker \in [Worker -> Running \cup Ingested \cup {Idle}]
        /\ request \in [Request -> Patching \cup {Idle}]
    BY DEF Init
  <1>7. patches \in 0 .. MaxPatches /\ faults \in 0 .. MaxFaults
    BY ScheduleAssumption DEF Init, ScheduleAssumption
  <1>8. down \in BOOLEAN
    BY DEF Init
  <1> QED
    BY <1>2, <1>3, <1>4, <1>5, <1>6, <1>7, <1>8 DEF TypeOK

\* A fault keeps within its budget.
LEMMA FaultType ==
  ASSUME TypeOK, Fault
  PROVE  faults' \in 0 .. MaxFaults
  BY ScheduleAssumption DEF TypeOK, Fault, ScheduleAssumption

\* A publication adds one message, or none when the broker holds as many alike as
\* are told apart.
LEMMA EnqueueType ==
  ASSUME TypeOK, NEW s \in Schedule, NEW n \in 0 .. MaxRetries, Enqueue(s, n)
  PROVE  job' \in [Schedule -> [0 .. MaxRetries -> 0 .. MaxMessages]]
  <1>1. job[s] \in [0 .. MaxRetries -> 0 .. MaxMessages] /\ MaxMessages \in Nat
    BY ScheduleAssumption DEF TypeOK, ScheduleAssumption
  <1> DEFINE k == IF job[s][n] < MaxMessages THEN job[s][n] + 1 ELSE job[s][n]
  <1>2. k \in 0 .. MaxMessages
    <2>1. job[s][n] \in 0 .. MaxMessages
      BY <1>1
    <2> QED
      BY <1>1, <2>1
  <1>3. job' = [job EXCEPT ![s] = [job[s] EXCEPT ![n] = k]]
    BY DEF Enqueue, TypeOK
  <1> HIDE DEF k
  <1>4. [job[s] EXCEPT ![n] = k] \in [0 .. MaxRetries -> 0 .. MaxMessages]
    BY <1>1, <1>2
  <1> QED
    BY <1>3, <1>4 DEF TypeOK

\* Taking a message removes it, or costs a fault.
LEMMA TakeType ==
  ASSUME TypeOK, NEW s \in Schedule, NEW n \in 0 .. MaxRetries, Take(s, n)
  PROVE  /\ job' \in [Schedule -> [0 .. MaxRetries -> 0 .. MaxMessages]]
         /\ faults' \in 0 .. MaxFaults
  <1>1. CASE job' = [job EXCEPT ![s][n] = @ - 1] /\ UNCHANGED faults
    BY <1>1, ScheduleAssumption DEF TypeOK, Take, ScheduleAssumption
  <1>2. CASE Fault /\ UNCHANGED job
    BY <1>2, FaultType DEF TypeOK
  <1> QED
    BY <1>1, <1>2 DEF Take

\* The counter of a failed run stays within its threshold, the row within its type.
LEMMA WriteFailureType ==
  ASSUME TypeOK, NEW w \in Worker, NEW written \in BOOLEAN,
         worker[w] \in Running \cup Ingested, WriteFailure(w, written)
  PROVE  /\ enabled' \in [Schedule -> BOOLEAN]
         /\ status' \in [Schedule -> Status]
         /\ failures' \in [Schedule -> 0 .. Threshold]
  <1> DEFINE s == worker[w].schedule
  <1>1. s \in Schedule /\ worker[w].failures \in 0 .. Threshold
    BY DEF Running, Ingested
  <1>2. Counted(worker[w].failures) \in 0 .. Threshold
    BY <1>1, ScheduleAssumption DEF Counted, ScheduleAssumption
  <1>3. Quarantined(w) \in BOOLEAN
    BY DEF Quarantined
  <1>4. CASE ~Exists(s)
    BY <1>4 DEF WriteFailure, TypeOK
  <1>5. CASE Exists(s)
    <2>1. failures' = [failures EXCEPT ![s] = Counted(worker[w].failures)]
      BY <1>5 DEF WriteFailure
    <2>2. enabled' = [enabled EXCEPT ![s] = @ /\ ~Quarantined(w)]
      BY <1>5 DEF WriteFailure
    <2>3. status' = [status EXCEPT ![s] = IF Quarantined(w) THEN "auto_disabled"
                                          ELSE IF written THEN "failed" ELSE @]
      BY <1>5 DEF WriteFailure
    <2>4. status' \in [Schedule -> Status]
      BY <2>3, <1>1 DEF TypeOK, Status, NoRow
    <2>5. enabled' \in [Schedule -> BOOLEAN]
      BY <2>2, <1>1, <1>3 DEF TypeOK
    <2> QED
      BY <2>1, <2>4, <2>5, <1>1, <1>2 DEF TypeOK
  <1> QED
    BY <1>4, <1>5

\* The row a PATCH writes is of the row's type.
LEMMA PatchType ==
  ASSUME TypeOK, NEW r \in Request, request[r] # Idle
  PROVE  /\ request[r].schedule \in Schedule
         /\ request[r].reference \in Credential \cup {None}
         /\ Patched(request[r]).reference \in Credential \cup {None}
         /\ Patched(request[r]).enabled \in BOOLEAN
         /\ Patched(request[r]).status \in Status
         /\ Patched(request[r]).failures \in 0 .. Threshold
  <1> DEFINE q == request[r]
             a == Attached(q)
  <1>1. q \in Patching
    BY DEF TypeOK
  <1>2. q.body \in Body
    BY <1>1 DEF Patching
  <1>3. {"awaiting_credential", "disabled", "scheduled"} \subseteq Status
    BY DEF Status
  <1>4. a \in Patching
    <2>1. CASE ~q.body.attach
      BY <2>1, <1>1 DEF Attached
    <2>2. CASE q.body.attach /\ q.body.credential = None
      BY <2>2, <1>1, <1>3 DEF Attached, Patching
    <2>3. CASE q.body.attach /\ q.body.credential # None
      <3>1. q.body.credential \in Credential
        BY <2>3, <1>2 DEF Body
      <3>2. (IF q.status = "awaiting_credential" THEN "disabled" ELSE q.status) \in Status
        BY <1>1, <1>3 DEF Patching
      <3>3. a = [q EXCEPT !.reference = q.body.credential,
                          !.status = IF q.status = "awaiting_credential"
                                     THEN "disabled" ELSE q.status]
        BY <2>3 DEF Attached
      <3> QED
        BY <1>1, <3>1, <3>2, <3>3 DEF Patching
    <2> QED
      BY <2>1, <2>2, <2>3
  <1>5. Patched(q) \in Patching
    <2>1. CASE q.body.enabled = "unset"
      BY <2>1, <1>4 DEF Patched
    <2>2. CASE q.body.enabled = "off"
      BY <2>2, <1>4, <1>3 DEF Patched, Patching
    <2>3. CASE q.body.enabled = "on" /\ a.reference = None
      BY <2>3, <1>4, <1>3 DEF Patched, Patching
    <2>4. CASE q.body.enabled = "on" /\ a.reference # None
      <3>1. 0 \in 0 .. Threshold
        BY ScheduleAssumption DEF ScheduleAssumption
      <3>2. Patched(q) = [a EXCEPT !.enabled = TRUE, !.status = "scheduled", !.failures = 0]
        BY <2>4 DEF Patched
      <3> HIDE DEF a
      <3> QED
        BY <3>1, <3>2, <1>4, <1>3 DEF Patching
    <2> QED
      BY <2>1, <2>2, <2>3, <2>4, <1>2 DEF Body
  <1> QED
    BY <1>1, <1>5 DEF Patching

-----------------------------------------------------------------------------
\* The steps of operators keep the types.
LEMMA OperateTypeOK ==
  ASSUME TypeOK, Operate
  PROVE  TypeOK'
  <1>1. ASSUME NEW c \in Credential, CreateCredential(c)
        PROVE  TypeOK'
    BY <1>1 DEF TypeOK, CreateCredential, rows
  <1>2. ASSUME NEW c \in Credential, RevokeCredential(c)
        PROVE  TypeOK'
    <2> DEFINE attached == {s \in Schedule : Exists(s) /\ reference[s] = c}
    <2>1. credential' \in [Credential -> {"absent", "stored", "revoked"}]
      BY <1>2 DEF TypeOK, RevokeCredential
    <2>2. reference' = [s \in Schedule |-> IF s \in attached THEN None ELSE reference[s]]
          /\ enabled' = [s \in Schedule |-> enabled[s] /\ s \notin attached]
          /\ status' = [s \in Schedule |->
                          IF s \in attached THEN "awaiting_credential" ELSE status[s]]
      BY <1>2 DEF RevokeCredential
    <2>3. reference' \in [Schedule -> Credential \cup {None}]
      BY <2>2 DEF TypeOK
    <2>4. enabled' \in [Schedule -> BOOLEAN]
      BY <2>2 DEF TypeOK
    <2>5. status' \in [Schedule -> Status]
      BY <2>2 DEF TypeOK, Status
    <2> QED
      BY <2>1, <2>3, <2>4, <2>5, <1>2 DEF TypeOK, RevokeCredential
  <1>3. ASSUME NEW s \in Schedule, NEW c \in Credential \cup {None}, NEW e \in BOOLEAN,
               CreateSchedule(s, c, e)
        PROVE  TypeOK'
    <2>1. enabled' \in [Schedule -> BOOLEAN]
      BY <1>3 DEF TypeOK, CreateSchedule
    <2>2. reference' \in [Schedule -> Credential \cup {None}]
      BY <1>3 DEF TypeOK, CreateSchedule
    <2>3. status' \in [Schedule -> Status]
      BY <1>3 DEF TypeOK, CreateSchedule, Status
    <2> QED
      BY <1>3, <2>1, <2>2, <2>3 DEF TypeOK, CreateSchedule
  <1>4. ASSUME NEW s \in Schedule, DeleteSchedule(s)
        PROVE  TypeOK'
    <2>1. enabled' \in [Schedule -> BOOLEAN] /\ due' \in [Schedule -> BOOLEAN]
      BY <1>4 DEF TypeOK, DeleteSchedule
    <2>2. reference' \in [Schedule -> Credential \cup {None}]
          /\ failures' \in [Schedule -> 0 .. Threshold]
      BY <1>4, ScheduleAssumption DEF TypeOK, DeleteSchedule, ScheduleAssumption
    <2>3. status' \in [Schedule -> Status]
      BY <1>4 DEF TypeOK, DeleteSchedule, Status, NoRow
    <2> QED
      BY <1>4, <2>1, <2>2, <2>3 DEF TypeOK, DeleteSchedule
  <1>5. ASSUME NEW r \in Request, NEW s \in Schedule, NEW body \in Bodies,
               ReadPatch(r, s, body)
        PROVE  TypeOK'
    <2> DEFINE q == [pc |-> "patch", schedule |-> s, body |-> body,
                     reference |-> reference[s], enabled |-> enabled[s],
                     status |-> status[s], failures |-> failures[s]]
    <2>1. body \in Body
      BY ScheduleAssumption DEF ScheduleAssumption, Body
    <2>2. q \in Patching
      BY <2>1 DEF TypeOK, Patching
    <2>3. request' \in [Request -> Patching \cup {Idle}]
      BY <1>5, <2>2 DEF TypeOK, ReadPatch
    <2>4. patches' \in 0 .. MaxPatches
      BY <1>5, ScheduleAssumption DEF TypeOK, ReadPatch, ScheduleAssumption
    <2> QED
      BY <1>5, <2>3, <2>4 DEF TypeOK, ReadPatch, rows
  <1> QED
    BY <1>1, <1>2, <1>3, <1>4, <1>5 DEF Operate

\* The commit of a PATCH keeps them.
LEMMA CommitPatchTypeOK ==
  ASSUME TypeOK, NEW r \in Request, CommitPatch(r)
  PROVE  TypeOK'
  <1> DEFINE q == request[r]
             s == q.schedule
             new == Patched(q)
  <1>1. q # Idle
    BY DEF CommitPatch
  <1>2. s \in Schedule /\ new.reference \in Credential \cup {None}
        /\ new.enabled \in BOOLEAN /\ new.status \in Status /\ new.failures \in 0 .. Threshold
    BY <1>1, PatchType
  <1> HIDE DEF new
  <1>3. /\ reference' = [reference EXCEPT ![s] = Written(q.reference, @, new.reference)]
        /\ enabled' = [enabled EXCEPT ![s] = Written(q.enabled, @, new.enabled)]
        /\ status' = [status EXCEPT ![s] = Written(q.status, @, new.status)]
        /\ failures' = [failures EXCEPT ![s] = Written(q.failures, @, new.failures)]
        /\ due' = [due EXCEPT ![s] = @ /\ ~Rescheduled(q)]
        /\ request' = [request EXCEPT ![r] = Idle]
    BY DEF CommitPatch, new
  <1>4. reference' \in [Schedule -> Credential \cup {None}]
    BY <1>2, <1>3 DEF TypeOK, Written
  <1>5. status' \in [Schedule -> Status]
    BY <1>2, <1>3 DEF TypeOK, Written
  <1>6. failures' \in [Schedule -> 0 .. Threshold]
    BY <1>2, <1>3 DEF TypeOK, Written
  <1>7. enabled' \in [Schedule -> BOOLEAN]
    BY <1>2, <1>3 DEF TypeOK, Written
  <1>8. due' \in [Schedule -> BOOLEAN]
    BY <1>2, <1>3 DEF TypeOK
  <1>9. request' \in [Request -> Patching \cup {Idle}]
    BY <1>3 DEF TypeOK
  <1> QED
    BY <1>4, <1>5, <1>6, <1>7, <1>8, <1>9 DEF TypeOK, CommitPatch

\* The steps of a poll, its crash and a refused publication keep them.
LEMMA PollTypeOK ==
  ASSUME TypeOK, NEW p \in Poller,
         Poll(p) \/ PollCrash(p) \/ \E s \in Schedule : PollRefused(p, s)
  PROVE  TypeOK'
  <1>1. CASE BeginPoll(p)
    <2>1. Due \subseteq Schedule
      BY DEF Due
    <2>2. [pc |-> "polling", todo |-> Due, sent |-> {}, refused |-> {}] \in Polling
      BY <2>1 DEF Polling
    <2>3. poller' \in [Poller -> Polling \cup {Idle}]
      BY <1>1, <2>2 DEF TypeOK, BeginPoll
    <2> QED
      BY <1>1, <2>3 DEF TypeOK, BeginPoll, rows
  <1>2. CASE CommitPoll(p)
    <2>1. status' = [s \in Schedule |->
            IF s \in poller[p].sent THEN "queued"
            ELSE IF s \in poller[p].refused THEN "dispatch_failed" ELSE status[s]]
      BY <1>2 DEF CommitPoll
    <2>2. status' \in [Schedule -> Status]
      BY <2>1 DEF TypeOK, Status
    <2>3. due' \in [Schedule -> BOOLEAN] /\ poller' \in [Poller -> Polling \cup {Idle}]
      BY <1>2 DEF TypeOK, CommitPoll
    <2> QED
      BY <1>2, <2>2, <2>3 DEF TypeOK, CommitPoll
  <1>3. ASSUME NEW s \in Schedule, PollSend(p, s)
        PROVE  TypeOK'
    <2>1. poller[p] \in Polling
      BY <1>3 DEF TypeOK, PollSend
    <2>2. poller' = [poller EXCEPT ![p] = [poller[p] EXCEPT !.todo = @ \ {s},
                                                            !.sent = @ \cup {s}]]
      BY <1>3 DEF TypeOK, PollSend
    <2>3. [poller[p] EXCEPT !.todo = @ \ {s}, !.sent = @ \cup {s}] \in Polling
      BY <2>1 DEF Polling
    <2>4. poller' \in [Poller -> Polling \cup {Idle}]
      BY <2>2, <2>3 DEF TypeOK
    <2>5. job' \in [Schedule -> [0 .. MaxRetries -> 0 .. MaxMessages]]
      <3>1. 0 \in 0 .. MaxRetries /\ Enqueue(s, 0)
        BY <1>3, ScheduleAssumption DEF PollSend, ScheduleAssumption
      <3> QED
        BY <3>1, EnqueueType
    <2>6. sends' \in [Schedule -> Nat]
      BY <1>3 DEF TypeOK, PollSend
    <2> QED
      BY <1>3, <2>4, <2>5, <2>6 DEF TypeOK, PollSend, rows
  <1>4. ASSUME NEW s \in Schedule, PollRefused(p, s)
        PROVE  TypeOK'
    <2>1. poller[p] \in Polling
      BY <1>4 DEF TypeOK, PollRefused
    <2>2. poller' = [poller EXCEPT ![p] = [poller[p] EXCEPT !.todo = @ \ {s},
                                                            !.refused = @ \cup {s}]]
      BY <1>4 DEF TypeOK, PollRefused
    <2>3. [poller[p] EXCEPT !.todo = @ \ {s}, !.refused = @ \cup {s}] \in Polling
      BY <2>1 DEF Polling
    <2>4. poller' \in [Poller -> Polling \cup {Idle}]
      BY <2>2, <2>3 DEF TypeOK
    <2>5. faults' \in 0 .. MaxFaults
      BY <1>4, FaultType DEF PollRefused
    <2> QED
      BY <1>4, <2>4, <2>5 DEF TypeOK, PollRefused, rows
  <1>5. CASE PollCrash(p)
    <2>1. faults' \in 0 .. MaxFaults /\ poller' \in [Poller -> Polling \cup {Idle}]
      BY <1>5, FaultType DEF TypeOK, PollCrash
    <2> QED
      BY <1>5, <2>1 DEF TypeOK, PollCrash, rows
  <1> QED
    BY <1>1, <1>2, <1>3, <1>4, <1>5 DEF Poll

\* What a worker at work holds.
LEMMA WorkerType ==
  ASSUME TypeOK, NEW w \in Worker
  PROVE  /\ At(w, "loaded") \/ At(w, "pulling") => worker[w] \in Running
         /\ At(w, "stored") => worker[w] \in Ingested
  BY DEF TypeOK, At, Running, Ingested, Idle

\* The steps of a worker keep them.
LEMMA RunTypeOK ==
  ASSUME TypeOK, NEW w \in Worker, Run(w) \/ WorkerCrash(w)
  PROVE  TypeOK'
  <1>1. ASSUME NEW s \in Schedule, NEW n \in 0 .. MaxRetries, LoadSchedule(w, s, n)
        PROVE  TypeOK'
    <2> DEFINE run == [pc |-> "loaded", schedule |-> s, retries |-> n,
                       reference |-> reference[s],
                       loaded |-> IF status[s] \in {"failed", "awaiting_credential"}
                                  THEN status[s] ELSE "other",
                       failures |-> failures[s]]
    <2>1. run \in Running
      BY DEF TypeOK, Running
    <2>2. worker' = [worker EXCEPT ![w] = run]
      BY <1>1 DEF LoadSchedule
    <2> HIDE DEF run
    <2>3. worker' \in [Worker -> Running \cup Ingested \cup {Idle}]
      BY <2>1, <2>2 DEF TypeOK
    <2>4. job' \in [Schedule -> [0 .. MaxRetries -> 0 .. MaxMessages]]
          /\ faults' \in 0 .. MaxFaults
      BY <1>1, TakeType DEF LoadSchedule
    <2> QED
      BY <1>1, <2>3, <2>4 DEF TypeOK, LoadSchedule, rows
  <1>2. ASSUME NEW s \in Schedule, NEW n \in 0 .. MaxRetries, SkipRun(w, s, n)
        PROVE  TypeOK'
    <2>1. job' \in [Schedule -> [0 .. MaxRetries -> 0 .. MaxMessages]]
          /\ faults' \in 0 .. MaxFaults
      BY <1>2, TakeType DEF SkipRun
    <2> QED
      BY <1>2, <2>1 DEF TypeOK, SkipRun, rows
  <1>3. CASE AwaitCredential(w)
    <2> DEFINE s == worker[w].schedule
    <2>1. s \in Schedule /\ worker[w].loaded \in {"failed", "awaiting_credential", "other"}
      BY <1>3, WorkerType DEF AwaitCredential, Running
    <2>2. enabled' = [enabled EXCEPT ![s] = FALSE]
          /\ status' = [status EXCEPT ![s] = IF Exists(s)
                           THEN Written(worker[w].loaded, @, "awaiting_credential") ELSE @]
      BY <1>3 DEF AwaitCredential
    <2>3. status' \in [Schedule -> Status]
      BY <2>1, <2>2 DEF TypeOK, Written, Status
    <2>4. enabled' \in [Schedule -> BOOLEAN]
      BY <2>2 DEF TypeOK
    <2>5. worker' \in [Worker -> Running \cup Ingested \cup {Idle}]
      BY <1>3 DEF TypeOK, AwaitCredential
    <2> QED
      BY <1>3, <2>3, <2>4, <2>5 DEF TypeOK, AwaitCredential
  <1>4. CASE StartPull(w)
    <2>1. worker[w] \in Running
      BY <1>4, WorkerType DEF StartPull
    <2>2. worker' = [worker EXCEPT ![w] = [worker[w] EXCEPT !.pc = "pulling"]]
      BY <1>4 DEF TypeOK, StartPull
    <2>3. [worker[w] EXCEPT !.pc = "pulling"] \in Running
      BY <2>1 DEF Running
    <2>4. worker' \in [Worker -> Running \cup Ingested \cup {Idle}]
      BY <2>2, <2>3 DEF TypeOK
    <2> QED
      BY <1>4, <2>4 DEF TypeOK, StartPull, rows
  <1>5. ASSUME NEW unreachable \in BOOLEAN, NEW written \in BOOLEAN,
               PullFails(w, unreachable, written)
        PROVE  TypeOK'
    <2> DEFINE s == worker[w].schedule
               n == worker[w].retries
               retry == unreachable /\ ~Quarantined(w) /\ n < MaxRetries /\ Exists(s)
    <2>1. worker[w] \in Running
      BY <1>5, WorkerType DEF PullFails
    <2>2. s \in Schedule /\ n \in 0 .. MaxRetries
      BY <2>1 DEF Running
    <2>3. /\ enabled' \in [Schedule -> BOOLEAN]
          /\ status' \in [Schedule -> Status]
          /\ failures' \in [Schedule -> 0 .. Threshold]
      BY <1>5, <2>1, WriteFailureType DEF PullFails
    <2>4. \/ retry /\ Enqueue(s, n + 1) /\ UNCHANGED faults
          \/ ~retry /\ UNCHANGED <<job, faults>>
          \/ retry /\ Fault /\ UNCHANGED job
      BY <1>5 DEF PullFails
    <2>5. retry => n + 1 \in 0 .. MaxRetries
      BY <2>2, ScheduleAssumption DEF ScheduleAssumption
    <2>6. /\ job' \in [Schedule -> [0 .. MaxRetries -> 0 .. MaxMessages]]
          /\ faults' \in 0 .. MaxFaults
      <3>1. CASE retry /\ Enqueue(s, n + 1) /\ UNCHANGED faults
        BY <3>1, <2>2, <2>5, EnqueueType DEF TypeOK
      <3>2. CASE ~retry /\ UNCHANGED <<job, faults>>
        BY <3>2 DEF TypeOK
      <3>3. CASE retry /\ Fault /\ UNCHANGED job
        BY <3>3, FaultType DEF TypeOK
      <3> QED
        BY <2>4, <3>1, <3>2, <3>3
    <2>7. worker' \in [Worker -> Running \cup Ingested \cup {Idle}]
      BY <1>5 DEF TypeOK, PullFails
    <2> QED
      BY <1>5, <2>3, <2>6, <2>7 DEF TypeOK, PullFails
  <1>6. ASSUME NEW errors \in BOOLEAN, StoreConfig(w, errors)
        PROVE  TypeOK'
    <2> DEFINE s == worker[w].schedule
               run == [pc |-> "stored", schedule |-> s, errors |-> errors,
                       failures |-> failures[s]]
    <2>1. s \in Schedule
      BY <1>6, WorkerType DEF StoreConfig, Running
    <2>2. run \in Ingested
      BY <2>1 DEF TypeOK, Ingested
    <2>3. worker' = [worker EXCEPT ![w] = run] \/ worker' = [worker EXCEPT ![w] = Idle]
      BY <1>6 DEF StoreConfig
    <2> HIDE DEF run
    <2>4. worker' \in [Worker -> Running \cup Ingested \cup {Idle}]
      BY <2>2, <2>3 DEF TypeOK
    <2> QED
      BY <1>6, <2>4 DEF TypeOK, StoreConfig, rows
  <1>7. CASE RecordSuccess(w)
    <2> DEFINE s == worker[w].schedule
    <2>1. s \in Schedule
      BY <1>7, WorkerType DEF RecordSuccess, Ingested
    <2>2. status' = [status EXCEPT ![s] = IF Exists(s) THEN "success" ELSE @]
          /\ failures' = [failures EXCEPT ![s] = IF Exists(s) THEN 0 ELSE @]
          /\ worker' = [worker EXCEPT ![w] = Idle]
      BY <1>7 DEF RecordSuccess
    <2>3. status' \in [Schedule -> Status]
      BY <2>1, <2>2 DEF TypeOK, Status
    <2>4. failures' \in [Schedule -> 0 .. Threshold]
      <3>1. 0 \in 0 .. Threshold
        BY ScheduleAssumption DEF ScheduleAssumption
      <3> QED
        BY <3>1, <2>1, <2>2 DEF TypeOK
    <2>5. worker' \in [Worker -> Running \cup Ingested \cup {Idle}]
      BY <2>2 DEF TypeOK
    <2> QED
      BY <1>7, <2>3, <2>4, <2>5 DEF TypeOK, RecordSuccess
  <1>8. CASE RecordDispatchFailure(w)
    <2>1. worker[w] \in Ingested
      BY <1>8, WorkerType DEF RecordDispatchFailure
    <2>2. /\ enabled' \in [Schedule -> BOOLEAN]
          /\ status' \in [Schedule -> Status]
          /\ failures' \in [Schedule -> 0 .. Threshold]
      BY <1>8, <2>1, WriteFailureType DEF RecordDispatchFailure
    <2>3. worker' \in [Worker -> Running \cup Ingested \cup {Idle}]
      BY <1>8 DEF TypeOK, RecordDispatchFailure
    <2> QED
      BY <1>8, <2>2, <2>3 DEF TypeOK, RecordDispatchFailure
  <1>9. CASE WorkerCrash(w)
    <2>1. faults' \in 0 .. MaxFaults
          /\ worker' \in [Worker -> Running \cup Ingested \cup {Idle}]
      BY <1>9, FaultType DEF TypeOK, WorkerCrash
    <2> QED
      BY <1>9, <2>1 DEF TypeOK, WorkerCrash, rows
  <1> QED
    BY <1>1, <1>2, <1>3, <1>4, <1>5, <1>6, <1>7, <1>8, <1>9 DEF Run

\* Every step does.
LEMMA NextTypeOK ==
  ASSUME TypeOK, [Next]_vars
  PROVE  TypeOK'
  <1>1. ASSUME NEW s \in Schedule, Tick(s)
        PROVE  TypeOK'
    <2>1. due' \in [Schedule -> BOOLEAN] /\ sends' \in [Schedule -> Nat]
      BY <1>1 DEF TypeOK, Tick
    <2> QED
      BY <1>1, <2>1 DEF TypeOK, Tick
  <1>2. CASE DeviceDies
    BY <1>2 DEF TypeOK, DeviceDies, rows
  <1>3. CASE UNCHANGED vars
    BY <1>3 DEF TypeOK, vars, rows
  <1> QED
    BY <1>1, <1>2, <1>3, OperateTypeOK, CommitPatchTypeOK, PollTypeOK, RunTypeOK
       DEF Next, Environment

\* Type correctness: every row, message and task of the schedules has its type.
THEOREM TypeCorrect == Spec => []TypeOK
  BY InitTypeOK, NextTypeOK, PTL DEF Spec

-----------------------------------------------------------------------------
(* An enabled schedule refers to a stored credential.                      *)

\* The device lock admits one PATCH at a time between its reads and its commit.
OnePatch ==
  \A r, o \in Request : request[r] # Idle /\ request[o] # Idle => r = o

\* What a PATCH has read still tells what its commit may do: the reference is the
\* row's, the credential of its body is stored, and the row exists and is not
\* enabled behind its back.
PatchIsCurrent ==
  \A r \in Request : request[r] # Idle =>
    LET q == request[r] IN
    /\ q.reference = reference[q.schedule]
    /\ q.body.attach => q.body.credential \in Stored \cup {None}
    /\ q.status \notin NoRow /\ Exists(q.schedule)
    /\ enabled[q.schedule] => q.enabled
    /\ q.enabled => q.reference # None

\* No row keeps the reference of a credential that is gone.
ReferenceStored ==
  \A s \in Schedule : /\ reference[s] \in Stored \cup {None}
                      /\ Exists(s) \/ reference[s] = None
                      /\ enabled[s] => reference[s] # None

CredentialInv == OnePatch /\ PatchIsCurrent /\ ReferenceStored

\* Nothing enables, attaches or deletes a row behind a PATCH: a step that leaves
\* credentials, references and requests alone, enables no row and keeps every row
\* keeps the invariant.
LEMMA DisablingStep ==
  ASSUME TypeOK, CredentialInv, UNCHANGED <<credential, reference, request>>,
         \A s \in Schedule : enabled'[s] => enabled[s],
         \A s \in Schedule : Exists(s) => Exists(s)'
  PROVE  CredentialInv'
  <1>1. Stored' = Stored
    BY DEF Stored
  <1>2. OnePatch'
    BY DEF CredentialInv, OnePatch
  <1>3. PatchIsCurrent'
    <2>1. \A r \in Request : request[r] # Idle => request[r].schedule \in Schedule
      BY PatchType
    <2> QED
      BY <1>1, <2>1 DEF CredentialInv, PatchIsCurrent
  <1>4. ReferenceStored'
    BY <1>1 DEF CredentialInv, ReferenceStored
  <1> QED
    BY <1>2, <1>3, <1>4 DEF CredentialInv

\* A failed run enables no row and keeps every row.
LEMMA WriteFailureDisables ==
  ASSUME TypeOK, NEW w \in Worker, NEW written \in BOOLEAN,
         worker[w] \in Running \cup Ingested, WriteFailure(w, written)
  PROVE  /\ \A s \in Schedule : enabled'[s] => enabled[s]
         /\ \A s \in Schedule : Exists(s) => Exists(s)'
  <1> DEFINE k == worker[w].schedule
  <1>1. k \in Schedule
    BY DEF Running, Ingested
  <1>2. CASE ~Exists(k)
    BY <1>2 DEF WriteFailure, Exists
  <1>3. CASE Exists(k)
    <2>1. enabled' = [enabled EXCEPT ![k] = @ /\ ~Quarantined(w)]
      BY <1>3 DEF WriteFailure
    <2>2. status' = [status EXCEPT ![k] = IF Quarantined(w) THEN "auto_disabled"
                                          ELSE IF written THEN "failed" ELSE @]
      BY <1>3 DEF WriteFailure
    <2>3. \A s \in Schedule : enabled'[s] => enabled[s]
      BY <2>1, <1>1 DEF TypeOK
    <2>4. \A s \in Schedule : Exists(s) => Exists(s)'
      BY <2>2, <1>1 DEF TypeOK, Exists, NoRow
    <2> QED
      BY <2>3, <2>4
  <1> QED
    BY <1>2, <1>3

\* Neither do time, the polls, the runs and the faults.
LEMMA BackgroundCredential ==
  ASSUME TypeOK, CredentialInv,
         \/ \E s \in Schedule : Tick(s)
         \/ \E p \in Poller : Poll(p)
         \/ \E w \in Worker : Run(w)
         \/ Environment
         \/ UNCHANGED vars
  PROVE  CredentialInv'
  <1>1. UNCHANGED <<credential, reference, request>>
    <2>1. CASE \E s \in Schedule : Tick(s)
      BY <2>1 DEF Tick
    <2>2. CASE \E p \in Poller : Poll(p)
      BY <2>2 DEF Poll, BeginPoll, CommitPoll, PollSend, rows
    <2>3. CASE \E w \in Worker : Run(w)
      <3> PICK w \in Worker : Run(w)
        BY <2>3
      <3>1. ASSUME NEW s \in Schedule, NEW n \in 0 .. MaxRetries,
                   LoadSchedule(w, s, n) \/ SkipRun(w, s, n)
            PROVE  UNCHANGED <<credential, reference, request>>
        BY <3>1 DEF LoadSchedule, SkipRun, rows
      <3>2. ASSUME NEW unreachable \in BOOLEAN, NEW written \in BOOLEAN,
                   PullFails(w, unreachable, written)
            PROVE  UNCHANGED <<credential, reference, request>>
        BY <3>2 DEF PullFails
      <3>3. ASSUME NEW errors \in BOOLEAN, StoreConfig(w, errors)
            PROVE  UNCHANGED <<credential, reference, request>>
        BY <3>3 DEF StoreConfig, rows
      <3>4. CASE AwaitCredential(w) \/ StartPull(w) \/ RecordSuccess(w)
                 \/ RecordDispatchFailure(w)
        BY <3>4 DEF AwaitCredential, StartPull, RecordSuccess, RecordDispatchFailure, rows
      <3> QED
        BY <3>1, <3>2, <3>3, <3>4 DEF Run
    <2>4. CASE Environment
      BY <2>4 DEF Environment, PollCrash, PollRefused, WorkerCrash, DeviceDies, rows
    <2>5. CASE UNCHANGED vars
      BY <2>5 DEF vars, rows
    <2> QED
      BY <2>1, <2>2, <2>3, <2>4, <2>5
  <1> DEFINE Disables == /\ \A s \in Schedule : enabled'[s] => enabled[s]
                         /\ \A s \in Schedule : Exists(s) => Exists(s)'
  <1>2. ASSUME UNCHANGED <<enabled, status>>
        PROVE  Disables
    BY <1>2 DEF Exists
  <1>3. ASSUME NEW p \in Poller, CommitPoll(p)
        PROVE  Disables
    BY <1>3 DEF TypeOK, CommitPoll, Exists, NoRow
  <1>4. ASSUME NEW w \in Worker, AwaitCredential(w)
        PROVE  Disables
    <2> DEFINE k == worker[w].schedule
    <2>1. k \in Schedule
      BY <1>4, WorkerType DEF AwaitCredential, Running
    <2>2. enabled' = [enabled EXCEPT ![k] = FALSE]
          /\ status' = [status EXCEPT ![k] = IF Exists(k)
                           THEN Written(worker[w].loaded, @, "awaiting_credential") ELSE @]
      BY <1>4 DEF AwaitCredential
    <2>3. \A s \in Schedule : enabled'[s] => enabled[s]
      BY <2>1, <2>2 DEF TypeOK
    <2>4. \A s \in Schedule : Exists(s) => Exists(s)'
      BY <2>1, <2>2 DEF TypeOK, Exists, NoRow, Written
    <2> QED
      BY <2>3, <2>4
  <1>5. ASSUME NEW w \in Worker, NEW unreachable \in BOOLEAN, NEW written \in BOOLEAN,
               PullFails(w, unreachable, written)
        PROVE  Disables
    BY <1>5, WorkerType, WriteFailureDisables DEF PullFails
  <1>6. ASSUME NEW w \in Worker, RecordSuccess(w)
        PROVE  Disables
    <2> DEFINE k == worker[w].schedule
    <2>1. k \in Schedule
      BY <1>6, WorkerType DEF RecordSuccess, Ingested
    <2>2. status' = [status EXCEPT ![k] = IF Exists(k) THEN "success" ELSE @]
          /\ UNCHANGED enabled
      BY <1>6 DEF RecordSuccess
    <2> QED
      BY <2>1, <2>2 DEF TypeOK, Exists, NoRow
  <1>7. ASSUME NEW w \in Worker, RecordDispatchFailure(w)
        PROVE  Disables
    BY <1>7, WorkerType, WriteFailureDisables DEF RecordDispatchFailure
  <1>8. Disables
    <2>1. CASE \E s \in Schedule : Tick(s)
      BY <2>1, <1>2 DEF Tick
    <2>2. CASE \E p \in Poller : Poll(p)
      BY <2>2, <1>2, <1>3 DEF Poll, BeginPoll, PollSend, rows
    <2>3. CASE \E w \in Worker : Run(w)
      BY <2>3, <1>2, <1>4, <1>5, <1>6, <1>7 DEF Run, LoadSchedule, SkipRun, StartPull,
         StoreConfig, rows
    <2>4. CASE Environment
      BY <2>4, <1>2 DEF Environment, PollCrash, PollRefused, WorkerCrash, DeviceDies, rows
    <2>5. CASE UNCHANGED vars
      BY <2>5, <1>2 DEF vars, rows
    <2> QED
      BY <2>1, <2>2, <2>3, <2>4, <2>5
  <1> QED
    BY <1>1, <1>8, DisablingStep

\* Credentials and schedules are created, revoked and deleted only while no PATCH
\* is between its reads and its commit.
LEMMA OperateCredential ==
  ASSUME TypeOK, CredentialInv, Operate
  PROVE  CredentialInv'
  <1>1. ASSUME DeviceFree, UNCHANGED request, ReferenceStored'
        PROVE  CredentialInv'
    BY <1>1 DEF DeviceFree, CredentialInv, OnePatch, PatchIsCurrent
  <1>2. ASSUME NEW c \in Credential, CreateCredential(c)
        PROVE  CredentialInv'
    <2>1. Stored \subseteq Stored'
      BY <1>2 DEF TypeOK, CreateCredential, Stored
    <2>2. ReferenceStored'
      BY <1>2, <2>1 DEF CreateCredential, CredentialInv, ReferenceStored, Exists, rows
    <2> QED
      BY <1>1, <1>2, <2>2 DEF CreateCredential
  <1>3. ASSUME NEW c \in Credential, RevokeCredential(c)
        PROVE  CredentialInv'
    <2> DEFINE attached == {s \in Schedule : Exists(s) /\ reference[s] = c}
    <2>1. Stored' = Stored \ {c}
      BY <1>3 DEF TypeOK, RevokeCredential, Stored
    <2>2. reference' = [s \in Schedule |-> IF s \in attached THEN None ELSE reference[s]]
          /\ enabled' = [s \in Schedule |-> enabled[s] /\ s \notin attached]
          /\ status' = [s \in Schedule |->
                          IF s \in attached THEN "awaiting_credential" ELSE status[s]]
      BY <1>3 DEF RevokeCredential
    <2>3. ASSUME NEW s \in Schedule
          PROVE  /\ reference'[s] \in Stored' \cup {None}
                 /\ Exists(s)' \/ reference'[s] = None
                 /\ enabled'[s] => reference'[s] # None
      <3>1. CASE s \in attached
        BY <3>1, <2>2 DEF Exists, NoRow
      <3>2. CASE s \notin attached
        BY <3>2, <2>1, <2>2, ScheduleAssumption
           DEF CredentialInv, ReferenceStored, Exists, ScheduleAssumption
      <3> QED
        BY <3>1, <3>2
    <2> QED
      BY <1>1, <1>3, <2>3 DEF RevokeCredential, ReferenceStored
  <1>4. ASSUME NEW s \in Schedule, NEW c \in Credential \cup {None}, NEW e \in BOOLEAN,
               CreateSchedule(s, c, e)
        PROVE  CredentialInv'
    <2>1. Stored' = Stored
      BY <1>4 DEF CreateSchedule, Stored
    <2>2. enabled' = [enabled EXCEPT ![s] = e /\ c # None]
          /\ reference' = [reference EXCEPT ![s] = c]
          /\ status' = [status EXCEPT ![s] =
               IF c = None THEN "awaiting_credential"
               ELSE IF e THEN "scheduled" ELSE "disabled"]
          /\ c \in Stored \cup {None}
      BY <1>4 DEF CreateSchedule
    <2>3. ASSUME NEW k \in Schedule
          PROVE  /\ reference'[k] \in Stored' \cup {None}
                 /\ Exists(k)' \/ reference'[k] = None
                 /\ enabled'[k] => reference'[k] # None
      BY <2>1, <2>2 DEF TypeOK, CredentialInv, ReferenceStored, Exists, NoRow
    <2> QED
      BY <1>1, <1>4, <2>3 DEF CreateSchedule, ReferenceStored
  <1>5. ASSUME NEW s \in Schedule, DeleteSchedule(s)
        PROVE  CredentialInv'
    <2>1. Stored' = Stored
      BY <1>5 DEF DeleteSchedule, Stored
    <2>2. ReferenceStored'
      BY <1>5, <2>1 DEF TypeOK, DeleteSchedule, CredentialInv, ReferenceStored, Exists
    <2> QED
      BY <1>1, <1>5, <2>2 DEF DeleteSchedule
  <1>6. ASSUME NEW r \in Request, NEW s \in Schedule, NEW body \in Bodies,
               ReadPatch(r, s, body)
        PROVE  CredentialInv'
    <2> DEFINE q == [pc |-> "patch", schedule |-> s, body |-> body,
                     reference |-> reference[s], enabled |-> enabled[s],
                     status |-> status[s], failures |-> failures[s]]
    <2>1. Stored' = Stored /\ UNCHANGED <<reference, enabled, status>>
      BY <1>6 DEF ReadPatch, Stored, rows
    <2>2. request' = [request EXCEPT ![r] = q] /\ \A o \in Request : request[o] = Idle
      BY <1>6 DEF ReadPatch, DeviceFree
    <2>3. \A o \in Request : request'[o] # Idle => o = r /\ request'[o] = q
      BY <2>2 DEF TypeOK
    <2>4. ReferenceStored'
      BY <2>1 DEF CredentialInv, ReferenceStored, Exists
    <2>5. OnePatch'
      BY <2>3 DEF OnePatch
    <2>6. /\ body.attach => body.credential \in Stored \cup {None}
          /\ Exists(s)
          /\ enabled[s] => reference[s] # None
      BY <1>6 DEF ReadPatch, CredentialInv, ReferenceStored
    <2>7. PatchIsCurrent'
      BY <2>1, <2>3, <2>6 DEF PatchIsCurrent, Exists
    <2> QED
      BY <2>4, <2>5, <2>7 DEF CredentialInv
  <1> QED
    BY <1>2, <1>3, <1>4, <1>5, <1>6 DEF Operate

\* A PATCH that finds its schedule as it read it leaves an enabled row with a
\* reference, and the reference with a stored credential.
LEMMA PatchedReference ==
  ASSUME TypeOK, CredentialInv, NEW r \in Request, request[r] # Idle
  PROVE  LET q == request[r] IN
         /\ Patched(q).reference \in Stored \cup {None}
         /\ Patched(q).enabled => Patched(q).reference # None
         /\ Patched(q).status \notin NoRow
  <1> DEFINE q == request[r]
             a == Attached(q)
  <1>1. q \in Patching /\ q.schedule \in Schedule /\ q.body \in Body
    BY PatchType DEF TypeOK, Patching
  <1>2. /\ q.reference \in Stored \cup {None}
        /\ q.body.attach => q.body.credential \in Stored \cup {None}
        /\ q.status \notin NoRow
        /\ q.enabled => q.reference # None
    BY <1>1 DEF CredentialInv, PatchIsCurrent, ReferenceStored
  <1>3. /\ a.reference \in Stored \cup {None}
        /\ a.enabled => a.reference # None
        /\ a.status \notin NoRow
    <2>1. CASE ~q.body.attach
      BY <2>1, <1>2 DEF Attached
    <2>2. CASE q.body.attach /\ q.body.credential = None
      <3>1. a = [q EXCEPT !.reference = None, !.enabled = FALSE,
                          !.status = "awaiting_credential"]
        BY <2>2 DEF Attached
      <3>2. a.reference = None /\ a.enabled = FALSE /\ a.status = "awaiting_credential"
        BY <3>1, <1>1 DEF Patching
      <3> QED
        BY <3>2 DEF NoRow
    <2>3. CASE q.body.attach /\ q.body.credential # None
      <3>1. a = [q EXCEPT !.reference = q.body.credential,
                          !.status = IF q.status = "awaiting_credential"
                                     THEN "disabled" ELSE q.status]
        BY <2>3 DEF Attached
      <3>2. a.reference = q.body.credential
            /\ a.status \in {"disabled", q.status}
        BY <3>1, <1>1 DEF Patching
      <3> QED
        BY <3>2, <2>3, <1>2 DEF NoRow
    <2> QED
      BY <2>1, <2>2, <2>3
  <1>4. a \in Patching
    <2>1. {"awaiting_credential", "disabled"} \subseteq Status
      BY DEF Status
    <2>2. q.body.attach /\ q.body.credential # None => q.body.credential \in Credential
      BY <1>1 DEF Body
    <2> QED
      BY <1>1, <2>1, <2>2 DEF Attached, Patching
  <1> HIDE DEF a
  <1>5. CASE q.body.enabled = "unset"
    BY <1>5, <1>3 DEF Patched, a
  <1>6. CASE q.body.enabled = "off"
    <2>1. Patched(q) = [a EXCEPT !.enabled = FALSE, !.status = "disabled"]
      BY <1>6 DEF Patched, a
    <2> QED
      BY <2>1, <1>3, <1>4 DEF Patching, NoRow
  <1>7. CASE q.body.enabled = "on"
    <2>1. Patched(q) = IF a.reference = None
                THEN [a EXCEPT !.enabled = FALSE, !.status = "awaiting_credential"]
                ELSE [a EXCEPT !.enabled = TRUE, !.status = "scheduled",
                               !.failures = 0]
      BY <1>7 DEF Patched, a
    <2> QED
      BY <2>1, <1>3, <1>4 DEF Patching, NoRow
  <1> QED
    BY <1>5, <1>6, <1>7, <1>1 DEF Body

\* Its commit therefore keeps the invariant.
LEMMA CommitPatchCredential ==
  ASSUME TypeOK, CredentialInv, NEW r \in Request, CommitPatch(r)
  PROVE  CredentialInv'
  <1> DEFINE q == request[r]
             k == q.schedule
             new == Patched(q)
  <1>1. q # Idle /\ k \in Schedule
    BY PatchType DEF CommitPatch
  <1>2. /\ new.reference \in Stored \cup {None}
        /\ new.enabled => new.reference # None
        /\ new.status \notin NoRow
        /\ new.enabled \in BOOLEAN
    BY <1>1, PatchedReference, PatchType
  <1>3. /\ q.reference = reference[k]
        /\ Exists(k)
        /\ enabled[k] => q.enabled
    BY <1>1 DEF CredentialInv, PatchIsCurrent
  <1> HIDE DEF new
  <1>4. /\ reference' = [reference EXCEPT ![k] = Written(q.reference, @, new.reference)]
        /\ enabled' = [enabled EXCEPT ![k] = Written(q.enabled, @, new.enabled)]
        /\ status' = [status EXCEPT ![k] = Written(q.status, @, new.status)]
        /\ request' = [request EXCEPT ![r] = Idle]
        /\ UNCHANGED credential
    BY DEF CommitPatch, new
  <1>5. \A o \in Request : request'[o] = Idle
    BY <1>1, <1>4 DEF TypeOK, CredentialInv, OnePatch
  <1>6. reference' = [reference EXCEPT ![k] = new.reference]
    BY <1>3, <1>4 DEF Written
  <1>7. enabled'[k] => new.enabled
    BY <1>1, <1>3, <1>4 DEF TypeOK, Written
  <1>8. status'[k] \notin NoRow
    BY <1>1, <1>2, <1>3, <1>4 DEF TypeOK, Written, Exists
  <1>9. ASSUME NEW s \in Schedule
        PROVE  /\ reference'[s] \in Stored' \cup {None}
               /\ Exists(s)' \/ reference'[s] = None
               /\ enabled'[s] => reference'[s] # None
    <2>1. Stored' = Stored
      BY <1>4 DEF Stored
    <2>2. CASE s = k
      BY <2>1, <2>2, <1>1, <1>2, <1>6, <1>7, <1>8 DEF TypeOK, Exists
    <2>3. CASE s # k
      <3>1. reference'[s] = reference[s] /\ enabled'[s] = enabled[s] /\ status'[s] = status[s]
        BY <2>3, <1>4 DEF TypeOK
      <3> QED
        BY <3>1, <2>1 DEF CredentialInv, ReferenceStored, Exists
    <2> QED
      BY <2>2, <2>3
  <1> QED
    BY <1>5, <1>9 DEF CredentialInv, OnePatch, PatchIsCurrent, ReferenceStored

\* Credentials held: an enabled schedule refers to a stored credential, whatever
\* order revocations, PATCH requests, polls and runs come in.
THEOREM CredentialHeld == Spec => []EnabledHasCredential
  <1>1. Init => CredentialInv
    <2> SUFFICES ASSUME Init PROVE CredentialInv
      OBVIOUS
    <2>1. ReferenceStored
      BY DEF Init, ReferenceStored, Exists, NoRow
    <2>2. OnePatch /\ PatchIsCurrent
      BY DEF Init, OnePatch, PatchIsCurrent
    <2> QED
      BY <2>1, <2>2 DEF CredentialInv
  <1>2. TypeOK /\ CredentialInv /\ [Next]_vars => CredentialInv'
    BY BackgroundCredential, OperateCredential, CommitPatchCredential DEF Next
  <1>3. CredentialInv => EnabledHasCredential
    BY DEF CredentialInv, ReferenceStored, EnabledHasCredential
  <1> QED
    BY <1>1, <1>2, <1>3, TypeCorrect, PTL DEF Spec

-----------------------------------------------------------------------------
(* A schedule that came due is sent once.                                  *)

Busy(p) == poller[p] # Idle

\* A row is held by one poll, which has it still to send, sent or refused.
HeldOnce ==
  /\ \A p, o \in Poller : Busy(p) /\ Busy(o) /\ p # o => RowsHeld(p) \cap RowsHeld(o) = {}
  /\ \A p \in Poller : Busy(p) =>
       /\ poller[p].todo \cap poller[p].sent = {}
       /\ poller[p].todo \cap poller[p].refused = {}
       /\ poller[p].sent \cap poller[p].refused = {}

\* Only crashes let a row be sent before the poll that holds it sends it: a row a
\* poll has yet to send, or a due one that no poll under way has sent, was sent no
\* more often than there were faults.
SentByCrashes ==
  /\ \A p \in Poller : Busy(p) => \A s \in poller[p].todo : sends[s] <= faults
  /\ \A s \in Schedule : due[s] =>
       sends[s] <= faults \/ \E p \in Poller : Busy(p) /\ s \in poller[p].sent

SendInv == HeldOnce /\ SentByCrashes /\ DispatchedOnce

\* Steps that leave the polls alone and make no row due keep the invariant.
LEMMA QuietStep ==
  ASSUME TypeOK, TypeOK', SendInv, UNCHANGED <<poller, sends>>,
         faults' = faults \/ faults' = faults + 1,
         \A s \in Schedule : due'[s] => due[s]
  PROVE  SendInv'
  <1>1. faults \in Nat /\ faults' \in Nat /\ faults <= faults'
    BY ScheduleAssumption DEF TypeOK, ScheduleAssumption
  <1>2. \A s \in Schedule : sends[s] \in Nat
    BY DEF TypeOK
  <1>3. HeldOnce'
    BY DEF SendInv, HeldOnce, Busy, RowsHeld
  <1>4. ASSUME NEW p \in Poller, Busy(p)', NEW s \in poller'[p].todo
        PROVE  sends'[s] <= faults'
    <2>1. Busy(p) /\ s \in poller[p].todo /\ s \in Schedule
      BY <1>4 DEF Busy, TypeOK, Polling
    <2>2. sends[s] <= faults
      BY <2>1 DEF SendInv, SentByCrashes
    <2> QED
      BY <2>1, <2>2, <1>1, <1>2
  <1>5. ASSUME NEW s \in Schedule, due'[s]
        PROVE  sends'[s] <= faults' \/ \E p \in Poller : Busy(p)' /\ s \in poller'[p].sent
    <2>1. sends[s] <= faults \/ \E p \in Poller : Busy(p) /\ s \in poller[p].sent
      BY <1>5 DEF SendInv, SentByCrashes
    <2> QED
      BY <2>1, <1>1, <1>2 DEF Busy
  <1>6. \A s \in Schedule : sends'[s] <= 1 + faults'
    BY <1>1, <1>2 DEF SendInv, DispatchedOnce
  <1> QED
    BY <1>3, <1>4, <1>5, <1>6 DEF SendInv, SentByCrashes, DispatchedOnce

\* The clock makes a row due with no publication so far.
LEMMA TickSends ==
  ASSUME TypeOK, SendInv, NEW k \in Schedule, Tick(k)
  PROVE  SendInv'
  <1>1. faults' = faults /\ faults \in Nat /\ poller' = poller
    BY ScheduleAssumption DEF TypeOK, Tick, ScheduleAssumption
  <1>2. /\ sends'[k] = 0
        /\ \A s \in Schedule : s # k => sends'[s] = sends[s] /\ (due'[s] => due[s])
    BY DEF TypeOK, Tick
  <1>3. HeldOnce'
    BY <1>1 DEF SendInv, HeldOnce, Busy, RowsHeld
  <1>4. ASSUME NEW p \in Poller, Busy(p)', NEW s \in poller'[p].todo
        PROVE  sends'[s] <= faults'
    <2>1. Busy(p) /\ s \in poller[p].todo /\ s \in Schedule
      BY <1>1, <1>4 DEF Busy, TypeOK, Polling
    <2> QED
      BY <2>1, <1>1, <1>2 DEF SendInv, SentByCrashes
  <1>5. \A s \in Schedule : due'[s] =>
          sends'[s] <= faults' \/ \E p \in Poller : Busy(p)' /\ s \in poller'[p].sent
    BY <1>1, <1>2 DEF SendInv, SentByCrashes, Busy
  <1>6. \A s \in Schedule : sends'[s] <= 1 + faults'
    BY <1>1, <1>2 DEF SendInv, DispatchedOnce
  <1> QED
    BY <1>3, <1>4, <1>5, <1>6 DEF SendInv, SentByCrashes, DispatchedOnce

\* A poll takes due rows that no other poll holds.
LEMMA BeginPollSends ==
  ASSUME TypeOK, SendInv, NEW p \in Poller, BeginPoll(p)
  PROVE  SendInv'
  <1>1. UNCHANGED <<sends, due, faults>> /\ ~Busy(p)
    BY DEF BeginPoll, rows, Busy
  <1>2. poller' = [poller EXCEPT ![p] =
          [pc |-> "polling", todo |-> Due, sent |-> {}, refused |-> {}]]
    BY DEF BeginPoll
  <1>3. /\ poller'[p].todo = Due /\ poller'[p].sent = {} /\ poller'[p].refused = {}
        /\ \A o \in Poller : o # p => poller'[o] = poller[o]
    BY <1>2 DEF TypeOK
  <1>4. \A o \in Poller : o # p /\ Busy(o) => RowsHeld(o) \cap Due = {}
    BY DEF Due, RowLocked, Busy
  <1>5. RowsHeld(p)' = Due
    BY <1>3 DEF RowsHeld
  <1>6. HeldOnce'
    <2>1. ASSUME NEW a \in Poller, NEW b \in Poller, Busy(a)', Busy(b)', a # b
          PROVE  RowsHeld(a)' \cap RowsHeld(b)' = {}
      <3>1. CASE a = p
        <4>1. RowsHeld(b)' = RowsHeld(b) /\ Busy(b)
          BY <2>1, <3>1, <1>3 DEF RowsHeld, Busy
        <4> QED
          BY <4>1, <3>1, <2>1, <1>4, <1>5
      <3>2. CASE b = p
        <4>1. RowsHeld(a)' = RowsHeld(a) /\ Busy(a)
          BY <2>1, <3>2, <1>3 DEF RowsHeld, Busy
        <4> QED
          BY <4>1, <3>2, <2>1, <1>4, <1>5
      <3>3. CASE a # p /\ b # p
        BY <2>1, <3>3, <1>3 DEF SendInv, HeldOnce, RowsHeld, Busy
      <3> QED
        BY <3>1, <3>2, <3>3
    <2>2. ASSUME NEW o \in Poller, Busy(o)'
          PROVE  /\ poller'[o].todo \cap poller'[o].sent = {}
                 /\ poller'[o].todo \cap poller'[o].refused = {}
                 /\ poller'[o].sent \cap poller'[o].refused = {}
      BY <2>2, <1>3 DEF SendInv, HeldOnce, Busy
    <2> QED
      BY <2>1, <2>2 DEF HeldOnce
  <1>7. ASSUME NEW s \in Due
        PROVE  sends[s] <= faults
    <2>1. s \in Schedule /\ due[s] /\ ~RowLocked(s)
      BY DEF Due
    <2>2. ~\E o \in Poller : Busy(o) /\ s \in poller[o].sent
      BY <2>1 DEF RowLocked, RowsHeld, Busy
    <2> QED
      BY <2>1, <2>2 DEF SendInv, SentByCrashes
  <1>8. ASSUME NEW o \in Poller, Busy(o)', NEW s \in poller'[o].todo
        PROVE  sends'[s] <= faults'
    <2>1. CASE o = p
      BY <2>1, <1>1, <1>3, <1>7, <1>8
    <2>2. CASE o # p
      BY <2>2, <1>1, <1>3, <1>8 DEF SendInv, SentByCrashes, Busy
    <2> QED
      BY <2>1, <2>2
  <1>9. ASSUME NEW s \in Schedule, due'[s]
        PROVE  sends'[s] <= faults' \/ \E o \in Poller : Busy(o)' /\ s \in poller'[o].sent
    <2>1. CASE sends[s] <= faults
      BY <2>1, <1>1
    <2>2. ASSUME NEW o \in Poller, Busy(o), s \in poller[o].sent
          PROVE  Busy(o)' /\ s \in poller'[o].sent
      BY <2>2, <1>1, <1>3 DEF Busy
    <2> QED
      BY <2>1, <2>2, <1>1, <1>9 DEF SendInv, SentByCrashes
  <1> QED
    BY <1>1, <1>6, <1>8, <1>9 DEF SendInv, SentByCrashes, DispatchedOnce

\* A poll that sends a row or has it refused holds the rows it held.
LEMMA MovedRow ==
  ASSUME TypeOK, HeldOnce, NEW p \in Poller, Busy(p), Busy(p)',
         \A o \in Poller : o # p => poller'[o] = poller[o],
         RowsHeld(p)' = RowsHeld(p),
         poller'[p].todo \cap poller'[p].sent = {},
         poller'[p].todo \cap poller'[p].refused = {},
         poller'[p].sent \cap poller'[p].refused = {}
  PROVE  HeldOnce'
  <1>1. \A o \in Poller : RowsHeld(o)' = RowsHeld(o) /\ (Busy(o)' <=> Busy(o))
    BY DEF RowsHeld, Busy
  <1>2. ASSUME NEW o \in Poller, Busy(o)'
        PROVE  /\ poller'[o].todo \cap poller'[o].sent = {}
               /\ poller'[o].todo \cap poller'[o].refused = {}
               /\ poller'[o].sent \cap poller'[o].refused = {}
    BY <1>1, <1>2 DEF HeldOnce
  <1>3. ASSUME NEW a \in Poller, NEW b \in Poller, Busy(a)', Busy(b)', a # b
        PROVE  RowsHeld(a)' \cap RowsHeld(b)' = {}
    BY <1>1, <1>3 DEF HeldOnce
  <1> QED
    BY <1>2, <1>3 DEF HeldOnce

\* A publication counts for a row that was sent by crashes only.
LEMMA PollSendSends ==
  ASSUME TypeOK, SendInv, NEW p \in Poller, NEW k \in Schedule, PollSend(p, k)
  PROVE  SendInv'
  <1>1. Busy(p) /\ k \in poller[p].todo /\ UNCHANGED <<due, faults>>
    BY DEF PollSend, Busy, rows
  <1>2. poller[p] \in Polling
    BY <1>1 DEF TypeOK, Busy
  <1>3. poller' = [poller EXCEPT ![p] = [poller[p] EXCEPT !.todo = @ \ {k},
                                                          !.sent = @ \cup {k}]]
    BY DEF TypeOK, PollSend
  <1>4. /\ poller'[p].todo = poller[p].todo \ {k}
        /\ poller'[p].sent = poller[p].sent \cup {k}
        /\ poller'[p].refused = poller[p].refused
        /\ poller'[p].pc = "polling"
        /\ \A o \in Poller : o # p => poller'[o] = poller[o]
    BY <1>2, <1>3 DEF TypeOK, Polling
  <1>5. Busy(p)'
    BY <1>4 DEF Busy, Idle
  <1>6. sends' = [sends EXCEPT ![k] = @ + 1] /\ faults \in Nat
    BY ScheduleAssumption DEF PollSend, TypeOK, ScheduleAssumption
  <1>7. sends[k] <= faults /\ sends[k] \in Nat
    BY <1>1 DEF SendInv, SentByCrashes, TypeOK
  <1>8. HeldOnce'
    <2>1. RowsHeld(p)' = RowsHeld(p)
      BY <1>1, <1>4 DEF RowsHeld
    <2>2. /\ poller[p].todo \cap poller[p].sent = {}
          /\ poller[p].todo \cap poller[p].refused = {}
          /\ poller[p].sent \cap poller[p].refused = {}
      BY <1>1 DEF SendInv, HeldOnce
    <2>3. /\ poller'[p].todo \cap poller'[p].sent = {}
          /\ poller'[p].todo \cap poller'[p].refused = {}
          /\ poller'[p].sent \cap poller'[p].refused = {}
      BY <1>1, <1>4, <2>2
    <2> QED
      BY <1>1, <1>4, <1>5, <2>1, <2>3, MovedRow DEF SendInv
  <1>9. ASSUME NEW o \in Poller, Busy(o)', NEW s \in poller'[o].todo
        PROVE  sends'[s] <= faults'
    <2>1. Busy(o) /\ s \in poller[o].todo /\ s # k
      <3>1. CASE o = p
        BY <3>1, <1>1, <1>4, <1>9
      <3>2. CASE o # p
        <4>1. Busy(o) /\ s \in poller[o].todo
          BY <3>2, <1>4, <1>9 DEF Busy
        <4> QED
          BY <4>1, <3>2, <1>1 DEF SendInv, HeldOnce, RowsHeld
      <3> QED
        BY <3>1, <3>2
    <2>2. s \in Schedule
      BY <2>1 DEF Busy, TypeOK, Polling
    <2>3. sends'[s] = sends[s]
      BY <2>1, <2>2, <1>6 DEF TypeOK
    <2> QED
      BY <2>1, <2>3, <1>1 DEF SendInv, SentByCrashes
  <1>10. ASSUME NEW s \in Schedule, due'[s]
         PROVE  sends'[s] <= faults' \/ \E o \in Poller : Busy(o)' /\ s \in poller'[o].sent
    <2>1. CASE s = k
      BY <2>1, <1>4, <1>5
    <2>2. CASE s # k /\ sends[s] <= faults
      BY <2>2, <1>1, <1>6 DEF TypeOK
    <2>3. ASSUME NEW o \in Poller, Busy(o), s \in poller[o].sent
          PROVE  Busy(o)' /\ s \in poller'[o].sent
      BY <2>3, <1>4, <1>5 DEF Busy
    <2> QED
      BY <2>1, <2>2, <2>3, <1>1, <1>10 DEF SendInv, SentByCrashes
  <1>11. ASSUME NEW s \in Schedule
         PROVE  sends'[s] <= 1 + faults'
    BY <1>1, <1>6, <1>7 DEF TypeOK, SendInv, DispatchedOnce
  <1> QED
    BY <1>8, <1>9, <1>10, <1>11 DEF SendInv, SentByCrashes, DispatchedOnce

\* A refused publication is not counted.
LEMMA PollRefusedSends ==
  ASSUME TypeOK, SendInv, NEW p \in Poller, NEW k \in Schedule, PollRefused(p, k)
  PROVE  SendInv'
  <1>1. Busy(p) /\ k \in poller[p].todo /\ UNCHANGED <<due, sends>>
        /\ faults' = faults + 1 /\ faults \in Nat
    BY ScheduleAssumption DEF PollRefused, Busy, rows, Fault, TypeOK, ScheduleAssumption
  <1>2. poller[p] \in Polling
    BY <1>1 DEF TypeOK, Busy
  <1>3. poller' = [poller EXCEPT ![p] = [poller[p] EXCEPT !.todo = @ \ {k},
                                                          !.refused = @ \cup {k}]]
    BY DEF TypeOK, PollRefused
  <1>4. /\ poller'[p].todo = poller[p].todo \ {k}
        /\ poller'[p].sent = poller[p].sent
        /\ poller'[p].refused = poller[p].refused \cup {k}
        /\ poller'[p].pc = "polling"
        /\ \A o \in Poller : o # p => poller'[o] = poller[o]
    BY <1>2, <1>3 DEF TypeOK, Polling
  <1>5. \A o \in Poller : Busy(o)' <=> Busy(o)
    BY <1>1, <1>4 DEF Busy, Idle
  <1>6. HeldOnce'
    <2>1. RowsHeld(p)' = RowsHeld(p)
      BY <1>1, <1>4 DEF RowsHeld
    <2>2. /\ poller[p].todo \cap poller[p].sent = {}
          /\ poller[p].todo \cap poller[p].refused = {}
          /\ poller[p].sent \cap poller[p].refused = {}
      BY <1>1 DEF SendInv, HeldOnce
    <2>3. /\ poller'[p].todo \cap poller'[p].sent = {}
          /\ poller'[p].todo \cap poller'[p].refused = {}
          /\ poller'[p].sent \cap poller'[p].refused = {}
      BY <1>1, <1>4, <2>2
    <2> QED
      BY <1>1, <1>4, <1>5, <2>1, <2>3, MovedRow DEF SendInv
  <1>7. \A s \in Schedule : sends[s] \in Nat
    BY DEF TypeOK
  <1>8. ASSUME NEW o \in Poller, Busy(o)', NEW s \in poller'[o].todo
        PROVE  sends'[s] <= faults'
    <2>1. Busy(o) /\ s \in poller[o].todo
      BY <1>4, <1>5, <1>8
    <2>2. s \in Schedule
      BY <2>1 DEF Busy, TypeOK, Polling
    <2>3. sends[s] <= faults
      BY <2>1 DEF SendInv, SentByCrashes
    <2> QED
      BY <2>2, <2>3, <1>1, <1>7
  <1>9. ASSUME NEW s \in Schedule, due'[s]
        PROVE  sends'[s] <= faults' \/ \E o \in Poller : Busy(o)' /\ s \in poller'[o].sent
    <2>1. CASE sends[s] <= faults
      BY <2>1, <1>1, <1>7
    <2>2. ASSUME NEW o \in Poller, Busy(o), s \in poller[o].sent
          PROVE  Busy(o)' /\ s \in poller'[o].sent
      BY <2>2, <1>4, <1>5
    <2> QED
      BY <2>1, <2>2, <1>1, <1>9 DEF SendInv, SentByCrashes
  <1>10. \A s \in Schedule : sends'[s] <= 1 + faults'
    BY <1>1, <1>7 DEF SendInv, DispatchedOnce
  <1> QED
    BY <1>6, <1>8, <1>9, <1>10 DEF SendInv, SentByCrashes, DispatchedOnce

\* A poll that ends releases its rows: by its commit the sent ones are no longer
\* due, by its crash they are, and the crash counts.
LEMMA PollEndsSends ==
  ASSUME TypeOK, SendInv, NEW p \in Poller, CommitPoll(p) \/ PollCrash(p)
  PROVE  SendInv'
  <1>1. /\ poller' = [poller EXCEPT ![p] = Idle]
        /\ Busy(p) /\ UNCHANGED sends
        /\ faults \in Nat
    BY ScheduleAssumption DEF CommitPoll, PollCrash, Busy, TypeOK, ScheduleAssumption
  <1>2. /\ ~Busy(p)'
        /\ \A o \in Poller : o # p => poller'[o] = poller[o]
    BY <1>1 DEF TypeOK, Busy
  <1>3. \A o \in Poller : Busy(o)' => o # p /\ Busy(o) /\ poller'[o] = poller[o]
    BY <1>2 DEF Busy
  <1>4. HeldOnce'
    <2>1. ASSUME NEW a \in Poller, NEW b \in Poller, Busy(a)', Busy(b)', a # b
          PROVE  RowsHeld(a)' \cap RowsHeld(b)' = {}
      BY <2>1, <1>3 DEF SendInv, HeldOnce, RowsHeld
    <2>2. ASSUME NEW o \in Poller, Busy(o)'
          PROVE  /\ poller'[o].todo \cap poller'[o].sent = {}
                 /\ poller'[o].todo \cap poller'[o].refused = {}
                 /\ poller'[o].sent \cap poller'[o].refused = {}
      BY <2>2, <1>3 DEF SendInv, HeldOnce
    <2> QED
      BY <2>1, <2>2 DEF HeldOnce
  <1>5. /\ faults' = faults \/ faults' = faults + 1
        /\ \A s \in Schedule : sends[s] \in Nat /\ sends[s] <= 1 + faults
    BY DEF CommitPoll, PollCrash, Fault, TypeOK, SendInv, DispatchedOnce
  <1>6. ASSUME NEW o \in Poller, Busy(o)', NEW s \in poller'[o].todo
        PROVE  sends'[s] <= faults'
    <2>1. Busy(o) /\ s \in poller[o].todo
      BY <1>3, <1>6
    <2>2. s \in Schedule
      BY <2>1 DEF Busy, TypeOK, Polling
    <2>3. sends[s] <= faults
      BY <2>1 DEF SendInv, SentByCrashes
    <2> QED
      BY <2>2, <2>3, <1>1, <1>5
  <1>7. ASSUME NEW s \in Schedule, due'[s]
        PROVE  sends'[s] <= faults' \/ \E o \in Poller : Busy(o)' /\ s \in poller'[o].sent
    <2>1. CASE PollCrash(p)
      BY <2>1, <1>1, <1>5 DEF PollCrash, Fault
    <2>2. CASE CommitPoll(p)
      <3>1. due[s] /\ s \notin poller[p].sent
        BY <2>2, <1>7 DEF CommitPoll
      <3>2. CASE sends[s] <= faults
        BY <3>2, <1>1, <1>5
      <3>3. ASSUME NEW o \in Poller, Busy(o), s \in poller[o].sent
            PROVE  Busy(o)' /\ s \in poller'[o].sent
        BY <3>1, <3>3, <1>2 DEF Busy
      <3> QED
        BY <3>1, <3>2, <3>3 DEF SendInv, SentByCrashes
    <2> QED
      BY <2>1, <2>2
  <1>8. \A s \in Schedule : sends'[s] <= 1 + faults'
    BY <1>1, <1>5
  <1> QED
    BY <1>4, <1>6, <1>7, <1>8 DEF SendInv, SentByCrashes, DispatchedOnce

\* Every step keeps the invariant.
LEMMA NextSends ==
  ASSUME TypeOK, TypeOK', SendInv, [Next]_vars
  PROVE  SendInv'
  <1> DEFINE Quiet == /\ UNCHANGED <<poller, sends>>
                      /\ faults' = faults \/ faults' = faults + 1
                      /\ \A s \in Schedule : due'[s] => due[s]
  <1>1. CASE Operate
    <2>1. ASSUME NEW s \in Schedule, DeleteSchedule(s)
          PROVE  Quiet
      BY <2>1 DEF TypeOK, DeleteSchedule
    <2>2. Quiet
      BY <1>1, <2>1 DEF Operate, CreateCredential, RevokeCredential, CreateSchedule,
         ReadPatch, rows
    <2> QED
      BY <2>2, QuietStep
  <1>2. ASSUME NEW r \in Request, CommitPatch(r)
        PROVE  SendInv'
    <2>1. Quiet
      BY <1>2 DEF TypeOK, CommitPatch
    <2> QED
      BY <2>1, QuietStep
  <1>3. ASSUME NEW w \in Worker, Run(w) \/ WorkerCrash(w)
        PROVE  SendInv'
    <2>1. UNCHANGED <<poller, sends, due>>
      BY <1>3 DEF Run, WorkerCrash, LoadSchedule, SkipRun, AwaitCredential, StartPull,
         PullFails, StoreConfig, RecordSuccess, RecordDispatchFailure, rows
    <2>2. faults' = faults \/ faults' = faults + 1
      BY <1>3 DEF Run, WorkerCrash, LoadSchedule, SkipRun, AwaitCredential, StartPull,
         PullFails, StoreConfig, RecordSuccess, RecordDispatchFailure, Take, Fault, rows
    <2> QED
      BY <2>1, <2>2, QuietStep
  <1>4. CASE DeviceDies \/ UNCHANGED vars
    <2>1. Quiet
      BY <1>4 DEF DeviceDies, vars, rows
    <2> QED
      BY <2>1, QuietStep
  <1> QED
    BY <1>1, <1>2, <1>3, <1>4, TickSends, BeginPollSends, PollSendSends,
       PollRefusedSends, PollEndsSends
       DEF Next, Poll, Environment

\* Dispatched once: a schedule that came due is sent once, unless a poll crashed
\* between a publication and its commit, however many polls overlap.
THEOREM SentOncePerDue == Spec => []DispatchedOnce
  <1>1. Init => SendInv
    <2> SUFFICES ASSUME Init PROVE SendInv
      OBVIOUS
    <2>1. \A p \in Poller : ~Busy(p)
      BY DEF Init, Busy
    <2>2. faults = 0 /\ \A s \in Schedule : sends[s] = 0 /\ ~due[s]
      BY DEF Init
    <2> QED
      BY <2>1, <2>2 DEF SendInv, HeldOnce, SentByCrashes, DispatchedOnce
  <1>2. TypeOK /\ TypeOK' /\ SendInv /\ [Next]_vars => SendInv'
    BY NextSends
  <1>3. SendInv => DispatchedOnce
    BY DEF SendInv
  <1> QED
    BY <1>1, <1>2, <1>3, TypeCorrect, PTL DEF Spec
=============================================================================
