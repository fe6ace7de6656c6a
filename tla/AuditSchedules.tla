--------------------------- MODULE AuditSchedules ---------------------------
(***************************************************************************)
(* Recurring audits of one device: Beat polls for due schedules, workers   *)
(* pull the device with the stored credential and queue a normal audit,    *)
(* operators edit schedules and credentials over the API.                  *)
(*                                                                         *)
(* Every API handler locks the device row from its first query to its      *)
(* commit, and a poll locks the due schedule rows.  A run takes no lock at *)
(* all: it loads the schedule, talks to the device, and writes the row     *)
(* back from what it loaded.                                               *)
(***************************************************************************)
EXTENDS Naturals, FiniteSets

CONSTANTS
  Schedule,     \* rows of audit_schedules, all of one device
  Credential,   \* rows of device_credentials of that device
  TypeOf,       \* credential_type of each credential, unique per device
  None,         \* a NULL credential_id
  Poller,       \* poll_due_schedules tasks
  Worker,       \* processes of the scheduled_audits queue
  Request,      \* PATCH requests
  Bodies,       \* the PATCH bodies considered
  Threshold,    \* SCHEDULE_FAILURE_THRESHOLD
  MaxRetries,   \* SCHEDULE_MAX_RETRIES
  MaxMessages,  \* bound: equal messages that are told apart
  MaxPatches,   \* bound: PATCH requests
  MaxFaults     \* bound: crashes, duplicated messages, refused publications

ASSUME ScheduleAssumption ==
  /\ None \notin Credential
  /\ Bodies \subseteq [interval : BOOLEAN, attach : BOOLEAN,
                      credential : Credential \cup {None}, enabled : {"unset", "on", "off"}]
  /\ Threshold \in Nat \ {0}
  /\ MaxRetries \in Nat /\ MaxMessages \in Nat /\ MaxPatches \in Nat /\ MaxFaults \in Nat

VARIABLES
  credential, \* life of each credential row
  reference,  \* AuditSchedule.credential_id
  enabled,    \* AuditSchedule.enabled
  status,     \* AuditSchedule.last_run_status, or that there is no row
  failures,   \* AuditSchedule.consecutive_failures, up to Threshold
  due,        \* next_run_at has come
  sends,      \* times a poll sent the schedule since it became due
  job,        \* run_scheduled_audit messages, by retries
  poller,     \* local state of each poll
  worker,     \* local state of each worker
  request,    \* local state of each PATCH request
  down,       \* the device no longer answers
  patches,    \* PATCH requests so far
  faults      \* faults so far

rows == <<reference, enabled, status, failures, due>>
vars == <<credential, rows, sends, job, poller, worker, request, down, patches, faults>>

\* "failed" stands for the reasons of _failure that do not disable.
NoRow == {"absent", "deleted"}
Status == {"scheduled", "disabled", "awaiting_credential", "queued", "success",
           "dispatch_failed", "failed", "auto_disabled"} \cup NoRow

Idle == [pc |-> "idle"]
\* A run keeps of the loaded status whether it is one that it may write.
Running == [pc : {"loaded", "pulling"}, schedule : Schedule,
            retries : 0 .. MaxRetries, reference : Credential \cup {None},
            loaded : {"failed", "awaiting_credential", "other"},
            failures : 0 .. Threshold]
Ingested == [pc : {"stored"}, schedule : Schedule, errors : BOOLEAN,
             failures : 0 .. Threshold]
Polling == [pc : {"polling"}, todo : SUBSET Schedule,
            sent : SUBSET Schedule, refused : SUBSET Schedule]
\* A PATCH body: which fields it sets, and to what.
Body == [interval : BOOLEAN, attach : BOOLEAN, credential : Credential \cup {None},
         enabled : {"unset", "on", "off"}]
Patching == [pc : {"patch"}, schedule : Schedule, body : Body,
             reference : Credential \cup {None}, enabled : BOOLEAN,
             status : Status, failures : 0 .. Threshold]

TypeOK ==
  /\ credential \in [Credential -> {"absent", "stored", "revoked"}]
  /\ reference \in [Schedule -> Credential \cup {None}]
  /\ enabled \in [Schedule -> BOOLEAN]
  /\ status \in [Schedule -> Status]
  /\ failures \in [Schedule -> 0 .. Threshold]
  /\ due \in [Schedule -> BOOLEAN]
  /\ sends \in [Schedule -> Nat]
  /\ job \in [Schedule -> [0 .. MaxRetries -> 0 .. MaxMessages]]
  /\ poller \in [Poller -> Polling \cup {Idle}]
  /\ worker \in [Worker -> Running \cup Ingested \cup {Idle}]
  /\ request \in [Request -> Patching \cup {Idle}]
  /\ down \in BOOLEAN
  /\ patches \in 0 .. MaxPatches
  /\ faults \in 0 .. MaxFaults

Exists(s) == status[s] \notin NoRow
Stored == {c \in Credential : credential[c] = "stored"}

\* Some credentials may have been stored already, and a schedule created with
\* each; everything else is as a new deployment has it.
Init ==
  /\ credential \in [Credential -> {"absent", "stored"}]
  /\ \A c, k \in Stored : TypeOf[c] = TypeOf[k] => c = k
  /\ reference \in [Schedule -> Stored \cup {None}]
  /\ enabled = [s \in Schedule |-> reference[s] # None]
  /\ status = [s \in Schedule |-> IF enabled[s] THEN "scheduled" ELSE "absent"]
  /\ failures = [s \in Schedule |-> 0]
  /\ due = [s \in Schedule |-> FALSE]
  /\ sends = [s \in Schedule |-> 0]
  /\ job = [s \in Schedule |-> [n \in 0 .. MaxRetries |-> 0]]
  /\ poller = [p \in Poller |-> Idle]
  /\ worker = [w \in Worker |-> Idle]
  /\ request = [r \in Request |-> Idle]
  /\ down = FALSE
  /\ patches = 0
  /\ faults = 0

Fault == faults < MaxFaults /\ faults' = faults + 1

\* An ORM assignment emits an UPDATE only when it changes the loaded value.
Written(loaded, current, new) == IF loaded = new THEN current ELSE new

----------------------------------------------------------------------------
(* Operators.  Create, delete and revoke commit under the device lock, so  *)
(* they are one step; PATCH is split between its reads and its commit.     *)

\* Mutation: get_device_for_access reads the device without locking it.
DeviceUnlocked == TRUE

DeviceFree == \A r \in Request : request[r] = Idle

RowsHeld(p) == poller[p].todo \cup poller[p].sent \cup poller[p].refused
RowLocked(s) == \E p \in Poller : poller[p] # Idle /\ s \in RowsHeld(p)

CreateCredential(c) ==
  /\ DeviceFree
  /\ credential[c] = "absent"
  /\ \A k \in Stored : TypeOf[k] # TypeOf[c]
  /\ credential' = [credential EXCEPT ![c] = "stored"]
  /\ UNCHANGED <<rows, sends, job, poller, worker, request, down, patches,
                 faults>>

\* delete_device_credential detaches the credential's schedules first.
RevokeCredential(c) ==
  LET attached == {s \in Schedule : Exists(s) /\ reference[s] = c} IN
  /\ DeviceFree
  /\ c \in Stored
  /\ \A s \in attached : ~RowLocked(s)
  /\ credential' = [credential EXCEPT ![c] = "revoked"]
  /\ reference' = [s \in Schedule |-> IF s \in attached THEN None ELSE reference[s]]
  /\ enabled' = [s \in Schedule |-> enabled[s] /\ s \notin attached]
  /\ status' = [s \in Schedule |->
                  IF s \in attached THEN "awaiting_credential" ELSE status[s]]
  /\ UNCHANGED <<failures, due, sends, job, poller, worker, request, down, patches,
                 faults>>

\* Without a credential_id the device's first credential is taken, if any.
CreateSchedule(s, c, enable) ==
  /\ DeviceFree
  /\ status[s] = "absent"
  /\ c \in Stored \/ (c = None /\ Stored = {})
  /\ reference' = [reference EXCEPT ![s] = c]
  /\ enabled' = [enabled EXCEPT ![s] = enable /\ c # None]
  /\ status' = [status EXCEPT ![s] =
       IF c = None THEN "awaiting_credential"
       ELSE IF enable THEN "scheduled" ELSE "disabled"]
  /\ UNCHANGED <<credential, failures, due, sends, job, poller, worker, request,
                 down, patches, faults>>

DeleteSchedule(s) ==
  /\ DeviceFree
  /\ Exists(s) /\ ~RowLocked(s)
  /\ status' = [status EXCEPT ![s] = "deleted"]
  /\ enabled' = [enabled EXCEPT ![s] = FALSE]
  /\ reference' = [reference EXCEPT ![s] = None]
  /\ failures' = [failures EXCEPT ![s] = 0]
  /\ due' = [due EXCEPT ![s] = FALSE]
  /\ UNCHANGED <<credential, sends, job, poller, worker, request, down, patches,
                 faults>>

\* The reads of PATCH: the schedule, and the credential it is to use.
ReadPatch(r, s, body) ==
  /\ request[r] = Idle
  /\ patches < MaxPatches /\ patches' = patches + 1
  /\ DeviceFree
  /\ Exists(s)
  /\ body.attach \/ body.credential = None
  /\ body.attach => body.credential \in Stored \cup {None}
  /\ request' = [request EXCEPT ![r] =
       [pc |-> "patch", schedule |-> s, body |-> body, reference |-> reference[s],
        enabled |-> enabled[s], status |-> status[s], failures |-> failures[s]]]
  /\ UNCHANGED <<credential, rows, sends, job, poller, worker, down, faults>>

\* The row after the body's credential_id, then after its enabled field.
Attached(q) ==
  IF ~q.body.attach THEN q
  ELSE IF q.body.credential = None
       THEN [q EXCEPT !.reference = None, !.enabled = FALSE,
                      !.status = "awaiting_credential"]
       ELSE [q EXCEPT !.reference = q.body.credential,
                      !.status = IF q.status = "awaiting_credential"
                                 THEN "disabled" ELSE q.status]

Patched(q) ==
  LET a == Attached(q) IN
  CASE q.body.enabled = "unset" -> a
    [] q.body.enabled = "off" -> [a EXCEPT !.enabled = FALSE, !.status = "disabled"]
    [] OTHER -> IF a.reference = None
                THEN [a EXCEPT !.enabled = FALSE, !.status = "awaiting_credential"]
                ELSE [a EXCEPT !.enabled = TRUE, !.status = "scheduled",
                               !.failures = 0]

Rescheduled(q) == q.body.interval \/ (q.body.enabled = "on" /\ Patched(q).enabled)

CommitPatch(r) ==
  LET q == request[r]
      s == q.schedule
      new == Patched(q)
  IN
  /\ q # Idle
  /\ ~RowLocked(s)
  /\ reference' = [reference EXCEPT ![s] = Written(q.reference, @, new.reference)]
  /\ enabled' = [enabled EXCEPT ![s] = Written(q.enabled, @, new.enabled)]
  /\ status' = [status EXCEPT ![s] = Written(q.status, @, new.status)]
  /\ failures' = [failures EXCEPT ![s] = Written(q.failures, @, new.failures)]
  /\ due' = [due EXCEPT ![s] = @ /\ ~Rescheduled(q)]
  /\ request' = [request EXCEPT ![r] = Idle]
  /\ UNCHANGED <<credential, sends, job, poller, worker, down, patches, faults>>

----------------------------------------------------------------------------
(* Beat and its poll.                                                      *)

Tick(s) ==
  /\ Exists(s) /\ ~due[s]
  /\ due' = [due EXCEPT ![s] = TRUE]
  /\ sends' = [sends EXCEPT ![s] = 0]
  /\ UNCHANGED <<credential, reference, enabled, status, failures, job, poller,
                 worker, request, down, patches, faults>>

\* Mutation: the poll selects the due schedules without locking them.
DueUnlocked == {s \in Schedule : enabled[s] /\ reference[s] # None /\ due[s]}

\* Mutation: the poll passes over a schedule whose last dispatch failed.
DueForgotten ==
  {s \in Schedule : enabled[s] /\ reference[s] # None /\ due[s] /\ ~RowLocked(s)
                    /\ status[s] # "dispatch_failed"}

\* FOR UPDATE SKIP LOCKED: rows another poll holds are not seen.
Due == {s \in Schedule : enabled[s] /\ reference[s] # None /\ due[s] /\ ~RowLocked(s)}

BeginPoll(p) ==
  /\ poller[p] = Idle /\ Due # {}
  /\ poller' = [poller EXCEPT ![p] =
       [pc |-> "polling", todo |-> Due, sent |-> {}, refused |-> {}]]
  /\ UNCHANGED <<credential, rows, sends, job, worker, request, down, patches, faults>>

\* Mutation: each publication is made twice.
EnqueueTwice(s, n) == job' = [job EXCEPT ![s][n] = @ + 2]

\* The broker has no limit: beyond MaxMessages equal messages are one more or
\* less alike, so the count stops there.
Enqueue(s, n) ==
  job' = [job EXCEPT ![s][n] = IF @ < MaxMessages THEN @ + 1 ELSE @]

PollSend(p, s) ==
  /\ poller[p] # Idle /\ s \in poller[p].todo
  /\ Enqueue(s, 0)
  /\ sends' = [sends EXCEPT ![s] = @ + 1]
  /\ poller' = [poller EXCEPT ![p].todo = @ \ {s}, ![p].sent = @ \cup {s}]
  /\ UNCHANGED <<credential, rows, worker, request, down, patches, faults>>

PollRefused(p, s) ==
  /\ poller[p] # Idle /\ s \in poller[p].todo
  /\ Fault
  /\ poller' = [poller EXCEPT ![p].todo = @ \ {s}, ![p].refused = @ \cup {s}]
  /\ UNCHANGED <<credential, rows, sends, job, worker, request, down, patches>>

\* One commit for all rows; a refused one stays due.
CommitPoll(p) ==
  /\ poller[p] # Idle /\ poller[p].todo = {}
  /\ due' = [s \in Schedule |-> due[s] /\ s \notin poller[p].sent]
  /\ status' = [s \in Schedule |->
       IF s \in poller[p].sent THEN "queued"
       ELSE IF s \in poller[p].refused THEN "dispatch_failed" ELSE status[s]]
  /\ poller' = [poller EXCEPT ![p] = Idle]
  /\ UNCHANGED <<credential, reference, enabled, failures, sends, job, worker,
                 request, down, patches, faults>>

\* The tasks already sent stay on the broker, the rows as they were.
PollCrash(p) ==
  /\ poller[p] # Idle
  /\ Fault
  /\ poller' = [poller EXCEPT ![p] = Idle]
  /\ UNCHANGED <<credential, rows, sends, job, worker, request, down, patches>>

----------------------------------------------------------------------------
(* run_scheduled_audit.                                                    *)

\* A message is delivered once, or again later (visibility timeout).
Take(s, n) ==
  /\ job[s][n] > 0
  /\ \/ job' = [job EXCEPT ![s][n] = @ - 1] /\ UNCHANGED faults
     \/ Fault /\ UNCHANGED job

LoadSchedule(w, s, n) ==
  /\ worker[w] = Idle /\ Take(s, n)
  /\ Exists(s) /\ enabled[s]
  /\ worker' = [worker EXCEPT ![w] =
       [pc |-> "loaded", schedule |-> s, retries |-> n, reference |-> reference[s],
        loaded |-> IF status[s] \in {"failed", "awaiting_credential"}
                   THEN status[s] ELSE "other",
        failures |-> failures[s]]]
  /\ UNCHANGED <<credential, rows, sends, poller, request, down, patches>>

\* The schedule is gone or disabled: nothing to do.
SkipRun(w, s, n) ==
  /\ worker[w] = Idle /\ Take(s, n)
  /\ ~(Exists(s) /\ enabled[s])
  /\ UNCHANGED <<credential, rows, sends, poller, worker, request, down, patches>>

At(w, pc) == worker[w] # Idle /\ worker[w].pc = pc

AwaitCredential(w) ==
  LET s == worker[w].schedule IN
  /\ At(w, "loaded")
  /\ worker[w].reference \notin Stored
  /\ ~RowLocked(s)
  /\ enabled' = [enabled EXCEPT ![s] = FALSE]
  /\ status' = [status EXCEPT ![s] =
       IF Exists(s) THEN Written(worker[w].loaded, @, "awaiting_credential") ELSE @]
  /\ worker' = [worker EXCEPT ![w] = Idle]
  /\ UNCHANGED <<credential, reference, failures, due, sends, job, poller, request,
                 down, patches, faults>>

StartPull(w) ==
  /\ At(w, "loaded")
  /\ worker[w].reference \in Stored
  /\ worker' = [worker EXCEPT ![w].pc = "pulling"]
  /\ UNCHANGED <<credential, rows, sends, job, poller, request, down, patches, faults>>

Counted(n) == IF n < Threshold THEN n + 1 ELSE Threshold
Quarantined(w) == Counted(worker[w].failures) >= Threshold

\* Mutation: the counter restarts with each run.
WriteFailureUncounted(w, written) ==
  LET s == worker[w].schedule IN
  IF ~Exists(s) THEN UNCHANGED <<enabled, status, failures>>
  ELSE /\ failures' = [failures EXCEPT ![s] = Counted(0)]
       /\ enabled' = [enabled EXCEPT ![s] = @ /\ Counted(0) < Threshold]
       /\ status' = [status EXCEPT ![s] =
            IF Counted(0) >= Threshold THEN "auto_disabled"
            ELSE IF written THEN "failed" ELSE @]

\* _failure: the counter is computed from the loaded row.  A reason equal to
\* the loaded status is not written; reasons are not told apart here, so with
\* "failed" loaded that is a choice.
WriteFailure(w, written) ==
  LET s == worker[w].schedule IN
  IF ~Exists(s) THEN UNCHANGED <<enabled, status, failures>>
  ELSE /\ failures' = [failures EXCEPT ![s] = Counted(worker[w].failures)]
       /\ enabled' = [enabled EXCEPT ![s] = @ /\ ~Quarantined(w)]
       /\ status' = [status EXCEPT ![s] =
            IF Quarantined(w) THEN "auto_disabled"
            ELSE IF written THEN "failed" ELSE @]

\* A pull that fails before anything is stored; only an unreachable device is
\* retried, while the schedule is not quarantined and retries are left.
PullFails(w, unreachable, written) ==
  LET s == worker[w].schedule
      n == worker[w].retries
      retry == unreachable /\ ~Quarantined(w) /\ n < MaxRetries /\ Exists(s)
  IN
  /\ At(w, "pulling")
  /\ ~RowLocked(s)
  /\ written \/ worker[w].loaded = "failed"
  /\ WriteFailure(w, written)
  /\ \/ retry /\ Enqueue(s, n + 1) /\ UNCHANGED faults
     \/ ~retry /\ UNCHANGED <<job, faults>>
     \/ retry /\ Fault /\ UNCHANGED job
  /\ worker' = [worker EXCEPT ![w] = Idle]
  /\ UNCHANGED <<credential, reference, due, sends, poller, request, down, patches>>

\* The configuration is committed and its audit sent, or not; the next access
\* to the schedule reads it again.
StoreConfig(w, errors) ==
  LET s == worker[w].schedule IN
  /\ At(w, "pulling") /\ ~down
  /\ IF worker[w].reference \in Stored /\ Exists(s)
     THEN worker' = [worker EXCEPT ![w] =
            [pc |-> "stored", schedule |-> s, errors |-> errors, failures |-> failures[s]]]
     ELSE worker' = [worker EXCEPT ![w] = Idle]
  /\ UNCHANGED <<credential, rows, sends, job, poller, request, down, patches, faults>>

RecordSuccess(w) ==
  LET s == worker[w].schedule IN
  /\ At(w, "stored") /\ ~worker[w].errors
  /\ ~RowLocked(s)
  /\ status' = [status EXCEPT ![s] = IF Exists(s) THEN "success" ELSE @]
  /\ failures' = [failures EXCEPT ![s] = IF Exists(s) THEN 0 ELSE @]
  /\ worker' = [worker EXCEPT ![w] = Idle]
  /\ UNCHANGED <<credential, reference, enabled, due, sends, job, poller, request,
                 down, patches, faults>>

RecordDispatchFailure(w) ==
  /\ At(w, "stored") /\ worker[w].errors
  /\ ~RowLocked(worker[w].schedule)
  /\ WriteFailure(w, TRUE)
  /\ worker' = [worker EXCEPT ![w] = Idle]
  /\ UNCHANGED <<credential, reference, due, sends, job, poller, request, down,
                 patches, faults>>

WorkerCrash(w) ==
  /\ worker[w] # Idle
  /\ Fault
  /\ worker' = [worker EXCEPT ![w] = Idle]
  /\ UNCHANGED <<credential, rows, sends, job, poller, request, down, patches>>

DeviceDies ==
  /\ ~down /\ down' = TRUE
  /\ UNCHANGED <<credential, rows, sends, job, poller, worker, request, patches, faults>>

----------------------------------------------------------------------------

Operate ==
  \/ \E c \in Credential : CreateCredential(c) \/ RevokeCredential(c)
  \/ \E s \in Schedule, c \in Credential \cup {None}, e \in BOOLEAN : CreateSchedule(s, c, e)
  \/ \E s \in Schedule : DeleteSchedule(s)
  \/ \E r \in Request, s \in Schedule, body \in Bodies : ReadPatch(r, s, body)

Poll(p) ==
  \/ BeginPoll(p) \/ CommitPoll(p)
  \/ \E s \in Schedule : PollSend(p, s)

Run(w) ==
  \/ \E s \in Schedule, n \in 0 .. MaxRetries : LoadSchedule(w, s, n) \/ SkipRun(w, s, n)
  \/ AwaitCredential(w) \/ StartPull(w)
  \/ \E unreachable, written \in BOOLEAN : PullFails(w, unreachable, written)
  \/ \E errors \in BOOLEAN : StoreConfig(w, errors)
  \/ RecordSuccess(w) \/ RecordDispatchFailure(w)

Environment ==
  \/ \E p \in Poller : PollCrash(p) \/ \E s \in Schedule : PollRefused(p, s)
  \/ \E w \in Worker : WorkerCrash(w)
  \/ DeviceDies

Next ==
  \/ Operate \/ Environment
  \/ \E r \in Request : CommitPatch(r)
  \/ \E s \in Schedule : Tick(s)
  \/ \E p \in Poller : Poll(p)
  \/ \E w \in Worker : Run(w)

Spec == Init /\ [][Next]_vars

\* Time passes, Beat polls and workers make progress; a worker waiting for a
\* row gets its turn, since the database queues waiting transactions.  Nothing
\* is assumed of operators, of the device or of faults.
Fairness ==
  /\ \A s \in Schedule : WF_vars(Tick(s))
  /\ \A p \in Poller : WF_vars(Poll(p))
  /\ \A w \in Worker : SF_vars(Run(w))

FairSpec == Spec /\ Fairness

----------------------------------------------------------------------------

\* An enabled schedule refers to a stored credential, whatever order the
\* operators' edits, the polls and the runs come in: a revoked credential
\* cannot be brought back by a PATCH that read the schedule before.
EnabledHasCredential ==
  \A s \in Schedule : enabled[s] => reference[s] \in Stored

\* A schedule that came due is sent once, unless a poll crashed between a
\* publication and its commit: overlapping polls never send it twice.
DispatchedOnce == \A s \in Schedule : sends[s] <= 1 + faults

\* A due schedule is sent or disabled in the end: neither a broker that
\* refused it nor a poll that died with the row locked strands it.
DueIsServed ==
  \A s \in Schedule : due[s] /\ enabled[s] ~> ~due[s] \/ ~enabled[s]

\* Once the device stops answering, every schedule of it ends up disabled,
\* although overlapping runs and retries may overwrite each other's counts.
DeadDeviceQuarantined ==
  \A s \in Schedule : down /\ enabled[s] ~> ~enabled[s]
=============================================================================
