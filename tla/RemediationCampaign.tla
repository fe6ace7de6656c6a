------------------------ MODULE RemediationCampaign ------------------------
(***************************************************************************)
(* Remediation of one network mission: owners create, approve and execute  *)
(* campaigns over the API, Celery workers push each target's approved      *)
(* change to its device, and a finalizer polls the targets and publishes   *)
(* the posture of the campaign and of the mission.                         *)
(*                                                                         *)
(* A step is what the code does between two database commits, split again  *)
(* where a row is read without a lock and written later.  A target row is  *)
(* locked only until execute_campaign_target's first commit, the one that  *)
(* logs the use of the credential, before the target is marked applying.   *)
(***************************************************************************)
EXTENDS Naturals, FiniteSets

CONSTANTS
  Campaign,    \* rows of remediation_campaigns, all of one mission
  Control,     \* framework controls
  Target,      \* rows of remediation_campaign_targets
  Finding,     \* failed compliance results with deterministic remediation text
  Worker,      \* processes that push: Celery workers, or the API for one device
  Request,     \* campaign requests being served
  ControlOf,   \* the control of each campaign
  CampaignOf,  \* the campaign of each target
  FindingOf,   \* the finding of each target; its action is shared by campaigns
  Local,       \* REQUIRE_AUTH is off: single findings may be remediated too
  PollLimit,   \* MISSION_AUDIT_POLL_LIMIT
  MaxMessages, \* bound: messages waiting per target and per finalizer
  MaxFaults    \* bound: crashes and duplicated messages

ASSUME TargetAssumption ==
  /\ ControlOf \in [Campaign -> Control]
  /\ CampaignOf \in [Target -> Campaign]
  /\ FindingOf \in [Target -> Finding]
  /\ \A t, u \in Target :
       CampaignOf[t] = CampaignOf[u] /\ FindingOf[t] = FindingOf[u] => t = u
  /\ \A c \in Campaign : \E t \in Target : CampaignOf[t] = c
  /\ Local \in BOOLEAN
  /\ "manual" \notin Target

ASSUME BoundAssumption ==
  PollLimit \in Nat /\ MaxMessages \in Nat /\ MaxFaults \in Nat

VARIABLES
  mission,      \* NetworkMission.status
  campaign,     \* RemediationCampaign.status
  target,       \* RemediationCampaignTarget.status
  verification, \* the audit of a target's verification config
  action,       \* RemediationAction.status of each finding
  snapshot,     \* whether the action holds a post-change snapshot
  sent,         \* times the device got the commands since the last approval
  passed,       \* a newer complete audit of the device passes the control
  job,          \* execute_campaign_target messages
  poll,         \* finalize_remediation_campaign messages, by retries
  worker,       \* local state of each pushing process
  publishing,   \* what a finalizer that holds the campaign row will write
  request,      \* local state of each request
  faults        \* faults so far

vars == <<mission, campaign, target, verification, action, snapshot, sent,
          passed, job, poll, worker, publishing, request, faults>>

MissionStatus == {"ready_for_review", "remediation_pending", "remediating",
                  "completed", "partially_completed"}
CampaignStatus == {"absent", "pending_approval", "approved", "executing",
                   "completed", "partially_completed", "failed"}
Terminal == {"completed", "partially_completed", "failed"}
Success == {"verified", "already_compliant"}
Failure == {"failed", "rolled_back", "unreachable"}
TargetStatus == {"absent", "pending", "approved", "applying"}
                  \cup Success \cup Failure

\* A manual apply has no target.
Manual == "manual"
Result == {"none", "verified", "unaudited"} \cup Failure

Idle == [pc |-> "idle"]
Checking == [pc : {"checked", "begin"}, target : Target, loaded : CampaignStatus]
Pushing == [pc : {"mark", "push", "record", "verify", "finish"},
            target : Target \cup {Manual}, finding : Finding, result : Result]
Creating == [pc : {"creating"}, campaign : Campaign, seen : MissionStatus]
Serving == [pc : {"approving", "executing", "dispatching"},
            campaign : Campaign, todo : SUBSET Target]
Posture == [unverified : SUBSET Target, status : CampaignStatus,
            mission : MissionStatus, seen : MissionStatus]

TypeOK ==
  /\ mission \in MissionStatus
  /\ campaign \in [Campaign -> CampaignStatus]
  /\ target \in [Target -> TargetStatus]
  /\ verification \in [Target -> {"none", "running", "complete", "incomplete"}]
  /\ action \in [Finding -> {"none", "approved", "applying", "applied", "failed"}]
  /\ snapshot \in [Finding -> BOOLEAN]
  /\ sent \in [Finding -> 0 .. 2]
  /\ passed \in [Finding -> BOOLEAN]
  /\ job \in [Target -> 0 .. MaxMessages]
  /\ poll \in [Campaign -> [0 .. PollLimit -> 0 .. MaxMessages]]
  /\ worker \in [Worker -> Checking \cup Pushing \cup {Idle}]
  /\ publishing \in [Campaign -> Posture \cup {Idle}]
  /\ request \in [Request -> Creating \cup Serving \cup {Idle}]
  /\ faults \in 0 .. MaxFaults

Init ==
  /\ mission = "ready_for_review"
  /\ campaign = [c \in Campaign |-> "absent"]
  /\ target = [t \in Target |-> "absent"]
  /\ verification = [t \in Target |-> "none"]
  /\ action = [f \in Finding |-> "none"]
  /\ snapshot = [f \in Finding |-> FALSE]
  /\ sent = [f \in Finding |-> 0]
  /\ passed = [f \in Finding |-> FALSE]
  /\ job = [t \in Target |-> 0]
  /\ poll = [c \in Campaign |-> [n \in 0 .. PollLimit |-> 0]]
  /\ worker = [w \in Worker |-> Idle]
  /\ publishing = [c \in Campaign |-> Idle]
  /\ request = [r \in Request |-> Idle]
  /\ faults = 0

TargetsOf(c) == {t \in Target : CampaignOf[t] = c}

\* Row locks: a delivery between its check and its first commit, a finalizer.
TargetLocked(t) ==
  \E w \in Worker : worker[w] # Idle /\ worker[w].pc = "checked" /\ worker[w].target = t
CampaignLocked(c) == publishing[c] # Idle

Fault == faults < MaxFaults /\ faults' = faults + 1

\* An ORM assignment emits an UPDATE only when it changes the loaded value.
Written(loaded, current, new) == IF loaded = new THEN current ELSE new

\* Mutation: a campaign without failures counts as completed.
RollupEarly(c, status) ==
  LET failures == {t \in TargetsOf(c) : status[t] \in Failure}
      success == {t \in TargetsOf(c) : status[t] \in Success}
  IN  CASE failures = TargetsOf(c) -> "failed"
        [] success # {} /\ failures # {} -> "partially_completed"
        [] OTHER -> "completed"

\* campaign_rollup over the statuses of the campaign's targets.
Rollup(c, status) ==
  LET success == {t \in TargetsOf(c) : status[t] \in Success}
      failures == {t \in TargetsOf(c) : status[t] \in Failure}
  IN  CASE success # {} /\ failures # {} -> "partially_completed"
        [] success = TargetsOf(c) -> "completed"
        [] failures = TargetsOf(c) -> "failed"
        [] OTHER -> "executing"

-----------------------------------------------------------------------------
(* API requests.  Who may create, approve and execute is left out; so is    *)
(* the confirmation of risky text, without which approval changes nothing.  *)

\* create_campaign: no campaign of the mission has the control yet.
FindNoCampaign(r, c) ==
  /\ request[r] = Idle
  /\ \A d \in Campaign : ControlOf[d] = ControlOf[c] => campaign[d] = "absent"
  /\ \A q \in Request : request[q] # Idle => request[q].campaign # c
  /\ request' = [request EXCEPT ![r] = [pc |-> "creating", campaign |-> c,
                   seen |-> mission]]
  /\ UNCHANGED <<mission, campaign, target, verification, action, snapshot,
                 sent, passed, job, poll, worker, publishing, faults>>

\* The campaign and its targets in one commit; no constraint forbids a second.
CreateCampaign(r) ==
  LET c == request[r].campaign IN
  /\ request[r] # Idle /\ request[r].pc = "creating"
  /\ campaign' = [campaign EXCEPT ![c] = "pending_approval"]
  /\ target' = [t \in Target |-> IF t \in TargetsOf(c) THEN "pending" ELSE target[t]]
  /\ mission' = Written(request[r].seen, mission, "remediation_pending")
  /\ request' = [request EXCEPT ![r] = Idle]
  /\ UNCHANGED <<verification, action, snapshot, sent, passed, job, poll,
                 worker, publishing, faults>>

\* approve_campaign reads the status without a lock.
ReadForApproval(r, c) ==
  /\ request[r] = Idle
  /\ campaign[c] = "pending_approval"
  /\ request' = [request EXCEPT ![r] = [pc |-> "approving", campaign |-> c,
                   todo |-> {}]]
  /\ UNCHANGED <<mission, campaign, target, verification, action, snapshot,
                 sent, passed, job, poll, worker, publishing, faults>>

\* approve_finding_action: an applied action stays as it is.
Approved(F) ==
  /\ action' = [f \in Finding |->
       IF f \in F /\ action[f] # "applied" THEN "approved" ELSE action[f]]
  /\ sent' = [f \in Finding |->
       IF f \in F /\ action[f] # "applied" THEN 0 ELSE sent[f]]

ApproveCampaign(r) ==
  LET c == request[r].campaign IN
  /\ request[r] # Idle /\ request[r].pc = "approving"
  /\ ~CampaignLocked(c) /\ \A t \in TargetsOf(c) : ~TargetLocked(t)
  /\ Approved({FindingOf[t] : t \in TargetsOf(c)})
  /\ target' = [t \in Target |-> IF t \in TargetsOf(c) THEN "approved" ELSE target[t]]
  /\ campaign' = [campaign EXCEPT ![c] = "approved"]
  /\ request' = [request EXCEPT ![r] = Idle]
  /\ UNCHANGED <<mission, verification, snapshot, passed, job, poll, worker,
                 publishing, faults>>

\* Mutation: execution does not ask for an approval.
MayExecute(c) == campaign[c] # "absent"

Executable(c) == campaign[c] = "approved"

\* execute_campaign reads the status without a lock.
ReadForExecution(r, c) ==
  /\ request[r] = Idle
  /\ Executable(c)
  /\ request' = [request EXCEPT ![r] = [pc |-> "executing", campaign |-> c,
                   todo |-> {}]]
  /\ UNCHANGED <<mission, campaign, target, verification, action, snapshot,
                 sent, passed, job, poll, worker, publishing, faults>>

StartExecution(r) ==
  LET c == request[r].campaign IN
  /\ request[r] # Idle /\ request[r].pc = "executing"
  /\ ~CampaignLocked(c)
  /\ campaign' = [campaign EXCEPT ![c] = "executing"]
  /\ mission' = "remediating"
  /\ request' = [request EXCEPT ![r].pc = "dispatching", ![r].todo = TargetsOf(c)]
  /\ UNCHANGED <<target, verification, action, snapshot, sent, passed, job,
                 poll, worker, publishing, faults>>

DispatchTarget(r, t) ==
  /\ request[r] # Idle /\ request[r].pc = "dispatching"
  /\ t \in request[r].todo
  /\ job[t] < MaxMessages
  /\ job' = [job EXCEPT ![t] = @ + 1]
  /\ request' = [request EXCEPT ![r].todo = @ \ {t}]
  /\ UNCHANGED <<mission, campaign, target, verification, action, snapshot,
                 sent, passed, poll, worker, publishing, faults>>

DispatchFinalizer(r) ==
  LET c == request[r].campaign IN
  /\ request[r] # Idle /\ request[r].pc = "dispatching"
  /\ request[r].todo = {}
  /\ poll[c][0] < MaxMessages
  /\ poll' = [poll EXCEPT ![c][0] = @ + 1]
  /\ request' = [request EXCEPT ![r] = Idle]
  /\ UNCHANGED <<mission, campaign, target, verification, action, snapshot,
                 sent, passed, job, worker, publishing, faults>>

\* The process dies, or the broker raises: the rest is never dispatched.
DispatchStops(r) ==
  /\ request[r] # Idle /\ request[r].pc = "dispatching"
  /\ Fault
  /\ request' = [request EXCEPT ![r] = Idle]
  /\ UNCHANGED <<mission, campaign, target, verification, action, snapshot,
                 sent, passed, job, poll, worker, publishing>>

\* approve_remediation, for one finding in local mode.
ApproveFinding(f) ==
  /\ Local
  /\ Approved({f})
  /\ UNCHANGED <<mission, campaign, target, verification, snapshot, passed,
                 job, poll, worker, publishing, request, faults>>

-----------------------------------------------------------------------------
(* Worker: execute_campaign_target.                                        *)

\* A message is taken and the target row locked.
Deliver(w, t) ==
  /\ worker[w] = Idle
  /\ job[t] > 0
  /\ ~TargetLocked(t)
  /\ job' = [job EXCEPT ![t] = @ - 1]

\* Neither finished already, nor of a campaign that is not being executed.
Runnable(t) ==
  /\ target[t] \notin Success
  /\ campaign[CampaignOf[t]] \in {"approved", "executing"}

SkipTarget(w, t) ==
  /\ Deliver(w, t)
  /\ ~Runnable(t)
  /\ UNCHANGED <<mission, campaign, target, verification, action, snapshot,
                 sent, passed, poll, worker, publishing, request, faults>>

\* persist_device_config commits a Config and dispatches its audit; a broker
\* error leaves that Config failed.
PersistSnapshot(w, t) ==
  \E result \in {"verified", "unaudited"} :
    worker' = [worker EXCEPT ![w] = [pc |-> "finish", target |-> t,
      finding |-> FindingOf[t], result |-> result]]

\* Mutation: an action that is being applied counts as applied.
AssumedApplied(t) == action[FindingOf[t]] \in {"applied", "applying"}

IsApplied(t) == action[FindingOf[t]] = "applied"

\* The action was applied by a delivery that was lost, or by another campaign.
RecoverApplied(w, t) ==
  /\ Deliver(w, t)
  /\ Runnable(t)
  /\ IsApplied(t)
  /\ PersistSnapshot(w, t)
  /\ UNCHANGED <<mission, campaign, target, verification, action, snapshot,
                 sent, passed, poll, publishing, request, faults>>

\* The outcome of an earlier delivery is ambiguous: an operator must look.
RefuseAmbiguous(w, t) ==
  LET c == CampaignOf[t] IN
  /\ Deliver(w, t)
  /\ Runnable(t)
  /\ action[FindingOf[t]] = "applying"
  /\ ~CampaignLocked(c)
  /\ target' = [target EXCEPT ![t] = "failed"]
  /\ campaign' = [campaign EXCEPT ![c] = Rollup(c, target')]
  /\ UNCHANGED <<mission, verification, action, snapshot, sent, passed, poll,
                 worker, publishing, request, faults>>

Pushable(t) == Runnable(t) /\ action[FindingOf[t]] \in {"approved", "failed"}

FindCompliant(w, t) ==
  /\ Deliver(w, t)
  /\ Pushable(t)
  /\ passed[FindingOf[t]]
  /\ target' = [target EXCEPT ![t] = "already_compliant"]
  /\ verification' = [verification EXCEPT ![t] = "complete"]
  /\ UNCHANGED <<mission, campaign, action, snapshot, sent, passed, poll,
                 worker, publishing, request, faults>>

\* No action, no stored SSH credential, or an address that has changed.
RefuseTarget(w, t) ==
  /\ Deliver(w, t)
  /\ Runnable(t)
  /\ action[FindingOf[t]] \in {"none", "approved", "failed"}
  /\ target' = [target EXCEPT ![t] = "failed"]
  /\ UNCHANGED <<mission, campaign, verification, action, snapshot, sent,
                 passed, poll, worker, publishing, request, faults>>

CheckTarget(w, t) ==
  /\ Deliver(w, t)
  /\ Pushable(t)
  /\ ~passed[FindingOf[t]]
  /\ worker' = [worker EXCEPT ![w] = [pc |-> "checked", target |-> t,
                  loaded |-> campaign[CampaignOf[t]]]]
  /\ UNCHANGED <<mission, campaign, target, verification, action, snapshot,
                 sent, passed, poll, publishing, request, faults>>

At(w, pc) == worker[w] # Idle /\ worker[w].pc = pc

\* retrieve_stored_credential raises: the task ends, the target stays approved.
CredentialRaises(w) ==
  /\ At(w, "checked")
  /\ worker' = [worker EXCEPT ![w] = Idle]
  /\ UNCHANGED <<mission, campaign, target, verification, action, snapshot,
                 sent, passed, job, poll, publishing, request, faults>>

\* record_credential_access commits: the target row's lock is gone, and the
\* campaign is loaded again.
LogAccess(w) ==
  /\ At(w, "checked")
  /\ worker' = [worker EXCEPT ![w].pc = "begin",
                              ![w].loaded = campaign[CampaignOf[worker[w].target]]]
  /\ UNCHANGED <<mission, campaign, target, verification, action, snapshot,
                 sent, passed, job, poll, publishing, request, faults>>

BeginApply(w) ==
  LET t == worker[w].target
      c == CampaignOf[t] IN
  /\ At(w, "begin")
  /\ ~TargetLocked(t)
  /\ worker[w].loaded = "executing" \/ ~CampaignLocked(c)
  /\ target' = [target EXCEPT ![t] = "applying"]
  /\ campaign' = [campaign EXCEPT ![c] = Written(worker[w].loaded, @, "executing")]
  /\ worker' = [worker EXCEPT ![w] = [pc |-> "mark", target |-> t,
                  finding |-> FindingOf[t], result |-> "none"]]
  /\ UNCHANGED <<mission, verification, action, snapshot, sent, passed, job,
                 poll, publishing, request, faults>>

\* execute_approved_action, for a campaign target or a single finding.
MarkApplying(w) ==
  /\ At(w, "mark")
  /\ action' = [action EXCEPT ![worker[w].finding] = "applying"]
  /\ worker' = [worker EXCEPT ![w].pc = "push"]
  /\ UNCHANGED <<mission, campaign, target, verification, snapshot, sent,
                 passed, job, poll, publishing, request, faults>>

\* apply_approved_remediation locks the action row until it is marked applying.
ApplyFinding(w, f) ==
  /\ Local
  /\ worker[w] = Idle
  /\ action[f] \in {"approved", "failed"}
  /\ action' = [action EXCEPT ![f] = "applying"]
  /\ worker' = [worker EXCEPT ![w] = [pc |-> "push", target |-> Manual,
                  finding |-> f, result |-> "none"]]
  /\ UNCHANGED <<mission, campaign, target, verification, snapshot, sent,
                 passed, job, poll, publishing, request, faults>>

\* apply_remediation: the commands reach the device unless connecting, signing
\* in or validating the text fails first; Junos rolls back what it cannot verify.
Push(w) ==
  LET f == worker[w].finding IN
  /\ At(w, "push")
  /\ \E result \in {"verified"} \cup Failure :
       /\ worker' = [worker EXCEPT ![w].pc = "record", ![w].result = result]
       /\ \/ sent' = [sent EXCEPT ![f] = IF @ < 2 THEN @ + 1 ELSE @]
          \/ result \in {"failed", "unreachable"} /\ UNCHANGED sent
  /\ UNCHANGED <<mission, campaign, target, verification, action, snapshot,
                 passed, job, poll, publishing, request, faults>>

\* Mutation: the task ends with the action, the target is forgotten.
TargetForgotten(w, pc) == worker' = [worker EXCEPT ![w] = Idle]

\* A single finding is done with its action, a target goes on.
AfterAction(w, pc) ==
  worker' = IF worker[w].target = Manual THEN [worker EXCEPT ![w] = Idle]
            ELSE [worker EXCEPT ![w].pc = pc]

\* Action, evidence and outcome are committed before the target is.
RecordApplied(w) ==
  LET f == worker[w].finding IN
  /\ At(w, "record")
  /\ worker[w].result = "verified"
  /\ action' = [action EXCEPT ![f] = "applied"]
  /\ snapshot' = [snapshot EXCEPT ![f] = TRUE]
  /\ AfterAction(w, "verify")
  /\ UNCHANGED <<mission, campaign, target, verification, sent, passed, job,
                 poll, publishing, request, faults>>

\* mark_action_failed
RecordFailed(w) ==
  /\ At(w, "record")
  /\ worker[w].result # "verified"
  /\ action' = [action EXCEPT ![worker[w].finding] = "failed"]
  /\ AfterAction(w, "finish")
  /\ UNCHANGED <<mission, campaign, target, verification, snapshot, sent,
                 passed, job, poll, publishing, request, faults>>

PersistVerification(w) ==
  /\ At(w, "verify")
  /\ PersistSnapshot(w, worker[w].target)
  /\ UNCHANGED <<mission, campaign, target, verification, action, snapshot,
                 sent, passed, job, poll, publishing, request, faults>>

\* Mutation: the worker's own word is stored as the target's status.
OutcomeRaw(result) == result

Outcome(result) == IF result = "unaudited" THEN "failed" ELSE result

\* The target's outcome and its verification config; the audit that was queued
\* before this commit is taken to start with it, as nothing links to it earlier.
FinishTarget(w) ==
  LET t == worker[w].target
      result == worker[w].result IN
  /\ At(w, "finish")
  /\ ~TargetLocked(t)
  /\ target' = [target EXCEPT ![t] = Outcome(result)]
  /\ verification' = [verification EXCEPT
       ![t] = CASE result = "verified" -> "running"
                [] result = "unaudited" -> "incomplete"
                [] OTHER -> @]
  /\ worker' = [worker EXCEPT ![w] = Idle]
  /\ UNCHANGED <<mission, campaign, action, snapshot, sent, passed, job, poll,
                 publishing, request, faults>>

WorkerCrash(w) ==
  /\ worker[w] # Idle
  /\ Fault
  /\ worker' = [worker EXCEPT ![w] = Idle]
  /\ UNCHANGED <<mission, campaign, target, verification, action, snapshot,
                 sent, passed, job, poll, publishing, request>>

\* A message still unacknowledged outlives the visibility timeout.
Redeliver(t) ==
  /\ job[t] \in 1 .. MaxMessages - 1
  /\ Fault
  /\ job' = [job EXCEPT ![t] = @ + 1]
  /\ UNCHANGED <<mission, campaign, target, verification, action, snapshot,
                 sent, passed, poll, worker, publishing, request>>

-----------------------------------------------------------------------------
(* Finalizer: finalize_remediation_campaign, which locks the campaign row.  *)

Active(c) ==
  \E t \in TargetsOf(c) :
    \/ target[t] \in {"pending", "approved", "applying"}
    \/ verification[t] = "running"

TakePoll(c, n) == ~CampaignLocked(c) /\ poll[c][n] > 0

\* Mutation: a retry does not count.
RetryUncounted(n) == n

Retried(n) == n + 1

PollAgain(c, n) ==
  /\ TakePoll(c, n)
  /\ Active(c)
  /\ n < PollLimit
  /\ poll[c][Retried(n)] < MaxMessages
  /\ poll' = [poll EXCEPT ![c][n] = @ - 1, ![c][Retried(n)] = @ + 1]
  /\ UNCHANGED <<mission, campaign, target, verification, action, snapshot,
                 sent, passed, job, worker, publishing, request, faults>>

\* What the mission becomes, seen from c's finalizer.
MissionPosture(c, status) ==
  LET others == {d \in Campaign \ {c} : campaign[d] # "absent"} IN
  CASE \E d \in others : campaign[d] \notin Terminal -> "remediation_pending"
    [] status = "completed" /\ \A d \in others : campaign[d] = "completed" -> "completed"
    [] OTHER -> "partially_completed"

\* Quiet, or out of polls: everything the finalizer will write is read here.
ReadPosture(c, n) ==
  LET unverified == {t \in TargetsOf(c) :
                       target[t] = "verified" /\ verification[t] # "complete"}
      status == Rollup(c, [t \in Target |->
                       IF t \in unverified THEN "failed" ELSE target[t]])
  IN
  /\ TakePoll(c, n)
  /\ ~Active(c) \/ n = PollLimit
  /\ poll' = [poll EXCEPT ![c][n] = @ - 1]
  /\ publishing' = [publishing EXCEPT ![c] = [unverified |-> unverified,
       status |-> status, mission |-> MissionPosture(c, status), seen |-> mission]]
  /\ UNCHANGED <<mission, campaign, target, verification, action, snapshot,
                 sent, passed, job, worker, request, faults>>

Publish(c) ==
  LET posture == publishing[c] IN
  /\ CampaignLocked(c)
  /\ \A t \in posture.unverified : ~TargetLocked(t)
  /\ target' = [t \in Target |->
                  IF t \in posture.unverified THEN "failed" ELSE target[t]]
  /\ campaign' = [campaign EXCEPT ![c] = posture.status]
  /\ mission' = Written(posture.seen, mission, posture.mission)
  /\ publishing' = [publishing EXCEPT ![c] = Idle]
  /\ UNCHANGED <<verification, action, snapshot, sent, passed, job, poll,
                 worker, request, faults>>

FinalizerCrash(c) ==
  /\ CampaignLocked(c)
  /\ Fault
  /\ publishing' = [publishing EXCEPT ![c] = Idle]
  /\ UNCHANGED <<mission, campaign, target, verification, action, snapshot,
                 sent, passed, job, poll, worker, request>>

-----------------------------------------------------------------------------
(* Audits of the devices, see AuditLifecycle.                              *)

\* The audit of a verification config completes, or fails or waits for training.
AuditEnds(t) ==
  /\ verification[t] \in {"running", "incomplete"}
  /\ \E result \in {"complete", "incomplete"} :
       verification' = [verification EXCEPT ![t] = result]
  /\ UNCHANGED <<mission, campaign, target, action, snapshot, sent, passed,
                 job, poll, worker, publishing, request, faults>>

\* Some newer audit of the finding's device passes the control.
NewerPass(f) ==
  /\ ~passed[f]
  /\ passed' = [passed EXCEPT ![f] = TRUE]
  /\ UNCHANGED <<mission, campaign, target, verification, action, snapshot,
                 sent, job, poll, worker, publishing, request, faults>>

-----------------------------------------------------------------------------
AcceptRequest(r) ==
  \E c \in Campaign :
    FindNoCampaign(r, c) \/ ReadForApproval(r, c) \/ ReadForExecution(r, c)

ServeRequest(r) ==
  \/ CreateCampaign(r) \/ ApproveCampaign(r) \/ StartExecution(r)
  \/ \E t \in Target : DispatchTarget(r, t)
  \/ DispatchFinalizer(r)

TakeTarget(w, t) ==
  \/ SkipTarget(w, t) \/ RecoverApplied(w, t) \/ RefuseAmbiguous(w, t)
  \/ FindCompliant(w, t) \/ RefuseTarget(w, t) \/ CheckTarget(w, t)

RunTarget(w) ==
  \/ LogAccess(w) \/ BeginApply(w) \/ MarkApplying(w) \/ Push(w)
  \/ RecordApplied(w) \/ RecordFailed(w) \/ PersistVerification(w) \/ FinishTarget(w)

WorkerStep(w) ==
  \/ \E t \in Target : TakeTarget(w, t)
  \/ \E f \in Finding : ApplyFinding(w, f)
  \/ RunTarget(w)
  \/ CredentialRaises(w)
  \/ WorkerCrash(w)

Finalize(c) ==
  \/ \E n \in 0 .. PollLimit : PollAgain(c, n) \/ ReadPosture(c, n)
  \/ Publish(c)

AuditStep ==
  \/ \E t \in Target : AuditEnds(t)
  \/ \E f \in Finding : NewerPass(f)

Next ==
  \/ \E r \in Request : AcceptRequest(r) \/ ServeRequest(r) \/ DispatchStops(r)
  \/ \E f \in Finding : ApproveFinding(f)
  \/ \E w \in Worker : WorkerStep(w)
  \/ \E t \in Target : Redeliver(t)
  \/ \E c \in Campaign : Finalize(c) \/ FinalizerCrash(c)
  \/ AuditStep

Spec == Init /\ [][Next]_vars

\* Workers and the API finish what they took; polls go on; audits end.  Nobody
\* is obliged to ask for anything.
Fairness ==
  /\ \A r \in Request : WF_vars(ServeRequest(r))
  /\ \A w \in Worker : WF_vars(RunTarget(w))
  /\ \A t \in Target : WF_vars(\E w \in Worker : TakeTarget(w, t))
  /\ \A c \in Campaign : WF_vars(Finalize(c))

FairSpec == Spec /\ Fairness

-----------------------------------------------------------------------------
(* Properties.                                                             *)

\* A verified target is backed by the device: its action holds the snapshot
\* read back after the change, and an audit of that snapshot exists.  It also
\* holds when a lost delivery is recovered or two campaigns share the action
\* (execute_campaign_target, execute_approved_action).
VerifiedHasEvidence ==
  \A t \in Target : target[t] = "verified" =>
    snapshot[FindingOf[t]] /\ verification[t] # "none"

\* A campaign is reported completed only when each of its devices was changed
\* and read back, or passed a newer audit; duplicates, crashes, expired polls and
\* stale writers never turn a failed change into a completed campaign.
CompletedIsDone ==
  \A c \in Campaign : campaign[c] = "completed" =>
    \A t \in TargetsOf(c) : snapshot[FindingOf[t]] \/ passed[FindingOf[t]]

\* What the owner of a mission relies on, see CampaignPromise.  An action row exists
\* from the first approval of its finding on.
Promise == INSTANCE CampaignPromise WITH
  phase <- campaign,
  consent <- {f \in Finding : action[f] # "none"},
  reached <- {f \in Finding : sent[f] > 0},
  changed <- {f \in Finding : snapshot[f]},
  clean <- {f \in Finding : passed[f]},
  FindingsOf <- [c \in Campaign |-> {FindingOf[t] : t \in TargetsOf(c)}]

\* However requests, deliveries, finalizers and manual applies interleave, are lost
\* or repeated: no command reaches a device before an approval of its finding, only
\* an approval makes a campaign approved, and it is completed only with evidence for
\* each finding (approve_campaign, execute_campaign_target,
\* finalize_remediation_campaign).
PromiseKept == Promise!Spec

\* A pending target waits for the approval of its own campaign, even when the
\* finding's action was approved for another campaign or by hand: AI_HANDOFF's
\* "approval-before-execution" (approve_campaign, execute_campaign).
PendingUntilApproved ==
  [][\A t \in Target : target[t] = "pending" =>
       target'[t] \in {"pending", "approved"}]_vars

\* The device gets an approved change once: a target whose outcome is ambiguous
\* or failed is not pushed again before it is approved again.
SentOnce == \A f \in Finding : sent[f] <= 1

\* finalize_remediation_campaign "waits for deterministic post-change audits,
\* then publishes final posture": no campaign of a finished mission executes.
FinishedMissionIsQuiet ==
  mission \in {"completed", "partially_completed"} =>
    \A c \in Campaign : campaign[c] # "executing"

\* A target that is being applied gets an outcome, in a run without faults: a worker
\* lost during the push leaves it at 'applying'.
ApplyingEnds ==
  \A t \in Target : target[t] = "applying" ~> target[t] \in Success \cup Failure

\* A finalizer that was sent publishes after finitely many polls, even if its
\* targets never finish.
PollingEnds ==
  \A c \in Campaign :
    (\E n \in 0 .. PollLimit : poll[c][n] > 0) ~>
      (\A n \in 0 .. PollLimit : poll[c][n] = 0) /\ publishing[c] = Idle
=============================================================================
