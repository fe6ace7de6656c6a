# Valsec verification project

TLA+ models of Valsec's backend, the TLC configurations that check them on small
instances, and TLAPS proofs. Valsec audits the configurations of network devices
against compliance frameworks, lets operators teach it syntax it does not know,
walks a network from a seed device, audits devices on a schedule, and remediates
failed controls on approval. The backend is FastAPI (request handlers), Celery
workers on a Redis broker, and PostgreSQL. All paths below are relative to
`src/backend/` unless they begin with `README`, `AI_HANDOFF` or `frontend`.

## 1. Inventory

| Component | State it keeps | Operations | Interacts with |
|---|---|---|---|
| Audit life cycle (`tasks/audit_orchestrator.py`, `routers/configs.py`) | `configs.status`, `findings`, `compliance_results`, a PostgreSQL advisory lock per configuration | upload and dispatch, `run_config_audit` (fetch, normalise, persist, gate, evaluate, complete, fail) | broker, training, every component that ingests a configuration |
| Operator training (`routers/training.py`, `training/matcher.py`) | `findings`, `learned_mappings` by (user, vendor, pattern signature) | `submit_training`: approve a line, claim the resume, dispatch, recover | audit life cycle |
| Normalizers (`normalizer/`) | none: text to configuration, findings and unknown lines | four parsers, the approved mappings | audit life cycle, training |
| Compliance engine and catalogues (`compliance/`) | none: configuration to verdicts and a score | six catalogues, evaluation, drift | audit life cycle, registry |
| Remediation generators (`remediation/`) and reports | none | a template per failed control | single remediation |
| Network missions (`tasks/network_missions.py`, `routers/network_missions.py`, `network_mission_service.py`) | mission status, one node per discovered address, the config of each node | start, walk, dispatch, collect, retry, poll and publish | connectors, registry, ingestion, campaigns |
| Remediation campaigns (same files) | campaign and target status, verification configs | create, approve, execute, deliver a target, poll and publish | single remediation, ingestion, missions |
| Single remediation (`remediation/execution.py`, `routers/device_access.py`, `connectors/ssh_push.py`) | `remediation_actions.status`, post-change snapshot | approve, apply, record | devices, campaigns |
| Stored-credential ingestion (`device_pull_service.py`, `credential_service.py`) | configs, credential access log | pull, persist, dispatch; each commits | missions, campaigns, schedules |
| Audit schedules (`tasks/scheduled_audits.py`, `routers/audit_schedules.py`) | `enabled`, `next_run_at`, `last_run_status`, `consecutive_failures` | poll, run, retry, quarantine, create, edit, delete | ingestion, credential deletion |
| Discovery sessions (`routers/device_access.py`) | session and candidate status, linked config | walk, process, skip, pull | registry, ingestion |
| Device registry and ownership (`device_registry.py`, `device_ownership.py`, `routers/devices.py`) | devices, owner organization, baseline | resolve, claim, set the baseline, drift | everything that names a device |
| Credentials and vault (`routers/device_credentials.py`, `secrets/`) | credentials | create, revoke, retrieve | schedules, ingestion |
| Organizations and access control (`organization_access.py`, `routers/organizations.py`) | memberships | invite, role tests | every handler |
| Authentication (`security.py`, `routers/auth.py`, `oauth.py`, `email_service.py`) | one-time-password counters, signed tokens | log in, verify | every handler |
| AI proposals (`analysis/`) | none | propose a field or a remediation | training, remediation |
| Connectors (`connectors/`) | none | SSH and Telnet reads, pushes, target guard | missions, campaigns, ingestion |
| Schema, settings, process setup, web frontend | tables, settings | none of their own | all |

### What is hard here

*Commits in the middle of a handler.* A handler's database session commits several
times; every commit ends its row locks and lets other processes in. `with_for_update`
therefore protects less than its handler: the lock of a campaign target ends when
the use of its credential is logged (`credential_service.py`, called from
`tasks/network_missions.py:448`), the lock of a mission node when its Config is
persisted, the lock of a discovered device when its candidate is marked as pulling.

*Stale objects.* Sessions have `autoflush=False` and the default
`expire_on_commit`. A row that is queried a second time in one transaction is not
refreshed, also with `FOR UPDATE`, and an assignment that does not change the
loaded value writes nothing. The models keep what a process has loaded apart from
what is stored; the operator `Written` is the second rule.

*Dispatch and commit are not atomic.* Some handlers commit before they send, so a
crash loses the message; some send before they commit, so a worker can finish
first, or the message is sent again. A publish that raises may have been delivered.

*Messages.* Celery acknowledges early, so a worker that dies loses its message;
Redis redelivers a message after its visibility timeout, so one can come twice.
Pollers and scheduled runs retry themselves a limited number of times.

*Text.* A parser reads a file line by line with a context it carries along; the
catalogue, the template and the parser name one device setting in three tables.
What a line means depends on lines far before it, and conclusions are drawn from
lines that are absent.

### What makes each component correct

- Audit and training: no audit is complete over a line nobody approved; results
  belong to the stored findings; an approved pattern is final and shown the same
  everywhere; every upload, and every resume, is answered.
- Analysis: no line is lost, of a setting held once the last statement decides, a
  verdict has evidence, approved mappings explain unknown lines only, a template repairs
  its control, a drift report loses no failure.
- Missions and discovery: only authorized devices are logged in to; the walk is
  bounded, breadth first, single and finite; every collection has an outcome; an
  owner keeps its device and gets its configurations.
- Campaigns: nothing is pushed before its campaign's approval; a change is pushed
  once; a verified target has read-back evidence and an audit; a completed
  campaign has only done targets; pollers end.
- Schedules: one dispatch per due time, an enabled schedule has a credential, a due
  one is served, a dead device is quarantined.

The hazards, each at its line and with the properties that cover it, are in
`PROJECT.json`.

## 2. Modules and how they correspond to the code

| Module | Models |
|---|---|
| `AuditLifecycle` | upload, audit workers, training requests, faults |
| `AuditPromise` | abstract specification: what an audit and an approval promise |
| `AuditSchedules` | recurring audits, their poll, runs and retries, credentials |
| `CampaignPromise` | abstract specification: what approving and executing a campaign promise |
| `RemediationCampaign` | campaign requests, target deliveries, manual apply, finalizer |
| `NetworkMission` | the walk, collection, retries, the mission's finalizer |
| `DeviceDiscovery` | a discovery session, device access, claims, imports |
| `NormalizedConfig` | the vendor-neutral configuration and a parse as a record |
| `CiscoNormalizer`, `FortiOSNormalizer` (with the generic parser), `JunosNormalizer` | the parsers |
| `Compliance` | the six catalogues, the verdicts, the score, the drift report |
| `Remediation` | the templates of failed controls, and what a device makes of one |
| `ConfigAnalysis` | a device's audits one after the other, over the six modules above |
| `AuditLifecycleProofs`, `NetworkMissionProofs`, `AuditSchedulesProofs`, `RemediationCampaignProofs`, `DeviceDiscoveryProofs`, `DiscoverySessionProofs`, `ParserProofs`, `ConfigAnalysisProofs` | TLAPS proofs |
| `MC...` | instances for TLC |

One convention for the modules of processes: **a step is what a handler does between two
commits**, split again where it reads a row without a lock and writes it later. A
process is a record with its program counter and everything it has read; a row
lock is the fact that some process is at a step that holds it. Sent messages are
counted per receiver (their order is not fixed by the broker), polls and runs by
their retries. Faults (crash, exception, broker error, duplicate) are actions of
their own that spend a budget, `MaxFaults`.

**AuditLifecycle.** `status`, `findings`, `results`, `learned` are the tables;
`results[c]` holds the findings a result set was computed from, which is all that
the correctness of a report depends on. `lock[c]` is the advisory lock as a set, so
that a broken lock would show. A worker goes `fetch` (the first read), `begin`
(status normalising), `reload` (the refresh after the commit), `parse`, `gate`,
`evaluate`, `release`, the commits of `run_config_audit`. Normalisation keeps per
unknown line the learned field if the vendor's normalizer accepts it (`Assignable`), and
otherwise leaves the line unverified. A training request reads the configuration
(`loaded` in the code), waits at `locking`, and carries in `live` what it read: the
code's second test is made on the same loaded object.

**AuditSchedules.** All schedules and credentials are of one device, because the
handlers lock the device row first: creation, deletion and revocation are one step
each that needs `DeviceFree`, a PATCH is a read (`ReadPatch`) and a commit that writes
only what differs from what was read (`Written`). A poll holds the due rows that no
other poll holds (`FOR UPDATE SKIP LOCKED`), sends them one by one and commits all
of them at the end. A run holds no lock: its failure counter is the loaded one plus
one. `failures` stops at the threshold, where the code no longer tells values apart;
`"failed"` stands for the reasons of `_failure` that do not disable.

**RemediationCampaign.** A delivery is checked under the target's row lock, drops
it at `begin`, and goes `mark`, `push`, `record`, `verify`, `finish`.
`sent[f]` counts how often the device received the commands since the last
approval. With `Local`, single findings may be approved and applied by hand and
share the action with campaign targets, as they do when `REQUIRE_AUTH` is off. The finalizer
holds the campaign's row and computes a posture from target rows it has not locked
(`ReadPosture`), which `Publish` writes. `CampaignPromise` leaves out targets, workers,
messages, locks and polls: it knows each campaign's status and, per finding, whether its
change was approved (an action exists), reached the device since, was read back (the
snapshot) or passed a newer audit. `PromiseKept` maps the rows to these.

**NetworkMission.** The worker that walks carries the queue of the traversal, the
device it reads and the candidates left; `node` and `depth` are the rows it
commits after each candidate. Credentials come and go at the operators' will, so
every lookup may find an SSH one, a Telnet one or none: there is no credential
variable. The dispatcher sends collection tasks one by one and commits the nodes in
one transaction at the end (`DispatchCollect`, `CommitDispatch`), as does a retry.
`PullConfig` gives the node's lock up, `LinkConfig` writes its configuration.

**DeviceDiscovery.** Every request, the walk included, reaches a device by the same
steps: `Access` (the row, under its lock), `Claim` (an unowned device becomes the
caller's organization's, a missing one is created) or `Deny`, the pull, `Link` (the
device of the session's organization is resolved) or `Conflict`, `Persist` and
`Record`; `ReadSummary` and `WriteSummary` are the two halves of
`_finish_discovery_session`, which reads the candidates without a lock. The
walk keeps the queue and the seen addresses in `walk`. `overlaps` and `crashes`
are history that the properties need: which candidates had requests in flight
together, and whether a request was lost.

**The analysis modules.** A parse is a record (configuration, findings in order,
unknown lines, the number of the line, what the parser remembers) folded over the
lines. A line is its keyword (`text`, or `path` for JunOS), whether it is negated, a
number and a set of words: splitting the text into those, with the regular
expressions, is the input of the models. A scalar setting is a number (`Yes`, `No`, a
count, seconds for minutes), `Unset` when nobody stated it, `Mistyped` for an approved
value of a wrong type, at which a control that compares raises. A control is a record
(number, test, fields, bound, reference), so that a catalogue is a table, as in the code.
A template is what its commands do: the statements they take away (`no`, `delete`), and the
lines the device shows for the others. What a device shows once the block has been entered
(`ReadBacks`) is no code of the repository, and marked external: it takes the removed
statements out, puts a new statement in the place of an old one unless it keeps several, and
shows the new lines before the others or after them. IOS shows `no ...` for a switch that is off,
or nothing, and never for an SNMP community that is gone; JunOS shows no deletion.
`ConfigAnalysis` puts them together: a device of some vendor gets lines, is audited under
a framework that each way in chooses by rules of its own, waits for training, is
evaluated, gets a baseline and a drift report.

## 3. Runs

Passing runs:

| Run | Instance | Shows |
|---|---|---|
| `audit_faults` | 1 configuration, 2 unknown lines with one pattern, 1 valid and 1 invalid field, 2 workers, 2 requests, 2 messages, 2 faults; 362,053 states | `CompleteIsTrained`, `ConfirmedIsApproved`, the refinement `PromiseKept`, and `QueuedIsAnswered`, `ResumeIsAnswered` while no fault has happened |
| `schedule_races` | 1 schedule, 1 credential, 2 polls, 2 workers with a retry, 1 PATCH of 6 bodies, 1 fault; 1,697,186 states | `EnabledHasCredential`, `DispatchedOnce` |
| `schedule_fair` | the same with 1 poll and no PATCH; 127,718 states | `DueIsServed`, `DeadDeviceQuarantined` |
| `campaign_races` | 1 target, 2 workers, 2 requests, 1 fault; 3,833,614 states | `VerifiedHasEvidence`, `PendingUntilApproved`, the refinement `PromiseKept` under stale approvals, double executions and a lost or repeated delivery |
| `campaign_fair` | 1 target, 2 workers, 1 request, manual applies; 81,069 states | `ApplyingEnds`, `PollingEnds` |
| `mission_walk` | 7 addresses in a cyclic topology, depth 3, 5 devices beside the seed, 2 start messages, 2 workers, 1 fault; 2,561 states | `WithinBounds`, `ShortestDepth`, `OneTraversal`, `TraversalEnds` |
| `mission_collect` | a seed, a neighbour to manage, one of another organization, 2 workers, 1 retry, 1 fault; 907,235 states | `AuthorizedOnly`, `MissionAnswered` |
| `discovery` | 5 addresses with a circle and two ways to one of them, an unsafe address, 2 users who may invite each other, 2 requests, 3 pairs of bounds, 1 fault; 1,572,325 states | `BoundedWalk`, `ShortestEvidence`, `AccessAuthorized`, `ImportsOwned`, `AuditedOnce`, `AwaitingCanContinue`, `OwnerKept` |
| `analysis` | devices of 4 vendors, all configurations of up to 3 (Cisco, others), 4 (JunOS) or 10 (FortiOS) lines out of 15, 3, 6 and 8 pieces, all framework requests, all five ways in, 2 audits, 3 readings to approve; 1,283,985 states | `EveryLineAccounted`, `LastStatementDecides`, `VerdictHasEvidence`, `LearnedExplainsOnlyUnknown`, `TemplateClears`, `DriftAccounts`, `FailsOnlyByMistyping` |

Violated on purpose; each quotes a document in `PROJECT.json` under "findings":

| Run | The code does |
|---|---|
| `audit_lost_resume` | a resume message that arrives before the pausing worker releases its advisory lock is dropped; the configuration stays normalising |
| `campaign_sent_twice` | two execute requests push one approved change twice |
| `mission_lost_node` | the dispatcher's late commit overwrites the outcome of a fast collector: the node is shown as queued and cannot be retried |

**Bounds, and why they are enough.** The properties relate at most two processes
that work on one row, so two workers, two requests and one row show every pairwise
interleaving, and a third process of a kind would repeat the role of one of them. Two lines are
needed for the claim of the *last* line; `mission_walk` and `discovery` need two ways of
different length to one device for a depth-first walk to differ, and one device more
than the bound. A poll limit of one gives one
poll that retries and one that may not; a failure threshold of two gives a failure
that quarantines and one that does not. `MaxTasks`, `MaxStarts` and `MaxMessages` bound the
queues. In the audit runs a full queue only delays the sender. In `mission_collect`
each retry request is made once, so that two messages per node are enough never to
block. In `mission_walk` `MaxMessages` is 0 on purpose: the run is about the walk
and stops before the dispatch, which `mission_collect` covers. In `AuditSchedules`
`MaxMessages` saturates instead: beyond it one equal message more makes no
difference, so no sender ever waits. `MaxFaults` is the number of faults in one
behaviour; each of them can happen at any step. In `discovery` failed logins,
refused publications and lost requests share it, and `MaxRequests` bounds the API
requests of one behaviour. In `analysis` a configuration of three Cisco lines reaches a
block with two statements, a setting stated twice, a statement in a block and outside of one,
and a banner that is open, closed or never closed; FortiOS and JunOS blocks cost
several lines for one statement, so their bounds are larger; a drift report needs two
audits. Two VTY ranges would cost four lines; of those nothing is claimed.
The symmetry of workers, of polls and of requests is used only in runs without
liveness. Deadlock is not checked: when all messages are handled and nobody asks
for anything, the system rightly stops.

**Fairness.** Weak fairness of the steps of a process that has begun: a Celery
worker or a request handler goes on unless it crashes, and a crash is a fault
action that is never forced. Weak fairness of taking a message: idle workers listen
to all their queues (`docker-compose.yml`). For schedules, weak fairness of time
(`Tick`) and of polls, which Beat starts again and again, and strong fairness of the
workers: a run that waits for a schedule's row gets its turn although polls take
that row repeatedly, because PostgreSQL queues the waiters of a row lock. Nothing
is assumed of operators, of devices, of
audits a poller waits for, or of the broker's errors. The liveness properties of
audits and missions are excused from the first fault on (`\/ faults > 0`): the code
acknowledges messages early, so a crash really can lose them for ever. Those of
schedules hold after faults as well, because the poll comes again.

**Mutants.** Every property of a passing run has a mutation of a mapped definition,
listed in `PROJECT.json` and written above the definition it replaces: a lock that
is not tested, a test of the pattern left out, a gate that never pauses, a popped
newest device, a retry that is not counted, a template for another statement.

### Other things the models show about the code

These follow from the modules, but no run is kept for them.

- Two training requests can both claim a resume, because the status tested under the
  row lock is the copy read before it (`routers/training.py:150`). The advisory lock
  and `CompleteIsTrained` make the second resume harmless.
- A line approved as a field its parser cannot assign (FortiOS and the generic parser
  test that, Cisco and JunOS do not) is confirmed, and unverified again after the
  resumed audit, for ever: training the line again gives the same result.
- Two campaigns of a mission finish together and each finalizer sees the other one
  open: the mission stays `remediation_pending` (`tasks/network_missions.py:558`).
- A PATCH that disables a schedule while a run is under way stops no run that has
  loaded the row; the run then writes its own status over `disabled`.
- A failed import does not compute its session's status again, and a status computed from
  candidates that another request changes meanwhile can leave a session awaiting
  input with nothing to do: `AwaitingCanContinue` excludes overlapping requests for this.
- A candidate whose device belongs to another organization that the user also operates
  is not resolved, and the second row for its address violates a unique index: the walk
  ends with an error and its session stays running (`Conflict`).
- Two `pull_discovered_device` requests in opposite directions wait for each other's
  device row; the database ends one (`DeadlockVictim`).
- A Cisco banner that is never closed takes the rest of the file as its text, and an
  approval for the line that opened it never resolves it. Findings about dotted sub-interfaces are
  recorded, but assign nothing. `exec-timeout 0 0`, which disables the time-out, passes the
  ten-minutes control.
- Values of approved mappings are not type-checked: a text where a bound is compared
  fails the audit, and any text passes a Boolean control.
- `pull_discovered_device` tests only the CIS catalogue
  (`routers/device_access.py:555-558`): a FortiOS neighbour with the STIG or ISO framework
  is pulled and its audit fails, where `AI_HANDOFF.md:98` says that such combinations
  "return an explicit unsupported response". The run `analysis` has this way in;
  `FailsOnlyByMistyping` names it as the one that lets a pair without a catalogue through,
  and says that its audit never completes.
- Where a device holds several settings of a kind, the parsers let the last one decide, and
  `LastStatementDecides` claims nothing (`HeldSeveral`). The range of `line vty` is not read
  (`cisco_ios.py:37, 107-109, 130-136`): with 11 minutes for lines 0 to 4 and 5 for the others,
  control 1.5.2 passes. `snmp-server group ... v3` after a community gives `snmp.v3_only` = True
  (`cisco_ios.py:227-236`), which `training/matcher.py:64` explains as "Whether only SNMPv3 is
  configured". The last SNMP user and the last log destination of FortiOS stand for all of
  them (`fortios.py:118-131`).
- The SNMP template of Cisco (1.8.1, also for V-243079) never clears its control: that
  passes only on a line `no snmp-server community public` or `... private`
  (`cis_cisco_ios.py:142-154`), and a device shows no line for a community it does not have.
  `tests/sample_configs/cisco_hardened.cfg:31-32` has such lines as if it did.
  `TemplateClears` says that this template fails on every read-back and every other one
  clears.
- A JunOS statement that is deactivated is read as the setting's negation, and `set` does
  not activate it again; JUN-3.1, 3.3, 4.2 and 5.1 fail only so or over an approved mapping.
  The read-back half of `TemplateClears` leaves such texts out.
- FortiOS templates name one interface or one policy where the control asks about all, so
  `TemplateClears` is stated for Cisco and JunOS; no template takes back an approved
  mapping, so it is stated for controls that no mapping concerns (`Unmapped`); two
  references (`services.minimal`, and FortiOS password encryption) have no template. A
  control that becomes not applicable after it failed or passed is in no list of the drift
  report.

## 4. Proofs

`AuditLifecycleProofs` proves, for all sets of configurations, lines, fields, keys,
workers and requests, all bounds, and any number of faults:

- `TypeCorrect`: `Spec => []TypeOK`;
- `CompleteTrained`: `Spec => []CompleteIsTrained`;
- `ConfirmedApproved`: `Spec => []ConfirmedIsApproved`;
- `Refinement`: `Spec => PromiseKept`, the life cycle implements `AuditPromise`.

They use the assumptions named in `AuditLifecycle` (`ConfigAssumption`: the maps are
total and the two markers are no fields; `BoundAssumption`), which TLC evaluates on
every audit run.

Neither invariant is inductive alone. `IInv` adds what keeps a complete audit
trained:

- `LockInv`: a working worker holds the lock of its configuration, and nobody else does;
- `StartedInv`: a configuration someone works on is uploaded, and no longer queued once a
  worker has begun or a request trains it (so that an upload's late `failed` is the only
  outside write);
- `BegunInv`: once a worker has begun, its configuration is not complete, so that a
  training request's or another worker's write to findings never meets a complete audit;
- `ParsedInv`: the fields a worker parsed are approved and accepted (mappings are
  never changed once approved);
- `EvaluatedInv`: what a worker evaluates is what is stored and has nothing left to
  train: the worker's own `findings` cannot change under it, as the only other writer, a training
  request, needs an unverified line.

`Invariance` proves `Init => IInv` and one lemma per action; the conjuncts an
action cannot disturb share a frame lemma. `Refinement` needs `IInv` at one point:
`CompleteAudit` maps to `Complete`, whose guard is about the book of approvals
and follows from `ParsedInv` and `EvaluatedInv`; every other step maps to `Progress`,
`Submit`, `Reopen`, `Approve` or a stutter.

`NetworkMissionProofs` proves, for every topology, scope, registry, set of workers
and bound, with any number of starts, retries and faults:

- `TypeCorrect`: `Spec => []TypeOK`;
- `SingleWalk`: `Spec => []OneTraversal`;
- `AuthorizationHolds`: `Spec => []AuthorizedOnly`;
- `BoundsHold`: `Spec => []WithinBounds`;
- `BreadthFirst`: `Spec => []ShortestDepth`.

They use `TopologyAssumption` (the seed and all neighbours are addresses) and
`BoundAssumption` (the bounds are numbers, `max_depth` and `max_devices` positive, as
`routers/network_missions.py` validates them and caps them with positive settings). The
invariant `IInv` adds:

- `KnownInv`: whatever a queue, a dispatcher, a retry or a collector names is recorded
  and authorized. Without it a message could bring in a device nobody tested;
- `WalkInv`: a walk has left the created status behind and starts with no row, so a
  second start message cannot begin another; it visits known devices, and the one it
  reads is above `max_depth`, which is why `depth + 1` is in type;
- `OrderInv`: the queue is sorted by depth, and no row is more than one link below any
  device that waits or is read. This is the argument that the walk is breadth first:
  a device appended is one link below the one read, so it is at least as deep as all
  that wait, and whatever is recorded later is as deep or deeper;
- `BoundInv`: the rows are finitely many, at most `max_devices + 1`.

Steps outside the walk share one frame lemma (`QuietKeeps`): they record nothing and
move no depth. Steps of the walk have a lemma each.

`AuditSchedulesProofs` proves, for every set of schedules, credentials, polls,
workers and requests, every set of PATCH bodies and every bound:

- `TypeCorrect`: `Spec => []TypeOK`;
- `CredentialHeld`: `Spec => []EnabledHasCredential`;
- `SentOncePerDue`: `Spec => []DispatchedOnce`.

They use `ScheduleAssumption`. `CredentialHeld` needs to know that what a PATCH read is
still true when it commits, although runs and polls write the same row without
the device lock. `CredentialInv` says so: one PATCH at a time (`OnePatch`); its
reference is the row's, its body's credential is stored, the row exists and has not been enabled
behind it (`PatchIsCurrent`); no row keeps the reference of a credential that is
gone (`ReferenceStored`). Everything that runs in the background only disables rows
and deletes none, which is one lemma (`DisablingStep`); a PATCH that writes only what
it changed therefore cannot bring a disabled row back without its reference.
`SentOncePerDue` needs `SendInv`: a row is held by one poll and is there either still to
send, sent or refused (`HeldOnce`), and a row still to send, or due and not sent by
a poll under way, was sent no more often than there were faults (`SentByCrashes`).

`RemediationCampaignProofs` proves, for every set of campaigns, controls, targets,
findings, workers and requests, whether campaigns share the action of a finding or not,
with manual applies or without, for every poll limit and bound:

- `TypeCorrect`: `Spec => []TypeOK`;
- `PendingWaits`: `Spec => PendingUntilApproved`;
- `Verified`: `Spec => []VerifiedHasEvidence`;
- `Completed`: `Spec => []CompletedIsDone`, which the promise's completion rests on;
- `Refinement`: `Spec => PromiseKept`, the campaigns implement `CampaignPromise`.

They use `TargetAssumption` (the maps are total, and every campaign has a target, as
`create_campaign` refuses to create one without; without it an empty campaign would count as
completed) and `BoundAssumption`. The run `campaign_races` has one target; that two campaigns
push one action is covered by the proof only. Four invariants are needed:

- `Typed` adds what a process carries at each point of a push (`Knows`): only with an
  outcome to record may it finish a target, and the finding it pushes is its target's;
- `ApprovalInv`: work follows approval. A request that is creating a campaign is the only
  one that has it, and a request, a process, a finalizer or its message that is past the
  approval has an approved campaign (`Begun`), none of whose targets is pending.
  Everything but the requests changes rows of approved campaigns alone
  (`FollowsApproval`, one lemma per group of actions);
- `EvidenceInv`: an applied action, and a process that is about to report success
  (`Claims`), has its snapshot; a target passed over has its newer audit; a finalizer that will
  publish `completed` has seen evidence for every target (`PublishesDone`). This holds
  although the finalizer writes later what it read, because evidence only accumulates
  (`GathersEvidence`): a snapshot is never removed, and a second approval of an applied
  action leaves it applied;
- `ConsentInv`: whoever pushes, or is about to, pushes a finding that has an action, which
  nobody ever deletes (`KeepsConsent`), and no finalizer's verdict is `approved`.

`Refinement` follows step by step: approvals are the promise's `Approve` and `ApproveOne`, a
push is `Reach` (by `ConsentInv`), its record `Change`, a start, a delivery that refuses and
a verdict are `Work` (by `ApprovalInv`) or `Complete` (by `PublishesDone`); every other step
changes nothing the promise sees. `Approve` is possible from every status
but absent: an approval that was asked for long ago still counts when the campaign has gone on,
as `approve_campaign` reads the status without a lock.

`DeviceDiscoveryProofs` proves, for every topology, initial registry, set of users,
roles and requests, all limits of a session and all bounds:

- `TypeCorrect`: `Spec => []TypeOK`;
- `AccessHolds`: `Spec => []AccessAuthorized`;
- `OwnersKept`: `Spec => OwnerKept`;
- `Imports`: `Spec => []ImportsOwned`;
- `WalkBounded`: `Spec => []BoundedWalk`.

They use `DiscoveryAssumption`, which says that a seed is an address, an unsafe one
is none, and the limits are positive, as the request's validation demands. The first four
need `IInv`:

- `LockInv`: no two requests hold the row of one device. With it, a request about to claim
  (`AccessInv`) knows that the device it found free is still free, whatever else has
  committed since it looked; this is what `OwnersKept` rests on;
- `AccessInv`: a request that may still claim does so for its user's own organization, or
  one the user operates; a request past its access has both an owner and a role;
- `RoleInv`: an organization with any member has its own user as an owner, so that creating the
  personal organization during a claim always ends in a role that operates it;
- `PlacedInv`, `WalkInv`: a session belongs to an organization that its starter operates,
  and what is stored for it is of a device that organization owns. An owner never
  changes, so it stays so when the configuration is committed later.

`WalkBounded` needs a second layer, `ShapeInv`, proved from the first: the candidates are what
the walk has seen without the seed (`Walked`), a device that waits or is asked is the
seed or an imported candidate at the depth the queue holds, and every candidate is
one level below such a device (`TreeInv`). Operators import and dismiss candidates
meanwhile, but add none, and audits are only added (`RequestStep`, one lemma for all
steps of requests).

`DiscoverySessionProofs` builds on that module and proves, under the same assumption,
what the walk and the operators' requests promise each other although no row of a session
is locked:

- `AuditsOnce`: `Spec => []AuditedOnce`;
- `AwaitingContinues`: `Spec => []AwaitingCanContinue`;
- `EvidenceShortest`: `Spec => []ShortestEvidence`.

All three need `TurnInv`, which says whose turn it is: the walk's request is at
steps of a walk that goes on, operators work on candidates when it is over, and a candidate
that was not found yet has no audit (`Turn`). On top of it,

- `OnceInv`: if no request was lost and no two requests for the candidate were in flight together,
  one request works on it (`Working`); it finds the candidate without an audit until it has
  stored one; and an audit that is not linked yet is one such request's;
- `AwaitInv`: if no candidates' requests overlapped, one request works at a time, and what it
  has read of its candidate and of the session is still true when it writes (`Undone`). A
  session that waits for its operator then has a candidate the operator can decide on
  (`Continuable`), except between a request's change of a status and its summary (`Early`);
- `LevelInv`: the breadth-first argument. The queue is sorted and spans two adjacent
  levels, and no candidate is deeper than the second (`Levels`); a device the walk goes
  on from is at the last level, waits in the queue, is the one being asked, or has been
  asked and all it reports is known at most one level below it (`Sources`: `Waiting`,
  `Asking`, `Closed`). That the queue stays so when its head is taken is one lemma about
  tails (`TailShift`).

`ParserProofs` proves what the four parsers compute, for every text and every set of
approved mappings:

- `ParseParsed`: of the parse of a whole file (`Parsed`): every line that says something is
  cited or left for training and not both, a setting has the value stated last, each value is
  a number or comes from a usable mapping, a stored FortiOS password stays weak, and
  what is set was stated on a line (`Sourced`);
- `MappingsExplain`: with mappings the parser reads the same fields from the same lines
  as without, and what the mappings explain is exactly what it would have left besides.

A parse is a recursive function of the number of lines, so these are proved by the least
number of lines at which they could fail (`LeastNat`, from the well-founded order of the
numbers; the library's induction theorems take an operator, which the provers cannot
instantiate). What differs between the vendors is in one lemma per parser: every
line, in every state, is of one of the kinds of `Kinds`, whatever the parse so far and
the mappings are. A line says nothing and is skipped, is a statement and is found (once
or twice), belongs to a banner, or is asked of the mappings. Everything else follows
from the kinds alone: `Sound` is kept by every line (`Accounted`: a line is cited,
left, blank, or inside a banner whose first line is known from the state; `Weakest`,
`Founded`), and the end of the file adds only what the vendor concludes (`Ended`).

`ConfigAnalysisProofs` proves, for every set of vendors, fragments, requests and approved
readings and all bounds:

- `OneResultPerControl`, `ScoreComputedAgain`, `DriftLosesNothing`: an evaluation gives each
  control of the catalogue one verdict, the score is between 0 and 100 per cent, the drift
  report computes the stored one again, and it accounts for every failure
  between any two evaluations, of the same framework or not;
- `AlwaysTypeOK`, `AlwaysAccounted`, `AlwaysLastDecides`, `AlwaysEvidence`,
  `AlwaysOnlyUnknown`, `AlwaysDriftAccounts`: the invariants of the run `analysis`;
- `AlwaysMistyped`: `Spec => []FailsOnlyByMistyping`, for any set of ways in, the pull of a
  discovered neighbour included;
- `AlwaysNewLinesPrevail`: `Spec => []NewLinesPrevail`, the conjunct of `TemplateClears`
  that is about the parser, for the Cisco and JunOS catalogues of every framework. Rests on
  `CiscoRepaired` and `JuniperRepaired`, which are about every text and every set of
  mappings of the form below, reached by an audit or not. What it says nothing of, the
  templates that take something away and the order in which a device shows its lines, is
  model-checked only.

They use `BoundsAssumption` and `LinesAssumption` (what lines and approved readings are
made of). The run has three vendors and a generic one with a few fragments each; the proofs
also cover texts of any length in any order and any set of mappings. `IInv` says
what an audit leaves to the next one:

- `NormalizedInv`: what is stored is a pass over the lines the text had then, with
  the mappings approved then. A longer text begins with those lines, so that a pass
  over as many lines as the text has (`Current`) is one over the text;
- `AuditsInv`, `ResultsInv`, `LastInv`: only the last audit is under way, a completed one has
  the results of an evaluation and their score, the last one's are of what is stored;
- `PendingInv`, `FailedInv`: a line is pending only if the pass left it, and a failed audit
  has a usable mapping of a wrong type that no pending line is about to replace. Without
  the last clause it would not be inductive: a mapping approved again for the same
  pattern takes its place, and only lines that the mappings do not cover are
  ever pending, which is part of `Parsed`.

`FailsOnlyByMistyping` needs `CompleteInv` besides: no audit of a pair without a catalogue
completes, because `Outcome` fails it before an evaluation.

`VerdictHasEvidence` needs, besides, that every row of the six catalogues is of a form
for which not applicable is the answer to nothing observed (`Row`, `RowJudges`), and that
FortiOS controls do not read what the parser concludes.

`NewLinesPrevail` relates three tables that name one setting each (catalogue, templates,
parser), and the state in which the parser meets the first line of the template. Its proof
goes from the line to the audit:

- the tables are looked up row by row (`DictRow`, `CiscoRemedies`, `JunosRemedies`): each
  reference has the template that the source lists, and no other;
- a parse of a longer text is the parse of the text, then of what is added (`Longer`), so a
  template counts from the state that the text leaves. On Cisco that state must not
  be inside a banner, which would swallow the template: a text with an open banner leaves its
  first line for training, so after one that was understood (`Understood`) no banner is open
  (`CiscoUnderstood`) and each line of the template is read (`Reports`, `SetsTo`, `Includes`);
- a control that fails reads one setting, or a list, that its template leaves as the test
  asks (`SettingPasses`, `ListsPass`); the rows of each catalogue are compared with their
  templates one by one (`CiscoShared`, `JunosShared`, `JunosOwnRepaired`);
- the second line of the JunOS authentication template says nothing the parser knows, so a mapping
  approved for its pattern could undo the first; none does, because no mapping concerns
  what the control reads (`AaaRepaired`).

The last step needs one invariant more than `IInv`: `FreshInv`, a completed audit left no
line with the mappings approved *now* (a mapping is only approved while an audit
waits), so that the text is understood with the mappings of the next parse.

Only model-checked: the liveness properties (fairness and `ENABLED` are beyond the
prover) and the runs that are violated; so is the half of
`TemplateClears` about the read-back of a device. Every other invariant and every action
property of the passing runs is proved. No module declares a recursive operator.

## 5. Not modelled, and why

- *Authentication*: sessions are signed tokens without state on the server; the
  one-time-password counters are rows of their own that no other component reads.
- *AI proposals*: a proposed line stays unknown to the gate, which is what the models
  keep; the client is HTTP, prompts and the validation of free text.
- *Roles, separate approver, confirmation of risky commands*: outside `DeviceDiscovery`, where the
  role decides who claims a device, they only reject a request, in the transaction that
  made it.
- *`Config.cancelled`*: no code sets this status.
- *Splitting text*: regular expressions, the detection of the vendor, the pattern signature; a
  line of `ConfigAnalysis` is what they yield. The wording of findings, details and
  reports, the text diff of the drift report, the PDF.
- *Values that raise by other ways than a comparison*: an unhashable secret type, a list
  item that is no text (`cis_cisco_ios.py:63, 118, 134`), a mapping approved for an
  interface or a whole section, which `routers/training.py:113-122` does not refuse. Each
  fails the audit as a mistyped bound does.
- *Examples of a mapping*: a pattern has one value; the code keeps one per exact line and
  gives other lines the first (`routers/training.py:225-241`). A pattern here does not
  tell a negated line from a plain one.
- *Reads that are one step*: the mappings of a parse (one query per line in the code), the
  nodes of a mission's poll (read one by one without a lock).
- *Read endpoints* (lists, history, fleet summary, event logs): they change nothing.
- *The vault, devices, output parsing and the broker* are external: their outcomes are inputs.
- *Local mode of discovery*, where nobody owns a device.
- *Frontend, settings, start-up checks*: no state that the modelled components share.
- In `NetworkMission`, the campaign finalizer's writes of the mission status: they are
  in `RemediationCampaign`.

## 6. Plan

1. (done) Audit life cycle and training with its promise and proofs; remediation
   campaigns with their promise and proofs; network missions and proofs; audit
   schedules and proofs; discovery
   sessions, ownership and claims and proofs; parsers, catalogues, templates and drift.
2. The composition of a mission with its campaigns, for the final status of a mission
   and its regressions, and for two campaigns of one control.
3. One-time-password counters.
