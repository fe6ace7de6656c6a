--------------------------- MODULE NetworkMission ---------------------------
(***************************************************************************)
(* One network mission: a worker walks the topology from a seed device     *)
(* breadth first, dispatches the collection of every device it authorized, *)
(* and a finalizer polls the audits and publishes whether the mission is   *)
(* ready for review.  Operators may retry collection at any time.          *)
(*                                                                         *)
(* A step is what the code does between two database commits.  Operators   *)
(* store and delete device credentials at will, so every lookup may find   *)
(* one or none.                                                            *)
(***************************************************************************)
EXTENDS Naturals, FiniteSets, Sequences

CONSTANTS
  Address,     \* management addresses of the network
  Seed,        \* the registered seed device
  Neighbours,  \* the addresses each device reports
  InScope,     \* addresses assert_connectable_target accepts for the mission
  Identified,  \* CDP or LLDP evidence of a vendor with a fixed connector
  Foreign,     \* devices registered by another organization
  MaxDepth,    \* NetworkMission.max_depth
  MaxDevices,  \* NetworkMission.max_devices
  PollLimit,   \* MISSION_AUDIT_POLL_LIMIT
  Worker,      \* Celery workers of the network_missions queue
  Request,     \* bound: retry requests, each made once
  MaxStarts,   \* bound: mission start messages waiting
  MaxMessages, \* bound: collection and finalizer messages waiting of each kind
  MaxFaults    \* bound: crashes, exceptions and broker errors

ASSUME TopologyAssumption ==
  /\ Seed \in Address
  /\ Neighbours \in [Address -> SUBSET Address]
  /\ InScope \subseteq Address
  /\ Identified \subseteq Address
  /\ Foreign \subseteq Address

ASSUME BoundAssumption ==
  /\ MaxDepth \in Nat \ {0} /\ MaxDevices \in Nat \ {0}
  /\ PollLimit \in Nat /\ MaxStarts \in Nat
  /\ MaxMessages \in Nat /\ MaxFaults \in Nat

VARIABLES
  mission,   \* NetworkMission.status
  node,      \* NetworkMissionDevice.state of each recorded address
  depth,     \* NetworkMissionDevice.depth
  config,    \* status of the audit linked to the node
  start,     \* run_network_mission messages
  task,      \* collect_mission_device messages
  poll,      \* finalize_network_mission messages, by retries
  worker,    \* local state of each worker
  request,   \* local state of each retry request
  faults     \* faults so far

vars == <<mission, node, depth, config, start, task, poll, worker, request, faults>>

MissionStatus == {"created", "discovering", "collecting", "auditing",
                  "ready_for_review", "failed", "remediation_pending"}
DeviceState == {"seed", "ready", "credential_missing", "unsupported",
                "out_of_scope", "unreachable", "audit_queued",
                "collection_failed", "audited", "remediation_ready"}
AuditStatus == {"none", "running", "complete", "failed", "awaiting_training"}

\* Devices the mission may log in to.
Authorized == {Seed} \cup ((InScope \cap Identified) \ Foreign)

Idle == [pc |-> "idle"]
Served == [pc |-> "served"]
Traversing == [pc : {"seed", "traverse", "discover", "record", "eligible"},
               queue : Seq(Address), parent : Address, todo : SUBSET Address]
Dispatching == [pc : {"dispatch", "finalizer"}, eligible : SUBSET Address,
                todo : SUBSET Address, refused : SUBSET Address]
Collecting == [pc : {"pull", "link"}, node : Address, dispatched : BOOLEAN]
Finalizing == [pc : {"publish"}, audited : BOOLEAN]
Retrying == [pc : {"dispatch", "finalizer"}, nodes : SUBSET Address,
             todo : SUBSET Address, seen : MissionStatus]

TypeOK ==
  /\ mission \in MissionStatus
  /\ node \in [Address -> DeviceState \cup {"absent"}]
  /\ depth \in [Address -> 0 .. MaxDepth]
  /\ config \in [Address -> AuditStatus]
  /\ start \in 0 .. MaxStarts
  /\ task \in [Address -> 0 .. MaxMessages]
  /\ poll \in [0 .. PollLimit -> 0 .. MaxMessages]
  /\ worker \in [Worker -> Traversing \cup Dispatching \cup Collecting
                             \cup Finalizing \cup {Idle}]
  /\ request \in [Request -> Retrying \cup {Idle, Served}]
  /\ faults \in 0 .. MaxFaults

Init ==
  /\ mission = "created"
  /\ node = [a \in Address |-> "absent"]
  /\ depth = [a \in Address |-> 0]
  /\ config = [a \in Address |-> "none"]
  /\ start = 0
  /\ task = [a \in Address |-> 0]
  /\ poll = [n \in 0 .. PollLimit |-> 0]
  /\ worker = [w \in Worker |-> Idle]
  /\ request = [r \in Request |-> Idle]
  /\ faults = 0

Recorded == {a \in Address : node[a] # "absent"}

\* Row lock of a device being pulled; it ends with the commit of its Config.
NodeLocked(a) == \E w \in Worker : worker[w].pc = "pull" /\ worker[w].node = a

Fault == faults < MaxFaults /\ faults' = faults + 1

\* An ORM assignment emits an UPDATE only when it changes the loaded value.
Written(loaded, current, new) == IF loaded = new THEN current ELSE new

-----------------------------------------------------------------------------
(* API.                                                                    *)

\* start_network_mission only queues the mission; it may do so twice.
StartMission ==
  /\ mission = "created"
  /\ start < MaxStarts
  /\ start' = start + 1
  /\ UNCHANGED <<mission, node, depth, config, task, poll, worker, request, faults>>

\* Mutation: a device of another organization is taken over.
AuthorizedAnyOrg == InScope \cap Identified

Manageable == (InScope \cap Identified) \ Foreign

\* NetworkMissionDevice.device_id is set.
Registered == {Seed} \cup Manageable

\* Nodes that a retry collects, if it finds a credential for them.
Retryable ==
  {a \in Registered :
     /\ node[a] \in {"ready", "credential_missing", "collection_failed", "unreachable"}
     /\ config[a] = "none"}

\* retry_mission_audit asks neither for the mission's status nor for a lock.
ReadRetry(r) ==
  /\ request[r] = Idle
  /\ \E S \in SUBSET Retryable \ {{}} :
       request' = [request EXCEPT ![r] =
         [pc |-> "dispatch", nodes |-> S, todo |-> S, seen |-> mission]]
  /\ UNCHANGED <<mission, node, depth, config, start, task, poll, worker, faults>>

Enqueue(a) == task[a] < MaxMessages /\ task' = [task EXCEPT ![a] = @ + 1]

\* A publish that raises may or may not have reached the broker.
MaybeEnqueue(a) == Enqueue(a) \/ UNCHANGED task

DispatchRetry(r, a) ==
  /\ request[r].pc = "dispatch"
  /\ a \in request[r].todo
  /\ Enqueue(a)
  /\ request' = [request EXCEPT ![r].todo = @ \ {a}]
  /\ UNCHANGED <<mission, node, depth, config, start, poll, worker, faults>>

\* The nodes are committed only when all their tasks have been sent.
CommitRetry(r) ==
  LET q == request[r] IN
  /\ q.pc = "dispatch" /\ q.todo = {}
  /\ \A a \in q.nodes : ~NodeLocked(a)
  /\ node' = [a \in Address |-> IF a \in q.nodes THEN "audit_queued" ELSE node[a]]
  /\ mission' = Written(q.seen, mission, "auditing")
  /\ request' = [request EXCEPT ![r].pc = "finalizer"]
  /\ UNCHANGED <<depth, config, start, task, poll, worker, faults>>

SendFinalizer == poll[0] < MaxMessages /\ poll' = [poll EXCEPT ![0] = @ + 1]

FinishRetry(r) ==
  /\ request[r].pc = "finalizer"
  /\ SendFinalizer
  /\ request' = [request EXCEPT ![r] = Served]
  /\ UNCHANGED <<mission, node, depth, config, start, task, worker, faults>>

\* The broker raises or the process dies: what is not committed is lost.
RetryStops(r) ==
  /\ request[r] \notin {Idle, Served}
  /\ Fault
  /\ request' = [request EXCEPT ![r] = Served]
  /\ UNCHANGED <<mission, node, depth, config, start, task, poll, worker>>

\* create_campaign for a control that audited devices fail (RemediationCampaign).
CreateCampaign ==
  /\ \E S \in SUBSET {a \in Address : config[a] = "complete"} \ {{}} :
       /\ \A a \in S : ~NodeLocked(a)
       /\ node' = [a \in Address |-> IF a \in S THEN "remediation_ready" ELSE node[a]]
  /\ mission' = "remediation_pending"
  /\ UNCHANGED <<depth, config, start, task, poll, worker, request, faults>>

-----------------------------------------------------------------------------
(* Worker: run_network_mission.                                            *)

At(w, pc) == worker[w].pc = pc

\* Mutation: the status is not looked at.
Startable == TRUE

NotStarted == mission = "created"

\* The row is locked until the commit of discovering.
BeginMission(w) ==
  /\ worker[w] = Idle
  /\ start > 0
  /\ NotStarted
  /\ start' = start - 1
  /\ mission' = "discovering"
  /\ worker' = [worker EXCEPT ![w] =
       [pc |-> "seed", queue |-> <<>>, parent |-> Seed, todo |-> {}]]
  /\ UNCHANGED <<node, depth, config, task, poll, request, faults>>

SkipMission(w) ==
  /\ worker[w] = Idle
  /\ start > 0
  /\ ~NotStarted
  /\ start' = start - 1
  /\ UNCHANGED <<mission, node, depth, config, task, poll, worker, request, faults>>

\* The seed does not resolve to its registered address any more.
RejectSeed(w) ==
  /\ At(w, "seed")
  /\ mission' = "failed"
  /\ worker' = [worker EXCEPT ![w] = Idle]
  /\ UNCHANGED <<node, depth, config, start, task, poll, request, faults>>

RecordSeed(w) ==
  /\ At(w, "seed")
  /\ node' = [node EXCEPT ![Seed] = "seed"]
  /\ worker' = [worker EXCEPT ![w].pc = "traverse", ![w].queue = <<Seed>>]
  /\ UNCHANGED <<mission, depth, config, start, task, poll, request, faults>>

\* Mutation: one device too many.
MoreFits == Cardinality(Recorded) <= MaxDevices + 1

\* The seed does not count towards max_devices.
Fits == Cardinality(Recorded) <= MaxDevices

\* Mutation: the newest device is visited first.
Pop(queue) == [next |-> queue[Len(queue)], rest |-> SubSeq(queue, 1, Len(queue) - 1)]

\* Mutation: the visited device stays in the queue.
Peek(queue) == [next |-> Head(queue), rest |-> queue]

PopLeft(queue) == [next |-> Head(queue), rest |-> Tail(queue)]

VisitDevice(w) ==
  LET queue == worker[w].queue IN
  /\ At(w, "traverse")
  /\ queue # <<>> /\ Fits
  /\ worker' = [worker EXCEPT
       ![w].pc = IF depth[PopLeft(queue).next] < MaxDepth THEN "discover" ELSE @,
       ![w].queue = PopLeft(queue).rest,
       ![w].parent = PopLeft(queue).next]
  /\ UNCHANGED <<mission, node, depth, config, start, task, poll, request, faults>>

\* No SSH credential, a rejected one, or no connection.
DiscoverFails(w) ==
  LET p == worker[w].parent IN
  /\ At(w, "discover")
  /\ ~NodeLocked(p)
  /\ \E state \in {"credential_missing", "unreachable"} :
       node' = [node EXCEPT ![p] = state]
  /\ worker' = [worker EXCEPT ![w].pc = "traverse"]
  /\ UNCHANGED <<mission, depth, config, start, task, poll, request, faults>>

\* discover_seed_neighbors leaves the device itself out.
Discover(w) ==
  LET p == worker[w].parent IN
  /\ At(w, "discover")
  /\ worker' = [worker EXCEPT ![w].pc = "record", ![w].todo = Neighbours[p] \ {p}]
  /\ UNCHANGED <<mission, node, depth, config, start, task, poll, request, faults>>

\* Mutation: a known address is taken again.
Reported(w) == worker[w].todo

\* Candidates not seen before, in any order; the code sorts them by address.
Unseen(w) == worker[w].todo \ Recorded

\* A neighbour that is evidence only: no credential is tried on it.
RecordRejected(w, a) ==
  /\ At(w, "record")
  /\ Fits
  /\ a \in Unseen(w) \ Manageable
  /\ node' = [node EXCEPT ![a] = IF a \in InScope THEN "unsupported" ELSE "out_of_scope"]
  /\ depth' = [depth EXCEPT ![a] = depth[worker[w].parent] + 1]
  /\ worker' = [worker EXCEPT ![w].todo = @ \ {a}]
  /\ UNCHANGED <<mission, config, start, task, poll, request, faults>>

\* An SSH credential lets the walk go on, a Telnet one only the collection.
RecordDevice(w, a) ==
  LET next == depth[worker[w].parent] + 1 IN
  /\ At(w, "record")
  /\ Fits
  /\ a \in Unseen(w) \cap Manageable
  /\ depth' = [depth EXCEPT ![a] = next]
  /\ \E credential \in {"none", "ssh", "telnet"} :
       /\ node' = [node EXCEPT ![a] =
            IF credential = "none" THEN "credential_missing" ELSE "ready"]
       /\ worker' = [worker EXCEPT ![w].todo = @ \ {a},
            ![w].queue = IF credential = "ssh" /\ next < MaxDepth
                         THEN Append(@, a) ELSE @]
  /\ UNCHANGED <<mission, config, start, task, poll, request, faults>>

FinishDevice(w) ==
  /\ At(w, "record")
  /\ Unseen(w) = {} \/ ~Fits
  /\ worker' = [worker EXCEPT ![w].pc = "traverse", ![w].todo = {}]
  /\ UNCHANGED <<mission, node, depth, config, start, task, poll, request, faults>>

FinishTraversal(w) ==
  /\ At(w, "traverse")
  /\ worker[w].queue = <<>> \/ ~Fits
  /\ node[Seed] = "seed" => ~NodeLocked(Seed)
  /\ node' = [node EXCEPT ![Seed] = IF @ = "seed" THEN "ready" ELSE @]
  /\ mission' = "collecting"
  /\ worker' = [worker EXCEPT ![w].pc = "eligible"]
  /\ UNCHANGED <<depth, config, start, task, poll, request, faults>>

ReadEligible(w) ==
  LET S == {a \in Registered : node[a] = "ready"} IN
  /\ At(w, "eligible")
  /\ worker' = [worker EXCEPT ![w] =
       [pc |-> "dispatch", eligible |-> S, todo |-> S, refused |-> {}]]
  /\ UNCHANGED <<mission, node, depth, config, start, task, poll, request, faults>>

\* The task is sent, the node is not committed as audit_queued yet.
DispatchCollect(w, a) ==
  /\ At(w, "dispatch")
  /\ a \in worker[w].todo
  /\ Enqueue(a)
  /\ worker' = [worker EXCEPT ![w].todo = @ \ {a}]
  /\ UNCHANGED <<mission, node, depth, config, start, poll, request, faults>>

DispatchCollectRaises(w, a) ==
  /\ At(w, "dispatch")
  /\ a \in worker[w].todo
  /\ Fault
  /\ MaybeEnqueue(a)
  /\ worker' = [worker EXCEPT ![w].todo = @ \ {a}, ![w].refused = @ \cup {a}]
  /\ UNCHANGED <<mission, node, depth, config, start, poll, request>>

\* One commit for all of them, over whatever the collectors have written.
CommitDispatch(w) ==
  LET sent == worker[w].eligible \ worker[w].refused IN
  /\ At(w, "dispatch")
  /\ worker[w].todo = {}
  /\ \A a \in worker[w].eligible : ~NodeLocked(a)
  /\ node' = [a \in Address |->
       IF a \in sent THEN "audit_queued"
       ELSE IF a \in worker[w].refused THEN "collection_failed" ELSE node[a]]
  /\ mission' = IF sent # {} THEN "auditing" ELSE "failed"
  /\ worker' = IF sent # {} THEN [worker EXCEPT ![w].pc = "finalizer"]
               ELSE [worker EXCEPT ![w] = Idle]
  /\ UNCHANGED <<depth, config, start, task, poll, request, faults>>

SendMissionFinalizer(w) ==
  /\ At(w, "finalizer")
  /\ SendFinalizer
  /\ worker' = [worker EXCEPT ![w] = Idle]
  /\ UNCHANGED <<mission, node, depth, config, start, task, request, faults>>

\* Any other exception: roll back, write failed, whatever was dispatched.
FailMission(w) ==
  /\ worker[w] # Idle
  /\ worker[w].pc \notin {"pull", "link", "publish"}
  /\ Fault
  /\ mission' = "failed"
  /\ worker' = [worker EXCEPT ![w] = Idle]
  /\ UNCHANGED <<node, depth, config, start, task, poll, request>>

-----------------------------------------------------------------------------
(* Worker: collect_mission_device.                                         *)

TakeCollect(w, a) ==
  /\ worker[w] = Idle
  /\ task[a] > 0
  /\ ~NodeLocked(a)
  /\ task' = [task EXCEPT ![a] = @ - 1]

SkipCollect(w, a) ==
  /\ TakeCollect(w, a)
  /\ config[a] # "none"
  /\ UNCHANGED <<mission, node, depth, config, start, poll, worker, request, faults>>

BeginPull(w, a) ==
  /\ TakeCollect(w, a)
  /\ config[a] = "none"
  /\ worker' = [worker EXCEPT ![w] = [pc |-> "pull", node |-> a, dispatched |-> FALSE]]
  /\ UNCHANGED <<mission, node, depth, config, start, poll, request, faults>>

\* No credential or a rejected one, no connection, an address that has moved.
PullFails(w) ==
  /\ At(w, "pull")
  /\ \E state \in {"credential_missing", "unreachable"} :
       node' = [node EXCEPT ![worker[w].node] = state]
  /\ worker' = [worker EXCEPT ![w] = Idle]
  /\ UNCHANGED <<mission, depth, config, start, task, poll, request, faults>>

\* persist_device_config commits the Config, and with it the row lock is gone.
PullConfig(w) ==
  /\ At(w, "pull")
  /\ \E dispatched \in BOOLEAN :
       worker' = [worker EXCEPT ![w].pc = "link", ![w].dispatched = dispatched]
  /\ UNCHANGED <<mission, node, depth, config, start, task, poll, request, faults>>

\* The audit, queued before this commit, is taken to start with it.
LinkConfig(w) ==
  LET p == worker[w].node IN
  /\ At(w, "link")
  /\ ~NodeLocked(p)
  /\ config' = [config EXCEPT ![p] = IF worker[w].dispatched THEN "running" ELSE "failed"]
  /\ node' = [node EXCEPT
       ![p] = IF worker[w].dispatched THEN "audit_queued" ELSE "collection_failed"]
  /\ worker' = [worker EXCEPT ![w] = Idle]
  /\ UNCHANGED <<mission, depth, start, task, poll, request, faults>>

\* The audit of a collected configuration, see AuditLifecycle.
AuditEnds(a) ==
  /\ config[a] \in {"running", "awaiting_training"}
  /\ \E result \in {"complete", "failed", "awaiting_training"} :
       config' = [config EXCEPT ![a] = result]
  /\ UNCHANGED <<mission, node, depth, start, task, poll, worker, request, faults>>

-----------------------------------------------------------------------------
(* Worker: finalize_network_mission.                                       *)

\* Mutation: a retry does not count.
RetryUncounted(n) == n

Retried(n) == n + 1

Active ==
  \E a \in Address :
    \/ config[a] = "none" /\ node[a] \in {"audit_queued", "ready"}
    \/ config[a] = "running"

\* Mutation: the status of the audit is copied.
PolledRaw(a) == IF config[a] = "none" THEN node[a] ELSE config[a]

\* What a poll makes of a node, committed whether or not it polls again.
Polled(a) ==
  CASE config[a] = "complete" -> "audited"
    [] config[a] = "failed" -> "collection_failed"
    [] OTHER -> node[a]

\* The rows are read and written in one step, although the code holds no lock on them
\* while it goes through them (tasks/network_missions.py:312-331).
PollNodes(w, n) ==
  /\ worker[w] = Idle
  /\ poll[n] > 0
  /\ \A a \in Address : Polled(a) # node[a] => ~NodeLocked(a)
  /\ node' = [a \in Address |-> Polled(a)]

PollAgain(w, n) ==
  /\ PollNodes(w, n)
  /\ Active
  /\ n < PollLimit
  /\ poll[Retried(n)] < MaxMessages
  /\ poll' = [poll EXCEPT ![n] = @ - 1, ![Retried(n)] = @ + 1]
  /\ UNCHANGED <<mission, depth, config, start, task, worker, request, faults>>

EndPolling(w, n) ==
  /\ PollNodes(w, n)
  /\ ~Active \/ n = PollLimit
  /\ poll' = [poll EXCEPT ![n] = @ - 1]
  /\ worker' = [worker EXCEPT ![w] = [pc |-> "publish",
       audited |-> \E a \in Address : config[a] = "complete"]]
  /\ UNCHANGED <<mission, depth, config, start, task, request, faults>>

\* A second transaction, over whatever the mission has become.
PublishAudit(w) ==
  /\ At(w, "publish")
  /\ mission' = IF worker[w].audited THEN "ready_for_review" ELSE "failed"
  /\ worker' = [worker EXCEPT ![w] = Idle]
  /\ UNCHANGED <<node, depth, config, start, task, poll, request, faults>>

WorkerCrash(w) ==
  /\ worker[w] # Idle
  /\ Fault
  /\ worker' = [worker EXCEPT ![w] = Idle]
  /\ UNCHANGED <<mission, node, depth, config, start, task, poll, request>>

-----------------------------------------------------------------------------
Traverse(w) ==
  \/ RecordSeed(w) \/ VisitDevice(w) \/ Discover(w) \/ FinishDevice(w)
  \/ \E a \in Address : RecordRejected(w, a) \/ RecordDevice(w, a)
  \/ FinishTraversal(w) \/ ReadEligible(w)
  \/ \E a \in Address : DispatchCollect(w, a)
  \/ CommitDispatch(w) \/ SendMissionFinalizer(w)

TakeMessage(w) ==
  \/ BeginMission(w) \/ SkipMission(w)
  \/ \E a \in Address : SkipCollect(w, a) \/ BeginPull(w, a)
  \/ \E n \in 0 .. PollLimit : PollAgain(w, n) \/ EndPolling(w, n)

Collect(w) == PullConfig(w) \/ LinkConfig(w)

WorkerFails(w) ==
  \/ RejectSeed(w) \/ DiscoverFails(w) \/ PullFails(w)
  \/ \E a \in Address : DispatchCollectRaises(w, a)
  \/ FailMission(w) \/ WorkerCrash(w)

WorkerStep(w) ==
  TakeMessage(w) \/ Traverse(w) \/ Collect(w) \/ PublishAudit(w) \/ WorkerFails(w)

ServeRetry(r) ==
  \/ \E a \in Address : DispatchRetry(r, a)
  \/ CommitRetry(r) \/ FinishRetry(r)

Next ==
  \/ StartMission \/ CreateCampaign
  \/ \E w \in Worker : WorkerStep(w)
  \/ \E r \in Request : ReadRetry(r) \/ ServeRetry(r) \/ RetryStops(r)
  \/ \E a \in Address : AuditEnds(a)

Spec == Init /\ [][Next]_vars

\* Celery keeps its workers running and delivers what is queued; a request that
\* has begun goes on.  Faults, audits, operators and retries are not forced.
Fairness ==
  /\ \A w \in Worker :
       /\ WF_vars(TakeMessage(w)) /\ WF_vars(Traverse(w))
       /\ WF_vars(Collect(w)) /\ WF_vars(PublishAudit(w))
  /\ \A r \in Request : WF_vars(ServeRetry(r))

FairSpec == Spec /\ Fairness

-----------------------------------------------------------------------------
(* Properties.                                                             *)

\* Whatever retries, crashes and duplicated starts do, only the seed and the
\* neighbours that passed every test of the walk are logged in to, collected or
\* linked to a configuration (the guards of run_network_mission, 139-186).
AuthorizedOnly ==
  \A a \in Address \ Authorized :
    /\ node[a] \in {"absent", "unsupported", "out_of_scope"}
    /\ task[a] = 0 /\ config[a] = "none"
    /\ \A w \in Worker : At(w, "discover") => worker[w].parent # a

\* The walk records at most max_devices devices beside the seed, and none more
\* than max_depth links away from it (the two bounds of run_network_mission).
WithinBounds ==
  /\ Cardinality(Recorded) <= MaxDevices + 1
  /\ \A a \in Recorded : depth[a] <= MaxDepth

\* The walk is breadth first: when it reads the neighbours of a device, none of
\* them was recorded as further away than one link from that device.
ShortestDepth ==
  \A w \in Worker : At(w, "record") =>
    \A a \in Recorded \cap Neighbours[worker[w].parent] :
      depth[a] <= depth[worker[w].parent] + 1

InWalk(w) == worker[w].pc \in {"seed", "traverse", "discover", "record"}

\* However often a mission is started, one worker walks it (the row lock and the
\* status test of run_network_mission, 71-79).
OneTraversal == \A v, w \in Worker : InWalk(v) /\ InWalk(w) => v = w

\* A walk ends, also in a topology with cycles.
TraversalEnds == \A w \in Worker : InWalk(w) ~> ~InWalk(w)

\* Without faults, a mission that waits for its audits stops waiting: the polls
\* of finalize_network_mission are limited and the last one publishes.
MissionAnswered == mission = "auditing" ~> mission # "auditing" \/ faults > 0

CollectsFor(w, a) == worker[w].pc \in {"pull", "link"} /\ worker[w].node = a

\* A device shown as queued and without a configuration is being collected or
\* about to be; otherwise neither a collector nor a retry will touch it again
\* (README: "Attach missing credentials ..., then retry collection").
QueuedIsCollected ==
  \A a \in Address : node[a] = "audit_queued" /\ config[a] = "none" =>
    task[a] > 0 \/ \E w \in Worker : CollectsFor(w, a)
=============================================================================
