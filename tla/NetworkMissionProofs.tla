------------------------ MODULE NetworkMissionProofs ------------------------
(***************************************************************************)
(* Proofs about NetworkMission for every topology, every scope and every   *)
(* bound: only authorized devices are touched, the walk is single, stays   *)
(* within its bounds and is breadth first.                                 *)
(***************************************************************************)
EXTENDS NetworkMission, FiniteSetTheorems, SequenceTheorems, TLAPS

-----------------------------------------------------------------------------
(* Type correctness.                                                       *)

WalkPC == {"seed", "traverse", "discover", "record"}

\* The program counter tells what record a process holds.
LEMMA Kind ==
  ASSUME TypeOK
  PROVE  /\ \A w \in Worker :
              /\ worker[w] = Idle <=> worker[w].pc = "idle"
              /\ worker[w].pc \in WalkPC \cup {"eligible"} => worker[w] \in Traversing
              /\ worker[w].pc \in {"dispatch", "finalizer"} => worker[w] \in Dispatching
              /\ worker[w].pc \in {"pull", "link"} => worker[w] \in Collecting
              /\ worker[w].pc = "publish" => worker[w] \in Finalizing
         /\ \A r \in Request :
              /\ request[r] = Idle <=> request[r].pc = "idle"
              /\ request[r].pc \in {"dispatch", "finalizer"} => request[r] \in Retrying
<1>1. ASSUME NEW w \in Worker
      PROVE  /\ worker[w] = Idle <=> worker[w].pc = "idle"
             /\ worker[w].pc \in WalkPC \cup {"eligible"} => worker[w] \in Traversing
             /\ worker[w].pc \in {"dispatch", "finalizer"} => worker[w] \in Dispatching
             /\ worker[w].pc \in {"pull", "link"} => worker[w] \in Collecting
             /\ worker[w].pc = "publish" => worker[w] \in Finalizing
  <2>1. \/ worker[w] \in Traversing \/ worker[w] \in Dispatching
        \/ worker[w] \in Collecting \/ worker[w] \in Finalizing \/ worker[w] = Idle
    BY DEF TypeOK
  <2> QED BY <2>1 DEF Traversing, Dispatching, Collecting, Finalizing, Idle, WalkPC
<1>2. ASSUME NEW r \in Request
      PROVE  /\ request[r] = Idle <=> request[r].pc = "idle"
             /\ request[r].pc \in {"dispatch", "finalizer"} => request[r] \in Retrying
  BY DEF TypeOK, Retrying, Idle, Served
<1> QED BY <1>1, <1>2

\* A visit takes an address from the queue.
LEMMA PopType ==
  ASSUME NEW q \in Seq(Address), q # <<>>
  PROVE  /\ PopLeft(q).next = q[1] /\ PopLeft(q).next \in Address
         /\ PopLeft(q).rest \in Seq(Address)
         /\ Len(q) \in Nat /\ Len(q) > 0
         /\ Len(PopLeft(q).rest) = Len(q) - 1
         /\ \A i \in 1 .. Len(q) - 1 : PopLeft(q).rest[i] = q[i + 1]
<1>1. Head(q) = q[1] /\ Head(q) \in Address  BY HeadTailProperties
<1>2. Tail(q) \in Seq(Address) /\ Len(Tail(q)) = Len(q) - 1
      /\ \A i \in 1 .. Len(Tail(q)) : Tail(q)[i] = q[i + 1]
  BY HeadTailProperties
<1>3. Len(q) \in Nat /\ Len(q) > 0  BY EmptySeq, LenProperties
<1> QED BY <1>1, <1>2, <1>3 DEF PopLeft

LEMMA InitType == Init => TypeOK
BY TopologyAssumption, BoundAssumption DEF Init, TypeOK, MissionStatus, AuditStatus, Idle

\* Steps of the API and of the audits.
LEMMA ServiceType ==
  ASSUME TypeOK,
         \/ StartMission \/ CreateCampaign
         \/ \E r \in Request : ReadRetry(r) \/ ServeRetry(r) \/ RetryStops(r)
         \/ \E a \in Address : AuditEnds(a)
  PROVE  TypeOK'
<1> USE BoundAssumption DEF TypeOK
<1>1. CASE StartMission  BY <1>1 DEF StartMission
<1>2. CASE CreateCampaign
  BY <1>2 DEF CreateCampaign, MissionStatus, DeviceState
<1>3. ASSUME NEW r \in Request, ReadRetry(r) PROVE TypeOK'
  <2>1. Retryable \subseteq Address
    BY TopologyAssumption DEF Retryable, Registered, Manageable
  <2>2. request' \in [Request -> Retrying \cup {Idle, Served}]
    BY <1>3, <2>1 DEF ReadRetry, Retrying
  <2> QED BY <1>3, <2>2 DEF ReadRetry
<1>4. ASSUME NEW r \in Request, NEW a \in Address, DispatchRetry(r, a) PROVE TypeOK'
  <2>1. request[r] \in Retrying  BY <1>4, Kind DEF DispatchRetry
  <2>2. request' \in [Request -> Retrying \cup {Idle, Served}]
    BY <1>4, <2>1 DEF DispatchRetry, Retrying
  <2>3. task' \in [Address -> 0 .. MaxMessages]  BY <1>4 DEF DispatchRetry, Enqueue
  <2> QED BY <1>4, <2>2, <2>3 DEF DispatchRetry
<1>5. ASSUME NEW r \in Request, CommitRetry(r) PROVE TypeOK'
  <2>1. request[r] \in Retrying  BY <1>5, Kind DEF CommitRetry
  <2>2. request' \in [Request -> Retrying \cup {Idle, Served}]
    BY <1>5, <2>1 DEF CommitRetry, Retrying
  <2>3. mission' \in MissionStatus  BY <1>5 DEF CommitRetry, Written, MissionStatus
  <2>4. node' \in [Address -> DeviceState \cup {"absent"}]
    BY <1>5 DEF CommitRetry, DeviceState
  <2> QED BY <1>5, <2>2, <2>3, <2>4 DEF CommitRetry
<1>6. ASSUME NEW r \in Request, FinishRetry(r) PROVE TypeOK'
  BY <1>6 DEF FinishRetry, SendFinalizer
<1>7. ASSUME NEW r \in Request, RetryStops(r) PROVE TypeOK'
  BY <1>7 DEF RetryStops, Fault
<1>8. ASSUME NEW a \in Address, AuditEnds(a) PROVE TypeOK'
  BY <1>8 DEF AuditEnds, AuditStatus
<1> QED BY <1>1, <1>2, <1>3, <1>4, <1>5, <1>6, <1>7, <1>8 DEF ServeRetry

LEMMA MessageType ==
  ASSUME TypeOK, NEW w \in Worker, TakeMessage(w)
  PROVE  TypeOK'
<1> USE BoundAssumption DEF TypeOK
<1>1. CASE BeginMission(w)
  <2>1. <<>> \in Seq(Address)  BY EmptySeq
  <2> QED BY <1>1, <2>1, TopologyAssumption DEF BeginMission, Traversing, MissionStatus
<1>2. CASE SkipMission(w)  BY <1>2 DEF SkipMission
<1>3. ASSUME NEW a \in Address, SkipCollect(w, a) PROVE TypeOK'
  BY <1>3 DEF SkipCollect, TakeCollect
<1>4. ASSUME NEW a \in Address, BeginPull(w, a) PROVE TypeOK'
  BY <1>4 DEF BeginPull, TakeCollect, Collecting
<1>5. ASSUME NEW n \in 0 .. PollLimit, PollAgain(w, n) \/ EndPolling(w, n)
      PROVE  TypeOK'
  <2>1. node' \in [Address -> DeviceState \cup {"absent"}]
    BY <1>5 DEF PollAgain, EndPolling, PollNodes, Polled, DeviceState
  <2>2. CASE PollAgain(w, n)
    <3> DEFINE m == Retried(n)
    <3>1. m \in 0 .. PollLimit /\ m # n  BY <2>2 DEF PollAgain, Retried
    <3>2. poll[n] - 1 \in 0 .. MaxMessages /\ poll[m] + 1 \in 0 .. MaxMessages
      BY <2>2, <3>1 DEF PollAgain, PollNodes
    <3>3. poll' = [poll EXCEPT ![n] = @ - 1, ![m] = @ + 1]  BY <2>2 DEF PollAgain
    <3> HIDE DEF m
    <3>4. poll' \in [0 .. PollLimit -> 0 .. MaxMessages]  BY <3>1, <3>2, <3>3
    <3> QED BY <2>1, <2>2, <3>4 DEF PollAgain
  <2>3. CASE EndPolling(w, n)
    <3>1. poll' \in [0 .. PollLimit -> 0 .. MaxMessages]
      <4>1. poll[n] > 0 /\ poll' = [poll EXCEPT ![n] = @ - 1]
        BY <2>3 DEF EndPolling, PollNodes
      <4>2. poll[n] - 1 \in 0 .. MaxMessages  BY <4>1
      <4> QED BY <4>1, <4>2
    <3>2. worker' = [worker EXCEPT ![w] = [pc |-> "publish",
                       audited |-> \E a \in Address : config[a] = "complete"]]
      BY <2>3 DEF EndPolling
    <3>3. worker' \in [Worker -> Traversing \cup Dispatching \cup Collecting
                                 \cup Finalizing \cup {Idle}]
      BY <3>2 DEF Finalizing
    <3> QED BY <2>1, <2>3, <3>1, <3>3 DEF EndPolling
  <2> QED BY <1>5, <2>2, <2>3
<1> QED BY <1>1, <1>2, <1>3, <1>4, <1>5 DEF TakeMessage

\* The steps of the walk and of the dispatcher.
LEMMA TraverseType ==
  ASSUME TypeOK, NEW w \in Worker, Traverse(w),
         At(w, "discover") \/ At(w, "record") =>
           depth[worker[w].parent] < MaxDepth
  PROVE  TypeOK'
<1> DEFINE W == worker[w]  p == worker[w].parent
<1>a. W.pc \in WalkPC \cup {"eligible"} =>
        /\ W \in Traversing
        /\ p \in Address /\ W.queue \in Seq(Address) /\ W.todo \in SUBSET Address
  BY Kind DEF Traversing
<1>b. W.pc \in {"dispatch", "finalizer"} =>
        /\ W \in Dispatching
        /\ W.eligible \in SUBSET Address /\ W.todo \in SUBSET Address
        /\ W.refused \in SUBSET Address
  BY Kind DEF Dispatching
<1>c. W.pc \in {"discover", "record"} => depth[p] + 1 \in 0 .. MaxDepth
  <2> HAVE W.pc \in {"discover", "record"}
  <2>1. p \in Address  BY <1>a DEF WalkPC
  <2>2. depth[p] < MaxDepth  BY DEF At
  <2>3. depth[p] \in 0 .. MaxDepth /\ MaxDepth \in Nat
    BY <2>1, BoundAssumption DEF TypeOK
  <2> QED BY <2>2, <2>3
<1> USE BoundAssumption DEF TypeOK, At, WalkPC
<1>1. CASE RecordSeed(w)
  <2>1. <<Seed>> \in Seq(Address)  BY TopologyAssumption
  <2>2. worker'[w] \in Traversing  BY <1>1, <1>a, <2>1 DEF RecordSeed, Traversing
  <2>3. node' \in [Address -> DeviceState \cup {"absent"}]
    BY <1>1 DEF RecordSeed, DeviceState
  <2> QED BY <1>1, <2>2, <2>3 DEF RecordSeed
<1>2. CASE VisitDevice(w)
  <2>1. worker'[w] \in Traversing
    BY <1>2, <1>a, PopType DEF VisitDevice, Traversing
  <2> QED BY <1>2, <2>1 DEF VisitDevice
<1>3. CASE Discover(w)
  <2>1. worker'[w] \in Traversing
    BY <1>3, <1>a, TopologyAssumption DEF Discover, Traversing
  <2> QED BY <1>3, <2>1 DEF Discover
<1>4. CASE FinishDevice(w)
  <2>1. worker'[w] \in Traversing  BY <1>4, <1>a DEF FinishDevice, Traversing
  <2> QED BY <1>4, <2>1 DEF FinishDevice
<1>5. ASSUME NEW a \in Address, RecordRejected(w, a) PROVE TypeOK'
  <2>1. worker'[w] \in Traversing  BY <1>5, <1>a DEF RecordRejected, Traversing
  <2>2. node' \in [Address -> DeviceState \cup {"absent"}]
    BY <1>5 DEF RecordRejected, DeviceState
  <2> QED BY <1>5, <1>c, <2>1, <2>2 DEF RecordRejected
<1>6. ASSUME NEW a \in Address, RecordDevice(w, a) PROVE TypeOK'
  <2>1. Append(W.queue, a) \in Seq(Address)
    BY <1>6, <1>a, AppendProperties DEF RecordDevice
  <2>2. worker'[w] \in Traversing
    <3>1. PICK queue \in {W.queue, Append(W.queue, a)} :
            worker' = [worker EXCEPT ![w].todo = @ \ {a}, ![w].queue = queue]
      BY <1>6 DEF RecordDevice
    <3> QED BY <1>6, <1>a, <2>1, <3>1 DEF RecordDevice, Traversing
  <2>3. node' \in [Address -> DeviceState \cup {"absent"}]
    BY <1>6 DEF RecordDevice, DeviceState
  <2> QED BY <1>6, <1>c, <2>2, <2>3 DEF RecordDevice
<1>7. CASE FinishTraversal(w)
  <2>1. worker'[w] \in Traversing  BY <1>7, <1>a DEF FinishTraversal, Traversing
  <2>2. node' \in [Address -> DeviceState \cup {"absent"}]
    BY <1>7 DEF FinishTraversal, DeviceState
  <2> QED BY <1>7, <2>1, <2>2 DEF FinishTraversal, MissionStatus
<1>8. CASE ReadEligible(w)
  <2>1. worker'[w] \in Dispatching
    BY <1>8, TopologyAssumption
       DEF ReadEligible, Dispatching, Registered, Manageable
  <2> QED BY <1>8, <2>1 DEF ReadEligible
<1>9. ASSUME NEW a \in Address, DispatchCollect(w, a) PROVE TypeOK'
  <2>1. worker'[w] \in Dispatching  BY <1>9, <1>b DEF DispatchCollect, Dispatching
  <2> QED BY <1>9, <2>1 DEF DispatchCollect, Enqueue
<1>10. CASE CommitDispatch(w)
  <2>1. worker'[w] \in Dispatching \cup {Idle}
    BY <1>10, <1>b DEF CommitDispatch, Dispatching
  <2>2. node' \in [Address -> DeviceState \cup {"absent"}]
    BY <1>10 DEF CommitDispatch, DeviceState
  <2>3. mission' \in MissionStatus  BY <1>10 DEF CommitDispatch, MissionStatus
  <2>4. worker' \in [Worker -> Traversing \cup Dispatching \cup Collecting
                               \cup Finalizing \cup {Idle}]
    BY <1>10, <2>1 DEF CommitDispatch
  <2> QED BY <1>10, <2>2, <2>3, <2>4 DEF CommitDispatch
<1>11. CASE SendMissionFinalizer(w)
  BY <1>11 DEF SendMissionFinalizer, SendFinalizer
<1> QED BY <1>1, <1>2, <1>3, <1>4, <1>5, <1>6, <1>7, <1>8, <1>9, <1>10, <1>11
        DEF Traverse

\* Collection, the finalizer's publication, and failures.
LEMMA OtherType ==
  ASSUME TypeOK, NEW w \in Worker, Collect(w) \/ PublishAudit(w) \/ WorkerFails(w)
  PROVE  TypeOK'
<1> DEFINE W == worker[w]
<1>a. W.pc \in {"pull", "link"} => W \in Collecting /\ W.node \in Address
  BY Kind DEF Collecting
<1>b. W.pc \in WalkPC => W \in Traversing /\ W.parent \in Address
  BY Kind DEF Traversing
<1>c. W.pc = "dispatch" => W \in Dispatching /\ W.refused \in SUBSET Address
                          /\ W.todo \in SUBSET Address
  BY Kind DEF Dispatching
<1> USE BoundAssumption DEF TypeOK, At, WalkPC
<1>1. CASE PullConfig(w)
  <2>1. PICK dispatched \in BOOLEAN :
          worker' = [worker EXCEPT ![w].pc = "link", ![w].dispatched = dispatched]
    BY <1>1 DEF PullConfig
  <2>2. worker'[w] \in Collecting  BY <1>1, <1>a, <2>1 DEF PullConfig, Collecting
  <2> QED BY <1>1, <2>1, <2>2 DEF PullConfig
<1>2. CASE LinkConfig(w)
  <2>1. node' \in [Address -> DeviceState \cup {"absent"}]
    BY <1>2, <1>a DEF LinkConfig, DeviceState
  <2>2. config' \in [Address -> AuditStatus]
    BY <1>2, <1>a DEF LinkConfig, AuditStatus
  <2> QED BY <1>2, <2>1, <2>2 DEF LinkConfig
<1>3. CASE PublishAudit(w)  BY <1>3 DEF PublishAudit, MissionStatus
<1>4. CASE RejectSeed(w)  BY <1>4 DEF RejectSeed, MissionStatus
<1>5. CASE DiscoverFails(w)
  <2>1. worker'[w] \in Traversing  BY <1>5, <1>b DEF DiscoverFails, Traversing
  <2>2. node' \in [Address -> DeviceState \cup {"absent"}]
    BY <1>5, <1>b DEF DiscoverFails, DeviceState
  <2> QED BY <1>5, <2>1, <2>2 DEF DiscoverFails
<1>6. CASE PullFails(w)
  BY <1>6, <1>a DEF PullFails, DeviceState
<1>7. ASSUME NEW a \in Address, DispatchCollectRaises(w, a) PROVE TypeOK'
  <2>1. worker'[w] \in Dispatching  BY <1>7, <1>c DEF DispatchCollectRaises, Dispatching
  <2>2. task' \in [Address -> 0 .. MaxMessages]
    <3>1. CASE Enqueue(a)  BY <3>1 DEF Enqueue
    <3>2. CASE UNCHANGED task  BY <3>2
    <3> QED BY <1>7, <3>1, <3>2 DEF DispatchCollectRaises, MaybeEnqueue
  <2>3. faults' \in 0 .. MaxFaults  BY <1>7 DEF DispatchCollectRaises, Fault
  <2> QED BY <1>7, <2>1, <2>2, <2>3 DEF DispatchCollectRaises
<1>8. CASE FailMission(w)  BY <1>8 DEF FailMission, MissionStatus, Fault
<1>9. CASE WorkerCrash(w)  BY <1>9 DEF WorkerCrash, Fault
<1> QED BY <1>1, <1>2, <1>3, <1>4, <1>5, <1>6, <1>7, <1>8, <1>9
        DEF Collect, WorkerFails

-----------------------------------------------------------------------------
(* The inductive invariant.                                                *)

\* The devices of the mission that it may log in to.
Known == Recorded \cap Authorized

\* Whatever is collected, queued, dispatched or retried is a known device.
KnownInv ==
  /\ \A a \in Address :
       /\ node[a] \notin {"absent", "unsupported", "out_of_scope"} => a \in Authorized
       /\ task[a] > 0 \/ config[a] # "none" => a \in Known
  /\ \A w \in Worker :
       /\ worker[w].pc = "dispatch" =>
            /\ worker[w].eligible \subseteq Known
            /\ worker[w].todo \subseteq worker[w].eligible
            /\ worker[w].refused \subseteq worker[w].eligible
       /\ worker[w].pc \in {"pull", "link"} => worker[w].node \in Known
  /\ \A r \in Request : request[r].pc = "dispatch" =>
       request[r].nodes \subseteq Known /\ request[r].todo \subseteq request[r].nodes

\* A walk has left the created status behind, nothing is recorded before it, and
\* it visits known devices only; those it reads have room below them.
WalkInv ==
  /\ mission = "created" => Recorded = {}
  /\ \A w \in Worker :
       /\ worker[w].pc \in WalkPC => mission # "created"
       /\ worker[w].pc = "seed" => Recorded = {}
       /\ worker[w].pc \in WalkPC \ {"seed"} =>
            \A i \in 1 .. Len(worker[w].queue) : worker[w].queue[i] \in Known
       /\ worker[w].pc \in {"discover", "record"} =>
            worker[w].parent \in Known /\ depth[worker[w].parent] < MaxDepth

\* The queue is sorted by depth, and nothing is recorded more than one link below
\* the device that is read or below any that waits.
OrderInv ==
  \A w \in Worker :
    LET queue == worker[w].queue
        parent == worker[w].parent IN
    /\ worker[w].pc \in WalkPC \ {"seed"} =>
         /\ \A i, j \in 1 .. Len(queue) : i <= j => depth[queue[i]] <= depth[queue[j]]
         /\ \A i \in 1 .. Len(queue), a \in Recorded : depth[a] <= depth[queue[i]] + 1
    /\ worker[w].pc \in {"discover", "record"} =>
         /\ \A i \in 1 .. Len(queue) : depth[parent] <= depth[queue[i]]
         /\ \A a \in Recorded : depth[a] <= depth[parent] + 1

BoundInv == IsFiniteSet(Recorded) /\ Cardinality(Recorded) <= MaxDevices + 1

IInv ==
  /\ TypeOK
  /\ OneTraversal
  /\ KnownInv
  /\ WalkInv
  /\ OrderInv
  /\ BoundInv

-----------------------------------------------------------------------------
(* Steps outside the walk.                                                 *)

\* Such a step records nothing, moves no depth and leaves a walk as it is.
QuietEffect ==
  /\ Recorded' = Recorded /\ depth' = depth
  /\ mission' = "created" => mission = "created"
  /\ \A w \in Worker : worker'[w] = worker[w] \/ worker'[w].pc \notin WalkPC

LEMMA QuietKeeps ==
  ASSUME TypeOK, OneTraversal, KnownInv, WalkInv, OrderInv, BoundInv, QuietEffect
  PROVE  OneTraversal' /\ WalkInv' /\ OrderInv' /\ BoundInv'
<1>1. Known' = Known  BY DEF Known, QuietEffect
<1>2. OneTraversal'
  BY DEF OneTraversal, InWalk, QuietEffect, WalkPC
<1>3. WalkInv'
  BY <1>1 DEF WalkInv, QuietEffect, WalkPC
<1>4. OrderInv'
  BY DEF OrderInv, QuietEffect, WalkPC
<1>5. BoundInv'  BY DEF BoundInv, QuietEffect
<1> QED BY <1>2, <1>3, <1>4, <1>5

\* Who has a row in the registry is authorized.
LEMMA RegisteredIsAuthorized == Registered = Authorized /\ Manageable \subseteq Authorized
BY DEF Registered, Manageable, Authorized

LEMMA ServiceEffect ==
  ASSUME TypeOK, KnownInv,
         \/ StartMission \/ CreateCampaign
         \/ \E r \in Request : ReadRetry(r) \/ ServeRetry(r) \/ RetryStops(r)
         \/ \E a \in Address : AuditEnds(a)
  PROVE  QuietEffect /\ KnownInv'
<1> USE DEF TypeOK, QuietEffect, KnownInv, Known, Recorded
<1>1. CASE StartMission  BY <1>1 DEF StartMission
<1>2. CASE CreateCampaign
  <2>1. PICK S \in SUBSET {a \in Address : config[a] = "complete"} \ {{}} :
          node' = [a \in Address |-> IF a \in S THEN "remediation_ready" ELSE node[a]]
    BY <1>2 DEF CreateCampaign
  <2>2. \A a \in S : a \in Known  BY <2>1
  <2>3. Recorded' = Recorded  BY <2>1, <2>2
  <2> QED BY <1>2, <2>1, <2>2, <2>3 DEF CreateCampaign
<1>3. ASSUME NEW r \in Request, ReadRetry(r) PROVE QuietEffect /\ KnownInv'
  <2>1. Retryable \subseteq Known
    BY RegisteredIsAuthorized DEF Retryable, Authorized
  <2>2. PICK S \in SUBSET Retryable :
          request' = [request EXCEPT ![r] =
            [pc |-> "dispatch", nodes |-> S, todo |-> S, seen |-> mission]]
    BY <1>3 DEF ReadRetry
  <2>3. QuietEffect  BY <1>3 DEF ReadRetry
  <2>4. KnownInv'  BY <1>3, <2>1, <2>2 DEF ReadRetry
  <2> QED BY <2>3, <2>4
<1>4. ASSUME NEW r \in Request, NEW a \in Address, DispatchRetry(r, a)
      PROVE  QuietEffect /\ KnownInv'
  <2>1. request[r] \in Retrying /\ a \in Known
    BY <1>4, Kind DEF DispatchRetry
  <2>2. request'[r].nodes = request[r].nodes /\ request'[r].todo = request[r].todo \ {a}
    BY <1>4, <2>1 DEF DispatchRetry, Retrying
  <2>3. QuietEffect  BY <1>4 DEF DispatchRetry
  <2>4. KnownInv'  BY <1>4, <2>1, <2>2 DEF DispatchRetry, Enqueue
  <2> QED BY <2>3, <2>4
<1>5. ASSUME NEW r \in Request, CommitRetry(r) PROVE QuietEffect /\ KnownInv'
  <2>1. request[r] \in Retrying /\ request[r].nodes \subseteq Known
    BY <1>5, Kind DEF CommitRetry
  <2>2. request'[r].pc = "finalizer"  BY <1>5, <2>1 DEF CommitRetry, Retrying
  <2>3. Recorded' = Recorded  BY <1>5, <2>1 DEF CommitRetry
  <2>4. QuietEffect  BY <1>5, <2>3 DEF CommitRetry, Written
  <2>5. KnownInv'  BY <1>5, <2>1, <2>2, <2>3 DEF CommitRetry
  <2> QED BY <2>4, <2>5
<1>6. ASSUME NEW r \in Request, FinishRetry(r) PROVE QuietEffect /\ KnownInv'
  BY <1>6 DEF FinishRetry, Served
<1>7. ASSUME NEW r \in Request, RetryStops(r) PROVE QuietEffect /\ KnownInv'
  BY <1>7 DEF RetryStops, Served
<1>8. ASSUME NEW a \in Address, AuditEnds(a) PROVE QuietEffect /\ KnownInv'
  BY <1>8 DEF AuditEnds
<1> QED BY <1>1, <1>2, <1>3, <1>4, <1>5, <1>6, <1>7, <1>8 DEF ServeRetry

LEMMA MessageEffect ==
  ASSUME TypeOK, KnownInv, NEW w \in Worker, TakeMessage(w)
  PROVE  BeginMission(w) \/ (QuietEffect /\ KnownInv')
<1> USE DEF TypeOK, QuietEffect, KnownInv, Known, Recorded, WalkPC
<1>1. CASE SkipMission(w)  BY <1>1 DEF SkipMission
<1>2. ASSUME NEW a \in Address, SkipCollect(w, a) PROVE QuietEffect /\ KnownInv'
  <2>1. task[a] > 0 /\ \A b \in Address : task'[b] > 0 => task[b] > 0
    BY <1>2 DEF SkipCollect, TakeCollect
  <2> QED BY <1>2, <2>1 DEF SkipCollect
<1>3. ASSUME NEW a \in Address, BeginPull(w, a) PROVE QuietEffect /\ KnownInv'
  <2>1. task[a] > 0 /\ \A b \in Address : task'[b] > 0 => task[b] > 0
    BY <1>3 DEF BeginPull, TakeCollect
  <2>2. a \in Known  BY <2>1
  <2>3. worker' = [worker EXCEPT ![w] =
          [pc |-> "pull", node |-> a, dispatched |-> FALSE]]
    BY <1>3 DEF BeginPull
  <2> QED BY <1>3, <2>1, <2>2, <2>3 DEF BeginPull
<1>4. ASSUME NEW n \in 0 .. PollLimit, PollAgain(w, n) \/ EndPolling(w, n)
      PROVE  QuietEffect /\ KnownInv'
  <2>1. node' = [a \in Address |-> Polled(a)]
        /\ UNCHANGED <<mission, depth, config, task, request>>
    BY <1>4 DEF PollAgain, EndPolling, PollNodes
  <2>2. \A a \in Address : node'[a] = node[a] \/ (node'[a] # "absent" /\ a \in Known)
    <3>1. ASSUME NEW a \in Address
          PROVE  node'[a] = node[a] \/ (node'[a] # "absent" /\ config[a] # "none")
      <4>1. CASE config[a] = "complete"  BY <2>1, <4>1 DEF Polled
      <4>2. CASE config[a] = "failed"  BY <2>1, <4>2 DEF Polled
      <4>3. CASE config[a] \notin {"complete", "failed"}  BY <2>1, <4>3 DEF Polled
      <4> QED BY <4>1, <4>2, <4>3
    <3> QED BY <3>1
  <2>3. Recorded' = Recorded  BY <2>1, <2>2
  <2>4. \A v \in Worker : worker'[v] = worker[v] \/ worker'[v].pc = "publish"
    BY <1>4 DEF PollAgain, EndPolling
  <2> QED BY <2>1, <2>2, <2>3, <2>4
<1> QED BY <1>1, <1>2, <1>3, <1>4 DEF TakeMessage

\* The end of the walk, the dispatcher, the collectors, the publication, and a
\* worker that gives up.
LEMMA WorkerEffect ==
  ASSUME TypeOK, KnownInv, NEW w \in Worker,
         \/ FinishTraversal(w) \/ ReadEligible(w)
         \/ \E a \in Address : DispatchCollect(w, a) \/ DispatchCollectRaises(w, a)
         \/ CommitDispatch(w) \/ SendMissionFinalizer(w)
         \/ PullConfig(w) \/ LinkConfig(w) \/ PullFails(w) \/ PublishAudit(w)
         \/ RejectSeed(w) \/ FailMission(w) \/ WorkerCrash(w)
  PROVE  QuietEffect /\ KnownInv'
<1> DEFINE W == worker[w]
<1>a. W.pc = "dispatch" =>
        /\ W \in Dispatching
        /\ W.eligible \subseteq Known /\ W.todo \subseteq W.eligible
        /\ W.refused \subseteq W.eligible
  BY Kind DEF KnownInv
<1>b. W.pc \in {"pull", "link"} => W \in Collecting /\ W.node \in Known
  BY Kind DEF KnownInv
<1>c. W.pc = "traverse" => W \in Traversing  BY Kind DEF WalkPC
<1>d. \A a \in Address : a \in Known <=> node[a] # "absent" /\ a \in Authorized
  BY DEF Known, Recorded
<1>e. Idle.pc = "idle"  BY DEF Idle
<1> USE DEF TypeOK, QuietEffect, KnownInv, Known, Recorded, WalkPC, At
<1>1. CASE FinishTraversal(w)
  <2>1. worker'[w].pc = "eligible"  BY <1>1, <1>c DEF FinishTraversal, Traversing
  <2>2. Seed \in Address /\ Seed \in Authorized  BY TopologyAssumption DEF Authorized
  <2>3. \A a \in Address : node'[a] = node[a] \/ (node[a] = "seed" /\ node'[a] = "ready")
    BY <1>1, <2>2 DEF FinishTraversal
  <2>4. Recorded' = Recorded  BY <2>3
  <2> QED BY <1>1, <2>1, <2>3, <2>4 DEF FinishTraversal
<1>2. CASE ReadEligible(w)
  <2>1. PICK S \in SUBSET {a \in Registered : node[a] = "ready"} :
          worker' = [worker EXCEPT ![w] =
            [pc |-> "dispatch", eligible |-> S, todo |-> S, refused |-> {}]]
    BY <1>2 DEF ReadEligible
  <2>2. S \subseteq Known
    BY RegisteredIsAuthorized, TopologyAssumption DEF Registered, Manageable
  <2> QED BY <1>2, <2>1, <2>2 DEF ReadEligible
<1>3. ASSUME NEW a \in Address, DispatchCollect(w, a) PROVE QuietEffect /\ KnownInv'
  <2>1. W.pc = "dispatch" /\ a \in Known  BY <1>3, <1>a DEF DispatchCollect
  <2>2. /\ worker'[w].pc = "dispatch" /\ worker'[w].eligible = W.eligible
        /\ worker'[w].todo = W.todo \ {a} /\ worker'[w].refused = W.refused
    BY <1>3, <1>a, <2>1 DEF DispatchCollect, Dispatching
  <2>3. \A v \in Worker : v # w => worker'[v] = worker[v]  BY <1>3 DEF DispatchCollect
  <2>4. \A b \in Address : task'[b] = task[b] \/ b = a  BY <1>3 DEF DispatchCollect, Enqueue
  <2>5. UNCHANGED <<mission, node, depth, config, request>>  BY <1>3 DEF DispatchCollect
  <2>6. QuietEffect  BY <2>2, <2>3, <2>5
  <2>7. KnownInv'
    <3>1. Known' = Known  BY <2>5
    <3>2. \A b \in Address : task'[b] > 0 \/ config'[b] # "none" => b \in Known'
      BY <2>1, <2>4, <2>5, <3>1
    <3>3. \A v \in Worker :
            /\ worker'[v].pc = "dispatch" =>
                 /\ worker'[v].eligible \subseteq Known'
                 /\ worker'[v].todo \subseteq worker'[v].eligible
                 /\ worker'[v].refused \subseteq worker'[v].eligible
            /\ worker'[v].pc \in {"pull", "link"} => worker'[v].node \in Known'
      BY <1>a, <2>1, <2>2, <2>3, <3>1
    <3> QED BY <2>5, <3>1, <3>2, <3>3
  <2> QED BY <2>6, <2>7
<1>4. ASSUME NEW a \in Address, DispatchCollectRaises(w, a)
      PROVE  QuietEffect /\ KnownInv'
  <2>1. W.pc = "dispatch" /\ a \in Known /\ a \in W.eligible
    BY <1>4, <1>a DEF DispatchCollectRaises
  <2>2. /\ worker'[w].pc = "dispatch" /\ worker'[w].eligible = W.eligible
        /\ worker'[w].todo = W.todo \ {a} /\ worker'[w].refused = W.refused \cup {a}
    BY <1>4, <1>a, <2>1 DEF DispatchCollectRaises, Dispatching
  <2>3. \A v \in Worker : v # w => worker'[v] = worker[v]
    BY <1>4 DEF DispatchCollectRaises
  <2>4. \A b \in Address : task'[b] = task[b] \/ b = a
    BY <1>4 DEF DispatchCollectRaises, MaybeEnqueue, Enqueue
  <2>5. UNCHANGED <<mission, node, depth, config, request>>
    BY <1>4 DEF DispatchCollectRaises
  <2>6. QuietEffect  BY <2>2, <2>3, <2>5
  <2>7. worker'[w].todo \subseteq W.eligible /\ worker'[w].refused \subseteq W.eligible
    BY <1>a, <2>1, <2>2
  <2>8. \A b \in Address : task'[b] > 0 => b \in Known  BY <2>1, <2>4
  <2>9. KnownInv'  BY <1>a, <2>1, <2>2, <2>3, <2>5, <2>7, <2>8
  <2> QED BY <2>6, <2>9
<1>5. CASE CommitDispatch(w)
  <2>1. worker'[w].pc \in {"finalizer", "idle"}
    BY <1>5, <1>a, <1>e DEF CommitDispatch, Dispatching
  <2>2. \A v \in Worker : v # w => worker'[v] = worker[v]  BY <1>5 DEF CommitDispatch
  <2>3. \A a \in Address : node'[a] = node[a] \/ (node'[a] # "absent" /\ a \in Known)
    BY <1>5, <1>a DEF CommitDispatch
  <2>4. Recorded' = Recorded  BY <1>d, <2>3
  <2> QED BY <1>5, <1>d, <2>1, <2>2, <2>3, <2>4 DEF CommitDispatch
<1>6. CASE SendMissionFinalizer(w)
  BY <1>6, <1>e DEF SendMissionFinalizer
<1>7. CASE PullConfig(w)
  <2>1. PICK dispatched \in BOOLEAN :
          worker' = [worker EXCEPT ![w].pc = "link", ![w].dispatched = dispatched]
    BY <1>7 DEF PullConfig
  <2>2. worker'[w].pc = "link" /\ worker'[w].node = W.node
    BY <1>7, <1>b, <2>1 DEF PullConfig, Collecting
  <2> QED BY <1>7, <1>b, <2>1, <2>2 DEF PullConfig
<1>8. CASE LinkConfig(w)
  <2>1. W.node \in Known /\ W.node \in Address  BY <1>8, <1>b DEF LinkConfig
  <2>2. \A a \in Address : \/ node'[a] = node[a] /\ config'[a] = config[a]
                           \/ node'[a] # "absent" /\ a \in Known
    BY <1>8, <2>1 DEF LinkConfig
  <2>3. Recorded' = Recorded  BY <1>d, <2>2
  <2> QED BY <1>8, <1>d, <1>e, <2>2, <2>3 DEF LinkConfig
<1>9. CASE PullFails(w)
  <2>1. \A a \in Address : node'[a] = node[a] \/ (node'[a] # "absent" /\ a \in Known)
    BY <1>9, <1>b DEF PullFails
  <2>2. Recorded' = Recorded  BY <1>d, <2>1
  <2> QED BY <1>9, <1>d, <1>e, <2>1, <2>2 DEF PullFails
<1>10. CASE PublishAudit(w)  BY <1>10, <1>e DEF PublishAudit
<1>11. CASE RejectSeed(w)    BY <1>11, <1>e DEF RejectSeed
<1>12. CASE FailMission(w)   BY <1>12, <1>e DEF FailMission
<1>13. CASE WorkerCrash(w)   BY <1>13, <1>e DEF WorkerCrash
<1> QED BY <1>1, <1>2, <1>3, <1>4, <1>5, <1>6, <1>7, <1>8, <1>9, <1>10, <1>11,
           <1>12, <1>13

-----------------------------------------------------------------------------
(* Steps of the walk.                                                      *)

\* Nobody else walks, and what others know stays known.
LEMMA OthersKeep ==
  ASSUME TypeOK, OneTraversal, KnownInv, NEW w \in Worker, InWalk(w),
         \A v \in Worker : v # w => worker'[v] = worker[v],
         worker'[w].pc \in WalkPC,
         \A a \in Address :
           \/ node'[a] = node[a]
           \/ node'[a] # "absent" /\
              (a \in Authorized \/ node'[a] \in {"unsupported", "out_of_scope"}),
         UNCHANGED <<task, config, request>>
  PROVE  /\ OneTraversal' /\ KnownInv' /\ Known \subseteq Known'
         /\ \A v \in Worker : v # w => worker'[v].pc \notin WalkPC
<1>1. \A v \in Worker : v # w => worker[v].pc \notin WalkPC
  BY DEF OneTraversal, InWalk, WalkPC
<1>2. Known \subseteq Known'  BY DEF Known, Recorded
<1>3. OneTraversal'  BY <1>1 DEF OneTraversal, InWalk, WalkPC
<1>4. KnownInv'
  <2>1. \A a \in Address :
          node'[a] \notin {"absent", "unsupported", "out_of_scope"} => a \in Authorized
    BY DEF KnownInv
  <2>2. \A a \in Address : task'[a] > 0 \/ config'[a] # "none" => a \in Known'
    BY <1>2 DEF KnownInv
  <2>3. \A v \in Worker :
          /\ worker'[v].pc = "dispatch" =>
               /\ worker'[v].eligible \subseteq Known'
               /\ worker'[v].todo \subseteq worker'[v].eligible
               /\ worker'[v].refused \subseteq worker'[v].eligible
          /\ worker'[v].pc \in {"pull", "link"} => worker'[v].node \in Known'
    BY <1>2 DEF KnownInv, WalkPC
  <2>4. \A r \in Request : request'[r].pc = "dispatch" =>
          /\ request'[r].nodes \subseteq Known'
          /\ request'[r].todo \subseteq request'[r].nodes
    BY <1>2 DEF KnownInv
  <2> QED BY <2>1, <2>2, <2>3, <2>4 DEF KnownInv
<1> QED BY <1>1, <1>2, <1>3, <1>4

\* A walk begins when nothing has been recorded, and once.
LEMMA BeginKeeps ==
  ASSUME IInv, NEW w \in Worker, BeginMission(w)
  PROVE  OneTraversal' /\ KnownInv' /\ WalkInv' /\ OrderInv' /\ BoundInv'
<1> USE DEF IInv
<1>1. mission = "created" /\ mission' = "discovering" /\ Recorded = {}
      /\ UNCHANGED <<node, depth, config, task, request>>
  BY DEF BeginMission, NotStarted, WalkInv
<1>2. Recorded' = {} /\ Known' = Known  BY <1>1 DEF Recorded, Known
<1>3. worker'[w].pc = "seed" /\ \A v \in Worker : v # w => worker'[v] = worker[v]
  BY DEF BeginMission, TypeOK
<1>4. \A v \in Worker : worker[v].pc \notin WalkPC
  BY <1>1 DEF WalkInv
<1>5. OneTraversal'  BY <1>3, <1>4 DEF OneTraversal, InWalk, WalkPC
<1>6. KnownInv'  BY <1>1, <1>2, <1>3 DEF KnownInv
<1>7. WalkInv'  BY <1>1, <1>2, <1>3, <1>4 DEF WalkInv, WalkPC
<1>8. OrderInv'  BY <1>3, <1>4 DEF OrderInv, WalkPC
<1>9. BoundInv'  BY <1>1, <1>2 DEF BoundInv
<1> QED BY <1>5, <1>6, <1>7, <1>8, <1>9

\* One more row at most, and only while it fits.
LEMMA OneMore ==
  ASSUME BoundInv, NEW a, Recorded' = Recorded \cup {a}, Cardinality(Recorded) <= MaxDevices
  PROVE  BoundInv'
<1>1. IsFiniteSet(Recorded') /\
      Cardinality(Recorded') = IF a \in Recorded THEN Cardinality(Recorded)
                               ELSE Cardinality(Recorded) + 1
  BY FS_AddElement DEF BoundInv
<1>2. Cardinality(Recorded) \in Nat  BY FS_CardinalityType DEF BoundInv
<1> QED BY <1>1, <1>2, BoundAssumption DEF BoundInv

\* The walk starts with the seed alone.
LEMMA SeedKeeps ==
  ASSUME IInv, NEW w \in Worker, RecordSeed(w)
  PROVE  OneTraversal' /\ KnownInv' /\ WalkInv' /\ OrderInv' /\ BoundInv'
<1> USE DEF IInv
<1>1. worker[w].pc = "seed" /\ InWalk(w) /\ Recorded = {} /\ mission # "created"
  BY DEF RecordSeed, At, InWalk, WalkInv, WalkPC
<1>2. worker[w] \in Traversing  BY <1>1, Kind DEF WalkPC
<1>3. /\ worker'[w].pc = "traverse" /\ worker'[w].queue = <<Seed>>
      /\ \A v \in Worker : v # w => worker'[v] = worker[v]
  BY <1>2 DEF RecordSeed, TypeOK, Traversing
<1>4. Seed \in Address /\ Seed \in Authorized
  BY TopologyAssumption DEF Authorized
<1>5. /\ \A a \in Address : node'[a] = node[a] \/ (a = Seed /\ node'[a] = "seed")
      /\ node'[Seed] = "seed"
      /\ UNCHANGED <<mission, depth, config, task, request>>
  BY <1>4 DEF RecordSeed, TypeOK
<1>6. Recorded' = Recorded \cup {Seed}  BY <1>4, <1>5 DEF Recorded
<1>7. /\ OneTraversal' /\ KnownInv'
      /\ \A v \in Worker : v # w => worker'[v].pc \notin WalkPC
  BY <1>1, <1>3, <1>4, <1>5, OthersKeep DEF WalkPC
<1>8. Len(<<Seed>>) = 1 /\ <<Seed>>[1] = Seed /\ Seed \in Known'
  BY <1>1, <1>4, <1>6 DEF Known
<1>9. WalkInv'
  BY <1>1, <1>3, <1>5, <1>7, <1>8 DEF WalkInv, WalkPC
<1>10. OrderInv'
  <2>1. depth[Seed] \in Int /\ Recorded' = {Seed}
    BY <1>1, <1>4, <1>6 DEF TypeOK
  <2>2. \A i \in 1 .. Len(worker'[w].queue) : worker'[w].queue[i] = Seed
    BY <1>3, <1>8
  <2> QED BY <1>3, <1>5, <1>7, <2>1, <2>2 DEF OrderInv, WalkPC
<1>11. BoundInv'
  BY <1>1, <1>6, OneMore, FS_EmptySet, BoundAssumption
<1> QED BY <1>7, <1>9, <1>10, <1>11

\* The next device is one of the nearest that wait.
LEMMA VisitKeeps ==
  ASSUME IInv, NEW w \in Worker, VisitDevice(w)
  PROVE  OneTraversal' /\ KnownInv' /\ WalkInv' /\ OrderInv' /\ BoundInv'
<1> USE DEF IInv
<1> DEFINE q == worker[w].queue
           p == PopLeft(q).next
           rest == PopLeft(q).rest
<1>1. worker[w].pc = "traverse" /\ InWalk(w) /\ q # <<>>
      /\ UNCHANGED <<mission, node, depth, config, task, request>>
  BY DEF VisitDevice, At, InWalk
<1>2. worker[w] \in Traversing /\ q \in Seq(Address)
  BY <1>1, Kind DEF WalkPC, Traversing
<1>3. /\ p = q[1] /\ p \in Address
      /\ Len(q) \in Nat /\ Len(q) > 0 /\ Len(rest) = Len(q) - 1
      /\ \A i \in 1 .. Len(q) - 1 : rest[i] = q[i + 1]
  BY <1>1, <1>2, PopType
<1>4. /\ worker'[w].pc = IF depth[p] < MaxDepth THEN "discover" ELSE "traverse"
      /\ worker'[w].queue = rest /\ worker'[w].parent = p
      /\ \A v \in Worker : v # w => worker'[v] = worker[v]
  BY <1>1, <1>2 DEF VisitDevice, TypeOK, Traversing
<1>5. /\ OneTraversal' /\ KnownInv'
      /\ \A v \in Worker : v # w => worker'[v].pc \notin WalkPC
  BY <1>1, <1>4, OthersKeep DEF WalkPC
<1>6. Recorded' = Recorded /\ Known' = Known /\ BoundInv'
  BY <1>1 DEF Recorded, Known, BoundInv
<1>7. \A i \in 1 .. Len(q) : q[i] \in Known
  BY <1>1 DEF WalkInv, WalkPC
<1>8. /\ \A i, j \in 1 .. Len(q) : i <= j => depth[q[i]] <= depth[q[j]]
      /\ \A i \in 1 .. Len(q), a \in Recorded : depth[a] <= depth[q[i]] + 1
  BY <1>1 DEF OrderInv, WalkPC
<1>9. \A i \in 1 .. Len(rest) : i + 1 \in 1 .. Len(q) /\ rest[i] = q[i + 1]
  BY <1>3
<1>10. 1 \in 1 .. Len(q)  BY <1>3
<1>11. WalkInv'
  <2>1. \A i \in 1 .. Len(rest) : rest[i] \in Known  BY <1>7, <1>9
  <2>2. p \in Known  BY <1>3, <1>7, <1>10
  <2>3. mission # "created"  BY <1>1 DEF WalkInv, WalkPC
  <2> QED BY <1>1, <1>4, <1>5, <1>6, <2>1, <2>2, <2>3 DEF WalkInv, WalkPC
<1>12. OrderInv'
  <2>1. \A i, j \in 1 .. Len(rest) : i <= j => depth[rest[i]] <= depth[rest[j]]
    <3>1. SUFFICES ASSUME NEW i \in 1 .. Len(rest), NEW j \in 1 .. Len(rest), i <= j
                   PROVE  depth[rest[i]] <= depth[rest[j]]
      OBVIOUS
    <3>2. i + 1 \in 1 .. Len(q) /\ j + 1 \in 1 .. Len(q)  BY <1>9
    <3>3. i + 1 <= j + 1  BY <3>1
    <3>4. depth[q[i + 1]] <= depth[q[j + 1]]  BY <1>8, <3>2, <3>3
    <3> QED BY <1>9, <3>4
  <2>2. \A i \in 1 .. Len(rest), a \in Recorded : depth[a] <= depth[rest[i]] + 1
    BY <1>8, <1>9
  <2>3. \A i \in 1 .. Len(rest) : depth[p] <= depth[rest[i]]
    BY <1>3, <1>8, <1>9, <1>10
  <2>4. \A a \in Recorded : depth[a] <= depth[p] + 1
    BY <1>3, <1>8, <1>10
  <2> QED BY <1>1, <1>4, <1>5, <1>6, <2>1, <2>2, <2>3, <2>4 DEF OrderInv, WalkPC
<1> QED BY <1>5, <1>6, <1>11, <1>12

\* Reading a device, or giving it up, changes no depth and no queue.
LEMMA ReadKeeps ==
  ASSUME IInv, NEW w \in Worker, Discover(w) \/ DiscoverFails(w) \/ FinishDevice(w)
  PROVE  OneTraversal' /\ KnownInv' /\ WalkInv' /\ OrderInv' /\ BoundInv'
<1> USE DEF IInv
<1>1. worker[w].pc \in {"discover", "record"} /\ InWalk(w)
      /\ UNCHANGED <<mission, depth, config, task, request>>
  BY DEF Discover, DiscoverFails, FinishDevice, At, InWalk
<1>2. worker[w] \in Traversing /\ worker[w].queue \in Seq(Address)
      /\ worker[w].parent \in Address
  BY <1>1, Kind DEF WalkPC, Traversing
<1>3. /\ worker'[w].pc \in {"traverse", "record"}
      /\ worker'[w].queue = worker[w].queue /\ worker'[w].parent = worker[w].parent
      /\ \A v \in Worker : v # w => worker'[v] = worker[v]
  BY <1>2 DEF Discover, DiscoverFails, FinishDevice, TypeOK, Traversing
<1>4. worker[w].parent \in Known /\ depth[worker[w].parent] < MaxDepth
      /\ mission # "created"
      /\ \A i \in 1 .. Len(worker[w].queue) : worker[w].queue[i] \in Known
  BY <1>1 DEF WalkInv, WalkPC
<1>5. \A a \in Address :
        node'[a] = node[a] \/ (a = worker[w].parent /\ node'[a] # "absent")
  BY <1>2 DEF Discover, DiscoverFails, FinishDevice, TypeOK
<1>6. Recorded' = Recorded /\ Known' = Known
  BY <1>4, <1>5 DEF Known, Recorded
<1>7. /\ OneTraversal' /\ KnownInv'
      /\ \A v \in Worker : v # w => worker'[v].pc \notin WalkPC
  BY <1>1, <1>3, <1>4, <1>5, OthersKeep DEF WalkPC, Known
<1>8. WalkInv'  BY <1>1, <1>3, <1>4, <1>6, <1>7 DEF WalkInv, WalkPC
<1>9. OrderInv'
  <2> DEFINE q == worker[w].queue  p == worker[w].parent
  <2>1. /\ \A i, j \in 1 .. Len(q) : i <= j => depth[q[i]] <= depth[q[j]]
        /\ \A i \in 1 .. Len(q), a \in Recorded : depth[a] <= depth[q[i]] + 1
        /\ \A i \in 1 .. Len(q) : depth[p] <= depth[q[i]]
        /\ \A a \in Recorded : depth[a] <= depth[p] + 1
    BY <1>1 DEF OrderInv, WalkPC
  <2> QED BY <1>1, <1>3, <1>6, <1>7, <2>1 DEF OrderInv, WalkPC
<1>10. BoundInv'  BY <1>6 DEF BoundInv
<1> QED BY <1>7, <1>8, <1>9, <1>10

\* A new row is one link below the device that is read; if its neighbours are to
\* be read too, it waits behind every device that waits already.
LEMMA RecordKeeps ==
  ASSUME IInv, NEW w \in Worker, NEW a \in Address,
         RecordRejected(w, a) \/ RecordDevice(w, a)
  PROVE  OneTraversal' /\ KnownInv' /\ WalkInv' /\ OrderInv' /\ BoundInv'
<1> USE DEF IInv
<1> DEFINE q == worker[w].queue
           p == worker[w].parent
           q2 == worker'[w].queue
<1>1. /\ worker[w].pc = "record" /\ InWalk(w) /\ a \notin Recorded
      /\ Cardinality(Recorded) <= MaxDevices
      /\ UNCHANGED <<mission, config, task, request>>
      /\ depth' = [depth EXCEPT ![a] = depth[p] + 1]
  BY DEF RecordRejected, RecordDevice, At, InWalk, Fits, Unseen
<1>2. worker[w] \in Traversing /\ q \in Seq(Address) /\ p \in Address
  BY <1>1, Kind DEF WalkPC, Traversing
<1>3. /\ worker'[w].pc = "record" /\ worker'[w].parent = p
      /\ q2 = q \/ (a \in Manageable /\ q2 = Append(q, a))
      /\ \A v \in Worker : v # w => worker'[v] = worker[v]
  BY <1>1, <1>2 DEF RecordRejected, RecordDevice, TypeOK, Traversing
<1>4. /\ \A b \in Address : b # a => node'[b] = node[b]
      /\ \/ node'[a] \in {"unsupported", "out_of_scope"}
         \/ a \in Manageable /\ node'[a] \in {"credential_missing", "ready"}
  BY DEF RecordRejected, RecordDevice, TypeOK
<1>5. node'[a] # "absent" /\ Recorded' = Recorded \cup {a}
  BY <1>4 DEF Recorded
<1>6. BoundInv'  BY <1>1, <1>5, OneMore
<1>7. /\ OneTraversal' /\ KnownInv' /\ Known \subseteq Known'
      /\ \A v \in Worker : v # w => worker'[v].pc \notin WalkPC
  <2>1. \A b \in Address :
          \/ node'[b] = node[b]
          \/ node'[b] # "absent" /\
             (b \in Authorized \/ node'[b] \in {"unsupported", "out_of_scope"})
    BY <1>4, <1>5, RegisteredIsAuthorized
  <2>2. worker'[w].pc \in WalkPC  BY <1>3 DEF WalkPC
  <2> QED BY <1>1, <1>3, <2>1, <2>2, OthersKeep
<1>8. /\ p \in Known /\ depth[p] < MaxDepth /\ mission # "created"
      /\ \A i \in 1 .. Len(q) : q[i] \in Known
  BY <1>1 DEF WalkInv, WalkPC
<1>9. /\ depth'[a] = depth[p] + 1
      /\ \A b \in Address : b # a => depth'[b] = depth[b]
      /\ \A b \in Recorded : b \in Address /\ b # a
  BY <1>1 DEF TypeOK, Recorded
<1>10. Known \subseteq Recorded  BY DEF Known
<1>11. /\ Len(q) \in Nat
       /\ q2 = q \/ (Len(q2) = Len(q) + 1 /\ q2[Len(q2)] = a /\ a \in Known')
       /\ \A i \in 1 .. Len(q2) : i \in 1 .. Len(q) => q2[i] = q[i]
  <2>1. Len(q) \in Nat  BY <1>2, LenProperties
  <2>2. CASE q2 = q  BY <2>1, <2>2
  <2>3. CASE a \in Manageable /\ q2 = Append(q, a)
    <3>1. Len(q2) = Len(q) + 1 /\ q2[Len(q) + 1] = a
          /\ \A i \in 1 .. Len(q) : q2[i] = q[i]
      BY <1>2, <2>3, AppendProperties
    <3>2. a \in Known'  BY <1>5, <2>3, RegisteredIsAuthorized DEF Known
    <3> QED BY <2>1, <3>1, <3>2
  <2> QED BY <1>3, <2>2, <2>3
\* Every place of the new queue is a place of the old one or the last, with a.
<1>12. \A i \in 1 .. Len(q2) :
         \/ i \in 1 .. Len(q) /\ q2[i] = q[i]
         \/ i = Len(q2) /\ q2[i] = a /\ i = Len(q) + 1 /\ a \in Known'
  <2> SUFFICES ASSUME NEW i \in 1 .. Len(q2)
               PROVE  \/ i \in 1 .. Len(q) /\ q2[i] = q[i]
                      \/ i = Len(q2) /\ q2[i] = a /\ i = Len(q) + 1 /\ a \in Known'
    OBVIOUS
  <2>1. CASE i \in 1 .. Len(q)  BY <1>11, <2>1
  <2>2. CASE i \notin 1 .. Len(q)
    <3>1. q2 # q  BY <2>2
    <3>2. Len(q2) = Len(q) + 1 /\ Len(q) \in Nat  BY <1>11, <3>1
    <3>3. i = Len(q) + 1  BY <2>2, <3>2
    <3> QED BY <1>11, <3>1, <3>2, <3>3
  <2> QED BY <2>1, <2>2
<1>13. WalkInv'
  <2>1. \A i \in 1 .. Len(q2) : q2[i] \in Known'  BY <1>7, <1>8, <1>12
  <2>2. p \in Known' /\ depth'[p] < MaxDepth  BY <1>7, <1>8, <1>9, <1>10
  <2> QED BY <1>1, <1>3, <1>7, <1>8, <2>1, <2>2 DEF WalkInv, WalkPC
<1>14. OrderInv'
  <2>1. /\ \A i, j \in 1 .. Len(q) : i <= j => depth[q[i]] <= depth[q[j]]
        /\ \A i \in 1 .. Len(q), b \in Recorded : depth[b] <= depth[q[i]] + 1
        /\ \A i \in 1 .. Len(q) : depth[p] <= depth[q[i]]
        /\ \A b \in Recorded : depth[b] <= depth[p] + 1
    BY <1>1 DEF OrderInv, WalkPC
  <2>2. \A b \in Recorded : depth[b] \in Nat /\ depth'[b] = depth[b]
    BY <1>9, BoundAssumption DEF TypeOK
  <2>3. depth[p] \in Nat /\ depth'[p] = depth[p]  BY <1>8, <1>10, <2>2
  <2>4. \A b \in Recorded' : depth'[b] \in Nat /\ depth'[b] <= depth[p] + 1
    BY <1>5, <1>9, <2>1, <2>2, <2>3
  \* What waits is as deep as the device that is read, or deeper.
  <2>5. \A i \in 1 .. Len(q2) : depth'[q2[i]] \in Nat /\ depth[p] <= depth'[q2[i]]
    <3>1. SUFFICES ASSUME NEW i \in 1 .. Len(q2)
                   PROVE  depth'[q2[i]] \in Nat /\ depth[p] <= depth'[q2[i]]
      OBVIOUS
    <3>2. CASE i \in 1 .. Len(q) /\ q2[i] = q[i]
      BY <1>8, <1>10, <2>1, <2>2, <3>2
    <3>3. CASE q2[i] = a  BY <1>9, <2>3, <3>3
    <3> QED BY <1>12, <3>2, <3>3
  <2>6. \A i, j \in 1 .. Len(q2) : i <= j => depth'[q2[i]] <= depth'[q2[j]]
    <3>1. SUFFICES ASSUME NEW i \in 1 .. Len(q2), NEW j \in 1 .. Len(q2), i <= j
                   PROVE  depth'[q2[i]] <= depth'[q2[j]]
      OBVIOUS
    <3>2. CASE j \in 1 .. Len(q) /\ q2[j] = q[j]
      <4>1. i \in 1 .. Len(q) /\ q2[i] = q[i]  BY <1>11, <1>12, <3>1, <3>2
      <4>2. depth[q[i]] <= depth[q[j]]  BY <2>1, <3>1, <3>2, <4>1
      <4>3. q[i] \in Recorded /\ q[j] \in Recorded  BY <1>8, <1>10, <3>2, <4>1
      <4> QED BY <2>2, <3>2, <4>1, <4>2, <4>3
    <3>3. CASE q2[j] = a
      <4>1. depth'[q2[j]] = depth[p] + 1  BY <1>9, <3>3
      <4>2. q2[i] \in Recorded'
        BY <1>5, <1>8, <1>10, <1>12
      <4> QED BY <2>4, <4>1, <4>2
    <3> QED BY <1>12, <3>2, <3>3
  <2>7. \A i \in 1 .. Len(q2), b \in Recorded' : depth'[b] <= depth'[q2[i]] + 1
    <3>1. SUFFICES ASSUME NEW i \in 1 .. Len(q2), NEW b \in Recorded'
                   PROVE  depth'[b] <= depth'[q2[i]] + 1
      OBVIOUS
    <3>2. depth'[b] \in Nat /\ depth'[b] <= depth[p] + 1  BY <2>4
    <3>3. depth'[q2[i]] \in Nat /\ depth[p] <= depth'[q2[i]]  BY <2>5
    <3> QED BY <2>3, <3>2, <3>3
  <2> QED BY <1>3, <1>7, <2>3, <2>4, <2>5, <2>6, <2>7 DEF OrderInv, WalkPC
<1> QED BY <1>6, <1>7, <1>13, <1>14

-----------------------------------------------------------------------------
(* Theorems.                                                               *)

LEMMA InitInv == Init => IInv
<1>1. SUFFICES ASSUME Init PROVE IInv  OBVIOUS
<1>2. TypeOK  BY <1>1, InitType
<1>3. Recorded = {} /\ mission = "created"  BY <1>1 DEF Init, Recorded
<1>4. /\ \A w \in Worker : worker[w].pc = "idle"
      /\ \A r \in Request : request[r].pc = "idle"
      /\ \A b \in Address : node[b] = "absent" /\ task[b] = 0 /\ config[b] = "none"
  BY <1>1 DEF Init, Idle
<1>5. OneTraversal  BY <1>4 DEF OneTraversal, InWalk
<1>6. KnownInv  BY <1>4 DEF KnownInv
<1>7. WalkInv  BY <1>3, <1>4 DEF WalkInv, WalkPC
<1>8. OrderInv  BY <1>4 DEF OrderInv, WalkPC
<1>9. BoundInv  BY <1>3, FS_EmptySet, BoundAssumption DEF BoundInv
<1> QED BY <1>2, <1>5, <1>6, <1>7, <1>8, <1>9 DEF IInv

LEMMA TypeStep ==
  ASSUME TypeOK, WalkInv, NEW w \in Worker, WorkerStep(w)
  PROVE  TypeOK'
<1>1. At(w, "discover") \/ At(w, "record") => depth[worker[w].parent] < MaxDepth
  BY DEF WalkInv, At
<1>2. CASE TakeMessage(w)  BY <1>2, MessageType
<1>3. CASE Traverse(w)     BY <1>1, <1>3, TraverseType
<1>4. CASE Collect(w) \/ PublishAudit(w) \/ WorkerFails(w)  BY <1>4, OtherType
<1> QED BY <1>2, <1>3, <1>4 DEF WorkerStep

LEMMA NextInv == IInv /\ [Next]_vars => IInv'
<1>1. SUFFICES ASSUME IInv, [Next]_vars PROVE IInv'  OBVIOUS
<1>2. /\ TypeOK /\ OneTraversal /\ KnownInv /\ WalkInv /\ OrderInv /\ BoundInv
  BY <1>1 DEF IInv
<1>3. ASSUME TypeOK', QuietEffect, KnownInv' PROVE IInv'
  BY <1>2, <1>3, QuietKeeps DEF IInv
<1>4. ASSUME TypeOK', OneTraversal', KnownInv', WalkInv', OrderInv', BoundInv'
      PROVE  IInv'
  BY <1>4 DEF IInv
<1>5. CASE \/ StartMission \/ CreateCampaign
           \/ \E r \in Request : ReadRetry(r) \/ ServeRetry(r) \/ RetryStops(r)
           \/ \E a \in Address : AuditEnds(a)
  BY <1>2, <1>3, <1>5, ServiceType, ServiceEffect
<1>6. ASSUME NEW w \in Worker, WorkerStep(w) PROVE IInv'
  <2>1. TypeOK'  BY <1>2, <1>6, TypeStep
  <2>2. CASE TakeMessage(w)
    <3>1. CASE BeginMission(w)  BY <1>1, <1>4, <2>1, <3>1, BeginKeeps
    <3>2. CASE ~BeginMission(w)  BY <1>2, <1>3, <2>1, <2>2, <3>2, MessageEffect
    <3> QED BY <3>1, <3>2
  <2>3. CASE RecordSeed(w)   BY <1>1, <1>4, <2>1, <2>3, SeedKeeps
  <2>4. CASE VisitDevice(w)  BY <1>1, <1>4, <2>1, <2>4, VisitKeeps
  <2>5. CASE Discover(w) \/ DiscoverFails(w) \/ FinishDevice(w)
    BY <1>1, <1>4, <2>1, <2>5, ReadKeeps
  <2>6. ASSUME NEW a \in Address, RecordRejected(w, a) \/ RecordDevice(w, a)
        PROVE  IInv'
    BY <1>1, <1>4, <2>1, <2>6, RecordKeeps
  <2>7. CASE \/ FinishTraversal(w) \/ ReadEligible(w)
             \/ \E a \in Address : DispatchCollect(w, a) \/ DispatchCollectRaises(w, a)
             \/ CommitDispatch(w) \/ SendMissionFinalizer(w)
             \/ PullConfig(w) \/ LinkConfig(w) \/ PullFails(w) \/ PublishAudit(w)
             \/ RejectSeed(w) \/ FailMission(w) \/ WorkerCrash(w)
    BY <1>2, <1>3, <2>1, <2>7, WorkerEffect
  <2> QED BY <1>6, <2>2, <2>3, <2>4, <2>5, <2>6, <2>7
          DEF WorkerStep, Traverse, Collect, WorkerFails
<1>7. CASE UNCHANGED vars
  <2>1. TypeOK'  BY <1>2, <1>7 DEF TypeOK, vars
  <2>2. QuietEffect  BY <1>7 DEF QuietEffect, Recorded, vars
  <2>3. KnownInv'  BY <1>2, <1>7 DEF KnownInv, Known, Recorded, vars
  <2> QED BY <1>3, <2>1, <2>2, <2>3
<1> QED BY <1>1, <1>5, <1>6, <1>7 DEF Next

LEMMA Invariance == Spec => []IInv
BY InitInv, NextInv, PTL DEF Spec

\* Every variable keeps to its type: among others no device is recorded deeper
\* than max_depth, whatever the topology.
THEOREM TypeCorrect == Spec => []TypeOK
<1>1. IInv => TypeOK  BY DEF IInv
<1> QED BY <1>1, Invariance, PTL

\* At most one worker walks the mission, however often it is started and however
\* many workers there are (the row lock of run_network_mission).
THEOREM SingleWalk == Spec => []OneTraversal
<1>1. IInv => OneTraversal  BY DEF IInv
<1> QED BY <1>1, Invariance, PTL

\* Only authorized devices are read, collected or linked, for every topology,
\* scope and registry.
THEOREM AuthorizationHolds == Spec => []AuthorizedOnly
<1>1. IInv => AuthorizedOnly
  <2>1. SUFFICES ASSUME IInv, NEW a \in Address \ Authorized
                 PROVE  /\ node[a] \in {"absent", "unsupported", "out_of_scope"}
                        /\ task[a] = 0 /\ config[a] = "none"
                        /\ \A w \in Worker : At(w, "discover") => worker[w].parent # a
    BY DEF AuthorizedOnly
  <2>2. node[a] \in {"absent", "unsupported", "out_of_scope"}
    BY <2>1 DEF IInv, KnownInv
  <2>3. a \notin Known  BY DEF Known
  <2>4. config[a] = "none" /\ ~(task[a] > 0)  BY <2>1, <2>3 DEF IInv, KnownInv
  <2>5. task[a] \in Nat  BY <2>1, BoundAssumption DEF IInv, TypeOK
  <2>6. \A w \in Worker : At(w, "discover") => worker[w].parent # a
    BY <2>1, <2>3 DEF IInv, WalkInv, At
  <2> QED BY <2>2, <2>4, <2>5, <2>6
<1> QED BY <1>1, Invariance, PTL

\* No mission records more than max_devices devices beside the seed, nor one
\* further away than max_depth.
THEOREM BoundsHold == Spec => []WithinBounds
<1>1. IInv => WithinBounds
  BY BoundAssumption DEF IInv, BoundInv, TypeOK, Recorded, WithinBounds
<1> QED BY <1>1, Invariance, PTL

\* The walk is breadth first in every topology: no neighbour of the device that is
\* read was recorded as further away than one link from it.
THEOREM BreadthFirst == Spec => []ShortestDepth
<1>1. IInv => ShortestDepth
  BY DEF IInv, OrderInv, WalkPC, ShortestDepth, At
<1> QED BY <1>1, Invariance, PTL
=============================================================================
