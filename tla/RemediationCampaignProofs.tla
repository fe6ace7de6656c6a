--------------------- MODULE RemediationCampaignProofs ---------------------
(***************************************************************************)
(* Proofs about RemediationCampaign for every set of campaigns, controls,  *)
(* targets, findings, workers and requests, also when campaigns share the  *)
(* action of a finding, with remediation of single findings or without,    *)
(* and for every poll limit and bound.                                     *)
(***************************************************************************)
EXTENDS RemediationCampaign, TLAPS

-----------------------------------------------------------------------------
(* Type correctness, which needs what each process carries at each point.  *)

\* A process between two commits of a push knows whose finding it pushes, and a
\* process that has an outcome to record has one a row may hold.
Knows(p) ==
  p # Idle =>
    /\ p.pc \in {"mark", "verify", "finish"} => p.target \in Target
    /\ p.pc \in {"mark", "push", "record", "verify", "finish"} /\ p.target \in Target
         => p.finding = FindingOf[p.target]
    /\ p.pc = "record" => p.result \in {"verified"} \cup Failure
    /\ p.pc = "finish" => p.result \in {"verified", "unaudited"} \cup Failure

Typed == TypeOK /\ \A w \in Worker : Knows(worker[w])

\* What a process at each point of a push carries.
LEMMA WorkerType ==
  ASSUME Typed, NEW w \in Worker
  PROVE  /\ At(w, "checked") \/ At(w, "begin") =>
              worker[w] \in Checking /\ worker[w].target \in Target
         /\ At(w, "mark") \/ At(w, "verify") \/ At(w, "finish") =>
              /\ worker[w] \in Pushing
              /\ worker[w].target \in Target
              /\ worker[w].finding = FindingOf[worker[w].target]
         /\ At(w, "push") \/ At(w, "record") =>
              /\ worker[w] \in Pushing
              /\ worker[w].finding \in Finding
              /\ worker[w].target \in Target =>
                   worker[w].finding = FindingOf[worker[w].target]
  <1>1. worker[w] \in Checking \cup Pushing \cup {Idle}
    BY DEF Typed, TypeOK
  <1>2. Knows(worker[w])
    BY DEF Typed
  <1> QED
    BY <1>1, <1>2 DEF Knows, At, Checking, Pushing, Idle

\* What a request at each point holds.
LEMMA RequestType ==
  ASSUME TypeOK, NEW r \in Request, request[r] # Idle
  PROVE  /\ request[r].campaign \in Campaign
         /\ request[r].pc = "creating" => request[r] \in Creating
         /\ request[r].pc \in {"approving", "executing", "dispatching"} =>
              request[r] \in Serving
  BY DEF TypeOK, Creating, Serving

\* The finding of a target.
LEMMA TargetFacts ==
  ASSUME NEW t \in Target
  PROVE  /\ FindingOf[t] \in Finding
         /\ CampaignOf[t] \in Campaign
         /\ t # Manual
  BY TargetAssumption DEF TargetAssumption, Manual

\* Every campaign has a target of its own.
LEMMA CampaignFacts ==
  ASSUME NEW c \in Campaign
  PROVE  TargetsOf(c) # {} /\ TargetsOf(c) \subseteq Target
  BY TargetAssumption DEF TargetAssumption, TargetsOf

\* What campaign_rollup returns.
LEMMA RollupResult ==
  ASSUME NEW c \in Campaign, NEW status \in [Target -> TargetStatus]
  PROVE  /\ Rollup(c, status) \in {"executing", "completed", "partially_completed", "failed"}
         /\ Rollup(c, status) = "completed" => \A t \in TargetsOf(c) : status[t] \in Success
  <1> DEFINE success == {t \in TargetsOf(c) : status[t] \in Success}
             failures == {t \in TargetsOf(c) : status[t] \in Failure}
  <1>1. Rollup(c, status) = CASE success # {} /\ failures # {} -> "partially_completed"
                              [] success = TargetsOf(c) -> "completed"
                              [] failures = TargetsOf(c) -> "failed"
                              [] OTHER -> "executing"
    BY DEF Rollup
  <1>2. success = TargetsOf(c) => \A t \in TargetsOf(c) : status[t] \in Success
    OBVIOUS
  <1> HIDE DEF success, failures
  <1> QED
    BY <1>1, <1>2

\* A fault keeps within its budget.
LEMMA FaultType ==
  ASSUME TypeOK, Fault
  PROVE  faults' \in 0 .. MaxFaults
  BY BoundAssumption DEF TypeOK, Fault, BoundAssumption

\* Taking a message leaves one less.
LEMMA DeliverType ==
  ASSUME TypeOK, NEW w \in Worker, NEW t \in Target, Deliver(w, t)
  PROVE  job' \in [Target -> 0 .. MaxMessages]
  <1>1. job[t] \in 0 .. MaxMessages /\ job[t] > 0 /\ MaxMessages \in Nat
    BY BoundAssumption DEF TypeOK, Deliver, BoundAssumption
  <1>2. job[t] - 1 \in 0 .. MaxMessages
    BY <1>1
  <1> QED
    BY <1>2 DEF TypeOK, Deliver

\* The rows start as their types allow, and nobody is at work.
LEMMA InitTyped == Init => Typed
  <1> SUFFICES ASSUME Init PROVE Typed
    OBVIOUS
  <1>1. mission \in MissionStatus /\ campaign \in [Campaign -> CampaignStatus]
        /\ target \in [Target -> TargetStatus]
    BY DEF Init, MissionStatus, CampaignStatus, TargetStatus
  <1>2. verification \in [Target -> {"none", "running", "complete", "incomplete"}]
        /\ action \in [Finding -> {"none", "approved", "applying", "applied", "failed"}]
    BY DEF Init
  <1>3. snapshot \in [Finding -> BOOLEAN] /\ passed \in [Finding -> BOOLEAN]
    BY DEF Init
  <1>4. sent \in [Finding -> 0 .. 2] /\ job \in [Target -> 0 .. MaxMessages]
        /\ poll \in [Campaign -> [0 .. PollLimit -> 0 .. MaxMessages]]
    BY BoundAssumption DEF Init, BoundAssumption
  <1>5. worker \in [Worker -> Checking \cup Pushing \cup {Idle}]
        /\ publishing \in [Campaign -> Posture \cup {Idle}]
        /\ request \in [Request -> Creating \cup Serving \cup {Idle}]
    BY DEF Init
  <1>6. faults \in 0 .. MaxFaults
    BY BoundAssumption DEF Init, BoundAssumption
  <1>7. ASSUME NEW w \in Worker PROVE Knows(worker[w])
    BY DEF Init, Knows
  <1> QED
    BY <1>1, <1>2, <1>3, <1>4, <1>5, <1>6, <1>7 DEF Typed, TypeOK

\* A step that leaves the pushing processes alone leaves alone what they know.
LEMMA SameWorkers ==
  ASSUME Typed, worker' = worker, TypeOK'
  PROVE  Typed'
  BY DEF Typed

\* What one process becomes decides the types of all.
LEMMA OneWorker ==
  ASSUME Typed, NEW w \in Worker, NEW p \in Checking \cup Pushing \cup {Idle},
         worker' = [worker EXCEPT ![w] = p], Knows(p)
  PROVE  /\ worker' \in [Worker -> Checking \cup Pushing \cup {Idle}]
         /\ \A v \in Worker : Knows(worker[v])'
  <1>1. worker \in [Worker -> Checking \cup Pushing \cup {Idle}]
    BY DEF Typed, TypeOK
  <1>2. \A v \in Worker : Knows(worker[v])
    BY DEF Typed
  <1>3. worker' \in [Worker -> Checking \cup Pushing \cup {Idle}]
    BY <1>1
  <1>4. ASSUME NEW v \in Worker PROVE Knows(worker'[v])
    BY <1>1, <1>2
  <1> QED
    BY <1>3, <1>4 DEF Knows

\* A process that stops is idle again.
LEMMA IdleWorker ==
  ASSUME Typed, NEW w \in Worker, worker' = [worker EXCEPT ![w] = Idle]
  PROVE  /\ worker' \in [Worker -> Checking \cup Pushing \cup {Idle}]
         /\ \A v \in Worker : Knows(worker[v])'
  <1>1. Knows(Idle)
    BY DEF Knows
  <1> QED
    BY <1>1, OneWorker

-----------------------------------------------------------------------------
\* The steps of the API keep the types.
LEMMA RequestTyped ==
  ASSUME Typed, NEW r \in Request, AcceptRequest(r) \/ ServeRequest(r) \/ DispatchStops(r)
  PROVE  Typed'
  <1> USE DEF Typed
  <1>0. worker' = worker
    BY DEF AcceptRequest, ServeRequest, DispatchStops, FindNoCampaign,
           ReadForApproval, ReadForExecution, CreateCampaign, ApproveCampaign,
           StartExecution, DispatchTarget, DispatchFinalizer
  <1> SUFFICES TypeOK'
    BY <1>0, SameWorkers
  <1>1. ASSUME NEW c \in Campaign, FindNoCampaign(r, c)
        PROVE  TypeOK'
    <2>1. [pc |-> "creating", campaign |-> c, seen |-> mission] \in Creating
      BY DEF TypeOK, Creating
    <2>2. request' \in [Request -> Creating \cup Serving \cup {Idle}]
      BY <1>1, <2>1 DEF TypeOK, FindNoCampaign
    <2> QED
      BY <1>1, <2>2 DEF TypeOK, FindNoCampaign
  <1>2. ASSUME NEW c \in Campaign, NEW pc \in {"approving", "executing"},
               request' = [request EXCEPT ![r] = [pc |-> pc, campaign |-> c, todo |-> {}]],
               ReadForApproval(r, c) \/ ReadForExecution(r, c)
        PROVE  TypeOK'
    <2>1. [pc |-> pc, campaign |-> c, todo |-> {}] \in Serving
      BY DEF Serving
    <2>2. request' \in [Request -> Creating \cup Serving \cup {Idle}]
      BY <1>2, <2>1 DEF TypeOK
    <2> QED
      BY <1>2, <2>2 DEF TypeOK, ReadForApproval, ReadForExecution
  <1>3. CASE CreateCampaign(r)
    <2> DEFINE c == request[r].campaign
    <2>1. c \in Campaign
      BY <1>3, RequestType DEF CreateCampaign
    <2>2. campaign' \in [Campaign -> CampaignStatus]
      BY <1>3, <2>1 DEF TypeOK, CreateCampaign, CampaignStatus
    <2>3. target' \in [Target -> TargetStatus]
      BY <1>3 DEF TypeOK, CreateCampaign, TargetStatus
    <2>4. mission' \in MissionStatus
      BY <1>3 DEF TypeOK, CreateCampaign, MissionStatus, Written
    <2>5. request' \in [Request -> Creating \cup Serving \cup {Idle}]
      BY <1>3 DEF TypeOK, CreateCampaign
    <2> QED
      BY <1>3, <2>2, <2>3, <2>4, <2>5 DEF TypeOK, CreateCampaign
  <1>4. CASE ApproveCampaign(r)
    <2>1. campaign' \in [Campaign -> CampaignStatus]
      BY <1>4 DEF TypeOK, ApproveCampaign, CampaignStatus
    <2>2. target' \in [Target -> TargetStatus]
      BY <1>4 DEF TypeOK, ApproveCampaign, TargetStatus
    <2>3. action' \in [Finding -> {"none", "approved", "applying", "applied", "failed"}]
          /\ sent' \in [Finding -> 0 .. 2]
      BY <1>4 DEF TypeOK, ApproveCampaign, Approved
    <2>4. request' \in [Request -> Creating \cup Serving \cup {Idle}]
      BY <1>4 DEF TypeOK, ApproveCampaign
    <2> QED
      BY <1>4, <2>1, <2>2, <2>3, <2>4 DEF TypeOK, ApproveCampaign
  <1>5. CASE StartExecution(r)
    <2> DEFINE c == request[r].campaign
               q == [request[r] EXCEPT !.pc = "dispatching", !.todo = TargetsOf(c)]
    <2>1. request[r] \in Serving /\ c \in Campaign
      BY <1>5, RequestType DEF StartExecution
    <2>2. TargetsOf(c) \in SUBSET Target
      BY DEF TargetsOf
    <2>3. q \in Serving
      BY <2>1, <2>2 DEF Serving
    <2>4. request' = [request EXCEPT ![r] = q]
      BY <1>5 DEF TypeOK, StartExecution
    <2> HIDE DEF q
    <2>5. request' \in [Request -> Creating \cup Serving \cup {Idle}]
      BY <2>3, <2>4 DEF TypeOK
    <2>6. campaign' \in [Campaign -> CampaignStatus] /\ mission' \in MissionStatus
      BY <1>5 DEF TypeOK, StartExecution, CampaignStatus, MissionStatus
    <2> QED
      BY <1>5, <2>5, <2>6 DEF TypeOK, StartExecution
  <1>6. ASSUME NEW t \in Target, DispatchTarget(r, t)
        PROVE  TypeOK'
    <2> DEFINE q == [request[r] EXCEPT !.todo = @ \ {t}]
    <2>1. request[r] \in Serving
      BY <1>6, RequestType DEF DispatchTarget
    <2>2. q \in Serving
      BY <2>1 DEF Serving
    <2>3. request' = [request EXCEPT ![r] = q]
      BY <1>6 DEF TypeOK, DispatchTarget
    <2> HIDE DEF q
    <2>4. request' \in [Request -> Creating \cup Serving \cup {Idle}]
      BY <2>2, <2>3 DEF TypeOK
    <2>5. job' \in [Target -> 0 .. MaxMessages]
      BY <1>6, BoundAssumption DEF TypeOK, DispatchTarget, BoundAssumption
    <2> QED
      BY <1>6, <2>4, <2>5 DEF TypeOK, DispatchTarget
  <1>7. CASE DispatchFinalizer(r)
    <2> DEFINE c == request[r].campaign
    <2>1. c \in Campaign /\ 0 \in 0 .. PollLimit
      BY <1>7, RequestType, BoundAssumption DEF DispatchFinalizer, BoundAssumption
    <2>2. poll[c] \in [0 .. PollLimit -> 0 .. MaxMessages]
      BY <2>1 DEF TypeOK
    <2>3. poll' = [poll EXCEPT ![c] = [poll[c] EXCEPT ![0] = poll[c][0] + 1]]
      BY <1>7 DEF TypeOK, DispatchFinalizer
    <2>4. poll[c][0] + 1 \in 0 .. MaxMessages
      <3>1. poll[c][0] \in 0 .. MaxMessages /\ poll[c][0] < MaxMessages
        BY <1>7, <2>1, <2>2 DEF DispatchFinalizer
      <3> QED
        BY <3>1, BoundAssumption DEF BoundAssumption
    <2>5. [poll[c] EXCEPT ![0] = poll[c][0] + 1] \in [0 .. PollLimit -> 0 .. MaxMessages]
      BY <2>2, <2>4
    <2>6. poll' \in [Campaign -> [0 .. PollLimit -> 0 .. MaxMessages]]
      BY <2>3, <2>5 DEF TypeOK
    <2>7. request' \in [Request -> Creating \cup Serving \cup {Idle}]
      BY <1>7 DEF TypeOK, DispatchFinalizer
    <2> QED
      BY <1>7, <2>6, <2>7 DEF TypeOK, DispatchFinalizer
  <1>8. CASE DispatchStops(r)
    <2>1. faults' \in 0 .. MaxFaults
          /\ request' \in [Request -> Creating \cup Serving \cup {Idle}]
      BY <1>8, FaultType DEF TypeOK, DispatchStops
    <2> QED
      BY <1>8, <2>1 DEF TypeOK, DispatchStops
  <1>9. ASSUME AcceptRequest(r) PROVE TypeOK'
    <2>1. ASSUME NEW c \in Campaign, ReadForApproval(r, c) PROVE TypeOK'
      BY <2>1, <1>2 DEF ReadForApproval
    <2>2. ASSUME NEW c \in Campaign, ReadForExecution(r, c) PROVE TypeOK'
      BY <2>2, <1>2 DEF ReadForExecution
    <2> QED
      BY <1>9, <1>1, <2>1, <2>2 DEF AcceptRequest
  <1> QED
    BY <1>3, <1>4, <1>5, <1>6, <1>7, <1>8, <1>9 DEF ServeRequest

\* A snapshot that is persisted sends the process to record the outcome.
LEMMA SnapshotTyped ==
  ASSUME Typed, NEW w \in Worker, NEW t \in Target, PersistSnapshot(w, t)
  PROVE  /\ worker' \in [Worker -> Checking \cup Pushing \cup {Idle}]
         /\ \A v \in Worker : Knows(worker[v])'
  <1> PICK result \in {"verified", "unaudited"} :
             worker' = [worker EXCEPT ![w] = [pc |-> "finish", target |-> t,
               finding |-> FindingOf[t], result |-> result]]
    BY DEF PersistSnapshot
  <1> DEFINE p == [pc |-> "finish", target |-> t, finding |-> FindingOf[t],
                   result |-> result]
  <1>1. p \in Pushing
    BY TargetFacts DEF Pushing, Result
  <1>2. Knows(p)
    BY DEF Knows
  <1> HIDE DEF p
  <1> QED
    BY <1>1, <1>2, OneWorker DEF p

\* A delivery keeps the types, whatever it decides.
LEMMA TakeTyped ==
  ASSUME Typed, NEW w \in Worker, NEW t \in Target, TakeTarget(w, t)
  PROVE  Typed'
  <1> DEFINE c == CampaignOf[t]
  <1>0. TypeOK /\ c \in Campaign
    BY TargetFacts DEF Typed
  <1>a. job' \in [Target -> 0 .. MaxMessages]
    <2>1. Deliver(w, t)
      BY DEF TakeTarget, SkipTarget, RecoverApplied, RefuseAmbiguous, FindCompliant,
             RefuseTarget, CheckTarget
    <2> QED
      BY <2>1, <1>0, DeliverType
  <1>1. CASE SkipTarget(w, t)
    <2>1. TypeOK' /\ worker' = worker
      BY <1>0, <1>a, <1>1 DEF TypeOK, SkipTarget
    <2> QED
      BY <2>1, SameWorkers
  <1>2. CASE RecoverApplied(w, t)
    <2>1. /\ worker' \in [Worker -> Checking \cup Pushing \cup {Idle}]
          /\ \A v \in Worker : Knows(worker[v])'
      BY <1>2, SnapshotTyped DEF RecoverApplied
    <2>2. TypeOK'
      BY <1>0, <1>a, <1>2, <2>1 DEF TypeOK, RecoverApplied
    <2> QED
      BY <2>1, <2>2 DEF Typed
  <1>3. CASE RefuseAmbiguous(w, t)
    <2>1. target' \in [Target -> TargetStatus]
      BY <1>0, <1>3 DEF TypeOK, RefuseAmbiguous, TargetStatus, Failure
    <2>2. Rollup(c, target') \in CampaignStatus
      BY <1>0, <2>1, RollupResult DEF CampaignStatus
    <2>3. campaign' = [campaign EXCEPT ![c] = Rollup(c, target')]
      BY <1>3 DEF RefuseAmbiguous
    <2>4. campaign' \in [Campaign -> CampaignStatus]
      BY <1>0, <2>2, <2>3 DEF TypeOK
    <2>5. worker' = worker
      BY <1>3 DEF RefuseAmbiguous
    <2>6. TypeOK'
      BY <1>0, <1>a, <1>3, <2>1, <2>4 DEF TypeOK, RefuseAmbiguous
    <2> QED
      BY <2>5, <2>6, SameWorkers
  <1>4. CASE FindCompliant(w, t)
    <2>1. target' \in [Target -> TargetStatus]
      BY <1>0, <1>4 DEF TypeOK, FindCompliant, TargetStatus, Success
    <2>2. verification' \in [Target -> {"none", "running", "complete", "incomplete"}]
      BY <1>0, <1>4 DEF TypeOK, FindCompliant
    <2>3. TypeOK' /\ worker' = worker
      BY <1>0, <1>a, <1>4, <2>1, <2>2 DEF TypeOK, FindCompliant
    <2> QED
      BY <2>3, SameWorkers
  <1>5. CASE RefuseTarget(w, t)
    <2>1. target' \in [Target -> TargetStatus]
      BY <1>0, <1>5 DEF TypeOK, RefuseTarget, TargetStatus, Failure
    <2>2. TypeOK' /\ worker' = worker
      BY <1>0, <1>a, <1>5, <2>1 DEF TypeOK, RefuseTarget
    <2> QED
      BY <2>2, SameWorkers
  <1>6. CASE CheckTarget(w, t)
    <2> DEFINE p == [pc |-> "checked", target |-> t, loaded |-> campaign[c]]
    <2>1. p \in Checking /\ Knows(p)
      BY <1>0 DEF TypeOK, Checking, Knows
    <2>2. worker' = [worker EXCEPT ![w] = p]
      BY <1>6 DEF CheckTarget
    <2> HIDE DEF p
    <2>3. /\ worker' \in [Worker -> Checking \cup Pushing \cup {Idle}]
          /\ \A v \in Worker : Knows(worker[v])'
      BY <2>1, <2>2, OneWorker
    <2>4. TypeOK'
      BY <1>0, <1>a, <1>6, <2>3 DEF TypeOK, CheckTarget
    <2> QED
      BY <2>3, <2>4 DEF Typed
  <1> QED
    BY <1>1, <1>2, <1>3, <1>4, <1>5, <1>6 DEF TakeTarget

\* What a process knows is kept when only its place in the push changes.
LEMMA MoveTyped ==
  ASSUME Typed, NEW w \in Worker, worker[w] \in Pushing,
         NEW pc \in {"push", "record", "verify", "finish"}, NEW result \in Result,
         worker' = [worker EXCEPT ![w].pc = pc, ![w].result = result],
         pc \in {"verify", "finish"} => worker[w].target \in Target,
         worker[w].target \in Target => worker[w].finding = FindingOf[worker[w].target],
         pc = "record" => result \in {"verified"} \cup Failure,
         pc = "finish" => result \in {"verified", "unaudited"} \cup Failure
  PROVE  /\ worker' \in [Worker -> Checking \cup Pushing \cup {Idle}]
         /\ \A v \in Worker : Knows(worker[v])'
  <1> DEFINE p == [worker[w] EXCEPT !.pc = pc, !.result = result]
  <1>1. p \in Pushing
    BY DEF Pushing
  <1>2. Knows(p)
    BY <1>1 DEF Knows, Pushing
  <1>3. worker' = [worker EXCEPT ![w] = p]
    BY DEF Typed, TypeOK
  <1> HIDE DEF p
  <1> QED
    BY <1>1, <1>2, <1>3, OneWorker

\* After an action, a single finding is done and a target goes on.
LEMMA AfterTyped ==
  ASSUME Typed, NEW w \in Worker, NEW pc \in {"verify", "finish"}, At(w, "record"),
         AfterAction(w, pc), pc = "finish" => worker[w].result # "verified"
  PROVE  /\ worker' \in [Worker -> Checking \cup Pushing \cup {Idle}]
         /\ \A v \in Worker : Knows(worker[v])'
  <1>1. CASE worker[w].target = Manual
    BY <1>1, IdleWorker DEF AfterAction
  <1>2. CASE worker[w].target # Manual
    <2> DEFINE result == worker[w].result
    <2>1. /\ worker[w] \in Pushing
          /\ worker[w].target \in Target => worker[w].finding = FindingOf[worker[w].target]
      BY WorkerType
    <2>2. worker[w].target \in Target
      BY <1>2, <2>1 DEF Pushing
    <2>7. result \in Result
      BY <2>1 DEF Pushing
    <2>3. result \in {"verified"} \cup Failure
      BY DEF Typed, Knows, At
    <2>4. [worker[w] EXCEPT !.pc = pc] = [worker[w] EXCEPT !.pc = pc, !.result = result]
      BY <2>1 DEF Pushing
    <2>5. worker' = [worker EXCEPT ![w] = [worker[w] EXCEPT !.pc = pc]]
      BY <1>2 DEF AfterAction, Typed, TypeOK
    <2>6. worker' = [worker EXCEPT ![w].pc = pc, ![w].result = result]
      BY <2>4, <2>5 DEF Typed, TypeOK
    <2>8. pc = "finish" => result \in {"verified", "unaudited"} \cup Failure
      BY <2>3
    <2>9. pc \in {"push", "record", "verify", "finish"} /\ pc # "record"
      OBVIOUS
    <2> HIDE DEF result
    <2> QED
      BY <2>1, <2>2, <2>6, <2>7, <2>8, <2>9, MoveTyped
  <1> QED
    BY <1>1, <1>2

\* The steps of a push keep the types.
LEMMA RunTyped ==
  ASSUME Typed, NEW w \in Worker, RunTarget(w)
  PROVE  Typed'
  <1> DEFINE t == worker[w].target
             f == worker[w].finding
             c == CampaignOf[t]
             WorkersTyped == /\ worker' \in [Worker -> Checking \cup Pushing \cup {Idle}]
                             /\ \A v \in Worker : Knows(worker[v])'
  <1>0. TypeOK
    BY DEF Typed
  <1>1. CASE LogAccess(w)
    <2> DEFINE p == [worker[w] EXCEPT !.pc = "begin", !.loaded = campaign[c]]
    <2>1. worker[w] \in Checking /\ t \in Target
      BY <1>1, WorkerType DEF LogAccess
    <2>2. campaign[c] \in CampaignStatus
      BY <1>0, <2>1, TargetFacts DEF TypeOK
    <2>3. p \in Checking /\ Knows(p)
      BY <2>1, <2>2 DEF Checking, Knows
    <2>4. worker' = [worker EXCEPT ![w] = p]
      BY <1>0, <1>1 DEF TypeOK, LogAccess
    <2> HIDE DEF p
    <2>5. WorkersTyped
      BY <2>3, <2>4, OneWorker
    <2>6. TypeOK'
      BY <1>0, <1>1, <2>5 DEF TypeOK, LogAccess
    <2> QED
      BY <2>5, <2>6 DEF Typed
  <1>2. CASE BeginApply(w)
    <2> DEFINE p == [pc |-> "mark", target |-> t, finding |-> FindingOf[t],
                     result |-> "none"]
    <2>1. t \in Target
      BY <1>2, WorkerType DEF BeginApply
    <2>2. p \in Pushing /\ Knows(p)
      BY <2>1, TargetFacts DEF Pushing, Result, Knows
    <2>3. worker' = [worker EXCEPT ![w] = p]
      BY <1>2 DEF BeginApply
    <2> HIDE DEF p
    <2>4. WorkersTyped
      BY <2>2, <2>3, OneWorker
    <2>5. target' \in [Target -> TargetStatus]
      BY <1>0, <1>2 DEF TypeOK, BeginApply, TargetStatus
    <2>6. campaign' \in [Campaign -> CampaignStatus]
      BY <1>0, <1>2 DEF TypeOK, BeginApply, Written, CampaignStatus
    <2>7. TypeOK'
      BY <1>0, <1>2, <2>4, <2>5, <2>6 DEF TypeOK, BeginApply
    <2> QED
      BY <2>4, <2>7 DEF Typed
  <1>3. CASE MarkApplying(w)
    <2>1. /\ worker[w] \in Pushing /\ t \in Target /\ f = FindingOf[t]
          /\ worker[w].result \in Result
      BY <1>3, WorkerType DEF MarkApplying, Pushing
    <2>2. worker' = [worker EXCEPT ![w].pc = "push", ![w].result = worker[w].result]
      <3>1. [worker[w] EXCEPT !.pc = "push"] =
              [worker[w] EXCEPT !.pc = "push", !.result = worker[w].result]
        BY <2>1 DEF Pushing
      <3>2. worker' = [worker EXCEPT ![w] = [worker[w] EXCEPT !.pc = "push"]]
        BY <1>0, <1>3 DEF TypeOK, MarkApplying
      <3> QED
        BY <1>0, <3>1, <3>2 DEF TypeOK
    <2>3. WorkersTyped
      BY <2>1, <2>2, MoveTyped
    <2>4. action' \in [Finding -> {"none", "approved", "applying", "applied", "failed"}]
      BY <1>0, <1>3 DEF TypeOK, MarkApplying
    <2>5. TypeOK'
      BY <1>0, <1>3, <2>3, <2>4 DEF TypeOK, MarkApplying
    <2> QED
      BY <2>3, <2>5 DEF Typed
  <1>4. CASE Push(w)
    <2>1. /\ worker[w] \in Pushing
          /\ t \in Target => f = FindingOf[t]
      BY <1>4, WorkerType DEF Push
    <2>2. PICK result \in {"verified"} \cup Failure :
                 worker' = [worker EXCEPT ![w].pc = "record", ![w].result = result]
      BY <1>4 DEF Push
    <2>3. result \in Result
      BY DEF Result
    <2>4. WorkersTyped
      BY <2>1, <2>2, <2>3, MoveTyped
    <2>5. sent' \in [Finding -> 0 .. 2]
      <3>1. sent' = [sent EXCEPT ![f] = IF @ < 2 THEN @ + 1 ELSE @] \/ sent' = sent
        BY <1>4 DEF Push
      <3>2. f \in Finding /\ sent[f] \in 0 .. 2
        BY <1>0, <2>1 DEF TypeOK, Pushing
      <3>3. (IF sent[f] < 2 THEN sent[f] + 1 ELSE sent[f]) \in 0 .. 2
        BY <3>2
      <3> QED
        BY <1>0, <3>1, <3>3 DEF TypeOK
    <2>6. TypeOK'
      BY <1>0, <1>4, <2>4, <2>5 DEF TypeOK, Push
    <2> QED
      BY <2>4, <2>6 DEF Typed
  <1>5. CASE RecordApplied(w)
    <2>1. WorkersTyped
      BY <1>5, AfterTyped DEF RecordApplied
    <2>2. action' \in [Finding -> {"none", "approved", "applying", "applied", "failed"}]
          /\ snapshot' \in [Finding -> BOOLEAN]
      BY <1>0, <1>5 DEF TypeOK, RecordApplied
    <2>3. TypeOK'
      BY <1>0, <1>5, <2>1, <2>2 DEF TypeOK, RecordApplied
    <2> QED
      BY <2>1, <2>3 DEF Typed
  <1>6. CASE RecordFailed(w)
    <2>1. WorkersTyped
      BY <1>6, AfterTyped DEF RecordFailed
    <2>2. action' \in [Finding -> {"none", "approved", "applying", "applied", "failed"}]
      BY <1>0, <1>6 DEF TypeOK, RecordFailed
    <2>3. TypeOK'
      BY <1>0, <1>6, <2>1, <2>2 DEF TypeOK, RecordFailed
    <2> QED
      BY <2>1, <2>3 DEF Typed
  <1>7. CASE PersistVerification(w)
    <2>1. t \in Target
      BY <1>7, WorkerType DEF PersistVerification
    <2>2. WorkersTyped
      BY <1>7, <2>1, SnapshotTyped DEF PersistVerification
    <2>3. TypeOK'
      BY <1>0, <1>7, <2>2 DEF TypeOK, PersistVerification
    <2> QED
      BY <2>2, <2>3 DEF Typed
  <1>8. CASE FinishTarget(w)
    <2> DEFINE result == worker[w].result
    <2>1. result \in {"verified", "unaudited"} \cup Failure
      BY <1>8 DEF FinishTarget, At, Typed, Knows
    <2>2. Outcome(result) \in TargetStatus
      BY <2>1 DEF Outcome, TargetStatus, Success, Failure
    <2>3. target' = [target EXCEPT ![t] = Outcome(result)]
      BY <1>8 DEF FinishTarget
    <2>4. target' \in [Target -> TargetStatus]
      BY <1>0, <2>2, <2>3 DEF TypeOK
    <2>5. verification' \in [Target -> {"none", "running", "complete", "incomplete"}]
      BY <1>0, <1>8 DEF TypeOK, FinishTarget
    <2>6. WorkersTyped
      BY <1>8, IdleWorker DEF FinishTarget
    <2>7. TypeOK'
      BY <1>0, <1>8, <2>4, <2>5, <2>6 DEF TypeOK, FinishTarget
    <2> QED
      BY <2>6, <2>7 DEF Typed
  <1> QED
    BY <1>1, <1>2, <1>3, <1>4, <1>5, <1>6, <1>7, <1>8 DEF RunTarget

\* Every step of a worker keeps the types.
LEMMA WorkerTyped ==
  ASSUME Typed, NEW w \in Worker, WorkerStep(w)
  PROVE  Typed'
  <1>0. TypeOK
    BY DEF Typed
  <1>1. ASSUME NEW f \in Finding, ApplyFinding(w, f)
        PROVE  Typed'
    <2> DEFINE p == [pc |-> "push", target |-> Manual, finding |-> f, result |-> "none"]
    <2>1. p \in Pushing
      BY DEF Pushing, Result
    <2>2. Knows(p)
      BY TargetAssumption DEF TargetAssumption, Knows, Manual
    <2>3. worker' = [worker EXCEPT ![w] = p]
      BY <1>1 DEF ApplyFinding
    <2> HIDE DEF p
    <2>4. /\ worker' \in [Worker -> Checking \cup Pushing \cup {Idle}]
          /\ \A v \in Worker : Knows(worker[v])'
      BY <2>1, <2>2, <2>3, OneWorker
    <2>5. action' \in [Finding -> {"none", "approved", "applying", "applied", "failed"}]
      BY <1>0, <1>1 DEF TypeOK, ApplyFinding
    <2>6. TypeOK'
      BY <1>0, <1>1, <2>4, <2>5 DEF TypeOK, ApplyFinding
    <2> QED
      BY <2>4, <2>6 DEF Typed
  <1>2. CASE CredentialRaises(w)
    <2>1. /\ worker' \in [Worker -> Checking \cup Pushing \cup {Idle}]
          /\ \A v \in Worker : Knows(worker[v])'
      BY <1>2, IdleWorker DEF CredentialRaises
    <2>2. TypeOK'
      BY <1>0, <1>2, <2>1 DEF TypeOK, CredentialRaises
    <2> QED
      BY <2>1, <2>2 DEF Typed
  <1>3. CASE WorkerCrash(w)
    <2>1. /\ worker' \in [Worker -> Checking \cup Pushing \cup {Idle}]
          /\ \A v \in Worker : Knows(worker[v])'
      BY <1>3, IdleWorker DEF WorkerCrash
    <2>2. faults' \in 0 .. MaxFaults
      BY <1>0, <1>3, FaultType DEF WorkerCrash
    <2>3. TypeOK'
      BY <1>0, <1>3, <2>1, <2>2 DEF TypeOK, WorkerCrash
    <2> QED
      BY <2>1, <2>3 DEF Typed
  <1> QED
    BY <1>1, <1>2, <1>3, TakeTyped, RunTyped DEF WorkerStep

\* The polls and the publication of a finalizer keep the types.
LEMMA FinalizerTyped ==
  ASSUME Typed, NEW c \in Campaign, Finalize(c) \/ FinalizerCrash(c)
  PROVE  Typed'
  <1>0. TypeOK /\ worker' = worker
    BY DEF Typed, Finalize, FinalizerCrash, PollAgain, ReadPosture, Publish
  <1>1. SUFFICES TypeOK'
    BY <1>0, SameWorkers
  <1>2. poll[c] \in [0 .. PollLimit -> 0 .. MaxMessages]
    BY <1>0 DEF TypeOK
  <1>3. ASSUME NEW n \in 0 .. PollLimit, poll[c][n] > 0
        PROVE  poll[c][n] - 1 \in 0 .. MaxMessages
    <2>1. poll[c][n] \in 0 .. MaxMessages
      BY <1>2
    <2> QED
      BY <1>3, <2>1, BoundAssumption DEF BoundAssumption
  <1>4. ASSUME NEW n \in 0 .. PollLimit, PollAgain(c, n)
        PROVE  TypeOK'
    <2> DEFINE m == Retried(n)
               less == poll[c][n] - 1
               more == poll[c][m] + 1
               row == [poll[c] EXCEPT ![n] = less, ![m] = more]
    <2>1. m = n + 1 /\ m \in 0 .. PollLimit /\ m # n
      BY <1>4, BoundAssumption DEF PollAgain, Retried, BoundAssumption
    <2>2. less \in 0 .. MaxMessages
      BY <1>3, <1>4 DEF PollAgain, TakePoll
    <2>3. more \in 0 .. MaxMessages
      <3>1. poll[c][m] \in 0 .. MaxMessages /\ poll[c][m] < MaxMessages
        BY <1>2, <1>4, <2>1 DEF PollAgain
      <3> QED
        BY <3>1, BoundAssumption DEF BoundAssumption
    <2>4. poll' = [poll EXCEPT ![c] = row]
      <3>1. poll' = [poll EXCEPT ![c][n] = less, ![c][m] = more]
        <4>1. poll' = [poll EXCEPT ![c][n] = @ - 1, ![c][m] = @ + 1]
          BY <1>4 DEF PollAgain
        <4> HIDE DEF m
        <4> QED
          BY <1>0, <1>2, <2>1, <4>1 DEF TypeOK
      <3> HIDE DEF less, more, m
      <3> QED
        BY <1>0, <3>1 DEF TypeOK
    <2> HIDE DEF less, more, m
    <2>5. row \in [0 .. PollLimit -> 0 .. MaxMessages]
      BY <1>2, <2>1, <2>2, <2>3
    <2> HIDE DEF row
    <2>6. poll' \in [Campaign -> [0 .. PollLimit -> 0 .. MaxMessages]]
      BY <1>0, <2>4, <2>5 DEF TypeOK
    <2> QED
      BY <1>0, <1>4, <2>6 DEF TypeOK, PollAgain
  <1>5. ASSUME NEW n \in 0 .. PollLimit, ReadPosture(c, n)
        PROVE  TypeOK'
    <2> DEFINE unverified == {t \in TargetsOf(c) :
                                target[t] = "verified" /\ verification[t] # "complete"}
               seen == [t \in Target |-> IF t \in unverified THEN "failed" ELSE target[t]]
               posture == [unverified |-> unverified, status |-> Rollup(c, seen),
                           mission |-> MissionPosture(c, Rollup(c, seen)),
                           seen |-> mission]
    <2>1. unverified \subseteq Target
      BY CampaignFacts
    <2>2. seen \in [Target -> TargetStatus]
      BY <1>0 DEF TypeOK, TargetStatus, Failure
    <2>3. Rollup(c, seen) \in CampaignStatus
      BY <2>2, RollupResult DEF CampaignStatus
    <2>4. MissionPosture(c, Rollup(c, seen)) \in MissionStatus
      BY DEF MissionPosture, MissionStatus
    <2>5. posture \in Posture
      BY <1>0, <2>1, <2>3, <2>4 DEF TypeOK, Posture
    <2>6. publishing' = [publishing EXCEPT ![c] = posture]
      BY <1>5 DEF ReadPosture
    <2> HIDE DEF posture
    <2>7. publishing' \in [Campaign -> Posture \cup {Idle}]
      BY <1>0, <2>5, <2>6 DEF TypeOK
    <2>8. poll' = [poll EXCEPT ![c] = [poll[c] EXCEPT ![n] = poll[c][n] - 1]]
      BY <1>0, <1>5 DEF TypeOK, ReadPosture
    <2>9. poll' \in [Campaign -> [0 .. PollLimit -> 0 .. MaxMessages]]
      BY <1>0, <1>2, <1>3, <1>5, <2>8 DEF TypeOK, ReadPosture, TakePoll
    <2> QED
      BY <1>0, <1>5, <2>7, <2>9 DEF TypeOK, ReadPosture
  <1>6. CASE Publish(c)
    <2> DEFINE posture == publishing[c]
    <2>1. posture \in Posture
      BY <1>0, <1>6 DEF TypeOK, Publish, CampaignLocked
    <2>2. posture.status \in CampaignStatus /\ posture.mission \in MissionStatus
      BY <2>1 DEF Posture
    <2>3. campaign' \in [Campaign -> CampaignStatus] /\ mission' \in MissionStatus
      BY <1>0, <1>6, <2>2 DEF TypeOK, Publish, Written
    <2>4. target' \in [Target -> TargetStatus]
      BY <1>0, <1>6 DEF TypeOK, Publish, TargetStatus, Failure
    <2>5. publishing' \in [Campaign -> Posture \cup {Idle}]
      BY <1>0, <1>6 DEF TypeOK, Publish
    <2> QED
      BY <1>0, <1>6, <2>3, <2>4, <2>5 DEF TypeOK, Publish
  <1>7. CASE FinalizerCrash(c)
    <2>1. publishing' \in [Campaign -> Posture \cup {Idle}] /\ faults' \in 0 .. MaxFaults
      BY <1>0, <1>7, FaultType DEF TypeOK, FinalizerCrash
    <2> QED
      BY <1>0, <1>7, <2>1 DEF TypeOK, FinalizerCrash
  <1> QED
    BY <1>4, <1>5, <1>6, <1>7 DEF Finalize

\* So do an approval by hand, a repeated delivery and the audits.
LEMMA OtherTyped ==
  ASSUME Typed,
         (\E f \in Finding : ApproveFinding(f)) \/ (\E t \in Target : Redeliver(t)) \/ AuditStep
  PROVE  Typed'
  <1>0. TypeOK /\ worker' = worker
    BY DEF Typed, ApproveFinding, Redeliver, AuditStep, AuditEnds, NewerPass
  <1>1. SUFFICES TypeOK'
    BY <1>0, SameWorkers
  <1>2. ASSUME NEW f \in Finding, ApproveFinding(f)
        PROVE  TypeOK'
    <2>1. action' \in [Finding -> {"none", "approved", "applying", "applied", "failed"}]
          /\ sent' \in [Finding -> 0 .. 2]
      BY <1>0, <1>2 DEF TypeOK, ApproveFinding, Approved
    <2> QED
      BY <1>0, <1>2, <2>1 DEF TypeOK, ApproveFinding
  <1>3. ASSUME NEW t \in Target, Redeliver(t)
        PROVE  TypeOK'
    <2>1. job[t] + 1 \in 0 .. MaxMessages /\ faults' \in 0 .. MaxFaults
      BY <1>0, <1>3, FaultType, BoundAssumption DEF Redeliver, BoundAssumption
    <2>2. job' \in [Target -> 0 .. MaxMessages]
      BY <1>0, <1>3, <2>1 DEF TypeOK, Redeliver
    <2> QED
      BY <1>0, <1>3, <2>1, <2>2 DEF TypeOK, Redeliver
  <1>4. ASSUME NEW t \in Target, AuditEnds(t)
        PROVE  TypeOK'
    <2>1. verification' \in [Target -> {"none", "running", "complete", "incomplete"}]
      BY <1>0, <1>4 DEF TypeOK, AuditEnds
    <2> QED
      BY <1>0, <1>4, <2>1 DEF TypeOK, AuditEnds
  <1>5. ASSUME NEW f \in Finding, NewerPass(f)
        PROVE  TypeOK'
    <2>1. passed' \in [Finding -> BOOLEAN]
      BY <1>0, <1>5 DEF TypeOK, NewerPass
    <2> QED
      BY <1>0, <1>5, <2>1 DEF TypeOK, NewerPass
  <1> QED
    BY <1>2, <1>3, <1>4, <1>5 DEF AuditStep

\* Every step keeps the types.
LEMMA NextTyped == Typed /\ [Next]_vars => Typed'
  <1> SUFFICES ASSUME Typed, [Next]_vars PROVE Typed'
    OBVIOUS
  <1>1. ASSUME NEW r \in Request, AcceptRequest(r) \/ ServeRequest(r) \/ DispatchStops(r)
        PROVE  Typed'
    BY <1>1, RequestTyped
  <1>2. ASSUME NEW w \in Worker, WorkerStep(w)
        PROVE  Typed'
    BY <1>2, WorkerTyped
  <1>3. ASSUME NEW c \in Campaign, Finalize(c) \/ FinalizerCrash(c)
        PROVE  Typed'
    BY <1>3, FinalizerTyped
  <1>4. CASE UNCHANGED vars
    <2>1. TypeOK' /\ worker' = worker
      BY <1>4 DEF Typed, TypeOK, vars
    <2> QED
      BY <2>1, SameWorkers
  <1>5. CASE (\E f \in Finding : ApproveFinding(f)) \/ (\E t \in Target : Redeliver(t))
              \/ AuditStep
    BY <1>5, OtherTyped
  <1> QED
    BY <1>1, <1>2, <1>3, <1>4, <1>5 DEF Next

\* What a process knows of its push follows it through every step.
LEMMA TypedAlways == Spec => []Typed
  BY InitTyped, NextTyped, PTL DEF Spec

\* The rows, messages and processes keep their types, in particular a target never
\* gets the outcome of a push that has none (execute_campaign_target).
THEOREM TypeCorrect == Spec => []TypeOK
  <1>1. Typed => TypeOK
    BY DEF Typed
  <1> QED
    BY <1>1, TypedAlways, PTL

-----------------------------------------------------------------------------
(* Approval before execution.                                              *)

\* The campaign has been approved at some time.
Unapproved == {"absent", "pending_approval"}
Begun(c) == campaign[c] \notin Unapproved

USE DEF Unapproved

\* A request creates a campaign that no other request has seen; the others hold one
\* that exists, or that was approved.
RequestsFollow ==
  \A r \in Request : request[r] # Idle =>
    LET c == request[r].campaign IN
    /\ request[r].pc = "creating" =>
         /\ campaign[c] = "absent"
         /\ \A q \in Request \ {r} : request[q] # Idle => request[q].campaign # c
    /\ request[r].pc = "approving" => campaign[c] # "absent"
    /\ request[r].pc \in {"executing", "dispatching"} => Begun(c)

\* Whoever works on a target works on an approved campaign, and so does its finalizer.
WorkFollowsApproval ==
  /\ \A w \in Worker : worker[w] # Idle /\ worker[w].target \in Target =>
       Begun(CampaignOf[worker[w].target])
  /\ \A c \in Campaign : publishing[c] # Idle =>
       /\ Begun(c)
       /\ publishing[c].unverified \subseteq TargetsOf(c)
       /\ publishing[c].status \notin Unapproved
  /\ \A c \in Campaign : (\E n \in 0 .. PollLimit : poll[c][n] > 0) => Begun(c)

\* No target of an approved campaign is pending.
ApprovalCovers == \A t \in Target : target[t] = "pending" => ~Begun(CampaignOf[t])

ApprovalInv == RequestsFollow /\ WorkFollowsApproval /\ ApprovalCovers

\* What a step of workers, finalizers and audits may do: change the rows of approved
\* campaigns, take up work on them, and never send a target back to pending.
FollowsApproval ==
  /\ request' = request
  /\ \A c \in Campaign : \/ campaign'[c] = campaign[c]
                         \/ Begun(c) /\ campaign'[c] \notin Unapproved
  /\ \A t \in Target : \/ target'[t] = target[t]
                       \/ Begun(CampaignOf[t]) /\ target'[t] # "pending"
  /\ \A w \in Worker : \/ worker'[w] = worker[w]
                       \/ worker'[w] = Idle
                       \/ worker'[w].target \in Target =>
                            Begun(CampaignOf[worker'[w].target])
  /\ \A c \in Campaign : \/ publishing'[c] = publishing[c]
                         \/ publishing'[c] = Idle
                         \/ /\ Begun(c)
                            /\ publishing'[c].unverified \subseteq TargetsOf(c)
                            /\ publishing'[c].status \notin Unapproved
  /\ \A c \in Campaign : (\E n \in 0 .. PollLimit : poll'[c][n] > 0) => Begun(c)

\* Such a step keeps the approval invariant.
LEMMA ApprovalKept ==
  ASSUME Typed, ApprovalInv, FollowsApproval
  PROVE  ApprovalInv'
  <1>1. ASSUME NEW c \in Campaign
        PROVE  /\ campaign'[c] = "absent" <=> campaign[c] = "absent"
               /\ Begun(c)' <=> Begun(c)
    BY DEF FollowsApproval, Begun
  <1>2. RequestsFollow'
    <2>1. request' = request /\ RequestsFollow /\ TypeOK
      BY DEF FollowsApproval, ApprovalInv, Typed
    <2>2. \A r \in Request : request[r] # Idle => request[r].campaign \in Campaign
      BY <2>1, RequestType
    <2> QED
      BY <2>1, <2>2, <1>1 DEF RequestsFollow
  <1>3. WorkFollowsApproval'
    <2>1. ASSUME NEW w \in Worker, worker'[w] # Idle, worker'[w].target \in Target
          PROVE  Begun(CampaignOf[worker[w].target])'
      <3>1. CampaignOf[worker'[w].target] \in Campaign
        BY <2>1, TargetFacts
      <3>2. Begun(CampaignOf[worker'[w].target])
        BY <2>1 DEF FollowsApproval, ApprovalInv, WorkFollowsApproval
      <3> QED
        BY <3>1, <3>2, <1>1 DEF Begun
    <2>2. ASSUME NEW c \in Campaign, publishing'[c] # Idle
          PROVE  /\ Begun(c)'
                 /\ publishing'[c].unverified \subseteq TargetsOf(c)
                 /\ publishing'[c].status \notin Unapproved
      BY <2>2, <1>1 DEF FollowsApproval, ApprovalInv, WorkFollowsApproval
    <2>3. ASSUME NEW c \in Campaign, \E n \in 0 .. PollLimit : poll'[c][n] > 0
          PROVE  Begun(c)'
      BY <2>3, <1>1 DEF FollowsApproval
    <2> QED
      BY <2>1, <2>2, <2>3 DEF WorkFollowsApproval, TargetsOf
  <1>4. ApprovalCovers'
    <2>1. ASSUME NEW t \in Target, target'[t] = "pending"
          PROVE  ~Begun(CampaignOf[t])'
      <3>1. target[t] = "pending"
        BY <2>1 DEF FollowsApproval
      <3>2. ~Begun(CampaignOf[t]) /\ CampaignOf[t] \in Campaign
        BY <3>1, TargetFacts DEF ApprovalInv, ApprovalCovers
      <3> QED
        BY <3>2, <1>1
    <2> QED
      BY <2>1 DEF ApprovalCovers
  <1> QED
    BY <1>2, <1>3, <1>4 DEF ApprovalInv

\* Such a step leaves a pending target pending.
LEMMA PendingKept ==
  ASSUME ApprovalInv, FollowsApproval, NEW t \in Target, target[t] = "pending"
  PROVE  target'[t] = "pending"
  BY DEF ApprovalInv, ApprovalCovers, FollowsApproval

\* A delivery, whatever it decides, is such a step.
LEMMA TakeFollows ==
  ASSUME Typed, ApprovalInv, NEW w \in Worker, NEW t \in Target, TakeTarget(w, t)
  PROVE  FollowsApproval
  <1> DEFINE c == CampaignOf[t]
  <1>0. TypeOK /\ c \in Campaign
    BY TargetFacts DEF Typed
  <1>1. UNCHANGED <<request, publishing, poll>>
    BY DEF TakeTarget, SkipTarget, RecoverApplied, RefuseAmbiguous, FindCompliant,
           RefuseTarget, CheckTarget
  <1>2. \A d \in Campaign : (\E n \in 0 .. PollLimit : poll'[d][n] > 0) => Begun(d)
    BY <1>1 DEF ApprovalInv, WorkFollowsApproval
  <1>3. Runnable(t) => Begun(c)
    BY DEF Runnable, Begun
  <1>4. CASE SkipTarget(w, t)
    BY <1>1, <1>2, <1>4 DEF SkipTarget, FollowsApproval
  <1>5. CASE RecoverApplied(w, t)
    <2>1. Begun(c) /\ campaign' = campaign /\ target' = target
      BY <1>3, <1>5 DEF RecoverApplied
    <2>2. PICK result \in {"verified", "unaudited"} :
                 worker' = [worker EXCEPT ![w] = [pc |-> "finish", target |-> t,
                              finding |-> FindingOf[t], result |-> result]]
      BY <1>5 DEF RecoverApplied, PersistSnapshot
    <2>3. \A v \in Worker : worker'[v] = worker[v] \/ Begun(CampaignOf[worker'[v].target])
      BY <1>0, <2>1, <2>2 DEF TypeOK
    <2> QED
      BY <1>1, <1>2, <2>1, <2>3 DEF FollowsApproval
  <1>6. CASE RefuseAmbiguous(w, t)
    <2>1. Begun(c) /\ worker' = worker
      BY <1>3, <1>6 DEF RefuseAmbiguous
    <2>2. target' = [target EXCEPT ![t] = "failed"]
          /\ campaign' = [campaign EXCEPT ![c] = Rollup(c, target')]
      BY <1>6 DEF RefuseAmbiguous
    <2>3. target' \in [Target -> TargetStatus]
      BY <1>0, <2>2 DEF TypeOK, TargetStatus, Failure
    <2>4. Rollup(c, target') \notin Unapproved
      BY <1>0, <2>3, RollupResult
    <2>5. \A d \in Campaign : \/ campaign'[d] = campaign[d]
                              \/ Begun(d) /\ campaign'[d] \notin Unapproved
      BY <1>0, <2>1, <2>2, <2>4 DEF TypeOK
    <2>6. \A u \in Target : \/ target'[u] = target[u]
                            \/ Begun(CampaignOf[u]) /\ target'[u] # "pending"
      BY <1>0, <2>1, <2>2 DEF TypeOK
    <2> QED
      BY <1>1, <1>2, <2>1, <2>5, <2>6 DEF FollowsApproval
  <1>7. CASE FindCompliant(w, t) \/ RefuseTarget(w, t)
    <2>1. Begun(c) /\ worker' = worker /\ campaign' = campaign
      BY <1>3, <1>7 DEF FindCompliant, RefuseTarget, Pushable
    <2>2. \A u \in Target : \/ target'[u] = target[u]
                            \/ Begun(CampaignOf[u]) /\ target'[u] # "pending"
      BY <1>0, <1>7, <2>1 DEF TypeOK, FindCompliant, RefuseTarget
    <2> QED
      BY <1>1, <1>2, <2>1, <2>2 DEF FollowsApproval
  <1>8. CASE CheckTarget(w, t)
    <2>1. Begun(c) /\ campaign' = campaign /\ target' = target
      BY <1>3, <1>8 DEF CheckTarget, Pushable
    <2>2. worker' = [worker EXCEPT ![w] = [pc |-> "checked", target |-> t,
                                           loaded |-> campaign[c]]]
      BY <1>8 DEF CheckTarget
    <2>3. \A v \in Worker : worker'[v] = worker[v] \/ Begun(CampaignOf[worker'[v].target])
      BY <1>0, <2>1, <2>2 DEF TypeOK
    <2> QED
      BY <1>1, <1>2, <2>1, <2>3 DEF FollowsApproval
  <1> QED
    BY <1>4, <1>5, <1>6, <1>7, <1>8 DEF TakeTarget

\* The steps of a push are such steps.
LEMMA RunFollows ==
  ASSUME Typed, ApprovalInv, NEW w \in Worker, RunTarget(w)
  PROVE  FollowsApproval
  <1> DEFINE t == worker[w].target
             c == CampaignOf[t]
             KeepsTarget ==
               \A v \in Worker : \/ worker'[v] = worker[v]
                                 \/ worker'[v] = Idle
                                 \/ worker'[v].target \in Target =>
                                      Begun(CampaignOf[worker'[v].target])
  <1>0. TypeOK
    BY DEF Typed
  <1>1. UNCHANGED <<request, publishing, poll>>
    BY DEF RunTarget, LogAccess, BeginApply, MarkApplying, Push, RecordApplied,
           RecordFailed, PersistVerification, FinishTarget
  <1>2. \A d \in Campaign : (\E n \in 0 .. PollLimit : poll'[d][n] > 0) => Begun(d)
    BY <1>1 DEF ApprovalInv, WorkFollowsApproval
  <1>3. worker[w] # Idle
    BY DEF At, RunTarget, LogAccess, BeginApply, MarkApplying, Push, RecordApplied,
           RecordFailed, PersistVerification, FinishTarget
  <1>4. t \in Target => Begun(c)
    BY <1>3 DEF ApprovalInv, WorkFollowsApproval
  <1>5. ASSUME NEW p, p.target = t, worker' = [worker EXCEPT ![w] = p]
        PROVE  KeepsTarget
    BY <1>0, <1>4, <1>5 DEF TypeOK
  <1>6. CASE LogAccess(w)
    <2>1. worker[w] \in Checking /\ campaign' = campaign /\ target' = target
      BY <1>6, WorkerType DEF LogAccess
    <2>2. worker' = [worker EXCEPT ![w] = [worker[w] EXCEPT !.pc = "begin",
                                                            !.loaded = campaign[c]]]
      BY <1>0, <1>6 DEF TypeOK, LogAccess
    <2>3. KeepsTarget
      BY <2>1, <2>2, <1>5 DEF Checking
    <2> QED
      BY <1>1, <1>2, <2>1, <2>3 DEF FollowsApproval
  <1>7. CASE BeginApply(w)
    <2>1. t \in Target /\ c \in Campaign /\ Begun(c)
      BY <1>4, <1>7, WorkerType, TargetFacts DEF BeginApply
    <2>2. target' = [target EXCEPT ![t] = "applying"]
          /\ campaign' = [campaign EXCEPT ![c] = Written(worker[w].loaded, @, "executing")]
          /\ worker' = [worker EXCEPT ![w] = [pc |-> "mark", target |-> t,
                          finding |-> FindingOf[t], result |-> "none"]]
      BY <1>7 DEF BeginApply
    <2>3. KeepsTarget
      BY <2>2, <1>5
    <2>4. \A u \in Target : \/ target'[u] = target[u]
                            \/ Begun(CampaignOf[u]) /\ target'[u] # "pending"
      BY <1>0, <2>1, <2>2 DEF TypeOK
    <2>5. \A d \in Campaign : \/ campaign'[d] = campaign[d]
                              \/ Begun(d) /\ campaign'[d] \notin Unapproved
      BY <1>0, <2>1, <2>2 DEF TypeOK, Written
    <2> QED
      BY <1>1, <1>2, <2>3, <2>4, <2>5 DEF FollowsApproval
  <1>8. CASE MarkApplying(w) \/ Push(w)
    <2>1. worker[w] \in Pushing /\ campaign' = campaign /\ target' = target
      BY <1>8, WorkerType DEF MarkApplying, Push
    <2>2. \/ worker' = [worker EXCEPT ![w] = [worker[w] EXCEPT !.pc = "push"]]
          \/ \E result \in {"verified"} \cup Failure :
               worker' = [worker EXCEPT ![w] = [worker[w] EXCEPT !.pc = "record",
                                                                 !.result = result]]
      BY <1>0, <1>8 DEF TypeOK, MarkApplying, Push
    <2>3. KeepsTarget
      BY <2>1, <2>2, <1>5 DEF Pushing
    <2> QED
      BY <1>1, <1>2, <2>1, <2>3 DEF FollowsApproval
  <1>9. CASE RecordApplied(w) \/ RecordFailed(w)
    <2>1. worker[w] \in Pushing /\ campaign' = campaign /\ target' = target
      BY <1>9, WorkerType DEF RecordApplied, RecordFailed
    <2>2. \/ worker' = [worker EXCEPT ![w] = Idle]
          \/ \E pc \in {"verify", "finish"} :
               worker' = [worker EXCEPT ![w] = [worker[w] EXCEPT !.pc = pc]]
      BY <1>0, <1>9 DEF TypeOK, RecordApplied, RecordFailed, AfterAction
    <2>3. KeepsTarget
      <3>1. CASE worker' = [worker EXCEPT ![w] = Idle]
        BY <1>0, <3>1 DEF TypeOK
      <3>2. ASSUME NEW pc \in {"verify", "finish"},
                   worker' = [worker EXCEPT ![w] = [worker[w] EXCEPT !.pc = pc]]
            PROVE  KeepsTarget
        BY <2>1, <3>2, <1>5 DEF Pushing
      <3> QED
        BY <2>2, <3>1, <3>2
    <2> QED
      BY <1>1, <1>2, <2>1, <2>3 DEF FollowsApproval
  <1>10. CASE PersistVerification(w)
    <2>1. PICK result \in {"verified", "unaudited"} :
                 worker' = [worker EXCEPT ![w] = [pc |-> "finish", target |-> t,
                              finding |-> FindingOf[t], result |-> result]]
      BY <1>10 DEF PersistVerification, PersistSnapshot
    <2>2. KeepsTarget
      BY <2>1, <1>5
    <2>3. campaign' = campaign /\ target' = target
      BY <1>10 DEF PersistVerification
    <2> QED
      BY <1>1, <1>2, <2>2, <2>3 DEF FollowsApproval
  <1>11. CASE FinishTarget(w)
    <2> DEFINE result == worker[w].result
    <2>1. t \in Target /\ Begun(c)
      BY <1>4, <1>11, WorkerType DEF FinishTarget
    <2>2. target' = [target EXCEPT ![t] = Outcome(result)] /\ campaign' = campaign
          /\ worker' = [worker EXCEPT ![w] = Idle]
      BY <1>11 DEF FinishTarget
    <2>3. Outcome(result) # "pending"
      <3>1. result \in {"verified", "unaudited"} \cup Failure
        BY <1>11 DEF FinishTarget, At, Typed, Knows
      <3> QED
        BY <3>1 DEF Outcome, Failure
    <2>4. \A u \in Target : \/ target'[u] = target[u]
                            \/ Begun(CampaignOf[u]) /\ target'[u] # "pending"
      BY <1>0, <2>1, <2>2, <2>3 DEF TypeOK
    <2>5. KeepsTarget
      BY <1>0, <2>2 DEF TypeOK
    <2> QED
      BY <1>1, <1>2, <2>2, <2>4, <2>5 DEF FollowsApproval
  <1> QED
    BY <1>6, <1>7, <1>8, <1>9, <1>10, <1>11 DEF RunTarget

\* Every step of a worker is such a step.
LEMMA WorkerFollows ==
  ASSUME Typed, ApprovalInv, NEW w \in Worker, WorkerStep(w)
  PROVE  FollowsApproval
  <1>1. ASSUME NEW f \in Finding, ApplyFinding(w, f)
        PROVE  FollowsApproval
    <2>1. worker' = [worker EXCEPT ![w] = [pc |-> "push", target |-> Manual,
                       finding |-> f, result |-> "none"]]
          /\ UNCHANGED <<campaign, target, request, publishing, poll>>
      BY <1>1 DEF ApplyFinding
    <2>2. \A v \in Worker : worker'[v] = worker[v] \/ worker'[v].target \notin Target
      BY <2>1, TargetAssumption DEF Typed, TypeOK, TargetAssumption, Manual
    <2> QED
      BY <2>1, <2>2 DEF FollowsApproval, ApprovalInv, WorkFollowsApproval
  <1>2. CASE CredentialRaises(w) \/ WorkerCrash(w)
    <2>1. worker' = [worker EXCEPT ![w] = Idle]
          /\ UNCHANGED <<campaign, target, request, publishing, poll>>
      BY <1>2 DEF CredentialRaises, WorkerCrash
    <2>2. \A v \in Worker : worker'[v] = worker[v] \/ worker'[v] = Idle
      BY <2>1 DEF Typed, TypeOK
    <2> QED
      BY <2>1, <2>2 DEF FollowsApproval, ApprovalInv, WorkFollowsApproval
  <1> QED
    BY <1>1, <1>2, TakeFollows, RunFollows DEF WorkerStep

\* So is every step of a finalizer.
LEMMA FinalizerFollows ==
  ASSUME Typed, ApprovalInv, NEW c \in Campaign, Finalize(c) \/ FinalizerCrash(c)
  PROVE  FollowsApproval
  <1>0. TypeOK /\ worker' = worker /\ request' = request
    BY DEF Typed, Finalize, FinalizerCrash, PollAgain, ReadPosture, Publish
  <1>1. ASSUME NEW n \in 0 .. PollLimit, PollAgain(c, n) \/ ReadPosture(c, n)
        PROVE  Begun(c) /\ \A d \in Campaign :
                 (\E m \in 0 .. PollLimit : poll'[d][m] > 0) => Begun(d)
    <2>1. Begun(c)
      BY <1>1 DEF PollAgain, ReadPosture, TakePoll, ApprovalInv, WorkFollowsApproval
    <2>2. \A d \in Campaign \ {c} : poll'[d] = poll[d]
      BY <1>0, <1>1 DEF TypeOK, PollAgain, ReadPosture
    <2> QED
      BY <2>1, <2>2 DEF ApprovalInv, WorkFollowsApproval
  <1>2. ASSUME NEW n \in 0 .. PollLimit, PollAgain(c, n)
        PROVE  FollowsApproval
    <2>1. UNCHANGED <<campaign, target, publishing>>
      BY <1>2 DEF PollAgain
    <2> QED
      BY <1>0, <1>1, <1>2, <2>1 DEF FollowsApproval
  <1>3. ASSUME NEW n \in 0 .. PollLimit, ReadPosture(c, n)
        PROVE  FollowsApproval
    <2> DEFINE unverified == {t \in TargetsOf(c) :
                                target[t] = "verified" /\ verification[t] # "complete"}
               seen == [t \in Target |-> IF t \in unverified THEN "failed" ELSE target[t]]
    <2>1. UNCHANGED <<campaign, target>>
      BY <1>3 DEF ReadPosture
    <2>2. /\ \A d \in Campaign \ {c} : publishing'[d] = publishing[d]
          /\ publishing'[c].unverified = unverified
          /\ publishing'[c].status = Rollup(c, seen)
      BY <1>0, <1>3 DEF TypeOK, ReadPosture
    <2>3. unverified \subseteq TargetsOf(c)
      OBVIOUS
    <2>4. seen \in [Target -> TargetStatus]
      BY <1>0 DEF TypeOK, TargetStatus, Failure
    <2>5. Rollup(c, seen) \notin Unapproved
      BY <2>4, RollupResult
    <2> HIDE DEF unverified, seen
    <2> QED
      BY <1>0, <1>1, <1>3, <2>1, <2>2, <2>3, <2>5 DEF FollowsApproval
  <1>4. CASE Publish(c)
    <2> DEFINE posture == publishing[c]
    <2>1. /\ posture \in Posture /\ Begun(c)
          /\ posture.unverified \subseteq TargetsOf(c)
      BY <1>0, <1>4 DEF TypeOK, Publish, CampaignLocked, ApprovalInv, WorkFollowsApproval
    <2>2. posture.status \notin Unapproved
      BY <1>4 DEF Publish, CampaignLocked, ApprovalInv, WorkFollowsApproval
    <2>3. /\ target' = [t \in Target |->
                          IF t \in posture.unverified THEN "failed" ELSE target[t]]
          /\ campaign' = [campaign EXCEPT ![c] = posture.status]
          /\ publishing' = [publishing EXCEPT ![c] = Idle]
          /\ poll' = poll
      BY <1>4 DEF Publish
    <2>4. \A u \in Target : \/ target'[u] = target[u]
                            \/ Begun(CampaignOf[u]) /\ target'[u] # "pending"
      BY <2>1, <2>3 DEF TargetsOf
    <2>5. \A d \in Campaign : \/ campaign'[d] = campaign[d]
                              \/ Begun(d) /\ campaign'[d] \notin Unapproved
      BY <1>0, <2>1, <2>2, <2>3 DEF TypeOK
    <2>6. \A d \in Campaign : publishing'[d] = publishing[d] \/ publishing'[d] = Idle
      BY <1>0, <2>3 DEF TypeOK
    <2> QED
      BY <1>0, <2>3, <2>4, <2>5, <2>6 DEF FollowsApproval, ApprovalInv, WorkFollowsApproval
  <1>5. CASE FinalizerCrash(c)
    <2>1. publishing' = [publishing EXCEPT ![c] = Idle]
          /\ UNCHANGED <<campaign, target, poll>>
      BY <1>5 DEF FinalizerCrash
    <2>2. \A d \in Campaign : publishing'[d] = publishing[d] \/ publishing'[d] = Idle
      BY <1>0, <2>1 DEF TypeOK
    <2> QED
      BY <1>0, <2>1, <2>2 DEF FollowsApproval, ApprovalInv, WorkFollowsApproval
  <1> QED
    BY <1>2, <1>3, <1>4, <1>5 DEF Finalize

\* So are an approval by hand, a repeated delivery, an audit and a stutter.
LEMMA OtherFollows ==
  ASSUME ApprovalInv,
         \/ (\E f \in Finding : ApproveFinding(f)) \/ (\E t \in Target : Redeliver(t))
         \/ AuditStep \/ UNCHANGED vars
  PROVE  FollowsApproval
  <1>1. UNCHANGED <<campaign, target, worker, request, publishing, poll>>
    BY DEF ApproveFinding, Redeliver, AuditStep, AuditEnds, NewerPass, vars
  <1> QED
    BY <1>1 DEF FollowsApproval, ApprovalInv, WorkFollowsApproval

\* Requests that only end, or go on with their campaign, while campaigns only advance,
\* keep following the campaigns.
LEMMA RequestsKept ==
  ASSUME TypeOK, RequestsFollow, NEW r \in Request,
         \A q \in Request \ {r} : request'[q] = request[q],
         \/ request'[r] = Idle
         \/ /\ request[r] # Idle
            /\ request'[r].campaign = request[r].campaign
            /\ request'[r].pc \in {"executing", "dispatching"}
            /\ Begun(request[r].campaign)
            /\ request[r].pc # "creating",
         \A q \in Request \ {r} : request[q] # Idle =>
           LET c == request[q].campaign IN
           /\ request[q].pc = "creating" => campaign'[c] = campaign[c]
           /\ campaign[c] # "absent" => campaign'[c] # "absent"
           /\ Begun(c) => campaign'[c] \notin Unapproved,
         Begun(request[r].campaign) => campaign'[request[r].campaign] \notin Unapproved
  PROVE  RequestsFollow'
  <1>1. ASSUME NEW q \in Request \ {r}, request'[q] # Idle
        PROVE  LET c == request'[q].campaign IN
               /\ request'[q].pc = "creating" =>
                    /\ campaign'[c] = "absent"
                    /\ \A p \in Request \ {q} : request'[p] # Idle => request'[p].campaign # c
               /\ request'[q].pc = "approving" => campaign'[c] # "absent"
               /\ request'[q].pc \in {"executing", "dispatching"} =>
                    campaign'[c] \notin Unapproved
    <2> DEFINE c == request[q].campaign
    <2>1. request'[q] = request[q] /\ request[q] # Idle
      BY <1>1
    <2>2. ASSUME request[q].pc = "creating"
          PROVE  /\ campaign'[c] = "absent"
                 /\ \A p \in Request \ {q} : request'[p] # Idle => request'[p].campaign # c
      BY <2>1, <2>2 DEF RequestsFollow
    <2>3. request[q].pc = "approving" => campaign'[c] # "absent"
      BY <2>1 DEF RequestsFollow
    <2>4. request[q].pc \in {"executing", "dispatching"} =>
            campaign'[c] \notin Unapproved
      BY <2>1 DEF RequestsFollow, Begun
    <2> QED
      BY <2>1, <2>2, <2>3, <2>4
  <1>2. ASSUME request'[r] # Idle
        PROVE  /\ request'[r].pc \in {"executing", "dispatching"}
               /\ campaign'[request'[r].campaign] \notin Unapproved
    BY <1>2 DEF Begun
  <1>3. ASSUME NEW q \in Request, request'[q] # Idle
        PROVE  LET c == request'[q].campaign IN
               /\ request'[q].pc = "creating" =>
                    /\ campaign'[c] = "absent"
                    /\ \A p \in Request \ {q} : request'[p] # Idle => request'[p].campaign # c
               /\ request'[q].pc = "approving" => campaign'[c] # "absent"
               /\ request'[q].pc \in {"executing", "dispatching"} =>
                    campaign'[c] \notin Unapproved
    BY <1>1, <1>2, <1>3
  <1> QED
    BY <1>3 DEF RequestsFollow, Begun

\* The steps of the API keep the approval invariant.
LEMMA RequestApproval ==
  ASSUME Typed, ApprovalInv, NEW r \in Request,
         AcceptRequest(r) \/ ServeRequest(r) \/ DispatchStops(r)
  PROVE  ApprovalInv'
  <1>0. TypeOK /\ RequestsFollow /\ WorkFollowsApproval /\ ApprovalCovers
    BY DEF Typed, ApprovalInv
  <1>1. ASSUME NEW c \in Campaign, NEW q \in Creating \cup Serving,
               request[r] = Idle, request' = [request EXCEPT ![r] = q],
               UNCHANGED <<campaign, target, poll, worker, publishing>>,
               q.campaign = c,
               \/ /\ q.pc = "creating" /\ campaign[c] = "absent"
                  /\ \A p \in Request : request[p] # Idle => request[p].campaign # c
               \/ q.pc = "approving" /\ campaign[c] = "pending_approval"
               \/ q.pc = "executing" /\ Begun(c)
        PROVE  ApprovalInv'
    <2>1. WorkFollowsApproval' /\ ApprovalCovers'
      BY <1>0, <1>1 DEF WorkFollowsApproval, ApprovalCovers, Begun
    <2>2. request'[r] = q /\ \A p \in Request \ {r} : request'[p] = request[p]
      BY <1>0, <1>1 DEF TypeOK
    <2>3. \A p \in Request \ {r} : request[p] # Idle /\ request[p].pc = "creating" =>
            request[p].campaign # c
      BY <1>0, <1>1 DEF RequestsFollow, Begun
    <2>4. RequestsFollow'
      BY <1>0, <1>1, <2>2, <2>3 DEF RequestsFollow, Begun
    <2> QED
      BY <2>1, <2>4 DEF ApprovalInv
  <1>2. ASSUME AcceptRequest(r) PROVE ApprovalInv'
    <2>1. PICK c \in Campaign :
                 FindNoCampaign(r, c) \/ ReadForApproval(r, c) \/ ReadForExecution(r, c)
      BY <1>2 DEF AcceptRequest
    <2>2. CASE FindNoCampaign(r, c)
      <3> DEFINE q == [pc |-> "creating", campaign |-> c, seen |-> mission]
      <3>1. q \in Creating
        BY <1>0 DEF TypeOK, Creating
      <3>2. campaign[c] = "absent"
            /\ \A p \in Request : request[p] # Idle => request[p].campaign # c
        BY <2>2 DEF FindNoCampaign
      <3>3. request[r] = Idle /\ request' = [request EXCEPT ![r] = q]
            /\ UNCHANGED <<campaign, target, poll, worker, publishing>>
        BY <2>2 DEF FindNoCampaign
      <3>4. q.pc = "creating" /\ q.campaign = c
        OBVIOUS
      <3> HIDE DEF q
      <3> QED
        BY <1>1, <3>1, <3>2, <3>3, <3>4
    <2>3. CASE ReadForApproval(r, c)
      <3> DEFINE q == [pc |-> "approving", campaign |-> c, todo |-> {}]
      <3>1. q \in Serving /\ q.pc = "approving" /\ q.campaign = c
        BY DEF Serving
      <3>2. request[r] = Idle /\ request' = [request EXCEPT ![r] = q]
            /\ campaign[c] = "pending_approval"
            /\ UNCHANGED <<campaign, target, poll, worker, publishing>>
        BY <2>3 DEF ReadForApproval
      <3> HIDE DEF q
      <3> QED
        BY <1>1, <3>1, <3>2
    <2>4. CASE ReadForExecution(r, c)
      <3> DEFINE q == [pc |-> "executing", campaign |-> c, todo |-> {}]
      <3>1. q \in Serving /\ q.pc = "executing" /\ q.campaign = c
        BY DEF Serving
      <3>2. request[r] = Idle /\ request' = [request EXCEPT ![r] = q] /\ Begun(c)
            /\ UNCHANGED <<campaign, target, poll, worker, publishing>>
        BY <2>4 DEF ReadForExecution, Executable, Begun
      <3> HIDE DEF q
      <3> QED
        BY <1>1, <3>1, <3>2
    <2> QED
      BY <2>1, <2>2, <2>3, <2>4
  <1>3. CASE CreateCampaign(r)
    <2> DEFINE c == request[r].campaign
    <2>1. /\ c \in Campaign /\ campaign[c] = "absent"
          /\ \A q \in Request \ {r} : request[q] # Idle => request[q].campaign # c
      BY <1>0, <1>3, RequestType DEF CreateCampaign, RequestsFollow
    <2>2. /\ campaign' = [campaign EXCEPT ![c] = "pending_approval"]
          /\ target' = [t \in Target |-> IF t \in TargetsOf(c) THEN "pending" ELSE target[t]]
          /\ request' = [request EXCEPT ![r] = Idle]
          /\ UNCHANGED <<poll, worker, publishing>>
      BY <1>3 DEF CreateCampaign
    <2>3. /\ ~Begun(c) /\ campaign'[c] \in Unapproved
          /\ \A d \in Campaign \ {c} : campaign'[d] = campaign[d]
      BY <1>0, <2>1, <2>2 DEF TypeOK, Begun
    <2>4. \A d \in Campaign : campaign'[d] \in Unapproved <=> campaign[d] \in Unapproved
      BY <2>3 DEF Begun
    <2>5. RequestsFollow'
      <3>1. \A q \in Request \ {r} : request[q] # Idle =>
              request[q].campaign \in Campaign \ {c}
        BY <1>0, <2>1, RequestType
      <3>2. request'[r] = Idle /\ \A q \in Request \ {r} : request'[q] = request[q]
        BY <1>0, <2>2 DEF TypeOK
      <3> QED
        BY <1>0, <2>1, <2>3, <2>4, <3>1, <3>2, RequestsKept DEF Begun
    <2>6. WorkFollowsApproval'
      <3>1. \A w \in Worker : worker[w] # Idle /\ worker[w].target \in Target =>
              campaign'[CampaignOf[worker[w].target]] \notin Unapproved
        BY <1>0, <2>4, TargetFacts DEF WorkFollowsApproval, Begun
      <3> QED
        BY <1>0, <2>2, <2>4, <3>1 DEF WorkFollowsApproval, TargetsOf, Begun
    <2>7. ApprovalCovers'
      <3>1. ASSUME NEW t \in Target, target'[t] = "pending"
            PROVE  ~Begun(CampaignOf[t])'
        <4>1. CASE t \in TargetsOf(c)
          BY <2>3, <4>1 DEF TargetsOf, Begun
        <4>2. CASE t \notin TargetsOf(c)
          BY <1>0, <2>2, <2>4, <3>1, <4>2, TargetFacts DEF ApprovalCovers, Begun
        <4> QED
          BY <4>1, <4>2
      <3> QED
        BY <3>1 DEF ApprovalCovers
    <2> QED
      BY <2>5, <2>6, <2>7 DEF ApprovalInv
  <1>4. ASSUME NEW c \in Campaign, c = request[r].campaign, campaign[c] # "absent",
               NEW s \in {"approved", "executing"},
               campaign' = [campaign EXCEPT ![c] = s],
               \/ target' = target /\ Begun(c)
               \/ target' = [t \in Target |->
                               IF t \in TargetsOf(c) THEN "approved" ELSE target[t]],
               UNCHANGED <<poll, worker, publishing>>
        PROVE  /\ \A q \in Request \ {r} : request[q] # Idle =>
                    LET d == request[q].campaign IN
                    /\ request[q].pc = "creating" => campaign'[d] = campaign[d]
                    /\ campaign[d] # "absent" => campaign'[d] # "absent"
                    /\ Begun(d) => campaign'[d] \notin Unapproved
               /\ campaign'[c] \notin Unapproved
               /\ WorkFollowsApproval'
               /\ ApprovalCovers'
    <2>1. /\ campaign'[c] \notin Unapproved
          /\ \A d \in Campaign \ {c} : campaign'[d] = campaign[d]
      BY <1>0, <1>4 DEF TypeOK, Begun
    <2>2. \A d \in Campaign : Begun(d) => campaign'[d] \notin Unapproved
      BY <2>1 DEF Begun
    <2>3. ASSUME NEW q \in Request \ {r}, request[q] # Idle
          PROVE  LET d == request[q].campaign IN
                 /\ request[q].pc = "creating" => campaign'[d] = campaign[d]
                 /\ campaign[d] # "absent" => campaign'[d] # "absent"
                 /\ Begun(d) => campaign'[d] \notin Unapproved
      <3> DEFINE d == request[q].campaign
      <3>1. d \in Campaign /\ (request[q].pc = "creating" => campaign[d] = "absent")
        BY <1>0, <2>3, RequestType DEF RequestsFollow
      <3>2. CASE d = c
        BY <1>4, <2>1, <3>1, <3>2 DEF Begun
      <3>3. CASE d # c
        BY <2>1, <2>2, <3>1, <3>3
      <3> QED
        BY <3>2, <3>3
    <2>4. WorkFollowsApproval'
      <3>1. \A w \in Worker : worker[w] # Idle /\ worker[w].target \in Target =>
              campaign'[CampaignOf[worker[w].target]] \notin Unapproved
        BY <1>0, <2>2, TargetFacts DEF WorkFollowsApproval
      <3> QED
        BY <1>0, <1>4, <2>2, <3>1 DEF WorkFollowsApproval, TargetsOf, Begun
    <2>5. ApprovalCovers'
      <3>1. ASSUME NEW t \in Target, target'[t] = "pending"
            PROVE  ~Begun(CampaignOf[t])'
        <4>1. target[t] = "pending" /\ CampaignOf[t] # c
          BY <1>0, <1>4, <3>1 DEF ApprovalCovers, TargetsOf
        <4>2. ~Begun(CampaignOf[t]) /\ CampaignOf[t] \in Campaign \ {c}
          BY <1>0, <4>1, TargetFacts DEF ApprovalCovers
        <4> QED
          BY <2>1, <4>2 DEF Begun
      <3> QED
        BY <3>1 DEF ApprovalCovers
    <2> QED
      BY <2>1, <2>3, <2>4, <2>5
  <1>5. CASE ApproveCampaign(r)
    <2> DEFINE c == request[r].campaign
    <2>1. c \in Campaign /\ campaign[c] # "absent"
      BY <1>0, <1>5, RequestType DEF ApproveCampaign, RequestsFollow
    <2>2. /\ campaign' = [campaign EXCEPT ![c] = "approved"]
          /\ target' = [t \in Target |-> IF t \in TargetsOf(c) THEN "approved" ELSE target[t]]
          /\ request' = [request EXCEPT ![r] = Idle]
          /\ UNCHANGED <<poll, worker, publishing>>
      BY <1>5 DEF ApproveCampaign
    <2>3. request'[r] = Idle /\ \A q \in Request \ {r} : request'[q] = request[q]
      BY <1>0, <2>2 DEF TypeOK
    <2>4. RequestsFollow' /\ WorkFollowsApproval' /\ ApprovalCovers'
      BY <1>0, <1>4, <2>1, <2>2, <2>3, RequestsKept
    <2> QED
      BY <2>4 DEF ApprovalInv
  <1>6. CASE StartExecution(r)
    <2> DEFINE c == request[r].campaign
    <2>1. c \in Campaign /\ Begun(c) /\ campaign[c] # "absent"
          /\ request[r] \in Serving
      BY <1>0, <1>6, RequestType DEF StartExecution, RequestsFollow, Begun
    <2>2. /\ campaign' = [campaign EXCEPT ![c] = "executing"]
          /\ target' = target
          /\ request' = [request EXCEPT ![r] = [request[r] EXCEPT !.pc = "dispatching",
                                                                  !.todo = TargetsOf(c)]]
          /\ UNCHANGED <<poll, worker, publishing>>
      BY <1>0, <1>6 DEF TypeOK, StartExecution
    <2>3. /\ request'[r].campaign = c /\ request'[r].pc = "dispatching"
          /\ request[r] # Idle /\ request[r].pc # "creating"
          /\ \A q \in Request \ {r} : request'[q] = request[q]
      BY <1>0, <1>6, <2>1, <2>2 DEF TypeOK, StartExecution, Serving
    <2>4. RequestsFollow' /\ WorkFollowsApproval' /\ ApprovalCovers'
      BY <1>0, <1>4, <2>1, <2>2, <2>3, RequestsKept
    <2> QED
      BY <2>4 DEF ApprovalInv
  <1>7. ASSUME UNCHANGED <<campaign, target, worker, publishing>>,
               \A d \in Campaign : (\E n \in 0 .. PollLimit : poll'[d][n] > 0) => Begun(d),
               \A q \in Request \ {r} : request'[q] = request[q],
               \/ request'[r] = Idle
               \/ /\ request[r] # Idle
                  /\ request'[r].campaign = request[r].campaign
                  /\ request'[r].pc \in {"executing", "dispatching"}
                  /\ Begun(request[r].campaign)
                  /\ request[r].pc # "creating"
        PROVE  ApprovalInv'
    <2>1. RequestsFollow'
      BY <1>0, <1>7, RequestsKept DEF Begun
    <2>2. WorkFollowsApproval' /\ ApprovalCovers'
      BY <1>0, <1>7 DEF WorkFollowsApproval, ApprovalCovers, TargetsOf, Begun
    <2> QED
      BY <2>1, <2>2 DEF ApprovalInv
  <1>8. ASSUME NEW t \in Target, DispatchTarget(r, t)
        PROVE  ApprovalInv'
    <2>1. request[r] \in Serving /\ Begun(request[r].campaign)
      BY <1>0, <1>8, RequestType DEF DispatchTarget, RequestsFollow
    <2>2. request' = [request EXCEPT ![r] = [request[r] EXCEPT !.todo = @ \ {t}]]
          /\ UNCHANGED <<campaign, target, poll, worker, publishing>>
      BY <1>0, <1>8 DEF TypeOK, DispatchTarget
    <2>3. /\ request'[r].campaign = request[r].campaign /\ request'[r].pc = "dispatching"
          /\ request[r] # Idle /\ request[r].pc # "creating"
          /\ \A q \in Request \ {r} : request'[q] = request[q]
      BY <1>0, <1>8, <2>1, <2>2 DEF TypeOK, DispatchTarget, Serving
    <2> QED
      BY <1>0, <1>7, <2>1, <2>2, <2>3 DEF WorkFollowsApproval
  <1>9. CASE DispatchFinalizer(r) \/ DispatchStops(r)
    <2> DEFINE c == request[r].campaign
    <2>1. c \in Campaign /\ Begun(c)
      BY <1>0, <1>9, RequestType DEF DispatchFinalizer, DispatchStops, RequestsFollow
    <2>2. request' = [request EXCEPT ![r] = Idle]
          /\ UNCHANGED <<campaign, target, worker, publishing>>
      BY <1>9 DEF DispatchFinalizer, DispatchStops
    <2>3. \A d \in Campaign \ {c} : poll'[d] = poll[d]
      BY <1>0, <1>9 DEF TypeOK, DispatchFinalizer, DispatchStops
    <2>4. \A d \in Campaign : (\E n \in 0 .. PollLimit : poll'[d][n] > 0) => Begun(d)
      BY <1>0, <2>1, <2>3 DEF WorkFollowsApproval
    <2>5. request'[r] = Idle /\ \A q \in Request \ {r} : request'[q] = request[q]
      BY <1>0, <2>2 DEF TypeOK
    <2> QED
      BY <1>7, <2>2, <2>4, <2>5
  <1> QED
    BY <1>2, <1>3, <1>5, <1>6, <1>8, <1>9 DEF ServeRequest

\* A request sends a target to pending when it creates the campaign, and approves it
\* with the campaign.
LEMMA RequestPending ==
  ASSUME Typed, ApprovalInv, NEW r \in Request,
         AcceptRequest(r) \/ ServeRequest(r) \/ DispatchStops(r),
         NEW t \in Target, target[t] = "pending"
  PROVE  target'[t] \in {"pending", "approved"}
  <1>1. CASE CreateCampaign(r)
    BY <1>1 DEF CreateCampaign
  <1>2. CASE ApproveCampaign(r)
    BY <1>2 DEF ApproveCampaign
  <1>3. CASE ~CreateCampaign(r) /\ ~ApproveCampaign(r)
    <2>1. target' = target
      BY <1>3 DEF AcceptRequest, ServeRequest, DispatchStops, FindNoCampaign,
             ReadForApproval, ReadForExecution, StartExecution, DispatchTarget,
             DispatchFinalizer
    <2> QED
      BY <2>1
  <1> QED
    BY <1>1, <1>2, <1>3

\* Before any request there is nothing to follow.
LEMMA InitApproval == Init => ApprovalInv
  <1> SUFFICES ASSUME Init PROVE ApprovalInv
    OBVIOUS
  <1>1. RequestsFollow
    BY DEF Init, RequestsFollow
  <1>2. WorkFollowsApproval
    BY BoundAssumption DEF Init, WorkFollowsApproval, BoundAssumption
  <1>3. ApprovalCovers
    BY DEF Init, ApprovalCovers
  <1> QED
    BY <1>1, <1>2, <1>3 DEF ApprovalInv

\* Every step keeps the approval invariant and leaves pending what is not approved.
LEMMA NextApproval ==
  ASSUME Typed, ApprovalInv, [Next]_vars
  PROVE  /\ ApprovalInv'
         /\ \A t \in Target : target[t] = "pending" => target'[t] \in {"pending", "approved"}
  <1>1. ASSUME FollowsApproval
        PROVE  /\ ApprovalInv'
               /\ \A t \in Target : target[t] = "pending" => target'[t] \in {"pending", "approved"}
    BY <1>1, ApprovalKept, PendingKept
  <1>2. ASSUME NEW r \in Request, AcceptRequest(r) \/ ServeRequest(r) \/ DispatchStops(r)
        PROVE  /\ ApprovalInv'
               /\ \A t \in Target : target[t] = "pending" => target'[t] \in {"pending", "approved"}
    BY <1>2, RequestApproval, RequestPending
  <1>3. ASSUME NEW w \in Worker, WorkerStep(w) PROVE FollowsApproval
    BY <1>3, WorkerFollows
  <1>4. ASSUME NEW c \in Campaign, Finalize(c) \/ FinalizerCrash(c) PROVE FollowsApproval
    BY <1>4, FinalizerFollows
  <1>5. CASE \/ (\E f \in Finding : ApproveFinding(f)) \/ (\E t \in Target : Redeliver(t))
             \/ AuditStep \/ UNCHANGED vars
    BY <1>1, <1>5, OtherFollows
  <1> QED
    BY <1>1, <1>2, <1>3, <1>4, <1>5 DEF Next

\* Work follows the approval in every run.
LEMMA ApprovalAlways == Spec => [](Typed /\ ApprovalInv)
  <1>1. Init => Typed /\ ApprovalInv
    BY InitTyped, InitApproval
  <1>2. Typed /\ ApprovalInv /\ [Next]_vars => (Typed /\ ApprovalInv)'
    BY NextTyped, NextApproval
  <1> QED
    BY <1>1, <1>2, PTL DEF Spec

\* Approval before execution: no delivery, crash, duplicate, stale finalizer or manual
\* apply moves a target of a campaign that nobody approved (approve_campaign).
THEOREM PendingWaits == Spec => PendingUntilApproved
  <1>1. Typed /\ ApprovalInv /\ [Next]_vars =>
          [\A t \in Target : target[t] = "pending" => target'[t] \in {"pending", "approved"}]_vars
    BY NextApproval
  <1> QED
    BY <1>1, ApprovalAlways, PTL DEF Spec, PendingUntilApproved

-----------------------------------------------------------------------------
(* Evidence of success.                                                    *)

\* The campaign's devices were changed and read back, or passed a newer audit.
Done(c) == \A t \in TargetsOf(c) : snapshot[FindingOf[t]] \/ passed[FindingOf[t]]

\* The process is about to report success.
Claims(p) ==
  /\ p # Idle
  /\ \/ p.pc = "verify"
     \/ p.pc = "finish" /\ p.result = "verified"

\* An applied action holds its snapshot, and so does one whose process is about to
\* report success.
AppliedHasSnapshot ==
  /\ \A f \in Finding : action[f] = "applied" => snapshot[f]
  /\ \A w \in Worker : Claims(worker[w]) => snapshot[worker[w].finding]

\* A target passed over as compliant has its newer audit.
CompliantPassed ==
  \A t \in Target : target[t] = "already_compliant" => passed[FindingOf[t]]

\* A finalizer that will publish success has seen it.
PublishesDone ==
  \A c \in Campaign : publishing[c] # Idle /\ publishing[c].status = "completed" => Done(c)

EvidenceInv ==
  /\ AppliedHasSnapshot
  /\ VerifiedHasEvidence
  /\ CompliantPassed
  /\ PublishesDone
  /\ CompletedIsDone

\* What a step may do: evidence only accumulates, and whoever reports success has it.
GathersEvidence ==
  /\ \A f \in Finding : snapshot[f] => snapshot'[f]
  /\ \A f \in Finding : passed[f] => passed'[f]
  /\ \A t \in Target : verification[t] # "none" => verification'[t] # "none"
  /\ \A f \in Finding : action'[f] = "applied" => action[f] = "applied" \/ snapshot'[f]
  /\ \A w \in Worker : \/ worker'[w] = worker[w]
                       \/ Claims(worker'[w]) => snapshot'[worker'[w].finding]
  /\ \A t \in Target : target'[t] = "verified" =>
       \/ target[t] = "verified"
       \/ snapshot'[FindingOf[t]] /\ verification'[t] # "none"
  /\ \A t \in Target : target'[t] = "already_compliant" =>
       target[t] = "already_compliant" \/ passed'[FindingOf[t]]
  /\ \A c \in Campaign : \/ publishing'[c] = publishing[c]
                         \/ publishing'[c] = Idle
                         \/ publishing'[c].status = "completed" => Done(c)
  /\ \A c \in Campaign : campaign'[c] = "completed" => campaign[c] = "completed" \/ Done(c)

\* Such a step keeps the evidence invariant.
LEMMA EvidenceKept ==
  ASSUME Typed, EvidenceInv, GathersEvidence
  PROVE  EvidenceInv'
  <1>0. TypeOK
    BY DEF Typed
  <1>1. ASSUME NEW c \in Campaign, Done(c)
        PROVE  Done(c)'
    BY <1>1, TargetFacts DEF Done, GathersEvidence, TargetsOf
  <1>2. AppliedHasSnapshot'
    <2>1. ASSUME NEW f \in Finding, action'[f] = "applied"
          PROVE  snapshot'[f]
      BY <2>1 DEF EvidenceInv, AppliedHasSnapshot, GathersEvidence
    <2>2. ASSUME NEW w \in Worker, Claims(worker'[w])
          PROVE  snapshot'[worker'[w].finding]
      <3>1. CASE worker'[w] = worker[w]
        <4>1. Claims(worker[w]) /\ snapshot[worker[w].finding]
          BY <2>2, <3>1 DEF EvidenceInv, AppliedHasSnapshot
        <4>2. worker[w].finding \in Finding
          <5>1. worker[w] \in Checking \cup Pushing \cup {Idle}
            BY <1>0 DEF TypeOK
          <5> QED
            BY <4>1, <5>1 DEF Claims, Checking, Pushing
        <4> QED
          BY <3>1, <4>1, <4>2 DEF GathersEvidence
      <3>2. CASE worker'[w] # worker[w]
        BY <2>2, <3>2 DEF GathersEvidence
      <3> QED
        BY <3>1, <3>2
    <2> QED
      BY <2>1, <2>2 DEF AppliedHasSnapshot, Claims
  <1>3. VerifiedHasEvidence' /\ CompliantPassed'
    BY TargetFacts DEF EvidenceInv, VerifiedHasEvidence, CompliantPassed, GathersEvidence
  <1>4. PublishesDone'
    <2>1. ASSUME NEW c \in Campaign, publishing'[c] # Idle,
                 publishing'[c].status = "completed"
          PROVE  Done(c)
      BY <2>1 DEF EvidenceInv, PublishesDone, GathersEvidence
    <2> QED
      BY <2>1, <1>1 DEF PublishesDone
  <1>5. CompletedIsDone'
    <2>1. ASSUME NEW c \in Campaign, campaign'[c] = "completed"
          PROVE  Done(c)'
      <3>1. Done(c)
        BY <2>1 DEF EvidenceInv, CompletedIsDone, Done, GathersEvidence
      <3> QED
        BY <3>1, <1>1
    <2> QED
      BY <2>1 DEF CompletedIsDone, Done
  <1> QED
    BY <1>2, <1>3, <1>4, <1>5 DEF EvidenceInv

\* A step that changes no row with evidence or success, and no process that claims it.
LEMMA QuietGathers ==
  ASSUME UNCHANGED <<action, snapshot, passed, verification, target, campaign, publishing>>,
         \A w \in Worker : \/ worker'[w] = worker[w]
                           \/ Claims(worker'[w]) => snapshot'[worker'[w].finding]
  PROVE  GathersEvidence
  BY DEF GathersEvidence

\* A snapshot is persisted for a finding that has been applied.
LEMMA SnapshotClaims ==
  ASSUME TypeOK, NEW w \in Worker, NEW t \in Target, PersistSnapshot(w, t),
         snapshot[FindingOf[t]], snapshot' = snapshot
  PROVE  \A v \in Worker : \/ worker'[v] = worker[v]
                           \/ Claims(worker'[v]) => snapshot'[worker'[v].finding]
  <1>1. PICK result \in {"verified", "unaudited"} :
               worker' = [worker EXCEPT ![w] = [pc |-> "finish", target |-> t,
                            finding |-> FindingOf[t], result |-> result]]
    BY DEF PersistSnapshot
  <1>2. \A v \in Worker \ {w} : worker'[v] = worker[v]
    BY <1>1 DEF TypeOK
  <1>3. worker'[w].finding = FindingOf[t]
    BY <1>1 DEF TypeOK
  <1> QED
    BY <1>2, <1>3

\* A delivery claims success only from an applied action or a newer audit.
LEMMA TakeGathers ==
  ASSUME Typed, EvidenceInv, NEW w \in Worker, NEW t \in Target, TakeTarget(w, t)
  PROVE  GathersEvidence
  <1> DEFINE c == CampaignOf[t]
  <1>0. TypeOK /\ c \in Campaign /\ t \in TargetsOf(c)
    BY TargetFacts DEF Typed, TargetsOf
  <1>1. CASE SkipTarget(w, t)
    BY <1>1, QuietGathers DEF SkipTarget
  <1>2. CASE RecoverApplied(w, t)
    <2>1. snapshot[FindingOf[t]]
      BY <1>2, TargetFacts DEF RecoverApplied, IsApplied, EvidenceInv, AppliedHasSnapshot
    <2>2. \A v \in Worker : \/ worker'[v] = worker[v]
                            \/ Claims(worker'[v]) => snapshot'[worker'[v].finding]
      BY <1>0, <1>2, <2>1, SnapshotClaims DEF RecoverApplied
    <2> QED
      BY <1>2, <2>2, QuietGathers DEF RecoverApplied
  <1>3. CASE RefuseAmbiguous(w, t)
    <2>1. target' = [target EXCEPT ![t] = "failed"]
          /\ campaign' = [campaign EXCEPT ![c] = Rollup(c, target')]
          /\ UNCHANGED <<action, snapshot, passed, verification, publishing, worker>>
      BY <1>3 DEF RefuseAmbiguous
    <2>2. target' \in [Target -> TargetStatus] /\ target'[t] \notin Success
      BY <1>0, <2>1 DEF TypeOK, TargetStatus, Failure, Success
    <2>3. Rollup(c, target') # "completed"
      BY <1>0, <2>2, RollupResult
    <2>4. \A d \in Campaign : campaign'[d] = "completed" => campaign[d] = "completed"
      BY <1>0, <2>1, <2>3 DEF TypeOK
    <2>5. \A u \in Target : target'[u] = target[u] \/ target'[u] = "failed"
      BY <1>0, <2>1 DEF TypeOK
    <2> QED
      BY <2>1, <2>4, <2>5 DEF GathersEvidence
  <1>4. CASE FindCompliant(w, t)
    <2>1. target' = [target EXCEPT ![t] = "already_compliant"]
          /\ verification' = [verification EXCEPT ![t] = "complete"]
          /\ passed[FindingOf[t]]
          /\ UNCHANGED <<action, snapshot, passed, campaign, publishing, worker>>
      BY <1>4 DEF FindCompliant
    <2>2. \A u \in Target : target'[u] = target[u] \/ (u = t /\ target'[u] = "already_compliant")
      BY <1>0, <2>1 DEF TypeOK
    <2>3. \A u \in Target : verification[u] # "none" => verification'[u] # "none"
      BY <1>0, <2>1 DEF TypeOK
    <2> QED
      BY <2>1, <2>2, <2>3 DEF GathersEvidence
  <1>5. CASE RefuseTarget(w, t)
    <2>1. target' = [target EXCEPT ![t] = "failed"]
          /\ UNCHANGED <<action, snapshot, passed, verification, campaign, publishing, worker>>
      BY <1>5 DEF RefuseTarget
    <2>2. \A u \in Target : target'[u] = target[u] \/ target'[u] = "failed"
      BY <1>0, <2>1 DEF TypeOK
    <2> QED
      BY <2>1, <2>2 DEF GathersEvidence
  <1>6. CASE CheckTarget(w, t)
    <2>1. worker' = [worker EXCEPT ![w] = [pc |-> "checked", target |-> t,
                                           loaded |-> campaign[c]]]
      BY <1>6 DEF CheckTarget
    <2>2. \A v \in Worker : worker'[v] = worker[v] \/ ~Claims(worker'[v])
      BY <1>0, <2>1 DEF TypeOK, Claims
    <2> QED
      BY <1>6, <2>2, QuietGathers DEF CheckTarget
  <1> QED
    BY <1>1, <1>2, <1>3, <1>4, <1>5, <1>6 DEF TakeTarget

\* A push claims success only after its action and snapshot are recorded.
LEMMA RunGathers ==
  ASSUME Typed, EvidenceInv, NEW w \in Worker, RunTarget(w)
  PROVE  GathersEvidence
  <1> DEFINE t == worker[w].target
             f == worker[w].finding
             c == CampaignOf[t]
             Honest == \A v \in Worker : \/ worker'[v] = worker[v]
                                         \/ Claims(worker'[v]) => snapshot'[worker'[v].finding]
  <1>0. TypeOK
    BY DEF Typed
  <1>1. ASSUME NEW p, ~Claims(p), worker' = [worker EXCEPT ![w] = p]
        PROVE  Honest
    BY <1>0, <1>1 DEF TypeOK
  <1>2. ~Claims(Idle)
    BY DEF Claims
  <1>3. CASE LogAccess(w)
    <2> DEFINE p == [worker[w] EXCEPT !.pc = "begin", !.loaded = campaign[c]]
    <2>1. worker[w] \in Checking
      BY <1>3, WorkerType DEF LogAccess
    <2>2. ~Claims(p)
      BY <2>1 DEF Checking, Claims
    <2>3. worker' = [worker EXCEPT ![w] = p]
      BY <1>0, <1>3 DEF TypeOK, LogAccess
    <2> HIDE DEF p
    <2>4. Honest
      BY <1>1, <2>2, <2>3
    <2> QED
      BY <1>3, <2>4, QuietGathers DEF LogAccess
  <1>4. CASE BeginApply(w)
    <2> DEFINE p == [pc |-> "mark", target |-> t, finding |-> FindingOf[t],
                     result |-> "none"]
    <2>1. ~Claims(p)
      BY DEF Claims
    <2>2. target' = [target EXCEPT ![t] = "applying"]
          /\ campaign' = [campaign EXCEPT ![c] = Written(worker[w].loaded, @, "executing")]
          /\ worker' = [worker EXCEPT ![w] = p]
          /\ UNCHANGED <<action, snapshot, passed, verification, publishing>>
      BY <1>4 DEF BeginApply
    <2> HIDE DEF p
    <2>3. Honest
      BY <1>1, <2>1, <2>2
    <2>4. \A u \in Target : target'[u] = target[u] \/ target'[u] = "applying"
      BY <1>0, <2>2 DEF TypeOK
    <2>5. \A d \in Campaign : campaign'[d] = campaign[d] \/ campaign'[d] = "executing"
      BY <1>0, <2>2 DEF TypeOK, Written
    <2> QED
      BY <2>2, <2>3, <2>4, <2>5 DEF GathersEvidence
  <1>5. CASE MarkApplying(w)
    <2> DEFINE p == [worker[w] EXCEPT !.pc = "push"]
    <2>1. worker[w] \in Pushing
      BY <1>5, WorkerType DEF MarkApplying
    <2>2. ~Claims(p)
      BY <2>1 DEF Pushing, Claims
    <2>3. worker' = [worker EXCEPT ![w] = p]
          /\ action' = [action EXCEPT ![f] = "applying"]
          /\ UNCHANGED <<snapshot, passed, verification, target, campaign, publishing>>
      BY <1>0, <1>5 DEF TypeOK, MarkApplying
    <2> HIDE DEF p
    <2>4. Honest
      BY <1>1, <2>2, <2>3
    <2>5. \A g \in Finding : action'[g] = action[g] \/ action'[g] = "applying"
      BY <1>0, <2>3 DEF TypeOK
    <2> QED
      BY <2>3, <2>4, <2>5 DEF GathersEvidence
  <1>6. CASE Push(w)
    <2>1. PICK result \in {"verified"} \cup Failure :
                 worker' = [worker EXCEPT ![w].pc = "record", ![w].result = result]
      BY <1>6 DEF Push
    <2> DEFINE p == [worker[w] EXCEPT !.pc = "record", !.result = result]
    <2>2. worker[w] \in Pushing
      BY <1>6, WorkerType DEF Push
    <2>3. ~Claims(p)
      BY <2>2 DEF Pushing, Claims
    <2>4. worker' = [worker EXCEPT ![w] = p]
      BY <1>0, <2>1 DEF TypeOK
    <2> HIDE DEF p
    <2>5. Honest
      BY <1>1, <2>3, <2>4
    <2> QED
      BY <1>6, <2>5, QuietGathers DEF Push
  <1>7. CASE RecordApplied(w)
    <2>1. worker[w] \in Pushing /\ f \in Finding
      BY <1>7, WorkerType DEF RecordApplied
    <2>2. action' = [action EXCEPT ![f] = "applied"]
          /\ snapshot' = [snapshot EXCEPT ![f] = TRUE]
          /\ UNCHANGED <<passed, verification, target, campaign, publishing>>
      BY <1>7 DEF RecordApplied
    <2>3. snapshot'[f] /\ \A g \in Finding : snapshot[g] => snapshot'[g]
      BY <1>0, <2>1, <2>2 DEF TypeOK
    <2>4. \A g \in Finding : action'[g] = action[g] \/ g = f
      BY <1>0, <2>2 DEF TypeOK
    <2>5. Honest
      <3>1. CASE worker' = [worker EXCEPT ![w] = Idle]
        BY <1>1, <1>2, <3>1
      <3>2. CASE worker' = [worker EXCEPT ![w] = [worker[w] EXCEPT !.pc = "verify"]]
        <4>1. worker'[w].finding = f
          BY <1>0, <2>1, <3>2 DEF TypeOK, Pushing
        <4>2. \A v \in Worker \ {w} : worker'[v] = worker[v]
          BY <1>0, <3>2 DEF TypeOK
        <4> QED
          BY <2>3, <4>1, <4>2
      <3>3. \/ worker' = [worker EXCEPT ![w] = Idle]
            \/ worker' = [worker EXCEPT ![w] = [worker[w] EXCEPT !.pc = "verify"]]
        BY <1>0, <1>7 DEF TypeOK, RecordApplied, AfterAction
      <3> QED
        BY <3>1, <3>2, <3>3
    <2> QED
      BY <2>2, <2>3, <2>4, <2>5 DEF GathersEvidence
  <1>8. CASE RecordFailed(w)
    <2>1. worker[w] \in Pushing /\ worker[w].result # "verified"
      BY <1>8, WorkerType DEF RecordFailed
    <2>2. action' = [action EXCEPT ![f] = "failed"]
          /\ UNCHANGED <<snapshot, passed, verification, target, campaign, publishing>>
      BY <1>8 DEF RecordFailed
    <2>3. \A g \in Finding : action'[g] = action[g] \/ action'[g] = "failed"
      BY <1>0, <2>2 DEF TypeOK
    <2>4. ~Claims([worker[w] EXCEPT !.pc = "finish"])
      BY <2>1 DEF Pushing, Claims
    <2>5. \/ worker' = [worker EXCEPT ![w] = Idle]
          \/ worker' = [worker EXCEPT ![w] = [worker[w] EXCEPT !.pc = "finish"]]
      BY <1>0, <1>8 DEF TypeOK, RecordFailed, AfterAction
    <2>6. Honest
      BY <1>1, <1>2, <2>4, <2>5
    <2> QED
      BY <2>2, <2>3, <2>6 DEF GathersEvidence
  <1>9. CASE PersistVerification(w)
    <2>1. t \in Target /\ f = FindingOf[t]
      BY <1>9, WorkerType DEF PersistVerification
    <2>2. snapshot[FindingOf[t]]
      <3>1. Claims(worker[w])
        BY <1>9 DEF PersistVerification, At, Claims
      <3>2. snapshot[f]
        BY <3>1 DEF EvidenceInv, AppliedHasSnapshot
      <3> QED
        BY <2>1, <3>2
    <2>3. Honest
      BY <1>0, <1>9, <2>1, <2>2, SnapshotClaims DEF PersistVerification
    <2> QED
      BY <1>9, <2>3, QuietGathers DEF PersistVerification
  <1>10. CASE FinishTarget(w)
    <2> DEFINE result == worker[w].result
    <2>1. t \in Target /\ f = FindingOf[t]
      BY <1>10, WorkerType DEF FinishTarget
    <2>2. ASSUME result = "verified"
          PROVE  snapshot[FindingOf[t]]
      <3>1. Claims(worker[w])
        BY <1>10, <2>2 DEF FinishTarget, At, Claims
      <3>2. snapshot[f]
        BY <3>1 DEF EvidenceInv, AppliedHasSnapshot
      <3> QED
        BY <2>1, <3>2
    <2>3. result \in {"verified", "unaudited"} \cup Failure
      BY <1>10 DEF FinishTarget, At, Typed, Knows
    <2>4. /\ Outcome(result) = "verified" => result = "verified"
          /\ Outcome(result) # "already_compliant"
      BY <2>3 DEF Outcome, Failure
    <2>5. target' = [target EXCEPT ![t] = Outcome(result)]
          /\ verification' = [verification EXCEPT
               ![t] = CASE result = "verified" -> "running"
                        [] result = "unaudited" -> "incomplete"
                        [] OTHER -> @]
          /\ worker' = [worker EXCEPT ![w] = Idle]
          /\ UNCHANGED <<action, snapshot, passed, campaign, publishing>>
      BY <1>10 DEF FinishTarget
    <2>6. Honest
      BY <1>1, <1>2, <2>5
    <2>7. \A u \in Target \ {t} : target'[u] = target[u] /\ verification'[u] = verification[u]
      BY <1>0, <2>5 DEF TypeOK
    <2>8. /\ result = "verified" => verification'[t] = "running"
          /\ verification[t] # "none" => verification'[t] # "none"
          /\ target'[t] = Outcome(result)
      BY <1>0, <2>1, <2>5 DEF TypeOK
    <2> HIDE DEF result
    <2> QED
      BY <2>1, <2>2, <2>4, <2>5, <2>6, <2>7, <2>8 DEF GathersEvidence
  <1> QED
    BY <1>3, <1>4, <1>5, <1>6, <1>7, <1>8, <1>9, <1>10 DEF RunTarget

\* Neither does any other step of a worker.
LEMMA WorkerGathers ==
  ASSUME Typed, EvidenceInv, NEW w \in Worker, WorkerStep(w)
  PROVE  GathersEvidence
  <1>0. TypeOK
    BY DEF Typed
  <1>1. ASSUME NEW f \in Finding, ApplyFinding(w, f)
        PROVE  GathersEvidence
    <2>1. worker' = [worker EXCEPT ![w] = [pc |-> "push", target |-> Manual,
                       finding |-> f, result |-> "none"]]
          /\ action' = [action EXCEPT ![f] = "applying"]
          /\ UNCHANGED <<snapshot, passed, verification, target, campaign, publishing>>
      BY <1>1 DEF ApplyFinding
    <2>2. \A v \in Worker : worker'[v] = worker[v] \/ ~Claims(worker'[v])
      BY <1>0, <2>1 DEF TypeOK, Claims
    <2>3. \A g \in Finding : action'[g] = action[g] \/ action'[g] = "applying"
      BY <1>0, <2>1 DEF TypeOK
    <2> QED
      BY <2>1, <2>2, <2>3 DEF GathersEvidence
  <1>2. CASE CredentialRaises(w) \/ WorkerCrash(w)
    <2>1. worker' = [worker EXCEPT ![w] = Idle]
          /\ UNCHANGED <<action, snapshot, passed, verification, target, campaign, publishing>>
      BY <1>2 DEF CredentialRaises, WorkerCrash
    <2>2. \A v \in Worker : worker'[v] = worker[v] \/ ~Claims(worker'[v])
      BY <1>0, <2>1 DEF TypeOK, Claims
    <2> QED
      BY <2>1, <2>2, QuietGathers
  <1> QED
    BY <1>1, <1>2, TakeGathers, RunGathers DEF WorkerStep

\* A finalizer publishes success only if it read success for every target.
LEMMA FinalizerGathers ==
  ASSUME Typed, EvidenceInv, NEW c \in Campaign, Finalize(c) \/ FinalizerCrash(c)
  PROVE  GathersEvidence
  <1>0. TypeOK /\ UNCHANGED <<worker, action, snapshot, passed, verification>>
    BY DEF Typed, Finalize, FinalizerCrash, PollAgain, ReadPosture, Publish
  <1>1. ASSUME NEW n \in 0 .. PollLimit, PollAgain(c, n)
        PROVE  GathersEvidence
    BY <1>0, <1>1, QuietGathers DEF PollAgain
  <1>2. ASSUME NEW n \in 0 .. PollLimit, ReadPosture(c, n)
        PROVE  GathersEvidence
    <2> DEFINE unverified == {t \in TargetsOf(c) :
                                target[t] = "verified" /\ verification[t] # "complete"}
               seen == [t \in Target |-> IF t \in unverified THEN "failed" ELSE target[t]]
    <2>1. UNCHANGED <<target, campaign>>
      BY <1>2 DEF ReadPosture
    <2>2. /\ \A d \in Campaign \ {c} : publishing'[d] = publishing[d]
          /\ publishing'[c].status = Rollup(c, seen)
      BY <1>0, <1>2 DEF TypeOK, ReadPosture
    <2>3. seen \in [Target -> TargetStatus]
      BY <1>0 DEF TypeOK, TargetStatus, Failure
    <2>4. ASSUME Rollup(c, seen) = "completed"
          PROVE  Done(c)
      <3>1. ASSUME NEW t \in TargetsOf(c)
            PROVE  snapshot[FindingOf[t]] \/ passed[FindingOf[t]]
        <4>1. t \in Target /\ seen[t] \in Success
          BY <2>3, <2>4, CampaignFacts, RollupResult
        <4>2. target[t] \in Success
          BY <4>1 DEF Success
        <4> QED
          BY <4>1, <4>2 DEF Success, EvidenceInv, VerifiedHasEvidence, CompliantPassed
      <3> QED
        BY <3>1 DEF Done
    <2> HIDE DEF seen
    <2> QED
      BY <1>0, <2>1, <2>2, <2>4 DEF GathersEvidence
  <1>3. CASE Publish(c)
    <2> DEFINE posture == publishing[c]
    <2>1. /\ target' = [t \in Target |->
                          IF t \in posture.unverified THEN "failed" ELSE target[t]]
          /\ campaign' = [campaign EXCEPT ![c] = posture.status]
          /\ publishing' = [publishing EXCEPT ![c] = Idle]
          /\ posture # Idle
      BY <1>3 DEF Publish, CampaignLocked
    <2>2. posture.status = "completed" => Done(c)
      BY <2>1 DEF EvidenceInv, PublishesDone
    <2>3. \A t \in Target : target'[t] = target[t] \/ target'[t] = "failed"
      BY <2>1
    <2>4. /\ \A d \in Campaign \ {c} : campaign'[d] = campaign[d]
          /\ campaign'[c] = posture.status
          /\ \A d \in Campaign : publishing'[d] = publishing[d] \/ publishing'[d] = Idle
      BY <1>0, <2>1 DEF TypeOK
    <2> QED
      BY <1>0, <2>2, <2>3, <2>4 DEF GathersEvidence
  <1>4. CASE FinalizerCrash(c)
    <2>1. publishing' = [publishing EXCEPT ![c] = Idle] /\ UNCHANGED <<target, campaign>>
      BY <1>4 DEF FinalizerCrash
    <2>2. \A d \in Campaign : publishing'[d] = publishing[d] \/ publishing'[d] = Idle
      BY <1>0, <2>1 DEF TypeOK
    <2> QED
      BY <1>0, <2>1, <2>2 DEF GathersEvidence
  <1> QED
    BY <1>1, <1>2, <1>3, <1>4 DEF Finalize

\* A request never claims success.
LEMMA RequestGathers ==
  ASSUME Typed, EvidenceInv, NEW r \in Request,
         AcceptRequest(r) \/ ServeRequest(r) \/ DispatchStops(r)
  PROVE  GathersEvidence
  <1>0. TypeOK /\ UNCHANGED <<worker, snapshot, passed, verification, publishing>>
    BY DEF Typed, AcceptRequest, ServeRequest, DispatchStops, FindNoCampaign,
           ReadForApproval, ReadForExecution, CreateCampaign, ApproveCampaign,
           StartExecution, DispatchTarget, DispatchFinalizer
  <1>1. \A d \in Campaign : campaign'[d] = campaign[d] \/ campaign'[d] # "completed"
    BY <1>0 DEF TypeOK, AcceptRequest, ServeRequest, DispatchStops, FindNoCampaign,
           ReadForApproval, ReadForExecution, CreateCampaign, ApproveCampaign,
           StartExecution, DispatchTarget, DispatchFinalizer
  <1>2. \A t \in Target : target'[t] = target[t] \/ target'[t] \in {"pending", "approved"}
    BY <1>0 DEF TypeOK, AcceptRequest, ServeRequest, DispatchStops, FindNoCampaign,
           ReadForApproval, ReadForExecution, CreateCampaign, ApproveCampaign,
           StartExecution, DispatchTarget, DispatchFinalizer
  <1>3. \A f \in Finding : action'[f] = action[f] \/ action'[f] = "approved"
    <2>1. CASE ApproveCampaign(r)
      BY <2>1 DEF ApproveCampaign, Approved
    <2>2. CASE ~ApproveCampaign(r)
      <3>1. action' = action
        BY <2>2 DEF AcceptRequest, ServeRequest, DispatchStops, FindNoCampaign,
               ReadForApproval, ReadForExecution, CreateCampaign, StartExecution,
               DispatchTarget, DispatchFinalizer
      <3> QED
        BY <3>1
    <2> QED
      BY <2>1, <2>2
  <1> QED
    BY <1>0, <1>1, <1>2, <1>3 DEF GathersEvidence

\* The other steps only let audits pass and approve again what is not applied.
LEMMA OtherGathers ==
  ASSUME Typed, EvidenceInv,
         \/ (\E f \in Finding : ApproveFinding(f)) \/ (\E t \in Target : Redeliver(t))
         \/ AuditStep \/ UNCHANGED vars
  PROVE  GathersEvidence
  <1>0. TypeOK
    BY DEF Typed
  <1>1. ASSUME NEW f \in Finding, ApproveFinding(f)
        PROVE  GathersEvidence
    <2>1. \A g \in Finding : action'[g] = action[g] \/ action'[g] = "approved"
      BY <1>1 DEF ApproveFinding, Approved
    <2> QED
      BY <1>1, <2>1 DEF ApproveFinding, GathersEvidence
  <1>2. ASSUME NEW t \in Target, Redeliver(t)
        PROVE  GathersEvidence
    BY <1>2, QuietGathers DEF Redeliver
  <1>3. ASSUME NEW t \in Target, AuditEnds(t)
        PROVE  GathersEvidence
    <2>1. \A u \in Target : verification'[u] = verification[u] \/ verification'[u] # "none"
      BY <1>0, <1>3 DEF TypeOK, AuditEnds
    <2> QED
      BY <1>3, <2>1 DEF AuditEnds, GathersEvidence
  <1>4. ASSUME NEW f \in Finding, NewerPass(f)
        PROVE  GathersEvidence
    <2>1. \A g \in Finding : passed[g] => passed'[g]
      BY <1>0, <1>4 DEF TypeOK, NewerPass
    <2> QED
      BY <1>4, <2>1 DEF NewerPass, GathersEvidence
  <1>5. CASE UNCHANGED vars
    BY <1>5, QuietGathers DEF vars
  <1> QED
    BY <1>1, <1>2, <1>3, <1>4, <1>5 DEF AuditStep

\* Every step keeps the evidence invariant.
LEMMA NextEvidence ==
  ASSUME Typed, EvidenceInv, [Next]_vars
  PROVE  EvidenceInv'
  <1>1. ASSUME NEW r \in Request, AcceptRequest(r) \/ ServeRequest(r) \/ DispatchStops(r)
        PROVE  GathersEvidence
    BY <1>1, RequestGathers
  <1>2. ASSUME NEW w \in Worker, WorkerStep(w) PROVE GathersEvidence
    BY <1>2, WorkerGathers
  <1>3. ASSUME NEW c \in Campaign, Finalize(c) \/ FinalizerCrash(c) PROVE GathersEvidence
    BY <1>3, FinalizerGathers
  <1>4. ASSUME \/ (\E f \in Finding : ApproveFinding(f)) \/ (\E t \in Target : Redeliver(t))
               \/ AuditStep \/ UNCHANGED vars
        PROVE  GathersEvidence
    BY <1>4, OtherGathers
  <1>5. GathersEvidence
    BY <1>1, <1>2, <1>3, <1>4 DEF Next
  <1> QED
    BY <1>5, EvidenceKept

\* Nothing has succeeded yet.
LEMMA InitEvidence == Init => EvidenceInv
  <1> SUFFICES ASSUME Init PROVE EvidenceInv
    OBVIOUS
  <1>1. AppliedHasSnapshot
    BY DEF Init, AppliedHasSnapshot, Claims
  <1>2. VerifiedHasEvidence /\ CompliantPassed
    BY DEF Init, VerifiedHasEvidence, CompliantPassed
  <1>3. PublishesDone /\ CompletedIsDone
    BY DEF Init, PublishesDone, CompletedIsDone
  <1> QED
    BY <1>1, <1>2, <1>3 DEF EvidenceInv

\* Whoever reports success has the evidence, in every run.
LEMMA EvidenceAlways == Spec => []EvidenceInv
  <1>1. Init => Typed /\ EvidenceInv
    BY InitTyped, InitEvidence
  <1>2. Typed /\ EvidenceInv /\ [Next]_vars => (Typed /\ EvidenceInv)'
    BY NextTyped, NextEvidence
  <1> QED
    BY <1>1, <1>2, PTL DEF Spec

\* A verified target's action holds the snapshot read back after the change, also when
\* campaigns share the action, deliveries repeat and workers crash
\* (execute_campaign_target, execute_approved_action).
THEOREM Verified == Spec => []VerifiedHasEvidence
  <1>1. EvidenceInv => VerifiedHasEvidence
    BY DEF EvidenceInv
  <1> QED
    BY <1>1, EvidenceAlways, PTL

\* A campaign is published as completed only with evidence for every device, although
\* the finalizer writes what it read earlier (finalize_remediation_campaign).
THEOREM Completed == Spec => []CompletedIsDone
  <1>1. EvidenceInv => CompletedIsDone
    BY DEF EvidenceInv
  <1> QED
    BY <1>1, EvidenceAlways, PTL

-----------------------------------------------------------------------------
(* RemediationCampaign implements CampaignPromise.                         *)

\* The finding whose commands a process pushes, or is about to push.
Pushes(p) == IF p.pc \in {"checked", "begin"} THEN FindingOf[p.target] ELSE p.finding

\* Nobody pushes what was never approved, and no finalizer's verdict is an approval.
ConsentInv ==
  /\ \A w \in Worker : worker[w] # Idle => action[Pushes(worker[w])] # "none"
  /\ \A c \in Campaign : publishing[c] # Idle => publishing[c].status # "approved"

\* What a step may do: never forget an action, and take up pushes of approved findings.
KeepsConsent ==
  /\ \A f \in Finding : action[f] # "none" => action'[f] # "none"
  /\ \A w \in Worker : \/ worker'[w] = worker[w]
                       \/ worker'[w] = Idle
                       \/ worker[w] # Idle /\ Pushes(worker'[w]) = Pushes(worker[w])
                       \/ action'[Pushes(worker'[w])] # "none"
  /\ \A c \in Campaign : \/ publishing'[c] = publishing[c]
                         \/ publishing'[c] = Idle
                         \/ publishing'[c].status # "approved"

\* A process at work pushes some finding.
LEMMA PushesFinding ==
  ASSUME Typed, NEW w \in Worker, worker[w] # Idle
  PROVE  Pushes(worker[w]) \in Finding
  <1>1. worker[w] \in Checking \cup Pushing
    BY DEF Typed, TypeOK
  <1> QED
    BY <1>1, TargetFacts DEF Checking, Pushing, Pushes

\* Such a step keeps the consent invariant.
LEMMA ConsentKept ==
  ASSUME Typed, ConsentInv, KeepsConsent
  PROVE  ConsentInv'
  <1>1. ASSUME NEW w \in Worker, worker'[w] # Idle
        PROVE  action'[Pushes(worker'[w])] # "none"
    <2>1. worker[w] # Idle => action'[Pushes(worker[w])] # "none"
      BY PushesFinding DEF ConsentInv, KeepsConsent
    <2> QED
      BY <1>1, <2>1 DEF KeepsConsent
  <1>2. ASSUME NEW c \in Campaign, publishing'[c] # Idle
        PROVE  publishing'[c].status # "approved"
    BY <1>2 DEF ConsentInv, KeepsConsent
  <1> QED
    BY <1>1, <1>2 DEF ConsentInv, Pushes

\* A process goes on with the finding it pushes, or stops.
LEMMA MoveKeepsConsent ==
  ASSUME Typed, ConsentInv, NEW w \in Worker, worker[w] # Idle, NEW p,
         worker' = [worker EXCEPT ![w] = p],
         p = Idle \/ Pushes(p) = Pushes(worker[w]),
         publishing' = publishing,
         \A f \in Finding : action[f] # "none" => action'[f] # "none"
  PROVE  KeepsConsent
  <1>1. worker'[w] = p /\ \A v \in Worker \ {w} : worker'[v] = worker[v]
    BY DEF Typed, TypeOK
  <1> QED
    BY <1>1 DEF KeepsConsent

\* A delivery only takes up a finding that has an action.
LEMMA TakeConsent ==
  ASSUME Typed, ConsentInv, NEW w \in Worker, NEW t \in Target, TakeTarget(w, t)
  PROVE  KeepsConsent
  <1>0. TypeOK /\ UNCHANGED <<action, publishing>>
    BY DEF Typed, TakeTarget, SkipTarget, RecoverApplied, RefuseAmbiguous, FindCompliant,
           RefuseTarget, CheckTarget
  <1>1. CASE RecoverApplied(w, t)
    <2>1. PICK result \in {"verified", "unaudited"} :
                 worker' = [worker EXCEPT ![w] = [pc |-> "finish", target |-> t,
                              finding |-> FindingOf[t], result |-> result]]
      BY <1>1 DEF RecoverApplied, PersistSnapshot
    <2>2. action[FindingOf[t]] # "none"
      BY <1>1 DEF RecoverApplied, IsApplied
    <2>3. /\ \A v \in Worker \ {w} : worker'[v] = worker[v]
          /\ Pushes(worker'[w]) = FindingOf[t]
      BY <1>0, <2>1 DEF TypeOK, Pushes
    <2> QED
      BY <1>0, <2>2, <2>3 DEF KeepsConsent
  <1>2. CASE CheckTarget(w, t)
    <2>1. /\ worker' = [worker EXCEPT ![w] = [pc |-> "checked", target |-> t,
                          loaded |-> campaign[CampaignOf[t]]]]
          /\ action[FindingOf[t]] # "none"
      BY <1>2 DEF CheckTarget, Pushable
    <2>2. /\ \A v \in Worker \ {w} : worker'[v] = worker[v]
          /\ Pushes(worker'[w]) = FindingOf[t]
      BY <1>0, <2>1 DEF TypeOK, Pushes
    <2> QED
      BY <1>0, <2>1, <2>2 DEF KeepsConsent
  <1>3. CASE \/ SkipTarget(w, t) \/ RefuseAmbiguous(w, t) \/ FindCompliant(w, t)
             \/ RefuseTarget(w, t)
    <2>1. worker' = worker
      BY <1>3 DEF SkipTarget, RefuseAmbiguous, FindCompliant, RefuseTarget
    <2> QED
      BY <1>0, <2>1 DEF KeepsConsent
  <1> QED
    BY <1>1, <1>2, <1>3 DEF TakeTarget

\* A push stays with its finding.
LEMMA RunConsent ==
  ASSUME Typed, ConsentInv, NEW w \in Worker, RunTarget(w)
  PROVE  KeepsConsent
  <1> DEFINE t == worker[w].target
             f == worker[w].finding
  <1>0. /\ TypeOK
        /\ publishing' = publishing
        /\ worker[w] # Idle
    BY DEF Typed, At, RunTarget, LogAccess, BeginApply, MarkApplying, Push,
           RecordApplied, RecordFailed, PersistVerification, FinishTarget
  <1>1. \A g \in Finding : action[g] # "none" => action'[g] # "none"
    BY <1>0 DEF TypeOK, RunTarget, LogAccess, BeginApply, MarkApplying, Push,
           RecordApplied, RecordFailed, PersistVerification, FinishTarget
  <1>2. CASE LogAccess(w)
    <2> DEFINE p == [worker[w] EXCEPT !.pc = "begin", !.loaded = campaign[CampaignOf[t]]]
    <2>1. worker[w] \in Checking /\ worker[w].pc = "checked"
      BY <1>2, WorkerType DEF LogAccess, At
    <2>2. Pushes(p) = Pushes(worker[w])
      BY <2>1 DEF Checking, Pushes
    <2>3. worker' = [worker EXCEPT ![w] = p]
      BY <1>0, <1>2 DEF TypeOK, LogAccess
    <2> HIDE DEF p
    <2> QED
      BY <1>0, <1>1, <2>2, <2>3, MoveKeepsConsent
  <1>3. CASE BeginApply(w)
    <2>1. /\ worker' = [worker EXCEPT ![w] = [pc |-> "mark", target |-> t,
                          finding |-> FindingOf[t], result |-> "none"]]
          /\ worker[w].pc = "begin"
      BY <1>3 DEF BeginApply, At
    <2>2. Pushes([pc |-> "mark", target |-> t, finding |-> FindingOf[t],
                  result |-> "none"]) = Pushes(worker[w])
      BY <2>1 DEF Pushes
    <2> QED
      BY <1>0, <1>1, <2>1, <2>2, MoveKeepsConsent
  <1>4. ASSUME NEW pc \in {"push", "record", "verify", "finish"},
               NEW result \in Result, worker[w] \in Pushing,
               worker' = [worker EXCEPT ![w] = [worker[w] EXCEPT !.pc = pc, !.result = result]]
        PROVE  KeepsConsent
    <2> DEFINE p == [worker[w] EXCEPT !.pc = pc, !.result = result]
    <2>1. Pushes(p) = Pushes(worker[w])
      BY <1>4 DEF Pushing, Pushes
    <2> HIDE DEF p
    <2> QED
      BY <1>0, <1>1, <1>4, <2>1, MoveKeepsConsent DEF p
  <1>5. CASE MarkApplying(w)
    <2>1. /\ worker[w] \in Pushing /\ worker[w].result \in Result
          /\ worker' = [worker EXCEPT ![w] = [worker[w] EXCEPT !.pc = "push"]]
      BY <1>0, <1>5, WorkerType DEF TypeOK, MarkApplying, Pushing
    <2>2. [worker[w] EXCEPT !.pc = "push"]
            = [worker[w] EXCEPT !.pc = "push", !.result = worker[w].result]
      BY <2>1 DEF Pushing
    <2> QED
      BY <1>4, <2>1, <2>2
  <1>6. CASE Push(w)
    <2>1. PICK result \in {"verified"} \cup Failure :
            worker' = [worker EXCEPT ![w].pc = "record", ![w].result = result]
      BY <1>6 DEF Push
    <2>2. worker' = [worker EXCEPT ![w] =
                       [worker[w] EXCEPT !.pc = "record", !.result = result]]
      BY <1>0, <2>1 DEF TypeOK
    <2>3. worker[w] \in Pushing /\ result \in Result
      BY <1>6, WorkerType DEF Push, Result, Failure
    <2> QED
      BY <1>4, <2>2, <2>3
  <1>7. ASSUME NEW pc \in {"verify", "finish"}, At(w, "record"), AfterAction(w, pc)
        PROVE  KeepsConsent
    <2>1. CASE t = Manual
      BY <1>0, <1>1, <1>7, <2>1, MoveKeepsConsent DEF AfterAction
    <2>2. CASE t # Manual
      <3>1. /\ worker[w] \in Pushing /\ worker[w].result \in Result
            /\ worker' = [worker EXCEPT ![w] = [worker[w] EXCEPT !.pc = pc]]
        BY <1>0, <1>7, <2>2, WorkerType DEF TypeOK, AfterAction, Pushing
      <3>2. [worker[w] EXCEPT !.pc = pc]
              = [worker[w] EXCEPT !.pc = pc, !.result = worker[w].result]
        BY <3>1 DEF Pushing
      <3> QED
        BY <1>4, <3>1, <3>2
    <2> QED
      BY <2>1, <2>2
  <1>8. CASE PersistVerification(w)
    <2>1. PICK result \in {"verified", "unaudited"} :
                 worker' = [worker EXCEPT ![w] = [pc |-> "finish", target |-> t,
                              finding |-> FindingOf[t], result |-> result]]
      BY <1>8 DEF PersistVerification, PersistSnapshot
    <2>2. f = FindingOf[t] /\ worker[w].pc = "verify"
      BY <1>8, WorkerType DEF PersistVerification, At
    <2>3. Pushes([pc |-> "finish", target |-> t, finding |-> FindingOf[t],
                  result |-> result]) = Pushes(worker[w])
      BY <2>2 DEF Pushes
    <2> QED
      BY <1>0, <1>1, <2>1, <2>3, MoveKeepsConsent
  <1>9. CASE FinishTarget(w)
    BY <1>0, <1>1, <1>9, MoveKeepsConsent DEF FinishTarget
  <1> QED
    BY <1>2, <1>3, <1>5, <1>6, <1>7, <1>8, <1>9
    DEF RunTarget, RecordApplied, RecordFailed

\* A push by hand takes up an approved action; whoever stops pushes nothing.
LEMMA WorkerConsent ==
  ASSUME Typed, ConsentInv, NEW w \in Worker, WorkerStep(w)
  PROVE  KeepsConsent
  <1>0. TypeOK
    BY DEF Typed
  <1>1. ASSUME NEW f \in Finding, ApplyFinding(w, f)
        PROVE  KeepsConsent
    <2>1. worker' = [worker EXCEPT ![w] = [pc |-> "push", target |-> Manual,
                       finding |-> f, result |-> "none"]]
          /\ action' = [action EXCEPT ![f] = "applying"]
          /\ publishing' = publishing
      BY <1>1 DEF ApplyFinding
    <2>2. /\ \A v \in Worker \ {w} : worker'[v] = worker[v]
          /\ Pushes(worker'[w]) = f
      BY <1>0, <2>1 DEF TypeOK, Pushes
    <2>3. /\ \A g \in Finding : action[g] # "none" => action'[g] # "none"
          /\ action'[f] # "none"
      BY <1>0, <2>1 DEF TypeOK
    <2> QED
      BY <2>1, <2>2, <2>3 DEF KeepsConsent
  <1>2. CASE CredentialRaises(w) \/ WorkerCrash(w)
    <2>1. \A v \in Worker : worker'[v] = worker[v] \/ worker'[v] = Idle
      BY <1>0, <1>2 DEF TypeOK, CredentialRaises, WorkerCrash
    <2> QED
      BY <1>2, <2>1 DEF KeepsConsent, CredentialRaises, WorkerCrash
  <1> QED
    BY <1>1, <1>2, TakeConsent, RunConsent DEF WorkerStep

\* A finalizer judges; it does not approve.
LEMMA FinalizerConsent ==
  ASSUME Typed, NEW c \in Campaign, Finalize(c) \/ FinalizerCrash(c)
  PROVE  KeepsConsent
  <1>0. TypeOK /\ UNCHANGED <<worker, action>>
    BY DEF Typed, Finalize, FinalizerCrash, PollAgain, ReadPosture, Publish
  <1>1. ASSUME NEW n \in 0 .. PollLimit, ReadPosture(c, n)
        PROVE  KeepsConsent
    <2> DEFINE unverified == {t \in TargetsOf(c) :
                                target[t] = "verified" /\ verification[t] # "complete"}
               seen == [t \in Target |-> IF t \in unverified THEN "failed" ELSE target[t]]
    <2>1. /\ \A d \in Campaign \ {c} : publishing'[d] = publishing[d]
          /\ publishing'[c].status = Rollup(c, seen)
      BY <1>0, <1>1 DEF TypeOK, ReadPosture
    <2>2. seen \in [Target -> TargetStatus]
      BY <1>0 DEF TypeOK, TargetStatus, Failure
    <2>3. Rollup(c, seen) # "approved"
      BY <2>2, RollupResult
    <2> HIDE DEF seen
    <2> QED
      BY <1>0, <2>1, <2>3 DEF KeepsConsent
  <1>2. ASSUME NEW n \in 0 .. PollLimit, PollAgain(c, n)
        PROVE  KeepsConsent
    BY <1>0, <1>2 DEF PollAgain, KeepsConsent
  <1>3. CASE Publish(c) \/ FinalizerCrash(c)
    <2>1. \A d \in Campaign : publishing'[d] = publishing[d] \/ publishing'[d] = Idle
      BY <1>0, <1>3 DEF TypeOK, Publish, FinalizerCrash
    <2> QED
      BY <1>0, <2>1 DEF KeepsConsent
  <1> QED
    BY <1>1, <1>2, <1>3 DEF Finalize

\* Requests and audits push nothing, and an approval makes an action or keeps it.
LEMMA OtherConsent ==
  ASSUME Typed,
         \/ \E r \in Request : AcceptRequest(r) \/ ServeRequest(r) \/ DispatchStops(r)
         \/ (\E f \in Finding : ApproveFinding(f)) \/ (\E t \in Target : Redeliver(t))
         \/ AuditStep \/ UNCHANGED vars
  PROVE  KeepsConsent
  <1>1. UNCHANGED <<worker, publishing>>
    BY DEF AcceptRequest, ServeRequest, DispatchStops, FindNoCampaign, ReadForApproval,
           ReadForExecution, CreateCampaign, ApproveCampaign, StartExecution,
           DispatchTarget, DispatchFinalizer, ApproveFinding, Redeliver, AuditStep,
           AuditEnds, NewerPass, vars
  <1>2. \A f \in Finding : action[f] # "none" => action'[f] # "none"
    <2>1. ASSUME NEW F, Approved(F)
          PROVE  \A f \in Finding : action[f] # "none" => action'[f] # "none"
      BY <2>1 DEF Approved
    <2>2. CASE action' = action
      BY <2>2
    <2>3. action' = action \/ \E F : Approved(F)
      BY DEF AcceptRequest, ServeRequest, DispatchStops, FindNoCampaign, ReadForApproval,
             ReadForExecution, CreateCampaign, ApproveCampaign, StartExecution,
             DispatchTarget, DispatchFinalizer, ApproveFinding, Redeliver, AuditStep,
             AuditEnds, NewerPass, vars
    <2> QED
      BY <2>1, <2>2, <2>3
  <1> QED
    BY <1>1, <1>2 DEF KeepsConsent

\* Every step keeps the consent invariant.
LEMMA NextConsent ==
  ASSUME Typed, ConsentInv, [Next]_vars
  PROVE  ConsentInv'
  <1>1. KeepsConsent
    BY WorkerConsent, FinalizerConsent, OtherConsent DEF Next
  <1> QED
    BY <1>1, ConsentKept

-----------------------------------------------------------------------------
\* A step that changes no campaign, no device and no evidence, and makes no action.
LEMMA NothingPromised ==
  ASSUME UNCHANGED <<campaign, sent, snapshot, passed>>,
         \A f \in Finding : action'[f] = "none" <=> action[f] = "none"
  PROVE  UNCHANGED Promise!vars
  <1>1. {f \in Finding : action'[f] # "none"} = {f \in Finding : action[f] # "none"}
    OBVIOUS
  <1> QED
    BY <1>1 DEF Promise!vars

\* The findings of a campaign.
LEMMA PromisedFindings ==
  ASSUME NEW c \in Campaign
  PROVE  [d \in Campaign |-> {FindingOf[t] : t \in TargetsOf(d)}][c]
           = {FindingOf[t] : t \in TargetsOf(c)}
  OBVIOUS

\* A step that writes one campaign's status and no action, device or evidence.
LEMMA StatusPromised ==
  ASSUME NEW c \in Campaign, NEW p, campaign' = [campaign EXCEPT ![c] = p],
         UNCHANGED <<action, sent, snapshot, passed>>,
         \/ campaign[c] = "absent" /\ p = "pending_approval"
         \/ Begun(c) /\ p \in {"executing", "partially_completed", "failed"}
         \/ Begun(c) /\ p = "completed" /\ Done(c)
  PROVE  Promise!Next
  <1>1. CASE campaign[c] = "absent" /\ p = "pending_approval"
    <2>1. Promise!Plan(c)
      BY <1>1 DEF Promise!Plan
    <2> QED
      BY <2>1 DEF Promise!Next
  <1>2. CASE Begun(c) /\ p \in {"executing", "partially_completed", "failed"}
    <2>1. Promise!Work(c)
      BY <1>2 DEF Promise!Work, Promise!Waiting, Promise!Underway, Begun
    <2> QED
      BY <2>1 DEF Promise!Next
  <1>3. CASE Begun(c) /\ p = "completed" /\ Done(c)
    <2>1. {FindingOf[t] : t \in TargetsOf(c)}
            \subseteq {f \in Finding : snapshot[f]} \cup {f \in Finding : passed[f]}
      BY <1>3, TargetFacts DEF Done, TargetsOf
    <2>2. Promise!Complete(c)
      BY <1>3, <2>1, PromisedFindings DEF Promise!Complete, Promise!Waiting, Begun
    <2> QED
      BY <2>2 DEF Promise!Next
  <1> QED
    BY <1>1, <1>2, <1>3

\* Commands that reach the device of an approved finding.
LEMMA ReachPromised ==
  ASSUME NEW f \in Finding, action[f] # "none",
         {g \in Finding : sent'[g] > 0} = {g \in Finding : sent[g] > 0} \cup {f},
         UNCHANGED <<campaign, action, snapshot, passed>>
  PROVE  Promise!Next
  <1>1. Promise!Reach(f)
    BY DEF Promise!Reach
  <1> QED
    BY <1>1 DEF Promise!Next

\* The record of a change to the device of an approved finding.
LEMMA ChangePromised ==
  ASSUME NEW f \in Finding, action[f] # "none",
         {g \in Finding : action'[g] # "none"} = {g \in Finding : action[g] # "none"},
         {g \in Finding : snapshot'[g]} = {g \in Finding : snapshot[g]} \cup {f},
         UNCHANGED <<campaign, sent, passed>>
  PROVE  Promise!Next
  <1>1. Promise!Change(f)
    BY DEF Promise!Change
  <1> QED
    BY <1>1 DEF Promise!Next

\* An approval of findings is the consent the promise speaks of.
LEMMA ApprovedPromised ==
  ASSUME NEW F \in SUBSET Finding, Approved(F), UNCHANGED <<snapshot, passed>>
  PROVE  Promise!Consent(F)
  <1>1. {f \in Finding : action'[f] # "none"} = {f \in Finding : action[f] # "none"} \cup F
    BY DEF Approved
  <1> DEFINE R == {f \in F : action[f] # "applied"}
  <1>2. {f \in Finding : sent'[f] > 0} = {f \in Finding : sent[f] > 0} \ R
    BY DEF Approved
  <1>3. R \in SUBSET F
    OBVIOUS
  <1> QED
    BY <1>1, <1>2, <1>3 DEF Promise!Consent

-----------------------------------------------------------------------------
\* What a step must be: one of the promise's, or none.
Promised == Promise!Next \/ UNCHANGED Promise!vars

\* A request plans, approves or starts a campaign, or does nothing the promise sees.
LEMMA RequestPromised ==
  ASSUME Typed, ApprovalInv, NEW r \in Request,
         AcceptRequest(r) \/ ServeRequest(r) \/ DispatchStops(r)
  PROVE  Promised
  <1> DEFINE c == request[r].campaign
  <1>0. TypeOK /\ (request[r] # Idle => c \in Campaign)
    BY RequestType DEF Typed
  <1>1. CASE CreateCampaign(r)
    <2>1. campaign[c] = "absent" /\ c \in Campaign
      BY <1>0, <1>1 DEF CreateCampaign, ApprovalInv, RequestsFollow
    <2> QED
      BY <1>1, <2>1, StatusPromised DEF CreateCampaign, Promised
  <1>2. CASE ApproveCampaign(r)
    <2>1. PICK d \in Campaign : d = c /\ campaign[d] # "absent"
      BY <1>0, <1>2 DEF ApproveCampaign, ApprovalInv, RequestsFollow
    <2> DEFINE F == {FindingOf[t] : t \in TargetsOf(d)}
    <2>2. F \in SUBSET Finding
      BY TargetFacts DEF TargetsOf
    <2>3. Approved(F)
      BY <1>2, <2>1 DEF ApproveCampaign, Approved
    <2>4. UNCHANGED <<snapshot, passed>>
      BY <1>2 DEF ApproveCampaign
    <2>5. Promise!Consent(F)
      BY <2>2, <2>3, <2>4, ApprovedPromised
    <2>6. campaign' = [campaign EXCEPT ![d] = "approved"]
      BY <1>2, <2>1 DEF ApproveCampaign
    <2>7. Promise!Approve(d)
      BY <2>1, <2>5, <2>6, PromisedFindings DEF Promise!Approve
    <2> QED
      BY <2>7 DEF Promise!Next, Promised
  <1>3. CASE StartExecution(r)
    <2>1. Begun(c) /\ c \in Campaign
      BY <1>0, <1>3 DEF StartExecution, ApprovalInv, RequestsFollow
    <2> QED
      BY <1>3, <2>1, StatusPromised DEF StartExecution, Promised
  <1>4. CASE ~CreateCampaign(r) /\ ~ApproveCampaign(r) /\ ~StartExecution(r)
    <2>1. UNCHANGED <<campaign, action, sent, snapshot, passed>>
      BY <1>4 DEF AcceptRequest, ServeRequest, DispatchStops, FindNoCampaign,
             ReadForApproval, ReadForExecution, DispatchTarget, DispatchFinalizer
    <2> QED
      BY <2>1, NothingPromised DEF Promised
  <1> QED
    BY <1>1, <1>2, <1>3, <1>4

\* A delivery changes at most the status of its own running campaign, when it refuses.
LEMMA TakePromised ==
  ASSUME Typed, ApprovalInv, NEW w \in Worker, NEW t \in Target, TakeTarget(w, t)
  PROVE  Promised
  <1> DEFINE c == CampaignOf[t]
  <1>0. TypeOK /\ c \in Campaign /\ t \in TargetsOf(c)
    BY TargetFacts DEF Typed, TargetsOf
  <1>1. CASE RefuseAmbiguous(w, t)
    <2>1. /\ Begun(c)
          /\ target' = [target EXCEPT ![t] = "failed"]
          /\ campaign' = [campaign EXCEPT ![c] = Rollup(c, target')]
          /\ UNCHANGED <<action, sent, snapshot, passed>>
      BY <1>1 DEF RefuseAmbiguous, Runnable, Begun
    <2>2. target' \in [Target -> TargetStatus] /\ target'[t] \notin Success
      BY <1>0, <2>1 DEF TypeOK, TargetStatus, Failure, Success
    <2>3. Rollup(c, target') \in {"executing", "partially_completed", "failed"}
      BY <1>0, <2>2, RollupResult
    <2> QED
      BY <1>0, <2>1, <2>3, StatusPromised DEF Promised
  <1>2. CASE ~RefuseAmbiguous(w, t)
    <2>1. UNCHANGED <<campaign, action, sent, snapshot, passed>>
      BY <1>2 DEF TakeTarget, SkipTarget, RecoverApplied, FindCompliant, RefuseTarget,
             CheckTarget
    <2> QED
      BY <2>1, NothingPromised DEF Promised
  <1> QED
    BY <1>1, <1>2

\* A push reaches the device and records the change of a finding that was approved.
LEMMA RunPromised ==
  ASSUME Typed, ApprovalInv, ConsentInv, NEW w \in Worker, RunTarget(w)
  PROVE  Promised
  <1> DEFINE t == worker[w].target
             f == worker[w].finding
             c == CampaignOf[t]
  <1>0. TypeOK
    BY DEF Typed
  <1>1. CASE BeginApply(w)
    <2>1. /\ t \in Target /\ c \in Campaign
          /\ worker[w] # Idle
          /\ Begun(c)
      BY <1>1, WorkerType, TargetFacts DEF BeginApply, At, ApprovalInv, WorkFollowsApproval
    <2>2. /\ campaign' = [campaign EXCEPT ![c] =
                            Written(worker[w].loaded, campaign[c], "executing")]
          /\ UNCHANGED <<action, sent, snapshot, passed>>
      BY <1>0, <1>1, <2>1 DEF BeginApply, TypeOK
    <2>3. campaign' = campaign \/ campaign' = [campaign EXCEPT ![c] = "executing"]
      BY <1>0, <2>1, <2>2 DEF TypeOK, Written
    <2> QED
      BY <2>1, <2>2, <2>3, StatusPromised, NothingPromised DEF Promised
  <1>2. ASSUME At(w, "mark") \/ At(w, "push") \/ At(w, "record")
        PROVE  f \in Finding /\ action[f] # "none"
    <2>1. worker[w] # Idle /\ Pushes(worker[w]) = f
      BY <1>2 DEF At, Pushes
    <2> QED
      BY <2>1, PushesFinding DEF ConsentInv
  <1>3. CASE MarkApplying(w)
    <2>1. \A g \in Finding : action'[g] = "none" <=> action[g] = "none"
      BY <1>0, <1>2, <1>3 DEF TypeOK, MarkApplying
    <2> QED
      BY <1>3, <2>1, NothingPromised DEF MarkApplying, Promised
  <1>4. CASE Push(w)
    <2>1. f \in Finding /\ action[f] # "none"
      BY <1>2, <1>4 DEF Push
    <2>2. UNCHANGED <<campaign, action, snapshot, passed>>
      BY <1>4 DEF Push
    <2>3. CASE sent' = sent
      BY <2>2, <2>3, NothingPromised DEF Promised
    <2>4. CASE sent' = [sent EXCEPT ![f] = IF @ < 2 THEN @ + 1 ELSE @]
      <3>1. sent[f] \in 0 .. 2
        BY <1>0, <2>1 DEF TypeOK
      <3>2. sent'[f] > 0 /\ \A g \in Finding \ {f} : sent'[g] = sent[g]
        BY <1>0, <2>1, <2>4, <3>1 DEF TypeOK
      <3>3. {g \in Finding : sent'[g] > 0} = {g \in Finding : sent[g] > 0} \cup {f}
        BY <2>1, <3>2
      <3> QED
        BY <2>1, <2>2, <3>3, ReachPromised DEF Promised
    <2> QED
      BY <1>4, <2>3, <2>4 DEF Push
  <1>5. CASE RecordApplied(w)
    <2>1. f \in Finding /\ action[f] # "none"
      BY <1>2, <1>5 DEF RecordApplied
    <2>2. /\ action' = [action EXCEPT ![f] = "applied"]
          /\ snapshot' = [snapshot EXCEPT ![f] = TRUE]
          /\ UNCHANGED <<campaign, sent, passed>>
      BY <1>5 DEF RecordApplied
    <2>3. {g \in Finding : action'[g] # "none"} = {g \in Finding : action[g] # "none"}
      BY <1>0, <2>1, <2>2 DEF TypeOK
    <2>4. {g \in Finding : snapshot'[g]} = {g \in Finding : snapshot[g]} \cup {f}
      BY <1>0, <2>1, <2>2 DEF TypeOK
    <2> QED
      BY <2>1, <2>2, <2>3, <2>4, ChangePromised DEF Promised
  <1>6. CASE RecordFailed(w)
    <2>1. \A g \in Finding : action'[g] = "none" <=> action[g] = "none"
      BY <1>0, <1>2, <1>6 DEF TypeOK, RecordFailed
    <2> QED
      BY <1>6, <2>1, NothingPromised DEF RecordFailed, Promised
  <1>7. CASE LogAccess(w) \/ PersistVerification(w) \/ FinishTarget(w)
    BY <1>7, NothingPromised DEF LogAccess, PersistVerification, FinishTarget, Promised
  <1> QED
    BY <1>1, <1>3, <1>4, <1>5, <1>6, <1>7 DEF RunTarget

\* Every step of a worker is one of the promise's, or none.
LEMMA WorkerPromised ==
  ASSUME Typed, ApprovalInv, ConsentInv, NEW w \in Worker, WorkerStep(w)
  PROVE  Promised
  <1>1. ASSUME NEW f \in Finding, ApplyFinding(w, f)
        PROVE  Promised
    <2>1. \A g \in Finding : action'[g] = "none" <=> action[g] = "none"
      BY <1>1 DEF Typed, TypeOK, ApplyFinding
    <2> QED
      BY <1>1, <2>1, NothingPromised DEF ApplyFinding, Promised
  <1>2. CASE CredentialRaises(w) \/ WorkerCrash(w)
    BY <1>2, NothingPromised DEF CredentialRaises, WorkerCrash, Promised
  <1> QED
    BY <1>1, <1>2, TakePromised, RunPromised DEF WorkerStep

\* A finalizer judges a campaign that was approved, and completes what is done.
LEMMA FinalizerPromised ==
  ASSUME Typed, ApprovalInv, EvidenceInv, ConsentInv,
         NEW c \in Campaign, Finalize(c) \/ FinalizerCrash(c)
  PROVE  Promised
  <1>1. CASE Publish(c)
    <2> DEFINE status == publishing[c].status
    <2>1. /\ publishing[c] # Idle
          /\ campaign' = [campaign EXCEPT ![c] = status]
          /\ UNCHANGED <<action, sent, snapshot, passed>>
      BY <1>1 DEF Publish, CampaignLocked
    <2>2. /\ Begun(c)
          /\ status \notin Unapproved
          /\ status # "approved"
          /\ status = "completed" => Done(c)
      BY <2>1 DEF ApprovalInv, WorkFollowsApproval, ConsentInv, EvidenceInv, PublishesDone
    <2>3. status \in CampaignStatus
      BY <2>1 DEF Typed, TypeOK, Posture
    <2>4. status \in {"executing", "partially_completed", "failed", "completed"}
      BY <2>2, <2>3 DEF CampaignStatus
    <2> HIDE DEF status
    <2> QED
      BY <2>1, <2>2, <2>4, StatusPromised DEF Promised
  <1>2. CASE ~Publish(c)
    <2>1. UNCHANGED <<campaign, action, sent, snapshot, passed>>
      BY <1>2 DEF Finalize, FinalizerCrash, PollAgain, ReadPosture
    <2> QED
      BY <2>1, NothingPromised DEF Promised
  <1> QED
    BY <1>1, <1>2

\* An approval by hand and a newer audit are the promise's; the rest it does not see.
LEMMA OtherPromised ==
  ASSUME Typed,
         \/ (\E f \in Finding : ApproveFinding(f)) \/ (\E t \in Target : Redeliver(t))
         \/ AuditStep \/ UNCHANGED vars
  PROVE  Promised
  <1>1. ASSUME NEW f \in Finding, ApproveFinding(f)
        PROVE  Promised
    <2>1. Promise!Consent({f})
      BY <1>1, ApprovedPromised DEF ApproveFinding
    <2>2. Promise!ApproveOne(f)
      BY <1>1, <2>1 DEF ApproveFinding, Promise!ApproveOne
    <2> QED
      BY <2>2 DEF Promise!Next, Promised
  <1>2. ASSUME NEW f \in Finding, NewerPass(f)
        PROVE  Promised
    <2>1. {g \in Finding : passed'[g]} = {g \in Finding : passed[g]} \cup {f}
      BY <1>2 DEF Typed, TypeOK, NewerPass
    <2>2. Promise!Pass(f)
      BY <1>2, <2>1 DEF NewerPass, Promise!Pass
    <2> QED
      BY <2>2 DEF Promise!Next, Promised
  <1>3. CASE \/ (\E t \in Target : Redeliver(t)) \/ (\E t \in Target : AuditEnds(t))
             \/ UNCHANGED vars
    BY <1>3, NothingPromised DEF Redeliver, AuditEnds, vars, Promised
  <1> QED
    BY <1>1, <1>2, <1>3 DEF AuditStep

\* At the start nothing is planned, approved or changed.
LEMMA InitPromised == Init => ConsentInv /\ Promise!Init
  <1> SUFFICES ASSUME Init PROVE ConsentInv /\ Promise!Init
    OBVIOUS
  <1>1. ConsentInv
    BY DEF Init, ConsentInv
  <1>2. /\ {f \in Finding : action[f] # "none"} = {}
        /\ {f \in Finding : sent[f] > 0} = {}
        /\ {f \in Finding : snapshot[f]} = {}
        /\ {f \in Finding : passed[f]} = {}
    BY DEF Init
  <1> QED
    BY <1>1, <1>2 DEF Init, Promise!Init

\* Remediation keeps its promise for every number of campaigns, targets, workers and
\* requests: a device is only changed after an approval of the finding, only an
\* approval makes a campaign approved, and it is completed only with evidence, however
\* deliveries, stale requests, finalizers, crashes and manual applies interleave
\* (approve_campaign, execute_campaign_target, finalize_remediation_campaign).
THEOREM Refinement == Spec => PromiseKept
  <1> DEFINE Inv == Typed /\ ApprovalInv /\ EvidenceInv /\ ConsentInv
  <1>1. Init => Inv /\ Promise!Init
    BY InitTyped, InitApproval, InitEvidence, InitPromised
  <1>2. Inv /\ [Next]_vars => Inv'
    BY NextTyped, NextApproval, NextEvidence, NextConsent
  <1>3. Inv /\ [Next]_vars => [Promise!Next]_(Promise!vars)
    <2>1. ASSUME Inv, [Next]_vars PROVE Promised
      BY <2>1, RequestPromised, WorkerPromised, FinalizerPromised, OtherPromised DEF Next
    <2> QED
      BY <2>1 DEF Promised
  <1> QED
    BY <1>1, <1>2, <1>3, PTL DEF Spec, PromiseKept, Promise!Spec
=============================================================================
