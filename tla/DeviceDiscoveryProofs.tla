----------------------- MODULE DeviceDiscoveryProofs -----------------------
(***************************************************************************)
(* Proofs about DeviceDiscovery for every topology, registry, set of users *)
(* and requests, all limits of a session and all bounds.                   *)
(***************************************************************************)
EXTENDS DeviceDiscovery, FiniteSetTheorems, TLAPS

-----------------------------------------------------------------------------
(* The inductive invariant of access.                                      *)

Accessing == {"access", "claim", "pull"}
Storing == {"stored", "sent", "refused"}

\* A request that may still claim a device claims it for an organization its user
\* operates or is about to get; one that talks to a device may; one that claims has found
\* it free and holds its row.
Authorized(p) ==
  /\ p.pc \in {"access", "claim"} =>
       p.claim = p.user \/ role[p.user][p.claim] \in Operate
  /\ p.pc \in {"pull"} \cup Storing =>
       owner[p.address] \in User /\ role[p.user][owner[p.address]] \in Operate
  /\ p.pc = "claim" => owner[p.address] \notin User /\ p.address \in p.held

AccessInv == \A x \in Actor : request[x] # Idle => Authorized(request[x])

\* A row is locked by one request.
Exclusive(x, p) ==
  \A y \in Actor \ {x} : request[y] # Idle => p.held \cap request[y].held = {}

LockInv == \A x \in Actor : request[x] # Idle => Exclusive(x, request[x])

\* An organization with any member has its own user as an owner.
RoleInv == \A u, o \in User : role[u][o] # "none" => role[o][o] = "owner"

\* Before the session exists requests only access devices; only the walk accesses the
\* seed for it; and what is stored belongs to the session's organization.
Placed(x, p) ==
  /\ walk = NoWalk => p.kind \in {"seed", "pull", "neighbor"} /\ p.pc \in Accessing
  /\ p.kind = "seed" =>
       x = Walk /\ walk = NoWalk /\ p.address = Seed /\ p.user = Starter
  /\ p.pc \in Storing => p.kind = "import" /\ owner[p.address] = org

PlacedInv == \A x \in Actor : request[x] # Idle => Placed(x, request[x])

\* The session belongs to an organization its starter operates, and what waits in the
\* walk is above the last level.
WalkInv ==
  walk # NoWalk =>
    /\ org \in User /\ role[Starter][org] \in Operate
    /\ walk.depth < limit.depth
    /\ \A n \in DOMAIN walk.queue : walk.queue[n][2] < limit.depth

AuditInv == (walk = NoWalk => \A a \in Address : audits[a] = 0) /\ ImportsOwned

RequestsTyped == request \in [Actor -> Busy \cup {Idle}]
RequestInv == RequestsTyped /\ AccessInv /\ LockInv /\ RoleInv /\ PlacedInv

IInv == TypeOK /\ RequestInv /\ WalkInv /\ AuditInv

-----------------------------------------------------------------------------
\* What a request that is not idle is.
LEMMA BusyType ==
  ASSUME RequestsTyped, NEW x \in Actor, request[x].pc # "idle"
  PROVE  request[x] \in Busy /\ request[x] # Idle
  BY DEF RequestsTyped, Idle

\* A request that is not idle has the fields of one.
LEMMA NotIdle ==
  ASSUME RequestsTyped, NEW x \in Actor, request[x] # Idle
  PROVE  request[x] \in Busy /\ request[x].pc # "idle"
  BY DEF RequestsTyped, Busy

\* A request may change alone, as long as what it becomes is authorized, in its place
\* and holds no row of another.
LEMMA OneRequest ==
  ASSUME RequestInv, NEW x \in Actor, NEW p \in Busy \cup {Idle},
         request' = [request EXCEPT ![x] = p],
         UNCHANGED <<owner, role, org>>, walk' = NoWalk <=> walk = NoWalk,
         p # Idle => Authorized(p) /\ Placed(x, p) /\ Exclusive(x, p)
  PROVE  RequestInv'
  <1>1. request'[x] = p /\ \A y \in Actor \ {x} : request'[y] = request[y]
    BY DEF RequestInv, RequestsTyped
  <1>2. RequestsTyped'
    BY DEF RequestInv, RequestsTyped
  <1>3. AccessInv'
    BY <1>1 DEF RequestInv, AccessInv, Authorized
  <1>4. LockInv'
    <2>1. ASSUME NEW y \in Actor, NEW z \in Actor \ {y}, request'[y] # Idle, request'[z] # Idle
          PROVE  request'[y].held \cap request'[z].held = {}
      <3>1. CASE y = x
        BY <1>1, <2>1, <3>1 DEF Exclusive
      <3>2. CASE z = x
        BY <1>1, <2>1, <3>2 DEF Exclusive
      <3>3. CASE y # x /\ z # x
        BY <1>1, <2>1, <3>3 DEF RequestInv, LockInv, Exclusive
      <3> QED
        BY <3>1, <3>2, <3>3
    <2> QED
      BY <2>1 DEF LockInv, Exclusive
  <1>5. RoleInv'
    BY DEF RequestInv, RoleInv
  <1>6. PlacedInv'
    BY <1>1 DEF RequestInv, PlacedInv, Placed
  <1> QED
    BY <1>2, <1>3, <1>4, <1>5, <1>6 DEF RequestInv

\* A request that ends leaves the others as they are.
LEMMA FinishRequest ==
  ASSUME RequestInv, NEW x \in Actor, Finished(x),
         UNCHANGED <<owner, role, org>>, walk' = NoWalk <=> walk = NoWalk
  PROVE  RequestInv'
  BY OneRequest DEF Finished

\* A request that goes on past its access with the same device and no more locks.
LEMMA MoveRequest ==
  ASSUME RequestInv, NEW x \in Actor, request[x] \in Busy, NEW p \in Busy,
         request' = [request EXCEPT ![x] = p],
         p.kind = request[x].kind, p.user = request[x].user, p.address = request[x].address,
         p.held \subseteq request[x].held, p.pc \in Storing \cup {"finish", "summary"},
         UNCHANGED <<owner, role, org>>, walk' = NoWalk <=> walk = NoWalk,
         request[x].kind = "import" \/ request[x].pc \notin Accessing,
         p.pc \in Storing =>
           /\ request[x].pc \in {"pull"} \cup Storing
           /\ request[x].kind = "import" /\ owner[request[x].address] = org
  PROVE  RequestInv'
  <1>1. request[x] # Idle
    BY DEF Busy, Idle
  <1>2. Authorized(p)
    BY <1>1 DEF RequestInv, AccessInv, Authorized, Storing
  <1>3. walk # NoWalk /\ request[x].kind # "seed"
    BY <1>1 DEF RequestInv, PlacedInv, Placed
  <1>4. Placed(x, p)
    BY <1>3 DEF Placed, Storing
  <1>5. Exclusive(x, p)
    BY <1>1 DEF RequestInv, LockInv, Exclusive
  <1> QED
    BY <1>2, <1>4, <1>5, OneRequest

\* A step that leaves the registry, the session's limits, the walk and the audits alone.
LEMMA QuietStep ==
  ASSUME IInv, RequestInv', UNCHANGED <<owner, role, limit, org, depth, parent, audits, walk>>,
         session' \in SessionStatus, status' \in [Address -> Status],
         linked' \in [Address -> BOOLEAN], overlaps' \subseteq SUBSET Address,
         requests' \in 0 .. MaxRequests, failures' \in 0 .. MaxFaults,
         crashes' \in 0 .. MaxFaults
  PROVE  IInv'
  <1>1. TypeOK'
    BY DEF IInv, TypeOK, RequestInv, RequestsTyped
  <1>2. WalkInv'
    BY DEF IInv, WalkInv
  <1>3. AuditInv'
    BY DEF IInv, AuditInv, ImportsOwned
  <1> QED
    BY <1>1, <1>2, <1>3 DEF IInv

-----------------------------------------------------------------------------
(* Access to a device.                                                     *)

\* The request that locks a row is the only one that holds it.
LEMMA LockTaken ==
  ASSUME RequestInv, NEW x \in Actor, request[x] # Idle, NEW a \in Address,
         DeviceFree(x, a), NEW p \in Busy, p.held = request[x].held \cup {a}
  PROVE  Exclusive(x, p)
  BY DEF RequestInv, LockInv, Exclusive, DeviceFree, Holds

\* Access: the request is granted the device, or is the only one about to claim it.
LEMMA AccessStep ==
  ASSUME IInv, NEW x \in Actor, Access(x)
  PROVE  IInv'
  <1> DEFINE a == request[x].address
             p == [request[x] EXCEPT !.pc = IF owner[a] \in User THEN "pull" ELSE "claim",
                     !.seen = IF owner[a] \in User THEN @ ELSE owner[a],
                     !.held = @ \cup {a}]
  <1>1. RequestsTyped /\ request[x].pc = "access"
    BY DEF IInv, RequestInv, Access, At
  <1>2. request[x] \in Busy /\ request[x] # Idle
    BY <1>1, BusyType
  <1>3. a \in Address /\ owner[a] \in User \cup {Nobody, NoDevice} /\ DeviceFree(x, a)
    BY <1>2 DEF IInv, TypeOK, Busy, Access, Mine
  <1>4. request' = [request EXCEPT ![x] = p]
    BY <1>1, <1>2 DEF Access, Mine, RequestsTyped, Busy
  <1>5. p \in Busy
    BY <1>2, <1>3 DEF Busy
  <1>6. /\ p.held = request[x].held \cup {a} /\ p.address = a /\ p.user = request[x].user
        /\ p.claim = request[x].claim /\ p.kind = request[x].kind
        /\ p.pc = IF owner[a] \in User THEN "pull" ELSE "claim"
    BY <1>2 DEF Busy
  <1>7. owner[a] \in User => role[request[x].user][owner[a]] \in Operate
    BY DEF Access, Mine, MayUse
  <1> HIDE DEF p
  <1>8. Authorized(p)
    <2>1. request[x].claim = request[x].user \/ role[request[x].user][request[x].claim] \in Operate
      BY <1>1, <1>2 DEF IInv, RequestInv, AccessInv, Authorized
    <2> QED
      BY <2>1, <1>6, <1>7 DEF Authorized, Storing
  <1>9. Placed(x, p)
    BY <1>1, <1>2, <1>6 DEF IInv, RequestInv, PlacedInv, Placed, Accessing, Storing
  <1>10. Exclusive(x, p)
    BY <1>2, <1>3, <1>5, <1>6, LockTaken DEF IInv
  <1>11. RequestInv'
    BY <1>4, <1>5, <1>8, <1>9, <1>10, OneRequest DEF IInv, Access, registry
  <1> QED
    BY <1>11, QuietStep DEF IInv, TypeOK, Access, registry, candidates, counters

\* Deny: the request ends; the walk's candidate has failed.
LEMMA DenyStep ==
  ASSUME IInv, NEW x \in Actor, Deny(x)
  PROVE  IInv'
  <1>1. RequestInv'
    BY FinishRequest DEF IInv, Deny, registry
  <1>2. status' \in [Address -> Status]
    BY DEF IInv, TypeOK, Deny, Status
  <1> QED
    BY <1>1, <1>2, QuietStep DEF IInv, TypeOK, Deny, registry, counters

\* DeadlockVictim: the request ends.
LEMMA VictimStep ==
  ASSUME IInv, NEW x \in Actor, DeadlockVictim(x)
  PROVE  IInv'
  <1>1. RequestInv'
    BY FinishRequest DEF IInv, DeadlockVictim, registry
  <1> QED
    BY <1>1, QuietStep DEF IInv, TypeOK, DeadlockVictim, registry, candidates, counters

\* EndPull: the request ends.
LEMMA EndPullStep ==
  ASSUME IInv, NEW x \in Actor, EndPull(x)
  PROVE  IInv'
  <1>1. RequestInv'
    BY FinishRequest DEF IInv, EndPull, registry
  <1> QED
    BY <1>1, QuietStep DEF IInv, TypeOK, EndPull, registry, candidates, counters

-----------------------------------------------------------------------------
(* The import of one candidate.                                            *)

\* PullFails: the request ends with its candidate failed or waiting for input.
LEMMA PullFailsStep ==
  ASSUME IInv, NEW x \in Actor, NEW rejected \in BOOLEAN, PullFails(x, rejected)
  PROVE  IInv'
  <1>1. RequestInv'
    BY FinishRequest DEF IInv, PullFails, registry
  <1>2. status' \in [Address -> Status]
    BY DEF IInv, TypeOK, PullFails, Written, Status
  <1>3. failures' \in 0 .. MaxFaults
    BY DiscoveryAssumption DEF IInv, TypeOK, PullFails, Failure
  <1> QED
    BY <1>1, <1>2, <1>3, QuietStep DEF IInv, TypeOK, PullFails, registry

\* Link: the candidate's device is owned by the session's organization.
LEMMA LinkStep ==
  ASSUME IInv, NEW x \in Actor, Link(x)
  PROVE  IInv'
  <1> DEFINE p == [request[x] EXCEPT !.pc = "stored", !.held = {}]
  <1>1. request[x].pc = "pull" /\ request[x].kind = "import" /\ RequestsTyped
    BY DEF IInv, RequestInv, Link, Importing, At
  <1>2. request[x] \in Busy
    BY <1>1, BusyType
  <1>3. request' = [request EXCEPT ![x] = p]
    BY <1>1, <1>2 DEF Link, RequestsTyped, Busy
  <1>4. /\ p \in Busy /\ p.kind = request[x].kind /\ p.user = request[x].user
        /\ p.address = request[x].address /\ p.pc = "stored" /\ p.held = {}
    BY <1>2 DEF Busy
  <1>5. owner[request[x].address] = org
    BY DEF Link, Resolves, Mine
  <1> HIDE DEF p
  <1>6. RequestInv'
    BY <1>1, <1>2, <1>3, <1>4, <1>5, MoveRequest DEF IInv, Link, registry, Storing
  <1>7. status' \in [Address -> Status]
    BY DEF IInv, TypeOK, Link, Written, Status
  <1> QED
    BY <1>6, <1>7, QuietStep DEF IInv, TypeOK, Link, registry, counters

\* A request that ends, and the walk with it when it was the walk's.
LEMMA WalkLeft ==
  ASSUME IInv, NEW x \in Actor, Finished(x),
         walk' \in {walk, [walk EXCEPT !.pc = "lost"]},
         walk = NoWalk => walk' = walk,
         UNCHANGED <<owner, role, session, limit, org, status, depth, parent, linked, audits,
                     overlaps, requests, failures>>, crashes' \in 0 .. MaxFaults
  PROVE  IInv'
  <1>1. walk # NoWalk => walk \in Walking
    BY DEF IInv, TypeOK
  <1>2. walk' # walk => walk' \in Walking /\ walk'.depth = walk.depth /\ walk'.queue = walk.queue
    BY <1>1 DEF Walking
  <1>3. walk' = NoWalk <=> walk = NoWalk
    BY <1>2 DEF Walking, NoWalk
  <1>4. RequestInv'
    BY <1>3, FinishRequest DEF IInv
  <1>5. TypeOK'
    BY <1>2, <1>4 DEF IInv, TypeOK, RequestInv, RequestsTyped
  <1>6. WalkInv'
    BY <1>2, <1>3 DEF IInv, WalkInv
  <1>7. AuditInv'
    BY <1>3 DEF IInv, AuditInv, ImportsOwned
  <1> QED
    BY <1>4, <1>5, <1>6, <1>7 DEF IInv

\* Conflict: the request ends without a configuration, the walk with it.
LEMMA ConflictStep ==
  ASSUME IInv, NEW x \in Actor, Conflict(x)
  PROVE  IInv'
  <1>1. x = Walk => walk # NoWalk
    BY DEF IInv, RequestInv, PlacedInv, Placed, Conflict, Importing, At, Idle
  <1> QED
    BY <1>1, WalkLeft DEF IInv, TypeOK, Conflict, registry, candidates, counters

\* Persist: the configuration is one of a device the session's organization owns.
LEMMA PersistStep ==
  ASSUME IInv, NEW x \in Actor, Persist(x)
  PROVE  IInv'
  <1> DEFINE a == request[x].address
             p(pc) == [request[x] EXCEPT !.pc = pc]
  <1>1. request[x].pc = "stored" /\ RequestsTyped
    BY DEF IInv, RequestInv, Persist, At
  <1>2. request[x] \in Busy /\ request[x] # Idle
    BY <1>1, BusyType
  <1>3. /\ request[x].kind = "import" /\ owner[a] = org /\ walk # NoWalk /\ a \in Address
    BY <1>1, <1>2 DEF IInv, RequestInv, PlacedInv, Placed, Storing, Accessing, Busy
  <1>4. PICK pc \in {"sent", "refused"} : request' = [request EXCEPT ![x] = p(pc)]
    BY <1>1, <1>2 DEF Persist, Become, RequestsTyped, Busy
  <1>5. /\ p(pc) \in Busy /\ p(pc).kind = request[x].kind /\ p(pc).user = request[x].user
        /\ p(pc).address = a /\ p(pc).pc = pc /\ p(pc).held = request[x].held
    BY <1>2 DEF Busy
  <1> HIDE DEF p
  <1>6. RequestInv'
    BY <1>1, <1>2, <1>3, <1>4, <1>5, MoveRequest DEF IInv, Persist, registry, Storing
  <1>7. audits' = [audits EXCEPT ![a] = @ + 1]
    BY DEF Persist, Mine
  <1>8. TypeOK'
    <2>1. audits' \in [Address -> Nat]
      BY <1>3, <1>7 DEF IInv, TypeOK
    <2>2. failures' \in 0 .. MaxFaults
      <3>1. failures' = failures \/ Failure
        BY DEF Persist
      <3> QED
        BY <3>1, DiscoveryAssumption DEF IInv, TypeOK, Failure
    <2> QED
      BY <1>6, <2>1, <2>2 DEF IInv, TypeOK, Persist, registry, RequestInv, RequestsTyped
  <1>9. WalkInv'
    BY DEF IInv, WalkInv, Persist, registry
  <1>10. AuditInv'
    <2>1. ASSUME NEW b \in Address, audits'[b] > 0
          PROVE  owner[b] = org
      BY <1>3, <1>7, <2>1 DEF IInv, TypeOK, AuditInv, ImportsOwned
    <2> QED
      BY <1>3, <2>1 DEF AuditInv, ImportsOwned, Persist, registry
  <1> QED
    BY <1>6, <1>8, <1>9, <1>10 DEF IInv

\* Record: the walk's request ends and its candidate is queued above the last level; an
\* operator's request goes on to the session.
LEMMA RecordStep ==
  ASSUME IInv, NEW x \in Actor, Record(x)
  PROVE  IInv'
  <1> DEFINE a == request[x].address
             p == [request[x] EXCEPT !.pc = "finish"]
  <1>1. request[x].pc \in {"sent", "refused"} /\ RequestsTyped
    BY DEF IInv, RequestInv, Record, At
  <1>2. request[x] \in Busy /\ request[x] # Idle
    BY <1>1, BusyType
  <1>3. a \in Address /\ walk # NoWalk /\ walk \in Walking
    BY <1>1, <1>2
       DEF IInv, TypeOK, RequestInv, PlacedInv, Placed, Storing, Accessing, Busy
  <1>4. linked' \in [Address -> BOOLEAN] /\ status' \in [Address -> Status]
    BY <1>3 DEF IInv, TypeOK, Record, Status
  <1>5. CASE x = Walk
    <2>1. walk' = [walk EXCEPT !.queue = Enqueue(a)] /\ Finished(x)
      BY <1>5 DEF Record, Mine
    <2>2. depth[a] \in Nat /\ limit.depth \in Nat
      BY <1>3, DiscoveryAssumption DEF IInv, TypeOK
    <2>3. walk.queue \in Seq(Address \X Nat)
      BY <1>3 DEF Walking
    <2>4. /\ Enqueue(a) \in Seq(Address \X Nat)
          /\ \A n \in DOMAIN Enqueue(a) : Enqueue(a)[n][2] < limit.depth
      <3>1. \A n \in DOMAIN walk.queue : walk.queue[n][2] < limit.depth
        BY <1>3 DEF IInv, WalkInv
      <3>2. CASE depth[a] < limit.depth
        BY <1>3, <2>2, <2>3, <3>1, <3>2 DEF Enqueue
      <3>3. CASE ~(depth[a] < limit.depth)
        BY <2>3, <3>1, <3>3 DEF Enqueue
      <3> QED
        BY <3>2, <3>3
    <2>5. /\ walk' \in Walking /\ walk' # NoWalk /\ walk'.queue = Enqueue(a)
          /\ walk'.depth = walk.depth
      BY <1>3, <2>1, <2>4 DEF Walking, NoWalk
    <2>6. RequestInv'
      BY <1>3, <2>1, <2>5, FinishRequest DEF IInv, Record, registry
    <2>7. TypeOK'
      BY <1>4, <2>5, <2>6 DEF IInv, TypeOK, Record, registry, counters, RequestInv, RequestsTyped
    <2>8. WalkInv'
      BY <1>3, <2>4, <2>5 DEF IInv, WalkInv, Record, registry
    <2>9. AuditInv'
      BY <1>3, <2>5 DEF IInv, AuditInv, ImportsOwned, Record, registry
    <2> QED
      BY <2>6, <2>7, <2>8, <2>9 DEF IInv
  <1>6. CASE x # Walk
    <2>1. request' = [request EXCEPT ![x] = p] /\ walk' = walk
      BY <1>1, <1>2, <1>6 DEF Record, Become, RequestsTyped, Busy
    <2>2. /\ p \in Busy /\ p.kind = request[x].kind /\ p.user = request[x].user
          /\ p.address = a /\ p.pc = "finish" /\ p.held = request[x].held
      BY <1>2 DEF Busy
    <2> HIDE DEF p
    <2>3. RequestInv'
      BY <1>1, <1>2, <2>1, <2>2, MoveRequest DEF IInv, Record, registry, Storing, Accessing
    <2> QED
      BY <1>4, <2>1, <2>3, QuietStep DEF IInv, TypeOK, Record, registry, counters
  <1> QED
    BY <1>5, <1>6

\* ReadSummary: the request remembers what the candidates say.
LEMMA ReadSummaryStep ==
  ASSUME IInv, NEW x \in Actor, ReadSummary(x)
  PROVE  IInv'
  <1> DEFINE result == Summary({status[a] : a \in Candidates})
             p == [request[x] EXCEPT !.pc = "summary", !.loaded = session, !.result = result]
  <1>1. request[x].pc = "finish" /\ RequestsTyped
    BY DEF IInv, RequestInv, ReadSummary, At
  <1>2. request[x] \in Busy /\ request[x] # Idle
    BY <1>1, BusyType
  <1>3. result \in SessionStatus /\ session \in SessionStatus
    BY DEF IInv, TypeOK, Summary, SessionStatus
  <1> HIDE DEF result
  <1>4. request' = [request EXCEPT ![x] = p]
    BY <1>1, <1>2 DEF ReadSummary, RequestsTyped, Busy, result
  <1>5. /\ p \in Busy /\ p.kind = request[x].kind /\ p.user = request[x].user
        /\ p.address = request[x].address /\ p.pc = "summary" /\ p.held = request[x].held
    BY <1>2, <1>3 DEF Busy
  <1> HIDE DEF p
  <1>6. RequestInv'
    BY <1>1, <1>2, <1>4, <1>5, MoveRequest
       DEF IInv, ReadSummary, registry, Storing, Accessing
  <1> QED
    BY <1>6, QuietStep DEF IInv, TypeOK, ReadSummary, registry, candidates, counters

\* WriteSummary: the request ends with the session.
LEMMA WriteSummaryStep ==
  ASSUME IInv, NEW x \in Actor, WriteSummary(x)
  PROVE  IInv'
  <1>1. request[x] \in Busy
    BY BusyType DEF IInv, RequestInv, WriteSummary, At
  <1>2. session' \in SessionStatus
    BY <1>1 DEF IInv, TypeOK, WriteSummary, Written, Busy
  <1>3. RequestInv'
    BY FinishRequest DEF IInv, WriteSummary, registry
  <1> QED
    BY <1>2, <1>3, QuietStep DEF IInv, TypeOK, WriteSummary, registry, candidates, counters

\* CommitSkip: the candidate is dismissed, and the request goes on to the session.
LEMMA CommitSkipStep ==
  ASSUME IInv, NEW x \in Actor, CommitSkip(x)
  PROVE  IInv'
  <1> DEFINE p == [request[x] EXCEPT !.pc = "finish"]
  <1>1. request[x].pc = "skip" /\ RequestsTyped
    BY DEF IInv, RequestInv, CommitSkip, At
  <1>2. request[x] \in Busy
    BY <1>1, BusyType
  <1>3. request' = [request EXCEPT ![x] = p]
    BY <1>1, <1>2 DEF CommitSkip, Become, RequestsTyped, Busy
  <1>4. /\ p \in Busy /\ p.kind = request[x].kind /\ p.user = request[x].user
        /\ p.address = request[x].address /\ p.pc = "finish" /\ p.held = request[x].held
    BY <1>2 DEF Busy
  <1> HIDE DEF p
  <1>5. RequestInv'
    BY <1>1, <1>2, <1>3, <1>4, MoveRequest
       DEF IInv, CommitSkip, registry, Storing, Accessing
  <1>6. status' \in [Address -> Status]
    BY DEF IInv, TypeOK, CommitSkip, Written, Status
  <1> QED
    BY <1>5, <1>6, QuietStep DEF IInv, TypeOK, CommitSkip, registry, counters

\* Crash: the request ends; the walk is over when it was the walk's.
LEMMA CrashStep ==
  ASSUME IInv, NEW x \in Actor, Crash(x)
  PROVE  IInv'
  <1>1. crashes' \in 0 .. MaxFaults
    BY DiscoveryAssumption DEF IInv, TypeOK, Crash
  <1> QED
    BY <1>1, WalkLeft DEF IInv, Crash, registry, candidates

-----------------------------------------------------------------------------
(* Organizations, and a claim, which changes the registry.                 *)

\* AddMember: nobody loses a role, and the organization has an owner already.
LEMMA AddMemberStep ==
  ASSUME IInv, NEW actor \in User, NEW u \in User, NEW o \in User, NEW r \in Granted,
         AddMember(actor, u, o, r)
  PROVE  IInv'
  <1>1. /\ role \in [User -> [User -> {"none", "viewer", "operator", "owner"}]]
        /\ r \in {"none", "viewer", "operator", "owner"} /\ RoleInv
        /\ role[actor][o] = "owner" /\ role[u][o] = "none"
        /\ role' = [role EXCEPT ![u][o] = r]
    BY DiscoveryAssumption DEF IInv, TypeOK, RequestInv, AddMember
  <1>2. /\ role' \in [User -> [User -> {"none", "viewer", "operator", "owner"}]]
        /\ \A v, w \in User : role'[v][w] = IF v = u /\ w = o THEN r ELSE role[v][w]
    BY <1>1
  <1>3. RoleInv'
    BY <1>1, <1>2 DEF RoleInv
  <1>4. \A v, w \in User : role[v][w] \in Operate => role'[v][w] \in Operate
    BY <1>1, <1>2 DEF Operate
  <1>5. UNCHANGED <<owner, session, limit, org, candidates, walk, request, overlaps, counters>>
    BY DEF AddMember
  <1>6. AccessInv'
    <2>1. ASSUME NEW x \in Actor, request[x] # Idle
          PROVE  Authorized(request[x])'
      <3>1. Authorized(request[x]) /\ request[x] \in Busy
        BY <2>1, NotIdle DEF IInv, RequestInv, AccessInv
      <3> QED
        BY <1>4, <1>5, <3>1 DEF Authorized, Busy
    <2> QED
      BY <1>5, <2>1 DEF AccessInv
  <1>7. RequestInv'
    BY <1>3, <1>5, <1>6
       DEF IInv, RequestInv, RequestsTyped, LockInv, Exclusive, PlacedInv, Placed
  <1>8. TypeOK'
    BY <1>2, <1>5 DEF IInv, TypeOK, candidates, counters
  <1>9. WalkInv'
    BY <1>4, <1>5, DiscoveryAssumption DEF IInv, WalkInv
  <1>10. AuditInv'
    BY <1>5 DEF IInv, AuditInv, ImportsOwned, candidates
  <1> QED
    BY <1>7, <1>8, <1>9, <1>10 DEF IInv

\* Claim: the device is still nobody's, because no other request holds its row; it becomes
\* that of an organization the user operates, its own one if need be.
LEMMA ClaimStep ==
  ASSUME IInv, NEW x \in Actor, Claim(x)
  PROVE  IInv'
  <1> DEFINE q == request[x]
             p == [q EXCEPT !.pc = "pull", !.held = {}, !.loaded = "none"]
  <1>1. q.pc = "claim" /\ RequestsTyped
    BY DEF IInv, RequestInv, Claim, At
  <1>2. q \in Busy /\ q # Idle
    BY <1>1, BusyType
  <1>3. /\ q.address \in Address /\ q.claim \in User /\ q.user \in User /\ q.held \subseteq Address
        /\ owner \in [Address -> User \cup {Nobody, NoDevice}]
        /\ role \in [User -> [User -> {"none", "viewer", "operator", "owner"}]]
    BY <1>2 DEF IInv, TypeOK, Busy
  <1>4. /\ owner[q.address] \notin User /\ q.address \in q.held
        /\ q.claim = q.user \/ role[q.user][q.claim] \in Operate
    BY <1>1, <1>2 DEF IInv, RequestInv, AccessInv, Authorized
  <1>5. request' = [request EXCEPT ![x] = p]
    BY <1>1, <1>2 DEF Claim, RequestsTyped, Busy
  <1>6. /\ p \in Busy /\ p.kind = q.kind /\ p.user = q.user /\ p.address = q.address
        /\ p.pc = "pull" /\ p.held = {} /\ p.claim = q.claim
    BY <1>2 DEF Busy, Status, SessionStatus
  <1>7. /\ owner' \in [Address -> User \cup {Nobody, NoDevice}]
        /\ owner'[q.address] = q.claim
        /\ \A a \in Address \ {q.address} : owner'[a] = owner[a]
    BY <1>3 DEF Claim
  <1>8. /\ role' \in [User -> [User -> {"none", "viewer", "operator", "owner"}]]
        /\ \A v, w \in User :
             \/ role'[v][w] = role[v][w]
             \/ v = q.user /\ w = q.user /\ role[v][w] = "none" /\ role'[v][w] = "owner"
        /\ q.claim = q.user => role'[q.user][q.user] # "none"
    <2>1. CASE q.claim = q.user
      <3>1. role' = WithPersonal(q.user)
        BY <2>1 DEF Claim
      <3>2. /\ role' \in [User -> [User -> {"none", "viewer", "operator", "owner"}]]
            /\ \A v, w \in User : role'[v][w] =
                 IF v = q.user /\ w = q.user /\ role[v][w] = "none" THEN "owner" ELSE role[v][w]
        BY <1>3, <3>1 DEF WithPersonal
      <3> QED
        BY <1>3, <3>2
    <2>2. CASE q.claim # q.user
      BY <1>3, <2>2 DEF Claim
    <2> QED
      BY <2>1, <2>2
  <1>9. UNCHANGED <<session, limit, org, candidates, walk, overlaps, counters>>
    BY DEF Claim
  <1> HIDE DEF p
  <1>10. RoleInv'
    BY <1>3, <1>8 DEF IInv, RequestInv, RoleInv
  <1>11. role'[q.user][q.claim] \in Operate
    BY <1>3, <1>4, <1>8, <1>10 DEF RoleInv, Operate
  <1>12. \A v, w \in User : role[v][w] \in Operate => role'[v][w] \in Operate
    BY <1>8 DEF Operate
  <1>13. request'[x] = p /\ \A y \in Actor \ {x} : request'[y] = request[y]
    BY <1>1, <1>5 DEF RequestsTyped
  <1>14. RequestsTyped'
    BY <1>1, <1>5, <1>6 DEF RequestsTyped
  <1>15. ASSUME NEW y \in Actor \ {x}, request[y] # Idle
         PROVE  Authorized(request[y])'
    <2>1. Authorized(request[y]) /\ request[y] \in Busy
      BY <1>1, <1>15, NotIdle DEF IInv, RequestInv, AccessInv
    <2>2. q.address \notin request[y].held
      BY <1>2, <1>4, <1>15 DEF IInv, RequestInv, LockInv, Exclusive
    <2>3. /\ request[y].address \in Address /\ request[y].user \in User
          /\ request[y].claim \in User
      BY <2>1 DEF Busy
    <2>4. request'[y] = request[y]
      BY <1>13
    <2>5. CASE request[y].pc \in {"access"}
      BY <1>12, <2>1, <2>3, <2>4, <2>5 DEF Authorized, Storing
    <2>6. CASE request[y].pc = "claim"
      BY <1>7, <1>12, <2>1, <2>2, <2>3, <2>4, <2>6 DEF Authorized, Storing
    <2>7. CASE request[y].pc \in {"pull"} \cup Storing
      BY <1>4, <1>7, <1>12, <2>1, <2>3, <2>4, <2>7 DEF Authorized, Storing
    <2>8. CASE request[y].pc \notin {"access", "claim", "pull"} \cup Storing
      BY <2>4, <2>8 DEF Authorized
    <2> QED
      BY <2>5, <2>6, <2>7, <2>8
  <1>16. Authorized(request[x])'
    BY <1>3, <1>6, <1>7, <1>11, <1>13 DEF Authorized, Storing
  <1>17. AccessInv'
    BY <1>13, <1>15, <1>16 DEF AccessInv
  <1>18. LockInv'
    BY <1>6, <1>13 DEF IInv, RequestInv, LockInv, Exclusive
  <1>19. PlacedInv'
    <2>1. ASSUME NEW y \in Actor \ {x}, request[y] # Idle
          PROVE  Placed(y, request[y])'
      <3>1. Placed(y, request[y]) /\ Authorized(request[y]) /\ request[y] \in Busy
        BY <1>1, <2>1, NotIdle DEF IInv, RequestInv, PlacedInv, AccessInv
      <3>2. request[y].address \in Address /\ request'[y] = request[y]
        BY <1>13, <3>1 DEF Busy
      <3>3. request[y].pc \in Storing => request[y].address # q.address
        BY <1>4, <3>1 DEF Authorized
      <3> QED
        BY <1>7, <1>9, <3>1, <3>2, <3>3 DEF Placed
    <2>2. Placed(x, request[x])'
      BY <1>1, <1>2, <1>6, <1>9, <1>13
         DEF IInv, RequestInv, PlacedInv, Placed, Accessing, Storing
    <2> QED
      BY <1>13, <2>1, <2>2 DEF PlacedInv
  <1>20. RequestInv'
    BY <1>10, <1>14, <1>17, <1>18, <1>19 DEF RequestInv
  <1>21. TypeOK'
    BY <1>7, <1>8, <1>9, <1>14 DEF IInv, TypeOK, candidates, counters, RequestsTyped
  <1>22. WalkInv'
    BY <1>9, <1>12, DiscoveryAssumption DEF IInv, WalkInv
  <1>23. AuditInv'
    <2>1. ASSUME NEW a \in Address, audits[a] > 0
          PROVE  owner'[a] = org
      <3>1. owner[a] = org /\ walk # NoWalk
        BY <2>1 DEF IInv, TypeOK, AuditInv, ImportsOwned
      <3> QED
        BY <1>4, <1>7, <3>1 DEF IInv, WalkInv
    <2> QED
      BY <1>9, <2>1 DEF IInv, AuditInv, ImportsOwned, candidates
  <1> QED
    BY <1>20, <1>21, <1>22, <1>23 DEF IInv

-----------------------------------------------------------------------------
(* The walk.                                                               *)

\* A walk that goes on with entries above the last level.
LEMMA WalkGoesOn ==
  ASSUME IInv, RequestInv', walk # NoWalk, walk' \in Walking,
         walk'.depth < limit.depth,
         \A n \in DOMAIN walk'.queue : walk'.queue[n][2] < limit.depth,
         UNCHANGED <<owner, role, limit, org, linked, audits, overlaps, requests, crashes>>,
         session' \in SessionStatus, status' \in [Address -> Status],
         depth' \in [Address -> 0 .. limit.depth], parent' \in [Address -> Address],
         failures' \in 0 .. MaxFaults
  PROVE  IInv'
  <1>1. walk' # NoWalk
    BY DEF Walking, NoWalk
  <1>2. TypeOK'
    BY DEF IInv, TypeOK, RequestInv, RequestsTyped
  <1>3. WalkInv'
    BY DEF IInv, WalkInv
  <1>4. AuditInv'
    BY <1>1 DEF IInv, AuditInv, ImportsOwned
  <1> QED
    BY <1>2, <1>3, <1>4 DEF IInv

\* Nothing about the requests depends on where a walk is.
LEMMA SameRequests ==
  ASSUME IInv, walk # NoWalk, walk' \in Walking, UNCHANGED <<owner, role, org, request>>
  PROVE  RequestInv'
  <1>1. walk' # NoWalk
    BY DEF Walking, NoWalk
  <1> QED
    BY <1>1 DEF IInv, RequestInv, RequestsTyped, AccessInv, Authorized, LockInv, Exclusive,
                RoleInv, PlacedInv, Placed

\* A walk has the type of one, and every level is a number.
LEMMA WalkType ==
  ASSUME IInv, walk.pc = "loop"
  PROVE  /\ walk # NoWalk /\ walk \in Walking /\ limit.depth \in Nat \ {0}
         /\ walk.depth < limit.depth
         /\ \A n \in DOMAIN walk.queue : walk.queue[n][2] < limit.depth
  BY DiscoveryAssumption DEF IInv, TypeOK, WalkInv, NoWalk

\* Ask: the head of the queue is taken, and its answers with it unless it fails.
LEMMA AskStep ==
  ASSUME IInv, Ask
  PROVE  IInv'
  <1>1. /\ walk # NoWalk /\ walk \in Walking
        /\ \A n \in DOMAIN walk.queue : walk.queue[n][2] < limit.depth
    BY WalkType DEF Ask, Free
  <1>2. /\ walk.queue \in Seq(Address \X Nat) /\ walk.queue # <<>>
    BY <1>1 DEF Walking, Ask
  <1>3. /\ FirstFirst[1] = walk.queue[1] /\ FirstFirst[2] = Tail(walk.queue)
        /\ FirstFirst[1] \in Address \X Nat /\ FirstFirst[2] \in Seq(Address \X Nat)
        /\ FirstFirst[1][2] < limit.depth
        /\ \A n \in DOMAIN FirstFirst[2] : FirstFirst[2][n][2] < limit.depth
    BY <1>1, <1>2 DEF FirstFirst
  <1>4. FirstFirst[1][1] \in Address /\ FirstFirst[1][2] \in Nat
    BY <1>3
  <1>5. Neighbors[FirstFirst[1][1]] \in Seq(Address \cup Unsafe)
    BY <1>4, DiscoveryAssumption
  <1> DEFINE next == FirstFirst[1]
             answered == [walk EXCEPT !.queue = FirstFirst[2], !.parent = next[1],
                                      !.depth = next[2], !.answers = Neighbors[next[1]]]
             failed == [walk EXCEPT !.queue = FirstFirst[2], !.parent = next[1],
                                    !.depth = next[2], !.error = @ \/ next[2] = 0]
  <1>6. walk' = answered \/ walk' = failed
    BY DEF Ask
  <1>7. walk' \in Walking /\ walk'.queue = FirstFirst[2] /\ walk'.depth = FirstFirst[1][2]
    <2>1. CASE walk' = answered
      BY <1>1, <1>3, <1>4, <1>5, <2>1 DEF Walking
    <2>2. CASE walk' = failed
      <3>1. (walk.error \/ next[2] = 0) \in BOOLEAN
        OBVIOUS
      <3>2. PICK e \in BOOLEAN : failed = [walk EXCEPT !.queue = FirstFirst[2],
                                  !.parent = next[1], !.depth = next[2], !.error = e]
        BY <3>1
      <3> HIDE DEF failed
      <3> QED
        BY <1>1, <1>3, <1>4, <2>2, <3>2 DEF Walking
    <2> QED
      BY <1>6, <2>1, <2>2
  <1>8. failures' \in 0 .. MaxFaults
    <2>1. failures' = failures \/ Failure
      BY DEF Ask
    <2> QED
      BY <2>1, DiscoveryAssumption DEF IInv, TypeOK, Failure
  <1>9. RequestInv'
    BY <1>1, <1>7, SameRequests DEF Ask, registry
  <1> QED
    BY <1>1, <1>3, <1>7, <1>8, <1>9, WalkGoesOn
       DEF IInv, TypeOK, Ask, registry, candidates

\* DropAnswers and PassOver: answers are dropped, all of them or the first.
LEMMA AnswersStep ==
  ASSUME IInv, DropAnswers \/ PassOver
  PROVE  IInv'
  <1>1. /\ walk # NoWalk /\ walk \in Walking /\ walk.depth < limit.depth
        /\ \A n \in DOMAIN walk.queue : walk.queue[n][2] < limit.depth
    BY WalkType DEF DropAnswers, PassOver, Free
  <1>2. walk.answers \in Seq(Address \cup Unsafe) /\ walk.answers # <<>>
    BY <1>1 DEF Walking, DropAnswers, PassOver
  <1>3. /\ <<>> \in Seq(Address \cup Unsafe)
        /\ Tail(walk.answers) \in Seq(Address \cup Unsafe)
    BY <1>2
  <1>4. PICK answers \in Seq(Address \cup Unsafe) : walk' = [walk EXCEPT !.answers = answers]
    BY <1>3 DEF DropAnswers, PassOver
  <1>5. walk' \in Walking /\ walk'.queue = walk.queue /\ walk'.depth = walk.depth
    BY <1>1, <1>4 DEF Walking
  <1>6. UNCHANGED <<registry, session, limit, org, candidates, request, overlaps, counters>>
    BY DEF DropAnswers, PassOver
  <1>7. RequestInv'
    BY <1>1, <1>5, <1>6, SameRequests DEF registry
  <1> QED
    BY <1>1, <1>5, <1>6, <1>7, WalkGoesOn DEF IInv, TypeOK, registry, candidates, counters

\* Answer: the walk is over.
LEMMA AnswerStep ==
  ASSUME IInv, Answer
  PROVE  IInv'
  <1>1. /\ walk # NoWalk /\ walk \in Walking /\ walk.depth < limit.depth
        /\ \A n \in DOMAIN walk.queue : walk.queue[n][2] < limit.depth
    BY WalkType DEF Answer, Free
  <1>2. PICK pc \in {"lost", "over"} : walk' = [walk EXCEPT !.pc = pc]
    BY DEF Answer
  <1>3. walk' \in Walking /\ walk'.queue = walk.queue /\ walk'.depth = walk.depth
    BY <1>1, <1>2 DEF Walking
  <1>4. session' \in SessionStatus
    BY DEF Answer, Summary, SessionStatus
  <1>5. RequestInv'
    BY <1>1, <1>3, SameRequests DEF Answer, registry
  <1> QED
    BY <1>1, <1>3, <1>4, <1>5, WalkGoesOn
       DEF IInv, TypeOK, Answer, registry, candidates, counters

-----------------------------------------------------------------------------
(* Requests that start.                                                    *)

\* A request that starts, or goes on to another device with the rows it holds, as long as
\* it will claim for an organization its user operates or for the user's own.
LEMMA StartRequest ==
  ASSUME RequestInv, NEW x \in Actor, NEW p \in Busy,
         request' = [request EXCEPT ![x] = p],
         UNCHANGED <<owner, role, org>>, walk' = NoWalk <=> walk = NoWalk,
         p.held = {} \/ (request[x] # Idle /\ p.held = request[x].held),
         p.pc \in {"access", "skip"},
         p.pc = "access" => p.claim = p.user \/ role[p.user][p.claim] \in Operate,
         walk = NoWalk => p.kind \in {"seed", "pull", "neighbor"} /\ p.pc = "access",
         p.kind = "seed" =>
           x = Walk /\ walk = NoWalk /\ p.address = Seed /\ p.user = Starter
  PROVE  RequestInv'
  <1>1. Authorized(p)
    BY DEF Authorized, Storing
  <1>2. Placed(x, p)
    BY DEF Placed, Storing, Accessing
  <1>3. Exclusive(x, p)
    BY DEF RequestInv, LockInv, Exclusive
  <1> QED
    BY <1>1, <1>2, <1>3, OneRequest

\* RequestSession: the walk's request accesses the seed for its starter.
LEMMA RequestSessionStep ==
  ASSUME IInv, RequestSession
  PROVE  IInv'
  <1> DEFINE p == [pc |-> "access", kind |-> "seed", user |-> Starter, address |-> Seed,
                   claim |-> Starter, seen |-> NoDevice, held |-> {}, result |-> "none",
                   loaded |-> "none"]
  <1>1. /\ request' = [request EXCEPT ![Walk] = p] /\ walk = NoWalk /\ Walk \in Actor
    BY DEF RequestSession, Start, Actor
  <1>2. /\ p \in Busy /\ p.pc = "access" /\ p.kind = "seed" /\ p.user = Starter
        /\ p.address = Seed /\ p.claim = Starter /\ p.held = {}
    BY DiscoveryAssumption DEF Busy, SessionStatus
  <1> HIDE DEF p
  <1>3. RequestInv'
    BY <1>1, <1>2, StartRequest DEF IInv, RequestSession, registry
  <1> QED
    BY <1>3, QuietStep DEF IInv, TypeOK, RequestSession, registry, candidates, counters

\* Process and Skip: the user operates the organization of a session that exists.
LEMMA OperatorStep ==
  ASSUME IInv, NEW r \in Request, NEW u \in User, NEW a \in Address,
         NEW kind \in Operation, NEW pc \in {"access", "skip"}, Operator(r, u, a, kind, pc)
  PROVE  IInv'
  <1> DEFINE p == [pc |-> pc, kind |-> kind, user |-> u, address |-> a,
                   claim |-> org, seen |-> NoDevice, held |-> {}, result |-> "none",
                   loaded |-> status[a]]
  <1>1. request' = [request EXCEPT ![r] = p] /\ r \in Actor
    BY DEF Operator, Start, Actor
  <1>2. walk # NoWalk /\ org \in User
    BY DEF IInv, WalkInv, Operator, NoWalk
  <1>3. /\ p \in Busy /\ p.pc = pc /\ p.kind = kind /\ p.user = u
        /\ p.address = a /\ p.claim = org /\ p.held = {}
    BY <1>2 DEF IInv, TypeOK, Busy, SessionStatus, Operation
  <1> HIDE DEF p
  <1>4. role[u][org] \in Operate /\ kind # "seed"
    BY DEF Operator, Operation
  <1>5. RequestInv'
    BY <1>1, <1>2, <1>3, <1>4, StartRequest DEF IInv, Operator, registry
  <1>6. overlaps' \subseteq SUBSET Address
    <2>1. ASSUME NEW y \in Request, request[y] # Idle
          PROVE  Mine(y) \in Address
      BY <2>1, NotIdle DEF IInv, RequestInv, Mine, Busy, Actor
    <2> QED
      BY <2>1 DEF IInv, TypeOK, Operator
  <1>7. requests' \in 0 .. MaxRequests
    BY DiscoveryAssumption DEF IInv, TypeOK, Operator, NewRequest
  <1> QED
    BY <1>5, <1>6, <1>7, QuietStep DEF IInv, TypeOK, Operator, registry, candidates

\* PullDevice: the device is accessed for the user's own organization.
LEMMA PullDeviceStep ==
  ASSUME IInv, NEW r \in Request, NEW u \in User, NEW a \in Address, PullDevice(r, u, a)
  PROVE  IInv'
  <1> DEFINE p == [pc |-> "access", kind |-> "pull", user |-> u, address |-> a,
                   claim |-> u, seen |-> NoDevice, held |-> {}, result |-> "none",
                   loaded |-> "none"]
  <1>1. request' = [request EXCEPT ![r] = p] /\ r \in Actor
    BY DEF PullDevice, Visit, Start, Actor
  <1>2. /\ p \in Busy /\ p.pc = "access" /\ p.kind = "pull" /\ p.user = u
        /\ p.address = a /\ p.claim = u /\ p.held = {}
    BY DEF Busy, SessionStatus
  <1> HIDE DEF p
  <1>3. RequestInv'
    BY <1>1, <1>2, StartRequest DEF IInv, PullDevice, Visit, registry
  <1>4. requests' \in 0 .. MaxRequests
    BY DiscoveryAssumption DEF IInv, TypeOK, PullDevice, Visit, NewRequest
  <1> QED
    BY <1>3, <1>4, QuietStep
       DEF IInv, TypeOK, PullDevice, Visit, registry, candidates

\* PullNeighbor: the neighbor is accessed for the organization of the device that
\* reported it, which the user operates.
LEMMA PullNeighborStep ==
  ASSUME IInv, NEW r \in Request, NEW a \in Address, PullNeighbor(r, a)
  PROVE  IInv'
  <1> DEFINE q == request[r]
             p == [pc |-> "access", kind |-> "neighbor", user |-> q.user, address |-> a,
                   claim |-> owner[q.address], seen |-> NoDevice, held |-> q.held,
                   result |-> "none", loaded |-> "none"]
  <1>1. request' = [request EXCEPT ![r] = p] /\ r \in Actor /\ q.pc = "pull"
    BY DEF PullNeighbor, Start, Actor, At
  <1>2. q \in Busy /\ q # Idle
    BY <1>1, BusyType DEF IInv, RequestInv
  <1>3. owner[q.address] \in User /\ role[q.user][owner[q.address]] \in Operate
    BY <1>1, <1>2 DEF IInv, RequestInv, AccessInv, Authorized
  <1>4. /\ p \in Busy /\ p.pc = "access" /\ p.kind = "neighbor" /\ p.user = q.user
        /\ p.address = a /\ p.claim = owner[q.address] /\ p.held = q.held
    BY <1>2, <1>3 DEF Busy, SessionStatus
  <1> HIDE DEF p
  <1>5. RequestInv'
    BY <1>1, <1>2, <1>3, <1>4, StartRequest DEF IInv, PullNeighbor, registry
  <1> QED
    BY <1>5, QuietStep DEF IInv, TypeOK, PullNeighbor, registry, candidates, counters

\* Discover: the candidate is one level below the device asked, and its import claims for
\* the session's organization.
LEMMA DiscoverStep ==
  ASSUME IInv, Discover
  PROVE  IInv'
  <1> DEFINE a == Head(walk.answers)
             p == [pc |-> "access", kind |-> "import", user |-> Starter, address |-> a,
                   claim |-> org, seen |-> NoDevice, held |-> {}, result |-> "none",
                   loaded |-> "discovered"]
  <1>1. /\ walk # NoWalk /\ walk \in Walking /\ walk.depth < limit.depth
        /\ limit.depth \in Nat \ {0}
        /\ \A n \in DOMAIN walk.queue : walk.queue[n][2] < limit.depth
    BY WalkType DEF Discover, Free
  <1>2. /\ walk.answers \in Seq(Address \cup Unsafe) /\ walk.answers # <<>>
        /\ walk.depth \in Nat /\ walk.parent \in Address /\ walk.seen \subseteq Address
    BY <1>1 DEF Walking, Discover
  <1>3. a \in Address /\ Tail(walk.answers) \in Seq(Address \cup Unsafe)
    BY <1>2 DEF Discover
  <1>4. walk' \in Walking /\ walk'.queue = walk.queue /\ walk'.depth = walk.depth
    BY <1>1, <1>2, <1>3 DEF Discover, Walking
  <1>5. depth' \in [Address -> 0 .. limit.depth]
    BY <1>1, <1>2, <1>3 DEF IInv, TypeOK, Discover
  <1>6. parent' \in [Address -> Address]
    BY <1>2, <1>3 DEF IInv, TypeOK, Discover
  <1>7. status' \in [Address -> Status]
    BY <1>3 DEF IInv, TypeOK, Discover, Status
  <1>8. org \in User /\ role[Starter][org] \in Operate
    BY <1>1 DEF IInv, WalkInv
  <1>9. RequestInv'
    <2>1. CASE a \in Loginable
      <3>1. request' = [request EXCEPT ![Walk] = p] /\ Walk \in Actor
        BY <2>1 DEF Discover, Start, Actor
      <3>2. /\ p \in Busy /\ p.pc = "access" /\ p.kind = "import" /\ p.user = Starter
            /\ p.address = a /\ p.claim = org /\ p.held = {}
        BY <1>3, <1>8, DiscoveryAssumption DEF Busy, SessionStatus, Status, Operation
      <3>3. walk' # NoWalk
        BY <1>4 DEF Walking, NoWalk
      <3> HIDE DEF p
      <3> QED
        BY <1>1, <1>8, <3>1, <3>2, <3>3, StartRequest DEF IInv, Discover, registry
    <2>2. CASE a \notin Loginable
      BY <1>1, <1>4, <2>2, SameRequests DEF Discover, registry
    <2> QED
      BY <2>1, <2>2
  <1> QED
    BY <1>1, <1>4, <1>5, <1>6, <1>7, <1>9, WalkGoesOn
       DEF IInv, TypeOK, Discover, registry, counters

\* CreateSession: the seed's owner, which the starter operates, owns the session; nothing
\* has been stored yet.
LEMMA CreateSessionStep ==
  ASSUME IInv, CreateSession
  PROVE  IInv'
  <1> DEFINE q == request[Walk]
             w == [pc |-> "loop", queue |-> << <<Seed, 0>> >>, parent |-> Seed, depth |-> 0,
                   answers |-> <<>>, seen |-> {Seed}, error |-> FALSE]
  <1>1. q.pc = "pull" /\ q.kind = "seed" /\ Walk \in Actor /\ RequestsTyped
    BY DEF IInv, RequestInv, CreateSession, At, Actor
  <1>2. q \in Busy /\ q # Idle
    BY <1>1, BusyType
  <1>3. q.address = Seed /\ q.user = Starter /\ walk = NoWalk
    BY <1>1, <1>2 DEF IInv, RequestInv, PlacedInv, Placed
  <1>4. owner[Seed] \in User /\ role[Starter][owner[Seed]] \in Operate
    BY <1>1, <1>2, <1>3 DEF IInv, RequestInv, AccessInv, Authorized
  <1>5. /\ w \in Walking /\ w.depth = 0 /\ DOMAIN w.queue = {1}
        /\ w.queue[1] = <<Seed, 0>> /\ w # NoWalk
    BY DiscoveryAssumption DEF Walking, NoWalk
  <1>6. /\ walk' = w /\ org' = owner[Seed] /\ session' = "running"
        /\ request' = [request EXCEPT ![Walk] = Idle]
        /\ UNCHANGED <<registry, limit, candidates, overlaps, counters>>
    BY DEF CreateSession, Finished
  <1> HIDE DEF w
  <1>7. request'[Walk] = Idle /\ \A y \in Actor \ {Walk} : request'[y] = request[y]
    BY <1>1, <1>6 DEF RequestsTyped
  <1>8. RequestInv'
    <2>1. RequestsTyped'
      BY <1>1, <1>6 DEF RequestsTyped
    <2>2. AccessInv'
      BY <1>6, <1>7 DEF IInv, RequestInv, AccessInv, Authorized, registry
    <2>3. LockInv'
      BY <1>7 DEF IInv, RequestInv, LockInv, Exclusive
    <2>4. RoleInv'
      BY <1>6 DEF IInv, RequestInv, RoleInv, registry
    <2>5. PlacedInv'
      <3>1. ASSUME NEW y \in Actor \ {Walk}, request[y] # Idle
            PROVE  request[y].kind # "seed" /\ request[y].pc \notin Storing
        BY <1>3, <3>1
           DEF IInv, RequestInv, PlacedInv, Placed, Storing, Accessing
      <3> QED
        BY <1>5, <1>6, <1>7, <3>1 DEF PlacedInv, Placed
    <2> QED
      BY <2>1, <2>2, <2>3, <2>4, <2>5 DEF RequestInv
  <1>9. TypeOK'
    BY <1>4, <1>5, <1>6, <1>8
       DEF IInv, TypeOK, registry, candidates, counters, RequestInv, RequestsTyped, SessionStatus
  <1>10. WalkInv'
    BY <1>4, <1>5, <1>6, DiscoveryAssumption DEF IInv, TypeOK, WalkInv, registry
  <1>11. AuditInv'
    BY <1>3, <1>5, <1>6 DEF IInv, TypeOK, AuditInv, ImportsOwned, registry, candidates
  <1> QED
    BY <1>8, <1>9, <1>10, <1>11 DEF IInv

-----------------------------------------------------------------------------
(* The theorems.                                                           *)

\* No request accesses a device yet, no session exists and every owner has a member.
LEMMA Initially == Init => IInv
  <1> SUFFICES ASSUME Init
      PROVE  IInv
    OBVIOUS
  <1>1. TypeOK
    <2>1. role \in [User -> [User -> {"none", "viewer", "operator", "owner"}]]
      BY DEF Init
    <2>2. depth \in [Address -> 0 .. limit.depth]
      BY DiscoveryAssumption DEF Init
    <2>3. parent \in [Address -> Address]
      BY DiscoveryAssumption DEF Init
    <2>4. requests \in 0 .. MaxRequests /\ failures \in 0 .. MaxFaults /\ crashes \in 0 .. MaxFaults
      BY DiscoveryAssumption DEF Init
    <2> QED
      BY <2>1, <2>2, <2>3, <2>4 DEF Init, TypeOK, SessionStatus, Status
  <1>2. RequestInv
    BY DEF Init, RequestInv, RequestsTyped, AccessInv, LockInv, RoleInv, PlacedInv
  <1>3. WalkInv /\ AuditInv
    BY DEF Init, WalkInv, AuditInv, ImportsOwned
  <1> QED
    BY <1>1, <1>2, <1>3 DEF IInv

\* Every step keeps the invariant.
LEMMA Inductive == IInv /\ [Next]_vars => IInv'
  <1> SUFFICES ASSUME IInv, [Next]_vars
      PROVE  IInv'
    OBVIOUS
  <1>1. ASSUME NEW u \in User, NEW v \in User, NEW o \in User, NEW r \in Granted,
               AddMember(u, v, o, r)
        PROVE  IInv'
    BY <1>1, AddMemberStep
  <1>2. ASSUME NEW x \in Actor,
               Access(x) \/ Claim(x) \/ Deny(x) \/ DeadlockVictim(x)
        PROVE  IInv'
    BY <1>2, AccessStep, ClaimStep, DenyStep, VictimStep
  <1>3. ASSUME NEW x \in Actor, NEW rejected \in BOOLEAN, PullFails(x, rejected)
        PROVE  IInv'
    BY <1>3, PullFailsStep
  <1>4. ASSUME NEW x \in Actor,
               \/ Link(x) \/ Conflict(x) \/ Persist(x) \/ Record(x)
               \/ ReadSummary(x) \/ WriteSummary(x) \/ Crash(x)
        PROVE  IInv'
    BY <1>4, LinkStep, ConflictStep, PersistStep, RecordStep, ReadSummaryStep,
       WriteSummaryStep, CrashStep
  <1>5. CASE RequestSession \/ CreateSession \/ Ask \/ DropAnswers \/ PassOver \/ Discover
             \/ Answer
    BY <1>5, RequestSessionStep, CreateSessionStep, AskStep, AnswersStep, DiscoverStep,
       AnswerStep
  <1>6. ASSUME NEW r \in Request, NEW a \in Address, PullNeighbor(r, a)
        PROVE  IInv'
    BY <1>6, PullNeighborStep
  <1>7. ASSUME NEW r \in Request, NEW a \in Address, NEW u \in User,
               Process(r, u, a) \/ Skip(r, u, a)
        PROVE  IInv'
    BY <1>7, OperatorStep DEF Process, Skip, Operation
  <1>8. ASSUME NEW r \in Request, NEW a \in Address, NEW u \in User, PullDevice(r, u, a)
        PROVE  IInv'
    BY <1>8, PullDeviceStep
  <1>9. ASSUME NEW r \in Request, CommitSkip(r) \/ EndPull(r)
        PROVE  IInv'
    BY <1>9, CommitSkipStep, EndPullStep DEF Actor
  <1>10. CASE UNCHANGED vars
    BY <1>10
       DEF vars, registry, candidates, counters, IInv, TypeOK, RequestInv, RequestsTyped,
           AccessInv, Authorized, LockInv, Exclusive, RoleInv, PlacedInv, Placed, WalkInv,
           AuditInv, ImportsOwned
  <1> QED
    BY <1>1, <1>2, <1>3, <1>4, <1>5, <1>6, <1>7, <1>8, <1>9, <1>10 DEF Next

\* The invariant always holds.
LEMMA Invariant == Spec => []IInv
  BY Initially, Inductive, PTL DEF Spec

\* Every variable keeps its type.
THEOREM TypeCorrect == Spec => []TypeOK
  <1>1. IInv => TypeOK
    BY DEF IInv
  <1> QED
    BY <1>1, Invariant, PTL

\* access_device: however first accesses, claims, deadlocks and lost requests interleave, a
\* request talks to a device, and stores what it pulled, only for a user who operates the
\* organization that owns the device.
THEOREM AccessHolds == Spec => []AccessAuthorized
  <1>1. IInv => AccessAuthorized
    BY DEF IInv, RequestInv, AccessInv, Authorized, AccessAuthorized, Mine, Storing, Idle
  <1> QED
    BY <1>1, Invariant, PTL

\* What a session imports is owned by the session's organization, although other requests
\* claim devices while it walks.
THEOREM Imports == Spec => []ImportsOwned
  <1>1. IInv => ImportsOwned
    BY DEF IInv, AuditInv
  <1> QED
    BY <1>1, Invariant, PTL

\* Claiming: a device that has an owner keeps it, because the row lock taken before the
\* owner is read is held until the claim commits.
THEOREM OwnersKept == Spec => OwnerKept
  <1> DEFINE Kept == \A a \in Address : owner[a] \in User => owner'[a] = owner[a]
  <1>1. ASSUME IInv, NEW x \in Actor, Claim(x)
        PROVE  Kept
    <2>1. request[x] # Idle /\ request[x].pc = "claim"
      BY <1>1 DEF Claim, At, Idle
    <2>2. owner[request[x].address] \notin User
      BY <1>1, <2>1 DEF IInv, RequestInv, AccessInv, Authorized
    <2>3. owner \in [Address -> User \cup {Nobody, NoDevice}]
      BY <1>1 DEF IInv, TypeOK
    <2> QED
      BY <1>1, <2>2, <2>3 DEF Claim
  <1>2. ASSUME Next, ~(\E x \in Actor : Claim(x))
        PROVE  UNCHANGED owner
    <2>1. ASSUME NEW x \in Actor,
                 \/ Access(x) \/ Deny(x) \/ DeadlockVictim(x) \/ Link(x) \/ Conflict(x)
                 \/ Persist(x) \/ Record(x) \/ ReadSummary(x) \/ WriteSummary(x) \/ Crash(x)
          PROVE  UNCHANGED owner
      BY <2>1 DEF Access, Deny, DeadlockVictim, Link, Conflict, Persist, Record,
         ReadSummary, WriteSummary, Crash, registry
    <2>2. ASSUME NEW x \in Actor, NEW rejected \in BOOLEAN, PullFails(x, rejected)
          PROVE  UNCHANGED owner
      BY <2>2 DEF PullFails, registry
    <2>3. CASE \E u, v \in User, o \in User, r \in Granted : AddMember(u, v, o, r)
      BY <2>3 DEF AddMember
    <2>4. CASE RequestSession \/ CreateSession \/ Ask \/ DropAnswers \/ PassOver \/ Discover
               \/ Answer
      BY <2>4 DEF RequestSession, CreateSession, Ask, DropAnswers, PassOver, Discover,
         Answer, registry
    <2>5. ASSUME NEW r \in Request, NEW a \in Address, PullNeighbor(r, a)
          PROVE  UNCHANGED owner
      BY <2>5 DEF PullNeighbor, registry
    <2>6. ASSUME NEW r \in Request, NEW a \in Address, NEW u \in User,
                 Process(r, u, a) \/ Skip(r, u, a) \/ PullDevice(r, u, a)
          PROVE  UNCHANGED owner
      BY <2>6 DEF Process, Skip, Operator, PullDevice, Visit, registry
    <2>7. ASSUME NEW r \in Request, CommitSkip(r) \/ EndPull(r)
          PROVE  UNCHANGED owner
      BY <2>7 DEF CommitSkip, EndPull, registry
    <2> QED
      BY <1>2, <2>1, <2>2, <2>3, <2>4, <2>5, <2>6, <2>7 DEF Next
  <1>3. IInv /\ [Next]_vars => [Kept]_owner
    BY <1>1, <1>2 DEF vars, registry
  <1> QED
    BY <1>3, Invariant, PTL DEF Spec, OwnerKept

-----------------------------------------------------------------------------
(* The invariant of the walk's bounds.                                     *)

\* A device whose neighbors may be asked for: the seed, or a candidate with an audit.
Reached(a) == a = Seed \/ (a \in Candidates /\ audits[a] > 0)

\* Only candidates are imported or dismissed, and what was sent has been stored.
Shaped(p) ==
  /\ p.pc = "skip" => p.kind \in Operation
  /\ p.kind \in Operation => p.address \in Candidates
  /\ p.pc \in {"sent", "refused"} => audits[p.address] > 0

RequestsShaped == \A x \in Actor : request[x] # Idle => Shaped(request[x])

\* What the walk has seen is the seed and its candidates, at most one more than allowed;
\* the device it asks, and those that wait, are reached, at the depth it believes.
Walked ==
  /\ Seed \in walk.seen /\ Candidates = walk.seen \ {Seed}
  /\ IsFiniteSet(walk.seen) /\ Cardinality(walk.seen) - 1 <= limit.devices
  /\ Reached(walk.parent) /\ depth[walk.parent] = walk.depth
  /\ \A n \in DOMAIN walk.queue :
       Reached(walk.queue[n][1]) /\ depth[walk.queue[n][1]] = walk.queue[n][2]

WalkedInv == (walk = NoWalk => Candidates = {}) /\ (walk # NoWalk => Walked)

\* Every candidate is one level below a device that was reached.
TreeInv ==
  /\ depth[Seed] = 0
  /\ \A a \in Candidates : Reached(parent[a]) /\ depth[a] = depth[parent[a]] + 1

ShapeInv == RequestsShaped /\ WalkedInv /\ TreeInv

\* The walk is where it was, although it may have been lost.
SameWalk ==
  /\ walk' = NoWalk <=> walk = NoWalk
  /\ walk # NoWalk =>
       /\ walk'.seen = walk.seen /\ walk'.parent = walk.parent
       /\ walk'.depth = walk.depth /\ walk'.queue = walk.queue

\* Audits are only added.
AuditsKept == \A a \in Address : audits[a] > 0 => audits'[a] > 0

\* A walk that is lost has not moved.
LEMMA LostWalk ==
  ASSUME TypeOK, walk' \in {walk, [walk EXCEPT !.pc = "lost"]}, walk = NoWalk => walk' = walk
  PROVE  SameWalk
  <1>1. CASE walk = NoWalk
    BY <1>1 DEF SameWalk
  <1>2. CASE walk # NoWalk
    <2>1. walk \in Walking
      BY <1>2 DEF TypeOK
    <2> QED
      BY <1>2, <2>1 DEF SameWalk, Walking, NoWalk
  <1> QED
    BY <1>1, <1>2

\* A candidate that changes its status is still one.
LEMMA StillCandidates ==
  ASSUME TypeOK, NEW a \in Candidates, NEW s \in Status \ {"absent"},
         status' = [status EXCEPT ![a] = s]
  PROVE  Candidates' = Candidates
  BY DEF TypeOK, Candidates

\* What the walk knows stays true while candidates and their depths stay.
LEMMA ShapeFrame ==
  ASSUME ShapeInv, RequestsShaped', SameWalk, AuditsKept, UNCHANGED <<limit, depth, parent>>,
         Candidates' = Candidates
  PROVE  ShapeInv'
  <1>1. ASSUME NEW a, Reached(a)
        PROVE  Reached(a)'
    BY <1>1 DEF Reached, AuditsKept, Candidates
  <1>2. WalkedInv'
    <2>1. CASE walk = NoWalk
      BY <2>1 DEF ShapeInv, WalkedInv, SameWalk
    <2>2. CASE walk # NoWalk
      <3>1. Walked /\ walk' # NoWalk
        BY <2>2 DEF ShapeInv, WalkedInv, SameWalk
      <3>2. Reached(walk.parent)' /\ depth'[walk'.parent] = walk'.depth
        BY <1>1, <2>2, <3>1 DEF Walked, SameWalk
      <3>3. \A n \in DOMAIN walk'.queue :
              Reached(walk.queue[n][1])' /\ depth'[walk'.queue[n][1]] = walk'.queue[n][2]
        BY <1>1, <2>2, <3>1 DEF Walked, SameWalk
      <3> QED
        BY <2>2, <3>1, <3>2, <3>3 DEF Walked, WalkedInv, SameWalk
    <2> QED
      BY <2>1, <2>2
  <1>3. TreeInv'
    BY <1>1 DEF ShapeInv, TreeInv
  <1> QED
    BY <1>2, <1>3 DEF ShapeInv

\* One request changes.
LEMMA RequestStep ==
  ASSUME IInv, ShapeInv, NEW x \in Actor,
         \A y \in Actor \ {x} : request'[y] = request[y],
         request'[x] # Idle => Shaped(request[x])',
         SameWalk, AuditsKept, UNCHANGED <<limit, depth, parent>>, Candidates' = Candidates
  PROVE  ShapeInv'
  <1>1. ASSUME NEW y \in Actor \ {x}, request[y] # Idle
        PROVE  Shaped(request[y])'
    <2>1. Shaped(request[y]) /\ request[y] \in Busy /\ request'[y] = request[y]
      BY <1>1, NotIdle DEF IInv, RequestInv, ShapeInv, RequestsShaped
    <2>2. request[y].address \in Address
      BY <2>1 DEF Busy
    <2> QED
      BY <2>1, <2>2 DEF Shaped, AuditsKept
  <1>2. RequestsShaped'
    BY <1>1 DEF RequestsShaped
  <1> QED
    BY <1>2, ShapeFrame

\* A request ends.
LEMMA RequestEnds ==
  ASSUME IInv, ShapeInv, NEW x \in Actor, Finished(x),
         walk' \in {walk, [walk EXCEPT !.pc = "lost"]}, walk = NoWalk => walk' = walk,
         UNCHANGED <<limit, depth, parent, audits>>, Candidates' = Candidates
  PROVE  ShapeInv'
  <1>1. request'[x] = Idle /\ \A y \in Actor \ {x} : request'[y] = request[y]
    BY DEF IInv, RequestInv, RequestsTyped, Finished
  <1>2. SameWalk /\ AuditsKept
    BY LostWalk DEF IInv, AuditsKept
  <1> QED
    BY <1>1, <1>2, RequestStep

\* A request moves on with its device.
LEMMA RequestMoves ==
  ASSUME IInv, ShapeInv, NEW x \in Actor, request[x] \in Busy,
         \A y \in Actor \ {x} : request'[y] = request[y],
         request'[x].kind = request[x].kind, request'[x].address = request[x].address,
         request'[x].pc \notin {"skip", "sent", "refused"},
         UNCHANGED <<limit, depth, parent, audits, walk>>, Candidates' = Candidates
  PROVE  ShapeInv'
  <1>1. Shaped(request[x])
    BY DEF ShapeInv, RequestsShaped, Busy, Idle
  <1>2. Shaped(request[x])'
    BY <1>1 DEF Shaped
  <1>3. SameWalk /\ AuditsKept
    BY DEF SameWalk, AuditsKept
  <1> QED
    BY <1>2, <1>3, RequestStep

\* The candidate a request imports or dismisses is one.
LEMMA ImportsCandidate ==
  ASSUME IInv, ShapeInv, NEW x \in Actor, request[x] # Idle, request[x].kind \in Operation
  PROVE  request[x].address \in Candidates
  BY DEF ShapeInv, RequestsShaped, Shaped

\* Only an import stores.
LEMMA StoresImport ==
  ASSUME IInv, NEW x \in Actor, request[x].pc \in Storing
  PROVE  /\ request[x].kind = "import" /\ walk # NoWalk
         /\ request[x] \in Busy /\ request[x] # Idle /\ request[x].address \in Address
  <1>1. request[x] \in Busy /\ request[x] # Idle
    BY BusyType DEF IInv, RequestInv, Storing
  <1> QED
    BY <1>1 DEF IInv, RequestInv, PlacedInv, Placed, Storing, Accessing, Busy

\* The steps that end a request: a candidate may fail, none comes or goes.
LEMMA EndsKeep ==
  ASSUME IInv, ShapeInv, NEW x \in Actor,
         \/ Deny(x) \/ DeadlockVictim(x) \/ Conflict(x) \/ WriteSummary(x) \/ EndPull(x)
         \/ Crash(x) \/ \E rejected \in BOOLEAN : PullFails(x, rejected)
  PROVE  ShapeInv'
  <1>1. CASE Deny(x)
    <2>1. request[x] # Idle
      BY <1>1 DEF Deny, At, Idle
    <2>2. Candidates' = Candidates
      <3>1. CASE x = Walk /\ request[x].kind = "import"
        <4>1. request[x].address \in Candidates
          BY <2>1, <3>1, ImportsCandidate DEF Operation
        <4>2. status' = [status EXCEPT ![request[x].address] = "failed"]
          BY <1>1, <3>1 DEF Deny, Mine
        <4> QED
          BY <4>1, <4>2, StillCandidates DEF IInv, Status
      <3>2. CASE ~(x = Walk /\ request[x].kind = "import")
        BY <1>1, <3>2 DEF Deny, Candidates
      <3> QED
        BY <3>1, <3>2
    <2> QED
      BY <1>1, <2>2, RequestEnds DEF Deny
  <1>2. CASE \E rejected \in BOOLEAN : PullFails(x, rejected)
    <2>1. request[x] # Idle /\ request[x].kind \in Operation
      BY <1>2 DEF PullFails, Importing, At, Idle, Operation
    <2>2. request[x].address \in Candidates
      BY <2>1, ImportsCandidate
    <2>3. PICK s \in Status \ {"absent"} : status' = [status EXCEPT ![request[x].address] = s]
      BY <1>2, <2>2 DEF PullFails, Mine, Written, Status, Candidates, IInv, TypeOK
    <2>4. Candidates' = Candidates
      BY <2>2, <2>3, StillCandidates DEF IInv
    <2> QED
      BY <1>2, <2>4, RequestEnds DEF PullFails
  <1>3. CASE Conflict(x)
    <2>1. x = Walk => walk # NoWalk
      BY <1>3 DEF IInv, RequestInv, PlacedInv, Placed, Conflict, Importing, At, Idle
    <2> QED
      BY <1>3, <2>1, RequestEnds DEF Conflict, candidates, Candidates
  <1>4. CASE DeadlockVictim(x) \/ WriteSummary(x) \/ EndPull(x)
    BY <1>4, RequestEnds DEF DeadlockVictim, WriteSummary, EndPull, candidates, Candidates
  <1>5. CASE Crash(x)
    BY <1>5, RequestEnds DEF Crash, candidates, Candidates
  <1> QED
    BY <1>1, <1>2, <1>3, <1>4, <1>5

\* The steps of a request on its way: its candidate gets a status, none comes or goes.
LEMMA MovesKeep ==
  ASSUME IInv, ShapeInv, NEW x \in Actor,
         \/ Access(x) \/ Claim(x) \/ Link(x) \/ ReadSummary(x) \/ CommitSkip(x)
         \/ (Record(x) /\ x # Walk)
  PROVE  ShapeInv'
  <1>1. request[x].pc # "idle" /\ RequestsTyped
    BY DEF Access, Claim, Link, Importing, ReadSummary, CommitSkip, Record, At, IInv, RequestInv
  <1>2. request[x] \in Busy /\ request[x] # Idle
    BY <1>1, BusyType
  <1>3. \A y \in Actor \ {x} : request'[y] = request[y]
    BY <1>1 DEF RequestsTyped, Access, Claim, Link, ReadSummary, CommitSkip, Record, Become
  <1>4. /\ request'[x].kind = request[x].kind /\ request'[x].address = request[x].address
        /\ request'[x].pc \in {"claim", "pull", "stored", "summary", "finish"}
    BY <1>1, <1>2
       DEF RequestsTyped, Busy, Access, Claim, Link, ReadSummary, CommitSkip, Record, Become
  <1>5. Candidates' = Candidates
    <2>1. CASE Access(x) \/ Claim(x) \/ ReadSummary(x)
      BY <2>1 DEF Access, Claim, ReadSummary, candidates, Candidates
    <2>2. CASE Link(x) \/ CommitSkip(x) \/ Record(x)
      <3>1. request[x].kind \in Operation
        <4>1. CASE Link(x)
          BY <4>1 DEF Link, Importing, Operation
        <4>2. CASE CommitSkip(x)
          BY <1>2, <4>2 DEF CommitSkip, At, ShapeInv, RequestsShaped, Shaped
        <4>3. CASE Record(x)
          BY <4>3, StoresImport DEF Record, At, Storing, Operation
        <4> QED
          BY <2>2, <4>1, <4>2, <4>3
      <3>2. request[x].address \in Candidates
        BY <1>2, <3>1, ImportsCandidate
      <3>3. PICK s \in Status \ {"absent"} : status' = [status EXCEPT ![request[x].address] = s]
        BY <2>2, <3>2
           DEF Link, CommitSkip, Record, Mine, Written, Status, Candidates, IInv, TypeOK
      <3> QED
        BY <3>2, <3>3, StillCandidates DEF IInv
    <2> QED
      BY <2>1, <2>2
  <1>6. UNCHANGED <<limit, depth, parent, audits, walk>>
    BY DEF Access, Claim, Link, ReadSummary, CommitSkip, Record, candidates
  <1> QED
    BY <1>2, <1>3, <1>4, <1>5, <1>6, RequestMoves

\* Persist: the candidate has an audit more.
LEMMA PersistKeeps ==
  ASSUME IInv, ShapeInv, NEW x \in Actor, Persist(x)
  PROVE  ShapeInv'
  <1>1. /\ request[x].kind = "import" /\ request[x] \in Busy /\ request[x] # Idle
        /\ request[x].address \in Address
    BY StoresImport DEF Persist, At, Storing
  <1>2. /\ request'[x].kind = request[x].kind /\ request'[x].address = request[x].address
        /\ request'[x].pc \in {"sent", "refused"}
        /\ \A y \in Actor \ {x} : request'[y] = request[y]
    BY <1>1 DEF IInv, RequestInv, RequestsTyped, Busy, Persist, Become
  <1>3. audits' = [audits EXCEPT ![request[x].address] = @ + 1]
    BY DEF Persist, Mine
  <1>4. AuditsKept /\ audits'[request[x].address] > 0
    BY <1>1, <1>3 DEF AuditsKept, IInv, TypeOK
  <1>5. request[x].address \in Candidates /\ Candidates' = Candidates
    BY <1>1, ImportsCandidate DEF Persist, Operation, Candidates
  <1>6. Shaped(request[x])'
    BY <1>1, <1>2, <1>4, <1>5 DEF Shaped
  <1>7. SameWalk /\ UNCHANGED <<limit, depth, parent>>
    BY DEF SameWalk, Persist
  <1> QED
    BY <1>2, <1>4, <1>5, <1>6, <1>7, RequestStep

\* The steps that start a request: an operator's names a candidate.
LEMMA StartsKeep ==
  ASSUME IInv, ShapeInv,
         \/ RequestSession
         \/ \E r \in Request, a \in Address :
              \/ PullNeighbor(r, a)
              \/ \E u \in User : Process(r, u, a) \/ Skip(r, u, a) \/ PullDevice(r, u, a)
  PROVE  ShapeInv'
  <1>1. request \in [Actor -> Busy \cup {Idle}]
    BY DEF IInv, RequestInv, RequestsTyped
  <1>2. Candidates' = Candidates /\ AuditsKept /\ UNCHANGED <<limit, depth, parent>>
    BY DEF RequestSession, PullNeighbor, Process, Skip, Operator, PullDevice, Visit,
           candidates, Candidates, AuditsKept
  <1>3. SameWalk
    BY DEF RequestSession, PullNeighbor, Process, Skip, Operator, PullDevice, Visit, SameWalk
  <1>4. CASE RequestSession
    <2>1. /\ Walk \in Actor /\ \A y \in Actor \ {Walk} : request'[y] = request[y]
          /\ request'[Walk].pc = "access" /\ request'[Walk].kind = "seed"
      BY <1>1, <1>4 DEF RequestSession, Start, Actor
    <2>2. Shaped(request[Walk])'
      BY <2>1 DEF Shaped, Operation
    <2> QED
      BY <1>2, <1>3, <2>1, <2>2, RequestStep
  <1>5. ASSUME NEW r \in Request, NEW a \in Address,
               PullNeighbor(r, a) \/ \E u \in User : PullDevice(r, u, a)
        PROVE  ShapeInv'
    <2>1. /\ r \in Actor /\ \A y \in Actor \ {r} : request'[y] = request[y]
          /\ request'[r].pc = "access" /\ request'[r].kind \in {"pull", "neighbor"}
      BY <1>1, <1>5 DEF PullNeighbor, PullDevice, Visit, Start, Actor
    <2>2. Shaped(request[r])'
      BY <2>1 DEF Shaped, Operation
    <2> QED
      BY <1>2, <1>3, <2>1, <2>2, RequestStep
  <1>6. ASSUME NEW r \in Request, NEW a \in Address, NEW u \in User,
               Process(r, u, a) \/ Skip(r, u, a)
        PROVE  ShapeInv'
    <2>1. /\ r \in Actor /\ \A y \in Actor \ {r} : request'[y] = request[y]
          /\ request'[r].pc \in {"access", "skip"} /\ request'[r].kind \in Operation
          /\ request'[r].address = a
      BY <1>1, <1>6 DEF Process, Skip, Operator, Start, Actor, Operation
    <2>2. a \in Candidates
      BY <1>6 DEF Process, Skip, Operator, Open
    <2>3. Shaped(request[r])'
      BY <1>2, <2>1, <2>2 DEF Shaped
    <2> QED
      BY <1>2, <1>3, <2>1, <2>3, RequestStep
  <1> QED
    BY <1>4, <1>5, <1>6

\* Adding a member, dropping answers and answering move neither a request nor the walk.
LEMMA StillKeeps ==
  ASSUME IInv, ShapeInv,
         \/ \E u, v \in User, o \in User, r \in Granted : AddMember(u, v, o, r)
         \/ DropAnswers \/ PassOver \/ Answer \/ UNCHANGED vars
  PROVE  ShapeInv'
  <1>1. /\ UNCHANGED <<request, status, audits, limit, depth, parent>>
        /\ Candidates' = Candidates
    BY DEF AddMember, DropAnswers, PassOver, Answer, vars, candidates, Candidates
  <1>2. AuditsKept /\ RequestsShaped'
    BY <1>1 DEF AuditsKept, ShapeInv, RequestsShaped, Shaped
  <1>3. SameWalk
    <2>1. CASE walk' = walk
      BY <2>1 DEF SameWalk
    <2>2. CASE DropAnswers \/ PassOver \/ Answer
      <3>1. walk # NoWalk /\ walk \in Walking
        BY <2>2, WalkType DEF DropAnswers, PassOver, Answer, Free
      <3>2. \/ walk' = [walk EXCEPT !.answers = <<>>]
            \/ walk' = [walk EXCEPT !.answers = Tail(walk.answers)]
            \/ walk' = [walk EXCEPT !.pc = "lost"]
            \/ walk' = [walk EXCEPT !.pc = "over"]
        BY <2>2 DEF DropAnswers, PassOver, Answer
      <3>3. /\ walk'.seen = walk.seen /\ walk'.parent = walk.parent
            /\ walk'.depth = walk.depth /\ walk'.queue = walk.queue /\ walk' # NoWalk
        BY <3>1, <3>2 DEF Walking, NoWalk
      <3> QED
        BY <3>1, <3>3 DEF SameWalk
    <2>3. DropAnswers \/ PassOver \/ Answer \/ walk' = walk
      BY DEF AddMember, vars
    <2> QED
      BY <2>1, <2>2, <2>3
  <1> QED
    BY <1>1, <1>2, <1>3, ShapeFrame

\* CreateSession: the walk has seen the seed, and there is no candidate.
LEMMA CreateKeeps ==
  ASSUME IInv, ShapeInv, CreateSession
  PROVE  ShapeInv'
  <1>1. /\ request[Walk] # Idle /\ request[Walk].kind = "seed" /\ Walk \in Actor
    BY DEF CreateSession, At, Idle, Actor
  <1>2. walk = NoWalk
    BY <1>1 DEF IInv, RequestInv, PlacedInv, Placed
  <1>3. /\ Candidates = {} /\ Candidates' = {} /\ depth' = depth /\ parent' = parent
        /\ audits' = audits /\ limit' = limit
    BY <1>2 DEF ShapeInv, WalkedInv, CreateSession, candidates, Candidates
  <1>4. RequestsShaped'
    <2>1. request'[Walk] = Idle /\ \A y \in Actor \ {Walk} : request'[y] = request[y]
      BY <1>1 DEF IInv, RequestInv, RequestsTyped, CreateSession, Finished
    <2> QED
      BY <1>3, <2>1 DEF ShapeInv, RequestsShaped, Shaped
  <1>5. /\ walk'.seen = {Seed} /\ walk'.parent = Seed /\ walk'.depth = 0
        /\ DOMAIN walk'.queue = {1} /\ walk'.queue[1][1] = Seed /\ walk'.queue[1][2] = 0
        /\ walk' # NoWalk
    BY DEF CreateSession, NoWalk
  <1>6. IsFiniteSet({Seed}) /\ Cardinality({Seed}) = 1
    BY FS_Singleton
  <1>7. limit.devices \in Nat
    BY DiscoveryAssumption DEF IInv, TypeOK
  <1>8. WalkedInv'
    BY <1>3, <1>5, <1>6, <1>7 DEF WalkedInv, Walked, Reached, ShapeInv, TreeInv
  <1>9. TreeInv'
    BY <1>3 DEF TreeInv, ShapeInv
  <1> QED
    BY <1>4, <1>8, <1>9 DEF ShapeInv

\* Ask: the device asked is the first that waits.
LEMMA AskKeeps ==
  ASSUME IInv, ShapeInv, Ask
  PROVE  ShapeInv'
  <1>1. walk # NoWalk /\ walk \in Walking /\ Walked
    BY WalkType DEF Ask, Free, ShapeInv, WalkedInv
  <1>2. walk.queue \in Seq(Address \X Nat) /\ walk.queue # <<>>
    BY <1>1 DEF Walking, Ask
  <1>3. /\ walk'.queue = Tail(walk.queue) /\ walk'.parent = walk.queue[1][1]
        /\ walk'.depth = walk.queue[1][2] /\ walk'.seen = walk.seen /\ walk' # NoWalk
    <2> DEFINE next == FirstFirst[1]
    <2>1. FirstFirst = <<Head(walk.queue), Tail(walk.queue)>> /\ Head(walk.queue) = walk.queue[1]
      BY <1>2 DEF FirstFirst
    <2>2. \/ walk' = [walk EXCEPT !.queue = FirstFirst[2], !.parent = next[1],
                        !.depth = next[2], !.answers = Neighbors[next[1]]]
          \/ walk' = [walk EXCEPT !.queue = FirstFirst[2], !.parent = next[1],
                        !.depth = next[2], !.error = @ \/ next[2] = 0]
      BY DEF Ask
    <2>3. /\ walk'.queue = FirstFirst[2] /\ walk'.parent = next[1]
          /\ walk'.depth = next[2] /\ walk'.seen = walk.seen /\ walk'.pc = walk.pc
      BY <1>1, <2>2 DEF Walking
    <2> QED
      BY <1>1, <2>1, <2>3 DEF Walking, NoWalk
  <1>4. UNCHANGED <<request, status, audits, limit, depth, parent>> /\ Candidates' = Candidates
    BY DEF Ask, candidates, Candidates
  <1>5. RequestsShaped' /\ TreeInv'
    BY <1>4 DEF ShapeInv, RequestsShaped, Shaped, TreeInv, Reached
  <1>6. Reached(walk.queue[1][1]) /\ depth[walk.queue[1][1]] = walk.queue[1][2]
    BY <1>1, <1>2 DEF Walked
  <1>7. \A n \in DOMAIN Tail(walk.queue) :
          /\ Reached(Tail(walk.queue)[n][1])
          /\ depth[Tail(walk.queue)[n][1]] = Tail(walk.queue)[n][2]
    <2>1. ASSUME NEW n \in DOMAIN Tail(walk.queue)
          PROVE  n + 1 \in DOMAIN walk.queue /\ Tail(walk.queue)[n] = walk.queue[n + 1]
      BY <1>2
    <2> QED
      BY <1>1, <2>1 DEF Walked
  <1>8. Reached(walk.parent)' /\ depth'[walk'.parent] = walk'.depth
    BY <1>3, <1>4, <1>6 DEF Reached
  <1>9. Walked'
    BY <1>1, <1>3, <1>4, <1>7, <1>8 DEF Walked, Reached
  <1> QED
    BY <1>3, <1>5, <1>9 DEF ShapeInv, WalkedInv

\* Discover: a candidate more, one level below the device asked, while there is room.
LEMMA DiscoverKeeps ==
  ASSUME IInv, ShapeInv, Discover
  PROVE  ShapeInv'
  <1> DEFINE a == Head(walk.answers)
  <1>1. walk # NoWalk /\ walk \in Walking /\ Walked
    BY WalkType DEF Discover, Free, ShapeInv, WalkedInv
  <1>2. /\ walk.answers \in Seq(Address \cup Unsafe) /\ walk.answers # <<>>
        /\ walk.depth \in Nat /\ walk.parent \in Address /\ walk.seen \subseteq Address
    BY <1>1 DEF Walking, Discover
  <1>3. a \in Address /\ a \notin walk.seen
    BY <1>2 DEF Discover
  <1> HIDE DEF a
  <1>4. /\ walk'.seen = walk.seen \cup {a} /\ walk'.parent = walk.parent
        /\ walk'.depth = walk.depth /\ walk'.queue = walk.queue /\ walk' # NoWalk
    BY <1>1 DEF Discover, Walking, NoWalk, a
  <1>5. /\ depth'[a] = walk.depth + 1 /\ parent'[a] = walk.parent
        /\ \A b \in Address \ {a} : depth'[b] = depth[b] /\ parent'[b] = parent[b]
        /\ audits' = audits /\ limit' = limit
    BY <1>3 DEF IInv, TypeOK, Discover, a
  <1>6. Candidates' = Candidates \cup {a}
    BY <1>3 DEF IInv, TypeOK, Discover, Candidates, a
  <1>7. a # Seed /\ Candidates = walk.seen \ {Seed} /\ a \notin Candidates
    BY <1>1, <1>3 DEF Walked
  <1>8. ASSUME NEW b, Reached(b)
        PROVE  Reached(b)' /\ b # a /\ depth'[b] = depth[b]
    BY <1>5, <1>6, <1>7, <1>8, DiscoveryAssumption DEF Reached, Candidates
  <1>9. RequestsShaped'
    <2>1. CASE a \in Loginable
      <3>1. /\ request'[Walk].pc = "access" /\ request'[Walk].kind = "import"
            /\ request'[Walk].address = a
            /\ \A y \in Actor \ {Walk} : request'[y] = request[y]
        BY <2>1 DEF IInv, RequestInv, RequestsTyped, Discover, Start, Actor, a
      <3> QED
        BY <1>5, <1>6, <3>1 DEF ShapeInv, RequestsShaped, Shaped
    <2>2. CASE a \notin Loginable
      <3>1. request' = request
        BY <2>2 DEF Discover, a
      <3> QED
        BY <1>5, <1>6, <3>1 DEF ShapeInv, RequestsShaped, Shaped
    <2> QED
      BY <2>1, <2>2
  <1>10. /\ IsFiniteSet(walk.seen) /\ Cardinality(walk.seen) \in Nat
         /\ Cardinality(walk.seen) - 1 < limit.devices /\ limit.devices \in Nat
    <2>1. IsFiniteSet(walk.seen) /\ Cardinality(walk.seen) \in Nat
      BY <1>1, FS_CardinalityType DEF Walked
    <2>2. limit.devices \in Nat
      BY DiscoveryAssumption DEF IInv, TypeOK
    <2>3. ~Full
      BY DEF Discover, Dropped
    <2> QED
      BY <2>1, <2>2, <2>3 DEF Full
  <1>11. /\ IsFiniteSet(walk'.seen) /\ Cardinality(walk'.seen) - 1 <= limit.devices
    <2>1. /\ IsFiniteSet(walk.seen \cup {a})
          /\ Cardinality(walk.seen \cup {a}) = Cardinality(walk.seen) + 1
      BY <1>3, <1>10, FS_AddElement
    <2> QED
      BY <1>4, <1>10, <2>1
  <1>12. Reached(walk.parent) /\ depth[walk.parent] = walk.depth
    BY <1>1 DEF Walked
  <1>13. Walked'
    <2>1. Seed \in walk'.seen /\ Candidates' = walk'.seen \ {Seed}
      BY <1>1, <1>4, <1>6, <1>7 DEF Walked
    <2>2. Reached(walk.parent)' /\ depth'[walk'.parent] = walk'.depth
      BY <1>4, <1>8, <1>12 DEF Reached
    <2>3. \A n \in DOMAIN walk'.queue :
            Reached(walk.queue[n][1])' /\ depth'[walk'.queue[n][1]] = walk'.queue[n][2]
      BY <1>1, <1>4, <1>8 DEF Walked, Reached
    <2> QED
      BY <1>5, <1>11, <2>1, <2>2, <2>3 DEF Walked
  <1>14. TreeInv'
    <2>1. depth'[Seed] = 0
      BY <1>5, <1>7, DiscoveryAssumption DEF ShapeInv, TreeInv
    <2>2. ASSUME NEW b \in Candidates
          PROVE  Reached(parent[b])' /\ depth'[b] = depth'[parent'[b]] + 1
      <3>1. b # a /\ b \in Address /\ Reached(parent[b]) /\ depth[b] = depth[parent[b]] + 1
        BY <1>7 DEF Candidates, ShapeInv, TreeInv
      <3> QED
        BY <1>5, <1>8, <3>1 DEF Reached
    <2>3. (parent'[a] = Seed \/ (parent'[a] \in Candidates' /\ audits'[parent'[a]] > 0))
          /\ depth'[a] = depth'[parent'[a]] + 1
      BY <1>5, <1>8, <1>12 DEF Reached
    <2> QED
      BY <1>6, <2>1, <2>2, <2>3 DEF TreeInv, Reached
  <1> QED
    BY <1>4, <1>9, <1>13, <1>14 DEF ShapeInv, WalkedInv

\* Record, by the walk: the candidate that waits has its audit.
LEMMA RecordKeeps ==
  ASSUME IInv, ShapeInv, Record(Walk)
  PROVE  ShapeInv'
  <1> DEFINE a == request[Walk].address
  <1>1. Walk \in Actor /\ request[Walk].pc \in {"sent", "refused"}
    BY DEF Record, At, Actor
  <1>2. /\ request[Walk].kind = "import" /\ walk # NoWalk
        /\ request[Walk] # Idle /\ a \in Address
    BY <1>1, StoresImport DEF Storing
  <1>3. walk \in Walking /\ Walked
    BY <1>2 DEF IInv, TypeOK, ShapeInv, WalkedInv
  <1>4. a \in Candidates /\ audits[a] > 0
    BY <1>1, <1>2 DEF ShapeInv, RequestsShaped, Shaped, Operation
  <1>5. PICK s \in Status \ {"absent"} : status' = [status EXCEPT ![a] = s]
    BY DEF Record, Mine, Status
  <1>6. Candidates' = Candidates
    BY <1>4, <1>5, StillCandidates DEF IInv
  <1>7. UNCHANGED <<limit, depth, parent, audits>>
    BY DEF Record
  <1>8. request'[Walk] = Idle /\ \A y \in Actor \ {Walk} : request'[y] = request[y]
    BY <1>1 DEF IInv, RequestInv, RequestsTyped, Record, Finished
  <1>9. RequestsShaped' /\ TreeInv'
    BY <1>6, <1>7, <1>8 DEF ShapeInv, RequestsShaped, Shaped, TreeInv, Reached
  <1>10. /\ walk'.queue = Enqueue(a) /\ walk'.parent = walk.parent /\ walk'.depth = walk.depth
         /\ walk'.seen = walk.seen /\ walk' # NoWalk
    BY <1>3 DEF Record, Mine, Walking, NoWalk
  <1>11. \A n \in DOMAIN Enqueue(a) :
           Reached(Enqueue(a)[n][1]) /\ depth[Enqueue(a)[n][1]] = Enqueue(a)[n][2]
    <2>1. walk.queue \in Seq(Address \X Nat)
      BY <1>3 DEF Walking
    <2>2. \A n \in DOMAIN walk.queue :
            Reached(walk.queue[n][1]) /\ depth[walk.queue[n][1]] = walk.queue[n][2]
      BY <1>3 DEF Walked
    <2>3. ASSUME NEW n \in DOMAIN Append(walk.queue, <<a, depth[a]>>)
          PROVE  \/ n \in DOMAIN walk.queue
                    /\ Append(walk.queue, <<a, depth[a]>>)[n] = walk.queue[n]
                 \/ Append(walk.queue, <<a, depth[a]>>)[n] = <<a, depth[a]>>
      BY <2>1
    <2>4. Reached(a)
      BY <1>4 DEF Reached
    <2>5. CASE depth[a] < limit.depth
      BY <2>2, <2>3, <2>4, <2>5 DEF Enqueue
    <2>6. CASE ~(depth[a] < limit.depth)
      BY <2>2, <2>6 DEF Enqueue
    <2> QED
      BY <2>5, <2>6
  <1>12. Walked'
    BY <1>3, <1>6, <1>7, <1>10, <1>11 DEF Walked, Reached
  <1> QED
    BY <1>9, <1>10, <1>12 DEF ShapeInv, WalkedInv

\* Before the session there is no candidate.
LEMMA InitiallyShaped == Init => ShapeInv
  <1> SUFFICES ASSUME Init
      PROVE  ShapeInv
    OBVIOUS
  <1>1. Candidates = {}
    BY DEF Init, Candidates
  <1>2. RequestsShaped
    BY DEF Init, RequestsShaped
  <1>3. WalkedInv
    BY <1>1 DEF Init, WalkedInv
  <1>4. TreeInv
    BY <1>1, DiscoveryAssumption DEF Init, TreeInv
  <1> QED
    BY <1>2, <1>3, <1>4 DEF ShapeInv

\* Every step keeps the second invariant.
LEMMA ShapeInductive == IInv /\ ShapeInv /\ [Next]_vars => ShapeInv'
  <1> SUFFICES ASSUME IInv, ShapeInv, [Next]_vars
      PROVE  ShapeInv'
    OBVIOUS
  <1>1. CASE \/ \E u, v \in User, o \in User, r \in Granted : AddMember(u, v, o, r)
             \/ DropAnswers \/ PassOver \/ Answer \/ UNCHANGED vars
    BY <1>1, StillKeeps
  <1>2. ASSUME NEW x \in Actor,
               \/ Deny(x) \/ DeadlockVictim(x) \/ Conflict(x) \/ WriteSummary(x) \/ EndPull(x)
               \/ Crash(x) \/ \E rejected \in BOOLEAN : PullFails(x, rejected)
        PROVE  ShapeInv'
    BY <1>2, EndsKeep
  <1>3. ASSUME NEW x \in Actor,
               \/ Access(x) \/ Claim(x) \/ Link(x) \/ ReadSummary(x) \/ CommitSkip(x)
               \/ (Record(x) /\ x # Walk)
        PROVE  ShapeInv'
    BY <1>3, MovesKeep
  <1>4. ASSUME NEW x \in Actor, Persist(x)
        PROVE  ShapeInv'
    BY <1>4, PersistKeeps
  <1>5. CASE \/ RequestSession
             \/ \E r \in Request, a \in Address :
                  \/ PullNeighbor(r, a)
                  \/ \E u \in User : Process(r, u, a) \/ Skip(r, u, a) \/ PullDevice(r, u, a)
    BY <1>5, StartsKeep
  <1>6. CASE CreateSession \/ Ask \/ Discover \/ Record(Walk)
    BY <1>6, CreateKeeps, AskKeeps, DiscoverKeeps, RecordKeeps
  <1>7. \A r \in Request : r \in Actor
    BY DEF Actor
  <1> QED
    BY <1>1, <1>2, <1>3, <1>4, <1>5, <1>6, <1>7 DEF Next

\* What the two invariants say of the bounds.
LEMMA ShapeBounds == IInv /\ ShapeInv => BoundedWalk
  <1> SUFFICES ASSUME IInv, ShapeInv
      PROVE  BoundedWalk
    OBVIOUS
  <1>1. limit.devices \in Nat /\ limit.depth \in Nat
    BY DiscoveryAssumption DEF IInv, TypeOK
  <1>2. Seed \notin Candidates /\ Cardinality(Candidates) <= limit.devices
    <2>1. CASE walk = NoWalk
      <3>1. Candidates = {} /\ Cardinality({}) = 0
        BY <2>1, FS_EmptySet DEF ShapeInv, WalkedInv
      <3> QED
        BY <1>1, <3>1
    <2>2. CASE walk # NoWalk
      <3>1. Walked
        BY <2>2 DEF ShapeInv, WalkedInv
      <3>2. /\ IsFiniteSet(walk.seen) /\ Cardinality(walk.seen) \in Nat
            /\ Cardinality(walk.seen \ {Seed}) = Cardinality(walk.seen) - 1
        BY <3>1, FS_CardinalityType, FS_RemoveElement DEF Walked
      <3> QED
        BY <3>1, <3>2 DEF Walked
    <2> QED
      BY <2>1, <2>2
  <1>3. ASSUME NEW a \in Candidates
        PROVE  /\ depth[a] \in 1 .. limit.depth /\ depth[a] = depth[parent[a]] + 1
               /\ parent[a] = Seed \/ audits[parent[a]] > 0
    <2>1. a \in Address /\ parent[a] \in Address
      BY DEF Candidates, IInv, TypeOK
    <2>2. depth[a] \in 0 .. limit.depth /\ depth[parent[a]] \in 0 .. limit.depth
      BY <2>1 DEF IInv, TypeOK
    <2>3. Reached(parent[a]) /\ depth[a] = depth[parent[a]] + 1
      BY DEF ShapeInv, TreeInv
    <2> QED
      BY <1>1, <2>2, <2>3 DEF Reached
  <1> QED
    BY <1>2, <1>3 DEF BoundedWalk

\* discover_session: whatever devices report, the walk records no more candidates than
\* max_devices, none below max_depth or the seed itself, each one level below a device
\* that was imported.
THEOREM WalkBounded == Spec => []BoundedWalk
  BY Initially, Inductive, InitiallyShaped, ShapeInductive, ShapeBounds, PTL DEF Spec
=============================================================================
