-------------------------- MODULE DeviceDiscovery --------------------------
(***************************************************************************)
(* A discovery session under REQUIRE_AUTH, and the device registry it      *)
(* shares with every other request that reaches a device over the network. *)
(*                                                                         *)
(* One request walks breadth first from a seed and imports the neighbours  *)
(* it can log in to.  Once it has answered, operators import or dismiss    *)
(* the other candidates.  Meanwhile any user may pull a device, which      *)
(* claims it for an organization when nobody owns it yet.                  *)
(***************************************************************************)
EXTENDS Naturals, FiniteSets, Sequences

CONSTANTS
  Address,     \* addresses that resolve to an address a connection may go to
  Unsafe,      \* reported addresses that the target guard rejects
  Seed,        \* address of the seed
  Neighbors,   \* what each address reports when asked, in order
  Loginable,   \* candidates with an eligible vendor hint, if credentials are reused
  Contested,   \* addresses that other requests ask for
  User,        \* users; a personal organization has its user's id
  Starter,     \* the user who starts the session
  Request,     \* API requests other than the walk
  Walk,        \* the request that starts the session
  Nobody,      \* a NULL org_id
  NoDevice,    \* no row in devices
  Limits,      \* the values of max_devices and max_depth considered
  MaxRequests, \* bound: API requests other than the walk
  Granted,     \* roles considered when a member is added
  MaxFaults    \* bound: failed logins, refused publications and lost requests

ASSUME DiscoveryAssumption ==
  /\ Seed \in Address /\ Unsafe \cap Address = {}
  /\ Neighbors \in [Address -> Seq(Address \cup Unsafe)]
  /\ Loginable \subseteq Address /\ Contested \subseteq Address
  /\ Starter \in User /\ Walk \notin Request
  /\ Nobody \notin User /\ NoDevice \notin User \cup {Nobody}
  /\ Limits \subseteq [devices : Nat \ {0}, depth : Nat \ {0}]
  /\ Granted \subseteq {"viewer", "operator", "owner"}
  /\ MaxRequests \in Nat /\ MaxFaults \in Nat

VARIABLES
  owner,      \* Device.org_id of the device with each address
  role,       \* Membership.role of each user in each organization
  session,    \* DiscoverySession.status
  limit,      \* DiscoverySession.max_devices and max_depth
  org,        \* DiscoverySession.user_id
  status,     \* DiscoveredDevice.status, or "absent"
  depth,      \* DiscoveredDevice.depth
  parent,     \* DiscoveredDevice.parent_address
  linked,     \* whether DiscoveredDevice.config_id is set
  audits,     \* configurations stored for each candidate
  walk,       \* local state of the walk
  request,    \* local state of every request's access to a device
  overlaps,   \* pairs of candidates whose requests were in flight together
  requests,   \* API requests so far
  failures,   \* failed logins and refused publications so far
  crashes     \* requests lost so far

registry == <<owner, role>>
candidates == <<status, depth, parent, linked, audits>>
counters == <<requests, failures, crashes>>
vars == <<registry, session, limit, org, candidates, walk, request, overlaps, counters>>

Operate == {"operator", "owner"}
Actor == Request \cup {Walk}
Operation == {"import", "skip"}

Idle == [pc |-> "idle"]
SessionStatus == {"none", "running", "awaiting_input", "complete", "partial", "failed"}
Status == {"absent", "discovered", "needs_input", "pulling", "audit_queued", "failed",
           "skipped"}

\* loaded: the status in the session's identity map, or "none" when a commit
\* has expired it; held: the devices whose row lock it holds; claim: the organization that a
\* device nobody owns is assigned to.
Busy == [pc : {"access", "claim", "pull", "stored", "sent", "refused",
               "skip", "finish", "summary"},
         kind : Operation \cup {"seed", "pull", "neighbor"}, user : User,
         address : Address, claim : User, seen : User \cup {Nobody, NoDevice},
         held : SUBSET Address,
         loaded : Status \cup SessionStatus, result : SessionStatus]

NoWalk == [pc |-> "none"]
Walking == [pc : {"loop", "over", "lost"},
            queue : Seq(Address \X Nat), parent : Address, depth : Nat,
            answers : Seq(Address \cup Unsafe), seen : SUBSET Address, error : BOOLEAN]

TypeOK ==
  /\ owner \in [Address -> User \cup {Nobody, NoDevice}]
  /\ role \in [User -> [User -> {"none", "viewer", "operator", "owner"}]]
  /\ session \in SessionStatus
  /\ limit \in Limits
  /\ org \in User \cup {Nobody}
  /\ status \in [Address -> Status]
  /\ depth \in [Address -> 0 .. limit.depth]
  /\ parent \in [Address -> Address]
  /\ linked \in [Address -> BOOLEAN]
  /\ audits \in [Address -> Nat]
  /\ walk \in Walking \cup {NoWalk}
  /\ request \in [Actor -> Busy \cup {Idle}]
  /\ overlaps \subseteq SUBSET Address
  /\ requests \in 0 .. MaxRequests
  /\ failures \in 0 .. MaxFaults
  /\ crashes \in 0 .. MaxFaults

\* The registry may hold devices of anyone; every owner has its organization.
Init ==
  /\ owner \in [Address -> User \cup {Nobody, NoDevice}]
  /\ \A a \in Address \ Contested : owner[a] = NoDevice
  /\ role = [u \in User |-> [o \in User |->
       IF u = o /\ \E a \in Address : owner[a] = o THEN "owner" ELSE "none"]]
  /\ session = "none"
  /\ limit \in Limits
  /\ org = Nobody
  /\ status = [a \in Address |-> "absent"]
  /\ depth = [a \in Address |-> 0]
  /\ parent = [a \in Address |-> Seed]
  /\ linked = [a \in Address |-> FALSE]
  /\ audits = [a \in Address |-> 0]
  /\ walk = NoWalk
  /\ request = [x \in Actor |-> Idle]
  /\ overlaps = {}
  /\ requests = 0 /\ failures = 0 /\ crashes = 0

Failure == failures + crashes < MaxFaults /\ failures' = failures + 1
\* An ORM assignment emits an UPDATE only when it changes the loaded value.
Written(loaded, current, new) == IF loaded = new THEN current ELSE new

Candidates == {a \in Address : status[a] # "absent"}
At(x, pc) == request[x].pc = pc
Mine(x) == request[x].address
Become(x, pc) == request' = [request EXCEPT ![x].pc = pc]
Finished(x) == request' = [request EXCEPT ![x] = Idle]

\* The statuses decide in this order.
Summary(statuses) ==
  CASE "needs_input" \in statuses -> "awaiting_input"
    [] "needs_input" \notin statuses /\ "failed" \in statuses ->
         IF "audit_queued" \in statuses THEN "partial" ELSE "failed"
    [] OTHER -> "complete"

----------------------------------------------------------------------------
(* Organizations.                                                          *)

\* Only an owner adds a member; a membership is never changed.
AddMember(actor, u, o, r) ==
  /\ role[actor][o] = "owner" /\ role[u][o] = "none"
  /\ role' = [role EXCEPT ![u][o] = r]
  /\ UNCHANGED <<owner, session, limit, org, candidates, walk, request, overlaps, counters>>

\* personal_organization creates what is missing of a user's own organization.
WithPersonal(u) == [role EXCEPT ![u][u] = IF @ = "none" THEN "owner" ELSE @]

----------------------------------------------------------------------------
(* Access to a device: lock its row, then authorize, claim or create it.   *)

Holds(y, a) == request[y] # Idle /\ a \in request[y].held
DeviceFree(x, a) == \A y \in Actor \ {x} : ~Holds(y, a)

Start(x, pc, kind, u, a, claim, held, loaded) ==
  request' = [request EXCEPT ![x] =
    [pc |-> pc, kind |-> kind, user |-> u, address |-> a, claim |-> claim,
     seen |-> NoDevice, held |-> held, result |-> "none",
     loaded |-> loaded]]

\* Mutation: any known user may use a device of any organization.
AnyUser(u, a) == TRUE

MayUse(u, a) == role[u][owner[a]] \in Operate

\* Mutation: a device is assigned to the organization of whoever may use it.
AccessAssigns(x) ==
  LET a == Mine(x) IN
  /\ At(x, "access") /\ DeviceFree(x, a)
  /\ owner[a] \in User => MayUse(request[x].user, a)
  /\ request' = [request EXCEPT ![x].pc = "claim", ![x].seen = owner[a], ![x].held = @ \cup {a}]
  /\ UNCHANGED <<registry, session, limit, org, candidates, walk, overlaps, counters>>

\* The row is read; one that nobody owns is about to be assigned.
Access(x) ==
  LET a == Mine(x) IN
  /\ At(x, "access") /\ DeviceFree(x, a)
  /\ \/ /\ owner[a] \notin User
        /\ request' = [request EXCEPT ![x].pc = "claim", ![x].seen = owner[a],
                                       ![x].held = @ \cup {a}]
     \/ /\ owner[a] \in User /\ MayUse(request[x].user, a)
        /\ request' = [request EXCEPT ![x].pc = "pull", ![x].held = @ \cup {a}]
  /\ UNCHANGED <<registry, session, limit, org, candidates, walk, overlaps, counters>>

\* The claim or the new row, and its commit, which ends the locks.
Claim(x) ==
  LET q == request[x] IN
  /\ At(x, "claim")
  /\ owner' = [owner EXCEPT ![q.address] = q.claim]
  /\ role' = IF q.claim = q.user THEN WithPersonal(q.user) ELSE role
  /\ request' = [request EXCEPT ![x].pc = "pull", ![x].held = {},
                                  ![x].loaded = "none"]
  /\ UNCHANGED <<session, limit, org, candidates, walk, overlaps, counters>>

\* 403: only the walk goes on, with the candidate failed.
Deny(x) ==
  LET a == Mine(x) IN
  /\ At(x, "access") /\ DeviceFree(x, a)
  /\ owner[a] \in User /\ ~MayUse(request[x].user, a)
  /\ Finished(x)
  /\ status' = IF x = Walk /\ request[x].kind = "import"
                THEN [status EXCEPT ![a] = "failed"] ELSE status
  /\ UNCHANGED <<registry, session, limit, org, depth, parent, linked, audits, walk,
                 overlaps, counters>>

\* Two requests that wait for each other's device: the database ends one.
Waits(x, y) == request[x].pc \in {"access", "pull"} /\ Holds(y, Mine(x))

DeadlockVictim(x) ==
  /\ \E y \in Actor \ {x} : Waits(x, y) /\ Waits(y, x)
  /\ Finished(x)
  /\ UNCHANGED <<registry, session, limit, org, candidates, walk, overlaps, counters>>

----------------------------------------------------------------------------
(* The import of one candidate, by the walk or by an operator.             *)

Importing(x, pc) == At(x, pc) /\ request[x].kind = "import"

\* Rejected credentials ask for others, every other failure is final; an
\* operator's request ends here without looking at the session again.
PullFails(x, rejected) ==
  LET a == Mine(x) IN
  /\ Importing(x, "pull") /\ Failure
  /\ status' = [status EXCEPT ![a] =
       Written(request[x].loaded, @, IF rejected THEN "needs_input" ELSE "failed")]
  /\ Finished(x)
  /\ UNCHANGED <<registry, session, limit, org, depth, parent, linked, audits, walk,
                 overlaps, requests, crashes>>

\* Mutation: resolve_device finds the device whoever owns it.
ResolvesAny(a, o) == owner[a] # NoDevice

\* _owner_filter: only a device of the given organization is found.
Resolves(a, o) == owner[a] = o

\* The configuration is linked to the device; the commit that marks the
\* candidate as pulling ends the locks.
Link(x) ==
  LET a == Mine(x) IN
  /\ Importing(x, "pull") /\ DeviceFree(x, a)
  /\ Resolves(a, org)
  /\ status' = [status EXCEPT ![a] = Written(request[x].loaded, @, "pulling")]
  /\ request' = [request EXCEPT ![x].pc = "stored", ![x].held = {}]
  /\ UNCHANGED <<registry, session, limit, org, depth, parent, linked, audits, walk,
                 overlaps, counters>>

\* A device of another organization is not found, and a second row for its
\* address violates the unique index: nothing handles that error.
Conflict(x) ==
  LET a == Mine(x) IN
  /\ Importing(x, "pull") /\ DeviceFree(x, a)
  /\ ~Resolves(a, org)
  /\ Finished(x)
  /\ walk' = IF x = Walk THEN [walk EXCEPT !.pc = "lost"] ELSE walk
  /\ UNCHANGED <<registry, session, limit, org, candidates, overlaps, counters>>

\* persist_and_dispatch_configs: the configuration is committed, then sent.
Persist(x) ==
  /\ At(x, "stored")
  /\ audits' = [audits EXCEPT ![Mine(x)] = @ + 1]
  /\ \/ Become(x, "sent") /\ UNCHANGED failures
     \/ Become(x, "refused") /\ Failure
  /\ UNCHANGED <<registry, session, limit, org, status, depth, parent, linked, walk,
                 overlaps, requests, crashes>>

\* Mutation: the depth bound is tested one level late.
EnqueueLate(a) == IF depth[a] <= limit.depth THEN Append(walk.queue, <<a, depth[a]>>) ELSE walk.queue

Enqueue(a) == IF depth[a] < limit.depth THEN Append(walk.queue, <<a, depth[a]>>) ELSE walk.queue

\* The candidate gets its configuration, whatever happened to it meanwhile.
Record(x) ==
  LET a == Mine(x) IN
  /\ At(x, "sent") \/ At(x, "refused")
  /\ linked' = [linked EXCEPT ![a] = TRUE]
  /\ status' = [status EXCEPT ![a] = IF At(x, "sent") THEN "audit_queued" ELSE "failed"]
  /\ IF x = Walk
     THEN walk' = [walk EXCEPT !.queue = Enqueue(a)] /\ Finished(x)
     ELSE UNCHANGED walk /\ Become(x, "finish")
  /\ UNCHANGED <<registry, session, limit, org, depth, parent, audits, overlaps, counters>>

\* _finish_discovery_session reads all candidates, then writes the session.
ReadSummary(x) ==
  /\ At(x, "finish")
  /\ request' = [request EXCEPT ![x].pc = "summary", ![x].loaded = session,
                   ![x].result = Summary({status[a] : a \in Candidates})]
  /\ UNCHANGED <<registry, session, limit, org, candidates, walk, overlaps, counters>>

WriteSummary(x) ==
  /\ At(x, "summary")
  /\ session' = Written(request[x].loaded, session, request[x].result)
  /\ Finished(x)
  /\ UNCHANGED <<registry, limit, org, candidates, walk, overlaps, counters>>

----------------------------------------------------------------------------
(* The walk.                                                               *)

RequestSession ==
  /\ session = "none" /\ walk = NoWalk /\ At(Walk, "idle")
  /\ Start(Walk, "access", "seed", Starter, Seed, Starter, {}, "none")
  /\ UNCHANGED <<registry, session, limit, org, candidates, walk, overlaps, counters>>

CreateSession ==
  /\ At(Walk, "pull") /\ request[Walk].kind = "seed"
  /\ session' = "running"
  /\ org' = owner[Seed]
  /\ walk' = [pc |-> "loop", queue |-> << <<Seed, 0>> >>, parent |-> Seed, depth |-> 0,
              answers |-> <<>>, seen |-> {Seed}, error |-> FALSE]
  /\ Finished(Walk)
  /\ UNCHANGED <<registry, limit, candidates, overlaps, counters>>

Full == Cardinality(walk.seen) - 1 >= limit.devices
Free == walk.pc = "loop" /\ At(Walk, "idle")

\* Mutation: the queue is used as a stack.
LastFirst == LET n == Len(walk.queue) IN <<walk.queue[n], SubSeq(walk.queue, 1, n - 1)>>

FirstFirst == <<Head(walk.queue), Tail(walk.queue)>>

\* An unanswered question matters only when it was the seed's.
Ask ==
  LET next == FirstFirst[1] IN
  /\ Free /\ walk.answers = <<>> /\ walk.queue # <<>> /\ ~Full
  /\ \/ /\ walk' = [walk EXCEPT !.queue = FirstFirst[2], !.parent = next[1],
                                !.depth = next[2], !.answers = Neighbors[next[1]]]
        /\ UNCHANGED failures
     \/ /\ Failure
        /\ walk' = [walk EXCEPT !.queue = FirstFirst[2], !.parent = next[1],
                                !.depth = next[2],
                                !.error = @ \/ next[2] = 0]
  /\ UNCHANGED <<registry, session, limit, org, candidates, request, overlaps,
                 requests, crashes>>

\* Mutation: the bound is tested between two devices only.
Unbounded == {}

\* Once the bound is reached the rest of the answers is dropped.
Dropped == IF Full THEN {walk.answers} ELSE {}

DropAnswers ==
  /\ Free /\ walk.answers # <<>> /\ walk.answers \in Dropped
  /\ walk' = [walk EXCEPT !.answers = <<>>]
  /\ UNCHANGED <<registry, session, limit, org, candidates, request, overlaps, counters>>

\* An unsafe address is refused, a known one is passed over.
PassOver ==
  /\ Free /\ walk.answers # <<>> /\ walk.answers \notin Dropped
  /\ Head(walk.answers) \in Unsafe \cup walk.seen
  /\ walk' = [walk EXCEPT !.answers = Tail(@)]
  /\ UNCHANGED <<registry, session, limit, org, candidates, request, overlaps, counters>>

Discover ==
  LET a == Head(walk.answers) IN
  /\ Free /\ walk.answers # <<>> /\ walk.answers \notin Dropped
  /\ a \notin Unsafe \cup walk.seen
  /\ walk' = [walk EXCEPT !.answers = Tail(@), !.seen = @ \cup {a}]
  /\ depth' = [depth EXCEPT ![a] = walk.depth + 1]
  /\ parent' = [parent EXCEPT ![a] = walk.parent]
  /\ IF a \in Loginable
     THEN /\ status' = [status EXCEPT ![a] = "discovered"]
          /\ Start(Walk, "access", "import", Starter, a, org, {}, "discovered")
     ELSE /\ status' = [status EXCEPT ![a] = "needs_input"]
          /\ UNCHANGED request
  /\ UNCHANGED <<registry, session, limit, org, linked, audits, overlaps, counters>>

\* An error of the seed is the answer only if there is no candidate.
Answer ==
  LET failed == walk.error /\ Candidates = {} IN
  /\ Free /\ walk.answers = <<>>
  /\ walk.queue = <<>> \/ Full
  /\ session' = IF failed THEN "failed" ELSE Summary({status[a] : a \in Candidates})
  /\ walk' = [walk EXCEPT !.pc = IF failed THEN "lost" ELSE "over"]
  /\ UNCHANGED <<registry, limit, org, candidates, request, overlaps, counters>>

----------------------------------------------------------------------------
(* The other requests.  The session's id is in the walk's answer.          *)

NewRequest(r) == At(r, "idle") /\ requests < MaxRequests /\ requests' = requests + 1

\* Mutation: the candidate's configuration is not looked at.
AnyCandidate == Candidates

\* 409 for a candidate that has its configuration.
Open == {a \in Candidates : ~linked[a]}

Operator(r, u, a, kind, pc) ==
  /\ NewRequest(r)
  /\ walk.pc = "over"
  /\ role[u][org] \in Operate
  /\ a \in Open
  /\ Start(r, pc, kind, u, a, org, {}, status[a])
  /\ overlaps' = overlaps \cup
       {{a, Mine(y)} : y \in {z \in Request : request[z] # Idle
                                              /\ request[z].kind \in Operation}}
  /\ UNCHANGED <<registry, session, limit, org, candidates, walk, failures, crashes>>

Process(r, u, a) == Operator(r, u, a, "import", "access")
Skip(r, u, a) == Operator(r, u, a, "skip", "skip")

\* Mutation: a dismissed candidate does not change the session.
SkipQuietly(x) ==
  /\ At(x, "skip")
  /\ status' = [status EXCEPT ![Mine(x)] = Written(request[x].loaded, @, "skipped")]
  /\ Finished(x)
  /\ UNCHANGED <<registry, session, limit, org, depth, parent, linked, audits, walk,
                 overlaps, counters>>

CommitSkip(x) ==
  /\ At(x, "skip")
  /\ status' = [status EXCEPT ![Mine(x)] = Written(request[x].loaded, @, "skipped")]
  /\ Become(x, "finish")
  /\ UNCHANGED <<registry, session, limit, org, depth, parent, linked, audits, walk,
                 overlaps, counters>>

\* discover_neighbors, and the first half of the other two: the device is
\* accessed for the user's own organization.
Visit(r, u, a) ==
  /\ NewRequest(r)
  /\ Start(r, "access", "pull", u, a, u, {}, "none")
  /\ UNCHANGED <<registry, session, limit, org, candidates, walk, overlaps, failures, crashes>>

\* Each pull asks for one address.
PullDevice(r, u, a) == a \in Contested /\ Visit(r, u, a)

\* pull_discovered_device goes on to a device its seed reports, which it
\* claims for the seed's organization.
PullNeighbor(r, a) ==
  LET q == request[r] IN
  /\ At(r, "pull") /\ q.kind = "pull"
  /\ a \in Contested \ {q.address}
  /\ \E n \in DOMAIN Neighbors[q.address] : Neighbors[q.address][n] = a
  /\ Start(r, "access", "neighbor", q.user, a, owner[q.address], q.held, "none")
  /\ UNCHANGED <<registry, session, limit, org, candidates, walk, overlaps, counters>>

\* What was pulled becomes a configuration of the device that was accessed.
EndPull(r) ==
  /\ At(r, "pull") /\ request[r].kind \in {"pull", "neighbor"}
  /\ DeviceFree(r, Mine(r))
  /\ Finished(r)
  /\ UNCHANGED <<registry, session, limit, org, candidates, walk, overlaps, counters>>

\* A request whose process dies; what it committed stays.
Crash(x) ==
  /\ failures + crashes < MaxFaults /\ crashes' = crashes + 1
  /\ request[x] # Idle \/ (x = Walk /\ walk.pc = "loop")
  /\ Finished(x)
  /\ walk' = IF x # Walk \/ walk = NoWalk THEN walk ELSE [walk EXCEPT !.pc = "lost"]
  /\ UNCHANGED <<registry, session, limit, org, candidates, overlaps, requests, failures>>

----------------------------------------------------------------------------

Next ==
  \/ \E u, v \in User, o \in User, r \in Granted : AddMember(u, v, o, r)
  \/ \E x \in Actor :
       \/ Access(x) \/ Claim(x) \/ Deny(x) \/ DeadlockVictim(x)
       \/ \E rejected \in BOOLEAN : PullFails(x, rejected)
       \/ Link(x) \/ Conflict(x) \/ Persist(x) \/ Record(x)
       \/ ReadSummary(x) \/ WriteSummary(x) \/ Crash(x)
  \/ RequestSession \/ CreateSession \/ Ask \/ DropAnswers \/ PassOver \/ Discover \/ Answer
  \/ \E r \in Request, a \in Address :
       \/ PullNeighbor(r, a)
       \/ \E u \in User : Process(r, u, a) \/ Skip(r, u, a) \/ PullDevice(r, u, a)
  \/ \E r \in Request : CommitSkip(r) \/ EndPull(r)

Spec == Init /\ [][Next]_vars

----------------------------------------------------------------------------

\* The walk keeps its bounds: no more candidates than max_devices, none deeper
\* than max_depth, each one level below a device that was imported, and never
\* the seed, although devices report each other and themselves in a circle.
BoundedWalk ==
  /\ Seed \notin Candidates
  /\ Cardinality(Candidates) <= limit.devices
  /\ \A a \in Candidates :
       /\ depth[a] \in 1 .. limit.depth
       /\ depth[a] = depth[parent[a]] + 1
       /\ parent[a] = Seed \/ audits[parent[a]] > 0

\* A candidate is recorded under the shortest way to it: no device the walk
\* imported closer to the seed reports it too, unless a device did not answer.
ShortestEvidence ==
  failures = 0 /\ requests = 0 =>
    \A a \in Candidates, p \in Candidates \cup {Seed} :
      (p = Seed \/ linked[p]) /\ (\E n \in DOMAIN Neighbors[p] : Neighbors[p][n] = a)
        => depth[a] <= depth[p] + 1

\* Whoever owns a device keeps it: two first accesses never both claim it.
OwnerKept == [][\A a \in Address : owner[a] \in User => owner'[a] = owner[a]]_owner

\* A request talks to a device, and stores what it pulled, only for a user who
\* operates the organization that owns the device.
AccessAuthorized ==
  \A x \in Actor : request[x].pc \in {"pull", "stored", "sent", "refused"} =>
    /\ owner[Mine(x)] \in User
    /\ role[request[x].user][owner[Mine(x)]] \in Operate

\* What a session imports is owned by the session's organization: its members
\* never get a configuration of a device that another organization owns.
ImportsOwned == \A a \in Address : audits[a] > 0 => owner[a] = org

\* routers/device_access.py:411.  A candidate is audited once, unless two
\* requests for it were in flight together or one was lost: the test for its
\* configuration holds for requests that follow each other.
AuditedOnce ==
  \A a \in Address : crashes = 0 /\ {a} \notin overlaps => audits[a] <= 1

\* A session that awaits input has a candidate without an audit that nobody has
\* dismissed, and that takes the input, unless requests for its candidates
\* overlapped or one was lost.
AwaitingCanContinue ==
  session = "awaiting_input" /\ crashes = 0 /\ overlaps = {}
    /\ (\A r \in Request : request[r] = Idle \/ request[r].kind \notin Operation)
    => \E a \in Open : status[a] \in {"needs_input", "failed"}
=============================================================================
