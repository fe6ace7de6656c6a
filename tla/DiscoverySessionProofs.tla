----------------------- MODULE DiscoverySessionProofs -----------------------
(***************************************************************************)
(* Proofs about what a discovery session promises while its walk and the   *)
(* operators' requests interleave: a candidate is audited once, a session  *)
(* that awaits input has something to do, and the walk is breadth first.   *)
(***************************************************************************)
EXTENDS DeviceDiscoveryProofs

-----------------------------------------------------------------------------
(* Whose turn it is.                                                       *)

\* A request that imports or dismisses a candidate.
Working(x) == request[x] # Idle /\ request[x].kind \in Operation

\* The walk's request belongs to a walk that goes on; operators come when it is over; and
\* only what works on a candidate sums the session up.
Turn(x, p) ==
  /\ x = Walk =>
       /\ p.kind \in {"seed", "import"} /\ p.pc \in Accessing \cup Storing
       /\ walk # NoWalk => walk.pc = "loop"
  /\ x # Walk /\ p.kind \in Operation => walk.pc = "over"
  /\ p.pc \in {"finish", "summary"} => p.kind \in Operation

\* A candidate the walk has not found has neither an audit nor a configuration, and a
\* session awaits input only after its walk has answered.
TurnInv ==
  /\ \A x \in Actor : request[x] # Idle => Turn(x, request[x])
  /\ session = "awaiting_input" => walk.pc = "over"
  /\ \A a \in Address : status[a] = "absent" => audits[a] = 0 /\ ~linked[a]

-----------------------------------------------------------------------------
(* What a step does to the requests.                                       *)

\* The other requests stay where they are.
Alone(x) == \A y \in Actor \ {x} : request'[y] = request[y]

\* The steps that end a request.
LEMMA Ends ==
  ASSUME IInv, NEW x \in Actor,
         \/ Deny(x) \/ DeadlockVictim(x) \/ Conflict(x) \/ WriteSummary(x) \/ EndPull(x)
         \/ Crash(x) \/ (Record(x) /\ x = Walk) \/ \E rejected \in BOOLEAN : PullFails(x, rejected)
  PROVE  request'[x] = Idle /\ Alone(x)
  <1>1. Finished(x)
    BY DEF Deny, DeadlockVictim, Conflict, WriteSummary, EndPull, Crash, Record, PullFails
  <1> QED
    BY <1>1 DEF IInv, RequestInv, RequestsTyped, Finished, Alone

\* The steps that move a request on: it keeps its device and its purpose.
LEMMA Moves ==
  ASSUME IInv, NEW x \in Actor,
         \/ Access(x) \/ Claim(x) \/ Link(x) \/ Persist(x) \/ ReadSummary(x) \/ CommitSkip(x)
         \/ (Record(x) /\ x # Walk)
  PROVE  /\ request[x] \in Busy /\ request[x] # Idle /\ Alone(x) /\ request'[x] # Idle
         /\ request'[x].kind = request[x].kind /\ request'[x].address = request[x].address
         /\ request[x].address \in Address
  <1>1. request[x].pc # "idle" /\ RequestsTyped
    BY DEF Access, Claim, Link, Importing, Persist, ReadSummary, CommitSkip, Record, At, IInv,
           RequestInv
  <1>2. request[x] \in Busy /\ request[x] # Idle
    BY <1>1, BusyType
  <1>3. PICK p \in Busy : request' = [request EXCEPT ![x] = p]
                           /\ p.kind = request[x].kind /\ p.address = request[x].address
    BY <1>1, <1>2
       DEF RequestsTyped, Busy, Access, Claim, Link, Persist, ReadSummary, CommitSkip, Record,
           Become
  <1>4. p # Idle
    BY DEF Busy, Idle
  <1> QED
    BY <1>1, <1>2, <1>3, <1>4 DEF RequestsTyped, Busy, Alone

-----------------------------------------------------------------------------
(* Whose turn it is: the steps.                                            *)

\* What the walk has not found stays as it is.
BlankKept ==
  \A a \in Address : status'[a] = "absent" =>
    status[a] = "absent" /\ audits'[a] = audits[a] /\ linked'[a] = linked[a]

SamePlace == walk'.pc = walk.pc /\ (walk' = NoWalk <=> walk = NoWalk)

\* One request changes and the walk stays where it is.
LEMMA TurnFrame ==
  ASSUME TurnInv, NEW x \in Actor, Alone(x), SamePlace, BlankKept,
         request'[x] # Idle => Turn(x, request[x])',
         session' = "awaiting_input" => walk.pc = "over"
  PROVE  TurnInv'
  <1>1. ASSUME NEW y \in Actor, request'[y] # Idle
        PROVE  Turn(y, request[y])'
    <2>1. CASE y # x
      <3>1. request'[y] = request[y] /\ Turn(y, request[y])
        BY <1>1, <2>1 DEF Alone, TurnInv
      <3> QED
        BY <3>1 DEF Turn, SamePlace
    <2> QED
      BY <1>1, <2>1
  <1>2. (session = "awaiting_input" => walk.pc = "over")'
    BY DEF SamePlace
  <1>3. (\A a \in Address : status[a] = "absent" => audits[a] = 0 /\ ~linked[a])'
    BY DEF TurnInv, BlankKept
  <1> QED
    BY <1>1, <1>2, <1>3 DEF TurnInv

\* A candidate that gets a status stays one.
LEMMA StatusGiven ==
  ASSUME IInv, NEW a \in Candidates, NEW s \in Status \ {"absent"},
         status' = [status EXCEPT ![a] = s],
         \A b \in Address \ {a} : audits'[b] = audits[b] /\ linked'[b] = linked[b]
  PROVE  BlankKept
  BY DEF IInv, TypeOK, Candidates, BlankKept, Status

\* A walk that is asked to go on is not one that is over.
LEMMA WalkTurn ==
  ASSUME TurnInv, request[Walk] # Idle, walk # NoWalk
  PROVE  walk.pc = "loop" /\ session # "awaiting_input"
  BY DEF TurnInv, Turn, Actor

\* While the walk goes on only it works on a candidate.
LEMMA WalkWorks ==
  ASSUME TurnInv, walk = NoWalk \/ walk.pc = "loop", NEW y \in Actor, Working(y)
  PROVE  y = Walk
  BY DEF TurnInv, Turn, Working, NoWalk

\* The walk that is lost, and its request with it.
LEMMA TurnLost ==
  ASSUME IInv, TurnInv, Alone(Walk), request'[Walk] = Idle, walk # NoWalk, walk.pc = "loop",
         walk' = [walk EXCEPT !.pc = "lost"], UNCHANGED <<session, candidates>>
  PROVE  TurnInv'
  <1>1. walk'.pc = "lost" /\ walk' # NoWalk
    BY DEF IInv, TypeOK, Walking, NoWalk
  <1>2. ASSUME NEW y \in Actor, request'[y] # Idle
        PROVE  Turn(y, request[y])'
    <2>1. y # Walk /\ request'[y] = request[y] /\ request[y] # Idle
      BY <1>2 DEF Alone
    <2>2. Turn(y, request[y])
      BY <2>1 DEF TurnInv
    <2> QED
      BY <2>1, <2>2 DEF Turn
  <1> QED
    BY <1>1, <1>2 DEF TurnInv, candidates

\* The steps that end a request.
LEMMA TurnEnds ==
  ASSUME IInv, ShapeInv, TurnInv, NEW x \in Actor,
         \/ Deny(x) \/ DeadlockVictim(x) \/ Conflict(x) \/ WriteSummary(x) \/ EndPull(x)
         \/ Crash(x) \/ \E rejected \in BOOLEAN : PullFails(x, rejected)
  PROVE  TurnInv'
  <1>1. request'[x] = Idle /\ Alone(x)
    BY Ends
  <1>2. CASE Deny(x) \/ \E rejected \in BOOLEAN : PullFails(x, rejected)
    <2>1. SamePlace /\ session' = session /\ audits' = audits /\ linked' = linked
      BY <1>2 DEF Deny, PullFails, SamePlace, registry
    <2>2. BlankKept
      <3>1. CASE status' = status
        BY <2>1, <3>1 DEF BlankKept
      <3>2. CASE status' # status
        <4>1. request[x] # Idle /\ request[x].kind \in Operation
          BY <1>2, <3>2 DEF Deny, PullFails, Importing, At, Idle, Operation
        <4>2. request[x].address \in Candidates
          BY <4>1, ImportsCandidate
        <4>3. PICK s \in Status \ {"absent"} : status' = [status EXCEPT ![request[x].address] = s]
          BY <1>2, <3>2, <4>2
             DEF Deny, PullFails, Mine, Written, Status, Candidates, IInv, TypeOK
        <4> QED
          BY <2>1, <4>2, <4>3, StatusGiven
      <3> QED
        BY <3>1, <3>2
    <2> QED
      BY <1>1, <2>1, <2>2, TurnFrame DEF TurnInv
  <1>3. CASE WriteSummary(x)
    <2>1. request[x] # Idle /\ request[x].pc = "summary"
      BY <1>3 DEF WriteSummary, At, Idle
    <2>2. walk.pc = "over"
      BY <2>1 DEF TurnInv, Turn, Storing, Accessing
    <2>3. SamePlace /\ BlankKept
      BY <1>3 DEF WriteSummary, SamePlace, BlankKept, candidates
    <2> QED
      BY <1>1, <2>2, <2>3, TurnFrame
  <1>4. CASE DeadlockVictim(x) \/ EndPull(x)
    BY <1>1, <1>4, TurnFrame
       DEF DeadlockVictim, EndPull, SamePlace, BlankKept, candidates, TurnInv
  <1>5. CASE Conflict(x) \/ Crash(x)
    <2>1. UNCHANGED <<session, candidates>>
      BY <1>5 DEF Conflict, Crash
    <2>2. CASE walk' = walk
      BY <1>1, <2>1, <2>2, TurnFrame DEF SamePlace, BlankKept, candidates, TurnInv
    <2>3. CASE walk' # walk
      <3>1. x = Walk /\ walk # NoWalk /\ walk' = [walk EXCEPT !.pc = "lost"]
        <4>1. CASE Conflict(x)
          BY <2>3, <4>1
             DEF IInv, RequestInv, PlacedInv, Placed, Conflict, Importing, At, Idle
        <4>2. CASE Crash(x)
          BY <2>3, <4>2 DEF Crash
        <4> QED
          BY <1>5, <4>1, <4>2
      <3>2. request[Walk] # Idle \/ walk.pc = "loop"
        BY <1>5, <3>1 DEF Conflict, Importing, At, Idle, Crash
      <3>3. walk.pc = "loop"
        BY <3>1, <3>2, WalkTurn
      <3> QED
        BY <1>1, <2>1, <3>1, <3>3, TurnLost
    <2> QED
      BY <2>2, <2>3
  <1> QED
    BY <1>2, <1>3, <1>4, <1>5

\* The steps that move a request on.
LEMMA TurnMoves ==
  ASSUME IInv, ShapeInv, TurnInv, NEW x \in Actor,
         \/ Access(x) \/ Claim(x) \/ Link(x) \/ Persist(x) \/ ReadSummary(x) \/ CommitSkip(x)
         \/ (Record(x) /\ x # Walk)
  PROVE  TurnInv'
  <1>1. /\ request[x] \in Busy /\ request[x] # Idle /\ Alone(x) /\ request'[x] # Idle
        /\ request'[x].kind = request[x].kind /\ request'[x].address = request[x].address
        /\ request[x].address \in Address
    BY Moves
  <1>2. Turn(x, request[x]) /\ Shaped(request[x])
    BY <1>1 DEF TurnInv, ShapeInv, RequestsShaped
  <1>3. SamePlace /\ session' = session
    BY DEF Access, Claim, Link, Persist, ReadSummary, CommitSkip, Record, SamePlace
  <1>4. Turn(x, request[x])'
    <2>1. CASE Access(x) \/ Claim(x) \/ Link(x) \/ Persist(x)
      <3>1. request'[x].pc \in {"claim", "pull", "stored", "sent", "refused"}
        BY <1>1, <2>1
           DEF IInv, RequestInv, RequestsTyped, Access, Claim, Link, Persist, Become, Busy
      <3> QED
        BY <1>1, <1>2, <1>3, <3>1 DEF Turn, SamePlace, Accessing, Storing
    <2>2. CASE ReadSummary(x) \/ CommitSkip(x) \/ (Record(x) /\ x # Walk)
      <3>1. x # Walk
        BY <1>2, <2>2 DEF Turn, ReadSummary, CommitSkip, At, Accessing, Storing
      <3>2. request[x].kind \in Operation
        BY <1>2, <2>2, StoresImport
           DEF Turn, Shaped, ReadSummary, CommitSkip, Record, At, Storing, Operation
      <3> QED
        BY <1>1, <1>2, <1>3, <3>1, <3>2 DEF Turn, SamePlace
    <2> QED
      BY <2>1, <2>2
  <1>5. BlankKept
    <2>1. CASE Access(x) \/ Claim(x) \/ ReadSummary(x)
      BY <2>1 DEF Access, Claim, ReadSummary, candidates, BlankKept
    <2>2. CASE Link(x) \/ Persist(x) \/ CommitSkip(x) \/ Record(x)
      <3>1. request[x].kind \in Operation
        BY <1>2, <2>2, StoresImport
           DEF Shaped, Link, Importing, Persist, CommitSkip, Record, At, Storing, Operation
      <3>2. request[x].address \in Candidates
        BY <1>1, <3>1, ImportsCandidate
      <3>3. PICK s \in Status \ {"absent"} : status' = [status EXCEPT ![request[x].address] = s]
        <4>1. CASE Persist(x)
          BY <3>2, <4>1 DEF Persist, Candidates, IInv, TypeOK
        <4>2. CASE Link(x) \/ CommitSkip(x) \/ Record(x)
          BY <3>2, <4>2
             DEF Link, CommitSkip, Record, Mine, Written, Status, Candidates, IInv, TypeOK
        <4> QED
          BY <2>2, <4>1, <4>2
      <3>4. \A b \in Address \ {request[x].address} :
              audits'[b] = audits[b] /\ linked'[b] = linked[b]
        BY <2>2 DEF Link, Persist, CommitSkip, Record, Mine, IInv, TypeOK
      <3> QED
        BY <3>2, <3>3, <3>4, StatusGiven
    <2> QED
      BY <2>1, <2>2
  <1> QED
    BY <1>1, <1>3, <1>4, <1>5, TurnFrame DEF TurnInv

\* An access to a device, for the walk's seed or outside the session.
LEMMA Visits ==
  ASSUME IInv, NEW r \in Actor, NEW a \in Address,
         \/ RequestSession /\ r = Walk /\ a = Seed
         \/ r \in Request /\ (PullNeighbor(r, a) \/ \E u \in User : PullDevice(r, u, a))
  PROVE  /\ Alone(r) /\ request'[r].pc = "access"
         /\ request'[r].kind = IF r = Walk THEN "seed" ELSE request'[r].kind
         /\ request'[r].kind \in {"seed", "pull", "neighbor"}
         /\ UNCHANGED <<session, candidates, walk, overlaps, failures, crashes>>
  <1>1. RequestsTyped
    BY DEF IInv, RequestInv
  <1>2. CASE RequestSession /\ r = Walk /\ a = Seed
    BY <1>1, <1>2 DEF RequestsTyped, RequestSession, Start, Alone, counters
  <1>3. CASE r \in Request /\ (PullNeighbor(r, a) \/ \E u \in User : PullDevice(r, u, a))
    BY <1>1, <1>3, DiscoveryAssumption
       DEF RequestsTyped, PullNeighbor, PullDevice, Visit, Start, Alone, counters
  <1> QED
    BY <1>2, <1>3

\* An operator's request for a candidate.
LEMMA Operates ==
  ASSUME IInv, NEW r \in Request, NEW a \in Address, NEW u \in User,
         Process(r, u, a) \/ Skip(r, u, a)
  PROVE  /\ Alone(r)
         /\ request'[r] # Idle /\ request'[r].address = a
         /\ request'[r].kind \in Operation /\ request'[r].pc \in {"access", "skip"}
         /\ request'[r].loaded = status[a] /\ a \in Open /\ walk.pc = "over"
         /\ UNCHANGED <<session, candidates, walk, failures, crashes>>
         /\ overlaps' = overlaps \cup
              {{a, request[y].address} : y \in {z \in Request : Working(z)}}
  BY DEF IInv, RequestInv, RequestsTyped, Actor, Process, Skip, Operator, NewRequest, At, Start,
         Alone, Idle, Operation, Working, Mine

\* The steps that start a request.
LEMMA TurnStarts ==
  ASSUME IInv, TurnInv,
         \/ RequestSession
         \/ \E r \in Request, a \in Address :
              \/ PullNeighbor(r, a)
              \/ \E u \in User : Process(r, u, a) \/ Skip(r, u, a) \/ PullDevice(r, u, a)
  PROVE  TurnInv'
  <1>1. ASSUME NEW r \in Actor, NEW a \in Address,
               \/ RequestSession /\ r = Walk /\ a = Seed
               \/ r \in Request /\ (PullNeighbor(r, a) \/ \E u \in User : PullDevice(r, u, a))
        PROVE  TurnInv'
    <2>1. /\ Alone(r) /\ request'[r].pc = "access"
          /\ request'[r].kind = IF r = Walk THEN "seed" ELSE request'[r].kind
          /\ request'[r].kind \in {"seed", "pull", "neighbor"}
          /\ UNCHANGED <<session, candidates, walk, overlaps, failures, crashes>>
      BY <1>1, Visits
    <2>2. r = Walk => walk = NoWalk
      BY <1>1, DiscoveryAssumption DEF RequestSession
    <2>3. Turn(r, request[r])'
      BY <2>1, <2>2 DEF Turn, Accessing, Operation
    <2> QED
      BY <2>1, <2>3, TurnFrame DEF SamePlace, BlankKept, candidates, TurnInv
  <1>2. ASSUME NEW r \in Request, NEW a \in Address, NEW u \in User,
               Process(r, u, a) \/ Skip(r, u, a)
        PROVE  TurnInv'
    <2>1. /\ Alone(r) /\ request'[r].pc \in {"access", "skip"} /\ walk.pc = "over"
          /\ UNCHANGED <<session, candidates, walk>>
      BY <1>2, Operates
    <2>2. r \in Actor /\ r # Walk
      BY DiscoveryAssumption DEF Actor
    <2>3. Turn(r, request[r])'
      BY <2>1, <2>2 DEF Turn
    <2> QED
      BY <2>1, <2>2, <2>3, TurnFrame DEF SamePlace, BlankKept, candidates, TurnInv
  <1>3. \A r \in Request : r \in Actor
    BY DEF Actor
  <1> QED
    BY <1>1, <1>2, <1>3, DiscoveryAssumption DEF Actor

\* No request starts or ends while the walk asks, or passes over what it was told.
LEMMA TurnStill ==
  ASSUME IInv, TurnInv,
         \/ \E u, v \in User, o \in User, r \in Granted : AddMember(u, v, o, r)
         \/ Ask \/ DropAnswers \/ PassOver \/ UNCHANGED vars
  PROVE  TurnInv'
  <1>1. UNCHANGED <<request, session, candidates>>
    BY DEF AddMember, Ask, DropAnswers, PassOver, vars
  <1>2. SamePlace
    <2>1. CASE walk' = walk
      BY <2>1 DEF SamePlace
    <2>2. CASE Ask \/ DropAnswers \/ PassOver
      <3>1. walk # NoWalk /\ walk \in Walking
        BY <2>2, WalkType DEF Ask, DropAnswers, PassOver, Free
      <3>2. walk'.pc = walk.pc /\ walk' # NoWalk
        BY <2>2, <3>1 DEF Ask, DropAnswers, PassOver, Walking, NoWalk
      <3> QED
        BY <3>1, <3>2 DEF SamePlace
    <2> QED
      BY <2>1, <2>2 DEF AddMember, vars
  <1> QED
    BY <1>1, <1>2 DEF TurnInv, Turn, SamePlace, candidates

\* CreateSession: nobody works on a candidate yet.
LEMMA TurnCreates ==
  ASSUME IInv, TurnInv, CreateSession
  PROVE  TurnInv'
  <1>1. request[Walk] # Idle /\ request[Walk].kind = "seed" /\ Walk \in Actor
    BY DEF CreateSession, At, Idle, Actor
  <1>2. walk = NoWalk
    BY <1>1 DEF IInv, RequestInv, PlacedInv, Placed
  <1>3. request'[Walk] = Idle /\ \A y \in Actor \ {Walk} : request'[y] = request[y]
    BY <1>1 DEF IInv, RequestInv, RequestsTyped, CreateSession, Finished
  <1>4. walk.pc # "over" /\ session' # "awaiting_input" /\ UNCHANGED candidates
    BY <1>2 DEF NoWalk, CreateSession
  <1> QED
    BY <1>3, <1>4 DEF TurnInv, Turn, candidates

\* What the walk is at when it is free.
LEMMA WalkFree ==
  ASSUME IInv, ShapeInv, Free
  PROVE  /\ walk # NoWalk /\ walk \in Walking /\ Walked /\ walk.pc = "loop"
         /\ request[Walk] = Idle /\ Walk \in Actor
  <1>1. walk # NoWalk /\ walk \in Walking /\ Walked
    BY WalkType DEF Free, ShapeInv, WalkedInv
  <1>2. request[Walk].pc = "idle" /\ Walk \in Actor
    BY DEF Free, At, Actor
  <1>3. request[Walk] = Idle
    BY <1>2, NotIdle DEF IInv, RequestInv
  <1> QED
    BY <1>1, <1>2, <1>3 DEF Free

\* What Discover does: a new candidate, and the walk's request for it if there are
\* credentials to try.
LEMMA Discovers ==
  ASSUME IInv, ShapeInv, Discover, NEW a, a = Head(walk.answers)
  PROVE  /\ a \in Address \ walk.seen /\ status[a] = "absent"
         /\ walk'.seen = walk.seen \cup {a} /\ walk'.parent = walk.parent
         /\ walk'.depth = walk.depth /\ walk'.queue = walk.queue /\ walk' # NoWalk
         /\ walk'.pc = walk.pc /\ walk'.answers = Tail(walk.answers)
         /\ Alone(Walk)
         /\ IF a \in Loginable
            THEN /\ request'[Walk] # Idle /\ request'[Walk].address = a
                 /\ request'[Walk].kind = "import" /\ request'[Walk].pc = "access"
                 /\ request'[Walk].loaded = "discovered"
                 /\ status' = [status EXCEPT ![a] = "discovered"]
            ELSE /\ request' = request
                 /\ status' = [status EXCEPT ![a] = "needs_input"]
  <1>1. walk # NoWalk /\ walk \in Walking /\ Walked
    BY WalkFree DEF Discover
  <1>2. walk.answers \in Seq(Address \cup Unsafe) /\ walk.answers # <<>>
    BY <1>1 DEF Walking, Discover
  <1>3. a \in Address \ walk.seen
    BY <1>2 DEF Discover
  <1>4. a # Seed /\ a \notin Candidates /\ status[a] = "absent"
    BY <1>1, <1>3 DEF Walked, Candidates
  <1>5. /\ walk'.seen = walk.seen \cup {a} /\ walk'.parent = walk.parent
        /\ walk'.depth = walk.depth /\ walk'.queue = walk.queue /\ walk' # NoWalk
        /\ walk'.pc = walk.pc /\ walk'.answers = Tail(walk.answers)
    BY <1>1 DEF Discover, Walking, NoWalk
  <1>6. CASE a \in Loginable
    BY <1>3, <1>4, <1>5, <1>6
       DEF IInv, RequestInv, RequestsTyped, Discover, Start, Actor, Alone, Idle
  <1>7. CASE a \notin Loginable
    BY <1>3, <1>4, <1>5, <1>7 DEF Discover, Alone
  <1> QED
    BY <1>6, <1>7

\* Discover: the new candidate has neither an audit nor a configuration.
LEMMA TurnDiscovers ==
  ASSUME IInv, ShapeInv, TurnInv, Discover
  PROVE  TurnInv'
  <1> DEFINE a == Head(walk.answers)
  <1>1. /\ a \in Address \ walk.seen /\ walk' # NoWalk /\ walk'.pc = walk.pc
        /\ Alone(Walk)
        /\ IF a \in Loginable
           THEN /\ request'[Walk] # Idle
                /\ request'[Walk].kind = "import" /\ request'[Walk].pc = "access"
                /\ status' = [status EXCEPT ![a] = "discovered"]
           ELSE /\ request' = request
                /\ status' = [status EXCEPT ![a] = "needs_input"]
    BY Discovers
  <1> HIDE DEF a
  <1>2. walk # NoWalk /\ walk.pc = "loop" /\ request[Walk] = Idle /\ Walk \in Actor
    BY WalkFree DEF Discover
  <1>3. session' = session /\ linked' = linked /\ audits' = audits
    BY DEF Discover
  <1>4. BlankKept
    BY <1>1, <1>3 DEF IInv, TypeOK, BlankKept
  <1>5. request'[Walk] # Idle => Turn(Walk, request[Walk])'
    BY <1>1, <1>2, DiscoveryAssumption DEF Turn, Accessing
  <1> QED
    BY <1>1, <1>2, <1>3, <1>4, <1>5, TurnFrame DEF SamePlace, TurnInv

\* Answer: the walk is over, or lost with an error; its request has ended.
LEMMA TurnAnswers ==
  ASSUME IInv, ShapeInv, TurnInv, Answer
  PROVE  TurnInv'
  <1>1. walk # NoWalk /\ walk \in Walking /\ walk.pc = "loop" /\ request[Walk] = Idle
    BY WalkFree DEF Answer
  <1>2. UNCHANGED <<request, candidates>>
    BY DEF Answer
  <1>3. walk'.pc = "over" \/ (walk'.pc = "lost" /\ session' = "failed")
    BY <1>1 DEF Answer, Walking
  <1>4. ASSUME NEW y \in Actor, request[y] # Idle
        PROVE  Turn(y, request[y])'
    <2>1. y # Walk /\ Turn(y, request[y])
      BY <1>1, <1>4 DEF TurnInv
    <2> QED
      BY <1>1, <1>2, <2>1 DEF Turn
  <1> QED
    BY <1>2, <1>3, <1>4 DEF TurnInv, candidates

\* Record, by the walk: its request ends and it goes on.
LEMMA TurnRecords ==
  ASSUME IInv, ShapeInv, TurnInv, Record(Walk)
  PROVE  TurnInv'
  <1>1. request'[Walk] = Idle /\ Alone(Walk) /\ Walk \in Actor
    BY Ends DEF Actor
  <1>2. /\ request[Walk].kind = "import" /\ walk # NoWalk /\ request[Walk] # Idle
        /\ request[Walk].address \in Address
    BY <1>1, StoresImport DEF Record, At, Storing
  <1>3. walk \in Walking
    BY <1>2 DEF IInv, TypeOK
  <1>4. SamePlace /\ session' = session
    BY <1>2, <1>3 DEF Record, SamePlace, Walking, NoWalk
  <1>5. request[Walk].address \in Candidates
    BY <1>1, <1>2, ImportsCandidate DEF Operation
  <1>6. PICK s \in Status \ {"absent"} : status' = [status EXCEPT ![request[Walk].address] = s]
    BY DEF Record, Mine, Status
  <1>7. \A b \in Address \ {request[Walk].address} :
          audits'[b] = audits[b] /\ linked'[b] = linked[b]
    BY DEF Record, Mine, IInv, TypeOK
  <1>8. BlankKept
    BY <1>5, <1>6, <1>7, StatusGiven
  <1> QED
    BY <1>1, <1>4, <1>8, TurnFrame DEF TurnInv

\* At first there is no request.
LEMMA TurnInitially == Init => TurnInv
  BY DEF Init, TurnInv

\* Every step keeps the turns.
LEMMA TurnInductive == IInv /\ ShapeInv /\ TurnInv /\ [Next]_vars => TurnInv'
  <1> SUFFICES ASSUME IInv, ShapeInv, TurnInv, [Next]_vars
      PROVE  TurnInv'
    OBVIOUS
  <1>1. CASE \/ \E u, v \in User, o \in User, r \in Granted : AddMember(u, v, o, r)
             \/ Ask \/ DropAnswers \/ PassOver \/ UNCHANGED vars
    BY <1>1, TurnStill
  <1>2. ASSUME NEW x \in Actor,
               \/ Deny(x) \/ DeadlockVictim(x) \/ Conflict(x) \/ WriteSummary(x) \/ EndPull(x)
               \/ Crash(x) \/ \E rejected \in BOOLEAN : PullFails(x, rejected)
        PROVE  TurnInv'
    BY <1>2, TurnEnds
  <1>3. ASSUME NEW x \in Actor,
               \/ Access(x) \/ Claim(x) \/ Link(x) \/ Persist(x) \/ ReadSummary(x)
               \/ CommitSkip(x) \/ (Record(x) /\ x # Walk)
        PROVE  TurnInv'
    BY <1>3, TurnMoves
  <1>4. CASE \/ RequestSession
             \/ \E r \in Request, a \in Address :
                  \/ PullNeighbor(r, a)
                  \/ \E u \in User : Process(r, u, a) \/ Skip(r, u, a) \/ PullDevice(r, u, a)
    BY <1>4, TurnStarts
  <1>5. CASE CreateSession \/ Discover \/ Answer \/ Record(Walk)
    BY <1>5, TurnCreates, TurnDiscovers, TurnAnswers, TurnRecords
  <1>6. \A r \in Request : r \in Actor
    BY DEF Actor
  <1> QED
    BY <1>1, <1>2, <1>3, <1>4, <1>5, <1>6 DEF Next

-----------------------------------------------------------------------------
(* One audit for each candidate.                                           *)

\* At most one request works on the candidate; until it stores, there is no audit; and an
\* audit the candidate does not know of is that of the request that just stored it.
Once(a) ==
  /\ \A x, y \in Actor :
       Working(x) /\ Working(y) /\ request[x].address = a /\ request[y].address = a => x = y
  /\ audits[a] <= 1
  /\ \A x \in Actor :
       Working(x) /\ request[x].address = a /\ request[x].pc \in Accessing \cup {"stored"}
         => audits[a] = 0
  /\ audits[a] > 0 /\ ~linked[a] =>
       \E x \in Actor : Working(x) /\ request[x].address = a
                                   /\ request[x].pc \in {"sent", "refused"}

OnceInv == crashes = 0 => \A a \in Address : {a} \notin overlaps => Once(a)

\* The candidate's requests go on or end, and its audits stay.
LEMMA OnceFrame ==
  ASSUME NEW a \in Address, Once(a), audits'[a] = audits[a], linked'[a] = linked[a],
         \A x \in Actor : Working(x)' /\ request'[x].address = a =>
           /\ Working(x) /\ request[x].address = a
           /\ request'[x].pc \in Accessing \cup {"stored"} =>
                request[x].pc \in Accessing \cup {"stored"},
         \A x \in Actor :
           Working(x) /\ request[x].address = a /\ request[x].pc \in {"sent", "refused"}
             => /\ Working(x)' /\ request'[x].address = a
                /\ request'[x].pc \in {"sent", "refused"}
  PROVE  Once(a)'
  BY DEF Once

\* A request may change alone, if it has not stored anything and does not come to.
LEMMA OneOnce ==
  ASSUME NEW a \in Address, Once(a), audits'[a] = audits[a], linked'[a] = linked[a],
         NEW x \in Actor, Alone(x), request[x].pc \notin {"sent", "refused"},
         Working(x)' /\ request'[x].address = a =>
           /\ Working(x) /\ request[x].address = a
           /\ request'[x].pc \in Accessing \cup {"stored"} =>
                request[x].pc \in Accessing \cup {"stored"}
  PROVE  Once(a)'
  BY OnceFrame DEF Alone, Working

\* The steps that end a request which has not stored anything.
LEMMA OnceEnds ==
  ASSUME IInv, NEW a \in Address, Once(a), NEW x \in Actor,
         \/ Deny(x) \/ DeadlockVictim(x) \/ Conflict(x) \/ WriteSummary(x) \/ EndPull(x)
         \/ \E rejected \in BOOLEAN : PullFails(x, rejected)
  PROVE  Once(a)'
  <1>1. request'[x] = Idle /\ Alone(x)
    BY Ends
  <1>2. request[x].pc \notin {"sent", "refused"}
    BY DEF Deny, DeadlockVictim, Waits, Conflict, WriteSummary, EndPull, PullFails, Importing, At
  <1>3. audits' = audits /\ linked' = linked
    BY DEF Deny, DeadlockVictim, Conflict, WriteSummary, EndPull, PullFails, candidates
  <1> QED
    BY <1>1, <1>2, <1>3, OneOnce DEF Working

\* The steps that move on a request which does not store yet.
LEMMA OnceMoves ==
  ASSUME IInv, NEW a \in Address, Once(a), NEW x \in Actor,
         Access(x) \/ Claim(x) \/ Link(x) \/ ReadSummary(x) \/ CommitSkip(x)
  PROVE  Once(a)'
  <1>1. /\ request[x] \in Busy /\ request[x] # Idle /\ Alone(x) /\ request'[x] # Idle
        /\ request'[x].kind = request[x].kind /\ request'[x].address = request[x].address
    BY Moves
  <1>2. /\ request[x].pc \notin {"sent", "refused"}
        /\ request'[x].pc \in Accessing \cup {"stored"} =>
             request[x].pc \in Accessing \cup {"stored"}
    BY <1>1
       DEF IInv, RequestInv, RequestsTyped, Busy, Access, Claim, Link, Importing, ReadSummary,
           CommitSkip, At, Become, Accessing
  <1>3. audits' = audits /\ linked' = linked
    BY DEF Access, Claim, Link, ReadSummary, CommitSkip, candidates
  <1> QED
    BY <1>1, <1>2, <1>3, OneOnce DEF Working

\* Persist: the candidate's first audit, by the only request that works on it.
LEMMA OncePersists ==
  ASSUME IInv, NEW a \in Address, Once(a), NEW x \in Actor, Persist(x)
  PROVE  Once(a)'
  <1>1. /\ Alone(x) /\ request'[x] # Idle /\ request[x] \in Busy
        /\ request'[x].kind = request[x].kind /\ request'[x].address = request[x].address
    BY Moves
  <1>2. /\ request[x].pc = "stored" /\ Working(x) /\ request[x].address \in Address
        /\ request'[x].pc \in {"sent", "refused"} /\ linked' = linked
        /\ audits' = [audits EXCEPT ![request[x].address] = @ + 1]
    BY <1>1, StoresImport
       DEF IInv, RequestInv, RequestsTyped, Busy, Persist, At, Become, Mine, Storing, Working,
           Operation
  <1>3. CASE request[x].address = a
    <2>1. audits[a] = 0 /\ audits'[a] = 1
      BY <1>2, <1>3 DEF Once, IInv, TypeOK
    <2>2. ASSUME NEW y \in Actor, Working(y)', request'[y].address = a
          PROVE  y = x
      <3>1. CASE y # x
        BY <1>1, <1>2, <1>3, <2>2, <3>1 DEF Once, Alone, Working
      <3> QED
        BY <3>1
    <2>3. Working(x)'
      BY <1>1, <1>2 DEF Working
    <2> QED
      BY <1>1, <1>2, <1>3, <2>1, <2>2, <2>3 DEF Once, Accessing
  <1>4. CASE request[x].address # a
    <2>1. audits'[a] = audits[a]
      BY <1>2, <1>4 DEF IInv, TypeOK
    <2> QED
      BY <1>1, <1>2, <1>4, <2>1, OneOnce DEF Working
  <1> QED
    BY <1>3, <1>4

\* Record: the candidate knows of its audit.
LEMMA OnceRecords ==
  ASSUME IInv, NEW a \in Address, Once(a), NEW x \in Actor, Record(x)
  PROVE  Once(a)'
  <1>1. /\ request[x].pc \in {"sent", "refused"} /\ request[x].address \in Address
    BY StoresImport DEF Record, At, Storing
  <1>2. /\ Alone(x)
        /\ request'[x] # Idle => /\ request'[x].address = request[x].address
                                 /\ request'[x].kind = request[x].kind
                                 /\ request'[x].pc \notin Accessing \cup {"stored"}
    <2>1. CASE x = Walk
      BY <2>1, Ends
    <2>2. CASE x # Walk
      <3>1. /\ Alone(x) /\ request'[x].kind = request[x].kind
            /\ request'[x].address = request[x].address /\ request[x] \in Busy
        BY <2>2, Moves
      <3>2. request'[x].pc = "finish"
        BY <2>2, <3>1 DEF IInv, RequestInv, RequestsTyped, Busy, Record, Become
      <3> QED
        BY <3>1, <3>2 DEF Accessing
    <2> QED
      BY <2>1, <2>2
  <1>3. audits' = audits /\ linked' = [linked EXCEPT ![request[x].address] = TRUE]
    BY DEF Record, Mine
  <1>4. \A y \in Actor : Working(y)' /\ request'[y].address = a =>
          /\ Working(y) /\ request[y].address = a
          /\ request'[y].pc \in Accessing \cup {"stored"} =>
               request[y].pc \in Accessing \cup {"stored"}
    BY <1>1, <1>2 DEF Alone, Working, Idle
  <1>5. CASE request[x].address = a
    <2>1. linked'[a]
      BY <1>1, <1>3, <1>5 DEF IInv, TypeOK
    <2> QED
      BY <1>3, <1>4, <2>1 DEF Once
  <1>6. CASE request[x].address # a
    <2>1. linked'[a] = linked[a]
      BY <1>1, <1>3, <1>6 DEF IInv, TypeOK
    <2> QED
      BY <1>2, <1>3, <1>4, <1>6, <2>1, OnceFrame DEF Alone, Working
  <1> QED
    BY <1>5, <1>6

\* A request that comes for another device, or not for a candidate.
LEMMA OnceVisits ==
  ASSUME IInv, NEW a \in Address, Once(a), NEW r \in Actor, NEW b \in Address,
         \/ RequestSession /\ r = Walk /\ b = Seed
         \/ r \in Request /\ (PullNeighbor(r, b) \/ \E u \in User : PullDevice(r, u, b))
  PROVE  Once(a)'
  <1>1. /\ Alone(r) /\ request'[r].kind \in {"seed", "pull", "neighbor"}
        /\ UNCHANGED <<session, candidates, walk, overlaps, failures, crashes>>
    BY Visits
  <1>2. request[r].pc \notin {"sent", "refused"}
    BY DEF RequestSession, PullNeighbor, PullDevice, Visit, NewRequest, At
  <1> QED
    BY <1>1, <1>2, OneOnce DEF Working, Operation, candidates

\* An operator's request for a candidate: nobody else works on it, so it has no audit.
LEMMA OnceOperates ==
  ASSUME IInv, TurnInv, NEW a \in Address, Once(a), NEW r \in Request, NEW b \in Address,
         NEW u \in User, Process(r, u, b) \/ Skip(r, u, b), {a} \notin overlaps'
  PROVE  Once(a)'
  <1>1. /\ Alone(r) /\ request'[r].address = b
        /\ request'[r].pc \in {"access", "skip"} /\ b \in Open /\ walk.pc = "over"
        /\ UNCHANGED <<session, candidates, walk, failures, crashes>>
        /\ overlaps' = overlaps \cup
             {{b, request[y].address} : y \in {z \in Request : Working(z)}}
    BY Operates
  <1>2. request[r].pc \notin {"sent", "refused"} /\ request[r].pc = "idle" /\ r \in Actor
    BY DEF Process, Skip, Operator, NewRequest, At, Actor
  <1>3. CASE a = b
    <2>1. ASSUME NEW y \in Actor, Working(y)
          PROVE  request[y].address # a
      <3>1. y # Walk
        BY <1>1, <2>1, WalkTurn DEF Working, NoWalk
      <3>2. y \in Request
        BY <2>1, <3>1 DEF Actor
      <3>3. request[y].address = a => {a} \in overlaps'
        BY <1>1, <1>3, <2>1, <3>2
      <3> QED
        BY <3>3
    <2>2. audits[a] = 0
      BY <1>1, <1>3, <2>1 DEF Once, Open, IInv, TypeOK
    <2> QED
      BY <1>1, <1>2, <2>1, <2>2 DEF Once, Alone, Working, candidates
  <1>4. CASE a # b
    BY <1>1, <1>2, <1>4, OneOnce DEF candidates
  <1> QED
    BY <1>3, <1>4

\* Discover: the new candidate has no audit, and nobody works on it.
LEMMA OnceDiscovers ==
  ASSUME IInv, ShapeInv, TurnInv, NEW a \in Address, Once(a), Discover
  PROVE  Once(a)'
  <1> DEFINE b == Head(walk.answers)
  <1>1. /\ b \in Address /\ status[b] = "absent" /\ Alone(Walk)
        /\ request' = request \/ (request'[Walk].address = b /\ request'[Walk].pc = "access")
    BY Discovers
  <1> HIDE DEF b
  <1>2. request[Walk] = Idle /\ Walk \in Actor /\ audits' = audits /\ linked' = linked
    BY WalkFree DEF Discover
  <1>3. CASE request' = request
    BY <1>2, <1>3, OnceFrame DEF Working
  <1>4. CASE request' # request /\ a # b
    BY <1>1, <1>2, <1>4, OneOnce DEF Idle
  <1>5. CASE request' # request /\ a = b
    <2>1. audits[a] = 0
      BY <1>1, <1>5 DEF TurnInv
    <2>2. \A y \in Actor : Working(y) => request[y].address # a
      BY <1>1, <1>5, ImportsCandidate DEF Working, Candidates
    <2> QED
      BY <1>1, <1>2, <1>5, <2>1, <2>2 DEF Once, Alone, Working
  <1> QED
    BY <1>3, <1>4, <1>5

\* The other steps do not change what works on a candidate.
LEMMA OnceStill ==
  ASSUME IInv, NEW a \in Address, Once(a),
         \/ \E u, v \in User, o \in User, r \in Granted : AddMember(u, v, o, r)
         \/ CreateSession \/ Ask \/ DropAnswers \/ PassOver \/ Answer \/ UNCHANGED vars
  PROVE  Once(a)'
  <1>1. audits' = audits /\ linked' = linked
    BY DEF AddMember, CreateSession, Ask, DropAnswers, PassOver, Answer, vars, candidates
  <1>2. CASE CreateSession
    <2>1. request'[Walk] = Idle /\ Alone(Walk) /\ Walk \in Actor
      BY <1>2
         DEF IInv, RequestInv, RequestsTyped, CreateSession, Finished, Alone, Actor
    <2>2. request[Walk].pc = "pull"
      BY <1>2 DEF CreateSession, At
    <2> QED
      BY <1>1, <2>1, <2>2, OneOnce DEF Working
  <1>3. CASE ~CreateSession
    <2>1. request' = request
      BY <1>3 DEF AddMember, Ask, DropAnswers, PassOver, Answer, vars
    <2> QED
      BY <1>1, <2>1, OnceFrame DEF Working
  <1> QED
    BY <1>2, <1>3

\* Lost requests and overlaps are never forgotten, and every step but a request that is
\* lost keeps the candidate's invariant.
LEMMA OnceStep ==
  ASSUME IInv, ShapeInv, TurnInv, [Next]_vars, crashes' = 0,
         NEW a \in Address, {a} \notin overlaps'
  PROVE  /\ crashes = 0 /\ {a} \notin overlaps
         /\ Once(a) => Once(a)'
  <1>1. ASSUME NEW x \in Actor, Crash(x)
        PROVE  FALSE
    BY <1>1 DEF Crash, IInv, TypeOK
  <1>2. CASE \/ \E u, v \in User, o \in User, r \in Granted : AddMember(u, v, o, r)
             \/ CreateSession \/ Ask \/ DropAnswers \/ PassOver \/ Answer \/ UNCHANGED vars
    <2>1. crashes' = crashes /\ overlaps' = overlaps
      BY <1>2 DEF AddMember, CreateSession, Ask, DropAnswers, PassOver, Answer, vars, counters
    <2> QED
      BY <1>2, <2>1, OnceStill
  <1>3. ASSUME NEW x \in Actor,
               \/ Deny(x) \/ DeadlockVictim(x) \/ Conflict(x) \/ WriteSummary(x) \/ EndPull(x)
               \/ \E rejected \in BOOLEAN : PullFails(x, rejected)
        PROVE  crashes = 0 /\ {a} \notin overlaps /\ (Once(a) => Once(a)')
    <2>1. crashes' = crashes /\ overlaps' = overlaps
      BY <1>3 DEF Deny, DeadlockVictim, Conflict, WriteSummary, EndPull, PullFails, counters
    <2> QED
      BY <1>3, <2>1, OnceEnds
  <1>4. ASSUME NEW x \in Actor,
               \/ Access(x) \/ Claim(x) \/ Link(x) \/ Persist(x) \/ ReadSummary(x)
               \/ CommitSkip(x) \/ Record(x)
        PROVE  crashes = 0 /\ {a} \notin overlaps /\ (Once(a) => Once(a)')
    <2>1. crashes' = crashes /\ overlaps' = overlaps
      BY <1>4 DEF Access, Claim, Link, Persist, ReadSummary, CommitSkip, Record, counters
    <2> QED
      BY <1>4, <2>1, OnceMoves, OncePersists, OnceRecords
  <1>5. ASSUME NEW r \in Actor, NEW b \in Address,
               \/ RequestSession /\ r = Walk /\ b = Seed
               \/ r \in Request /\ (PullNeighbor(r, b) \/ \E u \in User : PullDevice(r, u, b))
        PROVE  crashes = 0 /\ {a} \notin overlaps /\ (Once(a) => Once(a)')
    BY <1>5, Visits, OnceVisits
  <1>6. ASSUME NEW r \in Request, NEW b \in Address, NEW u \in User,
               Process(r, u, b) \/ Skip(r, u, b)
        PROVE  crashes = 0 /\ {a} \notin overlaps /\ (Once(a) => Once(a)')
    <2>1. crashes' = crashes /\ overlaps \subseteq overlaps'
      BY <1>6, Operates
    <2> QED
      BY <1>6, <2>1, OnceOperates
  <1>7. CASE Discover
    <2>1. crashes' = crashes /\ overlaps' = overlaps
      BY <1>7 DEF Discover, counters
    <2> QED
      BY <1>7, <2>1, OnceDiscovers
  <1>8. Seed \in Address /\ Walk \in Actor /\ \A r \in Request : r \in Actor
    BY DiscoveryAssumption DEF Actor
  <1> QED
    BY <1>1, <1>2, <1>3, <1>4, <1>5, <1>6, <1>7, <1>8 DEF Next

\* The three invariants together.
SessionInv == IInv /\ ShapeInv /\ TurnInv

LEMMA SessionInvariant == Spec => []SessionInv
  <1>1. Init => SessionInv
    BY Initially, InitiallyShaped, TurnInitially DEF SessionInv
  <1>2. SessionInv /\ [Next]_vars => SessionInv'
    BY Inductive, ShapeInductive, TurnInductive DEF SessionInv
  <1> QED
    BY <1>1, <1>2, PTL DEF Spec

\* process_discovered_device: a candidate is audited once unless two requests for it were
\* in flight together or one was lost, for every number of users, requests and devices and
\* however the walk, operators, dismissals and other pulls interleave.
THEOREM AuditsOnce == Spec => []AuditedOnce
  <1>1. Init => OnceInv
    BY DEF Init, OnceInv, Once, Working
  <1>2. SessionInv /\ OnceInv /\ [Next]_vars => OnceInv'
    BY OnceStep DEF SessionInv, OnceInv
  <1>3. OnceInv => AuditedOnce
    BY DEF OnceInv, Once, AuditedOnce
  <1> QED
    BY <1>1, <1>2, <1>3, SessionInvariant, PTL DEF Spec

-----------------------------------------------------------------------------
(* A session that awaits input.                                            *)

\* What a request works on has no configuration yet, and the status it has loaded is the
\* current one; what it is about to write sums up the current statuses.
Undone(p) ==
  /\ p.pc \in Accessing \cup {"skip"} => p.loaded \in {"none", status[p.address]}
  /\ p.pc \in Accessing \cup Storing \cup {"skip"} => ~linked[p.address]
  /\ p.pc = "summary" =>
       p.loaded = session /\ p.result = Summary({status[a] : a \in Candidates})

Early(p) == p.pc \in Accessing \cup {"skip"}

Continuable == \E a \in Open : status[a] \in {"needs_input", "failed"}

\* As long as requests for candidates follow each other, one works at a time; a candidate
\* that needs input has no configuration; and until the one that works changes a status,
\* a session that awaits input can go on.
Settled ==
  /\ \A x, y \in Actor : Working(x) /\ Working(y) => x = y
  /\ \A x \in Actor : Working(x) => Undone(request[x])
  /\ \A a \in Address : status[a] = "needs_input" => ~linked[a]
  /\ session = "awaiting_input" /\ (\A x \in Actor : Working(x) => Early(request[x]))
       => Continuable

AwaitInv == crashes = 0 /\ overlaps = {} => Settled

\* The session and its candidates stay; requests that go on leave the early steps for
\* good.
LEMMA AwaitFrame ==
  ASSUME Settled, UNCHANGED <<session, status, linked>>,
         \A x \in Actor : Working(x)' => Working(x) /\ Undone(request[x])',
         \A x \in Actor :
           Working(x) => Early(request[x]) \/ (Working(x)' /\ ~Early(request[x])')
  PROVE  Settled'
  <1>1. Continuable => Continuable'
    BY DEF Continuable, Open, Candidates
  <1> QED
    BY <1>1 DEF Settled

\* One request moves, the session and its candidates stay.
LEMMA OneAwait ==
  ASSUME Settled, UNCHANGED <<session, status, linked>>, NEW x \in Actor, Alone(x),
         Working(x)' => Working(x) /\ Undone(request[x])',
         Working(x) => Early(request[x]) \/ (Working(x)' /\ ~Early(request[x])')
  PROVE  Settled'
  <1>1. ASSUME NEW y \in Actor \ {x}
        PROVE  /\ request'[y] = request[y]
               /\ Undone(request[y]) => Undone(request[y])'
    BY DEF Alone, Undone, Candidates
  <1>2. \A y \in Actor : Working(y)' => Working(y) /\ Undone(request[y])'
    BY <1>1 DEF Settled, Working
  <1>3. \A y \in Actor :
          Working(y) => Early(request[y]) \/ (Working(y)' /\ ~Early(request[y])')
    BY <1>1 DEF Working, Early
  <1> QED
    BY <1>2, <1>3, AwaitFrame

\* Nobody works on a candidate any more.
LEMMA AwaitNobody ==
  ASSUME \A x \in Actor : ~Working(x)',
         \A a \in Address : status'[a] = "needs_input" => ~linked'[a],
         session' = "awaiting_input" => Continuable'
  PROVE  Settled'
  BY DEF Settled

\* The request that works on a candidate is the only one.
LEMMA OnlyWorker ==
  ASSUME Settled, NEW x \in Actor, Working(x), Alone(x), NEW y \in Actor, Working(y)'
  PROVE  y = x
  <1>1. CASE y # x
    BY <1>1 DEF Settled, Alone, Working
  <1> QED
    BY <1>1

\* A session sums up to awaiting input only with a candidate that needs it.
LEMMA SummaryAwaits ==
  ASSUME Settled, Summary({status[a] : a \in Candidates}) = "awaiting_input"
  PROVE  Continuable
  <1>1. "needs_input" \in {status[a] : a \in Candidates}
    BY DEF Summary
  <1>2. PICK a \in Candidates : status[a] = "needs_input"
    BY <1>1
  <1>3. a \in Open
    BY <1>2 DEF Settled, Open, Candidates
  <1> QED
    BY <1>2, <1>3 DEF Continuable

\* The steps that end a request without a trace.
LEMMA AwaitEnds ==
  ASSUME IInv, ShapeInv, TurnInv, Settled, NEW x \in Actor,
         Deny(x) \/ DeadlockVictim(x) \/ Conflict(x) \/ EndPull(x)
  PROVE  Settled'
  <1>1. request'[x] = Idle /\ Alone(x)
    BY Ends
  <1>2. Early(request[x]) /\ request[x] # Idle
    BY DEF Deny, DeadlockVictim, Waits, Conflict, Importing, EndPull, At, Early, Accessing, Idle
  <1>3. CASE status' = status
    <2>1. UNCHANGED <<session, status, linked>>
      BY <1>3 DEF Deny, DeadlockVictim, Conflict, EndPull, candidates
    <2> QED
      BY <1>1, <1>2, <2>1, OneAwait DEF Working
  <1>4. CASE status' # status
    <2>1. /\ x = Walk /\ request[x].kind = "import" /\ session' = session /\ linked' = linked
          /\ status' = [status EXCEPT ![request[x].address] = "failed"]
      BY <1>4 DEF Deny, DeadlockVictim, Conflict, EndPull, candidates, Mine
    <2>2. Working(x) /\ walk # NoWalk
      BY <1>2, <2>1 DEF Working, Operation, IInv, RequestInv, PlacedInv, Placed
    <2>3. session # "awaiting_input"
      BY <1>2, <2>1, <2>2, WalkTurn
    <2>4. \A y \in Actor : ~Working(y)'
      BY <1>1, <2>2, OnlyWorker DEF Working
    <2>5. \A a \in Address : status'[a] = "needs_input" => ~linked'[a]
      BY <2>1 DEF Settled, IInv, TypeOK
    <2> QED
      BY <2>1, <2>3, <2>4, <2>5, AwaitNobody
  <1> QED
    BY <1>3, <1>4

\* PullFails: what the request leaves behind takes the input.
LEMMA AwaitFails ==
  ASSUME IInv, ShapeInv, Settled, NEW x \in Actor, NEW rejected \in BOOLEAN,
         PullFails(x, rejected)
  PROVE  Settled'
  <1> DEFINE a == request[x].address
             new == IF rejected THEN "needs_input" ELSE "failed"
  <1>1. request'[x] = Idle /\ Alone(x)
    BY Ends
  <1>2. request[x] # Idle /\ Working(x) /\ request[x].pc = "pull"
    BY DEF PullFails, Importing, At, Idle, Working, Operation
  <1>3. a \in Candidates /\ a \in Address
    BY <1>2, ImportsCandidate DEF Working, Candidates
  <1>4. request[x].loaded \in {"none", status[a]} /\ ~linked[a]
    BY <1>2 DEF Settled, Undone, Accessing
  <1>5. status' = [status EXCEPT ![a] = Written(request[x].loaded, @, new)]
        /\ session' = session /\ linked' = linked
    BY DEF PullFails, Mine
  <1> HIDE DEF a
  <1>6. status'[a] = new /\ \A b \in Address \ {a} : status'[b] = status[b]
    BY <1>3, <1>4, <1>5 DEF Written, IInv, TypeOK
  <1>7. \A y \in Actor : ~Working(y)'
    BY <1>1, <1>2, OnlyWorker DEF Working
  <1>8. \A b \in Address : status'[b] = "needs_input" => ~linked'[b]
    BY <1>4, <1>5, <1>6 DEF Settled
  <1>9. Continuable'
    BY <1>3, <1>4, <1>5, <1>6 DEF Continuable, Open, Candidates
  <1> QED
    BY <1>7, <1>8, <1>9, AwaitNobody

\* WriteSummary: what the session becomes sums up statuses nobody has changed since.
LEMMA AwaitWrites ==
  ASSUME IInv, ShapeInv, TurnInv, Settled, NEW x \in Actor, WriteSummary(x)
  PROVE  Settled'
  <1>1. request'[x] = Idle /\ Alone(x)
    BY Ends
  <1>2. request[x] # Idle /\ request[x].pc = "summary"
    BY DEF WriteSummary, At, Idle
  <1>3. Working(x)
    BY <1>2 DEF TurnInv, Turn, Working
  <1>4. /\ request[x].loaded = session
        /\ request[x].result = Summary({status[a] : a \in Candidates})
    BY <1>2, <1>3 DEF Settled, Undone
  <1>5. /\ session' = Summary({status[a] : a \in Candidates})
        /\ UNCHANGED candidates
    BY <1>4 DEF WriteSummary, Written
  <1>6. \A y \in Actor : ~Working(y)'
    BY <1>1, <1>3, OnlyWorker DEF Working
  <1>7. session' = "awaiting_input" => Continuable'
    BY <1>5, SummaryAwaits DEF Continuable, Open, Candidates, candidates
  <1>8. \A a \in Address : status'[a] = "needs_input" => ~linked'[a]
    BY <1>5 DEF Settled, candidates
  <1> QED
    BY <1>6, <1>7, <1>8, AwaitNobody

\* The steps that move a request on and leave its candidate alone.
LEMMA AwaitMoves ==
  ASSUME IInv, ShapeInv, TurnInv, Settled, NEW x \in Actor,
         Access(x) \/ Claim(x) \/ Persist(x) \/ ReadSummary(x)
  PROVE  Settled'
  <1>1. /\ request[x] \in Busy /\ request[x] # Idle /\ Alone(x) /\ request'[x] # Idle
        /\ request'[x].kind = request[x].kind /\ request'[x].address = request[x].address
    BY Moves
  <1>2. UNCHANGED <<session, status, linked>> /\ (Working(x)' <=> Working(x))
    BY <1>1 DEF Access, Claim, Persist, ReadSummary, candidates, Working
  <1>3. ASSUME Working(x)
        PROVE  Undone(request[x])'
    <2>1. Undone(request[x])
      BY <1>3 DEF Settled
    <2>2. CASE Access(x) \/ Claim(x)
      <3>1. /\ request[x].pc \in Accessing /\ request'[x].pc \in Accessing
            /\ request'[x].loaded \in {"none", request[x].loaded}
        BY <1>1, <2>2
           DEF IInv, RequestInv, RequestsTyped, Busy, Access, Claim, At, Accessing
      <3> QED
        BY <1>1, <1>2, <2>1, <3>1 DEF Undone, Accessing
    <2>3. CASE Persist(x)
      <3>1. request[x].pc = "stored" /\ request'[x].pc \in {"sent", "refused"}
        BY <1>1, <2>3 DEF IInv, RequestInv, RequestsTyped, Busy, Persist, At, Become
      <3> QED
        BY <1>1, <1>2, <2>1, <3>1 DEF Undone, Accessing, Storing
    <2>4. CASE ReadSummary(x)
      <3>1. /\ request'[x].pc = "summary" /\ request'[x].loaded = session
            /\ request'[x].result = Summary({status[a] : a \in Candidates})
        BY <1>1, <2>4 DEF IInv, RequestInv, RequestsTyped, Busy, ReadSummary
      <3>2. Candidates' = Candidates
        BY <1>2 DEF Candidates
      <3> QED
        BY <1>1, <1>2, <3>1, <3>2 DEF Undone, Accessing, Storing
    <2> QED
      BY <2>2, <2>3, <2>4
  <1>4. Early(request[x]) \/ ~Early(request[x])'
    <2>1. CASE Access(x) \/ Claim(x)
      BY <2>1 DEF Access, Claim, At, Early, Accessing
    <2>2. CASE Persist(x) \/ ReadSummary(x)
      <3>1. request'[x].pc \in {"sent", "refused", "summary"}
        BY <1>1, <2>2
           DEF IInv, RequestInv, RequestsTyped, Busy, Persist, ReadSummary, Become
      <3> QED
        BY <3>1 DEF Early, Accessing
    <2> QED
      BY <2>1, <2>2
  <1> QED
    BY <1>1, <1>2, <1>3, <1>4, OneAwait

\* The steps that change the status of the candidate a request works on.
LEMMA AwaitChanges ==
  ASSUME IInv, ShapeInv, TurnInv, Settled, NEW x \in Actor,
         Link(x) \/ CommitSkip(x) \/ Record(x)
  PROVE  Settled'
  <1> DEFINE a == request[x].address
  <1>1. request[x] # Idle /\ request[x].pc \in {"pull", "skip", "sent", "refused"}
    BY DEF Link, Importing, CommitSkip, Record, At, Idle
  <1>2. Working(x) /\ a \in Candidates
    <2>1. request[x].kind \in Operation
      <3>1. CASE Link(x)
        BY <3>1 DEF Link, Importing, Operation
      <3>2. CASE CommitSkip(x)
        BY <1>1, <3>2 DEF CommitSkip, At, ShapeInv, RequestsShaped, Shaped
      <3>3. CASE Record(x)
        BY <3>3, StoresImport DEF Record, At, Storing, Operation
      <3> QED
        BY <3>1, <3>2, <3>3
    <2> QED
      BY <1>1, <2>1, ImportsCandidate DEF Working
  <1>3. Undone(request[x]) /\ ~linked[a]
    BY <1>1, <1>2 DEF Settled, Undone, Accessing, Storing
  <1>4. Alone(x) /\ session' = session
    <2>1. Alone(x)
      <3>1. CASE Record(x) /\ x = Walk
        BY <3>1, Ends
      <3>2. CASE ~(Record(x) /\ x = Walk)
        BY <3>2, Moves
      <3> QED
        BY <3>1, <3>2
    <2> QED
      BY <2>1 DEF Link, CommitSkip, Record
  <1>5. \A y \in Actor : Working(y)' => y = x
    BY <1>2, <1>4, OnlyWorker
  <1>6. CASE Link(x) \/ CommitSkip(x)
    <2>1. linked' = linked
      BY <1>6 DEF Link, CommitSkip
    <2>2. PICK s \in {"pulling", "skipped"} :
            status' = [status EXCEPT ![a] = Written(request[x].loaded, @, s)]
      BY <1>6 DEF Link, CommitSkip, Mine
    <2>3. \A b \in Address : status'[b] = "needs_input" => ~linked'[b]
      BY <1>3, <2>1, <2>2 DEF Settled, IInv, TypeOK
    <2>4. request'[x].pc \in {"stored", "finish"} /\ Working(x)'
          /\ request'[x].address = a
      <3>1. /\ request[x] \in Busy /\ request'[x] # Idle
            /\ request'[x].kind = request[x].kind /\ request'[x].address = a
        BY <1>6, Moves
      <3>2. request'[x].pc \in {"stored", "finish"}
        BY <1>1, <1>6, <3>1
           DEF IInv, RequestInv, RequestsTyped, Busy, Link, CommitSkip, Become
      <3> QED
        BY <1>2, <3>1, <3>2 DEF Working
    <2>5. Undone(request[x])' /\ ~Early(request[x])'
      BY <1>3, <2>1, <2>4 DEF Undone, Early, Accessing, Storing
    <2> QED
      BY <1>5, <2>3, <2>4, <2>5 DEF Settled
  <1>7. CASE Record(x)
    <2>1. \A b \in Address : status'[b] = "needs_input" => ~linked'[b]
      <3>1. PICK s \in {"audit_queued", "failed"} :
              status' = [status EXCEPT ![a] = s] /\ linked' = [linked EXCEPT ![a] = TRUE]
        BY <1>7 DEF Record, Mine
      <3> QED
        BY <3>1 DEF Settled, IInv, TypeOK
    <2>2. CASE x = Walk
      <3>1. request'[x] = Idle
        BY <1>7, <2>2, Ends
      <3>2. session' # "awaiting_input"
        BY <1>1, <1>4, <1>7, <2>2, StoresImport, WalkTurn DEF Record, At, Storing
      <3>3. \A y \in Actor : ~Working(y)'
        BY <1>5, <3>1 DEF Working
      <3> QED
        BY <2>1, <3>2, <3>3, AwaitNobody
    <2>3. CASE x # Walk
      <3>1. /\ request[x] \in Busy /\ request'[x] # Idle
            /\ request'[x].kind = request[x].kind
        BY <1>7, <2>3, Moves
      <3>2. request'[x].pc = "finish"
        BY <1>7, <2>3, <3>1 DEF IInv, RequestInv, RequestsTyped, Busy, Record, Become
      <3>3. Working(x)' /\ Undone(request[x])' /\ ~Early(request[x])'
        BY <1>2, <3>1, <3>2 DEF Working, Undone, Early, Accessing, Storing
      <3> QED
        BY <1>5, <2>1, <3>3 DEF Settled
    <2> QED
      BY <2>2, <2>3
  <1> QED
    BY <1>6, <1>7

\* A request that comes for a device, not for a candidate.
LEMMA AwaitVisits ==
  ASSUME IInv, ShapeInv, Settled, NEW r \in Actor, NEW b \in Address,
         \/ RequestSession /\ r = Walk /\ b = Seed
         \/ r \in Request /\ (PullNeighbor(r, b) \/ \E u \in User : PullDevice(r, u, b))
  PROVE  Settled'
  <1>1. /\ Alone(r) /\ request'[r].kind \in {"seed", "pull", "neighbor"}
        /\ UNCHANGED <<session, candidates, walk, overlaps, failures, crashes>>
    BY Visits
  <1>2. ~Working(r)
    <2>1. CASE request[r].pc = "idle"
      BY <2>1, NotIdle DEF IInv, RequestInv, Working
    <2>2. CASE request[r].pc # "idle"
      BY <2>2
         DEF RequestSession, PullNeighbor, PullDevice, Visit, NewRequest, At, Working, Operation
    <2> QED
      BY <2>1, <2>2
  <1> QED
    BY <1>1, <1>2, OneAwait DEF Working, Operation, candidates

\* An operator's request for a candidate without a configuration, when nobody works.
LEMMA AwaitOperates ==
  ASSUME IInv, TurnInv, Settled, NEW r \in Request, NEW b \in Address, NEW u \in User,
         Process(r, u, b) \/ Skip(r, u, b), overlaps' = {}
  PROVE  Settled'
  <1>1. /\ Alone(r) /\ request'[r].address = b
        /\ request'[r].loaded = status[b] /\ request'[r].pc \in {"access", "skip"}
        /\ b \in Open /\ walk.pc = "over"
        /\ UNCHANGED <<session, candidates, walk, failures, crashes>>
        /\ overlaps' = overlaps \cup
             {{b, request[y].address} : y \in {z \in Request : Working(z)}}
    BY Operates
  <1>2. ASSUME NEW y \in Actor, Working(y)
        PROVE  FALSE
    <2>1. y # Walk
      BY <1>1, <1>2, WalkTurn DEF Working, NoWalk
    <2>2. y \in Request
      BY <2>1 DEF Actor
    <2>3. {b, request[y].address} \in overlaps'
      BY <1>1, <1>2, <2>2
    <2> QED
      BY <2>3
  <1>3. \A y \in Actor : Working(y)' => y = r
    BY <1>1, <1>2 DEF Alone, Working
  <1>4. Undone(request[r])'
    BY <1>1 DEF Undone, Open, Accessing, Storing, candidates
  <1>5. session = "awaiting_input" => Continuable'
    <2>1. session = "awaiting_input" => Continuable
      BY <1>2 DEF Settled
    <2> QED
      BY <1>1, <2>1 DEF Continuable, Open, Candidates, candidates
  <1>6. \A a \in Address : status'[a] = "needs_input" => ~linked'[a]
    BY <1>1 DEF Settled, candidates
  <1> QED
    BY <1>1, <1>3, <1>4, <1>5, <1>6 DEF Settled

\* Discover: the new candidate has no configuration, and only the walk may work on it.
LEMMA AwaitDiscovers ==
  ASSUME IInv, ShapeInv, TurnInv, Settled, Discover
  PROVE  Settled'
  <1> DEFINE a == Head(walk.answers)
  <1>1. /\ a \in Address /\ status[a] = "absent" /\ Alone(Walk)
        /\ IF a \in Loginable
           THEN /\ request'[Walk].address = a /\ request'[Walk].pc = "access"
                /\ request'[Walk].loaded = "discovered"
                /\ status' = [status EXCEPT ![a] = "discovered"]
           ELSE /\ request' = request
                /\ status' = [status EXCEPT ![a] = "needs_input"]
    BY Discovers
  <1> HIDE DEF a
  <1>2. /\ request[Walk] = Idle /\ Walk \in Actor /\ walk # NoWalk /\ walk.pc = "loop"
        /\ linked' = linked /\ session' = session
    BY WalkFree DEF Discover
  <1>3. session # "awaiting_input"
    BY <1>2 DEF TurnInv
  <1>4. \A y \in Actor : ~Working(y)
    BY <1>2, WalkWorks DEF Working
  <1>5. ~linked[a] /\ \A b \in Address : status'[b] = "needs_input" => ~linked'[b]
    BY <1>1, <1>2 DEF Settled, TurnInv, IInv, TypeOK
  <1>6. \A y \in Actor : Working(y)' => y = Walk /\ a \in Loginable
    BY <1>1, <1>4 DEF Alone, Working
  <1>7. a \in Loginable => Undone(request[Walk])'
    BY <1>1, <1>2, <1>5 DEF Undone, Accessing, Storing, IInv, TypeOK
  <1> QED
    BY <1>2, <1>3, <1>5, <1>6, <1>7 DEF Settled

\* Answer: the session sums up the statuses, and nobody works on a candidate.
LEMMA AwaitAnswers ==
  ASSUME IInv, ShapeInv, TurnInv, Settled, Answer
  PROVE  Settled'
  <1>1. walk # NoWalk /\ walk.pc = "loop" /\ request[Walk] = Idle
    BY WalkFree DEF Answer
  <1>2. \A y \in Actor : ~Working(y)
    BY <1>1, WalkWorks DEF Working
  <1>3. /\ UNCHANGED <<request, candidates>>
        /\ session' \in {"failed", Summary({status[a] : a \in Candidates})}
    BY DEF Answer
  <1>4. session' = "awaiting_input" => Continuable'
    BY <1>3, SummaryAwaits DEF Continuable, Open, Candidates, candidates
  <1>5. \A a \in Address : status'[a] = "needs_input" => ~linked'[a]
    BY <1>3 DEF Settled, candidates
  <1> QED
    BY <1>2, <1>3, <1>4, <1>5, AwaitNobody DEF Working

\* The other steps: nothing that matters to the session moves.
LEMMA AwaitStill ==
  ASSUME IInv, ShapeInv, TurnInv, Settled,
         \/ \E u, v \in User, o \in User, r \in Granted : AddMember(u, v, o, r)
         \/ CreateSession \/ Ask \/ DropAnswers \/ PassOver \/ UNCHANGED vars
  PROVE  Settled'
  <1>1. CASE CreateSession
    <2>1. request[Walk] # Idle /\ request[Walk].kind = "seed" /\ Walk \in Actor
      BY <1>1 DEF CreateSession, At, Idle, Actor
    <2>2. walk = NoWalk
      BY <2>1 DEF IInv, RequestInv, PlacedInv, Placed
    <2>3. request'[Walk] = Idle /\ Alone(Walk)
      BY <1>1, <2>1 DEF IInv, RequestInv, RequestsTyped, CreateSession, Finished, Alone
    <2>4. \A y \in Actor : ~Working(y)'
      BY <2>1, <2>2, <2>3, WalkWorks DEF Working, Alone
    <2>5. session' = "running" /\ UNCHANGED candidates
      BY <1>1 DEF CreateSession
    <2> QED
      BY <2>4, <2>5, AwaitNobody DEF Settled, candidates
  <1>2. CASE ~CreateSession
    <2>1. UNCHANGED <<request, session, candidates>>
      BY <1>2 DEF AddMember, Ask, DropAnswers, PassOver, vars
    <2>2. \A x \in Actor : Working(x) <=> Working(x)'
      BY <2>1 DEF Working
    <2>3. \A x \in Actor : Undone(request[x]) => Undone(request[x])'
      BY <2>1 DEF Undone, Candidates, candidates
    <2>4. \A x \in Actor : Early(request[x]) <=> Early(request[x])'
      BY <2>1 DEF Early
    <2>5. Continuable => Continuable'
      BY <2>1 DEF Continuable, Open, Candidates, candidates
    <2> QED
      BY <2>1, <2>2, <2>3, <2>4, <2>5 DEF Settled, candidates
  <1> QED
    BY <1>1, <1>2

\* Lost requests and overlaps are never forgotten, and every other step keeps the
\* session's invariant.
LEMMA AwaitStep ==
  ASSUME IInv, ShapeInv, TurnInv, [Next]_vars, crashes' = 0, overlaps' = {}
  PROVE  /\ crashes = 0 /\ overlaps = {}
         /\ Settled => Settled'
  <1>1. ASSUME NEW x \in Actor, Crash(x)
        PROVE  FALSE
    BY <1>1 DEF Crash, IInv, TypeOK
  <1>2. CASE \/ \E u, v \in User, o \in User, r \in Granted : AddMember(u, v, o, r)
             \/ CreateSession \/ Ask \/ DropAnswers \/ PassOver \/ UNCHANGED vars
    <2>1. crashes' = crashes /\ overlaps' = overlaps
      BY <1>2 DEF AddMember, CreateSession, Ask, DropAnswers, PassOver, vars, counters
    <2> QED
      BY <1>2, <2>1, AwaitStill
  <1>3. ASSUME NEW x \in Actor,
               \/ Deny(x) \/ DeadlockVictim(x) \/ Conflict(x) \/ WriteSummary(x) \/ EndPull(x)
               \/ \E rejected \in BOOLEAN : PullFails(x, rejected)
        PROVE  crashes = 0 /\ overlaps = {} /\ (Settled => Settled')
    <2>1. crashes' = crashes /\ overlaps' = overlaps
      BY <1>3 DEF Deny, DeadlockVictim, Conflict, WriteSummary, EndPull, PullFails, counters
    <2> QED
      BY <1>3, <2>1, AwaitEnds, AwaitFails, AwaitWrites
  <1>4. ASSUME NEW x \in Actor,
               \/ Access(x) \/ Claim(x) \/ Link(x) \/ Persist(x) \/ ReadSummary(x)
               \/ CommitSkip(x) \/ Record(x)
        PROVE  crashes = 0 /\ overlaps = {} /\ (Settled => Settled')
    <2>1. crashes' = crashes /\ overlaps' = overlaps
      BY <1>4 DEF Access, Claim, Link, Persist, ReadSummary, CommitSkip, Record, counters
    <2> QED
      BY <1>4, <2>1, AwaitMoves, AwaitChanges
  <1>5. ASSUME NEW r \in Actor, NEW b \in Address,
               \/ RequestSession /\ r = Walk /\ b = Seed
               \/ r \in Request /\ (PullNeighbor(r, b) \/ \E u \in User : PullDevice(r, u, b))
        PROVE  crashes = 0 /\ overlaps = {} /\ (Settled => Settled')
    BY <1>5, Visits, AwaitVisits
  <1>6. ASSUME NEW r \in Request, NEW b \in Address, NEW u \in User,
               Process(r, u, b) \/ Skip(r, u, b)
        PROVE  crashes = 0 /\ overlaps = {} /\ (Settled => Settled')
    <2>1. crashes' = crashes /\ overlaps \subseteq overlaps'
      BY <1>6, Operates
    <2> QED
      BY <1>6, <2>1, AwaitOperates
  <1>7. CASE Discover \/ Answer
    <2>1. crashes' = crashes /\ overlaps' = overlaps
      BY <1>7 DEF Discover, Answer, counters
    <2> QED
      BY <1>7, <2>1, AwaitDiscovers, AwaitAnswers
  <1>8. Seed \in Address /\ Walk \in Actor /\ \A r \in Request : r \in Actor
    BY DiscoveryAssumption DEF Actor
  <1> QED
    BY <1>1, <1>2, <1>3, <1>4, <1>5, <1>6, <1>7, <1>8 DEF Next

\* _finish_discovery_session: as long as requests for candidates follow each other and none
\* is lost, a session that awaits input has a candidate without an audit, not dismissed,
\* that takes the input: the summary is written from statuses nobody has changed since.
THEOREM AwaitingContinues == Spec => []AwaitingCanContinue
  <1>1. Init => AwaitInv
    BY DEF Init, AwaitInv, Settled, Working
  <1>2. SessionInv /\ AwaitInv /\ [Next]_vars => AwaitInv'
    BY AwaitStep DEF SessionInv, AwaitInv
  <1>3. SessionInv /\ AwaitInv => AwaitingCanContinue
    <2> SUFFICES ASSUME SessionInv, AwaitInv, session = "awaiting_input", crashes = 0,
                        overlaps = {},
                        \A r \in Request : request[r] = Idle \/ request[r].kind \notin Operation
        PROVE  Continuable
      BY DEF AwaitingCanContinue, Continuable
    <2>1. ~Working(Walk)
      BY WalkTurn DEF SessionInv, TurnInv, Working, NoWalk
    <2>2. \A x \in Actor : ~Working(x)
      BY <2>1 DEF Actor, Working
    <2> QED
      BY <2>2 DEF AwaitInv, Settled
  <1> QED
    BY <1>1, <1>2, <1>3, SessionInvariant, PTL DEF Spec

-----------------------------------------------------------------------------
(* The walk is breadth first.                                              *)

\* The device says that the address is a neighbour of its.
Reports(p, a) == \E n \in DOMAIN Neighbors[p] : Neighbors[p][n] = a

\* A device the walk goes on from.
Source(p) == p = Seed \/ (p \in Candidates /\ linked[p])

\* It is in the queue.
Waiting(p) == \E n \in DOMAIN walk.queue : walk.queue[n] = <<p, depth[p]>>

\* What the device reports is known, or still to be looked at.
Asking(p) ==
  /\ p = walk.parent
  /\ \A n \in DOMAIN Neighbors[p] :
       \/ Neighbors[p][n] \in Unsafe \cup walk.seen
       \/ \E m \in DOMAIN walk.answers : walk.answers[m] = Neighbors[p][n]

\* What the device reports is known, or there is no room for it.
Closed(p) ==
  /\ Full \/ \A n \in DOMAIN Neighbors[p] : Neighbors[p][n] \in Unsafe \cup walk.seen
  /\ \A a \in Candidates : Reports(p, a) => depth[a] <= depth[p] + 1

\* The queue holds the rest of the level being asked, then the next level.
Levels ==
  /\ \A n \in DOMAIN walk.queue : walk.queue[n][2] \in {walk.depth, walk.depth + 1}
  /\ \A m, n \in DOMAIN walk.queue : m < n => walk.queue[m][2] <= walk.queue[n][2]
  /\ \A a \in Candidates : depth[a] <= walk.depth + 1
  /\ request[Walk] # Idle => depth[request[Walk].address] = walk.depth + 1

\* A device the walk goes on from is at the last level, waits, is asked or is done.
Sources ==
  \A p \in Address : Source(p) => depth[p] >= limit.depth \/ Waiting(p) \/ Asking(p) \/ Closed(p)

\* Without requests nobody but the walk acts.
RequestsCounted == requests = 0 => \A r \in Request : request[r] = Idle

\* As long as every device answers and no other request comes.
LevelInv ==
  /\ RequestsCounted
  /\ failures = 0 /\ requests = 0 /\ walk # NoWalk => Levels /\ Sources

\* What the candidates and the walk are made of.
LEMMA LevelTypes ==
  ASSUME IInv, ShapeInv, walk # NoWalk
  PROVE  /\ walk \in Walking /\ walk.depth \in Nat /\ limit.depth \in Nat
         /\ walk.queue \in Seq(Address \X Nat) /\ walk.answers \in Seq(Address \cup Unsafe)
         /\ walk.parent \in Address /\ depth[walk.parent] = walk.depth
         /\ \A a \in Address : depth[a] \in Nat /\ depth[a] <= limit.depth
         /\ \A p \in Address : Neighbors[p] \in Seq(Address \cup Unsafe)
  <1>1. walk \in Walking /\ Walked
    BY DEF IInv, TypeOK, ShapeInv, WalkedInv
  <1>2. limit.depth \in Nat
    BY DiscoveryAssumption DEF IInv, TypeOK
  <1>3. \A a \in Address : depth[a] \in Nat /\ depth[a] <= limit.depth
    BY <1>2 DEF IInv, TypeOK
  <1> QED
    BY <1>1, <1>2, <1>3, DiscoveryAssumption DEF Walking, Walked

\* The walk and its candidates stay where they are.
LEMMA LevelFrame ==
  ASSUME Levels, Sources, walk # NoWalk, SameWalk, walk'.answers = walk.answers,
         UNCHANGED <<limit, depth, linked>>, Candidates' = Candidates,
         request'[Walk] # Idle =>
           request[Walk] # Idle /\ request'[Walk].address = request[Walk].address
  PROVE  Levels' /\ Sources'
  <1>1. Levels'
    BY DEF Levels, SameWalk
  <1>2. ASSUME NEW p \in Address
        PROVE  /\ Source(p)' => Source(p)
               /\ Waiting(p) => Waiting(p)'
               /\ Asking(p) => Asking(p)'
               /\ Closed(p) => Closed(p)'
    BY DEF Source, Waiting, Asking, Closed, Full, Reports, SameWalk
  <1>3. Sources'
    BY <1>2 DEF Sources
  <1> QED
    BY <1>1, <1>3

\* What follows the first of a sequence moves up.
LEMMA TailShift ==
  ASSUME NEW S, NEW s \in Seq(S), s # <<>>
  PROVE  /\ Head(s) = s[1] /\ 1 \in DOMAIN s
         /\ \A n \in DOMAIN s : n # 1 => n - 1 \in DOMAIN Tail(s) /\ Tail(s)[n - 1] = s[n]
         /\ \A n \in DOMAIN Tail(s) : n \in Nat /\ n + 1 \in DOMAIN s /\ Tail(s)[n] = s[n + 1]
  <1>1. Len(s) \in Nat /\ Len(s) >= 1 /\ DOMAIN s = 1 .. Len(s)
    OBVIOUS
  <1>2. DOMAIN Tail(s) = 1 .. Len(s) - 1 /\ \A n \in 1 .. Len(s) - 1 : Tail(s)[n] = s[n + 1]
    BY <1>1
  <1>3. ASSUME NEW n \in DOMAIN s, n # 1
        PROVE  n - 1 \in DOMAIN Tail(s) /\ Tail(s)[n - 1] = s[n]
    <2>1. n - 1 \in 1 .. Len(s) - 1 /\ (n - 1) + 1 = n
      BY <1>1, <1>3
    <2> QED
      BY <1>2, <2>1
  <1> QED
    BY <1>1, <1>2, <1>3

\* CreateSession: the seed waits.
LEMMA LevelCreates ==
  ASSUME IInv, ShapeInv, CreateSession
  PROVE  Levels' /\ Sources'
  <1>1. request[Walk] # Idle /\ request[Walk].kind = "seed" /\ Walk \in Actor
    BY DEF CreateSession, At, Idle, Actor
  <1>2. walk = NoWalk
    BY <1>1 DEF IInv, RequestInv, PlacedInv, Placed
  <1>3. Candidates' = {} /\ depth' = depth /\ depth[Seed] = 0 /\ request'[Walk] = Idle
    BY <1>1, <1>2
       DEF ShapeInv, WalkedInv, TreeInv, CreateSession, candidates, Candidates, IInv,
           RequestInv, RequestsTyped, Finished
  <1>4. walk'.queue = << <<Seed, 0>> >> /\ walk'.depth = 0
    BY DEF CreateSession
  <1>5. Levels'
    BY <1>3, <1>4 DEF Levels
  <1>6. \A p \in Address : Source(p)' => p = Seed
    BY <1>3 DEF Source
  <1>7. Waiting(Seed)'
    BY <1>3, <1>4 DEF Waiting
  <1>8. Sources'
    BY <1>6, <1>7 DEF Sources
  <1> QED
    BY <1>5, <1>8

\* Ask, answered: the first that waits is asked; what was asked before is closed.
LEMMA LevelAsks ==
  ASSUME IInv, ShapeInv, Levels, Sources, Ask, failures' = 0
  PROVE  Levels' /\ Sources'
  <1>1. /\ walk # NoWalk /\ walk.queue # <<>> /\ walk.answers = <<>> /\ request[Walk] = Idle
    BY WalkFree DEF Ask
  <1>2. /\ walk \in Walking /\ walk.depth \in Nat /\ limit.depth \in Nat
        /\ walk.queue \in Seq(Address \X Nat)
        /\ depth[walk.parent] = walk.depth
        /\ \A a \in Address : depth[a] \in Nat /\ depth[a] <= limit.depth
    BY <1>1, LevelTypes
  <1> DEFINE q == walk.queue[1][1]
             d == walk.queue[1][2]
  <1>3. Head(walk.queue) = walk.queue[1] /\ walk.queue[1] = <<q, d>> /\ d \in Nat
    BY <1>1, <1>2
  <1>4. /\ walk'.queue = Tail(walk.queue) /\ walk'.parent = q /\ walk'.depth = d
        /\ walk'.answers = Neighbors[q] /\ walk'.seen = walk.seen
    <2> DEFINE next == FirstFirst[1]
    <2>1. failures' # failures + 1
      BY DEF IInv, TypeOK
    <2>2. FirstFirst[1] = <<q, d>> /\ FirstFirst[2] = Tail(walk.queue)
      BY <1>3 DEF FirstFirst
    <2>3. walk' = [walk EXCEPT !.queue = FirstFirst[2], !.parent = next[1],
                     !.depth = next[2], !.answers = Neighbors[next[1]]]
      BY <2>1 DEF Ask, Failure
    <2>4. next[1] = q /\ next[2] = d
      BY <2>2
    <2> HIDE DEF next
    <2> QED
      BY <1>2, <2>2, <2>3, <2>4 DEF Walking
  <1>5. /\ UNCHANGED <<request, depth, limit, linked, status>> /\ Candidates' = Candidates
    BY DEF Ask, candidates, Candidates
  <1>6. ASSUME NEW n \in DOMAIN Tail(walk.queue)
        PROVE  /\ n + 1 \in DOMAIN walk.queue /\ Tail(walk.queue)[n] = walk.queue[n + 1]
               /\ n \in Nat
    BY <1>1, <1>2, TailShift
  <1>7. /\ 1 \in DOMAIN walk.queue
        /\ \A n \in DOMAIN walk.queue : n = 1 \/ (n - 1 \in DOMAIN Tail(walk.queue)
             /\ Tail(walk.queue)[n - 1] = walk.queue[n])
    BY <1>1, <1>2, TailShift
  <1>8. d \in {walk.depth, walk.depth + 1}
    BY <1>7 DEF Levels
  <1> HIDE DEF q, d
  <1>9. Levels'
    <2>1. ASSUME NEW n \in DOMAIN Tail(walk.queue)
          PROVE  Tail(walk.queue)[n][2] \in {d, d + 1}
      <3>1. /\ n + 1 \in DOMAIN walk.queue /\ Tail(walk.queue)[n] = walk.queue[n + 1]
            /\ n \in Nat /\ walk.queue[n + 1][2] \in {walk.depth, walk.depth + 1}
        BY <1>6 DEF Levels
      <3>2. 1 < n + 1 \/ n = 0
        BY <3>1
      <3>3. n # 0
        BY <1>2
      <3>4. walk.queue[1][2] <= walk.queue[n + 1][2]
        BY <1>7, <3>1, <3>2, <3>3 DEF Levels
      <3> QED
        BY <1>2, <1>3, <1>8, <3>1, <3>4
    <2>2. ASSUME NEW m \in DOMAIN Tail(walk.queue), NEW n \in DOMAIN Tail(walk.queue), m < n
          PROVE  Tail(walk.queue)[m][2] <= Tail(walk.queue)[n][2]
      <3>1. m + 1 < n + 1
        BY <1>6, <2>2
      <3> QED
        BY <1>6, <3>1 DEF Levels
    <2>3. \A a \in Candidates : depth[a] <= d + 1
      BY <1>2, <1>8 DEF Levels, Candidates
    <2> QED
      BY <1>1, <1>4, <1>5, <2>1, <2>2, <2>3 DEF Levels
  <1>10. ASSUME NEW p \in Address, Source(p), ~(depth[p] >= limit.depth)
         PROVE  Waiting(p)' \/ Asking(p)' \/ Closed(p)'
    <2>1. CASE Waiting(p)
      <3>1. PICK n \in DOMAIN walk.queue : walk.queue[n] = <<p, depth[p]>>
        BY <2>1 DEF Waiting
      <3>2. CASE n = 1
        BY <1>3, <1>4, <3>1, <3>2 DEF Asking
      <3>3. CASE n # 1
        BY <1>4, <1>5, <1>7, <3>1, <3>3 DEF Waiting
      <3> QED
        BY <3>2, <3>3
    <2>2. CASE Asking(p)
      <3>1. \A n \in DOMAIN Neighbors[p] : Neighbors[p][n] \in Unsafe \cup walk.seen
        BY <1>1, <2>2 DEF Asking
      <3>2. \A a \in Candidates : depth[a] <= depth[p] + 1
        BY <1>2, <2>2 DEF Asking, Levels
      <3> QED
        BY <1>4, <1>5, <3>1, <3>2 DEF Closed
    <2>3. CASE Closed(p)
      BY <1>4, <1>5, <2>3 DEF Closed, Full, Reports
    <2> QED
      BY <1>10, <2>1, <2>2, <2>3 DEF Sources
  <1>11. Sources'
    BY <1>5, <1>10 DEF Sources, Source
  <1> QED
    BY <1>9, <1>11

\* PassOver and DropAnswers: a device is closed when it has no answers left, or there is no
\* room for them.
LEMMA LevelPasses ==
  ASSUME IInv, ShapeInv, Levels, Sources, PassOver \/ DropAnswers
  PROVE  Levels' /\ Sources'
  <1>1. walk # NoWalk /\ walk.answers # <<>>
    BY WalkFree DEF PassOver, DropAnswers
  <1>2. /\ walk \in Walking /\ walk.answers \in Seq(Address \cup Unsafe)
        /\ depth[walk.parent] = walk.depth
    BY <1>1, LevelTypes
  <1>3. /\ walk'.queue = walk.queue /\ walk'.parent = walk.parent /\ walk'.depth = walk.depth
        /\ walk'.seen = walk.seen
        /\ walk'.answers = IF PassOver THEN Tail(walk.answers) ELSE <<>>
    BY <1>2 DEF PassOver, DropAnswers, Walking
  <1>4. /\ UNCHANGED <<request, depth, limit, linked, status>> /\ Candidates' = Candidates
    BY DEF PassOver, DropAnswers, candidates, Candidates
  <1>5. Levels'
    BY <1>3, <1>4 DEF Levels
  <1>6. ASSUME NEW p \in Address
        PROVE  /\ Source(p)' => Source(p)
               /\ Waiting(p) => Waiting(p)'
               /\ Closed(p) => Closed(p)'
    BY <1>3, <1>4 DEF Source, Waiting, Closed, Full, Reports
  <1>7. ASSUME NEW p \in Address, Asking(p)
        PROVE  Asking(p)' \/ Closed(p)'
    <2>1. CASE PassOver
      <3>1. Head(walk.answers) \in Unsafe \cup walk.seen
        BY <2>1 DEF PassOver
      <3>2. ASSUME NEW m \in DOMAIN walk.answers
            PROVE  \/ walk.answers[m] \in Unsafe \cup walk.seen
                   \/ \E k \in DOMAIN Tail(walk.answers) : Tail(walk.answers)[k] = walk.answers[m]
        <4>1. CASE m = 1
          BY <1>1, <1>2, <3>1, <4>1
        <4>2. CASE m # 1
          <5>1. m - 1 \in DOMAIN Tail(walk.answers) /\ Tail(walk.answers)[m - 1] = walk.answers[m]
            BY <1>1, <1>2, <4>2
          <5> QED
            BY <5>1
        <4> QED
          BY <4>1, <4>2
      <3>3. Asking(p)'
        BY <1>3, <1>7, <2>1, <3>2 DEF Asking
      <3> QED
        BY <3>3
    <2>2. CASE DropAnswers
      <3>1. Full
        BY <2>2 DEF DropAnswers, Dropped
      <3>2. \A a \in Candidates : depth[a] <= depth[p] + 1
        BY <1>2, <1>7 DEF Asking, Levels
      <3> QED
        BY <1>3, <1>4, <3>1, <3>2 DEF Closed, Full
    <2> QED
      BY <2>1, <2>2
  <1>8. Sources'
    BY <1>4, <1>6, <1>7 DEF Sources
  <1> QED
    BY <1>5, <1>8

\* Discover: the new candidate is one level below the device asked, and no device that is
\* closed reports it.
LEMMA LevelDiscovers ==
  ASSUME IInv, ShapeInv, TurnInv, Levels, Sources, Discover
  PROVE  Levels' /\ Sources'
  <1> DEFINE a == Head(walk.answers)
  <1>1. /\ a \in Address \ walk.seen /\ status[a] = "absent"
        /\ walk'.seen = walk.seen \cup {a} /\ walk'.parent = walk.parent
        /\ walk'.depth = walk.depth /\ walk'.queue = walk.queue
        /\ walk'.answers = Tail(walk.answers)
        /\ request' = request \/ request'[Walk].address = a
    BY Discovers
  <1>2. walk # NoWalk /\ Walked /\ request[Walk] = Idle /\ walk.answers # <<>> /\ ~Full
    BY WalkFree DEF Discover, Dropped
  <1>3. /\ walk.answers \in Seq(Address \cup Unsafe) /\ walk.depth \in Nat
        /\ depth[walk.parent] = walk.depth
    BY <1>2, LevelTypes
  <1>4. /\ depth' = [depth EXCEPT ![a] = walk.depth + 1] /\ linked' = linked /\ limit' = limit
        /\ a \notin Unsafe \cup walk.seen
    BY DEF Discover
  <1>5. \A m \in DOMAIN walk.answers :
          walk.answers[m] = a \/ \E k \in DOMAIN Tail(walk.answers) :
                                   Tail(walk.answers)[k] = walk.answers[m]
    <2>1. ASSUME NEW m \in DOMAIN walk.answers, m # 1
          PROVE  m - 1 \in DOMAIN Tail(walk.answers)
                 /\ Tail(walk.answers)[m - 1] = walk.answers[m]
      BY <1>2, <1>3, <2>1
    <2>2. walk.answers[1] = a
      BY <1>2, <1>3
    <2> QED
      BY <2>1, <2>2
  <1> HIDE DEF a
  <1>6. Candidates' = Candidates \cup {a} /\ a \notin Candidates
    BY <1>1 DEF IInv, TypeOK, Discover, Candidates, a
  <1>7. depth'[a] = walk.depth + 1 /\ \A b \in Address \ {a} : depth'[b] = depth[b]
    BY <1>1, <1>4 DEF IInv, TypeOK
  <1>8. Levels'
    <2>1. \A b \in Candidates' : depth'[b] <= walk.depth + 1
      BY <1>3, <1>6, <1>7 DEF Levels, Candidates
    <2>2. request'[Walk] # Idle => depth'[request'[Walk].address] = walk.depth + 1
      BY <1>1, <1>2, <1>7
    <2> QED
      BY <1>1, <2>1, <2>2 DEF Levels
  <1>9. ASSUME NEW p \in Address, Source(p)'
        PROVE  Source(p) /\ p # a /\ depth'[p] = depth[p]
    <2>1. ~linked[a] /\ a # Seed
      BY <1>1, <1>2 DEF TurnInv, Walked
    <2> QED
      BY <1>4, <1>6, <1>7, <1>9, <2>1 DEF Source
  <1>10. ASSUME NEW p \in Address, depth'[p] = depth[p], p # a
         PROVE  /\ Waiting(p) => Waiting(p)'
                /\ Asking(p) => Asking(p)'
                /\ Closed(p) => Closed(p)'
    <2>1. Waiting(p) => Waiting(p)'
      BY <1>1, <1>10 DEF Waiting
    <2>2. Asking(p) => Asking(p)'
      BY <1>1, <1>5 DEF Asking
    <2>3. ASSUME Closed(p)
          PROVE  Closed(p)'
      <3>1. \A n \in DOMAIN Neighbors[p] : Neighbors[p][n] \in Unsafe \cup walk.seen
        BY <1>2, <2>3 DEF Closed
      <3>2. ~Reports(p, a)
        BY <1>4, <3>1 DEF Reports
      <3>3. \A b \in Candidates' : Reports(p, b) => depth'[b] <= depth'[p] + 1
        BY <1>6, <1>7, <1>10, <2>3, <3>2 DEF Closed, Candidates
      <3> QED
        BY <1>1, <3>1, <3>3 DEF Closed, Reports
    <2> QED
      BY <2>1, <2>2, <2>3
  <1>11. Sources'
    BY <1>4, <1>9, <1>10 DEF Sources
  <1> QED
    BY <1>8, <1>11

\* Record, by the walk: the device waits behind those of its level, unless it is at the
\* last one.
LEMMA LevelRecords ==
  ASSUME IInv, ShapeInv, Levels, Sources, Record(Walk), Candidates' = Candidates
  PROVE  Levels' /\ Sources'
  <1>1. request'[Walk] = Idle /\ Walk \in Actor
    BY Ends DEF Actor
  <1>2. request[Walk] # Idle /\ walk # NoWalk
        /\ \E a \in Address : a = request[Walk].address
    BY <1>1, StoresImport DEF Record, At, Storing
  <1>3. PICK a \in Address : a = request[Walk].address
    BY <1>2
  <1>4. /\ walk \in Walking /\ walk.depth \in Nat /\ limit.depth \in Nat
        /\ walk.queue \in Seq(Address \X Nat)
        /\ \A p \in Address : depth[p] \in Nat
    BY <1>2, LevelTypes
  <1>5. /\ walk'.queue = Enqueue(a) /\ walk'.parent = walk.parent /\ walk'.depth = walk.depth
        /\ walk'.seen = walk.seen /\ walk'.answers = walk.answers
    BY <1>4, <1>3 DEF Record, Mine, Walking
  <1>6. UNCHANGED <<limit, depth>> /\ \A p \in Address : p # a => linked'[p] = linked[p]
    BY <1>3 DEF Record, Mine, IInv, TypeOK
  <1>7. depth[a] = walk.depth + 1
    BY <1>2, <1>3 DEF Levels
  <1>8. \A n \in DOMAIN walk.queue : n \in DOMAIN Enqueue(a) /\ Enqueue(a)[n] = walk.queue[n]
    BY <1>4 DEF Enqueue
  <1>9. \A n \in DOMAIN Enqueue(a) :
          /\ n \in Nat
          /\ \/ n \in DOMAIN walk.queue
             \/ n = Len(walk.queue) + 1 /\ Enqueue(a)[n] = <<a, depth[a]>>
    BY <1>4 DEF Enqueue
  <1>10. Levels'
    <2>1. \A n \in DOMAIN Enqueue(a) : Enqueue(a)[n][2] \in {walk.depth, walk.depth + 1}
      BY <1>7, <1>8, <1>9 DEF Levels
    <2>2. ASSUME NEW m \in DOMAIN Enqueue(a), NEW n \in DOMAIN Enqueue(a), m < n
          PROVE  Enqueue(a)[m][2] <= Enqueue(a)[n][2]
      <3>1. CASE n \in DOMAIN walk.queue
        <4>1. m \in DOMAIN walk.queue
          BY <1>4, <1>9, <2>2, <3>1
        <4> QED
          BY <1>8, <2>2, <3>1, <4>1 DEF Levels
      <3>2. CASE n \notin DOMAIN walk.queue
        <4>1. Enqueue(a)[n][2] = walk.depth + 1
          BY <1>7, <1>9, <3>2
        <4> QED
          BY <1>4, <2>1, <4>1
      <3> QED
        BY <3>1, <3>2
    <2> QED
      BY <1>1, <1>5, <1>6, <2>1, <2>2 DEF Levels
  <1>11. ASSUME NEW p \in Address
         PROVE  /\ Waiting(p) => Waiting(p)'
                /\ Asking(p) => Asking(p)'
                /\ Closed(p) => Closed(p)'
    BY <1>5, <1>6, <1>8 DEF Waiting, Asking, Closed, Full, Reports
  <1>12. depth[a] >= limit.depth \/ Waiting(a)'
    <2>1. CASE depth[a] < limit.depth
      <3>1. Enqueue(a) = Append(walk.queue, <<a, depth[a]>>)
        BY <2>1 DEF Enqueue
      <3>2. /\ Len(walk.queue) + 1 \in DOMAIN Append(walk.queue, <<a, depth[a]>>)
            /\ Append(walk.queue, <<a, depth[a]>>)[Len(walk.queue) + 1] = <<a, depth[a]>>
        BY <1>4
      <3> QED
        BY <1>5, <1>6, <3>1, <3>2 DEF Waiting
    <2> QED
      BY <1>2, <1>4, <2>1
  <1>13. \A p \in Address : Source(p)' => Source(p) \/ p = a
    BY <1>6 DEF Source
  <1>14. Sources'
    BY <1>6, <1>11, <1>12, <1>13 DEF Sources
  <1> QED
    BY <1>10, <1>14

\* The steps of a request change at most the status of a candidate.
LEMMA SameCandidates ==
  ASSUME IInv, ShapeInv, NEW x \in Actor,
         \/ Deny(x) \/ DeadlockVictim(x) \/ Conflict(x) \/ Crash(x)
         \/ Access(x) \/ Claim(x) \/ Link(x) \/ Persist(x) \/ Record(x)
  PROVE  Candidates' = Candidates
  <1>1. CASE status' = status
    BY <1>1 DEF Candidates
  <1>2. CASE status' # status
    <2>1. Deny(x) \/ Link(x) \/ Record(x)
      BY <1>2 DEF DeadlockVictim, Conflict, Crash, Access, Claim, Persist, candidates
    <2>2. request[x] # Idle
      BY <2>1 DEF Deny, Link, Importing, Record, At, Idle
    <2>3. request[x].kind \in Operation
      <3>1. CASE Deny(x) \/ Link(x)
        BY <1>2, <3>1 DEF Deny, Link, Importing, Operation
      <3>2. CASE Record(x)
        BY <3>2, StoresImport DEF Record, At, Storing, Operation
      <3> QED
        BY <2>1, <3>1, <3>2
    <2>4. request[x].address \in Candidates
      BY <2>2, <2>3, ImportsCandidate
    <2>5. PICK s \in Status \ {"absent"} : status' = [status EXCEPT ![request[x].address] = s]
      BY <1>2, <2>1, <2>4
         DEF Deny, Link, Record, Mine, Written, Status, Candidates, IInv, TypeOK
    <2> QED
      BY <2>4, <2>5, StillCandidates DEF IInv
  <1> QED
    BY <1>1, <1>2

\* While no request has come, only the walk can act.
LEMMA WalkActs ==
  ASSUME RequestsCounted, requests = 0, NEW x \in Actor, request[x].pc # "idle"
  PROVE  x = Walk
  BY DEF RequestsCounted, Actor, Idle

\* The steps of the walk's request, which the walk outlives or not.
LEMMA LevelRequests ==
  ASSUME IInv, ShapeInv, Levels, Sources, walk # NoWalk,
         \/ Deny(Walk) \/ DeadlockVictim(Walk) \/ Conflict(Walk) \/ Crash(Walk)
         \/ Access(Walk) \/ Claim(Walk) \/ Link(Walk) \/ Persist(Walk) \/ Record(Walk)
  PROVE  Levels' /\ Sources'
  <1>1. Walk \in Actor /\ walk \in Walking
    BY DEF Actor, IInv, TypeOK
  <1>2. Candidates' = Candidates
    BY <1>1, SameCandidates
  <1>3. CASE Record(Walk)
    BY <1>2, <1>3, LevelRecords
  <1>4. CASE Deny(Walk) \/ DeadlockVictim(Walk) \/ Conflict(Walk) \/ Crash(Walk)
    <2>1. request'[Walk] = Idle
      BY <1>1, <1>4, Ends
    <2>2. walk' \in {walk, [walk EXCEPT !.pc = "lost"]}
      BY <1>4 DEF Deny, DeadlockVictim, Conflict, Crash
    <2>3. SameWalk /\ walk'.answers = walk.answers
      BY <1>1, <2>2, LostWalk DEF IInv, Walking
    <2>4. UNCHANGED <<limit, depth, linked>>
      BY <1>4 DEF Deny, DeadlockVictim, Conflict, Crash, candidates
    <2> QED
      BY <1>2, <2>1, <2>3, <2>4, LevelFrame
  <1>5. CASE Access(Walk) \/ Claim(Walk) \/ Link(Walk) \/ Persist(Walk)
    <2>1. request[Walk] # Idle /\ request'[Walk].address = request[Walk].address
      BY <1>1, <1>5, Moves
    <2>2. SameWalk /\ UNCHANGED <<limit, depth, linked, walk>>
      BY <1>5 DEF Access, Claim, Link, Persist, candidates, SameWalk
    <2> QED
      BY <1>2, <2>1, <2>2, LevelFrame
  <1> QED
    BY <1>3, <1>4, <1>5

\* The steps that move neither a request nor a candidate.
LEMMA LevelStill ==
  ASSUME IInv, ShapeInv, Levels, Sources, walk # NoWalk,
         \/ \E u, v \in User, o \in User, r \in Granted : AddMember(u, v, o, r)
         \/ Answer \/ UNCHANGED vars
  PROVE  Levels' /\ Sources'
  <1>1. UNCHANGED <<request, limit, depth, linked, status>> /\ Candidates' = Candidates
    BY DEF AddMember, Answer, vars, candidates, Candidates
  <1>2. walk \in Walking
    BY DEF IInv, TypeOK
  <1>3. SameWalk /\ walk'.answers = walk.answers
    <2>1. CASE walk' = walk
      BY <2>1 DEF SameWalk
    <2>2. CASE Answer
      <3>1. PICK pc \in {"lost", "over"} : walk' = [walk EXCEPT !.pc = pc]
        BY <2>2 DEF Answer
      <3> QED
        BY <1>2, <3>1 DEF SameWalk, Walking, NoWalk
    <2> QED
      BY <2>1, <2>2 DEF AddMember, vars
  <1> QED
    BY <1>1, <1>3, LevelFrame

\* A request that has come is counted for good.
LEMMA CountedStep ==
  ASSUME IInv, ShapeInv, RequestsCounted, [Next]_vars, requests' = 0
  PROVE  requests = 0 /\ \A r \in Request : request'[r] = Idle
  <1>1. Walk \notin Request /\ \A r \in Request : r \in Actor \ {Walk}
    BY DiscoveryAssumption DEF Actor
  <1>2. ASSUME requests = 0, Alone(Walk)
        PROVE  \A r \in Request : request'[r] = Idle
    BY <1>1, <1>2 DEF Alone, RequestsCounted
  <1>3. CASE \/ \E u, v \in User, o \in User, r \in Granted : AddMember(u, v, o, r)
             \/ Ask \/ DropAnswers \/ PassOver \/ Answer \/ UNCHANGED vars
    BY <1>3
       DEF AddMember, Ask, DropAnswers, PassOver, Answer, vars, counters, RequestsCounted
  <1>4. ASSUME NEW x \in Actor,
               \/ Deny(x) \/ DeadlockVictim(x) \/ Conflict(x) \/ WriteSummary(x) \/ EndPull(x)
               \/ Crash(x) \/ \E rejected \in BOOLEAN : PullFails(x, rejected)
        PROVE  requests = 0 /\ \A r \in Request : request'[r] = Idle
    <2>1. requests = 0
      BY <1>4 DEF Deny, DeadlockVictim, Conflict, WriteSummary, EndPull, Crash, PullFails, counters
    <2>2. request[x] # Idle \/ x = Walk
      BY <1>4
         DEF Deny, DeadlockVictim, Waits, Conflict, Importing, WriteSummary, EndPull, Crash,
             PullFails, At, Idle
    <2>3. x = Walk
      BY <1>4, <2>1, <2>2, WalkActs, NotIdle DEF IInv, RequestInv
    <2> QED
      BY <1>2, <1>4, <2>1, <2>3, Ends
  <1>5. ASSUME NEW x \in Actor,
               \/ Access(x) \/ Claim(x) \/ Link(x) \/ Persist(x) \/ ReadSummary(x)
               \/ CommitSkip(x) \/ Record(x)
        PROVE  requests = 0 /\ \A r \in Request : request'[r] = Idle
    <2>1. requests = 0
      BY <1>5 DEF Access, Claim, Link, Persist, ReadSummary, CommitSkip, Record, counters
    <2>2. x = Walk
      BY <1>5, <2>1, WalkActs
         DEF Access, Claim, Link, Importing, Persist, ReadSummary, CommitSkip, Record, At
    <2>3. Alone(x)
      BY <1>5, <2>2, Moves, Ends
    <2> QED
      BY <1>2, <2>1, <2>2, <2>3
  <1>6. CASE RequestSession
    <2>1. requests = 0
      BY <1>6 DEF RequestSession, counters
    <2>2. Alone(Walk)
      BY <1>6, Visits, DiscoveryAssumption DEF Actor
    <2> QED
      BY <1>2, <2>1, <2>2
  <1>7. CASE CreateSession
    <2>1. requests = 0 /\ Alone(Walk)
      BY <1>7 DEF CreateSession, counters, IInv, RequestInv, RequestsTyped, Finished, Alone
    <2> QED
      BY <1>2, <2>1
  <1>8. CASE Discover
    <2>1. requests = 0 /\ Alone(Walk)
      BY <1>8, Discovers DEF Discover, counters
    <2> QED
      BY <1>2, <2>1
  <1>9. ASSUME NEW r \in Request, NEW a \in Address,
               \/ PullNeighbor(r, a)
               \/ \E u \in User : Process(r, u, a) \/ Skip(r, u, a) \/ PullDevice(r, u, a)
        PROVE  FALSE
    <2>1. CASE PullNeighbor(r, a)
      BY <1>1, <2>1, WalkActs DEF PullNeighbor, At, counters
    <2>2. CASE ~PullNeighbor(r, a)
      BY <1>9, <2>2 DEF Process, Skip, Operator, PullDevice, Visit, NewRequest, IInv, TypeOK
    <2> QED
      BY <2>1, <2>2
  <1> QED
    BY <1>1, <1>3, <1>4, <1>5, <1>6, <1>7, <1>8, <1>9 DEF Next

\* The walk keeps its levels until a device does not answer or another request comes.
LEMMA LevelStep ==
  ASSUME IInv, ShapeInv, TurnInv, LevelInv, [Next]_vars
  PROVE  LevelInv'
  <1>1. RequestsCounted'
    BY CountedStep DEF LevelInv, RequestsCounted
  <1> SUFFICES ASSUME failures' = 0, requests' = 0, walk' # NoWalk
      PROVE  Levels' /\ Sources'
    BY <1>1 DEF LevelInv
  <1>2. requests = 0 /\ RequestsCounted /\ \A r \in Request : request[r] = Idle
    BY CountedStep DEF LevelInv, RequestsCounted
  <1>3. CASE CreateSession
    BY <1>3, LevelCreates
  <1>4. CASE \/ \E u, v \in User, o \in User, r \in Granted : AddMember(u, v, o, r)
             \/ Answer \/ UNCHANGED vars
    <2>1. failures = 0 /\ walk # NoWalk
      BY <1>4 DEF AddMember, Answer, Free, NoWalk, vars, counters
    <2> QED
      BY <1>2, <1>4, <2>1, LevelStill DEF LevelInv
  <1>5. CASE Ask \/ PassOver \/ DropAnswers \/ Discover
    <2>1. failures = 0 /\ walk # NoWalk
      BY <1>5
         DEF Ask, PassOver, DropAnswers, Discover, Free, NoWalk, counters, Failure, IInv, TypeOK
    <2> QED
      BY <1>2, <1>5, <2>1, LevelAsks, LevelPasses, LevelDiscovers DEF LevelInv
  <1>6. CASE RequestSession
    BY <1>6 DEF RequestSession
  <1>7. ASSUME NEW x \in Actor,
               \/ Access(x) \/ Claim(x) \/ Deny(x) \/ DeadlockVictim(x)
               \/ (\E rejected \in BOOLEAN : PullFails(x, rejected))
               \/ Link(x) \/ Conflict(x) \/ Persist(x) \/ Record(x)
               \/ ReadSummary(x) \/ WriteSummary(x) \/ Crash(x) \/ CommitSkip(x) \/ EndPull(x)
        PROVE  Levels' /\ Sources'
    <2>1. request[x] # Idle \/ x = Walk
      BY <1>7
         DEF Access, Claim, Deny, DeadlockVictim, Waits, PullFails, Link, Conflict, Importing,
             Persist, Record, ReadSummary, WriteSummary, Crash, CommitSkip, EndPull, At, Idle
    <2>2. x = Walk
      BY <1>2, <2>1 DEF Actor
    <2>3. ~(\E rejected \in BOOLEAN : PullFails(x, rejected)) /\ failures = 0
      BY <1>7
         DEF Access, Claim, Deny, DeadlockVictim, PullFails, Link, Conflict,
             Persist, Record, ReadSummary, WriteSummary, Crash, CommitSkip, EndPull, counters,
             Failure, IInv, TypeOK
    <2>4. walk # NoWalk
      <3>1. CASE walk' = walk
        BY <3>1
      <3>2. CASE walk' # walk
        <4>1. Conflict(x) \/ Record(x) \/ Crash(x)
          BY <1>7, <2>3, <3>2
             DEF Access, Claim, Deny, DeadlockVictim, Link, Persist, ReadSummary, WriteSummary,
                 CommitSkip, EndPull
        <4>2. CASE Crash(x)
          BY <3>2, <4>2 DEF Crash
        <4>3. CASE Conflict(x)
          BY <4>3 DEF IInv, RequestInv, PlacedInv, Placed, Conflict, Importing, At, Idle
        <4>4. CASE Record(x)
          BY <4>4, StoresImport DEF Record, At, Storing
        <4> QED
          BY <4>1, <4>2, <4>3, <4>4
      <3> QED
        BY <3>1, <3>2
    <2>5. Turn(Walk, request[Walk]) \/ request[Walk] = Idle
      BY DEF TurnInv, Actor
    <2>6. /\ ~ReadSummary(Walk) /\ ~WriteSummary(Walk) /\ ~CommitSkip(Walk)
          /\ ~EndPull(Walk)
      BY <2>5 DEF Turn, ReadSummary, WriteSummary, CommitSkip, EndPull, At, Idle, Accessing, Storing
    <2> QED
      BY <1>2, <1>7, <2>2, <2>3, <2>4, <2>6, LevelRequests DEF LevelInv
  <1>8. ASSUME NEW r \in Request, NEW a \in Address,
               \/ PullNeighbor(r, a)
               \/ \E u \in User : Process(r, u, a) \/ Skip(r, u, a) \/ PullDevice(r, u, a)
        PROVE  FALSE
    <2>1. CASE PullNeighbor(r, a)
      BY <1>2, <2>1 DEF PullNeighbor, At, Idle
    <2>2. CASE ~PullNeighbor(r, a)
      BY <1>8, <2>2 DEF Process, Skip, Operator, PullDevice, Visit, NewRequest, IInv, TypeOK
    <2> QED
      BY <2>1, <2>2
  <1>9. \A r \in Request : r \in Actor
    BY DEF Actor
  <1> QED
    BY <1>3, <1>4, <1>5, <1>6, <1>7, <1>8, <1>9 DEF Next

\* What the levels say of the way to a candidate.
LEMMA LevelsShortest ==
  ASSUME IInv, ShapeInv, Levels, Sources, walk # NoWalk,
         NEW a \in Candidates, NEW p \in Candidates \cup {Seed}, p = Seed \/ linked[p],
         Reports(p, a)
  PROVE  depth[a] <= depth[p] + 1
  <1>1. a \in Address /\ p \in Address /\ Source(p)
    BY DiscoveryAssumption DEF Candidates, Source
  <1>2. /\ walk.depth \in Nat /\ limit.depth \in Nat /\ depth[walk.parent] = walk.depth
        /\ \A b \in Address : depth[b] \in Nat /\ depth[b] <= limit.depth
    BY LevelTypes
  <1>3. depth[a] <= walk.depth + 1
    BY DEF Levels
  <1>4. CASE depth[p] >= limit.depth
    BY <1>1, <1>2, <1>4
  <1>5. CASE Waiting(p)
    BY <1>1, <1>2, <1>3, <1>5 DEF Waiting, Levels
  <1>6. CASE Asking(p)
    BY <1>1, <1>2, <1>3, <1>6 DEF Asking
  <1>7. CASE Closed(p)
    BY <1>7 DEF Closed
  <1> QED
    BY <1>1, <1>4, <1>5, <1>6, <1>7 DEF Sources

\* discover_session: the walk is breadth first. However devices report each other, and
\* wherever the limits cut the walk short, a candidate is recorded under the shortest way to
\* it: no imported device closer to the seed reports it too, unless a device did not answer.
THEOREM EvidenceShortest == Spec => []ShortestEvidence
  <1>1. Init => LevelInv
    BY DEF Init, LevelInv, RequestsCounted, Actor
  <1>2. SessionInv /\ LevelInv /\ [Next]_vars => LevelInv'
    BY LevelStep DEF SessionInv
  <1>3. SessionInv /\ LevelInv => ShortestEvidence
    <2> SUFFICES ASSUME SessionInv, LevelInv, failures = 0, requests = 0,
                        NEW a \in Candidates, NEW p \in Candidates \cup {Seed},
                        p = Seed \/ linked[p], Reports(p, a)
        PROVE  depth[a] <= depth[p] + 1
      BY DEF ShortestEvidence, Reports
    <2>1. walk # NoWalk
      BY DEF SessionInv, ShapeInv, WalkedInv
    <2> QED
      BY <2>1, LevelsShortest DEF SessionInv, LevelInv
  <1> QED
    BY <1>1, <1>2, <1>3, SessionInvariant, PTL DEF Spec
=============================================================================
