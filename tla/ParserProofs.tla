---------------------------- MODULE ParserProofs ----------------------------
(***************************************************************************)
(* What the parsers make of any text of any length, proved by induction    *)
(* over its lines.                                                         *)
(***************************************************************************)
EXTENDS ConfigAnalysis, WellFoundedInduction, TLAPS

-----------------------------------------------------------------------------
(* Induction over the natural numbers, for sets.                           *)

\* A set of naturals that is not empty has a least element.
LEMMA LeastNat ==
  ASSUME NEW T, T \subseteq Nat, T # {}
  PROVE  \E m \in T : \A k \in T : m <= k
  <1> DEFINE R == OpToRel(<, Nat)
  <1>1. IsWellFoundedOn(R, Nat)
    BY NatLessThanWellFounded
  <1>2. PICK m \in T : \A k \in T : <<k, m>> \notin R
    <2> HIDE DEF R
    <2> QED BY <1>1, WFMin
  <1>3. \A k \in T : k \in Nat /\ m \in Nat /\ ~(k < m)
    BY <1>2 DEF OpToRel
  <1> HIDE DEF R
  <1> QED BY <1>3

\* A set that holds zero and is closed under successors holds every natural.
LEMMA NatSet ==
  ASSUME NEW T, 0 \in T, \A n \in Nat : n \in T => n + 1 \in T
  PROVE  Nat \subseteq T
  <1> SUFFICES ASSUME Nat \ T # {} PROVE FALSE
    OBVIOUS
  <1>1. PICK m \in Nat \ T : \A k \in Nat \ T : m <= k
    BY LeastNat
  <1>2. m - 1 \in Nat /\ m - 1 \in T
    BY <1>1
  <1> QED BY <1>1, <1>2

-----------------------------------------------------------------------------
(* The passes over the lines.                                              *)

\* Whatever the text, there is a function that reads it line by line.
LEMMA AfterExists ==
  ASSUME NEW v, NEW m, NEW lines, NEW k \in Nat
  PROVE  \E f : f = [i \in 0 .. k |-> IF i = 0 THEN Start(v)
                                      ELSE Step(v, m, f[i - 1], lines[i])]
  <1> DEFINE
        F(f, n) == f = [i \in 0 .. n |-> IF i = 0 THEN Start(v)
                                         ELSE Step(v, m, f[i - 1], lines[i])]
        T == {n \in Nat : \E f : F(f, n)}
  <1>1. 0 \in T
    <2> DEFINE f == [i \in 0 .. 0 |-> Start(v)]
    <2>1. F(f, 0)
      OBVIOUS
    <2> QED BY <2>1
  <1>2. ASSUME NEW n \in Nat, n \in T PROVE n + 1 \in T
    <2>1. PICK f : F(f, n)
      BY <1>2
    <2> DEFINE g == [i \in 0 .. n + 1 |-> IF i = n + 1 THEN Step(v, m, f[n], lines[n + 1])
                                          ELSE f[i]]
    <2>2. ASSUME NEW i \in 0 .. n + 1
          PROVE  g[i] = IF i = 0 THEN Start(v) ELSE Step(v, m, g[i - 1], lines[i])
      <3>1. CASE i = 0
        BY <2>1, <3>1
      <3>2. CASE i = n + 1
        <4>1. g[i - 1] = f[n]
          BY <3>2
        <4> QED BY <3>2, <4>1
      <3>3. CASE i \in 1 .. n
        <4>1. g[i - 1] = f[i - 1] /\ g[i] = f[i]
          BY <3>3
        <4>2. f[i] = Step(v, m, f[i - 1], lines[i])
          <5>1. i \in 0 .. n /\ i # 0
            BY <3>3
          <5> QED BY <2>1, <5>1
        <4> QED BY <3>3, <4>1, <4>2
      <3> QED BY <3>1, <3>2, <3>3
    <2>3. g = [i \in 0 .. n + 1 |-> g[i]]
      OBVIOUS
    <2>4. F(g, n + 1)
      <3> HIDE DEF g
      <3> QED BY <2>2, <2>3
    <2> HIDE DEF g
    <2> QED BY <2>4
  <1>3. k \in T
    <2> HIDE DEF T
    <2> QED BY <1>1, <1>2, NatSet
  <1> QED BY <1>3

\* What is known after each line follows from what was known before it.
LEMMA AfterSteps ==
  ASSUME NEW v, NEW m, NEW S, NEW lines \in Seq(S)
  PROVE  /\ After(v, lines, m)[0] = Start(v)
         /\ \A i \in 1 .. Len(lines) :
              After(v, lines, m)[i] = Step(v, m, After(v, lines, m)[i - 1], lines[i])
  <1> DEFINE f == After(v, lines, m)
             k == Len(lines)
  <1>1. f = [i \in 0 .. k |-> IF i = 0 THEN Start(v) ELSE Step(v, m, f[i - 1], lines[i])]
    BY AfterExists DEF After
  <1> HIDE DEF f
  <1>2. k \in Nat
    OBVIOUS
  <1> QED
    BY <1>1, <1>2 DEF f

-----------------------------------------------------------------------------
(* The operations of a parse.                                              *)

\* The names of fields, protocols and servers: any string.  The parsers' own are
\* listed because the provers do not know of a literal that it is a string.
Names ==
  STRING \cup SchemaFields
    \cup {"interfaces.name", "interfaces.description", "interfaces.ip_address",
          "interfaces.shutdown", "interfaces.cdp_disabled", "snmp.community",
          "firewall_policies.name", "firewall_policies.srcintf",
          "firewall_policies.dstintf", "firewall_policies.srcaddr",
          "firewall_policies.dstaddr", "firewall_policies.service",
          "firewall_policies.action", "firewall_policies.status",
          "firewall_policies.logtraffic", "ssh", "https", "http", "telnet"}

ReadingType == [field : Names, value : Int, items : SUBSET Names]
Sources == {"parser", "learned_mapping"}
FindingType == [reading : ReadingType, line : Nat, source : Sources]

IsConfig(c) ==
  /\ c = [scalars |-> c.scalars, lists |-> c.lists, interfaces |-> c.interfaces,
          policies |-> c.policies]
  /\ DOMAIN c.scalars \subseteq ScalarFields
  /\ c.scalars = [f \in DOMAIN c.scalars |-> c.scalars[f]]
  /\ c.lists \in [ListFields -> SUBSET Names]
  /\ c.interfaces = [i \in DOMAIN c.interfaces |-> c.interfaces[i]]
  /\ c.policies = [i \in DOMAIN c.policies |-> c.policies[i]]
  /\ \A i \in DOMAIN c.policies :
       c.policies[i] = [enabled |-> c.policies[i].enabled, accept |-> c.policies[i].accept,
                        logging |-> c.policies[i].logging]

IsParse(p) ==
  /\ p = [config |-> p.config, findings |-> p.findings, unknown |-> p.unknown, n |-> p.n,
          state |-> p.state]
  /\ IsConfig(p.config)
  /\ p.findings \in Seq(FindingType)
  /\ p.unknown \in SUBSET Nat
  /\ p.n \in Nat

\* One more finding, and what it may change of the configuration.
Finds(p, q, r, n, source) ==
  /\ IsParse(q)
  /\ q.findings = Append(p.findings, [reading |-> r, line |-> n, source |-> source])
  /\ q.unknown = p.unknown /\ q.n = p.n
  /\ q.config.scalars = IF r.field \in ScalarFields
                        THEN With(p.config.scalars, r.field, r.value) ELSE p.config.scalars
  /\ \A f \in ListFields : f # r.field => q.config.lists[f] = p.config.lists[f]
  /\ r.field # "interfaces.cdp_disabled" =>
       \A i \in DOMAIN q.config.interfaces :
         \/ q.config.interfaces[i] = Unset
         \/ i \in DOMAIN p.config.interfaces
            /\ q.config.interfaces[i] = p.config.interfaces[i]
  /\ r.field # "firewall_policies.action" =>
       \A i \in DOMAIN q.config.policies :
         i \in DOMAIN p.config.policies
         /\ q.config.policies[i].accept = p.config.policies[i].accept

\* No finding, and no setting but those that a record starts with.
Quiet(p, q) ==
  /\ IsParse(q)
  /\ q.findings = p.findings /\ q.n = p.n
  /\ q.config.scalars = p.config.scalars /\ q.config.lists = p.config.lists
  /\ \A i \in DOMAIN q.config.interfaces :
       \/ q.config.interfaces[i] = Unset
       \/ i \in DOMAIN p.config.interfaces
          /\ q.config.interfaces[i] = p.config.interfaces[i]
  /\ \A i \in DOMAIN q.config.policies :
       \/ ~q.config.policies[i].accept
       \/ i \in DOMAIN p.config.policies
          /\ q.config.policies[i].accept = p.config.policies[i].accept

\* The parts of a parse after an operation.
LEMMA FoundAtParts ==
  ASSUME NEW p, IsParse(p), NEW r \in ReadingType, NEW n \in Nat, NEW source \in Sources
  PROVE  LET q == FoundAt(p, r, n, source) IN
         /\ IsParse(q)
         /\ q.config = p.config /\ q.unknown = p.unknown /\ q.n = p.n /\ q.state = p.state
         /\ q.findings = Append(p.findings, [reading |-> r, line |-> n, source |-> source])
  <1> DEFINE x == [reading |-> r, line |-> n, source |-> source]
  <1>1. x \in FindingType
    BY DEF FindingType
  <1>2. Append(p.findings, x) \in Seq(FindingType)
    BY <1>1 DEF IsParse
  <1>3. FoundAt(p, r, n, source)
          = [config |-> p.config, findings |-> Append(p.findings, x), unknown |-> p.unknown,
             n |-> p.n, state |-> p.state]
    <2>1. FoundAt(p, r, n, source) = [p EXCEPT !.findings = Append(p.findings, x)]
      BY DEF FoundAt
    <2>2. p = [config |-> p.config, findings |-> p.findings, unknown |-> p.unknown, n |-> p.n,
               state |-> p.state]
      BY DEF IsParse
    <2> HIDE DEF x
    <2> QED BY <2>1, <2>2
  <1> HIDE DEF x
  <1> QED BY <1>2, <1>3 DEF IsParse, x

\* Assigning a reading to a configuration.
Assigns(c, d, r) ==
  /\ IsConfig(d)
  /\ d.scalars = IF r.field \in ScalarFields
                 THEN With(c.scalars, r.field, r.value) ELSE c.scalars
  /\ \A f \in ListFields : f # r.field => d.lists[f] = c.lists[f]
  /\ d.interfaces = c.interfaces /\ d.policies = c.policies

\* A reading assigned changes the setting or the list it names and no other.
LEMMA AssignUnionAssigns ==
  ASSUME NEW c, IsConfig(c), NEW r \in ReadingType
  PROVE  Assigns(c, AssignUnion(c, r), r)
  <1>0. ListFields \cap ScalarFields = {}
    BY DEF ListFields, ScalarFields, BooleanFields, NumberFields, TextFields
  <1>1. CASE r.field \in ListFields
    <2> DEFINE d == AssignUnion(c, r)
    <2>1. d = [scalars |-> c.scalars,
               lists |-> [c.lists EXCEPT ![r.field] = @ \cup r.items],
               interfaces |-> c.interfaces, policies |-> c.policies]
      BY <1>1 DEF AssignUnion, IsConfig
    <2>2. [c.lists EXCEPT ![r.field] = @ \cup r.items] \in [ListFields -> SUBSET Names]
      BY <1>1 DEF IsConfig, ReadingType
    <2> HIDE DEF d
    <2> QED BY <1>0, <1>1, <2>1, <2>2 DEF Assigns, IsConfig, d
  <1>2. CASE r.field \in ScalarFields
    <2> DEFINE d == AssignUnion(c, r)
               s == With(c.scalars, r.field, r.value)
    <2>1. d = [scalars |-> s, lists |-> c.lists, interfaces |-> c.interfaces,
               policies |-> c.policies]
      BY <1>0, <1>2 DEF AssignUnion, IsConfig
    <2>2. DOMAIN s \subseteq ScalarFields /\ s = [f \in DOMAIN s |-> s[f]]
      BY <1>2 DEF IsConfig, With
    <2> HIDE DEF d, s
    <2> QED BY <1>2, <2>1, <2>2 DEF Assigns, IsConfig, d, s
  <1>3. CASE r.field \notin ListFields \cup ScalarFields
    BY <1>3 DEF AssignUnion, Assigns
  <1> QED BY <1>1, <1>2, <1>3

\* The same when the transports of a line are replaced.
LEMMA AssignReplaceAssigns ==
  ASSUME NEW c, IsConfig(c), NEW r \in ReadingType
  PROVE  Assigns(c, AssignReplace(c, r), r)
  <1>0. "line_vty.transport_input" \in ListFields \ ScalarFields
    BY DEF ListFields, ScalarFields, BooleanFields, NumberFields, TextFields
  <1>1. CASE r.field = "line_vty.transport_input"
    <2> DEFINE d == AssignReplace(c, r)
    <2>1. d = [scalars |-> c.scalars, lists |-> [c.lists EXCEPT ![r.field] = r.items],
               interfaces |-> c.interfaces, policies |-> c.policies]
      BY <1>1 DEF AssignReplace, IsConfig
    <2>2. [c.lists EXCEPT ![r.field] = r.items] \in [ListFields -> SUBSET Names]
      BY <1>1 DEF IsConfig, ReadingType
    <2> HIDE DEF d
    <2> QED BY <1>0, <1>1, <2>1, <2>2 DEF Assigns, IsConfig, d
  <1>2. CASE r.field # "line_vty.transport_input"
    BY <1>2, AssignUnionAssigns DEF AssignReplace
  <1> QED BY <1>1, <1>2

\* The same parse, up to what the parser remembers.
Alike(p, q) ==
  /\ IsParse(q)
  /\ q.config = p.config /\ q.findings = p.findings /\ q.unknown = p.unknown /\ q.n = p.n

\* Another state of the parser leaves the rest of the parse.
LEMMA Remembering ==
  ASSUME NEW p, IsParse(p), NEW s
  PROVE  Alike(p, [p EXCEPT !.state = s]) /\ [p EXCEPT !.state = s].state = s
  <1> DEFINE q == [p EXCEPT !.state = s]
  <1>1. q = [config |-> p.config, findings |-> p.findings, unknown |-> p.unknown, n |-> p.n,
             state |-> s]
    BY DEF IsParse
  <1> HIDE DEF q
  <1>2. Alike(p, q) /\ q.state = s
    BY <1>1 DEF IsParse, Alike
  <1> QED BY <1>2 DEF q

\* Another configuration leaves the rest of the parse.
LEMMA Configuring ==
  ASSUME NEW p, IsParse(p), NEW d, IsConfig(d)
  PROVE  LET q == [p EXCEPT !.config = d] IN
         /\ IsParse(q) /\ q.config = d /\ q.findings = p.findings
         /\ q.unknown = p.unknown /\ q.n = p.n /\ q.state = p.state
  <1> DEFINE q == [p EXCEPT !.config = d]
  <1>1. q = [config |-> d, findings |-> p.findings, unknown |-> p.unknown, n |-> p.n,
             state |-> p.state]
    BY DEF IsParse
  <1> HIDE DEF q
  <1> QED BY <1>1 DEF IsParse, q

\* What differs in the parser's state only finds the same.
LEMMA AlikeFinds ==
  ASSUME NEW p, NEW q, NEW x, NEW r, NEW n, NEW source,
         Alike(p, x), Finds(x, q, r, n, source)
  PROVE  Finds(p, q, r, n, source)
  BY DEF Alike, Finds

\* A reading assigned and kept as a finding.
LEMMA Stating ==
  ASSUME NEW p, IsParse(p), NEW r \in ReadingType, NEW d, Assigns(p.config, d, r),
         NEW n \in Nat, NEW source \in Sources
  PROVE  LET q == FoundAt([p EXCEPT !.config = d], r, n, source) IN
         Finds(p, q, r, n, source) /\ q.state = p.state
  <1> DEFINE x == [p EXCEPT !.config = d]
             q == FoundAt(x, r, n, source)
  <1>1. /\ IsParse(x) /\ x.config = d /\ x.findings = p.findings
        /\ x.unknown = p.unknown /\ x.n = p.n /\ x.state = p.state
    BY Configuring DEF Assigns
  <1> HIDE DEF x
  <1>2. /\ IsParse(q)
        /\ q.config = x.config /\ q.unknown = x.unknown /\ q.n = x.n /\ q.state = x.state
        /\ q.findings = Append(x.findings, [reading |-> r, line |-> n, source |-> source])
    BY <1>1, FoundAtParts
  <1> HIDE DEF q
  <1>3. Finds(p, q, r, n, source)
    BY <1>1, <1>2 DEF Finds, Assigns
  <1> QED BY <1>1, <1>2, <1>3 DEF q, x

\* The four ways to do so.
LEMMA SetUnionFinds ==
  ASSUME NEW p, IsParse(p), NEW r \in ReadingType
  PROVE  Finds(p, SetUnion(p, r), r, p.n, "parser") /\ SetUnion(p, r).state = p.state
  <1>1. p.n \in Nat /\ IsConfig(p.config)
    BY DEF IsParse
  <1>2. Assigns(p.config, AssignUnion(p.config, r), r)
    BY <1>1, AssignUnionAssigns
  <1>3. [p EXCEPT !.config = AssignUnion(p.config, r)].n = p.n
    BY DEF IsParse
  <1> QED BY <1>1, <1>2, <1>3, Stating DEF SetUnion, Stated, Sources

\* A reading that replaces the transports of a line is one finding.
LEMMA SetReplaceFinds ==
  ASSUME NEW p, IsParse(p), NEW r \in ReadingType
  PROVE  Finds(p, SetReplace(p, r), r, p.n, "parser") /\ SetReplace(p, r).state = p.state
  <1>1. p.n \in Nat /\ IsConfig(p.config)
    BY DEF IsParse
  <1>2. Assigns(p.config, AssignReplace(p.config, r), r)
    BY <1>1, AssignReplaceAssigns
  <1> QED BY <1>1, <1>2, Stating DEF SetReplace, Stated, Sources

\* A reading of an approved mapping is one finding, marked as learned.
LEMMA ApplyUnionFinds ==
  ASSUME NEW p, IsParse(p), NEW r \in ReadingType
  PROVE  /\ Finds(p, ApplyUnion(p, r), r, p.n, "learned_mapping")
         /\ ApplyUnion(p, r).state = p.state
  <1>1. p.n \in Nat /\ IsConfig(p.config)
    BY DEF IsParse
  <1>2. Assigns(p.config, AssignUnion(p.config, r), r)
    BY <1>1, AssignUnionAssigns
  <1> QED BY <1>1, <1>2, Stating DEF ApplyUnion, Sources

\* The same when it replaces the transports of a line.
LEMMA ApplyReplaceFinds ==
  ASSUME NEW p, IsParse(p), NEW r \in ReadingType
  PROVE  /\ Finds(p, ApplyReplace(p, r), r, p.n, "learned_mapping")
         /\ ApplyReplace(p, r).state = p.state
  <1>1. p.n \in Nat /\ IsConfig(p.config)
    BY DEF IsParse
  <1>2. Assigns(p.config, AssignReplace(p.config, r), r)
    BY <1>1, AssignReplaceAssigns
  <1> QED BY <1>1, <1>2, Stating DEF ApplyReplace, Sources

\* A finding that assigns nothing.
LEMMA FoundAtFinds ==
  ASSUME NEW p, IsParse(p), NEW r \in ReadingType, r.field \notin ScalarFields,
         NEW n \in Nat
  PROVE  /\ Finds(p, FoundAt(p, r, n, "parser"), r, n, "parser")
         /\ FoundAt(p, r, n, "parser").state = p.state
  <1> DEFINE q == FoundAt(p, r, n, "parser")
  <1>1. /\ IsParse(q)
        /\ q.config = p.config /\ q.unknown = p.unknown /\ q.n = p.n /\ q.state = p.state
        /\ q.findings = Append(p.findings, [reading |-> r, line |-> n, source |-> "parser"])
    BY FoundAtParts DEF Sources
  <1> HIDE DEF q
  <1>2. Finds(p, q, r, n, "parser")
    BY <1>1 DEF Finds
  <1> QED BY <1>1, <1>2 DEF q

\* The parser goes to the next line and changes nothing else.
LEMMA AdvanceParts ==
  ASSUME NEW p, IsParse(p)
  PROVE  LET q == Advance(p) IN
         /\ IsParse(q)
         /\ q.config = p.config /\ q.findings = p.findings /\ q.unknown = p.unknown
         /\ q.n = p.n + 1 /\ q.state = p.state
  <1> DEFINE q == Advance(p)
  <1>1. q = [config |-> p.config, findings |-> p.findings, unknown |-> p.unknown,
             n |-> p.n + 1, state |-> p.state]
    BY DEF IsParse, Advance
  <1> HIDE DEF q
  <1> QED BY <1>1 DEF IsParse, q

\* A line that nothing understands is kept for training and changes nothing else.
LEMMA UnrecognizedParts ==
  ASSUME NEW p, IsParse(p)
  PROVE  LET q == Unrecognized(p) IN
         /\ IsParse(q)
         /\ q.config = p.config /\ q.findings = p.findings
         /\ q.unknown = p.unknown \cup {p.n} /\ q.n = p.n /\ q.state = p.state
  <1> DEFINE q == Unrecognized(p)
             u == p.unknown \cup {p.n}
  <1>1. q = [config |-> p.config, findings |-> p.findings, unknown |-> u, n |-> p.n,
             state |-> p.state]
    <2>1. q = [p EXCEPT !.unknown = u]
      BY DEF Unrecognized
    <2> HIDE DEF u, q
    <2> QED BY <2>1 DEF IsParse
  <1>2. u \in SUBSET Nat
    BY DEF IsParse
  <1> HIDE DEF q, u
  <1>3. /\ IsParse(q)
        /\ q.config = p.config /\ q.findings = p.findings
        /\ q.unknown = u /\ q.n = p.n /\ q.state = p.state
    BY <1>1, <1>2 DEF IsParse
  <1> QED BY <1>3 DEF q, u

-----------------------------------------------------------------------------
(* What holds of every parse.                                              *)

\* The lines its findings cite, those that approved mappings explain, its fields.
Cites(p) == {p.findings[i].line : i \in DOMAIN p.findings}
Explains(p) ==
  {p.findings[i].line : i \in {j \in DOMAIN p.findings :
                                 p.findings[j].source = "learned_mapping"}}
FieldsIn(p) == {p.findings[i].reading.field : i \in DOMAIN p.findings}

\* A setting has the value stated last.
Decided(p) ==
  \A i \in DOMAIN p.findings :
    LET f == p.findings[i].reading.field IN
    (/\ f \in ScalarFields
     /\ \A j \in DOMAIN p.findings : p.findings[j].reading.field = f => j <= i)
      => f \in DOMAIN p.config.scalars /\ p.config.scalars[f] = p.findings[i].reading.value

\* What is set was found.
Evident(p) ==
  /\ DOMAIN p.config.scalars \subseteq FieldsIn(p)
  /\ \A f \in ListFields : p.config.lists[f] = {} \/ f \in FieldsIn(p)
  /\ \A i \in DOMAIN p.config.interfaces :
       p.config.interfaces[i] = Unset \/ "interfaces.cdp_disabled" \in FieldsIn(p)
  /\ \A i \in DOMAIN p.config.policies :
       p.config.policies[i].accept => "firewall_policies.action" \in FieldsIn(p)

\* Where the values come from.
Valued(p, V) == \A f \in DOMAIN p.config.scalars : p.config.scalars[f] \in V

Good(p, V) == IsParse(p) /\ Decided(p) /\ Evident(p) /\ Valued(p, V)

\* A sequence with one more entry has that entry, and its others as they were.
LEMMA Appended ==
  ASSUME NEW T, NEW s \in Seq(T), NEW x \in T
  PROVE  /\ DOMAIN s = 1 .. Len(s) /\ Len(s) \in Nat
         /\ DOMAIN Append(s, x) = 1 .. Len(s) + 1
         /\ Append(s, x)[Len(s) + 1] = x
         /\ \A i \in 1 .. Len(s) : Append(s, x)[i] = s[i]
  OBVIOUS

\* The findings after one more.
LEMMA FindsFindings ==
  ASSUME NEW p, NEW q, NEW r \in ReadingType, NEW n \in Nat, NEW source \in Sources,
         IsParse(p), Finds(p, q, r, n, source)
  PROVE  LET k == Len(p.findings) IN
         /\ k \in Nat /\ DOMAIN p.findings = 1 .. k /\ DOMAIN q.findings = 1 .. k + 1
         /\ \A i \in 1 .. k : q.findings[i] = p.findings[i]
         /\ q.findings[k + 1] = [reading |-> r, line |-> n, source |-> source]
  <1> DEFINE x == [reading |-> r, line |-> n, source |-> source]
  <1>1. x \in FindingType
    BY DEF FindingType
  <1> HIDE DEF x
  <1>2. p.findings \in Seq(FindingType)
    BY DEF IsParse
  <1>3. q.findings = Append(p.findings, x)
    BY DEF Finds, x
  <1>4. /\ DOMAIN p.findings = 1 .. Len(p.findings) /\ Len(p.findings) \in Nat
        /\ DOMAIN Append(p.findings, x) = 1 .. Len(p.findings) + 1
        /\ Append(p.findings, x)[Len(p.findings) + 1] = x
        /\ \A i \in 1 .. Len(p.findings) : Append(p.findings, x)[i] = p.findings[i]
    BY <1>1, <1>2, Appended
  <1> QED BY <1>3, <1>4 DEF x

\* One more finding cites one more line and one more field.
LEMMA FindsCites ==
  ASSUME NEW p, NEW q, NEW r \in ReadingType, NEW n \in Nat, NEW source \in Sources,
         IsParse(p), Finds(p, q, r, n, source)
  PROVE  /\ Cites(q) = Cites(p) \cup {n}
         /\ Explains(q) = IF source = "learned_mapping" THEN Explains(p) \cup {n}
                          ELSE Explains(p)
         /\ FieldsIn(q) = FieldsIn(p) \cup {r.field}
  <1> DEFINE k == Len(p.findings)
  <1>1. /\ k \in Nat /\ DOMAIN p.findings = 1 .. k /\ DOMAIN q.findings = 1 .. k + 1
        /\ \A i \in 1 .. k : q.findings[i] = p.findings[i]
        /\ q.findings[k + 1] = [reading |-> r, line |-> n, source |-> source]
    BY FindsFindings
  <1> HIDE DEF k
  <1>2. Cites(q) = Cites(p) \cup {n}
    BY <1>1 DEF Cites
  <1>3. FieldsIn(q) = FieldsIn(p) \cup {r.field}
    BY <1>1 DEF FieldsIn
  <1>4. Explains(q) = IF source = "learned_mapping" THEN Explains(p) \cup {n}
                      ELSE Explains(p)
    BY <1>1 DEF Explains
  <1> QED BY <1>2, <1>3, <1>4

\* A finding keeps what holds of every parse.
LEMMA FindsGood ==
  ASSUME NEW p, NEW q, NEW r \in ReadingType, NEW n \in Nat, NEW source \in Sources,
         NEW V, Good(p, V), Finds(p, q, r, n, source), r.field \in ScalarFields => r.value \in V
  PROVE  Good(q, V)
  <1> DEFINE k == Len(p.findings)
             S == p.config.scalars
             R == q.config.scalars
  <1>0. IsParse(p)
    BY DEF Good
  <1>1. /\ k \in Nat /\ DOMAIN p.findings = 1 .. k /\ DOMAIN q.findings = 1 .. k + 1
        /\ \A i \in 1 .. k : q.findings[i] = p.findings[i]
        /\ q.findings[k + 1] = [reading |-> r, line |-> n, source |-> source]
    BY <1>0, FindsFindings
  <1>2. FieldsIn(q) = FieldsIn(p) \cup {r.field}
    BY <1>0, FindsCites
  <1>3. /\ r.field \in ScalarFields => /\ DOMAIN R = DOMAIN S \cup {r.field}
                                       /\ R[r.field] = r.value
                                       /\ \A f \in DOMAIN S : f # r.field => R[f] = S[f]
        /\ r.field \notin ScalarFields => R = S
    BY DEF Finds, With
  <1>4. DOMAIN S \subseteq ScalarFields
    BY <1>0 DEF IsParse, IsConfig
  <1> HIDE DEF k, S, R
  <1>5. Decided(q)
    <2> SUFFICES ASSUME NEW i \in DOMAIN q.findings, NEW f, f = q.findings[i].reading.field,
                        f \in ScalarFields,
                        \A j \in DOMAIN q.findings : q.findings[j].reading.field = f => j <= i
                 PROVE  f \in DOMAIN R /\ R[f] = q.findings[i].reading.value
      BY DEF Decided, R
    <2>1. CASE i = k + 1
      BY <1>1, <1>3, <2>1
    <2>2. CASE i \in 1 .. k
      <3>1. f # r.field
        BY <1>1, <2>2
      <3>2. i \in DOMAIN p.findings /\ q.findings[i] = p.findings[i]
        BY <1>1, <2>2
      <3>3. \A j \in DOMAIN p.findings : p.findings[j].reading.field = f => j <= i
        BY <1>1
      <3>4. f \in DOMAIN S /\ S[f] = p.findings[i].reading.value
        BY <3>2, <3>3 DEF Good, Decided, S
      <3> QED BY <1>3, <3>1, <3>2, <3>4
    <2> QED BY <1>1, <2>1, <2>2
  <1>6. Evident(q)
    <2>1. DOMAIN q.config.scalars \subseteq FieldsIn(q)
      BY <1>2, <1>3 DEF Good, Evident, R, S
    <2>2. \A f \in ListFields : q.config.lists[f] = {} \/ f \in FieldsIn(q)
      BY <1>2 DEF Good, Evident, Finds
    <2>3. \A i \in DOMAIN q.config.interfaces :
            q.config.interfaces[i] = Unset \/ "interfaces.cdp_disabled" \in FieldsIn(q)
      BY <1>2 DEF Good, Evident, Finds
    <2>4. \A i \in DOMAIN q.config.policies :
            q.config.policies[i].accept => "firewall_policies.action" \in FieldsIn(q)
      BY <1>2 DEF Good, Evident, Finds
    <2> QED BY <2>1, <2>2, <2>3, <2>4 DEF Evident
  <1>7. Valued(q, V)
    BY <1>3 DEF Good, Valued, S, R
  <1> QED BY <1>5, <1>6, <1>7 DEF Good, Finds

\* So does an operation that finds nothing.
LEMMA QuietGood ==
  ASSUME NEW p, NEW q, NEW V, Good(p, V), Quiet(p, q)
  PROVE  Good(q, V) /\ Cites(q) = Cites(p) /\ Explains(q) = Explains(p)
         /\ FieldsIn(q) = FieldsIn(p)
  <1>1. Cites(q) = Cites(p) /\ Explains(q) = Explains(p) /\ FieldsIn(q) = FieldsIn(p)
    BY DEF Quiet, Cites, Explains, FieldsIn
  <1>2. Decided(q) /\ Valued(q, V)
    BY DEF Good, Quiet, Decided, Valued
  <1>3. Evident(q)
    BY <1>1 DEF Good, Quiet, Evident
  <1> QED BY <1>1, <1>2, <1>3 DEF Good, Quiet

-----------------------------------------------------------------------------
(* What a line can do, whatever the configuration so far and whatever      *)
(* mappings are approved.                                                  *)

\* A reading of a parser: the settings it assigns are numbers.
ParserReading(r) == r \in ReadingType /\ (r.field \in ScalarFields => r.value \in Nat)

Mappings(m) == \A k \in DOMAIN m : m[k] \in ReadingType

LineOf(v) == IF v = "juniper" THEN PathLine ELSE TextLine
Key(v, l) == IF v = "juniper" THEN l.path ELSE l.text

\* A mapping that the parser can use.
Usable(v, m, k) ==
  k \in DOMAIN m /\ (v \in {"cisco", "juniper"} \/ m[k].field \in SchemaFields)

\* The lines that say nothing.
Blank(v, l) ==
  CASE v = "cisco" -> l.text \in {"", "!", "line console", "line vty"}
    [] v = "fortinet" -> l.text \in {"", "#", "config", "edit", "next", "end"}
    [] v = "juniper" -> l.form \in {"blank", "open", "close"}
    [] OTHER -> l.text = ""

\* A line that opens a banner, one that closes it, and where the open one began.
Opens(v, l) == v = "cisco" /\ l.text \in DOMAIN Banners /\ Delimiter \notin l.words
Closes(v, l) == v = "cisco" /\ l.text = Delimiter
Open(v, s) == IF v = "cisco" /\ s.banner # NoBanner THEN s.banner.start ELSE 0

\* The lines that may reach the mappings.
Askable(v, l) == v = "cisco" => l.text \notin DOMAIN Banners

At(p, s, n) == IsParse(p) /\ p.state = s /\ p.n = n

Skips(v, s, n, l, t) ==
  \A p, m : At(p, s, n) =>
    LET q == Step(v, m, p, l) IN
    q.state = t /\ Quiet(Advance(p), q) /\ q.unknown = p.unknown

\* What a rule of a parser may say: for FortiOS the weakest password decides.
Password == "service_hardening.password_encryption"

Fits(v, p, l, r) ==
  /\ ParserReading(r)
  /\ v = "fortinet" /\ r.field = Password =>
       r.value = IF Get(p.config, Password) # No /\ "ENC" \in l.words THEN Yes ELSE No

FindsOne(v, s, n, l, t, f, k) ==
  \A p, m : At(p, s, n) =>
    LET q == Step(v, m, p, l) IN
    /\ q.state = t
    /\ \E r : Fits(v, p, l, r) /\ r.field = f /\ Finds(Advance(p), q, r, k, "parser")

FindsTwo(v, s, n, l, t, f, g) ==
  \A p, m : At(p, s, n) =>
    LET q == Step(v, m, p, l) IN
    /\ q.state = t
    /\ \E b, r, e : /\ ParserReading(r) /\ r.field = f
                    /\ ParserReading(e) /\ e.field = g
                    /\ v = "fortinet" => f # Password /\ g # Password
                    /\ Finds(Advance(p), b, r, n + 1, "parser")
                    /\ Finds(b, q, e, n + 1, "parser")

Asks(v, s, n, l, t) ==
  \A p, m : At(p, s, n) /\ Mappings(m) =>
    LET q == Step(v, m, p, l) IN
    /\ q.state = t
    /\ Usable(v, m, Key(v, l)) =>
         Finds(Advance(p), q, m[Key(v, l)], n + 1, "learned_mapping")
    /\ ~Usable(v, m, Key(v, l)) =>
         Quiet(Advance(p), q) /\ q.unknown = p.unknown \cup {n + 1}

\* F: the fields found.
Plain(v, s, n, l, t, F) ==
  \/ Skips(v, s, n, l, t) /\ Blank(v, l) /\ F = {}
  \/ \E f : FindsOne(v, s, n, l, t, f, n + 1) /\ F = {f}
  \/ \E f, g : FindsTwo(v, s, n, l, t, f, g) /\ F = {f, g}
  \/ Asks(v, s, n, l, t) /\ Askable(v, l) /\ F = {}

Kinds(v, s, n, l, t, F) ==
  \/ Open(v, s) = 0 /\ Open(v, t) = 0 /\ ~Opens(v, l) /\ Plain(v, s, n, l, t, F)
  \/ Open(v, s) = 0 /\ Open(v, t) = n + 1 /\ Opens(v, l) /\ Skips(v, s, n, l, t) /\ F = {}
  \/ /\ Open(v, s) # 0 /\ Open(v, t) = Open(v, s) /\ ~Closes(v, l)
     /\ Skips(v, s, n, l, t) /\ F = {}
  \/ /\ Open(v, s) # 0 /\ Open(v, t) = 0 /\ Closes(v, l)
     /\ \E f : FindsOne(v, s, n, l, t, f, Open(v, s)) /\ F = {f}

-----------------------------------------------------------------------------
(* The Cisco parser.                                                       *)

BannerFields == {"access_control.banner_motd", "access_control.banner_login"}

CiscoState(s) ==
  /\ s = [context |-> s.context, name |-> s.name, banner |-> s.banner]
  /\ s.context \in {"none", "line_console", "line_vty", "interface"}
  /\ s.banner = NoBanner
     \/ s.banner \in [field : BannerFields, start : Nat \ {0}, filled : Nat,
                       blank : BOOLEAN]

\* What a dictionary holds is one of its rows.
LEMMA DictRows ==
  ASSUME NEW rows, NEW k \in DOMAIN Dict(rows)
  PROVE  \E r \in rows : r[1] = k /\ Dict(rows)[k] = r[2]
  <1>1. k \in {r[1] : r \in rows} /\ Dict(rows)[k] = (CHOOSE r \in rows : r[1] = k)[2]
    BY DEF Dict
  <1>2. PICK r \in rows : r[1] = k
    BY <1>1
  <1>3. \E e \in rows : e[1] = k
    BY <1>2
  <1> DEFINE c == CHOOSE e \in rows : e[1] = k
  <1>4. c \in rows /\ c[1] = k
    BY <1>3
  <1> HIDE DEF c
  <1> QED BY <1>1, <1>4 DEF c

\* The two statements that open a banner, and the settings they are for.
LEMMA BannersMap ==
  /\ DOMAIN Banners = {"banner motd", "banner login"}
  /\ \A t \in DOMAIN Banners : Banners[t] \in BannerFields
  <1> DEFINE rows == {<<"banner motd", "access_control.banner_motd">>,
                      <<"banner login", "access_control.banner_login">>}
  <1>0. ASSUME NEW r \in rows
        PROVE  r[1] \in {"banner motd", "banner login"} /\ r[2] \in BannerFields
    <2>1. CASE r = <<"banner motd", "access_control.banner_motd">>
      BY <2>1 DEF BannerFields
    <2>2. CASE r = <<"banner login", "access_control.banner_login">>
      BY <2>2 DEF BannerFields
    <2> QED BY <2>1, <2>2
  <1>1. {"banner motd", "banner login"} \subseteq {r[1] : r \in rows}
    <2>1. /\ <<"banner motd", "access_control.banner_motd">>[1] = "banner motd"
          /\ <<"banner login", "access_control.banner_login">>[1] = "banner login"
      OBVIOUS
    <2> QED BY <2>1
  <1>2. Banners = Dict(rows)
    BY DEF Banners
  <1> HIDE DEF rows
  <1>3. DOMAIN Dict(rows) = {r[1] : r \in rows}
    BY DEF Dict
  <1>4. ASSUME NEW t \in DOMAIN Banners PROVE Banners[t] \in BannerFields
    BY <1>0, <1>2, DictRows
  <1> QED BY <1>0, <1>1, <1>2, <1>3, <1>4

\* Every statement of the dictionaries sets a field.
LEMMA TogglesMap ==
  /\ \A t \in DOMAIN Toggles : Toggles[t][1] \in BooleanFields /\ Toggles[t][2] \in {0, 1}
  /\ DOMAIN Toggles \subseteq
       {"service password-encryption", "service finger", "service tcp-small-servers",
        "service udp-small-servers", "ip bootp server", "ip http server",
        "ip http secure-server", "ip source-route", "cdp run", "aaa new-model",
        "ntp authenticate", "service timestamps log"}
  <1> DEFINE
    k1 == "service password-encryption"
    k2 == "service finger"
    k3 == "service tcp-small-servers"
    k4 == "service udp-small-servers"
    k5 == "ip bootp server"
    k6 == "ip http server"
    k7 == "ip http secure-server"
    k8 == "ip source-route"
    k9 == "cdp run"
    k10 == "aaa new-model"
    k11 == "ntp authenticate"
    k12 == "service timestamps log"
    rows ==
      {<<k1, <<"service_hardening.password_encryption", Yes>> >>,
       <<k2, <<"service_hardening.finger_disabled", No>> >>,
       <<k3, <<"service_hardening.tcp_small_servers_disabled", No>> >>,
       <<k4, <<"service_hardening.udp_small_servers_disabled", No>> >>,
       <<k5, <<"service_hardening.bootp_server_disabled", No>> >>,
       <<k6, <<"service_hardening.http_server_disabled", No>> >>,
       <<k7, <<"service_hardening.http_secure_server_enabled", Yes>> >>,
       <<k8, <<"access_control.source_route_disabled", No>> >>,
       <<k9, <<"cdp.global_disabled", No>> >>,
       <<k10, <<"aaa.new_model", Yes>> >>,
       <<k11, <<"ntp.authenticate", Yes>> >>,
       <<k12, <<"logging.timestamps_enabled", Yes>> >>}
  <1>1. Toggles = Dict(rows)
    BY DEF Toggles
  <1> HIDE DEF k1, k2, k3, k4, k5, k6, k7, k8, k9, k10,
              k11, k12
  <1>2. ASSUME NEW r \in rows PROVE r[2][1] \in BooleanFields /\ r[2][2] \in {0, 1}
    BY DEF Yes, No, BooleanFields
  <1>3. ASSUME NEW r \in rows PROVE r[1] \in {k1, k2, k3, k4, k5, k6, k7, k8, k9, k10, k11, k12}
    OBVIOUS
  <1> HIDE DEF rows
  <1>4. \A t \in DOMAIN Toggles : Toggles[t][1] \in BooleanFields /\ Toggles[t][2] \in {0, 1}
    BY <1>1, <1>2, DictRows
  <1>5. DOMAIN Toggles \subseteq {k1, k2, k3, k4, k5, k6, k7, k8, k9, k10, k11, k12}
    BY <1>1, <1>3, DictRows
  <1> QED BY <1>4, <1>5 DEF k1, k2, k3, k4, k5, k6, k7, k8, k9, k10, k11, k12

\* The Cisco statements of a number set number fields.
LEMMA NumbersMap ==
  /\ \A t \in DOMAIN Numbers : Numbers[t] \in NumberFields
  /\ DOMAIN Numbers \subseteq
       {"enable secret", "ip ssh version", "ip ssh time-out",
        "ip ssh authentication-retries", "logging buffered"}
  <1> DEFINE
    k1 == "enable secret"
    k2 == "ip ssh version"
    k3 == "ip ssh time-out"
    k4 == "ip ssh authentication-retries"
    k5 == "logging buffered"
    rows ==
      {<<k1, "device_info.enable_secret_type">>,
       <<k2, "ssh.version">>,
       <<k3, "ssh.timeout_seconds">>,
       <<k4, "ssh.auth_retries">>,
       <<k5, "logging.buffered_size">>}
  <1>1. Numbers = Dict(rows)
    BY DEF Numbers
  <1> HIDE DEF k1, k2, k3, k4, k5
  <1>2. ASSUME NEW r \in rows PROVE r[2] \in NumberFields
    BY DEF NumberFields
  <1>3. ASSUME NEW r \in rows PROVE r[1] \in {k1, k2, k3, k4, k5}
    OBVIOUS
  <1> HIDE DEF rows
  <1>4. \A t \in DOMAIN Numbers : Numbers[t] \in NumberFields
    BY <1>1, <1>2, DictRows
  <1>5. DOMAIN Numbers \subseteq {k1, k2, k3, k4, k5}
    BY <1>1, <1>3, DictRows
  <1> QED BY <1>4, <1>5 DEF k1, k2, k3, k4, k5

\* The Cisco statements of a name set text fields.
LEMMA TextsMap ==
  /\ \A t \in DOMAIN Texts : Texts[t] \in TextFields
  /\ DOMAIN Texts \subseteq
       {"hostname", "ip domain-name", "version", "aaa authentication login",
        "logging trap"}
  <1> DEFINE
    k1 == "hostname"
    k2 == "ip domain-name"
    k3 == "version"
    k4 == "aaa authentication login"
    k5 == "logging trap"
    rows ==
      {<<k1, "device_info.hostname">>,
       <<k2, "device_info.domain_name">>,
       <<k3, "device_info.os_version">>,
       <<k4, "aaa.authentication_login">>,
       <<k5, "logging.trap_severity">>}
  <1>1. Texts = Dict(rows)
    BY DEF Texts
  <1> HIDE DEF k1, k2, k3, k4, k5
  <1>2. ASSUME NEW r \in rows PROVE r[2] \in TextFields
    BY DEF TextFields
  <1>3. ASSUME NEW r \in rows PROVE r[1] \in {k1, k2, k3, k4, k5}
    OBVIOUS
  <1> HIDE DEF rows
  <1>4. \A t \in DOMAIN Texts : Texts[t] \in TextFields
    BY <1>1, <1>2, DictRows
  <1>5. DOMAIN Texts \subseteq {k1, k2, k3, k4, k5}
    BY <1>1, <1>3, DictRows
  <1> QED BY <1>4, <1>5 DEF k1, k2, k3, k4, k5

\* The fields of the configuration have names.
LEMMA NamedFields ==
  /\ BooleanFields \subseteq Names /\ NumberFields \subseteq Names
  /\ TextFields \subseteq Names /\ ListFields \subseteq Names
  /\ BannerFields \subseteq TextFields
  /\ {"interfaces.name", "interfaces.description", "interfaces.ip_address",
      "interfaces.shutdown", "interfaces.cdp_disabled", "snmp.community"} \subseteq Names
  /\ {"line_console.exec_timeout_minutes", "line_vty.exec_timeout_minutes"}
       \subseteq NumberFields
  /\ {"line_console.transport_preferred", "line_vty.access_class"} \subseteq TextFields
  /\ {"snmp.v3_only", "snmp.default_communities_removed"} \subseteq BooleanFields
  <1>1. /\ BooleanFields \subseteq Names /\ NumberFields \subseteq Names
        /\ TextFields \subseteq Names /\ ListFields \subseteq Names
    BY DEF Names, SchemaFields, ScalarFields
  <1>2. {"interfaces.name", "interfaces.description", "interfaces.ip_address",
         "interfaces.shutdown", "interfaces.cdp_disabled", "snmp.community"} \subseteq Names
    BY DEF Names
  <1>3. {"line_console.exec_timeout_minutes", "line_vty.exec_timeout_minutes"}
          \subseteq NumberFields
    BY DEF NumberFields
  <1>4. /\ BannerFields \subseteq TextFields
        /\ {"line_console.transport_preferred", "line_vty.access_class"} \subseteq TextFields
    BY DEF TextFields, BannerFields
  <1>5. {"snmp.v3_only", "snmp.default_communities_removed"} \subseteq BooleanFields
    BY DEF BooleanFields
  <1> QED BY <1>1, <1>2, <1>3, <1>4, <1>5

\* A setting as a reading.
LEMMA Settings ==
  ASSUME NEW f \in Names, NEW v \in Nat
  PROVE  ParserReading(Reading(f, v)) /\ Reading(f, v).field = f
  BY DEF ParserReading, Reading, ReadingType

\* A list of names is a reading that a parser may say.
LEMMA Listings ==
  ASSUME NEW f \in ListFields, NEW items \in SUBSET Names
  PROVE  ParserReading(Listing(f, items)) /\ Listing(f, items).field = f
  <1>1. f \in Names /\ f \notin ScalarFields
    BY DEF Names, SchemaFields, ListFields, ScalarFields, BooleanFields, NumberFields,
           TextFields
  <1> QED BY <1>1 DEF ParserReading, Listing, ReadingType, Unset

\* What a line says inside a block and outside: nothing or one setting.
Says(c, r) == c = <<r>> /\ ParserReading(r)

\* Inside an interface or a line a Cisco statement says one thing or nothing.
LEMMA ContextSays ==
  ASSUME NEW s, CiscoState(s), NEW l \in TextLine
  PROVE  LET c == ContextReadings(s, l) IN
         \/ c = << >>
         \/ \E r : Says(c, r) /\ (s.context = "interface" => r.field \notin ScalarFields)
  <1> DEFINE c == ContextReadings(s, l)
  <1> SUFFICES \/ c = << >>
               \/ \E r : Says(c, r) /\ (s.context = "interface" => r.field \notin ScalarFields)
    OBVIOUS
  <1>0. l.n \in Nat /\ l.words \in SUBSET Names /\ Yes \in Nat /\ No \in Nat
    BY DEF TextLine, Yes, No, Names
  <1>1. CASE s.context \in {"line_console", "line_vty"} /\ l.text = "exec-timeout" /\ ~l.no
    <2> DEFINE f == TimeoutFields[s.context]
    <2>1. f \in Names
      BY <1>1, NamedFields DEF TimeoutFields
    <2>2. c = <<Reading(f, l.n)>>
      BY <1>1 DEF ContextReadings
    <2> HIDE DEF f, c
    <2>3. Says(c, Reading(f, l.n))
      BY <1>0, <2>1, <2>2, Settings DEF Says
    <2> QED BY <1>1, <2>3
  <1>2. CASE s.context = "line_console" /\ l.text = "transport preferred" /\ ~l.no
    <2>2. c = <<Reading("line_console.transport_preferred", Yes)>>
      BY <1>2 DEF ContextReadings
    <2> HIDE DEF c
    <2>3. Says(c, Reading("line_console.transport_preferred", Yes))
      BY <1>0, <2>2, Settings, NamedFields DEF Says
    <2> QED BY <1>2, <2>3
  <1>3. CASE s.context = "line_vty" /\ l.text = "transport input" /\ ~l.no
    <2>2. c = <<Listing("line_vty.transport_input", l.words)>>
      BY <1>3 DEF ContextReadings
    <2> HIDE DEF c
    <2>3. Says(c, Listing("line_vty.transport_input", l.words))
      BY <1>0, <2>2, Listings DEF Says, ListFields
    <2> QED BY <1>3, <2>3
  <1>4. CASE s.context = "line_vty" /\ l.text = "access-class" /\ ~l.no
    <2>2. c = <<Reading("line_vty.access_class", Yes)>>
      BY <1>4 DEF ContextReadings
    <2> HIDE DEF c
    <2>3. Says(c, Reading("line_vty.access_class", Yes))
      BY <1>0, <2>2, Settings, NamedFields DEF Says
    <2> QED BY <1>4, <2>3
  <1>5. CASE s.context = "interface"
    <2>1. \/ c = << >>
          \/ \E f \in {"interfaces.shutdown", "interfaces.description", "interfaces.ip_address",
                       "interfaces.cdp_disabled"}, v \in {Yes, No} : c = <<Reading(f, v)>>
      BY <1>5 DEF ContextReadings
    <2> HIDE DEF c
    <2>2. ASSUME NEW f \in {"interfaces.shutdown", "interfaces.description",
                            "interfaces.ip_address", "interfaces.cdp_disabled"},
                 NEW v \in {Yes, No}, c = <<Reading(f, v)>>
          PROVE  Says(c, Reading(f, v)) /\ Reading(f, v).field \notin ScalarFields
      <3>1. f \in Names /\ f \notin ScalarFields /\ v \in Nat
        BY NamedFields DEF ScalarFields, BooleanFields, NumberFields, TextFields, Yes, No
      <3> QED BY <2>2, <3>1, Settings DEF Says
    <2> QED BY <2>1, <2>2
  <1>6. CASE /\ ~(s.context \in {"line_console", "line_vty"} /\ l.text = "exec-timeout" /\ ~l.no)
             /\ ~(s.context = "line_console" /\ l.text = "transport preferred" /\ ~l.no)
             /\ ~(s.context = "line_vty" /\ l.text = "transport input" /\ ~l.no)
             /\ ~(s.context = "line_vty" /\ l.text = "access-class" /\ ~l.no)
             /\ s.context # "interface"
    BY <1>6 DEF ContextReadings
  <1> QED BY <1>1, <1>2, <1>3, <1>4, <1>5, <1>6

\* No statement is in two dictionaries.
LEMMA StatementTexts ==
  /\ \A t \in DOMAIN Toggles :
       t \notin DOMAIN Numbers /\ t \notin DOMAIN Texts /\ t # "ntp server"
       /\ t # "snmp-server v3" /\ t # "snmp-server community"
  /\ \A t \in DOMAIN Numbers :
       t \notin DOMAIN Texts /\ t # "ntp server"
       /\ t # "snmp-server v3" /\ t # "snmp-server community"
  /\ \A t \in DOMAIN Texts :
       t # "ntp server" /\ t # "snmp-server v3" /\ t # "snmp-server community"
  <1>1. \A t \in DOMAIN Toggles :
          t \notin DOMAIN Numbers /\ t \notin DOMAIN Texts /\ t # "ntp server"
          /\ t # "snmp-server v3" /\ t # "snmp-server community"
    BY TogglesMap, NumbersMap, TextsMap, ZenonT(60)
  <1>2. \A t \in DOMAIN Numbers :
          t \notin DOMAIN Texts /\ t # "ntp server"
          /\ t # "snmp-server v3" /\ t # "snmp-server community"
    BY NumbersMap, TextsMap, ZenonT(60)
  <1>3. \A t \in DOMAIN Texts :
          t # "ntp server" /\ t # "snmp-server v3" /\ t # "snmp-server community"
    BY TextsMap, ZenonT(60)
  <1> QED BY <1>1, <1>2, <1>3

\* Outside of them it says one thing or nothing.
LEMMA GlobalSays ==
  ASSUME NEW l \in TextLine
  PROVE  LET c == GlobalReadings(l) IN c = << >> \/ \E r : Says(c, r)
  <1> DEFINE c == GlobalReadings(l)
  <1> SUFFICES c = << >> \/ \E r : Says(c, r)
    OBVIOUS
  <1>0. l.n \in Nat /\ l.words \in SUBSET Names /\ Yes \in Nat /\ No \in Nat
    BY DEF TextLine, Yes, No, Names
  <1>1. CASE l.text \in DOMAIN Toggles
    <2> DEFINE t == Toggles[l.text]
               v == IF l.no THEN Flip(t[2]) ELSE t[2]
    <2>1. t[1] \in Names /\ t[2] \in {0, 1}
      BY <1>1, TogglesMap, NamedFields
    <2>2. c = <<Reading(t[1], v)>>
      BY <1>1, StatementTexts, Zenon DEF GlobalReadings
    <2> HIDE DEF t, c
    <2>3. v \in Nat
      BY <2>1 DEF Flip, Yes
    <2> HIDE DEF v
    <2>4. Says(c, Reading(t[1], v))
      BY <2>1, <2>2, <2>3, Settings DEF Says
    <2> QED BY <2>4
  <1>2. CASE l.text \notin DOMAIN Toggles /\ l.text \in DOMAIN Numbers /\ ~l.no
    <2>1. c = <<Reading(Numbers[l.text], l.n)>>
      BY <1>2, StatementTexts, Zenon DEF GlobalReadings
    <2> HIDE DEF c
    <2>2. Says(c, Reading(Numbers[l.text], l.n))
      BY <1>0, <1>2, <2>1, NumbersMap, NamedFields, Settings DEF Says
    <2> QED BY <2>2
  <1>3. CASE /\ l.text \notin DOMAIN Toggles
             /\ ~(l.text \in DOMAIN Numbers /\ ~l.no)
             /\ l.text \in DOMAIN Texts /\ ~l.no
    <2>1. c = <<Reading(Texts[l.text], Yes)>>
      BY <1>3, StatementTexts, Zenon DEF GlobalReadings
    <2> HIDE DEF c
    <2>2. Says(c, Reading(Texts[l.text], Yes))
      BY <1>0, <1>3, <2>1, TextsMap, NamedFields, Settings DEF Says
    <2> QED BY <2>2
  <1>4. CASE /\ l.text \notin DOMAIN Toggles
             /\ ~(l.text \in DOMAIN Numbers /\ ~l.no)
             /\ ~(l.text \in DOMAIN Texts /\ ~l.no)
    <2>1. \/ c = << >>
          \/ c = <<Listing("ntp.servers", l.words)>>
          \/ \E f \in {"snmp.v3_only", "snmp.default_communities_removed"}, v \in {Yes, No} :
               c = <<Reading(f, v)>>
      <3>1. CASE l.text = "ntp server" /\ ~l.no
        BY <1>4, <3>1, Zenon DEF GlobalReadings
      <3>2. CASE l.text = "snmp-server v3" /\ ~l.no
        <4>1. c = <<Reading("snmp.v3_only", Yes)>>
          BY <1>4, <3>2, Zenon DEF GlobalReadings
        <4> QED BY <4>1, Zenon
      <3>3. CASE /\ l.text = "snmp-server community"
                 /\ l.words \cap {"public", "private"} # {}
        <4>1. c = <<Reading("snmp.default_communities_removed", IF l.no THEN Yes ELSE No)>>
          BY <1>4, <3>3, Zenon DEF GlobalReadings
        <4> QED BY <4>1, Zenon
      <3>4. CASE /\ l.text = "snmp-server community"
                 /\ ~(l.words \cap {"public", "private"} # {})
        <4>1. c = <<Reading("snmp.v3_only", No)>>
          BY <1>4, <3>4, Zenon DEF GlobalReadings
        <4> QED BY <4>1, Zenon
      <3>5. CASE /\ ~(l.text = "ntp server" /\ ~l.no)
                 /\ ~(l.text = "snmp-server v3" /\ ~l.no)
                 /\ l.text # "snmp-server community"
        BY <1>4, <3>5, Zenon DEF GlobalReadings
      <3> HIDE DEF c
      <3> QED BY <3>1, <3>2, <3>3, <3>4, <3>5, Zenon
    <2> HIDE DEF c
    <2>2. CASE c = <<Listing("ntp.servers", l.words)>>
      <3>1. Says(c, Listing("ntp.servers", l.words))
        BY <1>0, <2>2, Listings DEF Says, ListFields
      <3> QED BY <3>1
    <2>3. ASSUME NEW f \in {"snmp.v3_only", "snmp.default_communities_removed"},
                 NEW v \in {Yes, No}, c = <<Reading(f, v)>>
          PROVE  Says(c, Reading(f, v))
      <3>1. f \in Names /\ v \in Nat
        BY <1>0, NamedFields
      <3> QED BY <2>3, <3>1, Settings DEF Says
    <2> QED BY <2>1, <2>2, <2>3
  <1> QED BY <1>1, <1>2, <1>3, <1>4

\* The same parse is a quiet one, and a finding stays one.
LEMMA AlikeQuiet ==
  ASSUME NEW p, NEW q, Alike(p, q)
  PROVE  Quiet(p, q) /\ q.unknown = p.unknown
  <1>1. \A i \in DOMAIN q.config.policies :
          q.config.policies[i].accept = p.config.policies[i].accept
    BY DEF Alike
  <1> QED BY <1>1 DEF Alike, Quiet

\* The parser's state changed after a finding leaves the finding.
LEMMA FindsAlike ==
  ASSUME NEW p, NEW x, NEW q, NEW r, NEW n, NEW source, Finds(p, x, r, n, source), Alike(x, q)
  PROVE  Finds(p, q, r, n, source)
  BY DEF Alike, Finds

\* A parse whose interfaces or policies are others.
LEMMA InterfacesParts ==
  ASSUME NEW p, IsParse(p), NEW g, g = [i \in DOMAIN g |-> g[i]]
  PROVE  LET q == [p EXCEPT !.config.interfaces = g] IN
         /\ IsParse(q)
         /\ q.config.scalars = p.config.scalars /\ q.config.lists = p.config.lists
         /\ q.config.interfaces = g /\ q.config.policies = p.config.policies
         /\ q.findings = p.findings /\ q.unknown = p.unknown /\ q.n = p.n
         /\ q.state = p.state
  <1> DEFINE d == [p.config EXCEPT !.interfaces = g]
             q == [p EXCEPT !.config.interfaces = g]
  <1>1. IsConfig(p.config)
    BY DEF IsParse
  <1>2. d = [scalars |-> p.config.scalars, lists |-> p.config.lists, interfaces |-> g,
             policies |-> p.config.policies]
    BY <1>1 DEF IsConfig
  <1>3. q = [p EXCEPT !.config = d]
    OBVIOUS
  <1> HIDE DEF d, q
  <1>4. IsConfig(d)
    BY <1>1, <1>2 DEF IsConfig
  <1>5. /\ IsParse(q) /\ q.config = d /\ q.findings = p.findings
        /\ q.unknown = p.unknown /\ q.n = p.n /\ q.state = p.state
    BY <1>3, <1>4, Configuring
  <1>6. /\ IsParse(q)
        /\ q.config.scalars = p.config.scalars /\ q.config.lists = p.config.lists
        /\ q.config.interfaces = g /\ q.config.policies = p.config.policies
        /\ q.findings = p.findings /\ q.unknown = p.unknown /\ q.n = p.n
        /\ q.state = p.state
    BY <1>2, <1>5
  <1> QED BY <1>6 DEF q

\* The block a Cisco line stands in is remembered, and nothing else changes.
LEMMA InContextParts ==
  ASSUME NEW p, IsParse(p), NEW c
  PROVE  /\ Alike(p, InContext(p, c))
         /\ InContext(p, c).state = [p.state EXCEPT !.context = c]
  <1>1. InContext(p, c) = [p EXCEPT !.state = [p.state EXCEPT !.context = c]]
    BY DEF InContext
  <1> QED BY <1>1, Remembering

\* A setting of an interface.
LEMMA SetInterfaceFinds ==
  ASSUME NEW p, IsParse(p), NEW r \in ReadingType, r.field \notin ScalarFields
  PROVE  /\ Finds(p, SetInterface(p, r), r, p.n, "parser")
         /\ SetInterface(p, r).state = p.state
  <1> DEFINE q == SetInterface(p, r)
             g == With(p.config.interfaces, p.state.name, r.value)
             x == [p EXCEPT !.config.interfaces = g]
  <1>0. p.n \in Nat
    BY DEF IsParse
  <1>1. CASE r.field = "interfaces.cdp_disabled" /\ p.state.name \notin SubInterfaces
    <2>1. q = FoundAt(x, r, p.n, "parser")
      BY <1>1 DEF SetInterface
    <2>2. g = [i \in DOMAIN g |-> g[i]]
      BY DEF With
    <2> HIDE DEF g
    <2>3. /\ IsParse(x)
          /\ x.config.scalars = p.config.scalars /\ x.config.lists = p.config.lists
          /\ x.config.interfaces = g /\ x.config.policies = p.config.policies
          /\ x.findings = p.findings /\ x.unknown = p.unknown /\ x.n = p.n
          /\ x.state = p.state
      BY <2>2, InterfacesParts
    <2> HIDE DEF x, q
    <2>4. Finds(x, q, r, p.n, "parser") /\ q.state = x.state
      BY <1>0, <2>1, <2>3, FoundAtFinds
    <2>5. Finds(p, q, r, p.n, "parser")
      BY <1>1, <2>3, <2>4 DEF Finds
    <2> QED BY <2>3, <2>4, <2>5 DEF q
  <1>2. CASE ~(r.field = "interfaces.cdp_disabled" /\ p.state.name \notin SubInterfaces)
    <2>1. q = FoundAt(p, r, p.n, "parser")
      BY <1>2 DEF SetInterface
    <2> QED BY <1>0, <2>1, FoundAtFinds
  <1> QED BY <1>1, <1>2

\* An interface begins.
LEMMA InterfaceFinds ==
  ASSUME NEW p, IsParse(p), NEW name
  PROVE  LET q == Interface(p, name) IN
         /\ Finds(p, q, Reading("interfaces.name", Yes), p.n, "parser")
         /\ q.state = [p.state EXCEPT !.context = "interface", !.name = name]
  <1> DEFINE q == Interface(p, name)
             r == Reading("interfaces.name", Yes)
             g == SetDefault(p.config.interfaces, name, Unset)
             x == [p EXCEPT !.config.interfaces = g]
             y == [x EXCEPT !.state = [p.state EXCEPT !.name = name]]
             z == FoundAt(y, r, p.n, "parser")
  <1>0. /\ p.n \in Nat
        /\ p.config.interfaces = [i \in DOMAIN p.config.interfaces |-> p.config.interfaces[i]]
    BY DEF IsParse, IsConfig
  <1>1. q = InContext(z, "interface")
    BY DEF Interface
  <1>2. g = [i \in DOMAIN g |-> g[i]]
    BY <1>0 DEF SetDefault, With
  <1>3. \A i \in DOMAIN g : \/ g[i] = Unset
                            \/ i \in DOMAIN p.config.interfaces
                               /\ g[i] = p.config.interfaces[i]
    BY DEF SetDefault, With
  <1> HIDE DEF g
  <1>4. /\ IsParse(x)
        /\ x.config.scalars = p.config.scalars /\ x.config.lists = p.config.lists
        /\ x.config.interfaces = g /\ x.config.policies = p.config.policies
        /\ x.findings = p.findings /\ x.unknown = p.unknown /\ x.n = p.n
        /\ x.state = p.state
    BY <1>2, InterfacesParts
  <1> HIDE DEF x
  <1>5. Alike(x, y) /\ y.state = [p.state EXCEPT !.name = name]
    BY <1>4, Remembering
  <1> HIDE DEF y
  <1>6. ParserReading(r) /\ r.field = "interfaces.name"
    BY NamedFields, Settings DEF Yes
  <1> HIDE DEF r
  <1>7. r \in ReadingType /\ r.field \notin ScalarFields
    BY <1>6 DEF ParserReading, ScalarFields, BooleanFields, NumberFields, TextFields
  <1>8. Finds(y, z, r, p.n, "parser") /\ z.state = y.state
    <2>1. IsParse(y)
      BY <1>5 DEF Alike
    <2> QED BY <1>0, <1>7, <2>1, FoundAtFinds
  <1> HIDE DEF z
  <1>9. Alike(z, q) /\ q.state = [z.state EXCEPT !.context = "interface"]
    <2>1. IsParse(z)
      BY <1>8 DEF Finds
    <2> QED BY <1>1, <2>1, InContextParts
  <1> HIDE DEF q
  <1>10. Finds(x, q, r, p.n, "parser")
    BY <1>5, <1>8, <1>9, FindsAlike, AlikeFinds
  <1>11. Finds(p, q, r, p.n, "parser")
    BY <1>3, <1>4, <1>6, <1>10 DEF Finds
  <1>12. q.state = [p.state EXCEPT !.context = "interface", !.name = name]
    BY <1>5, <1>8, <1>9
  <1> QED BY <1>11, <1>12 DEF q, r

\* A banner is a text of the configuration, kept under the line where it began.
LEMMA SetBannerFinds ==
  ASSUME NEW p, IsParse(p), NEW b, b.field \in BannerFields, b.start \in Nat,
         NEW filled \in Nat
  PROVE  LET q == SetBanner(p, b, filled) IN
         /\ \E r : /\ ParserReading(r) /\ r.field = b.field
                   /\ Finds(p, q, r, b.start, "parser")
         /\ q.state = [p.state EXCEPT !.banner = NoBanner]
  <1> DEFINE q == SetBanner(p, b, filled)
             r == Reading(b.field, filled)
             d == AssignReplace(p.config, r)
             y == [p EXCEPT !.state = [p.state EXCEPT !.banner = NoBanner]]
             x == [y EXCEPT !.config = d]
  <1>1. q = FoundAt(x, r, b.start, "parser")
    BY DEF SetBanner
  <1>2. ParserReading(r) /\ r.field = b.field
    BY NamedFields, Settings
  <1>3. Alike(p, y) /\ y.state = [p.state EXCEPT !.banner = NoBanner]
    BY Remembering
  <1> HIDE DEF r, y
  <1>4. IsParse(y) /\ y.config = p.config /\ IsConfig(y.config) /\ r \in ReadingType
    BY <1>2, <1>3 DEF Alike, IsParse, ParserReading
  <1>5. Assigns(y.config, d, r)
    BY <1>4, AssignReplaceAssigns
  <1> HIDE DEF d
  <1>6. Finds(y, q, r, b.start, "parser") /\ q.state = y.state
    BY <1>1, <1>4, <1>5, Stating DEF Sources
  <1> HIDE DEF q
  <1>7. Finds(p, q, r, b.start, "parser")
    BY <1>3, <1>6, AlikeFinds
  <1>8. q.state = [p.state EXCEPT !.banner = NoBanner]
    BY <1>3, <1>6
  <1> QED BY <1>2, <1>7, <1>8 DEF q

\* What a parse is when its next line is read.
LEMMA AtAdvance ==
  ASSUME NEW p, NEW s, NEW n, At(p, s, n)
  PROVE  /\ IsParse(Advance(p)) /\ Advance(p).state = s /\ Advance(p).n = n + 1
         /\ Advance(p).unknown = p.unknown /\ n \in Nat
  <1>1. n \in Nat
    BY DEF At, IsParse
  <1> QED BY <1>1, AdvanceParts DEF At

\* The states of the Cisco parser.
LEMMA CiscoContext ==
  ASSUME NEW s, CiscoState(s), NEW c \in {"none", "line_console", "line_vty", "interface"}
  PROVE  LET t == [s EXCEPT !.context = c] IN CiscoState(t) /\ t.banner = s.banner
  <1> DEFINE t == [s EXCEPT !.context = c]
  <1>0. s = [context |-> s.context, name |-> s.name, banner |-> s.banner]
    BY DEF CiscoState
  <1>1. t = [context |-> c, name |-> s.name, banner |-> s.banner]
    BY <1>0
  <1> HIDE DEF t
  <1>2. CiscoState(t) /\ t.banner = s.banner
    BY <1>1 DEF CiscoState
  <1> QED BY <1>2 DEF t

\* The Cisco parser enters an interface.
LEMMA CiscoNamed ==
  ASSUME NEW s, CiscoState(s), NEW name
  PROVE  LET t == [s EXCEPT !.context = "interface", !.name = name] IN
         CiscoState(t) /\ t.banner = s.banner
  <1> DEFINE u == [s EXCEPT !.context = "interface"]
             t == [s EXCEPT !.context = "interface", !.name = name]
  <1>0. s = [context |-> s.context, name |-> s.name, banner |-> s.banner]
    BY DEF CiscoState
  <1>1. u = [context |-> "interface", name |-> s.name, banner |-> s.banner]
    BY <1>0
  <1>2. t = [u EXCEPT !.name = name]
    OBVIOUS
  <1> HIDE DEF t, u
  <1>3. t = [context |-> "interface", name |-> name, banner |-> s.banner]
    BY <1>1, <1>2
  <1>4. CiscoState(t) /\ t.banner = s.banner
    BY <1>3 DEF CiscoState
  <1> QED BY <1>4 DEF t

\* The Cisco parser opens, goes on with or closes a banner.
LEMMA CiscoBanner ==
  ASSUME NEW s, CiscoState(s), NEW b,
         b = NoBanner
           \/ b \in [field : BannerFields, start : Nat \ {0}, filled : Nat,
                    blank : BOOLEAN]
  PROVE  LET t == [s EXCEPT !.banner = b] IN CiscoState(t) /\ t.banner = b
  <1> DEFINE t == [s EXCEPT !.banner = b]
  <1>0. s = [context |-> s.context, name |-> s.name, banner |-> s.banner]
    BY DEF CiscoState
  <1>1. t = [context |-> s.context, name |-> s.name, banner |-> b]
    BY <1>0
  <1> HIDE DEF t
  <1>2. CiscoState(t) /\ t.banner = b
    BY <1>1 DEF CiscoState
  <1> QED BY <1>2 DEF t

\* A statement says one thing, or waits for the mappings.
LEMMA StatementPlain ==
  ASSUME NEW s, CiscoState(s), NEW n \in Nat, NEW l \in TextLine,
         l.text \notin DOMAIN Banners,
         \A p, m : At(p, s, n) => Step("cisco", m, p, l) = Statement(m, Advance(p), l)
  PROVE  \E t, F : /\ CiscoState(t) /\ t.banner = s.banner
                   /\ Plain("cisco", s, n, l, t, F)
  <1> DEFINE inside == ContextReadings(s, l)
             global == GlobalReadings(l)
  <1>1. ASSUME NEW r, Says(inside, r), s.context = "interface", r.field \notin ScalarFields
        PROVE  FindsOne("cisco", s, n, l, s, r.field, n + 1)
    <2> SUFFICES ASSUME NEW p, NEW m, At(p, s, n)
                 PROVE  LET q == Step("cisco", m, p, l) IN
                        q.state = s /\ Finds(Advance(p), q, r, n + 1, "parser")
      BY <1>1 DEF FindsOne, Fits, Says
    <2> DEFINE a == Advance(p)
    <2>1. IsParse(a) /\ a.state = s /\ a.n = n + 1
      BY AtAdvance
    <2> HIDE DEF a
    <2>2. inside = <<r>> /\ r \in ReadingType
      BY <1>1 DEF Says, ParserReading
    <2> HIDE DEF inside
    <2>3. inside # << >> /\ inside[1] = r
      BY <2>2
    <2>4. Statement(m, a, l) = SetInterface(a, inside[1])
      BY <1>1, <2>1, <2>3, Zenon DEF Statement, inside
    <2>5. Step("cisco", m, p, l) = SetInterface(a, r)
      BY <2>3, <2>4 DEF a
    <2> QED BY <1>1, <2>1, <2>2, <2>5, SetInterfaceFinds DEF a
  <1>2. ASSUME NEW r, Says(inside, r), s.context # "interface"
        PROVE  FindsOne("cisco", s, n, l, s, r.field, n + 1)
    <2> SUFFICES ASSUME NEW p, NEW m, At(p, s, n)
                 PROVE  LET q == Step("cisco", m, p, l) IN
                        q.state = s /\ Finds(Advance(p), q, r, n + 1, "parser")
      BY <1>2 DEF FindsOne, Fits, Says
    <2> DEFINE a == Advance(p)
    <2>1. IsParse(a) /\ a.state = s /\ a.n = n + 1
      BY AtAdvance
    <2> HIDE DEF a
    <2>2. inside = <<r>> /\ r \in ReadingType
      BY <1>2 DEF Says, ParserReading
    <2> HIDE DEF inside
    <2>3. inside # << >> /\ inside[1] = r
      BY <2>2
    <2>4. Statement(m, a, l) = SetReplace(a, inside[1])
      BY <1>2, <2>1, <2>3, Zenon DEF Statement, inside
    <2>5. Step("cisco", m, p, l) = SetReplace(a, r)
      BY <2>3, <2>4 DEF a
    <2> QED BY <2>1, <2>2, <2>5, SetReplaceFinds DEF a
  <1> DEFINE t == [s EXCEPT !.context = "none"]
  <1>3. ASSUME NEW r, inside = << >>, Says(global, r)
        PROVE  FindsOne("cisco", s, n, l, t, r.field, n + 1)
    <2> SUFFICES ASSUME NEW p, NEW m, At(p, s, n)
                 PROVE  LET q == Step("cisco", m, p, l) IN
                        q.state = t /\ Finds(Advance(p), q, r, n + 1, "parser")
      BY <1>3 DEF FindsOne, Fits, Says
    <2> DEFINE a == Advance(p)
               b == SetReplace(a, r)
               q == Step("cisco", m, p, l)
    <2>1. IsParse(a) /\ a.state = s /\ a.n = n + 1
      BY AtAdvance
    <2> HIDE DEF a
    <2>2. global = <<r>> /\ r \in ReadingType
      BY <1>3 DEF Says, ParserReading
    <2> HIDE DEF global, inside, t
    <2>3. global # << >> /\ global[1] = r
      BY <2>2
    <2>4. Statement(m, a, l) = InContext(SetReplace(a, global[1]), "none")
      BY <1>3, <2>1, <2>3, Zenon DEF Statement, inside, global
    <2>5. q = InContext(b, "none")
      BY <2>3, <2>4 DEF a
    <2>6. Finds(a, b, r, n + 1, "parser") /\ b.state = s
      BY <2>1, <2>2, SetReplaceFinds
    <2> HIDE DEF b
    <2>7. Alike(b, q) /\ q.state = [b.state EXCEPT !.context = "none"]
      BY <2>5, <2>6, InContextParts DEF Finds
    <2> HIDE DEF q
    <2>8. Finds(a, q, r, n + 1, "parser") /\ q.state = t
      BY <2>6, <2>7, FindsAlike DEF t
    <2> QED BY <2>8 DEF a, q
  <1>4. ASSUME inside = << >>, global = << >>
        PROVE  Asks("cisco", s, n, l, s)
    <2> SUFFICES ASSUME NEW p, NEW m, At(p, s, n), Mappings(m)
                 PROVE  LET q == Step("cisco", m, p, l) IN
                        /\ q.state = s
                        /\ l.text \in DOMAIN m =>
                             Finds(Advance(p), q, m[l.text], n + 1, "learned_mapping")
                        /\ l.text \notin DOMAIN m =>
                             Quiet(Advance(p), q) /\ q.unknown = p.unknown \cup {n + 1}
      BY DEF Asks, Usable, Key
    <2> DEFINE a == Advance(p)
               q == Step("cisco", m, p, l)
    <2>1. IsParse(a) /\ a.state = s /\ a.n = n + 1 /\ a.unknown = p.unknown
      BY AtAdvance
    <2> HIDE DEF a, global, inside
    <2>2. Statement(m, a, l) = IF l.text \in DOMAIN m THEN ApplyReplace(a, m[l.text])
                               ELSE Unrecognized(a)
      BY <1>4, <2>1, Zenon DEF Statement, inside, global
    <2>3. CASE l.text \in DOMAIN m
      <3>1. q = ApplyReplace(a, m[l.text]) /\ m[l.text] \in ReadingType
        BY <2>2, <2>3 DEF a, Mappings
      <3> HIDE DEF q
      <3> QED BY <2>1, <2>3, <3>1, ApplyReplaceFinds DEF a, q
    <2>4. CASE l.text \notin DOMAIN m
      <3>1. q = Unrecognized(a)
        BY <2>2, <2>4 DEF a
      <3> HIDE DEF q
      <3>2. /\ IsParse(q) /\ q.config = a.config /\ q.findings = a.findings
            /\ q.unknown = a.unknown \cup {a.n} /\ q.n = a.n /\ q.state = a.state
        BY <2>1, <3>1, UnrecognizedParts
      <3>3. Quiet(a, q)
        BY <3>2 DEF Quiet
      <3> QED BY <2>1, <2>4, <3>2, <3>3 DEF a, q
    <2> QED BY <2>3, <2>4
  <1>5. CiscoState(t) /\ t.banner = s.banner
    BY CiscoContext
  <1>6. \/ inside = << >>
        \/ \E r : Says(inside, r) /\ (s.context = "interface" => r.field \notin ScalarFields)
    BY ContextSays
  <1>7. global = << >> \/ \E r : Says(global, r)
    BY GlobalSays
  <1> HIDE DEF inside, global, t
  <1> QED BY <1>1, <1>2, <1>3, <1>4, <1>5, <1>6, <1>7 DEF Plain, Askable

\* The branches of the parser, by the first words of the line.
LEMMA CiscoBranches ==
  ASSUME NEW p, NEW m, NEW l
  PROVE  LET a == Advance(p)
             q == Step("cisco", m, p, l)
         IN
         /\ a.state.banner # NoBanner => q = BannerLine(a, l)
         /\ a.state.banner = NoBanner =>
              /\ l.text = "" => q = a
              /\ l.text = "!" => q = InContext(a, "none")
              /\ l.text \in DOMAIN Banners => q = OpenBanner(a, l)
              /\ l.text = "interface" => q = Interface(a, CHOOSE name \in l.words : TRUE)
              /\ l.text \in {"line console", "line vty"} =>
                   q = InContext(a, IF l.text = "line vty" THEN "line_vty"
                                    ELSE "line_console")
              /\ l.text \notin DOMAIN Banners
                   \cup {"", "!", "interface", "line console", "line vty"} =>
                   q = Statement(m, a, l)
  <1> DEFINE a == Advance(p)
             q == Step("cisco", m, p, l)
             name == CHOOSE name \in l.words : TRUE
  <1>1. q = CiscoStep(m, p, l)
    BY Zenon DEF Step
  <1> HIDE DEF a, q
  <1>2. \A t \in DOMAIN Banners : t \in {"banner motd", "banner login"}
    BY BannersMap
  <1>3. ASSUME a.state.banner # NoBanner PROVE q = BannerLine(a, l)
    BY <1>1, <1>3, Zenon DEF CiscoStep, a
  <1>4. ASSUME a.state.banner = NoBanner, l.text = "" PROVE q = a
    BY <1>1, <1>2, <1>4, Zenon DEF CiscoStep, a
  <1>5. ASSUME a.state.banner = NoBanner, l.text = "!" PROVE q = InContext(a, "none")
    BY <1>1, <1>2, <1>5, Zenon DEF CiscoStep, a
  <1>6. ASSUME a.state.banner = NoBanner, l.text \in DOMAIN Banners
        PROVE  q = OpenBanner(a, l)
    BY <1>1, <1>2, <1>6, Zenon DEF CiscoStep, a
  <1>7. ASSUME a.state.banner = NoBanner, l.text = "interface"
        PROVE  q = Interface(a, name)
    BY <1>1, <1>2, <1>7, Zenon DEF CiscoStep, a
  <1>8. ASSUME a.state.banner = NoBanner, l.text \in {"line console", "line vty"}
        PROVE  q = InContext(a, IF l.text = "line vty" THEN "line_vty" ELSE "line_console")
    BY <1>1, <1>2, <1>8, Zenon DEF CiscoStep, a
  <1>9. ASSUME a.state.banner = NoBanner,
               l.text \notin DOMAIN Banners
                 \cup {"", "!", "interface", "line console", "line vty"}
        PROVE  q = Statement(m, a, l)
    BY <1>1, <1>9, Zenon DEF CiscoStep, a
  <1> QED BY <1>3, <1>4, <1>5, <1>6, <1>7, <1>8, <1>9, Zenon DEF a, q

\* Lines outside a banner.
LEMMA CiscoOutside ==
  ASSUME NEW s, CiscoState(s), s.banner = NoBanner, NEW n \in Nat, NEW l \in TextLine,
         l.text \notin DOMAIN Banners
  PROVE  \E t, F : /\ CiscoState(t) /\ t.banner = NoBanner
                   /\ Plain("cisco", s, n, l, t, F)
  <1>1. ASSUME NEW p, NEW m, At(p, s, n)
        PROVE  LET a == Advance(p) IN
               /\ IsParse(a) /\ a.state = s /\ a.n = n + 1 /\ a.unknown = p.unknown
               /\ a.state.banner = NoBanner
    BY <1>1, AtAdvance
  <1>2. CASE l.text = ""
    <2>1. ASSUME NEW p, NEW m, At(p, s, n)
          PROVE  LET q == Step("cisco", m, p, l) IN
                 q.state = s /\ Quiet(Advance(p), q) /\ q.unknown = p.unknown
      <3> DEFINE a == Advance(p)
                 q == Step("cisco", m, p, l)
      <3>1. IsParse(a) /\ a.state = s /\ a.unknown = p.unknown /\ a.state.banner = NoBanner
        BY <1>1, <2>1
      <3>2. q = a
        <4> HIDE DEF q
        <4> QED BY <1>2, <3>1, CiscoBranches, Zenon DEF q
      <3> HIDE DEF a, q
      <3>3. Alike(a, q)
        BY <3>1, <3>2 DEF Alike
      <3> QED BY <3>1, <3>2, <3>3, AlikeQuiet DEF a, q
    <2>2. Skips("cisco", s, n, l, s)
      BY <2>1 DEF Skips
    <2>3. Blank("cisco", l)
      BY <1>2, Zenon DEF Blank
    <2> QED BY <2>2, <2>3, Zenon DEF Plain
  <1>3. ASSUME NEW c \in {"none", "line_console", "line_vty"},
               \A p, m : Advance(p).state.banner = NoBanner =>
                           Step("cisco", m, p, l) = InContext(Advance(p), c),
               Blank("cisco", l)
        PROVE  \E t, F : /\ CiscoState(t) /\ t.banner = NoBanner
                         /\ Plain("cisco", s, n, l, t, F)
    <2> DEFINE t == [s EXCEPT !.context = c]
    <2>1. CiscoState(t) /\ t.banner = NoBanner
      BY CiscoContext
    <2>2. ASSUME NEW p, NEW m, At(p, s, n)
          PROVE  LET q == Step("cisco", m, p, l) IN
                 q.state = t /\ Quiet(Advance(p), q) /\ q.unknown = p.unknown
      <3> DEFINE a == Advance(p)
                 q == Step("cisco", m, p, l)
      <3>1. IsParse(a) /\ a.state = s /\ a.unknown = p.unknown /\ a.state.banner = NoBanner
        BY <1>1, <2>2
      <3>2. q = InContext(a, c)
        BY <1>3, <3>1
      <3> HIDE DEF a, q
      <3>3. Alike(a, q) /\ q.state = t
        BY <3>1, <3>2, InContextParts
      <3>4. Quiet(a, q) /\ q.unknown = a.unknown
        BY <3>3, AlikeQuiet
      <3> QED BY <3>1, <3>3, <3>4 DEF a, q
    <2> HIDE DEF t
    <2>3. Skips("cisco", s, n, l, t)
      BY <2>2 DEF Skips
    <2> QED BY <1>3, <2>1, <2>3, Zenon DEF Plain
  <1>4. CASE l.text = "!"
    <2>1. \A p, m : Advance(p).state.banner = NoBanner =>
                      Step("cisco", m, p, l) = InContext(Advance(p), "none")
      BY <1>4, CiscoBranches, Zenon
    <2>2. Blank("cisco", l)
      BY <1>4, Zenon DEF Blank
    <2> QED BY <1>3, <2>1, <2>2, Zenon
  <1>5. CASE l.text \in {"line console", "line vty"}
    <2>1. \A p, m : Advance(p).state.banner = NoBanner =>
                      Step("cisco", m, p, l)
                        = InContext(Advance(p), IF l.text = "line vty" THEN "line_vty"
                                                ELSE "line_console")
      BY <1>5, CiscoBranches, Zenon
    <2>2. Blank("cisco", l)
      BY <1>5, Zenon DEF Blank
    <2>3. (IF l.text = "line vty" THEN "line_vty" ELSE "line_console")
            \in {"none", "line_console", "line_vty"}
      BY Zenon
    <2> QED BY <1>3, <2>1, <2>2, <2>3, Zenon
  <1>6. CASE l.text = "interface"
    <2> DEFINE name == CHOOSE x \in l.words : TRUE
               t == [s EXCEPT !.context = "interface", !.name = name]
               r == Reading("interfaces.name", Yes)
    <2>0. \A p, m : Advance(p).state.banner = NoBanner =>
                      Step("cisco", m, p, l) = Interface(Advance(p), name)
      BY <1>6, CiscoBranches, Zenon
    <2> HIDE DEF name
    <2>1. CiscoState(t) /\ t.banner = NoBanner
      BY CiscoNamed
    <2>2. ParserReading(r) /\ r.field = "interfaces.name"
      BY NamedFields, Settings DEF Yes
    <2>3. ASSUME NEW p, NEW m, At(p, s, n)
          PROVE  LET q == Step("cisco", m, p, l) IN
                 q.state = t /\ Finds(Advance(p), q, r, n + 1, "parser")
      <3> DEFINE a == Advance(p)
                 q == Step("cisco", m, p, l)
      <3>1. IsParse(a) /\ a.state = s /\ a.n = n + 1 /\ a.state.banner = NoBanner
        BY <1>1, <2>3
      <3>2. q = Interface(a, name)
        BY <2>0, <3>1
      <3> HIDE DEF a, q
      <3>3. Finds(a, q, r, n + 1, "parser")
            /\ q.state = [a.state EXCEPT !.context = "interface", !.name = name]
        <4>1. /\ Finds(a, Interface(a, name), r, a.n, "parser")
              /\ Interface(a, name).state
                   = [a.state EXCEPT !.context = "interface", !.name = name]
          BY <3>1, InterfaceFinds, Zenon
        <4> HIDE DEF r
        <4> QED BY <3>1, <3>2, <4>1
      <3>4. q.state = t
        BY <3>1, <3>3
      <3> HIDE DEF t, r
      <3> QED BY <3>3, <3>4 DEF a, q
    <2> HIDE DEF t, r
    <2>4. FindsOne("cisco", s, n, l, t, "interfaces.name", n + 1)
      BY <2>2, <2>3 DEF FindsOne, Fits
    <2> QED BY <2>1, <2>4, Zenon DEF Plain
  <1>7. CASE l.text \notin {"", "!", "interface", "line console", "line vty"}
    <2>1. ASSUME NEW p, NEW m, At(p, s, n)
          PROVE  Step("cisco", m, p, l) = Statement(m, Advance(p), l)
      <3>1. Advance(p).state.banner = NoBanner
        BY <1>1, <2>1
      <3> QED BY <1>7, <3>1, CiscoBranches, Zenon
    <2> QED BY <2>1, StatementPlain
  <1> QED BY <1>2, <1>4, <1>5, <1>6, <1>7, Zenon

\* Lines that open a banner, or hold one.
LEMMA CiscoOpening ==
  ASSUME NEW s, CiscoState(s), s.banner = NoBanner, NEW n \in Nat, NEW l \in TextLine,
         l.text \in DOMAIN Banners
  PROVE  \E t, F : CiscoState(t) /\ Kinds("cisco", s, n, l, t, F)
  <1> DEFINE b == [field |-> Banners[l.text], start |-> n + 1, filled |-> l.n,
                    blank |-> FALSE]
             u == [s EXCEPT !.context = "none"]
             t == [u EXCEPT !.banner = b]
             t0 == [u EXCEPT !.banner = NoBanner]
  <1>0. /\ l.n \in Nat /\ Banners[l.text] \in BannerFields
        /\ b \in [field : BannerFields, start : Nat \ {0}, filled : Nat, blank : BOOLEAN]
    <2>1. Banners[l.text] \in BannerFields
      BY BannersMap, Zenon
    <2> QED BY <2>1 DEF TextLine
  <1>1. b.field = Banners[l.text] /\ b.start = n + 1
    OBVIOUS
  <1> HIDE DEF b
  <1>2. CiscoState(u)
    BY CiscoContext
  <1> HIDE DEF u
  <1>3. CiscoState(t) /\ t.banner = b /\ CiscoState(t0) /\ t0.banner = NoBanner
    BY <1>0, <1>2, CiscoBanner
  <1>4. b # NoBanner
    BY <1>0 DEF NoBanner
  <1>5. Open("cisco", s) = 0 /\ Open("cisco", t) = n + 1 /\ Open("cisco", t0) = 0
    BY <1>1, <1>3, <1>4 DEF Open
  <1>6. ASSUME NEW p, NEW m, At(p, s, n)
        PROVE  LET a == Advance(p)
                   e == InContext(a, "none") IN
               /\ IsParse(a) /\ a.unknown = p.unknown /\ a.n = n + 1
               /\ Alike(a, e) /\ e.state = u
               /\ Step("cisco", m, p, l) = IF Delimiter \in l.words THEN SetBanner(e, b, l.n)
                                           ELSE [e EXCEPT !.state.banner = b]
    <2> DEFINE a == Advance(p)
               e == InContext(a, "none")
               q == Step("cisco", m, p, l)
    <2>1. IsParse(a) /\ a.state = s /\ a.n = n + 1 /\ a.unknown = p.unknown
      BY <1>6, AtAdvance
    <2>2. q = OpenBanner(a, l)
      <3>1. a.state.banner = NoBanner
        BY <2>1
      <3> HIDE DEF q
      <3> QED BY <3>1, CiscoBranches, Zenon DEF q
    <2> HIDE DEF a, q
    <2>3. Alike(a, e) /\ e.state = u
      BY <2>1, InContextParts DEF u
    <2>4. q = IF Delimiter \in l.words THEN SetBanner(e, b, l.n)
              ELSE [e EXCEPT !.state.banner = b]
      BY <2>1, <2>2 DEF OpenBanner, b
    <2> QED BY <2>1, <2>3, <2>4 DEF a, q
  <1>7. CASE Delimiter \in l.words
    <2>1. ASSUME NEW p, NEW m, At(p, s, n)
          PROVE  LET q == Step("cisco", m, p, l) IN
                 /\ q.state = t0
                 /\ \E r : /\ ParserReading(r) /\ r.field = Banners[l.text]
                           /\ Finds(Advance(p), q, r, n + 1, "parser")
      <3> DEFINE a == Advance(p)
                 e == InContext(a, "none")
                 q == Step("cisco", m, p, l)
      <3>1. /\ IsParse(a) /\ a.unknown = p.unknown /\ a.n = n + 1
            /\ Alike(a, e) /\ e.state = u /\ q = SetBanner(e, b, l.n)
        BY <1>6, <1>7, <2>1
      <3> HIDE DEF a, e, q
      <3>2. IsParse(e)
        BY <3>1 DEF Alike
      <3>3. /\ \E r : /\ ParserReading(r) /\ r.field = b.field
                      /\ Finds(e, q, r, b.start, "parser")
            /\ q.state = [e.state EXCEPT !.banner = NoBanner]
        <4>1. b.field \in BannerFields /\ b.start \in Nat
          BY <1>0, <1>1
        <4> QED BY <1>0, <3>1, <3>2, <4>1, SetBannerFinds
      <3>4. PICK r : /\ ParserReading(r) /\ r.field = b.field
                     /\ Finds(e, q, r, b.start, "parser")
        BY <3>3
      <3>5. Finds(a, q, r, n + 1, "parser")
        BY <1>1, <3>1, <3>4, AlikeFinds
      <3>6. q.state = t0
        BY <3>1, <3>3
      <3> HIDE DEF t0
      <3> QED BY <1>1, <3>4, <3>5, <3>6 DEF a, q
    <2> HIDE DEF t0
    <2>2. FindsOne("cisco", s, n, l, t0, Banners[l.text], n + 1)
      BY <2>1 DEF FindsOne, Fits
    <2>3. ~Opens("cisco", l)
      BY <1>7, Zenon DEF Opens
    <2>4. Plain("cisco", s, n, l, t0, {Banners[l.text]})
      BY <2>2, Zenon DEF Plain
    <2> QED BY <1>3, <1>5, <2>3, <2>4, Zenon DEF Kinds
  <1>8. CASE Delimiter \notin l.words
    <2>1. ASSUME NEW p, NEW m, At(p, s, n)
          PROVE  LET q == Step("cisco", m, p, l) IN
                 q.state = t /\ Quiet(Advance(p), q) /\ q.unknown = p.unknown
      <3> DEFINE a == Advance(p)
                 e == InContext(a, "none")
                 q == Step("cisco", m, p, l)
      <3>1. /\ IsParse(a) /\ a.unknown = p.unknown
            /\ Alike(a, e) /\ e.state = u /\ q = [e EXCEPT !.state.banner = b]
        BY <1>6, <1>8, <2>1
      <3> HIDE DEF a, e, q
      <3>2. IsParse(e)
        BY <3>1 DEF Alike
      <3>3. q = [e EXCEPT !.state = [e.state EXCEPT !.banner = b]]
        BY <3>1
      <3>4. Alike(e, q) /\ q.state = t
        BY <3>1, <3>2, <3>3, Remembering
      <3> HIDE DEF t
      <3>5. Alike(a, q)
        BY <3>1, <3>4 DEF Alike
      <3>6. Quiet(a, q) /\ q.unknown = a.unknown
        BY <3>5, AlikeQuiet
      <3> QED BY <3>1, <3>4, <3>6 DEF a, q
    <2> HIDE DEF t
    <2>2. Skips("cisco", s, n, l, t)
      BY <2>1 DEF Skips
    <2>3. Opens("cisco", l)
      BY <1>8, Zenon DEF Opens
    <2> QED BY <1>3, <1>5, <2>2, <2>3, Zenon DEF Kinds
  <1> QED BY <1>7, <1>8

\* Lines of a banner, and the one that ends it.
LEMMA CiscoInside ==
  ASSUME NEW s, CiscoState(s), s.banner # NoBanner, NEW n \in Nat, NEW l \in TextLine
  PROVE  \E t, F : CiscoState(t) /\ Kinds("cisco", s, n, l, t, F)
  <1> DEFINE b == s.banner
  <1>0. /\ b \in [field : BannerFields, start : Nat \ {0}, filled : Nat, blank : BOOLEAN]
        /\ b.field \in BannerFields /\ b.start \in Nat \ {0} /\ b.filled \in Nat
        /\ l.n \in Nat
    BY DEF CiscoState, TextLine
  <1>1. ASSUME NEW p, NEW m, At(p, s, n)
        PROVE  LET a == Advance(p) IN
               /\ IsParse(a) /\ a.unknown = p.unknown /\ a.state = s
               /\ Step("cisco", m, p, l) = BannerLine(a, l)
    <2> DEFINE a == Advance(p)
               q == Step("cisco", m, p, l)
    <2>1. IsParse(a) /\ a.state = s /\ a.n = n + 1 /\ a.unknown = p.unknown
      BY <1>1, AtAdvance
    <2>2. q = BannerLine(a, l)
      <3>1. a.state.banner # NoBanner
        BY <2>1
      <3> HIDE DEF q
      <3> QED BY <3>1, CiscoBranches, Zenon DEF q
    <2> QED BY <2>1, <2>2
  <1>2. CASE l.text = Delimiter
    <2> DEFINE t == [s EXCEPT !.banner = NoBanner]
               filled == IF l.n = Yes THEN Yes ELSE b.filled
    <2>1. filled \in Nat
      BY <1>0 DEF Yes
    <2>2. ASSUME NEW p, NEW m, At(p, s, n)
          PROVE  LET q == Step("cisco", m, p, l) IN
                 /\ q.state = t
                 /\ \E r : /\ ParserReading(r) /\ r.field = b.field
                           /\ Finds(Advance(p), q, r, b.start, "parser")
      <3> DEFINE a == Advance(p)
                 q == Step("cisco", m, p, l)
      <3>1. /\ IsParse(a) /\ a.unknown = p.unknown /\ a.state = s
            /\ q = BannerLine(a, l)
        BY <1>1, <2>2
      <3> HIDE DEF a, q
      <3>2. q = SetBanner(a, b, filled)
        BY <1>2, <3>1 DEF BannerLine
      <3> HIDE DEF filled
      <3> QED BY <1>0, <2>1, <3>1, <3>2, SetBannerFinds DEF a, q
    <2>3. CiscoState(t) /\ t.banner = NoBanner
      BY CiscoBanner
    <2> HIDE DEF t
    <2>4. FindsOne("cisco", s, n, l, t, b.field, b.start)
      BY <2>2 DEF FindsOne, Fits
    <2>5. Open("cisco", s) = b.start /\ b.start # 0 /\ Open("cisco", t) = 0
      BY <1>0, <2>3 DEF Open
    <2>6. Closes("cisco", l)
      BY <1>2 DEF Closes
    <2>7. Kinds("cisco", s, n, l, t, {b.field})
      BY <2>4, <2>5, <2>6, Zenon DEF Kinds
    <2> QED BY <2>3, <2>7
  <1>3. CASE l.text # Delimiter
    <2> DEFINE y == IF l.text = "" /\ ~b.blank THEN b.filled ELSE Yes
               c == [b EXCEPT !.filled = y, !.blank = TRUE]
               t == [s EXCEPT !.banner = c]
    <2>1. /\ c \in [field : BannerFields, start : Nat \ {0}, filled : Nat, blank : BOOLEAN]
          /\ c.start = b.start
      <3>1. y = b.filled \/ y = Yes
        BY Zenon
      <3>2. y \in Nat
        BY <1>0, <3>1 DEF Yes
      <3> HIDE DEF y
      <3> QED BY <1>0, <3>2
    <2> HIDE DEF c
    <2>2. CiscoState(t) /\ t.banner = c
      BY <2>1, CiscoBanner
    <2>3. ASSUME NEW p, NEW m, At(p, s, n)
          PROVE  LET q == Step("cisco", m, p, l) IN
                 q.state = t /\ Quiet(Advance(p), q) /\ q.unknown = p.unknown
      <3> DEFINE a == Advance(p)
                 q == Step("cisco", m, p, l)
      <3>1. /\ IsParse(a) /\ a.unknown = p.unknown /\ a.state = s
            /\ q = BannerLine(a, l)
        BY <1>1, <2>3
      <3> HIDE DEF a, q
      <3>2. q = [a EXCEPT !.state.banner.filled = y, !.state.banner.blank = TRUE]
        <4> DEFINE z == IF l.text = "" /\ ~a.state.banner.blank
                        THEN a.state.banner.filled ELSE Yes
        <4>1. q = [a EXCEPT !.state.banner.filled = z, !.state.banner.blank = TRUE]
          BY <1>3, <3>1, Zenon DEF BannerLine
        <4>2. z = y
          BY <3>1, Zenon
        <4> QED BY <4>1, <4>2, Zenon
      <3> HIDE DEF y
      <3>3. q = [a EXCEPT !.state = t]
        <4> DEFINE d == [a EXCEPT !.state.banner.filled = y]
                   e == [b EXCEPT !.filled = y]
                   u == [s EXCEPT !.banner = e]
        <4>1. q = [d EXCEPT !.state.banner.blank = TRUE]
          BY <3>2
        <4>2. d = [a EXCEPT !.state = u]
          BY <3>1
        <4>3. c = [e EXCEPT !.blank = TRUE] /\ t = [u EXCEPT !.banner = c]
          BY <1>0 DEF c, CiscoState
        <4> HIDE DEF d, e, c, t
        <4>4. d.state = u /\ u.banner = e
          BY <3>1, <4>2 DEF IsParse, CiscoState
        <4> HIDE DEF u
        <4>5. q = [d EXCEPT !.state = [u EXCEPT !.banner = c]]
          BY <4>1, <4>3, <4>4
        <4> QED BY <3>1, <4>2, <4>3, <4>5
      <3> HIDE DEF t
      <3>4. Alike(a, q) /\ q.state = t
        BY <3>1, <3>3, Remembering
      <3>5. Quiet(a, q) /\ q.unknown = a.unknown
        BY <3>4, AlikeQuiet
      <3> QED BY <3>1, <3>4, <3>5 DEF a, q
    <2> HIDE DEF t
    <2>4. Skips("cisco", s, n, l, t)
      BY <2>3 DEF Skips
    <2>5. c # NoBanner
      BY <2>1 DEF NoBanner
    <2>6. Open("cisco", s) = b.start /\ b.start # 0 /\ Open("cisco", t) = b.start
      BY <1>0, <2>1, <2>2, <2>5 DEF Open
    <2>7. ~Closes("cisco", l)
      BY <1>3 DEF Closes
    <2>8. Kinds("cisco", s, n, l, t, {})
      BY <2>4, <2>6, <2>7, Zenon DEF Kinds
    <2> QED BY <2>2, <2>8
  <1> QED BY <1>2, <1>3

\* Every line of a Cisco configuration is of one of the kinds.
LEMMA CiscoKinds ==
  ASSUME NEW s, CiscoState(s), NEW n \in Nat, NEW l \in TextLine
  PROVE  \E t, F : CiscoState(t) /\ Kinds("cisco", s, n, l, t, F)
  <1>1. CASE s.banner = NoBanner /\ l.text \notin DOMAIN Banners
    <2>1. PICK t, F : CiscoState(t) /\ t.banner = NoBanner /\ Plain("cisco", s, n, l, t, F)
      BY <1>1, CiscoOutside
    <2>2. Open("cisco", s) = 0 /\ Open("cisco", t) = 0 /\ ~Opens("cisco", l)
      BY <1>1, <2>1 DEF Open, Opens
    <2> QED BY <2>1, <2>2, Zenon DEF Kinds
  <1> QED BY <1>1, CiscoOpening, CiscoInside

-----------------------------------------------------------------------------
(* The FortiOS parser.                                                     *)

FortiState(s) ==
  /\ s = [stack |-> s.stack, protocols |-> s.protocols, allowaccess |-> s.allowaccess,
          v3 |-> s.v3, community |-> s.community]
  /\ s.protocols \in SUBSET Names

\* One reading or two of a section, none of them of a password.
SaysTwo(c, r, e) == c = <<r, e>> /\ ParserReading(r) /\ ParserReading(e)

RowsSay(c) ==
  \/ c = << >>
  \/ \E r : Says(c, r) /\ r.field # Password
  \/ \E r, e : SaysTwo(c, r, e) /\ r.field # Password /\ e.field # Password

Records == {"system interface", "system admin", "system snmp user",
            "system snmp community", "firewall policy"}

\* A FortiOS row of one setting says it.
LEMMA SettingRow ==
  ASSUME NEW f \in (BooleanFields \cup NumberFields \cup TextFields) \ {Password},
         NEW v \in Nat, NEW c, c = <<Reading(f, v)>>
  PROVE  RowsSay(c)
  <1>1. Says(c, Reading(f, v)) /\ Reading(f, v).field # Password
    BY NamedFields, Settings DEF Says
  <1> QED BY <1>1 DEF RowsSay

\* A FortiOS row of two settings says both.
LEMMA SettingRows ==
  ASSUME NEW f \in (BooleanFields \cup NumberFields \cup TextFields) \ {Password},
         NEW g \in (BooleanFields \cup NumberFields \cup TextFields) \ {Password},
         NEW v \in Nat, NEW w \in Nat, NEW c, c = <<Reading(f, v), Reading(g, w)>>
  PROVE  RowsSay(c)
  <1>1. /\ SaysTwo(c, Reading(f, v), Reading(g, w))
        /\ Reading(f, v).field # Password /\ Reading(g, w).field # Password
    BY NamedFields, Settings DEF SaysTwo
  <1> QED BY <1>1 DEF RowsSay

\* The settings of the sections have fields of the schema.
LEMMA SectionFields ==
  /\ {"device_info.hostname", "line_vty.exec_timeout_minutes",
      "line_console.exec_timeout_minutes", "ssh.version",
      "service_hardening.strong_crypto_enabled", "aaa.new_model",
      "aaa.authentication_login", "logging.enabled", "ntp.enabled", "device_info.model",
      "device_info.os_version"}
       \subseteq (BooleanFields \cup NumberFields \cup TextFields) \ {Password}
  /\ "ntp.servers" \in ListFields /\ "ntp.servers" # Password
  BY DEF BooleanFields, NumberFields, TextFields, ListFields, Password

\* A FortiOS setting outside of the records says one or two things or nothing.
LEMMA SectionsSay ==
  ASSUME NEW section, NEW edit, NEW l \in TextLine
  PROVE  RowsSay(SectionReadings(section, edit, l))
  <1> DEFINE c == SectionReadings(section, edit, l)
  <1>0. l.n \in Nat /\ l.words \in SUBSET Names /\ Yes \in Nat /\ Enabled(l) \in Nat
    BY DEF TextLine, Yes, No, Enabled, Names
  <1>1. CASE section = "system global" /\ l.text = "hostname"
    <2>1. c = <<Reading("device_info.hostname", Yes)>>
      BY <1>1, Zenon DEF SectionReadings, Servers, Log
    <2> HIDE DEF c
    <2> QED BY <1>0, <2>1, SectionFields, SettingRow DEF c
  <1>2. CASE /\ section = "system global" /\ l.text \in {"admintimeout", "admin-console-timeout"}
             /\ l.words = {}
    <2>1. c = <<Reading("line_vty.exec_timeout_minutes", l.n),
                Reading("line_console.exec_timeout_minutes", l.n)>>
      BY <1>2, Zenon DEF SectionReadings, Servers, Log
    <2> HIDE DEF c
    <2> QED BY <1>0, <2>1, SectionFields, SettingRows DEF c
  <1>3. CASE section = "system global" /\ l.text = "admin-ssh-v1"
    <2> DEFINE v == IF "disable" \in l.words THEN 2 ELSE 1
    <2>1. c = <<Reading("ssh.version", v)>>
      BY <1>3, Zenon DEF SectionReadings, Servers, Log
    <2>2. v \in Nat
      OBVIOUS
    <2> HIDE DEF c, v
    <2> QED BY <2>1, <2>2, SectionFields, SettingRow DEF c
  <1>4. CASE section = "system global" /\ l.text = "strong-crypto"
    <2>1. c = <<Reading("service_hardening.strong_crypto_enabled", Enabled(l))>>
      BY <1>4, Zenon DEF SectionReadings, Servers, Log
    <2> HIDE DEF c
    <2> QED BY <1>0, <2>1, SectionFields, SettingRow DEF c
  <1>5. CASE section \in Servers /\ edit # NoEdit /\ l.text \in {"server", "remote-auth"}
    <2>1. c = <<Reading("aaa.new_model", Yes), Reading("aaa.authentication_login", Yes)>>
      BY <1>5, Zenon DEF SectionReadings, Servers, Log
    <2> HIDE DEF c
    <2> QED BY <1>0, <2>1, SectionFields, SettingRows DEF c
  <1>6. CASE section \in Log /\ l.text = "status"
    <2>1. c = <<Reading("logging.enabled", Enabled(l))>>
      BY <1>6, Zenon DEF SectionReadings, Servers, Log
    <2> HIDE DEF c
    <2> QED BY <1>0, <2>1, SectionFields, SettingRow DEF c
  <1>7. CASE section = "system ntp" /\ l.text = "ntpsync"
    <2>1. c = <<Reading("ntp.enabled", Enabled(l))>>
      BY <1>7, Zenon DEF SectionReadings, Servers, Log
    <2> HIDE DEF c
    <2> QED BY <1>0, <2>1, SectionFields, SettingRow DEF c
  <1>8. CASE section = "ntpserver" /\ edit # NoEdit /\ l.text = "server"
    <2>1. c = <<Listing("ntp.servers", l.words)>>
      BY <1>8, Zenon DEF SectionReadings, Servers, Log
    <2> HIDE DEF c
    <2>2. Says(c, Listing("ntp.servers", l.words))
          /\ Listing("ntp.servers", l.words).field # Password
      BY <1>0, <2>1, SectionFields, Listings DEF Says
    <2> QED BY <2>2, Zenon DEF RowsSay, c
  <1>9. CASE /\ ~(section = "system global" /\ l.text = "hostname")
             /\ ~(/\ section = "system global"
                  /\ l.text \in {"admintimeout", "admin-console-timeout"} /\ l.words = {})
             /\ ~(section = "system global" /\ l.text = "admin-ssh-v1")
             /\ ~(section = "system global" /\ l.text = "strong-crypto")
             /\ ~(section \in Servers /\ edit # NoEdit /\ l.text \in {"server", "remote-auth"})
             /\ ~(section \in Log /\ l.text = "status")
             /\ ~(section = "system ntp" /\ l.text = "ntpsync")
             /\ ~(section = "ntpserver" /\ edit # NoEdit /\ l.text = "server")
    <2>1. c = << >>
      BY <1>9, Zenon DEF SectionReadings
    <2> QED BY <2>1, Zenon DEF RowsSay
  <1> QED BY <1>1, <1>2, <1>3, <1>4, <1>5, <1>6, <1>7, <1>8, <1>9

\* The sections whose settings accumulate have none that are read alone.
LEMMA RecordSections ==
  ASSUME NEW section \in Records, NEW edit, NEW l
  PROVE  SectionReadings(section, edit, l) = << >>
  <1>1. /\ section # "system global" /\ section \notin Servers /\ section \notin Log
        /\ section # "system ntp" /\ section # "ntpserver"
    BY Zenon DEF Records, Servers, Log
  <1> QED BY <1>1, Zenon DEF SectionReadings

\* The branches of the parser.
LEMMA FortiBranches ==
  ASSUME NEW p, NEW m, NEW l
  PROVE  LET a == Advance(p)
             q == Step("fortinet", m, p, l)
         IN
         /\ l.text \in {"", "#"} => q = a
         /\ l.text = "#config-version" =>
              q = SetAll(a, <<Reading("device_info.model", Yes),
                              Reading("device_info.os_version", Yes)>>)
         /\ l.text = "config" => q = OpenBlock(a, Word(l))
  <1> DEFINE a == Advance(p)
             q == Step("fortinet", m, p, l)
  <1>1. q = FortiOSStep(m, p, l)
    BY Zenon DEF Step
  <1> HIDE DEF a, q
  <1>2. ASSUME l.text \in {"", "#"} PROVE q = a
    BY <1>1, <1>2, Zenon DEF FortiOSStep, a
  <1>3. ASSUME l.text = "#config-version"
        PROVE  q = SetAll(a, <<Reading("device_info.model", Yes),
                               Reading("device_info.os_version", Yes)>>)
    BY <1>1, <1>3, Zenon DEF FortiOSStep, a
  <1>4. ASSUME l.text = "config" PROVE q = OpenBlock(a, Word(l))
    BY <1>1, <1>4, Zenon DEF FortiOSStep, a
  <1> QED BY <1>2, <1>3, <1>4, Zenon DEF a, q

\* The lines that work on the open block, if there is one.
LEMMA FortiEdit ==
  ASSUME NEW p, NEW m, NEW l, l.text = "edit", InBlock(Advance(p))
  PROVE  Step("fortinet", m, p, l) = EditRecord(Advance(p), Word(l))
  <1>1. Step("fortinet", m, p, l) = FortiOSStep(m, p, l)
    BY Zenon DEF Step
  <1> QED BY <1>1, Zenon DEF FortiOSStep

\* The end of a record.
LEMMA FortiNext ==
  ASSUME NEW p, NEW m, NEW l, l.text = "next", InBlock(Advance(p))
  PROVE  LET a == Advance(p) IN
         Step("fortinet", m, p, l) = [a EXCEPT !.state.stack[Len(a.state.stack)].edit = NoEdit]
  <1>1. Step("fortinet", m, p, l) = FortiOSStep(m, p, l)
    BY Zenon DEF Step
  <1> QED BY <1>1, Zenon DEF FortiOSStep

\* The end of a block.
LEMMA FortiClose ==
  ASSUME NEW p, NEW m, NEW l, l.text = "end", InBlock(Advance(p))
  PROVE  LET a == Advance(p) IN
         Step("fortinet", m, p, l) = [a EXCEPT !.state.stack = Front(@)]
  <1>1. Step("fortinet", m, p, l) = FortiOSStep(m, p, l)
    BY Zenon DEF Step
  <1> QED BY <1>1, Zenon DEF FortiOSStep

\* Any other line is a setting.
LEMMA FortiOther ==
  ASSUME NEW p, NEW m, NEW l, l.text \notin {"", "#", "#config-version", "config"},
         ~(l.text \in {"edit", "next", "end"} /\ InBlock(Advance(p)))
  PROVE  Step("fortinet", m, p, l) = Setting(m, Advance(p), l)
  <1>1. Step("fortinet", m, p, l) = FortiOSStep(m, p, l)
    BY Zenon DEF Step
  <1> QED BY <1>1, Zenon DEF FortiOSStep

\* The keys of the records are told apart.
LEMMA RecordKeys ==
  /\ "allowaccess" \notin DOMAIN InterfaceFields
  /\ \A k \in DOMAIN InterfaceFields :
       InterfaceFields[k] \in {"interfaces.description", "interfaces.ip_address",
                               "interfaces.shutdown"}
  BY DEF InterfaceFields

\* The settings of a firewall policy are no settings of the device, and only its
\* action is found as an action.
LEMMA PolicyKeys ==
  \A k \in DOMAIN PolicyFields :
    /\ PolicyFields[k] \in Names /\ PolicyFields[k] \notin ScalarFields
    /\ k # "action" <=> PolicyFields[k] # "firewall_policies.action"
  BY DEF PolicyFields, Names, ScalarFields, BooleanFields, NumberFields, TextFields

\* The rules of a setting: which one takes the line.
RecordOf(s, sec, ed, l) == ~l.no /\ sec = s /\ ed # NoEdit
ByRows(sec, ed, l) == ~l.no /\ SectionReadings(sec, ed, l) # << >>
ByInterface(sec, ed, l) ==
  RecordOf("system interface", sec, ed, l) /\ l.text \in DOMAIN InterfaceFields
ByAccess(sec, ed, l) == RecordOf("system interface", sec, ed, l) /\ l.text = "allowaccess"
ByPassword(sec, ed, l) == RecordOf("system admin", sec, ed, l) /\ l.text = "password"
BySnmpUser(sec, ed, l) ==
  RecordOf("system snmp user", sec, ed, l) /\ l.text = "security-level"
ByCommunity(sec, ed, l) == RecordOf("system snmp community", sec, ed, l) /\ l.text = "name"
ByPolicy(sec, ed, l) ==
  RecordOf("firewall policy", sec, ed, l) /\ l.text \in DOMAIN PolicyFields
ByNoRule(sec, ed, l) ==
  /\ ~ByRows(sec, ed, l) /\ ~ByInterface(sec, ed, l) /\ ~ByAccess(sec, ed, l)
  /\ ~ByPassword(sec, ed, l) /\ ~BySnmpUser(sec, ed, l) /\ ~ByCommunity(sec, ed, l)
  /\ ~ByPolicy(sec, ed, l)

\* What each rule does with a line.
LEMMA SettingBranches ==
  ASSUME NEW m, NEW a, NEW l
  PROVE  LET sec == Section(a)
             ed == Edit(a)
             q == Setting(m, a, l)
         IN
         /\ ByRows(sec, ed, l) => q = SetAll(a, SectionReadings(sec, ed, l))
         /\ ByInterface(sec, ed, l) =>
              q = FoundAt(a, Reading(InterfaceFields[l.text], Yes), a.n, "parser")
         /\ ByAccess(sec, ed, l) => q = AllowAccess(a, l)
         /\ ByPassword(sec, ed, l) => q = AdminPassword(a, l)
         /\ BySnmpUser(sec, ed, l) => q = SnmpUser(a, l)
         /\ ByCommunity(sec, ed, l) => q = SnmpCommunity(a, l)
         /\ ByPolicy(sec, ed, l) => q = PolicySetting(a, l)
         /\ ByNoRule(sec, ed, l) => q = LearnedIfAssigned(a, m, l.text)
  <1> DEFINE sec == Section(a)
             ed == Edit(a)
             rows == SectionReadings(sec, ed, l)
             q == Setting(m, a, l)
  <1>1. q = Setting(m, a, l)
    OBVIOUS
  <1>2. sec \in Records => rows = << >>
    BY RecordSections
  <1>3. "allowaccess" \notin DOMAIN InterfaceFields
    BY RecordKeys
  <1> HIDE DEF sec, ed, rows, q
  <1>4. ASSUME ~l.no, rows # << >> PROVE q = SetAll(a, rows)
    <2>1. /\ sec # "system interface" /\ sec # "system admin" /\ sec # "system snmp user"
          /\ sec # "system snmp community" /\ sec # "firewall policy"
      BY <1>2, <1>4, Zenon DEF Records
    <2> QED BY <1>1, <1>4, <2>1, Zenon DEF Setting, sec, ed, rows
  <1>5. ASSUME ~l.no, sec = "system interface", ed # NoEdit,
               l.text \in DOMAIN InterfaceFields
        PROVE  q = FoundAt(a, Reading(InterfaceFields[l.text], Yes), a.n, "parser")
    <2>1. rows = << >>
      BY <1>2, <1>5, Zenon DEF Records
    <2> QED BY <1>1, <1>3, <1>5, <2>1, Zenon DEF Setting, sec, ed, rows
  <1>6. ASSUME ~l.no, sec = "system interface", ed # NoEdit, l.text = "allowaccess"
        PROVE  q = AllowAccess(a, l)
    <2>1. rows = << >>
      BY <1>2, <1>6, Zenon DEF Records
    <2> QED BY <1>1, <1>3, <1>6, <2>1, Zenon DEF Setting, sec, ed, rows
  <1>7. ASSUME ~l.no, sec = "system admin", ed # NoEdit, l.text = "password"
        PROVE  q = AdminPassword(a, l)
    <2>1. rows = << >>
      BY <1>2, <1>7, Zenon DEF Records
    <2> QED BY <1>1, <1>7, <2>1, Zenon DEF Setting, sec, ed, rows
  <1>8. ASSUME ~l.no, sec = "system snmp user", ed # NoEdit, l.text = "security-level"
        PROVE  q = SnmpUser(a, l)
    <2>1. rows = << >>
      BY <1>2, <1>8, Zenon DEF Records
    <2> QED BY <1>1, <1>8, <2>1, Zenon DEF Setting, sec, ed, rows
  <1>9. ASSUME ~l.no, sec = "system snmp community", ed # NoEdit, l.text = "name"
        PROVE  q = SnmpCommunity(a, l)
    <2>1. rows = << >>
      BY <1>2, <1>9, Zenon DEF Records
    <2> QED BY <1>1, <1>9, <2>1, Zenon DEF Setting, sec, ed, rows
  <1>10. ASSUME ~l.no, sec = "firewall policy", ed # NoEdit, l.text \in DOMAIN PolicyFields
         PROVE  q = PolicySetting(a, l)
    <2>1. rows = << >>
      BY <1>2, <1>10, Zenon DEF Records
    <2> QED BY <1>1, <1>10, <2>1, Zenon DEF Setting, sec, ed, rows
  <1>11. ASSUME ~(~l.no /\ rows # << >>),
                ~(/\ ~l.no /\ sec = "system interface" /\ ed # NoEdit
                  /\ l.text \in DOMAIN InterfaceFields),
                ~(~l.no /\ sec = "system interface" /\ ed # NoEdit /\ l.text = "allowaccess"),
                ~(~l.no /\ sec = "system admin" /\ ed # NoEdit /\ l.text = "password"),
                ~(~l.no /\ sec = "system snmp user" /\ ed # NoEdit /\ l.text = "security-level"),
                ~(~l.no /\ sec = "system snmp community" /\ ed # NoEdit /\ l.text = "name"),
                ~(/\ ~l.no /\ sec = "firewall policy" /\ ed # NoEdit
                  /\ l.text \in DOMAIN PolicyFields)
         PROVE  q = LearnedIfAssigned(a, m, l.text)
    BY <1>1, <1>11, Zenon DEF Setting, sec, ed, rows
  <1>12. ByRows(sec, ed, l) => q = SetAll(a, rows)
    BY <1>4, Zenon DEF ByRows, rows
  <1>13. ByInterface(sec, ed, l) =>
           q = FoundAt(a, Reading(InterfaceFields[l.text], Yes), a.n, "parser")
    BY <1>5, Zenon DEF ByInterface, RecordOf
  <1>14. ByAccess(sec, ed, l) => q = AllowAccess(a, l)
    BY <1>6, Zenon DEF ByAccess, RecordOf
  <1>15. ByPassword(sec, ed, l) => q = AdminPassword(a, l)
    BY <1>7, Zenon DEF ByPassword, RecordOf
  <1>16. BySnmpUser(sec, ed, l) => q = SnmpUser(a, l)
    BY <1>8, Zenon DEF BySnmpUser, RecordOf
  <1>17. ByCommunity(sec, ed, l) => q = SnmpCommunity(a, l)
    BY <1>9, Zenon DEF ByCommunity, RecordOf
  <1>18. ByPolicy(sec, ed, l) => q = PolicySetting(a, l)
    BY <1>10, Zenon DEF ByPolicy, RecordOf
  <1>19. ByNoRule(sec, ed, l) => q = LearnedIfAssigned(a, m, l.text)
    BY <1>11, Zenon DEF ByNoRule, ByRows, ByInterface, ByAccess, ByPassword, BySnmpUser,
                        ByCommunity, ByPolicy, RecordOf, rows
  <1> QED
    BY <1>12, <1>13, <1>14, <1>15, <1>16, <1>17, <1>18, <1>19, Zenon
       DEF sec, ed, rows, q

\* What each of the accumulating settings finds.
LEMMA AllowAccessFinds ==
  ASSUME NEW p, IsParse(p), FortiState(p.state), NEW l \in TextLine
  PROVE  LET q == AllowAccess(p, l)
             t == [p.state EXCEPT !.allowaccess = TRUE,
                                  !.protocols = p.state.protocols \cup (l.words \cap Protocols)]
         IN
         /\ FortiState(t) /\ q.state = t
         /\ \E r : /\ ParserReading(r) /\ r.field = "line_vty.transport_input"
                   /\ Finds(p, q, r, p.n, "parser")
  <1> DEFINE q == AllowAccess(p, l)
             u == p.state.protocols \cup (l.words \cap Protocols)
             yes == TRUE
             t == [p.state EXCEPT !.allowaccess = yes, !.protocols = u]
             x == [p EXCEPT !.state = t]
             r == Listing("line_vty.transport_input", u)
  <1>1. q = SetUnion(x, r)
    BY DEF AllowAccess
  <1>2. u \in SUBSET Names
    BY DEF FortiState, TextLine, Names
  <1> HIDE DEF u, yes
  <1>3. FortiState(t)
    <2> DEFINE w == [p.state EXCEPT !.allowaccess = yes]
    <2>0. w = [stack |-> p.state.stack, protocols |-> p.state.protocols,
               allowaccess |-> yes, v3 |-> p.state.v3, community |-> p.state.community]
      BY DEF FortiState
    <2>1. t = [stack |-> p.state.stack, protocols |-> u, allowaccess |-> yes,
               v3 |-> p.state.v3, community |-> p.state.community]
      <3>1. t = [w EXCEPT !.protocols = u]
        OBVIOUS
      <3> HIDE DEF w, t
      <3> QED BY <2>0, <3>1
    <2> HIDE DEF t
    <2> QED BY <1>2, <2>1 DEF FortiState
  <1> HIDE DEF t
  <1>4. ParserReading(r) /\ r.field = "line_vty.transport_input"
    BY <1>2, Listings DEF ListFields
  <1> HIDE DEF r
  <1>5. Alike(p, x) /\ x.state = t
    BY Remembering
  <1> HIDE DEF x
  <1>6. Finds(x, q, r, x.n, "parser") /\ q.state = t
    BY <1>1, <1>4, <1>5, SetUnionFinds DEF Alike, ParserReading
  <1> HIDE DEF q
  <1>7. Finds(p, q, r, p.n, "parser")
    BY <1>5, <1>6, AlikeFinds DEF Alike
  <1> QED BY <1>3, <1>4, <1>6, <1>7 DEF q, t, u, yes

\* An SNMP user's setting is one finding, remembered for the end of the file.
LEMMA SnmpUserFinds ==
  ASSUME NEW p, IsParse(p), FortiState(p.state), NEW l \in TextLine
  PROVE  LET q == SnmpUser(p, l)
             t == [p.state EXCEPT !.v3 = @ \/ l.words \cap {"auth-priv", "auth-no-priv"} # {}]
         IN
         /\ FortiState(t) /\ q.state = t
         /\ \E r : /\ ParserReading(r) /\ r.field = "snmp.v3_only"
                   /\ Finds(p, q, r, p.n, "parser")
  <1> DEFINE q == SnmpUser(p, l)
             secure == l.words \cap {"auth-priv", "auth-no-priv"} # {}
             t == [p.state EXCEPT !.v3 = @ \/ secure]
             x == [p EXCEPT !.state = t]
             v == IF secure THEN Yes ELSE No
             r == Reading("snmp.v3_only", v)
  <1>1. q = SetUnion(x, r)
    BY DEF SnmpUser
  <1>2. v \in Nat
    BY DEF Yes, No
  <1> HIDE DEF v, secure
  <1>3. FortiState(t)
    <2> DEFINE e == p.state.v3 \/ secure
    <2>1. t = [stack |-> p.state.stack, protocols |-> p.state.protocols,
               allowaccess |-> p.state.allowaccess, v3 |-> e,
               community |-> p.state.community]
      BY DEF FortiState
    <2> HIDE DEF t, e
    <2> QED BY <2>1 DEF FortiState
  <1> HIDE DEF t
  <1>4. ParserReading(r) /\ r.field = "snmp.v3_only"
    BY <1>2, NamedFields, Settings
  <1> HIDE DEF r
  <1>5. Alike(p, x) /\ x.state = t
    BY Remembering
  <1> HIDE DEF x
  <1>6. Finds(x, q, r, x.n, "parser") /\ q.state = t
    BY <1>1, <1>4, <1>5, SetUnionFinds DEF Alike, ParserReading
  <1> HIDE DEF q
  <1>7. Finds(p, q, r, p.n, "parser")
    BY <1>5, <1>6, AlikeFinds DEF Alike
  <1> QED BY <1>3, <1>4, <1>6, <1>7 DEF q, t, secure

\* A community's name is one finding, remembered when it is a default one.
LEMMA SnmpCommunityFinds ==
  ASSUME NEW p, IsParse(p), FortiState(p.state), NEW l \in TextLine
  PROVE  LET q == SnmpCommunity(p, l)
             default == l.words \cap {"public", "private"} # {}
             t == IF default THEN [p.state EXCEPT !.community = TRUE] ELSE p.state
             f == IF default THEN "snmp.default_communities_removed" ELSE "snmp.community"
         IN
         /\ FortiState(t) /\ q.state = t
         /\ \E r : /\ ParserReading(r) /\ r.field = f
                   /\ Finds(p, q, r, p.n, "parser")
  <1> DEFINE q == SnmpCommunity(p, l)
             default == l.words \cap {"public", "private"} # {}
  <1>1. CASE default
    <2> DEFINE yes == TRUE
               t == [p.state EXCEPT !.community = yes]
               x == [p EXCEPT !.state = t]
               r == Reading("snmp.default_communities_removed", No)
    <2>1. q = SetUnion(x, r)
      BY <1>1 DEF SnmpCommunity
    <2> HIDE DEF yes
    <2>2. FortiState(t)
      <3>1. t = [stack |-> p.state.stack, protocols |-> p.state.protocols,
                 allowaccess |-> p.state.allowaccess, v3 |-> p.state.v3, community |-> yes]
        BY DEF FortiState
      <3> HIDE DEF t
      <3> QED BY <3>1 DEF FortiState
    <2> HIDE DEF t
    <2>3. ParserReading(r) /\ r.field = "snmp.default_communities_removed"
      BY NamedFields, Settings DEF No
    <2> HIDE DEF r
    <2>4. Alike(p, x) /\ x.state = t
      BY Remembering
    <2> HIDE DEF x
    <2>5. Finds(x, q, r, x.n, "parser") /\ q.state = t
      BY <2>1, <2>3, <2>4, SetUnionFinds DEF Alike, ParserReading
    <2> HIDE DEF q
    <2>6. Finds(p, q, r, p.n, "parser")
      BY <2>4, <2>5, AlikeFinds DEF Alike
    <2> QED BY <1>1, <2>2, <2>3, <2>5, <2>6 DEF q, t, yes
  <1>2. CASE ~default
    <2> DEFINE r == Reading("snmp.community", Yes)
    <2>0. p.n \in Nat
      BY DEF IsParse
    <2>1. q = FoundAt(p, r, p.n, "parser")
      BY <1>2 DEF SnmpCommunity
    <2>2. ParserReading(r) /\ r.field = "snmp.community"
      BY NamedFields, Settings DEF Yes
    <2> HIDE DEF r
    <2>3. r \in ReadingType /\ r.field \notin ScalarFields
      BY <2>2 DEF ParserReading, ScalarFields, BooleanFields, NumberFields, TextFields
    <2>4. Finds(p, q, r, p.n, "parser") /\ q.state = p.state
      BY <2>0, <2>1, <2>3, FoundAtFinds
    <2> HIDE DEF q
    <2> QED BY <1>2, <2>2, <2>4 DEF q
  <1> QED BY <1>1, <1>2

\* An administrator's password is one finding, and No stays No.
LEMMA AdminPasswordFinds ==
  ASSUME NEW p, IsParse(p), NEW l
  PROVE  LET q == AdminPassword(p, l) IN
         /\ q.state = p.state
         /\ \E r : /\ ParserReading(r) /\ r.field = Password
                   /\ r.value = IF Get(p.config, Password) # No /\ "ENC" \in l.words
                                THEN Yes ELSE No
                   /\ Finds(p, q, r, p.n, "parser")
  <1> DEFINE q == AdminPassword(p, l)
             v == IF Get(p.config, Password) # No /\ "ENC" \in l.words THEN Yes ELSE No
             r == Reading(Password, v)
  <1>1. q = SetUnion(p, r)
    BY DEF AdminPassword, Password
  <1>2. v \in Nat /\ Password \in BooleanFields
    BY DEF Yes, No, Password, BooleanFields
  <1> HIDE DEF v
  <1>3. ParserReading(r) /\ r.field = Password /\ r.value = v
    BY <1>2, NamedFields, Settings DEF Reading
  <1> HIDE DEF r
  <1>4. Finds(p, q, r, p.n, "parser") /\ q.state = p.state
    BY <1>1, <1>3, SetUnionFinds DEF ParserReading
  <1> QED BY <1>3, <1>4 DEF v

\* A policy keeps its shape and, but for its action, what it does.
LEMMA SetPolicyParts ==
  ASSUME NEW policy, NEW l,
         policy = [enabled |-> policy.enabled, accept |-> policy.accept,
                   logging |-> policy.logging]
  PROVE  LET e == SetPolicy(policy, l) IN
         /\ e = [enabled |-> e.enabled, accept |-> e.accept, logging |-> e.logging]
         /\ l.text # "action" => e.accept = policy.accept
  <1>1. CASE l.text = "action"
    <2> DEFINE v == "accept" \in l.words
    <2>1. SetPolicy(policy, l) = [policy EXCEPT !.accept = v]
      BY <1>1, Zenon DEF SetPolicy
    <2> HIDE DEF v
    <2>2. SetPolicy(policy, l) = [enabled |-> policy.enabled, accept |-> v,
                                  logging |-> policy.logging]
      BY <2>1
    <2> QED BY <1>1, <2>2
  <1>2. CASE l.text = "status"
    <2> DEFINE v == "disable" \notin l.words
    <2>1. SetPolicy(policy, l) = [policy EXCEPT !.enabled = v]
      BY <1>2, Zenon DEF SetPolicy
    <2> HIDE DEF v
    <2>2. SetPolicy(policy, l) = [enabled |-> v, accept |-> policy.accept,
                                  logging |-> policy.logging]
      BY <2>1
    <2> QED BY <1>2, <2>2
  <1>3. CASE l.text = "logtraffic"
    <2> DEFINE v == IF l.words \cap {"disable", "utm"} = {} THEN Yes ELSE No
    <2>1. SetPolicy(policy, l) = [policy EXCEPT !.logging = v]
      BY <1>3, Zenon DEF SetPolicy
    <2> HIDE DEF v
    <2>2. SetPolicy(policy, l) = [enabled |-> policy.enabled, accept |-> policy.accept,
                                  logging |-> v]
      BY <2>1
    <2> QED BY <1>3, <2>2
  <1>4. CASE l.text \notin {"action", "status", "logtraffic"}
    <2>1. SetPolicy(policy, l) = policy
      BY <1>4, Zenon DEF SetPolicy
    <2> QED BY <2>1
  <1> QED BY <1>1, <1>2, <1>3, <1>4

\* A parse whose policies are others.
LEMMA PoliciesParts ==
  ASSUME NEW p, IsParse(p), NEW g, g = [i \in DOMAIN g |-> g[i]],
         \A i \in DOMAIN g : g[i] = [enabled |-> g[i].enabled, accept |-> g[i].accept,
                                     logging |-> g[i].logging]
  PROVE  LET q == [p EXCEPT !.config.policies = g] IN
         /\ IsParse(q)
         /\ q.config.scalars = p.config.scalars /\ q.config.lists = p.config.lists
         /\ q.config.interfaces = p.config.interfaces /\ q.config.policies = g
         /\ q.findings = p.findings /\ q.unknown = p.unknown /\ q.n = p.n
         /\ q.state = p.state
  <1> DEFINE d == [p.config EXCEPT !.policies = g]
             q == [p EXCEPT !.config.policies = g]
  <1>1. IsConfig(p.config)
    BY DEF IsParse
  <1>2. d = [scalars |-> p.config.scalars, lists |-> p.config.lists,
             interfaces |-> p.config.interfaces, policies |-> g]
    BY <1>1 DEF IsConfig
  <1>3. q = [p EXCEPT !.config = d]
    OBVIOUS
  <1> HIDE DEF d, q
  <1>4. IsConfig(d)
    BY <1>1, <1>2 DEF IsConfig
  <1>5. /\ IsParse(q) /\ q.config = d /\ q.findings = p.findings
        /\ q.unknown = p.unknown /\ q.n = p.n /\ q.state = p.state
    BY <1>3, <1>4, Configuring
  <1>6. /\ IsParse(q)
        /\ q.config.scalars = p.config.scalars /\ q.config.lists = p.config.lists
        /\ q.config.interfaces = p.config.interfaces /\ q.config.policies = g
        /\ q.findings = p.findings /\ q.unknown = p.unknown /\ q.n = p.n
        /\ q.state = p.state
    BY <1>2, <1>5
  <1> QED BY <1>6 DEF q

\* A policy's setting is one finding, of the field it is for.
LEMMA PolicySettingFinds ==
  ASSUME NEW p, IsParse(p), NEW l, l.text \in DOMAIN PolicyFields
  PROVE  LET q == PolicySetting(p, l) IN
         /\ q.state = p.state
         /\ \E r : /\ ParserReading(r) /\ r.field = PolicyFields[l.text]
                   /\ Finds(p, q, r, p.n, "parser")
  <1> DEFINE q == PolicySetting(p, l)
             h == p.config.policies
             i == Edit(p)
             g == [h EXCEPT ![i] = SetPolicy(h[i], l)]
             x == [p EXCEPT !.config.policies = g]
             r == Reading(PolicyFields[l.text], Yes)
  <1>0. /\ p.n \in Nat /\ h = [j \in DOMAIN h |-> h[j]]
        /\ \A j \in DOMAIN h : h[j] = [enabled |-> h[j].enabled, accept |-> h[j].accept,
                                       logging |-> h[j].logging]
    BY DEF IsParse, IsConfig
  <1>1. q = FoundAt(x, r, p.n, "parser")
    BY DEF PolicySetting
  <1>2. ParserReading(r) /\ r.field = PolicyFields[l.text]
    BY PolicyKeys, Settings DEF Yes
  <1>3. r.field \notin ScalarFields
        /\ (l.text # "action" <=> r.field # "firewall_policies.action")
    BY <1>2, PolicyKeys
  <1> HIDE DEF r, h, i
  <1>4. DOMAIN g = DOMAIN h /\ g = [j \in DOMAIN g |-> g[j]]
    BY <1>0
  <1>5. ASSUME NEW j \in DOMAIN g
        PROVE  /\ g[j] = [enabled |-> g[j].enabled, accept |-> g[j].accept,
                          logging |-> g[j].logging]
               /\ l.text # "action" => g[j].accept = h[j].accept
    <2>1. CASE j = i
      <3>1. g[j] = SetPolicy(h[j], l) /\ j \in DOMAIN h
        BY <1>4, <2>1
      <3> HIDE DEF g
      <3> QED BY <1>0, <3>1, SetPolicyParts
    <2>2. CASE j # i
      <3>1. g[j] = h[j] /\ j \in DOMAIN h
        BY <1>4, <2>2
      <3> HIDE DEF g
      <3> QED BY <1>0, <3>1
    <2> QED BY <2>1, <2>2
  <1> HIDE DEF g
  <1>6. /\ IsParse(x)
        /\ x.config.scalars = p.config.scalars /\ x.config.lists = p.config.lists
        /\ x.config.interfaces = p.config.interfaces /\ x.config.policies = g
        /\ x.findings = p.findings /\ x.unknown = p.unknown /\ x.n = p.n
        /\ x.state = p.state
    BY <1>4, <1>5, PoliciesParts
  <1> HIDE DEF x
  <1>7. Finds(x, q, r, p.n, "parser") /\ q.state = x.state
    BY <1>0, <1>1, <1>2, <1>3, <1>6, FoundAtFinds DEF ParserReading
  <1> HIDE DEF q
  <1>8. Finds(p, q, r, p.n, "parser")
    BY <1>3, <1>4, <1>5, <1>6, <1>7 DEF Finds, h
  <1> QED BY <1>2, <1>6, <1>7, <1>8 DEF q

\* A line that says two things.
LEMMA SetAllFinds ==
  ASSUME NEW p, IsParse(p), NEW r, NEW e, NEW c, SaysTwo(c, r, e)
  PROVE  LET b == SetUnion(p, r)
             q == SetAll(p, c)
         IN
         /\ Finds(p, b, r, p.n, "parser") /\ Finds(b, q, e, p.n, "parser")
         /\ q.state = p.state
  <1> DEFINE b == SetUnion(p, r)
             q == SetAll(p, c)
  <1>1. q = SetUnion(b, e)
    BY DEF SetAll, SaysTwo
  <1>2. r \in ReadingType /\ e \in ReadingType
    BY DEF SaysTwo, ParserReading
  <1>3. Finds(p, b, r, p.n, "parser") /\ b.state = p.state
    BY <1>2, SetUnionFinds
  <1> HIDE DEF b, q
  <1>4. IsParse(b) /\ b.n = p.n
    BY <1>3 DEF Finds
  <1>5. Finds(b, q, e, b.n, "parser") /\ q.state = b.state
    BY <1>1, <1>2, <1>4, SetUnionFinds
  <1> QED BY <1>3, <1>4, <1>5 DEF b, q

\* A row that says one thing is one finding.
LEMMA SetOneFinds ==
  ASSUME NEW p, IsParse(p), NEW r, NEW c, Says(c, r)
  PROVE  LET q == SetAll(p, c) IN
         Finds(p, q, r, p.n, "parser") /\ q.state = p.state
  <1> DEFINE q == SetAll(p, c)
  <1>1. q = SetUnion(p, r)
    BY DEF SetAll, Says
  <1> HIDE DEF q
  <1>2. Finds(p, q, r, p.n, "parser") /\ q.state = p.state
    BY <1>1, SetUnionFinds DEF Says, ParserReading
  <1> QED BY <1>2 DEF q

\* The blocks that are open are remembered.
LEMMA FortiStack ==
  ASSUME NEW s, FortiState(s), NEW u
  PROVE  FortiState([s EXCEPT !.stack = u])
  <1> DEFINE t == [s EXCEPT !.stack = u]
  <1>1. t = [stack |-> u, protocols |-> s.protocols, allowaccess |-> s.allowaccess,
             v3 |-> s.v3, community |-> s.community]
    BY DEF FortiState
  <1> HIDE DEF t
  <1> QED BY <1>1 DEF FortiState, t

\* A record is named: it starts with nothing that a control asks for.
LEMMA EditRecordQuiet ==
  ASSUME NEW p, IsParse(p), NEW name
  PROVE  LET q == EditRecord(p, name)
             u == [p.state.stack EXCEPT ![Len(p.state.stack)].edit = name]
         IN
         /\ Quiet(p, q) /\ q.unknown = p.unknown
         /\ q.state = [p.state EXCEPT !.stack = u]
  <1> DEFINE q == EditRecord(p, name)
             u == [p.state.stack EXCEPT ![Len(p.state.stack)].edit = name]
             t == [p.state EXCEPT !.stack = u]
             x == [p EXCEPT !.state.stack[Len(p.state.stack)].edit = name]
             gi == SetDefault(p.config.interfaces, name, Unset)
             gp == SetDefault(p.config.policies, name, NewPolicy)
  <1>1. x = [p EXCEPT !.state = t]
    OBVIOUS
  <1> HIDE DEF u, t
  <1>2. Alike(p, x) /\ x.state = t /\ IsParse(x)
    <2> HIDE DEF x
    <2> QED BY <1>1, Remembering DEF Alike
  <1>3. CASE Section(p) = "system interface"
    <2>1. q = [x EXCEPT !.config.interfaces = SetDefault(@, name, Unset)]
      BY <1>3, Zenon DEF EditRecord
    <2> HIDE DEF x
    <2>2. q = [x EXCEPT !.config.interfaces = gi]
      BY <1>2, <2>1 DEF Alike
    <2>3. /\ gi = [i \in DOMAIN gi |-> gi[i]]
          /\ \A i \in DOMAIN gi : \/ gi[i] = Unset
                                  \/ i \in DOMAIN p.config.interfaces
                                     /\ gi[i] = p.config.interfaces[i]
      BY DEF SetDefault, With, IsParse, IsConfig
    <2> HIDE DEF gi, q
    <2>4. /\ IsParse(q)
          /\ q.config.scalars = x.config.scalars /\ q.config.lists = x.config.lists
          /\ q.config.interfaces = gi /\ q.config.policies = x.config.policies
          /\ q.findings = x.findings /\ q.unknown = x.unknown /\ q.n = x.n
          /\ q.state = x.state
      BY <1>2, <2>2, <2>3, InterfacesParts
    <2>5. \A i \in DOMAIN q.config.policies :
            q.config.policies[i].accept = p.config.policies[i].accept
      BY <1>2, <2>4 DEF Alike
    <2>6. Quiet(p, q)
      BY <1>2, <2>3, <2>4, <2>5 DEF Alike, Quiet
    <2> QED BY <1>2, <2>4, <2>6 DEF Alike, q, u, t
  <1>4. CASE Section(p) = "firewall policy"
    <2>1. q = [x EXCEPT !.config.policies = SetDefault(@, name, NewPolicy)]
      BY <1>4, Zenon DEF EditRecord
    <2> HIDE DEF x
    <2>2. q = [x EXCEPT !.config.policies = gp]
      BY <1>2, <2>1 DEF Alike
    <2>3. /\ gp = [i \in DOMAIN gp |-> gp[i]]
          /\ \A i \in DOMAIN gp : \/ gp[i] = NewPolicy
                                  \/ i \in DOMAIN p.config.policies
                                     /\ gp[i] = p.config.policies[i]
      BY DEF SetDefault, With, IsParse, IsConfig
    <2>4. /\ ~NewPolicy.accept
          /\ NewPolicy = [enabled |-> NewPolicy.enabled, accept |-> NewPolicy.accept,
                          logging |-> NewPolicy.logging]
      BY DEF NewPolicy
    <2>5. \A i \in DOMAIN gp :
            gp[i] = [enabled |-> gp[i].enabled, accept |-> gp[i].accept,
                     logging |-> gp[i].logging]
      BY <2>3, <2>4 DEF IsParse, IsConfig
    <2> HIDE DEF gp, q
    <2>6. /\ IsParse(q)
          /\ q.config.scalars = x.config.scalars /\ q.config.lists = x.config.lists
          /\ q.config.interfaces = x.config.interfaces /\ q.config.policies = gp
          /\ q.findings = x.findings /\ q.unknown = x.unknown /\ q.n = x.n
          /\ q.state = x.state
      BY <1>2, <2>2, <2>3, <2>5, PoliciesParts
    <2>7. \A i \in DOMAIN q.config.policies :
            \/ ~q.config.policies[i].accept
            \/ i \in DOMAIN p.config.policies
               /\ q.config.policies[i].accept = p.config.policies[i].accept
      BY <2>3, <2>4, <2>6
    <2>8. Quiet(p, q)
      BY <1>2, <2>6, <2>7 DEF Alike, Quiet
    <2> QED BY <1>2, <2>6, <2>8 DEF Alike, q, u, t
  <1>5. CASE Section(p) # "system interface" /\ Section(p) # "firewall policy"
    <2>1. q = x
      BY <1>5, Zenon DEF EditRecord
    <2> HIDE DEF x, q
    <2> QED BY <1>2, <2>1, AlikeQuiet DEF q, u, t
  <1> QED BY <1>3, <1>4, <1>5

\* A line that a parser takes to the mappings, when only some fields can be assigned.
Answers(m, k, a, q) ==
  LET usable == k \in DOMAIN m /\ m[k].field \in SchemaFields IN
  /\ q.state = a.state
  /\ usable => Finds(a, q, m[k], a.n, "learned_mapping")
  /\ ~usable => Quiet(a, q) /\ q.unknown = a.unknown \cup {a.n}

\* FortiOS uses a mapping of a field of the schema, and asks for another line.
LEMMA LearnedAnswers ==
  ASSUME NEW m, Mappings(m), NEW k, NEW a, IsParse(a)
  PROVE  Answers(m, k, a, LearnedIfAssigned(a, m, k))
  <1> DEFINE q == LearnedIfAssigned(a, m, k)
  <1>1. CASE k \in DOMAIN m /\ m[k].field \in SchemaFields
    <2>1. q = ApplyUnion(a, m[k]) /\ m[k] \in ReadingType
      BY <1>1 DEF LearnedIfAssigned, Mappings
    <2> HIDE DEF q
    <2>2. Answers(m, k, a, q)
      BY <1>1, <2>1, ApplyUnionFinds DEF Answers
    <2> QED BY <2>2 DEF q
  <1>2. CASE ~(k \in DOMAIN m /\ m[k].field \in SchemaFields)
    <2>1. q = Unrecognized(a)
      BY <1>2 DEF LearnedIfAssigned
    <2> HIDE DEF q
    <2>2. /\ IsParse(q) /\ q.config = a.config /\ q.findings = a.findings
          /\ q.unknown = a.unknown \cup {a.n} /\ q.n = a.n /\ q.state = a.state
      BY <2>1, UnrecognizedParts
    <2>3. Quiet(a, q)
      BY <2>2 DEF Quiet
    <2>4. Answers(m, k, a, q)
      BY <1>2, <2>2, <2>3 DEF Answers
    <2> QED BY <2>4 DEF q
  <1> QED BY <1>1, <1>2

\* A parser other than Cisco's and Juniper's that does so asks.
LEMMA AnswersAsk ==
  ASSUME NEW v, v \notin {"cisco", "juniper"}, NEW s, NEW n, NEW l,
         \A p, m : At(p, s, n) =>
           Step(v, m, p, l) = LearnedIfAssigned(Advance(p), m, l.text)
  PROVE  Asks(v, s, n, l, s) /\ Askable(v, l)
  <1>1. Key(v, l) = l.text
    BY DEF Key
  <1>2. ASSUME NEW p, NEW m, At(p, s, n), Mappings(m)
        PROVE  LET q == Step(v, m, p, l) IN
               /\ q.state = s
               /\ Usable(v, m, l.text) =>
                    Finds(Advance(p), q, m[l.text], n + 1, "learned_mapping")
               /\ ~Usable(v, m, l.text) =>
                    Quiet(Advance(p), q) /\ q.unknown = p.unknown \cup {n + 1}
    <2> DEFINE a == Advance(p)
               q == Step(v, m, p, l)
    <2>1. IsParse(a) /\ a.state = s /\ a.n = n + 1 /\ a.unknown = p.unknown
      BY <1>2, AtAdvance
    <2>2. q = LearnedIfAssigned(a, m, l.text)
      BY <1>2
    <2> HIDE DEF a, q
    <2>3. Answers(m, l.text, a, q)
      BY <1>2, <2>1, <2>2, LearnedAnswers
    <2>4. Usable(v, m, l.text) <=> l.text \in DOMAIN m /\ m[l.text].field \in SchemaFields
      BY DEF Usable
    <2> QED BY <2>1, <2>3, <2>4 DEF Answers, a, q
  <1> QED BY <1>1, <1>2 DEF Asks, Askable

\* A setting says one thing or two, or waits for the mappings.
LEMMA FortiSetting ==
  ASSUME NEW s, FortiState(s), NEW n \in Nat, NEW l \in TextLine,
         \A p, m : At(p, s, n) => Step("fortinet", m, p, l) = Setting(m, Advance(p), l)
  PROVE  \E t, F : FortiState(t) /\ Plain("fortinet", s, n, l, t, F)
  <1> DEFINE
    sec == IF s.stack # << >> THEN Last(s.stack).section ELSE "none"
    ed == IF s.stack # << >> THEN Last(s.stack).edit ELSE NoEdit
    rows == SectionReadings(sec, ed, l)
    c1 == ByRows(sec, ed, l)
    c2 == ByInterface(sec, ed, l)
    c3 == ByAccess(sec, ed, l)
    c4 == ByPassword(sec, ed, l)
    c5 == BySnmpUser(sec, ed, l)
    c6 == ByCommunity(sec, ed, l)
    c7 == ByPolicy(sec, ed, l)
  <1>1. ASSUME NEW p, NEW m, At(p, s, n)
        PROVE  LET a == Advance(p)
                   q == Step("fortinet", m, p, l)
               IN
               /\ IsParse(a) /\ a.state = s /\ a.n = n + 1 /\ a.unknown = p.unknown
               /\ a.config = p.config
               /\ c1 => q = SetAll(a, rows)
               /\ c2 => q = FoundAt(a, Reading(InterfaceFields[l.text], Yes), n + 1, "parser")
               /\ c3 => q = AllowAccess(a, l)
               /\ c4 => q = AdminPassword(a, l)
               /\ c5 => q = SnmpUser(a, l)
               /\ c6 => q = SnmpCommunity(a, l)
               /\ c7 => q = PolicySetting(a, l)
               /\ ~c1 /\ ~c2 /\ ~c3 /\ ~c4 /\ ~c5 /\ ~c6 /\ ~c7 =>
                    q = LearnedIfAssigned(a, m, l.text)
    <2> DEFINE a == Advance(p)
               q == Step("fortinet", m, p, l)
    <2>1. /\ IsParse(a) /\ a.state = s /\ a.n = n + 1 /\ a.unknown = p.unknown
          /\ a.config = p.config
      BY <1>1, AtAdvance, AdvanceParts DEF At
    <2>2. q = Setting(m, a, l)
      BY <1>1
    <2> HIDE DEF a, q
    <2>3. Section(a) = sec /\ Edit(a) = ed
      BY <2>1 DEF Section, Edit, InBlock
    <2> HIDE DEF sec, ed
    <2>4. /\ c1 => q = SetAll(a, rows)
          /\ c2 => q = FoundAt(a, Reading(InterfaceFields[l.text], Yes), n + 1, "parser")
          /\ c3 => q = AllowAccess(a, l)
          /\ c4 => q = AdminPassword(a, l)
          /\ c5 => q = SnmpUser(a, l)
          /\ c6 => q = SnmpCommunity(a, l)
          /\ c7 => q = PolicySetting(a, l)
          /\ ~c1 /\ ~c2 /\ ~c3 /\ ~c4 /\ ~c5 /\ ~c6 /\ ~c7 =>
               q = LearnedIfAssigned(a, m, l.text)
      <3>1. /\ c1 => q = SetAll(a, SectionReadings(sec, ed, l))
            /\ c2 => q = FoundAt(a, Reading(InterfaceFields[l.text], Yes), a.n, "parser")
            /\ c3 => q = AllowAccess(a, l)
            /\ c4 => q = AdminPassword(a, l)
            /\ c5 => q = SnmpUser(a, l)
            /\ c6 => q = SnmpCommunity(a, l)
            /\ c7 => q = PolicySetting(a, l)
            /\ ByNoRule(sec, ed, l) => q = LearnedIfAssigned(a, m, l.text)
        BY <2>1, <2>2, <2>3, SettingBranches
      <3>2. ByNoRule(sec, ed, l)
              <=> ~c1 /\ ~c2 /\ ~c3 /\ ~c4 /\ ~c5 /\ ~c6 /\ ~c7
        BY Zenon DEF ByNoRule
      <3> HIDE DEF c1, c2, c3, c4, c5, c6, c7
      <3> QED BY <2>1, <3>1, <3>2, Zenon
    <2> QED BY <2>1, <2>4, Zenon DEF a, q
  <1>2. c7 => l.text \in DOMAIN PolicyFields
    BY Zenon DEF ByPolicy
  <1>3. c2 => l.text \in DOMAIN InterfaceFields
    BY Zenon DEF ByInterface
  <1>4. RowsSay(rows)
    BY SectionsSay
  <1> HIDE DEF c1, c2, c3, c4, c5, c6, c7, sec, ed
  <1>5. ASSUME NEW r, Says(rows, r), r.field # Password, c1
        PROVE  FindsOne("fortinet", s, n, l, s, r.field, n + 1)
    <2> SUFFICES ASSUME NEW p, NEW m, At(p, s, n)
                 PROVE  LET q == Step("fortinet", m, p, l) IN
                        q.state = s /\ Finds(Advance(p), q, r, n + 1, "parser")
      BY <1>5 DEF FindsOne, Fits, Says
    <2> DEFINE a == Advance(p)
               q == Step("fortinet", m, p, l)
    <2>1. IsParse(a) /\ a.state = s /\ a.n = n + 1 /\ q = SetAll(a, rows)
      BY <1>1, <1>5
    <2> HIDE DEF a, q, rows
    <2> QED BY <1>5, <2>1, SetOneFinds DEF a, q
  <1>6. ASSUME NEW r, NEW e, SaysTwo(rows, r, e), r.field # Password, e.field # Password, c1
        PROVE  FindsTwo("fortinet", s, n, l, s, r.field, e.field)
    <2> SUFFICES ASSUME NEW p, NEW m, At(p, s, n)
                 PROVE  LET q == Step("fortinet", m, p, l) IN
                        /\ q.state = s
                        /\ \E b : /\ Finds(Advance(p), b, r, n + 1, "parser")
                                  /\ Finds(b, q, e, n + 1, "parser")
      BY <1>6 DEF FindsTwo, SaysTwo
    <2> DEFINE a == Advance(p)
               b == SetUnion(a, r)
               q == Step("fortinet", m, p, l)
    <2>1. IsParse(a) /\ a.state = s /\ a.n = n + 1 /\ q = SetAll(a, rows)
      BY <1>1, <1>6
    <2> HIDE DEF a, q, rows
    <2>2. Finds(a, b, r, n + 1, "parser") /\ Finds(b, q, e, n + 1, "parser") /\ q.state = s
      BY <1>6, <2>1, SetAllFinds
    <2> HIDE DEF b
    <2> QED BY <2>2 DEF a, q
  <1>7. CASE c1
    <2>1. rows # << >>
      BY <1>7, Zenon DEF c1, ByRows
    <2> HIDE DEF rows
    <2>2. ASSUME NEW r, Says(rows, r), r.field # Password
          PROVE  Plain("fortinet", s, n, l, s, {r.field})
      <3>1. FindsOne("fortinet", s, n, l, s, r.field, n + 1)
        BY <1>5, <1>7, <2>2
      <3> QED BY <3>1, Zenon DEF Plain
    <2>3. ASSUME NEW r, NEW e, SaysTwo(rows, r, e), r.field # Password, e.field # Password
          PROVE  Plain("fortinet", s, n, l, s, {r.field, e.field})
      <3>1. FindsTwo("fortinet", s, n, l, s, r.field, e.field)
        BY <1>6, <1>7, <2>3
      <3> QED BY <3>1, Zenon DEF Plain
    <2> QED BY <1>4, <2>1, <2>2, <2>3, Zenon DEF RowsSay
  <1>8. CASE c2
    <2> DEFINE r == Reading(InterfaceFields[l.text], Yes)
               f == InterfaceFields[l.text]
    <2>0. f \in {"interfaces.description", "interfaces.ip_address", "interfaces.shutdown"}
      BY <1>3, <1>8, RecordKeys
    <2> HIDE DEF f
    <2>1. f \in Names /\ f \notin ScalarFields /\ f # Password
      BY <2>0, NamedFields
         DEF ScalarFields, BooleanFields, NumberFields, TextFields, Password
    <2>2. ParserReading(r) /\ r.field = f
      BY <2>1, Settings DEF Yes, f
    <2>3. \A p, m : At(p, s, n) =>
            /\ IsParse(Advance(p)) /\ Advance(p).state = s
            /\ Step("fortinet", m, p, l) = FoundAt(Advance(p), r, n + 1, "parser")
      BY <1>1, <1>8
    <2> HIDE DEF r
    <2>4. FindsOne("fortinet", s, n, l, s, f, n + 1)
      <3> SUFFICES ASSUME NEW p, NEW m, At(p, s, n)
                   PROVE  LET q == Step("fortinet", m, p, l) IN
                          q.state = s /\ Finds(Advance(p), q, r, n + 1, "parser")
        BY <2>1, <2>2 DEF FindsOne, Fits
      <3> QED BY <2>1, <2>2, <2>3, FoundAtFinds DEF ParserReading
    <2> QED BY <2>4, Zenon DEF Plain
  <1>9. CASE c3
    <2> DEFINE t == [s EXCEPT !.allowaccess = TRUE,
                              !.protocols = s.protocols \cup (l.words \cap Protocols)]
               f == "line_vty.transport_input"
    <2>1. ASSUME NEW p, NEW m, At(p, s, n)
          PROVE  LET q == Step("fortinet", m, p, l) IN
                 /\ FortiState(t) /\ q.state = t
                 /\ \E r : /\ ParserReading(r) /\ r.field = f
                           /\ Finds(Advance(p), q, r, n + 1, "parser")
      <3> DEFINE a == Advance(p)
                 q == Step("fortinet", m, p, l)
      <3>1. IsParse(a) /\ a.state = s /\ a.n = n + 1 /\ q = AllowAccess(a, l)
        BY <1>1, <1>9, <2>1
      <3> HIDE DEF a, q
      <3>2. LET u == [a.state EXCEPT !.allowaccess = TRUE,
                           !.protocols = a.state.protocols \cup (l.words \cap Protocols)]
            IN
            /\ FortiState(u) /\ AllowAccess(a, l).state = u
            /\ \E r : /\ ParserReading(r) /\ r.field = f
                      /\ Finds(a, AllowAccess(a, l), r, a.n, "parser")
        BY <3>1, AllowAccessFinds
      <3> QED BY <3>1, <3>2, Zenon DEF a, q
    <2>2. f # Password
      BY DEF Password
    <2> HIDE DEF t, f
    <2>3. FindsOne("fortinet", s, n, l, t, f, n + 1)
      BY <2>1, <2>2 DEF FindsOne, Fits
    <2>4. CASE \E p : At(p, s, n)
      BY <2>1, <2>3, <2>4, Zenon DEF Plain
    <2>5. CASE ~\E p : At(p, s, n)
      <3>1. FindsOne("fortinet", s, n, l, s, f, n + 1)
        BY <2>5, Zenon DEF FindsOne
      <3> QED BY <3>1, Zenon DEF Plain
    <2> QED BY <2>4, <2>5
  <1>10. CASE c4
    <2>1. ASSUME NEW p, NEW m, At(p, s, n)
          PROVE  LET q == Step("fortinet", m, p, l) IN
                 /\ q.state = s
                 /\ \E r : /\ Fits("fortinet", p, l, r) /\ r.field = Password
                           /\ Finds(Advance(p), q, r, n + 1, "parser")
      <3> DEFINE a == Advance(p)
                 q == Step("fortinet", m, p, l)
      <3>1. /\ IsParse(a) /\ a.state = s /\ a.n = n + 1 /\ q = AdminPassword(a, l)
            /\ a.config = p.config
        BY <1>1, <1>10, <2>1
      <3> HIDE DEF a, q
      <3> QED BY <3>1, AdminPasswordFinds DEF a, q, Fits
    <2>2. FindsOne("fortinet", s, n, l, s, Password, n + 1)
      BY <2>1 DEF FindsOne
    <2> QED BY <2>2, Zenon DEF Plain
  <1>11. CASE c5
    <2> DEFINE secure == l.words \cap {"auth-priv", "auth-no-priv"} # {}
               t == [s EXCEPT !.v3 = @ \/ secure]
               f == "snmp.v3_only"
    <2>1. ASSUME NEW p, NEW m, At(p, s, n)
          PROVE  LET q == Step("fortinet", m, p, l) IN
                 /\ FortiState(t) /\ q.state = t
                 /\ \E r : /\ ParserReading(r) /\ r.field = f
                           /\ Finds(Advance(p), q, r, n + 1, "parser")
      <3> DEFINE a == Advance(p)
                 q == Step("fortinet", m, p, l)
      <3>1. IsParse(a) /\ a.state = s /\ a.n = n + 1 /\ q = SnmpUser(a, l)
        BY <1>1, <1>11, <2>1
      <3> HIDE DEF a, q
      <3>2. LET u == [a.state EXCEPT !.v3 = @ \/ secure] IN
            /\ FortiState(u) /\ SnmpUser(a, l).state = u
            /\ \E r : /\ ParserReading(r) /\ r.field = f
                      /\ Finds(a, SnmpUser(a, l), r, a.n, "parser")
        BY <3>1, SnmpUserFinds
      <3> HIDE DEF secure, f
      <3> QED BY <3>1, <3>2, Zenon DEF a, q
    <2>2. f # Password
      BY DEF Password
    <2> HIDE DEF t, f
    <2>3. FindsOne("fortinet", s, n, l, t, f, n + 1)
      BY <2>1, <2>2 DEF FindsOne, Fits
    <2>4. CASE \E p : At(p, s, n)
      BY <2>1, <2>3, <2>4, Zenon DEF Plain
    <2>5. CASE ~\E p : At(p, s, n)
      <3>1. FindsOne("fortinet", s, n, l, s, f, n + 1)
        BY <2>5, Zenon DEF FindsOne
      <3> QED BY <3>1, Zenon DEF Plain
    <2> QED BY <2>4, <2>5
  <1>12. CASE c6
    <2> DEFINE default == l.words \cap {"public", "private"} # {}
               t == IF default THEN [s EXCEPT !.community = TRUE] ELSE s
               f == IF default THEN "snmp.default_communities_removed" ELSE "snmp.community"
    <2>1. ASSUME NEW p, NEW m, At(p, s, n)
          PROVE  LET q == Step("fortinet", m, p, l) IN
                 /\ FortiState(t) /\ q.state = t
                 /\ \E r : /\ ParserReading(r) /\ r.field = f
                           /\ Finds(Advance(p), q, r, n + 1, "parser")
      <3> DEFINE a == Advance(p)
                 q == Step("fortinet", m, p, l)
      <3>1. IsParse(a) /\ a.state = s /\ a.n = n + 1 /\ q = SnmpCommunity(a, l)
        BY <1>1, <1>12, <2>1
      <3> HIDE DEF a, q
      <3>2. LET u == IF default THEN [a.state EXCEPT !.community = TRUE] ELSE a.state IN
            /\ FortiState(u) /\ SnmpCommunity(a, l).state = u
            /\ \E r : /\ ParserReading(r) /\ r.field = f
                      /\ Finds(a, SnmpCommunity(a, l), r, a.n, "parser")
        BY <3>1, SnmpCommunityFinds
      <3> HIDE DEF default, f
      <3> QED BY <3>1, <3>2, Zenon DEF a, q
    <2>2. f # Password
      BY DEF Password
    <2> HIDE DEF t, f
    <2>3. FindsOne("fortinet", s, n, l, t, f, n + 1)
      BY <2>1, <2>2 DEF FindsOne, Fits
    <2>4. CASE \E p : At(p, s, n)
      BY <2>1, <2>3, <2>4, Zenon DEF Plain
    <2>5. CASE ~\E p : At(p, s, n)
      <3>1. FindsOne("fortinet", s, n, l, s, f, n + 1)
        BY <2>5, Zenon DEF FindsOne
      <3> QED BY <3>1, Zenon DEF Plain
    <2> QED BY <2>4, <2>5
  <1>13. CASE c7
    <2> DEFINE f == PolicyFields[l.text]
    <2>1. f \notin ScalarFields /\ Password \in ScalarFields
      BY <1>2, <1>13, PolicyKeys DEF ScalarFields, BooleanFields, Password
    <2> HIDE DEF f
    <2>2. ASSUME NEW p, NEW m, At(p, s, n)
          PROVE  LET q == Step("fortinet", m, p, l) IN
                 /\ q.state = s
                 /\ \E r : /\ ParserReading(r) /\ r.field = f
                           /\ Finds(Advance(p), q, r, n + 1, "parser")
      <3> DEFINE a == Advance(p)
                 q == Step("fortinet", m, p, l)
      <3>1. IsParse(a) /\ a.state = s /\ a.n = n + 1 /\ q = PolicySetting(a, l)
        BY <1>1, <1>13, <2>2
      <3> HIDE DEF a, q
      <3>2. l.text \in DOMAIN PolicyFields
        BY <1>2, <1>13
      <3> QED BY <3>1, <3>2, PolicySettingFinds DEF a, q, f
    <2>3. FindsOne("fortinet", s, n, l, s, f, n + 1)
      BY <2>1, <2>2 DEF FindsOne, Fits
    <2> QED BY <2>3, Zenon DEF Plain
  <1>14. CASE ~c1 /\ ~c2 /\ ~c3 /\ ~c4 /\ ~c5 /\ ~c6 /\ ~c7
    <2>1. Asks("fortinet", s, n, l, s) /\ Askable("fortinet", l)
      <3>1. \A p, m : At(p, s, n) =>
              Step("fortinet", m, p, l) = LearnedIfAssigned(Advance(p), m, l.text)
        BY <1>1, <1>14
      <3> QED BY <3>1, AnswersAsk
    <2> QED BY <2>1, Zenon DEF Plain
  <1> QED BY <1>7, <1>8, <1>9, <1>10, <1>11, <1>12, <1>13, <1>14

\* An operation that changes only what the parser remembers.
LEMMA AlikeSkips ==
  ASSUME NEW v, NEW s, NEW n, NEW l, NEW t,
         \A p, m : At(p, s, n) =>
           LET q == Step(v, m, p, l) IN q.state = t /\ Alike(Advance(p), q)
  PROVE  Skips(v, s, n, l, t)
  <1> SUFFICES ASSUME NEW p, NEW m, At(p, s, n)
               PROVE  LET q == Step(v, m, p, l) IN
                      q.state = t /\ Quiet(Advance(p), q) /\ q.unknown = p.unknown
    BY DEF Skips
  <1> DEFINE a == Advance(p)
             q == Step(v, m, p, l)
  <1>1. q.state = t /\ Alike(a, q)
    OBVIOUS
  <1>2. a.unknown = p.unknown
    BY AtAdvance
  <1> HIDE DEF a, q
  <1> QED BY <1>1, <1>2, AlikeQuiet DEF Alike, a, q

\* The lines of the block structure.
LEMMA FortiStructure ==
  ASSUME NEW s, FortiState(s), NEW n \in Nat, NEW l,
         \/ l.text \in {"", "#", "config"}
         \/ l.text \in {"edit", "next", "end"} /\ s.stack # << >>
  PROVE  \E t : FortiState(t) /\ Skips("fortinet", s, n, l, t)
  <1>0. ASSUME NEW p, NEW m, At(p, s, n)
        PROVE  LET a == Advance(p) IN
               /\ IsParse(a) /\ a.state = s /\ a.n = n + 1 /\ a.unknown = p.unknown
               /\ InBlock(a) <=> s.stack # << >>
    BY <1>0, AtAdvance DEF InBlock
  <1>1. CASE l.text \in {"", "#"}
    <2>1. ASSUME NEW p, NEW m, At(p, s, n)
          PROVE  LET q == Step("fortinet", m, p, l) IN q.state = s /\ Alike(Advance(p), q)
      <3>1. Step("fortinet", m, p, l) = Advance(p)
        BY <1>1, FortiBranches, Zenon
      <3> QED BY <1>0, <2>1, <3>1 DEF Alike
    <2>2. Skips("fortinet", s, n, l, s)
      BY <2>1, AlikeSkips
    <2> QED BY <2>2
  <1>2. CASE l.text = "config"
    <2> DEFINE u == Append(s.stack, [section |-> Word(l), edit |-> NoEdit])
               t == [s EXCEPT !.stack = u]
    <2>1. ASSUME NEW p, NEW m, At(p, s, n)
          PROVE  LET q == Step("fortinet", m, p, l) IN q.state = t /\ Alike(Advance(p), q)
      <3> DEFINE a == Advance(p)
                 q == Step("fortinet", m, p, l)
      <3>1. q = OpenBlock(a, Word(l))
        BY <1>2, FortiBranches, Zenon
      <3>2. IsParse(a) /\ a.state = s
        BY <1>0, <2>1
      <3> HIDE DEF a, q
      <3>3. q = [a EXCEPT !.state = t]
        BY <3>1, <3>2 DEF OpenBlock
      <3> HIDE DEF t
      <3>4. q.state = t /\ Alike(a, q)
        BY <3>2, <3>3, Remembering
      <3> QED BY <3>4 DEF a, q
    <2> HIDE DEF t
    <2>2. Skips("fortinet", s, n, l, t)
      BY <2>1, AlikeSkips
    <2>3. FortiState(t)
      BY FortiStack DEF t
    <2> QED BY <2>2, <2>3
  <1>3. CASE l.text = "edit" /\ s.stack # << >>
    <2> DEFINE u == [s.stack EXCEPT ![Len(s.stack)].edit = Word(l)]
               t == [s EXCEPT !.stack = u]
    <2>1. Skips("fortinet", s, n, l, t)
      <3> SUFFICES ASSUME NEW p, NEW m, At(p, s, n)
                   PROVE  LET q == Step("fortinet", m, p, l) IN
                          q.state = t /\ Quiet(Advance(p), q) /\ q.unknown = p.unknown
        BY DEF Skips
      <3> DEFINE a == Advance(p)
                 q == Step("fortinet", m, p, l)
      <3>1. IsParse(a) /\ a.state = s /\ a.unknown = p.unknown /\ InBlock(a)
        BY <1>0, <1>3
      <3>2. q = EditRecord(a, Word(l))
        BY <1>3, <3>1, FortiEdit
      <3> HIDE DEF a, q
      <3>3. Quiet(a, q) /\ q.unknown = a.unknown /\ q.state = t
        BY <3>1, <3>2, EditRecordQuiet
      <3> QED BY <3>1, <3>3 DEF a, q
    <2> HIDE DEF t
    <2>3. FortiState(t)
      BY FortiStack DEF t
    <2> QED BY <2>1, <2>3
  <1>4. CASE l.text = "next" /\ s.stack # << >>
    <2> DEFINE u == [s.stack EXCEPT ![Len(s.stack)].edit = NoEdit]
               t == [s EXCEPT !.stack = u]
    <2>1. ASSUME NEW p, NEW m, At(p, s, n)
          PROVE  LET q == Step("fortinet", m, p, l) IN q.state = t /\ Alike(Advance(p), q)
      <3> DEFINE a == Advance(p)
                 q == Step("fortinet", m, p, l)
      <3>1. IsParse(a) /\ a.state = s /\ InBlock(a)
        BY <1>0, <1>4, <2>1
      <3>2. q = [a EXCEPT !.state.stack[Len(a.state.stack)].edit = NoEdit]
        BY <1>4, <3>1, FortiNext
      <3> HIDE DEF a, q
      <3>3. q = [a EXCEPT !.state = t]
        BY <3>1, <3>2
      <3> HIDE DEF t
      <3>4. q.state = t /\ Alike(a, q)
        BY <3>1, <3>3, Remembering
      <3> QED BY <3>4 DEF a, q
    <2> HIDE DEF t
    <2>2. Skips("fortinet", s, n, l, t)
      BY <2>1, AlikeSkips
    <2>3. FortiState(t)
      BY FortiStack DEF t
    <2> QED BY <2>2, <2>3
  <1>5. CASE l.text = "end" /\ s.stack # << >>
    <2> DEFINE u == Front(s.stack)
               t == [s EXCEPT !.stack = u]
    <2>1. ASSUME NEW p, NEW m, At(p, s, n)
          PROVE  LET q == Step("fortinet", m, p, l) IN q.state = t /\ Alike(Advance(p), q)
      <3> DEFINE a == Advance(p)
                 q == Step("fortinet", m, p, l)
      <3>1. IsParse(a) /\ a.state = s /\ InBlock(a)
        BY <1>0, <1>5, <2>1
      <3>2. q = [a EXCEPT !.state.stack = Front(@)]
        BY <1>5, <3>1, FortiClose
      <3> HIDE DEF a, q
      <3>3. q = [a EXCEPT !.state = t]
        BY <3>1, <3>2
      <3> HIDE DEF t
      <3>4. q.state = t /\ Alike(a, q)
        BY <3>1, <3>3, Remembering
      <3> QED BY <3>4 DEF a, q
    <2> HIDE DEF t
    <2>2. Skips("fortinet", s, n, l, t)
      BY <2>1, AlikeSkips
    <2>3. FortiState(t)
      BY FortiStack DEF t
    <2> QED BY <2>2, <2>3
  <1> QED BY <1>1, <1>2, <1>3, <1>4, <1>5, Zenon

\* The version line says what the device is.
LEMMA FortiVersion ==
  ASSUME NEW s, NEW n \in Nat, NEW l, l.text = "#config-version"
  PROVE  \E f, g : FindsTwo("fortinet", s, n, l, s, f, g)
  <1> DEFINE f == "device_info.model"
             g == "device_info.os_version"
             r == Reading(f, Yes)
             e == Reading(g, Yes)
             rows == <<r, e>>
  <1>1. f \in TextFields /\ g \in TextFields /\ f # Password /\ g # Password
    BY DEF TextFields, Password
  <1> HIDE DEF f, g
  <1>2. ParserReading(r) /\ ParserReading(e) /\ r.field = f /\ e.field = g
    BY <1>1, NamedFields, Settings DEF Yes
  <1> HIDE DEF r, e
  <1>3. SaysTwo(rows, r, e)
    BY <1>2 DEF SaysTwo
  <1>4. ASSUME NEW p, NEW m
        PROVE  Step("fortinet", m, p, l) = SetAll(Advance(p), rows)
    BY FortiBranches, Zenon DEF r, e, f, g
  <1> HIDE DEF rows
  <1>5. FindsTwo("fortinet", s, n, l, s, f, g)
    <2> SUFFICES ASSUME NEW p, NEW m, At(p, s, n)
                 PROVE  LET q == Step("fortinet", m, p, l) IN
                        /\ q.state = s
                        /\ \E b : /\ Finds(Advance(p), b, r, n + 1, "parser")
                                  /\ Finds(b, q, e, n + 1, "parser")
      BY <1>1, <1>2, Zenon DEF FindsTwo
    <2> DEFINE a == Advance(p)
               b == SetUnion(a, r)
               q == Step("fortinet", m, p, l)
    <2>1. IsParse(a) /\ a.state = s /\ a.n = n + 1 /\ q = SetAll(a, rows)
      BY <1>4, AtAdvance
    <2> HIDE DEF a, q
    <2>2. Finds(a, b, r, n + 1, "parser") /\ Finds(b, q, e, n + 1, "parser") /\ q.state = s
      BY <1>3, <2>1, SetAllFinds
    <2> HIDE DEF b
    <2> QED BY <2>2 DEF a, q
  <1> QED BY <1>5

\* Whatever it is, a line of FortiOS does one of the plain things.
LEMMA FortiKinds ==
  ASSUME NEW s, FortiState(s), NEW n \in Nat, NEW l \in TextLine
  PROVE  \E t, F : FortiState(t) /\ Kinds("fortinet", s, n, l, t, F)
  <1>1. \E t, F : FortiState(t) /\ Plain("fortinet", s, n, l, t, F)
    <2>1. CASE \/ l.text \in {"", "#", "config"}
               \/ l.text \in {"edit", "next", "end"} /\ s.stack # << >>
      <3>1. PICK t : FortiState(t) /\ Skips("fortinet", s, n, l, t)
        BY <2>1, FortiStructure, Zenon
      <3>2. Blank("fortinet", l)
        BY <2>1, Zenon DEF Blank
      <3> QED BY <3>1, <3>2, Zenon DEF Plain
    <2>2. CASE l.text = "#config-version"
      <3>1. PICK f, g : FindsTwo("fortinet", s, n, l, s, f, g)
        BY <2>2, FortiVersion
      <3>2. Plain("fortinet", s, n, l, s, {f, g})
        BY <3>1, Zenon DEF Plain
      <3> QED BY <3>2
    <2>3. CASE /\ l.text \notin {"", "#", "#config-version", "config"}
               /\ ~(l.text \in {"edit", "next", "end"} /\ s.stack # << >>)
      <3>1. ASSUME NEW p, NEW m, At(p, s, n)
            PROVE  Step("fortinet", m, p, l) = Setting(m, Advance(p), l)
        <4>1. InBlock(Advance(p)) <=> s.stack # << >>
          BY <3>1, AtAdvance, Zenon DEF InBlock
        <4> QED BY <2>3, <4>1, FortiOther, Zenon
      <3> QED BY <3>1, FortiSetting
    <2> QED BY <2>1, <2>2, <2>3, Zenon
  <1>2. Open("fortinet", s) = 0 /\ ~Opens("fortinet", l)
    BY DEF Open, Opens
  <1>3. ASSUME NEW t PROVE Open("fortinet", t) = 0
    BY DEF Open
  <1> QED BY <1>1, <1>2, <1>3, Zenon DEF Kinds

-----------------------------------------------------------------------------
(* Any other vendor, and the JunOS parser.                                 *)

\* A line the generic parser does not know waits for the mappings.
LEMMA GenericKinds ==
  ASSUME NEW v, v \notin {"cisco", "fortinet", "juniper"},
         NEW s, NEW n \in Nat, NEW l \in TextLine
  PROVE  \E F : Kinds(v, s, n, l, s, F)
  <1>1. ASSUME NEW p, NEW m
        PROVE  Step(v, m, p, l) = IF l.text = "" THEN Advance(p)
                                  ELSE LearnedIfAssigned(Advance(p), m, l.text)
    BY Zenon DEF Step, GenericStep
  <1>2. \E F : Plain(v, s, n, l, s, F)
    <2>1. CASE l.text = ""
      <3>1. ASSUME NEW p, NEW m, At(p, s, n)
            PROVE  LET q == Step(v, m, p, l) IN q.state = s /\ Alike(Advance(p), q)
        <4>1. Step(v, m, p, l) = Advance(p)
          BY <1>1, <2>1, Zenon
        <4> QED BY <3>1, <4>1, AtAdvance DEF Alike
      <3>2. Skips(v, s, n, l, s)
        BY <3>1, AlikeSkips
      <3>3. Blank(v, l)
        BY <2>1, Zenon DEF Blank
      <3> QED BY <3>2, <3>3, Zenon DEF Plain
    <2>2. CASE l.text # ""
      <3>1. ASSUME NEW p, NEW m, At(p, s, n)
            PROVE  Step(v, m, p, l) = LearnedIfAssigned(Advance(p), m, l.text)
        BY <1>1, <2>2, Zenon
      <3>2. Asks(v, s, n, l, s) /\ Askable(v, l)
        BY <3>1, AnswersAsk
      <3> QED BY <3>2, Zenon DEF Plain
    <2> QED BY <2>1, <2>2
  <1>3. Open(v, s) = 0 /\ ~Opens(v, l)
    BY DEF Open, Opens
  <1> QED BY <1>2, <1>3, Zenon DEF Kinds

\* What the rows of a statement say, for a vendor without a rule for passwords.
RowsTell(c) ==
  \/ c = << >>
  \/ \E r : Says(c, r)
  \/ \E r, e : SaysTwo(c, r, e)

\* One setting.
LEMMA TellOne ==
  ASSUME NEW f \in Names, NEW v \in Nat, NEW c, c = <<Reading(f, v)>>
  PROVE  RowsTell(c)
  <1>1. Says(c, Reading(f, v))
    BY Settings DEF Says
  <1> QED BY <1>1 DEF RowsTell

\* Two settings.
LEMMA TellTwo ==
  ASSUME NEW f \in Names, NEW g \in Names, NEW v \in Nat, NEW w \in Nat,
         NEW c, c = <<Reading(f, v), Reading(g, w)>>
  PROVE  RowsTell(c)
  <1>1. SaysTwo(c, Reading(f, v), Reading(g, w))
    BY Settings DEF SaysTwo
  <1> QED BY <1>1 DEF RowsTell

\* The fields of the statements of JunOS.
LEMMA JunosFields ==
  {"aaa.authentication_login",
   "aaa.new_model",
   "access_control.banner_login",
   "access_control.banner_motd",
   "cdp.global_disabled",
   "device_info.enable_secret_type",
   "device_info.hostname",
   "device_info.os_version",
   "interfaces.shutdown",
   "line_console.exec_timeout_minutes",
   "line_vty.exec_timeout_minutes",
   "line_vty.transport_input",
   "logging.buffered_size",
   "logging.timestamps_enabled",
   "logging.trap_severity",
   "ntp.authenticate",
   "ntp.servers",
   "service_hardening.finger_disabled",
   "service_hardening.http_secure_server_enabled",
   "service_hardening.http_server_disabled",
   "service_hardening.password_encryption",
   "snmp.default_communities_removed",
   "snmp.v3_only",
   "ssh.auth_retries",
   "ssh.timeout_seconds",
   "ssh.version"}
    \subseteq Names
  BY DEF Names, SchemaFields, ScalarFields, BooleanFields, NumberFields, TextFields, ListFields

\* A statement of JunOS says one thing, two or nothing.
LEMMA JunosSays ==
  ASSUME NEW path, NEW l \in PathLine
  PROVE  RowsTell(JunosReadings(path, l))
  <1> DEFINE c == JunosReadings(path, l)
  <1> SUFFICES RowsTell(c)
    OBVIOUS
  <1>0. /\ l.n \in Nat /\ l.words \in SUBSET Names /\ Yes \in Nat /\ {"ssh"} \in SUBSET Names
        /\ (IF l.no THEN No ELSE Yes) \in Nat /\ Flip(IF l.no THEN No ELSE Yes) \in Nat
    BY DEF PathLine, Yes, No, Flip, Names
  <1>1. CASE path \in {<<"system", "host-name">>, <<"host-name">>}
    <2>1. c = <<Reading("device_info.hostname", Yes)>>
      BY <1>1
         DEF JunosReadings, Service, Ssh, SshKnob, WebHttp, WebHttps
    <2> HIDE DEF c
    <2> QED BY <1>0, <2>1, JunosFields, TellOne
  <1>2. CASE path \in {<<"system", "version">>, <<"version">>}
    <2>1. c = <<Reading("device_info.os_version", Yes)>>
      BY <1>2
         DEF JunosReadings, Service, Ssh, SshKnob, WebHttp, WebHttps
    <2> HIDE DEF c
    <2> QED BY <1>0, <2>1, JunosFields, TellOne
  <1>3. CASE path = <<"system", "root-authentication", "encrypted-password">>
    <2> DEFINE v == IF "$hash" \in l.words THEN 9 ELSE 0
               w == IF "$hash" \in l.words THEN Yes ELSE No
    <2>1. c = <<Reading("device_info.enable_secret_type", v),
                Reading("service_hardening.password_encryption", w)>>
      BY <1>3
         DEF JunosReadings, Service, Ssh, SshKnob, WebHttp, WebHttps
    <2>2. v \in Nat /\ w \in Nat
      BY DEF Yes, No
    <2> HIDE DEF c, v, w
    <2> QED BY <2>1, <2>2, JunosFields, TellTwo
  <1>4. CASE path = Service("finger")
    <2>1. c = <<Reading("service_hardening.finger_disabled", Flip(IF l.no THEN No ELSE Yes))>>
      BY <1>4
         DEF JunosReadings, Service, Ssh, SshKnob, WebHttp, WebHttps
    <2> HIDE DEF c
    <2> QED BY <1>0, <2>1, JunosFields, TellOne
  <1>5. CASE path = WebHttp
    <2>1. c = <<Reading("service_hardening.http_server_disabled",
                        Flip(IF l.no THEN No ELSE Yes))>>
      BY <1>5
         DEF JunosReadings, Service, Ssh, SshKnob, WebHttp, WebHttps
    <2> HIDE DEF c
    <2> QED BY <1>0, <2>1, JunosFields, TellOne
  <1>6. CASE path = WebHttps
    <2>1. c = <<Reading("service_hardening.http_secure_server_enabled",
                        IF l.no THEN No ELSE Yes)>>
      BY <1>6
         DEF JunosReadings, Service, Ssh, SshKnob, WebHttp, WebHttps
    <2> HIDE DEF c
    <2> QED BY <1>0, <2>1, JunosFields, TellOne
  <1>7. CASE path = <<"system", "login", "message">>
    <2>1. c = <<Reading("access_control.banner_login", l.n),
                Reading("access_control.banner_motd", l.n)>>
      BY <1>7
         DEF JunosReadings, Service, Ssh, SshKnob, WebHttp, WebHttps
    <2> HIDE DEF c
    <2> QED BY <1>0, <2>1, JunosFields, TellTwo
  <1>8. CASE path = <<"system", "login", "idle-timeout">>
    <2>1. c = <<Reading("line_console.exec_timeout_minutes", l.n),
                Reading("line_vty.exec_timeout_minutes", l.n)>>
      BY <1>8
         DEF JunosReadings, Service, Ssh, SshKnob, WebHttp, WebHttps
    <2> HIDE DEF c
    <2> QED BY <1>0, <2>1, JunosFields, TellTwo
  <1>9. CASE path = Ssh
    <2>1. c = <<Listing("line_vty.transport_input", {"ssh"})>>
      BY <1>9
         DEF JunosReadings, Service, Ssh, SshKnob, WebHttp, WebHttps
    <2>2. Says(c, Listing("line_vty.transport_input", {"ssh"}))
      BY <1>0, <2>1, Listings DEF Says, ListFields
    <2> HIDE DEF c
    <2> QED BY <2>2 DEF RowsTell
  <1>10. CASE path = SshKnob("protocol-version")
    <2> DEFINE r == Reading("ssh.version", l.n)
               e == Listing("line_vty.transport_input", {"ssh"})
    <2>1. c = <<r, e>>
      BY <1>10
         DEF JunosReadings, Service, Ssh, SshKnob, WebHttp, WebHttps
    <2>2. ParserReading(r) /\ ParserReading(e)
      BY <1>0, JunosFields, Settings, Listings DEF ListFields
    <2> HIDE DEF c, r, e
    <2>3. SaysTwo(c, r, e)
      BY <2>1, <2>2 DEF SaysTwo
    <2> QED BY <2>3 DEF RowsTell
  <1>11. CASE path = SshKnob("client-alive-interval")
    <2>1. c = <<Reading("ssh.timeout_seconds", l.n)>>
      BY <1>11
         DEF JunosReadings, Service, Ssh, SshKnob, WebHttp, WebHttps
    <2> HIDE DEF c
    <2> QED BY <1>0, <2>1, JunosFields, TellOne
  <1>12. CASE path = SshKnob("max-authentication-retries")
    <2>1. c = <<Reading("ssh.auth_retries", l.n)>>
      BY <1>12
         DEF JunosReadings, Service, Ssh, SshKnob, WebHttp, WebHttps
    <2> HIDE DEF c
    <2> QED BY <1>0, <2>1, JunosFields, TellOne
  <1>13. CASE path = <<"system", "authentication-order">>
    <2>1. c = <<Reading("aaa.new_model", IF l.no THEN No ELSE Yes),
                Reading("aaa.authentication_login", Yes)>>
      BY <1>13
         DEF JunosReadings, Service, Ssh, SshKnob, WebHttp, WebHttps
    <2> HIDE DEF c
    <2> QED BY <1>0, <2>1, JunosFields, TellTwo
  <1>14. CASE path = <<"system", "syslog", "archive-size">>
    <2>1. c = <<Reading("logging.buffered_size", l.n)>>
      BY <1>14
         DEF JunosReadings, Service, Ssh, SshKnob, WebHttp, WebHttps
    <2> HIDE DEF c
    <2> QED BY <1>0, <2>1, JunosFields, TellOne
  <1>15. CASE path = <<"system", "syslog">>
    <2>1. c = <<Reading("logging.trap_severity", Yes),
                Reading("logging.timestamps_enabled", IF l.no THEN No ELSE Yes)>>
      BY <1>15
         DEF JunosReadings, Service, Ssh, SshKnob, WebHttp, WebHttps
    <2> HIDE DEF c
    <2> QED BY <1>0, <2>1, JunosFields, TellTwo
  <1>16. CASE path = <<"system", "ntp", "server">>
    <2>1. c = <<Listing("ntp.servers", l.words)>>
      BY <1>16
         DEF JunosReadings, Service, Ssh, SshKnob, WebHttp, WebHttps
    <2>2. Says(c, Listing("ntp.servers", l.words))
      BY <1>0, <2>1, Listings DEF Says, ListFields
    <2> HIDE DEF c
    <2> QED BY <2>2 DEF RowsTell
  <1>17. CASE path \in {<<"system", "ntp", k>> : k \in {"authentication-key", "trusted-key"}}
    <2>1. c = <<Reading("ntp.authenticate", IF l.no THEN No ELSE Yes)>>
      BY <1>17
         DEF JunosReadings, Service, Ssh, SshKnob, WebHttp, WebHttps
    <2> HIDE DEF c
    <2> QED BY <1>0, <2>1, JunosFields, TellOne
  <1>18. CASE path = <<"snmp", "v3">>
    <2>1. c = <<Reading("snmp.v3_only", IF l.no THEN No ELSE Yes)>>
      BY <1>18
         DEF JunosReadings, Service, Ssh, SshKnob, WebHttp, WebHttps
    <2> HIDE DEF c
    <2> QED BY <1>0, <2>1, JunosFields, TellOne
  <1>19. CASE path = <<"snmp", "community">> /\ l.words \cap {"public", "private"} # {}
    <2>1. c = <<Reading("snmp.default_communities_removed", Flip(IF l.no THEN No ELSE Yes))>>
      BY <1>19
         DEF JunosReadings, Service, Ssh, SshKnob, WebHttp, WebHttps
    <2> HIDE DEF c
    <2> QED BY <1>0, <2>1, JunosFields, TellOne
  <1>20. CASE path = <<"protocols", "lldp", "interface", "all", "disable">>
    <2>1. c = <<Reading("cdp.global_disabled", IF l.no THEN No ELSE Yes)>>
      BY <1>20
         DEF JunosReadings, Service, Ssh, SshKnob, WebHttp, WebHttps
    <2> HIDE DEF c
    <2> QED BY <1>0, <2>1, JunosFields, TellOne
  <1>21. CASE path = <<"interfaces", "disable">>
    <2>1. c = <<Reading("interfaces.shutdown", IF l.no THEN No ELSE Yes)>>
      BY <1>21
         DEF JunosReadings, Service, Ssh, SshKnob, WebHttp, WebHttps
    <2> HIDE DEF c
    <2> QED BY <1>0, <2>1, JunosFields, TellOne
  <1>22. CASE /\ ~(path \in {<<"system", "host-name">>, <<"host-name">>})
             /\ ~(path \in {<<"system", "version">>, <<"version">>})
             /\ ~(path = <<"system", "root-authentication", "encrypted-password">>)
             /\ ~(path = Service("finger"))
             /\ ~(path = WebHttp)
             /\ ~(path = WebHttps)
             /\ ~(path = <<"system", "login", "message">>)
             /\ ~(path = <<"system", "login", "idle-timeout">>)
             /\ ~(path = Ssh)
             /\ ~(path = SshKnob("protocol-version"))
             /\ ~(path = SshKnob("client-alive-interval"))
             /\ ~(path = SshKnob("max-authentication-retries"))
             /\ ~(path = <<"system", "authentication-order">>)
             /\ ~(path = <<"system", "syslog", "archive-size">>)
             /\ ~(path = <<"system", "syslog">>)
             /\ ~(path = <<"system", "ntp", "server">>)
             /\ ~(path \in {<<"system", "ntp", k>> : k \in {"authentication-key", "trusted-key"}})
             /\ ~(path = <<"snmp", "v3">>)
             /\ ~(path = <<"snmp", "community">> /\ l.words \cap {"public", "private"} # {})
             /\ ~(path = <<"protocols", "lldp", "interface", "all", "disable">>)
             /\ ~(path = <<"interfaces", "disable">>)
    <2>1. c = << >>
      BY <1>22 DEF JunosReadings
    <2> QED BY <2>1 DEF RowsTell
  <1> QED
    BY <1>1, <1>2, <1>3, <1>4, <1>5, <1>6, <1>7, <1>8, <1>9, <1>10, <1>11,
       <1>12, <1>13, <1>14, <1>15, <1>16, <1>17, <1>18, <1>19, <1>20, <1>21, <1>22

\* What the JunOS parser remembers.
JunosState(s) ==
  s \in [stack : {s.stack}, http : BOOLEAN, https : BOOLEAN, v3 : BOOLEAN, community : BOOLEAN]

\* The facts at the end rest on statements seen.
Seen(s, t, F) ==
  /\ t.https => s.https \/ "service_hardening.http_secure_server_enabled" \in F
  /\ t.v3 => s.v3 \/ "snmp.v3_only" \in F

\* What is remembered of a statement.
Remembers(s, path, l) ==
  LET communities ==
        path = <<"snmp", "community">> /\ l.words \cap {"public", "private"} # {}
  IN [stack |-> s.stack,
      http |-> IF path = WebHttp THEN ~l.no ELSE s.http,
      https |-> IF path = WebHttps THEN ~l.no ELSE s.https,
      v3 |-> IF path = <<"snmp", "v3">> THEN ~l.no ELSE s.v3,
      community |-> IF communities THEN ~l.no ELSE s.community]

\* The parser remembers that, and nothing else changes.
LEMMA SawAlike ==
  ASSUME NEW a, IsParse(a), NEW path, NEW l \in PathLine, JunosState(a.state)
  PROVE  LET t == Remembers(a.state, path, l) IN
         JunosState(t) /\ Saw(a, path, l) = [a EXCEPT !.state = t]
  <1> DEFINE s == a.state
             b1 == IF path = WebHttp THEN ~l.no ELSE s.http
             b2 == IF path = WebHttps THEN ~l.no ELSE s.https
             b3 == IF path = <<"snmp", "v3">> THEN ~l.no ELSE s.v3
             b4 == IF path = <<"snmp", "community">> /\ l.words \cap {"public", "private"} # {}
                   THEN ~l.no ELSE s.community
             t == [stack |-> s.stack, http |-> b1, https |-> b2, v3 |-> b3, community |-> b4]
             x1 == [a EXCEPT !.state = [s EXCEPT !.http = b1]]
             x2 == [x1 EXCEPT !.state = [x1.state EXCEPT !.https = b2]]
             x3 == [x2 EXCEPT !.state = [x2.state EXCEPT !.v3 = b3]]
             x4 == [x3 EXCEPT !.state = [x3.state EXCEPT !.community = b4]]
  <1>0. /\ a = [config |-> a.config, findings |-> a.findings, unknown |-> a.unknown,
                n |-> a.n, state |-> a.state]
        /\ s = [stack |-> s.stack, http |-> s.http, https |-> s.https, v3 |-> s.v3,
                community |-> s.community]
        /\ s.http \in BOOLEAN /\ s.https \in BOOLEAN /\ s.v3 \in BOOLEAN
        /\ s.community \in BOOLEAN /\ l.no \in BOOLEAN
    BY DEF IsParse, JunosState, PathLine
  <1>1. b1 \in BOOLEAN /\ b2 \in BOOLEAN /\ b3 \in BOOLEAN /\ b4 \in BOOLEAN
    BY <1>0, Zenon
  <1>2. Saw(a, path, l) = x4
    BY Zenon DEF Saw
  <1> HIDE DEF b1, b2, b3, b4
  <1>3. x1.state = [stack |-> s.stack, http |-> b1, https |-> s.https, v3 |-> s.v3,
                    community |-> s.community]
        /\ x1 = [config |-> a.config, findings |-> a.findings, unknown |-> a.unknown,
                 n |-> a.n, state |-> x1.state]
    BY <1>0
  <1> HIDE DEF x1
  <1>4. x2.state = [stack |-> s.stack, http |-> b1, https |-> b2, v3 |-> s.v3,
                    community |-> s.community]
        /\ x2 = [config |-> a.config, findings |-> a.findings, unknown |-> a.unknown,
                 n |-> a.n, state |-> x2.state]
    BY <1>3
  <1> HIDE DEF x2
  <1>5. x3.state = [stack |-> s.stack, http |-> b1, https |-> b2, v3 |-> b3,
                    community |-> s.community]
        /\ x3 = [config |-> a.config, findings |-> a.findings, unknown |-> a.unknown,
                 n |-> a.n, state |-> x3.state]
    BY <1>4
  <1> HIDE DEF x3
  <1>6. x4.state = t
        /\ x4 = [config |-> a.config, findings |-> a.findings, unknown |-> a.unknown,
                 n |-> a.n, state |-> x4.state]
    BY <1>5
  <1> HIDE DEF x4
  <1>7. x4 = [a EXCEPT !.state = t]
    <2> HIDE DEF t
    <2> QED BY <1>0, <1>6
  <1>8. JunosState(t)
    BY <1>1 DEF JunosState
  <1>9. t = Remembers(s, path, l)
    BY Zenon DEF Remembers, b1, b2, b3, b4
  <1> HIDE DEF t
  <1> QED BY <1>2, <1>7, <1>8, <1>9, Zenon

\* The branches of a line of JunOS.
LEMMA JunosBranches ==
  ASSUME NEW p, NEW m, NEW l
  PROVE  LET a == Advance(p)
             q == Step("juniper", m, p, l)
         IN
         /\ l.form = "blank" => q = a
         /\ l.form = "open" => q = [a EXCEPT !.state.stack = Append(@, l.path)]
         /\ l.form = "close" /\ a.state.stack # << >> => q = [a EXCEPT !.state.stack = Front(@)]
         /\ l.form = "close" /\ a.state.stack = << >> => q = a
         /\ l.form \notin {"blank", "open", "close"} =>
              q = JunosStatement(m, a, Command(a, l), l)
  <1> DEFINE a == Advance(p)
             q == Step("juniper", m, p, l)
  <1>1. q = JunosStep(m, p, l)
    BY Zenon DEF Step
  <1> HIDE DEF a, q
  <1>2. ASSUME l.form = "blank" PROVE q = a
    BY <1>1, <1>2, Zenon DEF JunosStep, a
  <1>3. ASSUME l.form = "open" PROVE q = [a EXCEPT !.state.stack = Append(@, l.path)]
    BY <1>1, <1>3, Zenon DEF JunosStep, a
  <1>4. ASSUME l.form = "close", a.state.stack # << >>
        PROVE  q = [a EXCEPT !.state.stack = Front(@)]
    BY <1>1, <1>4, Zenon DEF JunosStep, a
  <1>5. ASSUME l.form = "close", a.state.stack = << >> PROVE q = a
    BY <1>1, <1>5, Zenon DEF JunosStep, a
  <1>6. ASSUME l.form \notin {"blank", "open", "close"}
        PROVE  q = JunosStatement(m, a, Command(a, l), l)
    BY <1>1, <1>6, Zenon DEF JunosStep, a
  <1> QED BY <1>2, <1>3, <1>4, <1>5, <1>6, Zenon DEF a, q

\* The lines of the hierarchy only move in it.
LEMMA JunosStructure ==
  ASSUME NEW s, JunosState(s), NEW n \in Nat, NEW l, l.form \in {"blank", "open", "close"}
  PROVE  \E t : JunosState(t) /\ Seen(s, t, {}) /\ Skips("juniper", s, n, l, t)
  <1>0. ASSUME NEW p, NEW m, At(p, s, n)
        PROVE  LET a == Advance(p) IN IsParse(a) /\ a.state = s
    BY <1>0, AtAdvance
  <1>1. ASSUME NEW u
        PROVE  JunosState([s EXCEPT !.stack = u]) /\ Seen(s, [s EXCEPT !.stack = u], {})
    BY DEF JunosState, Seen
  <1>2. CASE l.form = "open"
    <2> DEFINE u == Append(s.stack, l.path)
               t == [s EXCEPT !.stack = u]
    <2>1. ASSUME NEW p, NEW m, At(p, s, n)
          PROVE  LET q == Step("juniper", m, p, l) IN q.state = t /\ Alike(Advance(p), q)
      <3> DEFINE a == Advance(p)
                 q == Step("juniper", m, p, l)
      <3>1. q = [a EXCEPT !.state.stack = Append(@, l.path)]
        BY <1>2, JunosBranches
      <3>2. IsParse(a) /\ a.state = s
        BY <1>0, <2>1
      <3> HIDE DEF a, q
      <3>3. q = [a EXCEPT !.state = t]
        BY <3>1, <3>2
      <3> HIDE DEF t
      <3>4. q.state = t /\ Alike(a, q)
        BY <3>2, <3>3, Remembering
      <3> QED BY <3>4 DEF a, q
    <2>2. JunosState(t) /\ Seen(s, t, {})
      BY <1>1
    <2> HIDE DEF t
    <2>3. Skips("juniper", s, n, l, t)
      BY <2>1, AlikeSkips
    <2> QED BY <2>2, <2>3
  <1>3. CASE l.form = "close" /\ s.stack # << >>
    <2> DEFINE u == Front(s.stack)
               t == [s EXCEPT !.stack = u]
    <2>1. ASSUME NEW p, NEW m, At(p, s, n)
          PROVE  LET q == Step("juniper", m, p, l) IN q.state = t /\ Alike(Advance(p), q)
      <3> DEFINE a == Advance(p)
                 q == Step("juniper", m, p, l)
      <3>1. IsParse(a) /\ a.state = s
        BY <1>0, <2>1
      <3>2. q = [a EXCEPT !.state.stack = Front(@)]
        BY <1>3, <3>1, JunosBranches
      <3> HIDE DEF a, q
      <3>3. q = [a EXCEPT !.state = t]
        BY <3>1, <3>2
      <3> HIDE DEF t
      <3>4. q.state = t /\ Alike(a, q)
        BY <3>1, <3>3, Remembering
      <3> QED BY <3>4 DEF a, q
    <2>2. JunosState(t) /\ Seen(s, t, {})
      BY <1>1
    <2> HIDE DEF t
    <2>3. Skips("juniper", s, n, l, t)
      BY <2>1, AlikeSkips
    <2> QED BY <2>2, <2>3
  <1>4. CASE l.form = "blank" \/ (l.form = "close" /\ s.stack = << >>)
    <2>1. ASSUME NEW p, NEW m, At(p, s, n)
          PROVE  LET q == Step("juniper", m, p, l) IN q.state = s /\ Alike(Advance(p), q)
      <3>1. Step("juniper", m, p, l) = Advance(p)
        BY <1>0, <1>4, <2>1, JunosBranches
      <3> QED BY <1>0, <2>1, <3>1 DEF Alike
    <2>2. Skips("juniper", s, n, l, s)
      BY <2>1, AlikeSkips
    <2>3. Seen(s, s, {})
      BY DEF Seen
    <2> QED BY <2>2, <2>3
  <1> QED BY <1>2, <1>3, <1>4

\* A statement says one thing or two, or waits for the mappings.
LEMMA JunosStated ==
  ASSUME NEW s, JunosState(s), NEW n \in Nat, NEW l \in PathLine,
         l.form \notin {"blank", "open", "close"}
  PROVE  \E t, F : JunosState(t) /\ Seen(s, t, F) /\ Plain("juniper", s, n, l, t, F)
  <1> DEFINE path == IF l.form = "set" THEN l.path ELSE FlattenSeq(s.stack) \o l.path
             rows == JunosReadings(path, l)
             t == Remembers(s, path, l)
  <1>1. ASSUME NEW p, NEW m, At(p, s, n)
        PROVE  LET a == Advance(p)
                   q == Step("juniper", m, p, l)
               IN
               /\ IsParse(a) /\ a.state = s /\ a.n = n + 1 /\ a.unknown = p.unknown
               /\ q = JunosStatement(m, a, path, l)
    <2>1. IsParse(Advance(p)) /\ Advance(p).state = s /\ Advance(p).n = n + 1
          /\ Advance(p).unknown = p.unknown
      BY <1>1, AtAdvance
    <2>2. Command(Advance(p), l) = path
      BY <2>1, Zenon DEF Command
    <2> HIDE DEF path
    <2> QED BY <2>1, <2>2, JunosBranches
  <1>2. RowsTell(rows)
    BY JunosSays
  <1>3. /\ path = WebHttps =>
             \E v : rows = <<Reading("service_hardening.http_secure_server_enabled", v)>>
        /\ path = <<"snmp", "v3">> => \E v : rows = <<Reading("snmp.v3_only", v)>>
    <2> HIDE DEF path
    <2>1. CASE path = WebHttps
      <3>1. rows = <<Reading("service_hardening.http_secure_server_enabled",
                             IF l.no THEN No ELSE Yes)>>
        BY <2>1 DEF JunosReadings, Service, Ssh, SshKnob, WebHttp, WebHttps
      <3>2. path # <<"snmp", "v3">>
        BY <2>1 DEF WebHttps
      <3> QED BY <3>1, <3>2
    <2>2. CASE path = <<"snmp", "v3">>
      <3>1. rows = <<Reading("snmp.v3_only", IF l.no THEN No ELSE Yes)>>
        BY <2>2 DEF JunosReadings, Service, Ssh, SshKnob, WebHttp, WebHttps
      <3>2. path # WebHttps
        BY <2>2 DEF WebHttps
      <3> QED BY <3>1, <3>2
    <2> QED BY <2>1, <2>2
  <1>4. /\ t.https => s.https \/ path = WebHttps
        /\ t.v3 => s.v3 \/ path = <<"snmp", "v3">>
    <2> HIDE DEF path
    <2> QED BY DEF Remembers
  <1>5. JunosState(t)
    <2> HIDE DEF path
    <2>1. l.no \in BOOLEAN /\ s.http \in BOOLEAN /\ s.https \in BOOLEAN /\ s.v3 \in BOOLEAN
          /\ s.community \in BOOLEAN
      BY DEF PathLine, JunosState
    <2> QED BY <2>1 DEF JunosState, Remembers
  <1> HIDE DEF t
  <1>6. ASSUME NEW p, NEW m, At(p, s, n), rows # << >>
        PROVE  LET a == Advance(p)
                   b == Saw(a, path, l)
                   q == Step("juniper", m, p, l)
               IN
               /\ IsParse(b) /\ Alike(a, b) /\ b.state = t /\ b.n = n + 1 /\ q = SetAll(b, rows)
    <2> DEFINE a == Advance(p)
               b == Saw(a, path, l)
               q == Step("juniper", m, p, l)
    <2>1. IsParse(a) /\ a.state = s /\ a.n = n + 1 /\ q = JunosStatement(m, a, path, l)
      BY <1>1, <1>6
    <2> HIDE DEF a, q, path
    <2>2. q = SetAll(b, rows)
      BY <1>6, <2>1, Zenon DEF JunosStatement
    <2>3. b = [a EXCEPT !.state = t]
      BY <2>1, SawAlike DEF t
    <2> HIDE DEF b
    <2>4. Alike(a, b) /\ b.state = t
      BY <2>1, <2>3, Remembering
    <2> HIDE DEF rows
    <2> QED BY <2>1, <2>2, <2>4 DEF Alike, a, b, q
  <1>7. ASSUME NEW r, Says(rows, r)
        PROVE  FindsOne("juniper", s, n, l, t, r.field, n + 1)
    <2>0. rows # << >>
      BY <1>7 DEF Says
    <2> SUFFICES ASSUME NEW p, NEW m, At(p, s, n)
                 PROVE  LET q == Step("juniper", m, p, l) IN
                        q.state = t /\ Finds(Advance(p), q, r, n + 1, "parser")
      BY <1>7 DEF FindsOne, Fits, Says
    <2> DEFINE a == Advance(p)
               b == Saw(a, path, l)
               q == Step("juniper", m, p, l)
    <2>1. /\ IsParse(b) /\ Alike(a, b) /\ b.state = t /\ b.n = n + 1 /\ q = SetAll(b, rows)
      BY <1>6, <2>0
    <2> HIDE DEF a, b, q, rows
    <2>2. Finds(b, q, r, n + 1, "parser") /\ q.state = t
      BY <1>7, <2>1, SetOneFinds
    <2>3. Finds(a, q, r, n + 1, "parser")
      BY <2>1, <2>2, AlikeFinds
    <2> QED BY <2>2, <2>3 DEF a, q
  <1>8. ASSUME NEW r, NEW e, SaysTwo(rows, r, e)
        PROVE  FindsTwo("juniper", s, n, l, t, r.field, e.field)
    <2>0. rows # << >>
      <3> HIDE DEF rows
      <3> QED BY <1>8 DEF SaysTwo
    <2> SUFFICES ASSUME NEW p, NEW m, At(p, s, n)
                 PROVE  LET q == Step("juniper", m, p, l) IN
                        /\ q.state = t
                        /\ \E b : /\ Finds(Advance(p), b, r, n + 1, "parser")
                                  /\ Finds(b, q, e, n + 1, "parser")
      BY <1>8 DEF FindsTwo, SaysTwo
    <2> DEFINE a == Advance(p)
               b == Saw(a, path, l)
               c == SetUnion(b, r)
               q == Step("juniper", m, p, l)
    <2>1. /\ IsParse(b) /\ Alike(a, b) /\ b.state = t /\ b.n = n + 1 /\ q = SetAll(b, rows)
      BY <1>6, <2>0
    <2> HIDE DEF a, b, q, rows
    <2>2. Finds(b, c, r, n + 1, "parser") /\ Finds(c, q, e, n + 1, "parser") /\ q.state = t
      BY <1>8, <2>1, SetAllFinds
    <2> HIDE DEF c
    <2>3. Finds(a, c, r, n + 1, "parser")
      BY <2>1, <2>2, AlikeFinds
    <2> QED BY <2>2, <2>3 DEF a, q
  <1>9. CASE \E r : Says(rows, r)
    <2>1. PICK r : Says(rows, r)
      BY <1>9
    <2> HIDE DEF path, rows
    <2>2. Plain("juniper", s, n, l, t, {r.field})
      BY <1>7, <2>1, Zenon DEF Plain
    <2>3. Seen(s, t, {r.field})
      BY <1>3, <1>4, <2>1 DEF Seen, Says, Reading
    <2> QED BY <1>5, <2>2, <2>3
  <1>10. CASE \E r, e : SaysTwo(rows, r, e)
    <2>1. PICK r, e : SaysTwo(rows, r, e)
      BY <1>10
    <2> HIDE DEF path, rows
    <2>2. Plain("juniper", s, n, l, t, {r.field, e.field})
      BY <1>8, <2>1, Zenon DEF Plain
    <2>3. Seen(s, t, {r.field, e.field})
      BY <1>3, <1>4, <2>1 DEF Seen, SaysTwo, Reading
    <2> QED BY <1>5, <2>2, <2>3
  <1>11. CASE rows = << >>
    <2>1. Asks("juniper", s, n, l, s)
      <3> SUFFICES ASSUME NEW p, NEW m, At(p, s, n), Mappings(m)
                   PROVE  LET q == Step("juniper", m, p, l) IN
                          /\ q.state = s
                          /\ Usable("juniper", m, Key("juniper", l)) =>
                               Finds(Advance(p), q, m[Key("juniper", l)], n + 1,
                                     "learned_mapping")
                          /\ ~Usable("juniper", m, Key("juniper", l)) =>
                               Quiet(Advance(p), q) /\ q.unknown = p.unknown \cup {n + 1}
        BY DEF Asks
      <3> DEFINE a == Advance(p)
                 q == Step("juniper", m, p, l)
      <3>1. /\ IsParse(a) /\ a.state = s /\ a.n = n + 1 /\ a.unknown = p.unknown
            /\ q = JunosStatement(m, a, path, l)
        BY <1>1
      <3> HIDE DEF a, q
      <3>2. q = IF l.path \in DOMAIN m THEN ApplyUnion(a, m[l.path]) ELSE Unrecognized(a)
        <4> HIDE DEF path
        <4> QED BY <1>11, <3>1, Zenon DEF JunosStatement
      <3>3. Key("juniper", l) = l.path
            /\ (Usable("juniper", m, l.path) <=> l.path \in DOMAIN m)
        BY DEF Key, Usable
      <3>4. CASE l.path \in DOMAIN m
        <4>1. m[l.path] \in ReadingType
          BY <3>4 DEF Mappings
        <4>2. Finds(a, q, m[l.path], n + 1, "learned_mapping") /\ q.state = s
          BY <3>1, <3>2, <3>4, <4>1, ApplyUnionFinds
        <4> QED BY <3>3, <3>4, <4>2 DEF a, q
      <3>5. CASE l.path \notin DOMAIN m
        <4>1. /\ IsParse(q) /\ q.config = a.config /\ q.findings = a.findings
              /\ q.unknown = a.unknown \cup {a.n} /\ q.n = a.n /\ q.state = a.state
          BY <3>1, <3>2, <3>5, UnrecognizedParts
        <4>2. Quiet(a, q)
          BY <4>1 DEF Quiet
        <4> QED BY <3>1, <3>3, <3>5, <4>1, <4>2 DEF a, q
      <3> QED BY <3>4, <3>5
    <2>2. Askable("juniper", l) /\ Seen(s, s, {})
      BY DEF Askable, Seen
    <2>3. Plain("juniper", s, n, l, s, {})
      BY <2>1, <2>2, Zenon DEF Plain
    <2> QED BY <2>2, <2>3
  <1> HIDE DEF rows
  <1> QED BY <1>2, <1>9, <1>10, <1>11 DEF RowsTell

\* Whatever it is, a line of JunOS does one of the plain things.
LEMMA JunosKinds ==
  ASSUME NEW s, JunosState(s), NEW n \in Nat, NEW l \in PathLine
  PROVE  \E t, F : JunosState(t) /\ Seen(s, t, F) /\ Kinds("juniper", s, n, l, t, F)
  <1>1. PICK t, F : JunosState(t) /\ Seen(s, t, F) /\ Plain("juniper", s, n, l, t, F)
    <2>1. CASE l.form \in {"blank", "open", "close"}
      <3>1. PICK t : JunosState(t) /\ Seen(s, t, {}) /\ Skips("juniper", s, n, l, t)
        BY <2>1, JunosStructure
      <3>2. Blank("juniper", l)
        BY <2>1, Zenon DEF Blank
      <3>3. Plain("juniper", s, n, l, t, {})
        BY <3>1, <3>2, Zenon DEF Plain
      <3> QED BY <3>1, <3>3
    <2>2. CASE l.form \notin {"blank", "open", "close"}
      BY <2>2, JunosStated
    <2> QED BY <2>1, <2>2
  <1>2. Open("juniper", s) = 0 /\ Open("juniper", t) = 0 /\ ~Opens("juniper", l)
    BY DEF Open, Opens
  <1> QED BY <1>1, <1>2, Zenon DEF Kinds

-----------------------------------------------------------------------------
(* What one line adds, for every vendor.                                   *)

\* What each parser remembers.
StateOf(v, s) ==
  /\ v = "cisco" => CiscoState(s)
  /\ v = "fortinet" => FortiState(s)
  /\ v = "juniper" => JunosState(s)

\* A line of any vendor is one of the kinds.
LEMMA LineKinds ==
  ASSUME NEW v, NEW s, StateOf(v, s), NEW n \in Nat, NEW l \in LineOf(v)
  PROVE  \E t, F : /\ StateOf(v, t) /\ Kinds(v, s, n, l, t, F)
                   /\ v = "juniper" => Seen(s, t, F)
  <1>1. CASE v = "cisco"
    <2>1. PICK t, F : CiscoState(t) /\ Kinds("cisco", s, n, l, t, F)
      BY <1>1, CiscoKinds DEF StateOf, LineOf
    <2> QED BY <1>1, <2>1 DEF StateOf
  <1>2. CASE v = "fortinet"
    <2>1. PICK t, F : FortiState(t) /\ Kinds("fortinet", s, n, l, t, F)
      BY <1>2, FortiKinds DEF StateOf, LineOf
    <2> QED BY <1>2, <2>1 DEF StateOf
  <1>3. CASE v = "juniper"
    <2>1. PICK t, F : JunosState(t) /\ Seen(s, t, F) /\ Kinds("juniper", s, n, l, t, F)
      BY <1>3, JunosKinds DEF StateOf, LineOf
    <2> QED BY <1>3, <2>1 DEF StateOf
  <1>4. CASE v \notin {"cisco", "fortinet", "juniper"}
    <2>1. PICK F : Kinds(v, s, n, l, s, F)
      BY <1>4, GenericKinds DEF LineOf
    <2> QED BY <1>4, <2>1 DEF StateOf
  <1> QED BY <1>1, <1>2, <1>3, <1>4

\* The keys of the mappings that a text can meet, and the values that settings have.
Keys(v, m) ==
  {k \in DOMAIN m : Usable(v, m, k) /\ (v = "cisco" => k \notin DOMAIN Banners)}
Values(v, m) == Nat \cup {m[k].value : k \in Keys(v, m)}

\* C: the lines cited.  U: the lines left for training.
Adds(p, q, C, U, F, V) ==
  /\ Good(q, V) /\ q.n = p.n + 1
  /\ Cites(q) = Cites(p) \cup C /\ q.unknown = p.unknown \cup U
  /\ FieldsIn(p) \cup F \subseteq FieldsIn(q)

\* Reading on keeps everything.
LEMMA AdvanceGood ==
  ASSUME NEW p, NEW V, Good(p, V)
  PROVE  LET a == Advance(p) IN
         /\ Good(a, V) /\ a.n = p.n + 1 /\ a.unknown = p.unknown
         /\ Cites(a) = Cites(p) /\ FieldsIn(a) = FieldsIn(p) /\ Explains(a) = Explains(p)
         /\ a.findings = p.findings /\ a.config = p.config /\ IsParse(a)
  <1> DEFINE a == Advance(p)
  <1>1. /\ IsParse(a) /\ a.config = p.config /\ a.findings = p.findings
        /\ a.unknown = p.unknown /\ a.n = p.n + 1
    BY AdvanceParts DEF Good
  <1> HIDE DEF a
  <1>2. Good(a, V) /\ Cites(a) = Cites(p) /\ FieldsIn(a) = FieldsIn(p)
        /\ Explains(a) = Explains(p)
    BY <1>1 DEF Good, Decided, Evident, Valued, Cites, FieldsIn, Explains
  <1> QED BY <1>1, <1>2 DEF a

\* A line that says nothing.
LEMMA SkipsAdds ==
  ASSUME NEW v, NEW s, NEW n, NEW l, NEW t, NEW p, NEW m, NEW V,
         Skips(v, s, n, l, t), At(p, s, n), Good(p, V)
  PROVE  LET q == Step(v, m, p, l) IN q.state = t /\ Adds(p, q, {}, {}, {}, V)
  <1> DEFINE a == Advance(p)
             q == Step(v, m, p, l)
  <1>1. q.state = t /\ Quiet(a, q) /\ q.unknown = p.unknown
    BY DEF Skips
  <1>2. /\ Good(a, V) /\ a.n = p.n + 1 /\ Cites(a) = Cites(p) /\ FieldsIn(a) = FieldsIn(p)
    BY AdvanceGood
  <1> HIDE DEF a, q
  <1>3. Good(q, V) /\ Cites(q) = Cites(a) /\ FieldsIn(q) = FieldsIn(a)
    BY <1>1, <1>2, QuietGood
  <1>4. q.n = a.n
    BY <1>1 DEF Quiet
  <1> QED BY <1>1, <1>2, <1>3, <1>4 DEF Adds, q

\* A line that states a setting.
LEMMA FindsOneAdds ==
  ASSUME NEW v, NEW s, NEW n, NEW l, NEW t, NEW f, NEW k \in Nat, NEW p, NEW m, NEW V,
         FindsOne(v, s, n, l, t, f, k), At(p, s, n), Good(p, V), Nat \subseteq V
  PROVE  LET q == Step(v, m, p, l) IN q.state = t /\ Adds(p, q, {k}, {}, {f}, V)
  <1> DEFINE a == Advance(p)
             q == Step(v, m, p, l)
  <1>1. q.state = t
    BY DEF FindsOne
  <1>2. PICK r : Fits(v, p, l, r) /\ r.field = f /\ Finds(a, q, r, k, "parser")
    BY DEF FindsOne
  <1>3. /\ Good(a, V) /\ a.n = p.n + 1 /\ Cites(a) = Cites(p) /\ FieldsIn(a) = FieldsIn(p)
        /\ IsParse(a) /\ a.unknown = p.unknown
    BY AdvanceGood
  <1>4. r \in ReadingType /\ (r.field \in ScalarFields => r.value \in V)
    BY <1>2 DEF Fits, ParserReading
  <1> HIDE DEF a, q
  <1>5. Good(q, V)
    BY <1>2, <1>3, <1>4, FindsGood DEF Sources
  <1>6. Cites(q) = Cites(a) \cup {k} /\ FieldsIn(q) = FieldsIn(a) \cup {f}
    BY <1>2, <1>3, <1>4, FindsCites DEF Sources
  <1>7. q.n = a.n /\ q.unknown = a.unknown
    BY <1>2 DEF Finds
  <1> QED BY <1>1, <1>3, <1>5, <1>6, <1>7 DEF Adds, q

\* A line that states two.
LEMMA FindsTwoAdds ==
  ASSUME NEW v, NEW s, NEW n \in Nat, NEW l, NEW t, NEW f, NEW g, NEW p, NEW m, NEW V,
         FindsTwo(v, s, n, l, t, f, g), At(p, s, n), Good(p, V), Nat \subseteq V
  PROVE  LET q == Step(v, m, p, l) IN q.state = t /\ Adds(p, q, {n + 1}, {}, {f, g}, V)
  <1> DEFINE a == Advance(p)
             q == Step(v, m, p, l)
  <1>1. q.state = t
    BY DEF FindsTwo
  <1>2. PICK b, r, e : /\ ParserReading(r) /\ r.field = f /\ ParserReading(e) /\ e.field = g
                       /\ Finds(a, b, r, n + 1, "parser") /\ Finds(b, q, e, n + 1, "parser")
    BY DEF FindsTwo
  <1>3. /\ Good(a, V) /\ a.n = p.n + 1 /\ Cites(a) = Cites(p) /\ FieldsIn(a) = FieldsIn(p)
        /\ IsParse(a) /\ a.unknown = p.unknown
    BY AdvanceGood
  <1>4. /\ r \in ReadingType /\ (r.field \in ScalarFields => r.value \in V)
        /\ e \in ReadingType /\ (e.field \in ScalarFields => e.value \in V)
    BY <1>2 DEF ParserReading
  <1> HIDE DEF a, q
  <1>0. "parser" \in Sources /\ n + 1 \in Nat
    BY DEF Sources
  <1>5. Good(b, V) /\ IsParse(b)
    <2>1. Finds(a, b, r, n + 1, "parser")
      BY <1>2
    <2>2. Good(b, V)
      BY <1>0, <1>3, <1>4, <2>1, FindsGood
    <2> QED BY <2>1, <2>2 DEF Finds
  <1>6. Good(q, V)
    <2>1. Finds(b, q, e, n + 1, "parser")
      BY <1>2
    <2> QED BY <1>0, <1>4, <1>5, <2>1, FindsGood
  <1>7. Cites(b) = Cites(a) \cup {n + 1} /\ FieldsIn(b) = FieldsIn(a) \cup {f}
    BY <1>2, <1>3, <1>4, FindsCites DEF Sources
  <1>8. Cites(q) = Cites(b) \cup {n + 1} /\ FieldsIn(q) = FieldsIn(b) \cup {g}
    BY <1>2, <1>4, <1>5, FindsCites DEF Sources
  <1>9. q.n = a.n /\ q.unknown = a.unknown
    BY <1>2 DEF Finds
  <1> QED BY <1>1, <1>3, <1>6, <1>7, <1>8, <1>9 DEF Adds, q

\* A line that no rule takes.
LEMMA AsksAdds ==
  ASSUME NEW v, NEW s, NEW n \in Nat, NEW l, NEW t, NEW p, NEW m,
         Asks(v, s, n, l, t), Askable(v, l), At(p, s, n), Mappings(m), Good(p, Values(v, m))
  PROVE  LET q == Step(v, m, p, l)
             V == Values(v, m)
         IN
         /\ q.state = t
         /\ Usable(v, m, Key(v, l)) => Adds(p, q, {n + 1}, {}, {}, V)
         /\ ~Usable(v, m, Key(v, l)) => Adds(p, q, {}, {n + 1}, {}, V)
  <1> DEFINE a == Advance(p)
             q == Step(v, m, p, l)
             k == Key(v, l)
             V == Values(v, m)
  <1>1. /\ q.state = t
        /\ Usable(v, m, k) => Finds(a, q, m[k], n + 1, "learned_mapping")
        /\ ~Usable(v, m, k) => Quiet(a, q) /\ q.unknown = p.unknown \cup {n + 1}
    BY DEF Asks
  <1> HIDE DEF V
  <1>2. /\ Good(a, V) /\ a.n = p.n + 1 /\ Cites(a) = Cites(p) /\ FieldsIn(a) = FieldsIn(p)
        /\ IsParse(a) /\ a.unknown = p.unknown
    BY AdvanceGood DEF V
  <1> HIDE DEF a, q
  <1>3. ASSUME Usable(v, m, k) PROVE Adds(p, q, {n + 1}, {}, {}, V)
    <2>1. k \in Keys(v, m)
      BY <1>3 DEF Keys, Usable, Askable, Key
    <2>2. m[k] \in ReadingType /\ m[k].value \in V
      BY <2>1 DEF Keys, Mappings, V, Values
    <2>3. Finds(a, q, m[k], n + 1, "learned_mapping")
      BY <1>1, <1>3
    <2> HIDE DEF k
    <2>0. "learned_mapping" \in Sources /\ n + 1 \in Nat
      BY DEF Sources
    <2>4. Good(q, V)
      <3> DEFINE r == m[k]
      <3>1. r \in ReadingType /\ r.value \in V /\ Finds(a, q, r, n + 1, "learned_mapping")
        BY <2>2, <2>3
      <3> HIDE DEF r
      <3> QED BY <1>2, <2>0, <3>1, FindsGood
    <2>5. Cites(q) = Cites(a) \cup {n + 1} /\ FieldsIn(a) \subseteq FieldsIn(q)
      <3> DEFINE r == m[k]
      <3>1. r \in ReadingType /\ Finds(a, q, r, n + 1, "learned_mapping")
        BY <2>2, <2>3
      <3> HIDE DEF r
      <3>2. Cites(q) = Cites(a) \cup {n + 1} /\ FieldsIn(q) = FieldsIn(a) \cup {r.field}
        BY <1>2, <2>0, <3>1, FindsCites
      <3> QED BY <3>2
    <2>6. q.n = a.n /\ q.unknown = a.unknown
      BY <2>3 DEF Finds
    <2> QED BY <1>2, <2>4, <2>5, <2>6 DEF Adds
  <1>4. ASSUME ~Usable(v, m, k) PROVE Adds(p, q, {}, {n + 1}, {}, V)
    <2>1. Quiet(a, q) /\ q.unknown = p.unknown \cup {n + 1}
      BY <1>1, <1>4
    <2>2. Good(q, V) /\ Cites(q) = Cites(a) /\ FieldsIn(q) = FieldsIn(a)
      BY <1>2, <2>1, QuietGood
    <2>3. q.n = a.n
      BY <2>1 DEF Quiet
    <2> QED BY <1>2, <2>1, <2>2, <2>3 DEF Adds
  <1> HIDE DEF k
  <1> QED BY <1>1, <1>3, <1>4 DEF q, k, V

\* The lines cited and the lines left for training, by where the line stands.
Effect(v, m, n, l, s, t, C, U) ==
  \/ /\ Open(v, s) = 0 /\ Open(v, t) = 0 /\ ~Opens(v, l)
     /\ \/ Blank(v, l) /\ C = {} /\ U = {}
        \/ C = {n + 1} /\ U = {}
        \/ C = {} /\ U = {n + 1} /\ Askable(v, l) /\ ~Usable(v, m, Key(v, l))
  \/ Open(v, s) = 0 /\ Open(v, t) = n + 1 /\ Opens(v, l) /\ C = {} /\ U = {}
  \/ /\ Open(v, s) # 0 /\ Open(v, t) = Open(v, s) /\ ~Closes(v, l) /\ C = {} /\ U = {}
  \/ Open(v, s) # 0 /\ Open(v, t) = 0 /\ Closes(v, l) /\ C = {Open(v, s)} /\ U = {}

\* Every kind of line has such an effect.
LEMMA KindsEffect ==
  ASSUME NEW v, NEW s, StateOf(v, s), NEW n \in Nat, NEW l, NEW t, NEW F, NEW p, NEW m,
         Kinds(v, s, n, l, t, F), At(p, s, n), Mappings(m), Good(p, Values(v, m))
  PROVE  LET q == Step(v, m, p, l) IN
         /\ q.state = t
         /\ \E C, U : Adds(p, q, C, U, F, Values(v, m)) /\ Effect(v, m, n, l, s, t, C, U)
  <1> DEFINE q == Step(v, m, p, l)
             V == Values(v, m)
             k == Open(v, s)
  <1>0. Nat \subseteq V /\ Good(p, V) /\ n + 1 \in Nat
    BY DEF Values
  <1> HIDE DEF V
  <1>1. k \in Nat
    BY DEF Open, StateOf, CiscoState
  <1> HIDE DEF k
  <1>2. CASE Open(v, s) = 0 /\ Open(v, t) = 0 /\ ~Opens(v, l) /\ Plain(v, s, n, l, t, F)
    <2>1. CASE Skips(v, s, n, l, t) /\ Blank(v, l) /\ F = {}
      <3>1. q.state = t /\ Adds(p, q, {}, {}, F, V)
        BY <1>0, <2>1, SkipsAdds
      <3>2. Effect(v, m, n, l, s, t, {}, {})
        BY <1>2, <2>1, Zenon DEF Effect
      <3> HIDE DEF q
      <3> QED BY <3>1, <3>2 DEF V, q
    <2>2. CASE \E f : FindsOne(v, s, n, l, t, f, n + 1) /\ F = {f}
      <3>0. PICK f : FindsOne(v, s, n, l, t, f, n + 1) /\ F = {f}
        BY <2>2
      <3>1. q.state = t /\ Adds(p, q, {n + 1}, {}, F, V)
        BY <1>0, <3>0, FindsOneAdds
      <3>2. Effect(v, m, n, l, s, t, {n + 1}, {})
        BY <1>2, Zenon DEF Effect
      <3> HIDE DEF q
      <3> QED BY <3>1, <3>2 DEF V, q
    <2>3. CASE \E f, g : FindsTwo(v, s, n, l, t, f, g) /\ F = {f, g}
      <3>0. PICK f, g : FindsTwo(v, s, n, l, t, f, g) /\ F = {f, g}
        BY <2>3
      <3>1. q.state = t /\ Adds(p, q, {n + 1}, {}, F, V)
        BY <1>0, <3>0, FindsTwoAdds
      <3>2. Effect(v, m, n, l, s, t, {n + 1}, {})
        BY <1>2, Zenon DEF Effect
      <3> HIDE DEF q
      <3> QED BY <3>1, <3>2 DEF V, q
    <2>4. CASE Asks(v, s, n, l, t) /\ Askable(v, l) /\ F = {}
      <3>1. /\ q.state = t
            /\ Usable(v, m, Key(v, l)) => Adds(p, q, {n + 1}, {}, F, V)
            /\ ~Usable(v, m, Key(v, l)) => Adds(p, q, {}, {n + 1}, F, V)
        BY <2>4, AsksAdds DEF V
      <3>2. CASE Usable(v, m, Key(v, l))
        <4>1. Effect(v, m, n, l, s, t, {n + 1}, {})
          BY <1>2, Zenon DEF Effect
        <4> HIDE DEF q
        <4> QED BY <3>1, <3>2, <4>1 DEF V, q
      <3>3. CASE ~Usable(v, m, Key(v, l))
        <4>1. Effect(v, m, n, l, s, t, {}, {n + 1})
          BY <1>2, <2>4, <3>3, Zenon DEF Effect
        <4> HIDE DEF q
        <4> QED BY <3>1, <3>3, <4>1 DEF V, q
      <3> QED BY <3>2, <3>3
    <2> QED BY <1>2, <2>1, <2>2, <2>3, <2>4, Zenon DEF Plain
  <1>3. CASE /\ Open(v, s) = 0 /\ Open(v, t) = n + 1 /\ Opens(v, l)
             /\ Skips(v, s, n, l, t) /\ F = {}
    <2>1. q.state = t /\ Adds(p, q, {}, {}, F, V)
      BY <1>0, <1>3, SkipsAdds
    <2>2. Effect(v, m, n, l, s, t, {}, {})
      BY <1>3, Zenon DEF Effect
    <2> HIDE DEF q
    <2> QED BY <2>1, <2>2 DEF V, q
  <1>4. CASE /\ Open(v, s) # 0 /\ Open(v, t) = Open(v, s) /\ ~Closes(v, l)
             /\ Skips(v, s, n, l, t) /\ F = {}
    <2>1. q.state = t /\ Adds(p, q, {}, {}, F, V)
      BY <1>0, <1>4, SkipsAdds
    <2>2. Effect(v, m, n, l, s, t, {}, {})
      BY <1>4, Zenon DEF Effect
    <2> HIDE DEF q
    <2> QED BY <2>1, <2>2 DEF V, q
  <1>5. CASE /\ Open(v, s) # 0 /\ Open(v, t) = 0 /\ Closes(v, l)
             /\ \E f : FindsOne(v, s, n, l, t, f, Open(v, s)) /\ F = {f}
    <2>1. PICK f : FindsOne(v, s, n, l, t, f, k) /\ F = {f}
      BY <1>5 DEF k
    <2>2. q.state = t /\ Adds(p, q, {k}, {}, F, V)
      BY <1>0, <1>1, <2>1, FindsOneAdds
    <2>3. Effect(v, m, n, l, s, t, {k}, {})
      BY <1>5, Zenon DEF Effect, k
    <2> HIDE DEF q
    <2> QED BY <2>2, <2>3 DEF V, q
  <1> QED BY <1>2, <1>3, <1>4, <1>5, Zenon DEF Kinds

-----------------------------------------------------------------------------
(* The account of the lines.                                               *)

\* Whether a banner is open after so many lines, told without the parser.
Inside(v, L, i) ==
  \E j \in 1 .. i : Opens(v, L[j]) /\ \A k \in j + 1 .. i : ~Closes(v, L[k])

\* Every line that says something is cited or left for training, but for the first
\* line of the banner that is open.
Accounted(v, m, L, i, p) ==
  LET o == Open(v, p.state) IN
  /\ p.unknown \subseteq 1 .. i /\ Cites(p) \subseteq 1 .. i
  /\ o # 0 <=> Inside(v, L, i)
  /\ o # 0 => o \in 1 .. i /\ o \notin Cites(p) /\ o \notin p.unknown /\ Opens(v, L[o])
  /\ \A k \in 1 .. i : k # o /\ ~Blank(v, L[k]) /\ ~Inside(v, L, k - 1)
                         => (k \in Cites(p) <=> k \notin p.unknown)
  /\ \A k \in p.unknown : Askable(v, L[k]) /\ ~Usable(v, m, Key(v, L[k]))

\* No line closes a banner and opens one.
LEMMA OpensNotCloses ==
  ASSUME NEW v, NEW l
  PROVE  ~(Opens(v, l) /\ Closes(v, l))
  <1>1. Delimiter \notin DOMAIN Banners
    BY BannersMap, Zenon DEF Delimiter
  <1> QED BY <1>1 DEF Opens, Closes

\* Whether a banner is open after one more line.
LEMMA InsideStep ==
  ASSUME NEW v, NEW L, NEW i \in Nat
  PROVE  /\ Opens(v, L[i + 1]) => Inside(v, L, i + 1)
         /\ ~Opens(v, L[i + 1]) =>
              (Inside(v, L, i + 1) <=> Inside(v, L, i) /\ ~Closes(v, L[i + 1]))
         /\ Closes(v, L[i + 1]) => ~Inside(v, L, i + 1)
         /\ Inside(v, L, i) /\ ~Closes(v, L[i + 1]) => Inside(v, L, i + 1)
  <1>1. Opens(v, L[i + 1]) => Inside(v, L, i + 1)
    BY DEF Inside
  <1>2. ASSUME Inside(v, L, i), ~Closes(v, L[i + 1]) PROVE Inside(v, L, i + 1)
    <2>1. PICK j \in 1 .. i : Opens(v, L[j]) /\ \A k \in j + 1 .. i : ~Closes(v, L[k])
      BY <1>2 DEF Inside
    <2>2. \A k \in j + 1 .. i + 1 : ~Closes(v, L[k])
      <3> TAKE k \in j + 1 .. i + 1
      <3>1. k = i + 1 \/ k \in j + 1 .. i
        OBVIOUS
      <3> QED BY <1>2, <2>1, <3>1
    <2> QED BY <2>1, <2>2 DEF Inside
  <1>3. ASSUME Inside(v, L, i + 1), ~Opens(v, L[i + 1])
        PROVE  Inside(v, L, i) /\ ~Closes(v, L[i + 1])
    <2>1. PICK j \in 1 .. i + 1 :
            Opens(v, L[j]) /\ \A k \in j + 1 .. i + 1 : ~Closes(v, L[k])
      BY <1>3 DEF Inside
    <2>2. j \in 1 .. i
      BY <1>3, <2>1
    <2>3. ~Closes(v, L[i + 1]) /\ \A k \in j + 1 .. i : ~Closes(v, L[k])
      BY <2>1, <2>2
    <2> QED BY <2>1, <2>2, <2>3 DEF Inside
  <1>4. ASSUME Closes(v, L[i + 1]) PROVE ~Inside(v, L, i + 1)
    BY <1>3, <1>4, OpensNotCloses
  <1> QED BY <1>1, <1>2, <1>3, <1>4

\* One more line keeps the account.
LEMMA AccountedStep ==
  ASSUME NEW v, NEW m, NEW L, NEW i \in Nat, NEW p, NEW q, NEW C, NEW U, NEW F, NEW V,
         Accounted(v, m, L, i, p), Adds(p, q, C, U, F, V),
         Effect(v, m, i, L[i + 1], p.state, q.state, C, U)
  PROVE  Accounted(v, m, L, i + 1, q)
  <1> DEFINE l == L[i + 1]
             o == Open(v, p.state)
             w == Open(v, q.state)
  <1>1. /\ p.unknown \subseteq 1 .. i /\ Cites(p) \subseteq 1 .. i
        /\ o # 0 <=> Inside(v, L, i)
        /\ o # 0 => o \in 1 .. i /\ o \notin Cites(p) /\ o \notin p.unknown /\ Opens(v, L[o])
        /\ \A k \in 1 .. i : k # o /\ ~Blank(v, L[k]) /\ ~Inside(v, L, k - 1)
                               => (k \in Cites(p) <=> k \notin p.unknown)
        /\ \A k \in p.unknown : Askable(v, L[k]) /\ ~Usable(v, m, Key(v, L[k]))
    BY DEF Accounted
  <1>2. Cites(q) = Cites(p) \cup C /\ q.unknown = p.unknown \cup U
    BY DEF Adds
  <1>3. \/ /\ o = 0 /\ w = 0 /\ ~Opens(v, l)
           /\ \/ Blank(v, l) /\ C = {} /\ U = {}
              \/ C = {i + 1} /\ U = {}
              \/ C = {} /\ U = {i + 1} /\ Askable(v, l) /\ ~Usable(v, m, Key(v, l))
        \/ o = 0 /\ w = i + 1 /\ Opens(v, l) /\ C = {} /\ U = {}
        \/ o # 0 /\ w = o /\ ~Closes(v, l) /\ C = {} /\ U = {}
        \/ o # 0 /\ w = 0 /\ Closes(v, l) /\ C = {o} /\ U = {}
    BY DEF Effect
  <1>4. /\ Opens(v, l) => Inside(v, L, i + 1)
        /\ ~Opens(v, l) => (Inside(v, L, i + 1) <=> Inside(v, L, i) /\ ~Closes(v, l))
        /\ Closes(v, l) => ~Inside(v, L, i + 1)
        /\ Inside(v, L, i) /\ ~Closes(v, l) => Inside(v, L, i + 1)
    BY InsideStep
  <1>5. (i + 1) - 1 = i /\ L[i + 1] = l
    OBVIOUS
  <1> HIDE DEF l, o, w
  <1>6. q.unknown \subseteq 1 .. i + 1 /\ Cites(q) \subseteq 1 .. i + 1
    BY <1>1, <1>2, <1>3
  <1>7. w # 0 <=> Inside(v, L, i + 1)
    BY <1>1, <1>3, <1>4
  <1>8. w # 0 => w \in 1 .. i + 1 /\ w \notin Cites(q) /\ w \notin q.unknown /\ Opens(v, L[w])
    BY <1>1, <1>2, <1>3, <1>5
  <1>9. ASSUME NEW k \in 1 .. i + 1, k # w, ~Blank(v, L[k]), ~Inside(v, L, k - 1)
        PROVE  k \in Cites(q) <=> k \notin q.unknown
    <2>1. CASE k = i + 1
      <3>1. o = 0 /\ ~Blank(v, l)
        BY <1>1, <1>5, <1>9, <2>1
      <3>2. k \notin Cites(p) /\ k \notin p.unknown
        BY <1>1, <2>1
      <3> QED BY <1>2, <1>3, <1>9, <2>1, <3>1, <3>2
    <2>2. CASE k \in 1 .. i
      <3>1. CASE k = o
        BY <1>1, <1>2, <1>3, <1>9, <2>2, <3>1
      <3>2. CASE k # o
        <4>1. k \in Cites(p) <=> k \notin p.unknown
          BY <1>1, <1>9, <2>2, <3>2
        <4>2. k \notin C /\ k \notin U
          BY <1>3, <2>2, <3>2
        <4> QED BY <1>2, <4>1, <4>2
      <3> QED BY <3>1, <3>2
    <2>3. k = i + 1 \/ k \in 1 .. i
      BY <1>9
    <2> QED BY <2>1, <2>2, <2>3
  <1>10. \A k \in q.unknown : Askable(v, L[k]) /\ ~Usable(v, m, Key(v, L[k]))
    BY <1>1, <1>2, <1>3, <1>5
  <1> QED BY <1>6, <1>7, <1>8, <1>9, <1>10 DEF Accounted, w

-----------------------------------------------------------------------------
(* The passwords of the administrators of FortiOS: the weakest decides.    *)

\* Once a password was stored in clear the field is No, unless a mapping set it.
Weakest(L, p) ==
  (\A i \in DOMAIN p.findings :
     p.findings[i].reading.field = Password => p.findings[i].source = "parser") =>
    ((\E i \in DOMAIN p.findings : /\ p.findings[i].reading.field = Password
                                   /\ "ENC" \notin L[p.findings[i].line].words)
       => Get(p.config, Password) = No)

\* What finds nothing does not touch it.
LEMMA WeakestQuiet ==
  ASSUME NEW L, NEW p, NEW q, Weakest(L, p), Quiet(p, q)
  PROVE  Weakest(L, q)
  <1>1. q.findings = p.findings /\ Get(q.config, Password) = Get(p.config, Password)
    BY DEF Quiet, Get
  <1> QED BY <1>1 DEF Weakest

\* A finding keeps it when the parser weighs it against the value so far.
LEMMA WeakestFinds ==
  ASSUME NEW L, NEW p, NEW q, NEW r \in ReadingType, NEW n \in Nat, NEW source \in Sources,
         IsParse(p), Weakest(L, p), Finds(p, q, r, n, source),
         r.field = Password /\ source = "parser" =>
           r.value = IF Get(p.config, Password) # No /\ "ENC" \in L[n].words THEN Yes ELSE No
  PROVE  Weakest(L, q)
  <1> DEFINE k == Len(p.findings)
             g == Get(p.config, Password)
             h == Get(q.config, Password)
             enc(x) == "ENC" \in L[x].words
  <1>1. /\ k \in Nat /\ DOMAIN p.findings = 1 .. k /\ DOMAIN q.findings = 1 .. k + 1
        /\ \A i \in 1 .. k : q.findings[i] = p.findings[i]
        /\ q.findings[k + 1] = [reading |-> r, line |-> n, source |-> source]
    <2>1. IsParse(p) /\ Finds(p, q, r, n, source)
      OBVIOUS
    <2> QED BY ONLY <2>1, r \in ReadingType, n \in Nat, source \in Sources, FindsFindings
  <1>2. Password \in ScalarFields
    BY DEF Password, ScalarFields, BooleanFields
  <1>3. h = IF r.field = Password THEN r.value ELSE g
    BY <1>2 DEF Finds, Get, With
  <1>4. r.field = Password /\ source = "parser" =>
          r.value = IF g # No /\ enc(n) THEN Yes ELSE No
    OBVIOUS
  <1> HIDE DEF g, h, k, enc
  <1> SUFFICES ASSUME \A i \in DOMAIN q.findings :
                        q.findings[i].reading.field = Password =>
                          q.findings[i].source = "parser",
                      NEW i \in DOMAIN q.findings,
                      q.findings[i].reading.field = Password, ~enc(q.findings[i].line)
               PROVE  h = No
    BY DEF Weakest, enc, h
  <1>5. \A j \in DOMAIN p.findings :
          p.findings[j].reading.field = Password => p.findings[j].source = "parser"
    BY <1>1
  <1>6. CASE i = k + 1
    <2>1. r.field = Password /\ source = "parser" /\ ~enc(n)
      BY <1>1, <1>6
    <2> QED BY <1>3, <1>4, <2>1 DEF No
  <1>7. CASE i \in 1 .. k
    <2>1. /\ i \in DOMAIN p.findings /\ p.findings[i].reading.field = Password
          /\ ~enc(p.findings[i].line)
      BY <1>1, <1>7
    <2>2. g = No
      BY <1>5, <2>1 DEF Weakest, enc, g
    <2>3. r.field = Password => source = "parser"
      BY <1>1
    <2> QED BY <1>3, <1>4, <2>2, <2>3 DEF No
  <1> QED BY <1>1, <1>6, <1>7

\* One more line keeps it.
LEMMA WeakestStep ==
  ASSUME NEW s, NEW n \in Nat, NEW L, NEW t, NEW F, NEW p, NEW m,
         Kinds("fortinet", s, n, L[n + 1], t, F), At(p, s, n), Mappings(m), Weakest(L, p)
  PROVE  Weakest(L, Step("fortinet", m, p, L[n + 1]))
  <1> DEFINE l == L[n + 1]
             a == Advance(p)
             q == Step("fortinet", m, p, l)
  <1>1. /\ IsParse(a) /\ a.findings = p.findings /\ a.config = p.config /\ n + 1 \in Nat
    BY AdvanceParts DEF At
  <1>2. Weakest(L, a)
    BY <1>1 DEF Weakest
  <1>3. "parser" \in Sources /\ "learned_mapping" \in Sources
    BY DEF Sources
  <1>4. Open("fortinet", s) = 0
    BY DEF Open
  <1> HIDE DEF a, q, l
  <1>5. CASE Skips("fortinet", s, n, l, t)
    <2>1. Quiet(a, q)
      BY <1>5 DEF Skips, a, q
    <2> QED BY <1>2, <2>1, WeakestQuiet DEF q, l
  <1>6. CASE \E f : FindsOne("fortinet", s, n, l, t, f, n + 1)
    <2>1. PICK r : Fits("fortinet", p, l, r) /\ Finds(a, q, r, n + 1, "parser")
      BY <1>6 DEF FindsOne, a, q
    <2>2. r \in ReadingType
      BY <2>1 DEF Fits, ParserReading
    <2>3. r.field = Password =>
            r.value = IF Get(a.config, Password) # No /\ "ENC" \in L[n + 1].words
                      THEN Yes ELSE No
      BY <1>1, <2>1 DEF Fits, l
    <2>4. Weakest(L, q)
      BY <1>1, <1>2, <1>3, <2>1, <2>2, <2>3, WeakestFinds
    <2> QED BY <2>4 DEF q, l
  <1>7. CASE \E f, g : FindsTwo("fortinet", s, n, l, t, f, g)
    <2>1. PICK b, r, e : /\ ParserReading(r) /\ ParserReading(e)
                         /\ r.field # Password /\ e.field # Password
                         /\ Finds(a, b, r, n + 1, "parser")
                         /\ Finds(b, q, e, n + 1, "parser")
      BY <1>7 DEF FindsTwo, a, q
    <2>2. r \in ReadingType /\ e \in ReadingType /\ IsParse(b)
      BY <2>1 DEF ParserReading, Finds
    <2>3. Weakest(L, b)
      BY <1>1, <1>2, <1>3, <2>1, <2>2, WeakestFinds
    <2>4. Weakest(L, q)
      BY <1>1, <1>3, <2>1, <2>2, <2>3, WeakestFinds
    <2> QED BY <2>4 DEF q, l
  <1>8. CASE Asks("fortinet", s, n, l, t)
    <2> DEFINE k == Key("fortinet", l)
               r == m[k]
    <2>1. /\ Usable("fortinet", m, k) => Finds(a, q, r, n + 1, "learned_mapping")
          /\ ~Usable("fortinet", m, k) => Quiet(a, q)
      BY <1>8 DEF Asks, a, q
    <2>2. Usable("fortinet", m, k) => r \in ReadingType
      BY DEF Usable, Mappings
    <2> HIDE DEF k, r
    <2>3. CASE Usable("fortinet", m, k)
      <3>1. Weakest(L, q)
        BY <1>1, <1>2, <1>3, <2>1, <2>2, <2>3, WeakestFinds
      <3> QED BY <3>1 DEF q, l
    <2>4. CASE ~Usable("fortinet", m, k)
      <3>1. Weakest(L, q)
        BY <1>2, <2>1, <2>4, WeakestQuiet
      <3> QED BY <3>1 DEF q, l
    <2> QED BY <2>3, <2>4
  <1>9. Plain("fortinet", s, n, l, t, F) \/ Skips("fortinet", s, n, l, t)
    BY <1>4, Zenon DEF Kinds, l
  <1> QED BY <1>5, <1>6, <1>7, <1>8, <1>9, Zenon DEF Plain

-----------------------------------------------------------------------------
(* Every number of lines.                                                  *)

\* The facts of JunOS at the end of the file rest on statements.
Founded(p) ==
  /\ p.state.https => "service_hardening.http_secure_server_enabled" \in FieldsIn(p)
  /\ p.state.v3 => "snmp.v3_only" \in FieldsIn(p)

\* What holds of a parse after any number of lines.
Sound(v, m, L, i, p) ==
  /\ Good(p, Values(v, m)) /\ StateOf(v, p.state) /\ p.n = i
  /\ Accounted(v, m, L, i, p)
  /\ v = "fortinet" => Weakest(L, p)
  /\ v = "juniper" => Founded(p)

\* It holds before the first line.
LEMMA SoundStart ==
  ASSUME NEW v, NEW m, NEW L
  PROVE  Sound(v, m, L, 0, Start(v))
  <1> DEFINE p == Start(v)
             s == p.state
  <1>1. p = NewParse(s) /\ StateOf(v, s) /\ Open(v, s) = 0 /\ (v = "juniper" => ~s.https /\ ~s.v3)
    <2>1. CASE v = "cisco"
      <3> DEFINE u == [context |-> "none", name |-> "none", banner |-> NoBanner]
      <3>1. p = NewParse(u) /\ s = u
        BY <2>1 DEF Start, CiscoStart, NewParse
      <3>2. CiscoState(u) /\ u.banner = NoBanner
        BY DEF CiscoState
      <3> HIDE DEF u
      <3> QED BY <2>1, <3>1, <3>2 DEF StateOf, Open
    <2>2. CASE v = "fortinet"
      <3> DEFINE u == [stack |-> << >>, protocols |-> {}, allowaccess |-> FALSE,
                       v3 |-> FALSE, community |-> FALSE]
      <3>1. p = NewParse(u) /\ s = u
        BY <2>2 DEF Start, FortiOSStart, NewParse
      <3>2. FortiState(u)
        BY DEF FortiState
      <3> HIDE DEF u
      <3> QED BY <2>2, <3>1, <3>2 DEF StateOf, Open
    <2>3. CASE v = "juniper"
      <3> DEFINE u == [stack |-> << >>, http |-> FALSE, https |-> FALSE, v3 |-> FALSE,
                       community |-> FALSE]
      <3>1. p = NewParse(u) /\ s = u
        BY <2>3 DEF Start, JunosStart, NewParse
      <3>2. JunosState(u) /\ ~u.https /\ ~u.v3
        BY DEF JunosState
      <3> HIDE DEF u
      <3> QED BY <2>3, <3>1, <3>2 DEF StateOf, Open
    <2>4. CASE v \notin {"cisco", "fortinet", "juniper"}
      BY <2>4 DEF Start, GenericStart, NewParse, StateOf, Open
    <2> QED BY <2>1, <2>2, <2>3, <2>4
  <1> HIDE DEF p, s
  <1>2. /\ p = [config |-> EmptyConfig, findings |-> << >>, unknown |-> {}, n |-> 0, state |-> s]
    BY <1>1 DEF NewParse
  <1>3. /\ EmptyConfig.scalars = << >> /\ EmptyConfig.interfaces = << >>
        /\ EmptyConfig.policies = << >> /\ EmptyConfig.lists = [f \in ListFields |-> {}]
        /\ EmptyConfig = [scalars |-> EmptyConfig.scalars, lists |-> EmptyConfig.lists,
                          interfaces |-> EmptyConfig.interfaces,
                          policies |-> EmptyConfig.policies]
    BY DEF EmptyConfig
  <1>4. DOMAIN << >> = {} /\ << >> = [x \in DOMAIN << >> |-> << >>[x]]
    OBVIOUS
  <1>5. IsConfig(EmptyConfig)
    BY <1>3, <1>4 DEF IsConfig
  <1>6. IsParse(p)
    BY <1>2, <1>5 DEF IsParse
  <1>7. Cites(p) = {} /\ FieldsIn(p) = {}
    BY <1>2 DEF Cites, FieldsIn
  <1>8. Decided(p) /\ Evident(p) /\ Valued(p, Values(v, m))
    BY <1>2, <1>3, <1>4 DEF Decided, Evident, Valued
  <1>9. Accounted(v, m, L, 0, p)
    <2>1. ~Inside(v, L, 0)
      BY DEF Inside
    <2> QED BY <1>1, <1>2, <1>7, <2>1 DEF Accounted, s
  <1>10. Weakest(L, p)
    BY <1>2 DEF Weakest
  <1>11. v = "juniper" => Founded(p)
    BY <1>1, <1>2 DEF Founded
  <1> QED BY <1>1, <1>2, <1>6, <1>8, <1>9, <1>10, <1>11 DEF Sound, Good, p, s

\* One more line keeps it.
LEMMA SoundStep ==
  ASSUME NEW v, NEW m, Mappings(m), NEW L, NEW i \in Nat, L[i + 1] \in LineOf(v),
         NEW p, Sound(v, m, L, i, p)
  PROVE  Sound(v, m, L, i + 1, Step(v, m, p, L[i + 1]))
  <1> DEFINE l == L[i + 1]
             s == p.state
             V == Values(v, m)
             q == Step(v, m, p, l)
  <1>1. /\ Good(p, V) /\ StateOf(v, s) /\ At(p, s, i) /\ p.n = i
    BY DEF Sound, Good, At
  <1>2. PICK t, F : /\ StateOf(v, t) /\ Kinds(v, s, i, l, t, F)
                    /\ v = "juniper" => Seen(s, t, F)
    BY <1>1, LineKinds
  <1> HIDE DEF l, s, V
  <1>3. PICK C, U : /\ q.state = t
                    /\ Adds(p, q, C, U, F, V) /\ Effect(v, m, i, l, s, t, C, U)
    BY <1>1, <1>2, KindsEffect DEF V
  <1> HIDE DEF q
  <1>4. Good(q, V) /\ q.n = i + 1 /\ FieldsIn(p) \cup F \subseteq FieldsIn(q)
    BY <1>1, <1>3 DEF Adds
  <1>5. Accounted(v, m, L, i + 1, q)
    <2>1. Accounted(v, m, L, i, p) /\ Effect(v, m, i, L[i + 1], p.state, q.state, C, U)
      BY <1>3 DEF Sound, l, s
    <2> QED BY <1>3, <2>1, AccountedStep
  <1>6. ASSUME v = "fortinet" PROVE Weakest(L, q)
    <2>1. Weakest(L, p) /\ Kinds("fortinet", s, i, L[i + 1], t, F)
      BY <1>2, <1>6 DEF Sound, l
    <2>2. Weakest(L, Step("fortinet", m, p, L[i + 1]))
      BY <1>1, <2>1, WeakestStep
    <2> QED BY <1>6, <2>2 DEF q, l
  <1>7. ASSUME v = "juniper" PROVE Founded(q)
    <2>1. Founded(p) /\ Seen(s, t, F)
      BY <1>2, <1>7 DEF Sound
    <2> QED BY <1>3, <1>4, <2>1 DEF Founded, Seen, s
  <1> QED BY <1>2, <1>3, <1>4, <1>5, <1>6, <1>7 DEF Sound, V, q, l

\* It holds after every number of lines.
LEMMA AlwaysSound ==
  ASSUME NEW v, NEW m, Mappings(m), NEW L \in Seq(LineOf(v)), NEW i \in 0 .. Len(L)
  PROVE  Sound(v, m, L, i, After(v, L, m)[i])
  <1> DEFINE f == After(v, L, m)
             T == {j \in Nat : j <= Len(L) => Sound(v, m, L, j, f[j])}
  <1>1. /\ f[0] = Start(v)
        /\ \A j \in 1 .. Len(L) : f[j] = Step(v, m, f[j - 1], L[j])
    BY AfterSteps
  <1>2. Len(L) \in Nat /\ \A j \in 1 .. Len(L) : L[j] \in LineOf(v)
    OBVIOUS
  <1> HIDE DEF f
  <1>3. 0 \in T
    BY <1>1, SoundStart
  <1>4. ASSUME NEW j \in Nat, j \in T PROVE j + 1 \in T
    <2> SUFFICES ASSUME j + 1 <= Len(L) PROVE Sound(v, m, L, j + 1, f[j + 1])
      OBVIOUS
    <2>1. Sound(v, m, L, j, f[j])
      BY <1>2, <1>4
    <2>2. f[j + 1] = Step(v, m, f[j], L[j + 1]) /\ L[j + 1] \in LineOf(v)
      BY <1>1, <1>2
    <2> QED BY <2>1, <2>2, SoundStep
  <1> HIDE DEF T
  <1>5. i \in T
    BY <1>3, <1>4, NatSet
  <1> QED BY <1>2, <1>5 DEF T, f

-----------------------------------------------------------------------------
(* The end of the file.                                                    *)

\* A configuration that takes facts about these fields.
Extended(c, d, G) ==
  /\ IsConfig(d)
  /\ d.lists = c.lists /\ d.interfaces = c.interfaces /\ d.policies = c.policies
  /\ DOMAIN c.scalars \subseteq DOMAIN d.scalars
  /\ \A f \in DOMAIN d.scalars :
       \/ f \in DOMAIN c.scalars /\ d.scalars[f] = c.scalars[f]
       \/ f \in G /\ d.scalars[f] \in Nat

\* One fact.
LEMMA FactExtends ==
  ASSUME NEW c, NEW d, NEW G, Extended(c, d, G), NEW f \in ScalarFields \cap G, NEW x \in Nat
  PROVE  Extended(c, [d EXCEPT !.scalars = With(@, f, x)], G)
  <1> DEFINE e == [d EXCEPT !.scalars = With(@, f, x)]
             w == With(d.scalars, f, x)
  <1>1. e = [scalars |-> w, lists |-> d.lists, interfaces |-> d.interfaces,
             policies |-> d.policies]
    BY DEF Extended, IsConfig
  <1>2. /\ DOMAIN w = DOMAIN d.scalars \cup {f} /\ w[f] = x /\ w = [y \in DOMAIN w |-> w[y]]
        /\ \A y \in DOMAIN d.scalars : y # f => w[y] = d.scalars[y]
    <2> DEFINE g == d.scalars
    <2> HIDE DEF e, g
    <2>1. /\ DOMAIN With(g, f, x) = DOMAIN g \cup {f}
          /\ With(g, f, x)[f] = x
          /\ \A y \in DOMAIN g : y # f => With(g, f, x)[y] = g[y]
          /\ With(g, f, x) = [y \in DOMAIN With(g, f, x) |-> With(g, f, x)[y]]
      BY DEF With
    <2> QED BY <2>1 DEF g
  <1> HIDE DEF e, w
  <1>3. IsConfig(e)
    BY <1>1, <1>2 DEF Extended, IsConfig
  <1>4. Extended(c, e, G)
    BY <1>1, <1>2, <1>3 DEF Extended
  <1> QED BY <1>4 DEF e

\* The same findings, up to the items of a list.
Told(p, q) ==
  /\ DOMAIN q.findings = DOMAIN p.findings
  /\ \A i \in DOMAIN p.findings :
       /\ q.findings[i].reading.field = p.findings[i].reading.field
       /\ q.findings[i].reading.value = p.findings[i].reading.value
       /\ q.findings[i].line = p.findings[i].line
       /\ q.findings[i].source = p.findings[i].source

\* So they cite, explain and concern the same.
LEMMA ToldSame ==
  ASSUME NEW p, NEW q, Told(p, q)
  PROVE  Cites(q) = Cites(p) /\ Explains(q) = Explains(p) /\ FieldsIn(q) = FieldsIn(p)
  <1>1. Cites(q) = Cites(p)
    BY DEF Told, Cites
  <1>2. Explains(q) = Explains(p)
    BY DEF Told, Explains
  <1>3. FieldsIn(q) = FieldsIn(p)
    BY DEF Told, FieldsIn
  <1> QED BY <1>1, <1>2, <1>3

\* The fields that FortiOS concludes.
Facts ==
  {"service_hardening.http_server_disabled", "service_hardening.http_secure_server_enabled",
   "snmp.default_communities_removed"}

\* What the end of the file adds to a parse.
Ended(p, q, G, O) ==
  /\ IsParse(q) /\ q.n = p.n /\ Told(p, q)
  /\ Extended(p.config, q.config, G) /\ q.unknown = p.unknown \cup O

\* For Cisco, the banner that is open.
LEMMA CiscoEnded ==
  ASSUME NEW p, IsParse(p), CiscoState(p.state)
  PROVE  LET o == Open("cisco", p.state) IN
         Ended(p, CiscoEnd(p), {}, IF o = 0 THEN {} ELSE {o})
  <1> DEFINE s == p.state
             o == Open("cisco", s)
             q == CiscoEnd(p)
  <1>1. Extended(p.config, p.config, {}) /\ Told(p, p)
    BY DEF Extended, Told, IsParse
  <1>2. CASE s.banner = NoBanner
    <2>1. q = p /\ o = 0
      BY <1>2 DEF CiscoEnd, Open
    <2> QED BY <1>1, <2>1 DEF Ended
  <1>3. CASE s.banner # NoBanner
    <2>1. o = s.banner.start /\ o \in Nat \ {0}
      BY <1>3 DEF Open, CiscoState
    <2>2. q = [p EXCEPT !.unknown = @ \cup {o}]
      BY <1>3, <2>1 DEF CiscoEnd
    <2> HIDE DEF o, q
    <2>3. q = [config |-> p.config, findings |-> p.findings, unknown |-> p.unknown \cup {o},
               n |-> p.n, state |-> p.state]
      BY <2>2 DEF IsParse
    <2>4. IsParse(q)
      BY <2>1, <2>3 DEF IsParse
    <2>5. Ended(p, q, {}, {o})
      BY <1>1, <2>3, <2>4 DEF Ended, Told
    <2> QED BY <2>1, <2>5 DEF o, q
  <1> QED BY <1>2, <1>3

\* For JunOS, what the statements about HTTPS and SNMPv3 leave open.
JunosFacts(p) ==
  {f \in {"service_hardening.http_server_disabled"} :
     p.state.https /\ Get(p.config, f) = Unset}
  \cup {f \in {"snmp.default_communities_removed"} :
          p.state.v3 /\ Get(p.config, f) = Unset}

\* Nothing else is added.
LEMMA JunosEnded ==
  ASSUME NEW p, IsParse(p), JunosState(p.state)
  PROVE  Ended(p, JunosEnd(p), JunosFacts(p), {})
  <1> DEFINE f == "service_hardening.http_server_disabled"
             g == "snmp.default_communities_removed"
             G == JunosFacts(p)
             x == p.state.https /\ ~p.state.http
             y == p.state.v3 /\ ~p.state.community
             c == p.config
             d == IF x /\ Get(c, f) = Unset THEN [c EXCEPT !.scalars = With(@, f, Yes)] ELSE c
             e == IF y /\ Get(d, g) = Unset THEN [d EXCEPT !.scalars = With(@, g, Yes)] ELSE d
             q == JunosEnd(p)
  <1>0. f \in ScalarFields /\ g \in ScalarFields /\ f # g /\ Yes \in Nat
    BY DEF ScalarFields, BooleanFields, Yes
  <1>1. q = [p EXCEPT !.config = e]
    BY DEF JunosEnd
  <1>2. /\ x /\ Get(c, f) = Unset => f \in G
        /\ y /\ Get(c, g) = Unset => g \in G
    BY DEF JunosFacts
  <1> HIDE DEF f, g, G, q, x, y
  <1>3. Extended(c, c, G)
    BY DEF Extended, IsParse
  <1>4. Extended(c, d, G)
    BY <1>0, <1>2, <1>3, FactExtends
  <1>5. Get(d, g) = Get(c, g)
    <2>1. IsConfig(c)
      BY DEF IsParse
    <2>2. CASE x /\ Get(c, f) = Unset
      <3>1. d.scalars = With(c.scalars, f, Yes)
        BY <2>1, <2>2 DEF IsConfig
      <3> HIDE DEF d
      <3> QED BY <1>0, <3>1 DEF Get, With
    <2> QED BY <2>2
  <1> HIDE DEF d
  <1>6. Extended(c, e, G)
    BY <1>0, <1>2, <1>4, <1>5, FactExtends
  <1> HIDE DEF c, e
  <1>7. /\ IsParse(q) /\ q.config = e /\ q.findings = p.findings
        /\ q.unknown = p.unknown /\ q.n = p.n
    BY <1>1, <1>6, Configuring DEF Extended
  <1>8. Told(p, q)
    BY <1>7 DEF Told
  <1> QED BY <1>6, <1>7, <1>8 DEF Ended, G, q, c

\* For FortiOS, the facts, whatever was set before.
LEMMA FortiEnded ==
  ASSUME NEW p, IsParse(p), FortiState(p.state)
  PROVE  Ended(p, FortiOSEnd(p), Facts, {})
  <1> DEFINE w == p.state.protocols
             fs == p.findings
             gs == [i \in DOMAIN fs |->
                      IF fs[i].reading.field = "line_vty.transport_input"
                         /\ fs[i].source = "parser"
                      THEN [fs[i] EXCEPT !.reading.items = w] ELSE fs[i]]
             a == SharedList(p)
  <1>1. a = [p EXCEPT !.findings = gs]
    BY DEF SharedList
  <1>2. fs \in Seq(FindingType) /\ w \in SUBSET Names
    BY DEF IsParse, FortiState
  <1> HIDE DEF fs, w, a
  <1>3. ASSUME NEW i \in DOMAIN fs
        PROVE  /\ gs[i] \in FindingType
               /\ gs[i].reading.field = fs[i].reading.field
               /\ gs[i].reading.value = fs[i].reading.value
               /\ gs[i].line = fs[i].line /\ gs[i].source = fs[i].source
    <2>1. fs[i] \in FindingType
      BY <1>2
    <2>2. [fs[i] EXCEPT !.reading.items = w]
            = [reading |-> [field |-> fs[i].reading.field, value |-> fs[i].reading.value,
                            items |-> w],
               line |-> fs[i].line, source |-> fs[i].source]
      BY <2>1 DEF FindingType, ReadingType
    <2> QED BY <1>2, <2>1, <2>2 DEF FindingType, ReadingType
  <1>4. gs \in Seq(FindingType) /\ DOMAIN gs = DOMAIN fs
    BY <1>2, <1>3
  <1> HIDE DEF gs
  <1>5. a = [config |-> p.config, findings |-> gs, unknown |-> p.unknown, n |-> p.n,
             state |-> p.state]
    BY <1>1 DEF IsParse
  <1>6. IsParse(a)
    BY <1>4, <1>5 DEF IsParse
  <1> DEFINE f == "service_hardening.http_server_disabled"
             g == "service_hardening.http_secure_server_enabled"
             h == "snmp.default_communities_removed"
             x == Flip(IF "http" \in a.state.protocols THEN Yes ELSE No)
             y == IF "https" \in a.state.protocols THEN Yes ELSE No
             c == a.config
             c1 == [c EXCEPT !.scalars = With(@, f, x)]
             c2 == [c1 EXCEPT !.scalars = With(@, g, y)]
             c3 == IF a.state.allowaccess THEN c2 ELSE c
             c4 == [c3 EXCEPT !.scalars = With(@, h, Yes)]
             c5 == IF a.state.v3 /\ ~a.state.community THEN c4 ELSE c3
             q == FortiOSEnd(p)
  <1>7. q = [a EXCEPT !.config = c5]
    BY DEF FortiOSEnd, a
  <1>8. /\ {f, g, h} \subseteq ScalarFields \cap Facts
        /\ x \in Nat /\ y \in Nat /\ Yes \in Nat
    BY DEF ScalarFields, BooleanFields, Facts, Yes, No, Flip
  <1> HIDE DEF f, g, h, x, y, q
  <1>9. Extended(c, c, Facts)
    BY <1>6 DEF Extended, IsParse
  <1>10. Extended(c, c1, Facts)
    BY <1>8, <1>9, FactExtends
  <1> HIDE DEF c1
  <1>11. Extended(c, c2, Facts)
    BY <1>8, <1>10, FactExtends
  <1> HIDE DEF c2
  <1>12. Extended(c, c3, Facts)
    BY <1>9, <1>11
  <1> HIDE DEF c3
  <1>13. Extended(c, c4, Facts)
    BY <1>8, <1>12, FactExtends
  <1> HIDE DEF c4
  <1>14. Extended(c, c5, Facts)
    BY <1>12, <1>13
  <1> HIDE DEF c5, c
  <1>15. /\ IsParse(q) /\ q.config = c5 /\ q.findings = a.findings
         /\ q.unknown = a.unknown /\ q.n = a.n
    BY <1>6, <1>7, <1>14, Configuring DEF Extended
  <1>16. Told(p, q)
    BY <1>3, <1>4, <1>5, <1>15 DEF Told, fs
  <1> QED BY <1>5, <1>14, <1>15, <1>16 DEF Ended, q, c

\* The fields a vendor's parser concludes.
Facets(v, p) ==
  CASE v = "fortinet" -> Facts
    [] v = "juniper" -> JunosFacts(p)
    [] OTHER -> {}

\* Whatever the vendor, the end adds facts and the banner that is open.
LEMMA EndEnded ==
  ASSUME NEW v, NEW p, IsParse(p), StateOf(v, p.state)
  PROVE  LET o == Open(v, p.state) IN
         Ended(p, End(v, p), Facets(v, p), IF o = 0 THEN {} ELSE {o})
  <1>1. CASE v = "cisco"
    <2>1. End(v, p) = CiscoEnd(p) /\ Facets(v, p) = {}
      BY <1>1 DEF End, Facets
    <2>2. CiscoState(p.state)
      BY <1>1 DEF StateOf
    <2> QED BY <1>1, <2>1, <2>2, CiscoEnded
  <1>2. CASE v = "fortinet"
    <2>1. End(v, p) = FortiOSEnd(p) /\ Facets(v, p) = Facts /\ Open(v, p.state) = 0
      BY <1>2 DEF End, Facets, Open
    <2>2. FortiState(p.state)
      BY <1>2 DEF StateOf
    <2> QED BY <2>1, <2>2, FortiEnded
  <1>3. CASE v = "juniper"
    <2>1. End(v, p) = JunosEnd(p) /\ Facets(v, p) = JunosFacts(p) /\ Open(v, p.state) = 0
      BY <1>3 DEF End, Facets, Open
    <2>2. JunosState(p.state)
      BY <1>3 DEF StateOf
    <2> QED BY <2>1, <2>2, JunosEnded
  <1>4. CASE v \notin {"cisco", "fortinet", "juniper"}
    <2>1. End(v, p) = p /\ Facets(v, p) = {} /\ Open(v, p.state) = 0
      BY <1>4 DEF End, Facets, Open
    <2>2. Ended(p, p, {}, {})
      BY DEF Ended, Told, Extended, IsParse
    <2> QED BY <2>1, <2>2
  <1> QED BY <1>1, <1>2, <1>3, <1>4

\* Where what is set comes from, once the file was read.
Sourced(v, p) ==
  /\ \A f \in DOMAIN p.config.scalars :
       \/ f \in FieldsIn(p)
       \/ v = "fortinet" /\ f \in Facts
       \/ /\ v = "juniper" /\ f = "service_hardening.http_server_disabled"
          /\ "service_hardening.http_secure_server_enabled" \in FieldsIn(p)
       \/ /\ v = "juniper" /\ f = "snmp.default_communities_removed"
          /\ "snmp.v3_only" \in FieldsIn(p)
  /\ \A f \in ListFields : p.config.lists[f] = {} \/ f \in FieldsIn(p)
  /\ \A i \in DOMAIN p.config.interfaces :
       p.config.interfaces[i] = Unset \/ "interfaces.cdp_disabled" \in FieldsIn(p)
  /\ \A i \in DOMAIN p.config.policies :
       p.config.policies[i].accept => "firewall_policies.action" \in FieldsIn(p)

\* What holds of the parse of a whole file.
Parsed(v, m, L, p) ==
  /\ IsParse(p) /\ p.n = Len(L) /\ p.unknown \subseteq 1 .. Len(L)
  /\ \A k \in 1 .. Len(L) : ~Blank(v, L[k]) /\ ~Inside(v, L, k - 1)
                              => (k \in Cites(p) <=> k \notin p.unknown)
  /\ \A k \in p.unknown : Key(v, L[k]) \notin Keys(v, m)
  /\ \A i \in DOMAIN p.findings :
       LET f == p.findings[i].reading.field
           x == p.findings[i].reading.value
       IN
       (/\ f \in ScalarFields /\ x # Unset /\ (v = "fortinet" => f \notin Facts)
        /\ \A j \in DOMAIN p.findings : p.findings[j].reading.field = f => j <= i)
         => Get(p.config, f) = x
  /\ Valued(p, Values(v, m))
  /\ v = "fortinet" => Weakest(L, p)
  /\ Sourced(v, p)

\* The end keeps the account.
LEMMA EndAccounts ==
  ASSUME NEW v, NEW m, NEW L, NEW i \in Nat, NEW p, Sound(v, m, L, i, p)
  PROVE  LET q == End(v, p) IN
         /\ IsParse(q) /\ q.n = i /\ q.unknown \subseteq 1 .. i
         /\ \A k \in 1 .. i : ~Blank(v, L[k]) /\ ~Inside(v, L, k - 1)
                                => (k \in Cites(q) <=> k \notin q.unknown)
         /\ \A k \in q.unknown : Key(v, L[k]) \notin Keys(v, m)
  <1> DEFINE q == End(v, p)
             o == Open(v, p.state)
             O == IF o = 0 THEN {} ELSE {o}
             G == Facets(v, p)
  <1>1. Ended(p, q, G, O)
    BY EndEnded DEF Sound, Good
  <1> HIDE DEF q, G
  <1>2. IsParse(q) /\ q.n = i /\ q.unknown = p.unknown \cup O /\ Cites(q) = Cites(p)
    BY <1>1, ToldSame DEF Ended, Sound
  <1>3. /\ p.unknown \subseteq 1 .. i
        /\ o # 0 => o \in 1 .. i /\ o \notin Cites(p) /\ o \notin p.unknown /\ Opens(v, L[o])
        /\ \A k \in 1 .. i : k # o /\ ~Blank(v, L[k]) /\ ~Inside(v, L, k - 1)
                               => (k \in Cites(p) <=> k \notin p.unknown)
        /\ \A k \in p.unknown : Askable(v, L[k]) /\ ~Usable(v, m, Key(v, L[k]))
    BY DEF Sound, Accounted
  <1> HIDE DEF o
  <1>4. q.unknown \subseteq 1 .. i
    BY <1>2, <1>3
  <1>5. \A k \in 1 .. i : ~Blank(v, L[k]) /\ ~Inside(v, L, k - 1)
                            => (k \in Cites(q) <=> k \notin q.unknown)
    BY <1>2, <1>3
  <1>6. ASSUME NEW k \in q.unknown PROVE Key(v, L[k]) \notin Keys(v, m)
    <2>1. CASE k \in p.unknown
      BY <1>3, <2>1 DEF Keys
    <2>2. CASE k \in O
      <3>1. Opens(v, L[k])
        BY <1>3, <2>2
      <3> QED BY <3>1 DEF Opens, Key, Keys
    <2> QED BY <1>2, <2>1, <2>2
  <1> QED BY <1>2, <1>4, <1>5, <1>6 DEF q

\* The parse of a file that was read.
LEMMA EndParsed ==
  ASSUME NEW v, NEW m, NEW S, NEW L \in Seq(S), NEW p, Sound(v, m, L, Len(L), p)
  PROVE  Parsed(v, m, L, End(v, p))
  <1> DEFINE q == End(v, p)
             o == Open(v, p.state)
             O == IF o = 0 THEN {} ELSE {o}
             G == Facets(v, p)
  <1>1. Ended(p, q, G, O)
    BY EndEnded DEF Sound, Good
  <1>2. /\ IsParse(q) /\ q.n = Len(L) /\ q.unknown \subseteq 1 .. Len(L)
        /\ \A k \in 1 .. Len(L) : ~Blank(v, L[k]) /\ ~Inside(v, L, k - 1)
                                    => (k \in Cites(q) <=> k \notin q.unknown)
        /\ \A k \in q.unknown : Key(v, L[k]) \notin Keys(v, m)
    <2>1. Len(L) \in Nat
      OBVIOUS
    <2> QED BY <2>1, EndAccounts
  <1>3. /\ v = "fortinet" => G = Facts
        /\ v = "juniper" => G = JunosFacts(p)
        /\ v \notin {"fortinet", "juniper"} => G = {}
    BY DEF Facets
  <1> HIDE DEF q, G, O
  <1>4. Told(p, q) /\ Extended(p.config, q.config, G)
    BY <1>1 DEF Ended
  <1>5. Cites(q) = Cites(p) /\ FieldsIn(q) = FieldsIn(p)
    BY <1>4, ToldSame
  <1>6. Decided(p) /\ Evident(p) /\ Valued(p, Values(v, m)) /\ IsParse(p)
    BY DEF Sound, Good
  <1>7. ASSUME NEW i \in DOMAIN q.findings, NEW f, f = q.findings[i].reading.field,
               NEW x, x = q.findings[i].reading.value,
               f \in ScalarFields, x # Unset, v = "fortinet" => f \notin Facts,
               \A j \in DOMAIN q.findings : q.findings[j].reading.field = f => j <= i
        PROVE  Get(q.config, f) = x
    <2>1. /\ i \in DOMAIN p.findings /\ p.findings[i].reading.field = f
          /\ p.findings[i].reading.value = x
          /\ \A j \in DOMAIN p.findings : p.findings[j].reading.field = f => j <= i
      BY <1>4, <1>7 DEF Told
    <2>2. f \in DOMAIN p.config.scalars /\ p.config.scalars[f] = x
      BY <1>6, <1>7, <2>1 DEF Decided
    <2>3. Get(p.config, f) = x
      BY <2>2 DEF Get
    <2>4. f \notin G
      BY <1>3, <1>7, <2>3 DEF JunosFacts
    <2> QED BY <1>4, <2>2, <2>4 DEF Extended, Get
  <1>8. Valued(q, Values(v, m))
    BY <1>4, <1>6 DEF Valued, Values, Extended
  <1>9. ASSUME v = "fortinet" PROVE Weakest(L, q)
    <2>1. Password \notin G
      BY <1>3, <1>9 DEF Password, Facts
    <2>2. Get(q.config, Password) = Get(p.config, Password)
      BY <1>4, <2>1 DEF Extended, Get
    <2>3. Weakest(L, p)
      BY <1>9 DEF Sound
    <2> QED BY <1>4, <2>2, <2>3 DEF Weakest, Told
  <1>10. Sourced(v, q)
    <2>1. ASSUME NEW f \in DOMAIN q.config.scalars
          PROVE  \/ f \in FieldsIn(q)
                 \/ v = "fortinet" /\ f \in Facts
                 \/ /\ v = "juniper" /\ f = "service_hardening.http_server_disabled"
                    /\ "service_hardening.http_secure_server_enabled" \in FieldsIn(q)
                 \/ /\ v = "juniper" /\ f = "snmp.default_communities_removed"
                    /\ "snmp.v3_only" \in FieldsIn(q)
      <3>1. f \in DOMAIN p.config.scalars \/ f \in G
        BY <1>4, <2>1 DEF Extended
      <3>2. CASE f \in DOMAIN p.config.scalars
        BY <1>5, <1>6, <3>2 DEF Evident
      <3>3. CASE f \in G /\ v = "juniper"
        <4>1. Founded(p)
          BY <3>3 DEF Sound
        <4> QED BY <1>3, <1>5, <3>3, <4>1 DEF JunosFacts, Founded
      <3>4. CASE f \in G /\ v # "juniper"
        BY <1>3, <3>4
      <3> QED BY <3>1, <3>2, <3>3, <3>4
    <2>2. /\ q.config.lists = p.config.lists /\ q.config.interfaces = p.config.interfaces
          /\ q.config.policies = p.config.policies
      BY <1>4 DEF Extended
    <2> QED BY <1>5, <1>6, <2>1, <2>2 DEF Sourced, Evident
  <1>11. \A i \in DOMAIN q.findings :
           LET f == q.findings[i].reading.field
               x == q.findings[i].reading.value
           IN
           (/\ f \in ScalarFields /\ x # Unset /\ (v = "fortinet" => f \notin Facts)
            /\ \A j \in DOMAIN q.findings : q.findings[j].reading.field = f => j <= i)
             => Get(q.config, f) = x
    BY <1>7
  <1> QED BY <1>2, <1>8, <1>9, <1>10, <1>11 DEF Parsed, q

\* What holds of every parse, whatever the text and the mappings.
THEOREM ParseParsed ==
  ASSUME NEW v, NEW m, Mappings(m), NEW L \in Seq(LineOf(v))
  PROVE  Parsed(v, m, L, Parse(v, L, m))
  <1> DEFINE k == Len(L)
             p == After(v, L, m)[k]
  <1>1. k \in 0 .. k /\ k \in Nat
    OBVIOUS
  <1>2. Sound(v, m, L, k, p)
    BY <1>1, AlwaysSound
  <1> HIDE DEF p
  <1>3. Parsed(v, m, L, End(v, p))
    BY <1>2, EndParsed
  <1> QED BY <1>3 DEF Parse, p

-----------------------------------------------------------------------------
(* What approved mappings change.                                          *)

\* One finding after what the parser had read before it.
ReadNext(read, x) ==
  IF x.source = "parser" THEN Append(read, <<x.reading.field, x.line>>) ELSE read

\* However many the findings, there is a function that reads them one by one.
LEMMA ReadExists ==
  ASSUME NEW fs, NEW k \in Nat
  PROVE  \E f : f = [i \in 0 .. k |-> IF i = 0 THEN << >> ELSE ReadNext(f[i - 1], fs[i])]
  <1> DEFINE
        F(f, n) == f = [i \in 0 .. n |-> IF i = 0 THEN << >>
                                         ELSE ReadNext(f[i - 1], fs[i])]
        T == {n \in Nat : \E f : F(f, n)}
  <1>1. 0 \in T
    <2> DEFINE f == [i \in 0 .. 0 |-> << >>]
    <2>1. F(f, 0)
      OBVIOUS
    <2> QED BY <2>1
  <1>2. ASSUME NEW n \in Nat, n \in T PROVE n + 1 \in T
    <2>1. PICK f : F(f, n)
      BY <1>2
    <2> DEFINE g == [i \in 0 .. n + 1 |-> IF i = n + 1 THEN ReadNext(f[n], fs[n + 1])
                                          ELSE f[i]]
    <2>2. ASSUME NEW i \in 0 .. n + 1
          PROVE  g[i] = IF i = 0 THEN << >> ELSE ReadNext(g[i - 1], fs[i])
      <3>1. CASE i = 0
        BY <2>1, <3>1
      <3>2. CASE i = n + 1
        <4>1. g[i - 1] = f[n]
          BY <3>2
        <4> QED BY <3>2, <4>1
      <3>3. CASE i \in 1 .. n
        <4>1. g[i - 1] = f[i - 1] /\ g[i] = f[i]
          BY <3>3
        <4>2. f[i] = ReadNext(f[i - 1], fs[i])
          <5>1. i \in 0 .. n /\ i # 0
            BY <3>3
          <5> QED BY <2>1, <5>1
        <4> QED BY <3>3, <4>1, <4>2
      <3> QED BY <3>1, <3>2, <3>3
    <2>3. g = [i \in 0 .. n + 1 |-> g[i]]
      OBVIOUS
    <2>4. F(g, n + 1)
      <3> HIDE DEF g
      <3> QED BY <2>2, <2>3
    <2> HIDE DEF g
    <2> QED BY <2>4
  <1>3. k \in T
    <2> HIDE DEF T
    <2> QED BY <1>1, <1>2, NatSet
  <1> QED BY <1>3

\* What was read after each finding, up to the last.
Reads(f, fs, k) ==
  f[0] = << >> /\ \A i \in 1 .. k : f[i] = ReadNext(f[i - 1], fs[i])

\* What the parser read is the last value of such a function.
LEMMA ReadSteps ==
  ASSUME NEW T, NEW fs \in Seq(T)
  PROVE  \E f : Reads(f, fs, Len(fs)) /\ ReadByParser(fs) = f[Len(fs)]
  <1> DEFINE k == Len(fs)
             f == CHOOSE g : g = [i \in 0 .. k |-> IF i = 0 THEN << >>
                                                   ELSE ReadNext(g[i - 1], fs[i])]
  <1>1. k \in Nat
    OBVIOUS
  <1>2. ReadByParser(fs) = f[k]
    BY DEF ReadByParser, ReadNext
  <1>3. f = [i \in 0 .. k |-> IF i = 0 THEN << >> ELSE ReadNext(f[i - 1], fs[i])]
    BY <1>1, ReadExists
  <1> HIDE DEF f, k
  <1>4. Reads(f, fs, k)
    BY <1>1, <1>3 DEF Reads
  <1> QED BY <1>2, <1>4 DEF k

\* Findings from the same sources about the same fields of the same lines.
SameReading(x, y) ==
  x.source = y.source /\ x.reading.field = y.reading.field /\ x.line = y.line

\* They read the same.
LEMMA ReadAgree ==
  ASSUME NEW fs, NEW gs, NEW k \in Nat, NEW f, NEW g,
         Reads(f, fs, k), Reads(g, gs, k),
         \A i \in 1 .. k : SameReading(fs[i], gs[i])
  PROVE  f[k] = g[k]
  <1> DEFINE T == {i \in Nat : i <= k => f[i] = g[i]}
  <1>1. 0 \in T
    BY DEF Reads
  <1>2. ASSUME NEW i \in Nat, i \in T PROVE i + 1 \in T
    <2> SUFFICES ASSUME i + 1 <= k PROVE f[i + 1] = g[i + 1]
      OBVIOUS
    <2>1. f[i] = g[i] /\ i + 1 \in 1 .. k /\ (i + 1) - 1 = i
      BY <1>2
    <2>2. f[i + 1] = ReadNext(f[i], fs[i + 1]) /\ g[i + 1] = ReadNext(g[i], gs[i + 1])
      BY <2>1 DEF Reads
    <2>3. SameReading(fs[i + 1], gs[i + 1])
      BY <2>1
    <2> QED BY <2>1, <2>2, <2>3 DEF ReadNext, SameReading
  <1>3. k \in T
    <2> HIDE DEF T
    <2> QED BY <1>1, <1>2, NatSet
  <1> QED BY <1>3

\* So the parser read the same from them.
LEMMA ReadSame ==
  ASSUME NEW S, NEW fs \in Seq(S), NEW T, NEW gs \in Seq(T), Len(fs) = Len(gs),
         \A i \in 1 .. Len(fs) : SameReading(fs[i], gs[i])
  PROVE  ReadByParser(fs) = ReadByParser(gs)
  <1>1. Len(fs) \in Nat
    OBVIOUS
  <1>2. PICK f : Reads(f, fs, Len(fs)) /\ ReadByParser(fs) = f[Len(fs)]
    BY ReadSteps
  <1>3. PICK g : Reads(g, gs, Len(gs)) /\ ReadByParser(gs) = g[Len(gs)]
    BY ReadSteps
  <1> DEFINE k == Len(fs)
  <1>4. Reads(f, fs, k) /\ Reads(g, gs, k) /\ k \in Nat
    BY <1>1, <1>2, <1>3
  <1>5. \A i \in 1 .. k : SameReading(fs[i], gs[i])
    OBVIOUS
  <1>6. f[k] = g[k]
    <2> HIDE DEF k
    <2> QED BY <1>4, <1>5, ReadAgree
  <1> QED BY <1>2, <1>3, <1>6

\* One more finding is read after those before it.
LEMMA ReadAppended ==
  ASSUME NEW T, NEW fs \in Seq(T), NEW x \in T
  PROVE  ReadByParser(Append(fs, x)) = ReadNext(ReadByParser(fs), x)
  <1> DEFINE k == Len(fs)
             gs == Append(fs, x)
  <1>1. k \in Nat /\ Len(gs) = k + 1 /\ gs \in Seq(T) /\ gs[k + 1] = x
        /\ \A i \in 1 .. k : gs[i] = fs[i]
    OBVIOUS
  <1>2. PICK f : Reads(f, fs, k) /\ ReadByParser(fs) = f[k]
    BY ReadSteps
  <1> HIDE DEF gs
  <1>3. PICK g : Reads(g, gs, Len(gs)) /\ ReadByParser(gs) = g[Len(gs)]
    BY <1>1, ReadSteps
  <1> HIDE DEF k
  <1>4. Reads(g, gs, k)
    BY <1>1, <1>3 DEF Reads
  <1>5. \A i \in 1 .. k : SameReading(fs[i], gs[i])
    BY <1>1 DEF SameReading
  <1>6. f[k] = g[k]
    BY <1>1, <1>2, <1>4, <1>5, ReadAgree
  <1>7. g[k + 1] = ReadNext(g[k], x)
    <2>1. k + 1 \in 1 .. Len(gs) /\ (k + 1) - 1 = k
      BY <1>1
    <2> QED BY <1>1, <1>3, <2>1 DEF Reads
  <1> QED BY <1>1, <1>2, <1>3, <1>6, <1>7 DEF gs

\* Two parses, p with mappings and b without: the parser read the same, and what the
\* mappings explain is what the other leaves for training besides.
Twin(p, b) ==
  /\ ReadByParser(p.findings) = ReadByParser(b.findings)
  /\ Explains(p) \cap p.unknown = {}
  /\ Explains(p) \cup p.unknown = b.unknown

\* The findings and the lines left alone, so is the relation.
LEMMA TwinKept ==
  ASSUME NEW p, NEW b, NEW q, NEW c, Twin(p, b),
         q.findings = p.findings, q.unknown = p.unknown,
         c.findings = b.findings, c.unknown = b.unknown
  PROVE  Twin(q, c)
  BY DEF Twin, Explains

\* The parser's findings are read after those before.
LEMMA FindsRead ==
  ASSUME NEW p, NEW q, NEW r \in ReadingType, NEW n \in Nat, NEW source \in Sources,
         IsParse(p), Finds(p, q, r, n, source)
  PROVE  ReadByParser(q.findings)
           = IF source = "parser" THEN Append(ReadByParser(p.findings), <<r.field, n>>)
             ELSE ReadByParser(p.findings)
  <1> DEFINE x == [reading |-> r, line |-> n, source |-> source]
  <1>1. x \in FindingType /\ x.reading = r /\ x.line = n /\ x.source = source
    BY DEF FindingType
  <1> HIDE DEF x
  <1>2. p.findings \in Seq(FindingType)
    BY DEF IsParse
  <1>3. q.findings = Append(p.findings, x)
    BY DEF Finds, x
  <1>4. ReadByParser(q.findings) = ReadNext(ReadByParser(p.findings), x)
    BY <1>1, <1>2, <1>3, ReadAppended
  <1> QED BY <1>1, <1>4 DEF ReadNext

\* Both find the same field in the same line.
LEMMA TwinFinds ==
  ASSUME NEW p, NEW b, NEW q, NEW c, Twin(p, b), IsParse(p), IsParse(b),
         NEW n \in Nat, NEW r, NEW e, ParserReading(r), ParserReading(e),
         r.field = e.field, Finds(p, q, r, n, "parser"), Finds(b, c, e, n, "parser")
  PROVE  Twin(q, c)
  <1>0. r \in ReadingType /\ e \in ReadingType /\ "parser" \in Sources
    BY DEF ParserReading, Sources
  <1>1. ReadByParser(q.findings) = Append(ReadByParser(p.findings), <<r.field, n>>)
    BY <1>0, FindsRead
  <1>2. ReadByParser(c.findings) = Append(ReadByParser(b.findings), <<e.field, n>>)
    BY <1>0, FindsRead
  <1>3. Explains(q) = Explains(p)
    BY <1>0, FindsCites
  <1>4. q.unknown = p.unknown /\ c.unknown = b.unknown
    BY DEF Finds
  <1> QED BY <1>1, <1>2, <1>3, <1>4 DEF Twin

\* A line that a mapping explains is one the other leaves for training.
LEMMA TwinLearns ==
  ASSUME NEW p, NEW b, NEW q, NEW c, Twin(p, b), IsParse(p),
         NEW n \in Nat, NEW r \in ReadingType, n \notin p.unknown,
         Finds(p, q, r, n, "learned_mapping"),
         c.findings = b.findings, c.unknown = b.unknown \cup {n}
  PROVE  Twin(q, c)
  <1>0. "learned_mapping" \in Sources /\ "learned_mapping" # "parser"
    BY DEF Sources
  <1>1. ReadByParser(q.findings) = ReadByParser(p.findings)
    <2> DEFINE source == "learned_mapping"
    <2>1. source \in Sources /\ source # "parser" /\ Finds(p, q, r, n, source)
      BY <1>0
    <2> HIDE DEF source
    <2>2. ReadByParser(q.findings)
            = IF source = "parser" THEN Append(ReadByParser(p.findings), <<r.field, n>>)
              ELSE ReadByParser(p.findings)
      BY <2>1, FindsRead
    <2> QED BY <2>1, <2>2
  <1>2. Explains(q) = Explains(p) \cup {n}
    BY <1>0, FindsCites
  <1>3. q.unknown = p.unknown
    BY DEF Finds
  <1> QED BY <1>1, <1>2, <1>3 DEF Twin

\* A line that both leave.
LEMMA TwinLeaves ==
  ASSUME NEW p, NEW b, NEW q, NEW c, Twin(p, b), NEW n, n \notin Explains(p),
         q.findings = p.findings, q.unknown = p.unknown \cup {n},
         c.findings = b.findings, c.unknown = b.unknown \cup {n}
  PROVE  Twin(q, c)
  <1>1. Explains(q) = Explains(p)
    BY DEF Explains
  <1> QED BY <1>1 DEF Twin

\* What mappings explain is cited.
LEMMA ExplainsCites ==
  ASSUME NEW p
  PROVE  Explains(p) \subseteq Cites(p)
  BY DEF Explains, Cites

\* One more line of any kind keeps the relation, whatever the mappings.
LEMMA TwinStep ==
  ASSUME NEW v, NEW m, Mappings(m), NEW s, NEW n \in Nat, NEW l, NEW t, NEW F,
         Kinds(v, s, n, l, t, F), StateOf(v, s), NEW p, NEW b, At(p, s, n), At(b, s, n),
         Twin(p, b), n + 1 \notin p.unknown, n + 1 \notin Explains(p)
  PROVE  Twin(Step(v, m, p, l), Step(v, << >>, b, l)) /\ Step(v, m, p, l).state = t
         /\ Step(v, << >>, b, l).state = t
  <1> DEFINE w == << >>
             q == Step(v, m, p, l)
             c == Step(v, w, b, l)
             a == Advance(p)
             d == Advance(b)
  <1>1. /\ IsParse(a) /\ a.findings = p.findings /\ a.unknown = p.unknown
        /\ IsParse(d) /\ d.findings = b.findings /\ d.unknown = b.unknown
    BY AdvanceParts DEF At
  <1>2. Mappings(w) /\ ~Usable(v, w, Key(v, l))
    BY DEF Mappings, Usable
  <1> HIDE DEF w, q, c, a, d
  <1>3. Twin(a, d)
    BY <1>1, TwinKept
  <1>4. ASSUME Skips(v, s, n, l, t) PROVE Twin(q, c) /\ q.state = t /\ c.state = t
    <2>1. q.state = t /\ Quiet(a, q) /\ q.unknown = p.unknown
      BY <1>4 DEF Skips, q, a
    <2>2. c.state = t /\ Quiet(d, c) /\ c.unknown = b.unknown
      BY <1>4 DEF Skips, c, d
    <2> QED BY <1>1, <1>3, <2>1, <2>2, TwinKept DEF Quiet
  <1>5. ASSUME NEW f, NEW k \in Nat, FindsOne(v, s, n, l, t, f, k)
        PROVE  Twin(q, c) /\ q.state = t /\ c.state = t
    <2>1. q.state = t /\ \E r : Fits(v, p, l, r) /\ r.field = f /\ Finds(a, q, r, k, "parser")
      BY <1>5 DEF FindsOne, q, a
    <2>2. c.state = t /\ \E r : Fits(v, b, l, r) /\ r.field = f /\ Finds(d, c, r, k, "parser")
      BY <1>5 DEF FindsOne, c, d
    <2>3. PICK r : ParserReading(r) /\ r.field = f /\ Finds(a, q, r, k, "parser")
      BY <2>1 DEF Fits
    <2>4. PICK e : ParserReading(e) /\ e.field = f /\ Finds(d, c, e, k, "parser")
      BY <2>2 DEF Fits
    <2>5. Twin(q, c)
      BY <1>1, <1>3, <2>3, <2>4, TwinFinds
    <2> QED BY <2>1, <2>2, <2>5
  <1>6. ASSUME NEW f, NEW g, FindsTwo(v, s, n, l, t, f, g)
        PROVE  Twin(q, c) /\ q.state = t /\ c.state = t
    <2>1. /\ q.state = t
          /\ \E x, r, e : /\ ParserReading(r) /\ r.field = f /\ ParserReading(e) /\ e.field = g
                          /\ Finds(a, x, r, n + 1, "parser")
                          /\ Finds(x, q, e, n + 1, "parser")
      BY <1>6 DEF FindsTwo, q, a
    <2>2. /\ c.state = t
          /\ \E x, r, e : /\ ParserReading(r) /\ r.field = f /\ ParserReading(e) /\ e.field = g
                          /\ Finds(d, x, r, n + 1, "parser")
                          /\ Finds(x, c, e, n + 1, "parser")
      BY <1>6 DEF FindsTwo, c, d
    <2>3. PICK x, r, e : /\ ParserReading(r) /\ r.field = f
                         /\ ParserReading(e) /\ e.field = g
                         /\ Finds(a, x, r, n + 1, "parser")
                         /\ Finds(x, q, e, n + 1, "parser")
      BY <2>1
    <2>4. PICK y, i, j : /\ ParserReading(i) /\ i.field = f
                         /\ ParserReading(j) /\ j.field = g
                         /\ Finds(d, y, i, n + 1, "parser")
                         /\ Finds(y, c, j, n + 1, "parser")
      BY <2>2
    <2>0. n + 1 \in Nat
      OBVIOUS
    <2>5. Twin(x, y) /\ IsParse(x) /\ IsParse(y)
      <3>1. Twin(x, y)
        BY <1>1, <1>3, <2>0, <2>3, <2>4, TwinFinds
      <3> QED BY <3>1, <2>3, <2>4 DEF Finds
    <2>6. Twin(q, c)
      BY <2>0, <2>3, <2>4, <2>5, TwinFinds
    <2> QED BY <2>1, <2>2, <2>6
  <1>7. ASSUME Asks(v, s, n, l, t) PROVE Twin(q, c) /\ q.state = t /\ c.state = t
    <2>1. /\ q.state = t
          /\ Usable(v, m, Key(v, l)) =>
               Finds(a, q, m[Key(v, l)], n + 1, "learned_mapping")
          /\ ~Usable(v, m, Key(v, l)) =>
               Quiet(a, q) /\ q.unknown = p.unknown \cup {n + 1}
      BY <1>7 DEF Asks, q, a
    <2>2. c.state = t /\ Quiet(d, c) /\ c.unknown = b.unknown \cup {n + 1}
      BY <1>2, <1>7 DEF Asks, c, d
    <2>3. c.findings = d.findings
      BY <2>2 DEF Quiet
    <2>4. CASE Usable(v, m, Key(v, l))
      <3> DEFINE r == m[Key(v, l)]
      <3>1. r \in ReadingType /\ Finds(a, q, r, n + 1, "learned_mapping") /\ n + 1 \in Nat
        BY <2>1, <2>4 DEF Mappings, Usable
      <3> HIDE DEF r
      <3>2. Twin(q, c)
        BY <1>1, <1>3, <2>2, <2>3, <3>1, TwinLearns
      <3> QED BY <2>1, <2>2, <3>2
    <2>5. CASE ~Usable(v, m, Key(v, l))
      <3>1. q.findings = a.findings /\ q.unknown = a.unknown \cup {n + 1}
        BY <1>1, <2>1, <2>5 DEF Quiet
      <3>2. n + 1 \notin Explains(a)
        BY <1>1 DEF Explains
      <3>3. Twin(q, c)
        BY <1>1, <1>3, <2>2, <2>3, <3>1, <3>2, TwinLeaves
      <3> QED BY <2>1, <2>2, <3>3
    <2> QED BY <2>4, <2>5
  <1>8. Open(v, s) \in Nat
    BY DEF Open, StateOf, CiscoState
  <1>9. n + 1 \in Nat
    OBVIOUS
  <1>10. ASSUME Plain(v, s, n, l, t, F) PROVE Twin(q, c) /\ q.state = t /\ c.state = t
    BY <1>4, <1>5, <1>6, <1>7, <1>9, <1>10 DEF Plain
  <1>11. Twin(q, c) /\ q.state = t /\ c.state = t
    BY <1>4, <1>5, <1>8, <1>10 DEF Kinds
  <1> QED BY <1>11 DEF q, c, w

\* The relation holds after every number of lines, and both remember the same.
LEMMA AlwaysTwin ==
  ASSUME NEW v, NEW m, Mappings(m), NEW L \in Seq(LineOf(v)), NEW i \in 0 .. Len(L)
  PROVE  LET p == After(v, L, m)[i]
             b == After(v, L, << >>)[i]
         IN Twin(p, b) /\ p.state = b.state
  <1> DEFINE w == << >>
             f == After(v, L, m)
             g == After(v, L, w)
             T == {j \in Nat : j <= Len(L) => Twin(f[j], g[j]) /\ f[j].state = g[j].state}
  <1>0. Mappings(w)
    BY DEF Mappings
  <1> HIDE DEF w
  <1>1. /\ f[0] = Start(v) /\ \A j \in 1 .. Len(L) : f[j] = Step(v, m, f[j - 1], L[j])
    BY AfterSteps
  <1>2. /\ g[0] = Start(v) /\ \A j \in 1 .. Len(L) : g[j] = Step(v, w, g[j - 1], L[j])
    BY AfterSteps
  <1>3. Len(L) \in Nat /\ \A j \in 1 .. Len(L) : L[j] \in LineOf(v)
    OBVIOUS
  <1>4. \A j \in 0 .. Len(L) : Sound(v, m, L, j, f[j])
    BY AlwaysSound
  <1>5. \A j \in 0 .. Len(L) : Sound(v, w, L, j, g[j])
    BY <1>0, AlwaysSound
  <1> HIDE DEF f, g
  <1>6. 0 \in T
    <2>1. Sound(v, m, L, 0, f[0])
      BY <1>3, <1>4
    <2>2. f[0].unknown = {} /\ Cites(f[0]) = {}
      BY <2>1 DEF Sound, Accounted
    <2>3. Twin(f[0], g[0])
      BY <1>1, <1>2, <2>2, ExplainsCites DEF Twin
    <2> QED BY <1>1, <1>2, <2>3
  <1>7. ASSUME NEW j \in Nat, j \in T PROVE j + 1 \in T
    <2> SUFFICES ASSUME j + 1 <= Len(L)
                 PROVE  Twin(f[j + 1], g[j + 1]) /\ f[j + 1].state = g[j + 1].state
      OBVIOUS
    <2> DEFINE p == f[j]
               b == g[j]
               s == p.state
               l == L[j + 1]
    <2>1. Twin(p, b) /\ b.state = s
      BY <1>3, <1>7
    <2>2. f[j + 1] = Step(v, m, p, l) /\ g[j + 1] = Step(v, w, b, l) /\ l \in LineOf(v)
      BY <1>1, <1>2, <1>3
    <2>3. Sound(v, m, L, j, p) /\ Sound(v, w, L, j, b)
      BY <1>3, <1>4, <1>5
    <2> HIDE DEF p, b, s, l, T
    <2>4. At(p, s, j) /\ At(b, s, j) /\ StateOf(v, s)
      BY <2>1, <2>3 DEF Sound, Good, At, s
    <2>5. j + 1 \notin p.unknown /\ j + 1 \notin Explains(p)
      BY <2>3, ExplainsCites DEF Sound, Accounted
    <2>6. PICK t, F : Kinds(v, s, j, l, t, F)
      BY <2>2, <2>4, LineKinds
    <2>7. /\ Twin(Step(v, m, p, l), Step(v, w, b, l)) /\ Step(v, m, p, l).state = t
          /\ Step(v, w, b, l).state = t
      BY <2>1, <2>4, <2>5, <2>6, TwinStep DEF w
    <2> QED BY <2>2, <2>7
  <1> HIDE DEF T
  <1>8. i \in T
    BY <1>6, <1>7, NatSet
  <1> QED BY <1>3, <1>8 DEF T, f, g, w

\* The end of the file leaves what was read.
LEMMA ToldRead ==
  ASSUME NEW p, NEW q, IsParse(p), IsParse(q), Told(p, q)
  PROVE  ReadByParser(q.findings) = ReadByParser(p.findings)
  <1>1. p.findings \in Seq(FindingType) /\ q.findings \in Seq(FindingType)
    BY DEF IsParse
  <1>2. Len(p.findings) = Len(q.findings) /\ DOMAIN p.findings = 1 .. Len(p.findings)
    BY <1>1 DEF Told
  <1>3. \A i \in 1 .. Len(q.findings) : SameReading(q.findings[i], p.findings[i])
    BY <1>2 DEF Told, SameReading
  <1> QED BY <1>1, <1>2, <1>3, ReadSame

\* Approved mappings explain lines the parser does not know and touch no other.
THEOREM MappingsExplain ==
  ASSUME NEW v, NEW m, Mappings(m), NEW L \in Seq(LineOf(v))
  PROVE  Twin(Parse(v, L, m), Parse(v, L, << >>))
  <1> DEFINE w == << >>
             k == Len(L)
             p == After(v, L, m)[k]
             b == After(v, L, w)[k]
             o == Open(v, p.state)
             O == IF o = 0 THEN {} ELSE {o}
             q == End(v, p)
             c == End(v, b)
  <1>0. Mappings(w) /\ k \in 0 .. k
    BY DEF Mappings
  <1>1. Twin(p, b) /\ p.state = b.state
    BY <1>0, AlwaysTwin
  <1> HIDE DEF w
  <1>2. Sound(v, m, L, k, p) /\ Sound(v, w, L, k, b)
    BY <1>0, AlwaysSound
  <1> HIDE DEF p, b
  <1>3. Ended(p, q, Facets(v, p), O)
    BY <1>2, EndEnded DEF Sound, Good
  <1>4. Ended(b, c, Facets(v, b), O)
    BY <1>1, <1>2, EndEnded DEF Sound, Good
  <1> HIDE DEF q, c
  <1>5. o # 0 => o \notin Explains(p)
    BY <1>2, ExplainsCites DEF Sound, Accounted
  <1> HIDE DEF o
  <1>6. ReadByParser(q.findings) = ReadByParser(p.findings)
    BY <1>2, <1>3, ToldRead DEF Sound, Good, Ended
  <1>7. ReadByParser(c.findings) = ReadByParser(b.findings)
    BY <1>2, <1>4, ToldRead DEF Sound, Good, Ended
  <1>8. Explains(q) = Explains(p)
    BY <1>3, ToldSame DEF Ended
  <1>9. Twin(q, c)
    BY <1>1, <1>3, <1>4, <1>5, <1>6, <1>7, <1>8 DEF Twin, Ended
  <1> QED BY <1>9 DEF Parse, q, c, p, b, w, k
=============================================================================
