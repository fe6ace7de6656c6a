--------------------------- MODULE ConfigAnalysis ---------------------------
(***************************************************************************)
(* What an audit makes of a device's configuration: the text is parsed by  *)
(* the vendor's normalizer with the mappings operators have approved, the  *)
(* lines nobody understands wait for training, the rest is evaluated       *)
(* against the catalogue of the framework, and two audits of the device    *)
(* are compared.                                                           *)
(*                                                                         *)
(* The audits of the device run one after the other here; what happens     *)
(* when requests, workers and crashes interleave is AuditLifecycle.        *)
(***************************************************************************)
EXTENDS Remediation

CONSTANTS
  Vendors,     \* the vendors a device may be of
  Fragments,   \* for each vendor, the pieces its configurations are made of
  MaxLines,    \* for each vendor, a bound on the lines of the configuration
  MaxAudits,   \* a bound on the audits of the device
  Requests,    \* the frameworks asked for, NoRequest among them
  NoRequest,   \* the caller leaves the choice to the server
  Ways,        \* the ways in that are used
  Approvals    \* the readings an operator may approve for a line

ASSUME BoundsAssumption ==
  /\ Ways \subseteq {"upload one", "upload many", "pull", "import", "pull discovered"}
  /\ \A v \in Vendors : MaxLines[v] \in Nat
  /\ MaxAudits \in Nat
  /\ Requests \subseteq Frameworks \cup {NoRequest}

\* What lines and approved readings are made of.
TextLine == [text : STRING, no : BOOLEAN, n : Nat, words : SUBSET STRING]
PathLine == [form : STRING, path : Seq(STRING), no : BOOLEAN, n : Nat, words : SUBSET STRING]

ASSUME LinesAssumption ==
  /\ \A v \in Vendors :
       Fragments[v] \subseteq Seq(IF v = "juniper" THEN PathLine ELSE TextLine)
  /\ Approvals \subseteq [field : STRING, value : Int, items : SUBSET STRING]

VARIABLES
  vendor,      \* of the device
  text,        \* the device's configuration, line by line
  learned,     \* LearnedMapping: from the pattern of a line to a reading
  audits,      \* the device's Config rows, in order
  normalized,  \* what the last pass over the last of them found
  pending,     \* the lines of that pass still waiting for training
  baseline     \* Device.baseline_config_id, 0 for none

vars == <<vendor, text, learned, audits, normalized, pending, baseline>>

(***************************************************************************)
(* Which framework a request gets: each way in has its own rule.           *)
(***************************************************************************)
Rejected == "rejected"
DefaultFramework(v) == IF v \in {"cisco", "juniper"} THEN "cis" ELSE DefaultGeneric

\* One file, a device pulled by address or by its stored credential, and the
\* worker's pull: an unsupported pair is refused.
UploadOne(v, f) ==
  CASE f = NoRequest -> DefaultFramework(v)
    [] f # NoRequest /\ Supported(f, v) -> f
    [] OTHER -> Rejected

PullDevice(v, f) == IF f # NoRequest /\ Supported(f, v) THEN f ELSE Rejected

\* One file of many, and an import from a discovery session: an unsupported pair
\* falls back to the neutral catalogue.
\* Mutation: only the CIS catalogue is checked for a file of many.
UploadManyAsAsked(v, f) ==
  CASE f = NoRequest -> DefaultFramework(v)
    [] f = "cis" /\ v \notin {"cisco", "juniper"} -> DefaultGeneric
    [] OTHER -> f

UploadMany(v, f) ==
  CASE f = NoRequest -> DefaultFramework(v)
    [] f # NoRequest /\ v = "fortinet" -> DefaultGeneric
    [] f = "cis" /\ v \notin {"cisco", "juniper", "fortinet"} -> DefaultGeneric
    [] OTHER -> f

DiscoveryImport(v, f) ==
  CASE f = NoRequest -> Rejected
    [] f = "cis" /\ v \notin {"cisco", "juniper"} -> DefaultGeneric
    [] f # "cis" /\ f # NoRequest /\ v = "fortinet" -> DefaultGeneric
    [] OTHER -> f

\* A neighbour pulled from a seed: only the CIS catalogue is checked.
PullDiscovered(v, f) ==
  IF f = NoRequest \/ (f = "cis" /\ v \notin {"cisco", "juniper"}) THEN Rejected ELSE f

FrameworkFor(way, v, f) ==
  CASE way = "upload one" -> UploadOne(v, f)
    [] way = "upload many" -> UploadMany(v, f)
    [] way = "pull" -> PullDevice(v, f)
    [] way = "import" -> DiscoveryImport(v, f)
    [] way = "pull discovered" -> PullDiscovered(v, f)

(***************************************************************************)
(* Parsing.                                                                *)
(***************************************************************************)
Start(v) ==
  CASE v = "cisco" -> CiscoStart
    [] v = "fortinet" -> FortiOSStart
    [] v = "juniper" -> JunosStart
    [] OTHER -> GenericStart

Step(v, mappings, p, l) ==
  CASE v = "cisco" -> CiscoStep(mappings, p, l)
    [] v = "fortinet" -> FortiOSStep(mappings, p, l)
    [] v = "juniper" -> JunosStep(mappings, p, l)
    [] OTHER -> GenericStep(mappings, p, l)

End(v, p) ==
  CASE v = "cisco" -> CiscoEnd(p)
    [] v = "fortinet" -> FortiOSEnd(p)
    [] v = "juniper" -> JunosEnd(p)
    [] OTHER -> p

\* What is known after each number of lines.
After(v, lines, mappings) ==
  LET after[i \in 0 .. Len(lines)] ==
        IF i = 0 THEN Start(v) ELSE Step(v, mappings, after[i - 1], lines[i])
  IN after

Parse(v, lines, mappings) == End(v, After(v, lines, mappings)[Len(lines)])

\* The pattern of a line, under which a mapping is approved and looked up.
Pattern(l) == IF vendor = "juniper" THEN l.path ELSE l.text

NothingParsed == NewParse("none")

Init ==
  /\ vendor \in Vendors
  /\ text = << >>
  /\ learned = << >>
  /\ audits = << >>
  /\ normalized = NothingParsed
  /\ pending = {}
  /\ baseline = 0

LastAudit == audits[Len(audits)]
Settled ==
  Len(audits) > 0 => LastAudit.status \in {"complete", "failed"}
Complete(i) == i \in DOMAIN audits /\ audits[i].status = "complete"

\* The device's owners add to its configuration.
Configure(piece) ==
  /\ Settled /\ Len(audits) < MaxAudits
  /\ Len(text) + Len(piece) <= MaxLines[vendor]
  /\ text' = text \o piece
  /\ UNCHANGED <<vendor, learned, audits, normalized, pending, baseline>>

\* A configuration reaches the server by one of the ways in.
Submit(way, f) ==
  /\ Settled /\ Len(audits) < MaxAudits
  /\ text # << >>
  /\ FrameworkFor(way, vendor, f) # Rejected
  /\ audits' = Append(audits, [framework |-> FrameworkFor(way, vendor, f),
                               status |-> "queued", results |-> {}, score |-> Unset])
  /\ UNCHANGED <<vendor, text, learned, normalized, pending, baseline>>

\* run_config_audit: parse, then wait for training if a line was not understood,
\* else evaluate.  The findings of an earlier pass are replaced.
Outcome(a, p) ==
  IF p.unknown # {} THEN [a EXCEPT !.status = "awaiting_training"]
  ELSE IF ~Supported(a.framework, vendor)
          \/ \E r \in GetControls(a.framework, vendor) : Raises(r, p.config)
       THEN [a EXCEPT !.status = "failed"]
       ELSE LET results == Evaluate(a.framework, vendor, p.config) IN
            [a EXCEPT !.status = "complete", !.results = results,
                      !.score = ComplianceScore(results)]

RunAudit ==
  /\ ~Settled /\ LastAudit.status \in {"queued", "normalising"}
  /\ LET p == Parse(vendor, text, learned) IN
     /\ normalized' = [p EXCEPT !.state = "none"]
     /\ pending' = p.unknown
     /\ audits' = [audits EXCEPT ![Len(audits)] = Outcome(@, p)]
  /\ UNCHANGED <<vendor, text, learned, baseline>>

\* submit_training: a line's reading is approved.  A pattern keeps its field; the
\* last pending line resumes the audit.  A pattern has one value here: the code keeps
\* one for each exact line, and gives another line the first (training.py:225-241,
\* matcher.py:161-167).
ApproveTraining(n, r) ==
  LET key == Pattern(text[n]) IN
  /\ ~Settled /\ LastAudit.status = "awaiting_training"
  /\ n \in pending
  /\ key \in DOMAIN learned => learned[key].field = r.field
  /\ learned' = With(learned, key, r)
  /\ pending' = pending \ {n}
  /\ audits' = IF pending' = {} THEN [audits EXCEPT ![Len(audits)].status = "normalising"]
               ELSE audits
  /\ UNCHANGED <<vendor, text, normalized, baseline>>

\* set_device_baseline: only a completed audit of the device.
\* Mutation: any audit of the device may be the baseline.
SetAnyBaseline(i) ==
  /\ i \in DOMAIN audits
  /\ baseline # i
  /\ baseline' = i
  /\ UNCHANGED <<vendor, text, learned, audits, normalized, pending>>

SetBaseline(i) ==
  /\ Complete(i)
  /\ baseline # i
  /\ baseline' = i
  /\ UNCHANGED <<vendor, text, learned, audits, normalized, pending>>

Next ==
  \/ RunAudit
  \/ \E piece \in Fragments[vendor] : Configure(piece)
  \/ \E way \in Ways, f \in Requests : Submit(way, f)
  \/ \E n \in pending, r \in Approvals : ApproveTraining(n, r)
  \/ \E i \in 1 .. MaxAudits : SetBaseline(i)

Spec == Init /\ [][Next]_vars

(***************************************************************************)
(* device_drift: the chosen or the first completed audit against the last. *)
(***************************************************************************)
CompletedAudits == {i \in DOMAIN audits : Complete(i)}
DriftFrom == IF baseline # 0 THEN baseline
             ELSE CHOOSE i \in CompletedAudits : \A j \in CompletedAudits : i <= j
DriftTo == CHOOSE i \in CompletedAudits : \A j \in CompletedAudits : i >= j
DriftAnswers == Cardinality(CompletedAudits) >= 2 /\ DriftFrom # DriftTo
DeviceDrift == Drift(audits[DriftFrom].results, audits[DriftTo].results)

(***************************************************************************)
(* Properties.                                                             *)
(***************************************************************************)
\* The pass that normalized holds is the one over the whole text.
Current == audits # << >> /\ LastAudit.status # "queued" /\ normalized.n = Len(text)

\* Rows are what the code can store: a baseline is a completed audit, a completed
\* audit has one result per control and a score, a waiting one has a line to train.
TypeOK ==
  /\ vendor \in Vendors
  /\ Len(text) <= MaxLines[vendor]
  /\ \A k \in DOMAIN learned : learned[k] \in Approvals
  /\ pending \subseteq normalized.unknown
  /\ normalized.unknown \subseteq 1 .. normalized.n
  /\ Len(audits) <= MaxAudits
  /\ baseline # 0 => Complete(baseline)
  /\ \A i \in DOMAIN audits :
       LET a == audits[i] IN
       /\ a.framework \in Frameworks
       /\ a.status = "complete" =>
            /\ a.score \in 0 .. 10000
            /\ Cardinality(a.results) = Cardinality(GetControls(a.framework, vendor))
       /\ a.status = "awaiting_training" => i = Len(audits) /\ pending # {}

(***************************************************************************)
(* What the lines of the text are, told apart without the parsers.         *)
(***************************************************************************)
Structural(l) ==
  CASE vendor = "cisco" -> l.text \in {"", "!", "line console", "line vty"}
    [] vendor = "fortinet" -> l.text \in {"", "#", "config", "edit", "next", "end"}
    [] vendor = "juniper" -> l.form \in {"blank", "open", "close"}
    [] OTHER -> l.text = ""

InsideBanner(n) ==
  /\ vendor = "cisco"
  /\ \E i \in 1 .. n - 1 :
       /\ text[i].text \in DOMAIN Banners /\ Delimiter \notin text[i].words
       /\ \A j \in i + 1 .. n - 1 : text[j].text # Delimiter

Cited(n) == \E i \in DOMAIN normalized.findings : normalized.findings[i].line = n

\* Every line that says something is either understood, and a finding cites it, or
\* kept for training, never both and never neither.  The lines of a banner are its
\* text; when its end is missing, that is the rest of the file.
EveryLineAccounted ==
  Current => \A n \in DOMAIN text :
    ~Structural(text[n]) /\ ~InsideBanner(n) => (Cited(n) <=> n \notin normalized.unknown)

\* The fields FortiOS concludes from the whole file, which no statement overrides.
Concluded ==
  IF vendor = "fortinet"
  THEN {"service_hardening.http_server_disabled",
        "service_hardening.http_secure_server_enabled",
        "snmp.default_communities_removed"}
  ELSE {}

FindingsOf(f) ==
  {i \in DOMAIN normalized.findings : normalized.findings[i].reading.field = f}

\* The fields for settings of which a device holds several at once, each with a value
\* of its own: time-outs and access lists of VTY ranges, SNMP groups, users and
\* communities, login lists; log destinations; key and syslog statements.
HeldSeveral ==
  CASE vendor = "cisco" ->
         {"line_vty.exec_timeout_minutes", "line_vty.access_class", "snmp.v3_only",
          "snmp.default_communities_removed", "aaa.authentication_login"}
    [] vendor = "fortinet" ->
         {"line_vty.exec_timeout_minutes", "line_console.exec_timeout_minutes",
          "snmp.v3_only", "logging.enabled"}
    [] vendor = "juniper" ->
         {"logging.timestamps_enabled", "logging.trap_severity", "ntp.authenticate",
          "snmp.default_communities_removed"}
    [] OTHER -> {}

\* A setting a device holds once and a text states more than once is the one stated last
\* (a mapping approved without a value states nothing); for the stored passwords of
\* FortiOS administrators it is the weakest of them, wherever it stands.  Nothing is
\* claimed of the settings in HeldSeveral.  The parsers let the last of those decide
\* too, and that is not the device's state: of two VTY ranges the range is not read
\* (cisco_ios.py:37, 107-109, 130-136), so control 1.5.2 passes on the later one while
\* the earlier allows longer sessions; "snmp-server group ... v3" after a community
\* gives snmp.v3_only = True (cisco_ios.py:227-236), which matcher.py:64 explains as
\* "Whether only SNMPv3 is configured"; of the SNMP users and log destinations of
\* FortiOS (fortios.py:118-131) the last is taken for all.
LastStatementDecides ==
  LET fs == normalized.findings
      password == "service_hardening.password_encryption"
  IN /\ \A f \in DOMAIN normalized.config.scalars \ (Concluded \cup HeldSeveral) :
          \A i \in FindingsOf(f) :
            (\A j \in FindingsOf(f) : j <= i) /\ fs[i].reading.value # Unset =>
              Get(normalized.config, f) = fs[i].reading.value
     /\ (Current /\ vendor = "fortinet" /\ \A i \in FindingsOf(password) :
           fs[i].source = "parser") =>
          ((\E i \in FindingsOf(password) : "ENC" \notin text[fs[i].line].words)
             => Get(normalized.config, password) = No)

\* The findings a verdict of a control may rest on.  JunOS concludes that HTTP is off
\* from a statement about HTTPS.
Evidence(r) ==
  UNION {CASE f = "interfaces" -> {"interfaces.cdp_disabled"}
           [] f = "policies" -> {"firewall_policies.action"}
           [] f = "service_hardening.http_server_disabled" ->
                {f, "service_hardening.http_secure_server_enabled"}
           [] OTHER -> {f} : f \in Range(r.fields)}

\* No control passes or fails without a line of the text that says something about
\* it: what was not observed is not applicable.
VerdictHasEvidence ==
  (Current /\ LastAudit.status = "complete") =>
    \A r \in GetControls(LastAudit.framework, vendor) :
      [framework |-> LastAudit.framework, id |-> r.id, verdict |-> NA]
          \in LastAudit.results
      \/ \E f \in Evidence(r) : FindingsOf(f) # {}

\* What the parser itself read: the fields and the lines it read them from, in order.
ReadByParser(fs) ==
  LET read[i \in 0 .. Len(fs)] ==
        IF i = 0 THEN << >>
        ELSE IF fs[i].source = "parser"
             THEN Append(read[i - 1], <<fs[i].reading.field, fs[i].line>>)
             ELSE read[i - 1]
  IN read[Len(fs)]

Explained(fs) == {fs[i].line : i \in {j \in DOMAIN fs : fs[j].source = "learned_mapping"}}

\* Approved mappings explain lines the parser does not know and touch no other: with
\* them the parser reads the same fields from the same lines as without.
LearnedExplainsOnlyUnknown ==
  Current =>
    LET bare == Parse(vendor, text, << >>)
        explained == Explained(normalized.findings)
    IN /\ ReadByParser(normalized.findings) = ReadByParser(bare.findings)
       /\ explained \cap normalized.unknown = {}
       /\ explained \cup normalized.unknown = bare.unknown

\* No operator has approved a mapping for what the control reads: no template takes
\* a mapping back.
Unmapped(r) == \A k \in DOMAIN learned : learned[k].field \notin Range(r.fields)

\* The controls of Cisco and Juniper that failed and are given a template.  FortiOS is
\* left out: its templates name one interface or policy, the control asks about all.
Remediable ==
  IF Current /\ LastAudit.status = "complete" /\ vendor \in {"cisco", "juniper"}
  THEN {r \in GetControls(LastAudit.framework, vendor) :
          /\ DeterministicRemediation(vendor, r.ref) # NoTemplate
          /\ Verdict(r, normalized.config) = FAIL
          /\ Unmapped(r)}
  ELSE {}

\* The new lines prevail: added to the configuration as they are, they clear the
\* control, whatever the lines before them say and in whatever blocks they left the
\* parser.  (The templates that take nothing away.)
NewLinesPrevail ==
  \A r \in Remediable :
    LET block == DeterministicRemediation(vendor, r.ref) IN
    block.takes = {} =>
      Verdict(r, Parse(vendor, text \o block.shows, learned).config) # FAIL

\* A JunOS statement that was deactivated stays so: "set" does not activate it.
Deactivated == vendor = "juniper" /\ \E n \in DOMAIN text : text[n].no

\* The remediation a failed control is given repairs it: entered on the device and
\* read back by the same parser, in whatever order the device shows its lines, the
\* control no longer fails.  The one template that never does is the SNMP template of
\* Cisco (1.8.1, also for V-243079): its control passes only on a line "no snmp-server
\* community public" or "... private" (cis_cisco_ios.py:142-154, cisco_ios.py:230-236),
\* and a device shows no line for a community it does not have, so the control fails
\* after the repair as before.
TemplateClears ==
  /\ NewLinesPrevail
  /\ ~Deactivated =>
       \A r \in Remediable :
         \A shown \in ReadBacks(vendor, DeterministicRemediation(vendor, r.ref), text) :
           Verdict(r, Parse(vendor, shown, learned).config) = FAIL
             <=> vendor = "cisco" /\ r.test = "both"

\* The drift report loses no failure: what fails now is newly failed or still
\* failing, what failed before is still failing, has passed, or is no longer
\* observed, and the scores it computes again are the ones the audits stored.
DriftAccounts ==
  DriftAnswers =>
    LET before == audits[DriftFrom]
        after == audits[DriftTo]
        now == {r.id : r \in {x \in after.results : x.verdict = FAIL}}
        ids(s) == {r.id : r \in s}
        gone == {b.id : b \in {x \in before.results : x.verdict = FAIL /\
                  ~\E y \in after.results : y.framework = x.framework /\ y.id = x.id
                                             /\ y.verdict # NA}}
        was == {b.id : b \in {x \in before.results : x.verdict = FAIL}}
        d == DeviceDrift
    IN /\ now = ids(d.newly_failed) \cup ids(d.still_failing)
       /\ d.newly_failed \cap d.still_failing = {}
       /\ was = ids(d.newly_passed) \cup ids(d.still_failing) \cup gone
       /\ d.score_before = before.score /\ d.score_after = after.score

\* What the ways in let through.  A request is refused or gets a framework that has a
\* catalogue for the vendor, whichever way it comes, except a neighbour pulled from a
\* seed: pull_discovered_device (device_access.py:555-558) refuses only CIS, where
\* AI_HANDOFF.md:98 has it that "other Fortinet framework combinations return an
\* explicit unsupported response".  The audit of a pair with a catalogue fails only
\* over a mapping approved with a value of the wrong type (or for a field that is no
\* setting, an interface or a whole section, which training.py:113-122 lets pass too:
\* Approvals has none); that of a pair without one waits for training or fails, and
\* never completes.
FailsOnlyByMistyping ==
  /\ \A way \in Ways \ {"pull discovered"}, f \in Requests :
       LET g == FrameworkFor(way, vendor, f) IN g # Rejected => Supported(g, vendor)
  /\ \A i \in DOMAIN audits :
       LET a == audits[i] IN
       IF Supported(a.framework, vendor)
       THEN a.status = "failed" => \E k \in DOMAIN learned : learned[k].value = Mistyped
       ELSE a.status # "complete"
=============================================================================
