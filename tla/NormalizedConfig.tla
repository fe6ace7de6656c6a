-------------------------- MODULE NormalizedConfig --------------------------
(***************************************************************************)
(* The vendor-neutral configuration every normalizer writes and every      *)
(* control reads (normalizer/schema.py), and the bookkeeping the parsers   *)
(* share: a parse is a record that grows line by line.                     *)
(*                                                                         *)
(* A scalar setting is a number: Yes and No for the Boolean fields, a      *)
(* count, size or version as it is, a time-out in seconds (the code keeps  *)
(* minutes, a fraction where seconds are left over), Yes or No for a text  *)
(* that is there or empty.  Mistyped stands for a value of another type,   *)
(* which only an approved mapping can bring in.                            *)
(***************************************************************************)
EXTENDS Integers, Sequences, SequencesExt, TLC

Unset == -1
Mistyped == -2
No == 0
Yes == 1

BooleanFields ==
  {"service_hardening.password_encryption", "service_hardening.finger_disabled",
   "service_hardening.tcp_small_servers_disabled",
   "service_hardening.udp_small_servers_disabled",
   "service_hardening.bootp_server_disabled", "service_hardening.http_server_disabled",
   "service_hardening.http_secure_server_enabled",
   "service_hardening.strong_crypto_enabled", "access_control.source_route_disabled",
   "aaa.new_model", "logging.enabled", "logging.timestamps_enabled", "snmp.v3_only",
   "snmp.default_communities_removed", "ntp.enabled", "ntp.authenticate",
   "cdp.global_disabled"}

NumberFields ==
  {"device_info.enable_secret_type", "line_console.exec_timeout_minutes",
   "line_vty.exec_timeout_minutes", "ssh.version", "ssh.timeout_seconds",
   "ssh.auth_retries", "logging.buffered_size"}

TextFields ==
  {"device_info.hostname", "device_info.domain_name", "device_info.model",
   "device_info.os_version", "access_control.banner_motd", "access_control.banner_login",
   "line_console.transport_preferred", "line_vty.access_class",
   "aaa.authentication_login", "logging.trap_severity"}

ScalarFields == BooleanFields \cup NumberFields \cup TextFields
ListFields == {"line_vty.transport_input", "ntp.servers"}
SchemaFields == ScalarFields \cup ListFields

\* The dictionary with these rows, a dictionary with one entry written, and setdefault.
Dict(rows) == [k \in {r[1] : r \in rows} |-> (CHOOSE r \in rows : r[1] = k)[2]]
With(f, k, v) == [x \in DOMAIN f \cup {k} |-> IF x = k THEN v ELSE f[x]]
SetDefault(f, k, v) == IF k \in DOMAIN f THEN f ELSE With(f, k, v)

\* The scalars hold the fields that were set; interfaces the CDP state of each
\* interface; policies the part of a firewall policy a control reads.
EmptyConfig == [scalars |-> << >>, lists |-> [f \in ListFields |-> {}],
                interfaces |-> << >>, policies |-> << >>]

Get(c, f) == IF f \in DOMAIN c.scalars THEN c.scalars[f] ELSE Unset

NewPolicy == [enabled |-> TRUE, accept |-> FALSE, logging |-> Unset]

(***************************************************************************)
(* What one line says: a value for one field.  A list field takes items.   *)
(***************************************************************************)
Reading(f, v) == [field |-> f, value |-> v, items |-> {}]
Listing(f, s) == [field |-> f, value |-> Unset, items |-> s]

\* Only a field of the schema changes the configuration.  A list takes the new
\* items beside the old ones.
AssignUnion(c, r) ==
  IF r.field \in ListFields THEN [c EXCEPT !.lists[r.field] = @ \cup r.items]
  ELSE IF r.field \in ScalarFields
       THEN [c EXCEPT !.scalars = With(@, r.field, r.value)]
       ELSE c

\* Cisco: a list given replaces the list, a single value is appended to it.  Which of
\* the two a value is follows here from its field: the rule for transports and their
\* mappings give a list, those for servers a single one (cisco_ios.py:285-289).
AssignReplace(c, r) ==
  IF r.field = "line_vty.transport_input"
  THEN [c EXCEPT !.lists[r.field] = r.items]
  ELSE AssignUnion(c, r)

(***************************************************************************)
(* A parse: the configuration so far, the findings in order, the lines     *)
(* nothing recognized, and the number of the line being read.  State holds *)
(* what each parser remembers of the lines before.                         *)
(***************************************************************************)
NewParse(state) ==
  [config |-> EmptyConfig, findings |-> << >>, unknown |-> {}, n |-> 0, state |-> state]

Advance(p) == [p EXCEPT !.n = @ + 1]

FoundAt(p, r, n, source) ==
  [p EXCEPT !.findings = Append(@, [reading |-> r, line |-> n, source |-> source])]

Unrecognized(p) == [p EXCEPT !.unknown = @ \cup {p.n}]

\* _set: the configuration with the reading, which is kept as a finding.
Stated(p, config, r) == FoundAt([p EXCEPT !.config = config], r, p.n, "parser")

SetReplace(p, r) == Stated(p, AssignReplace(p.config, r), r)
SetUnion(p, r) == Stated(p, AssignUnion(p.config, r), r)

\* A statement that says one thing, or two.
SetAll(p, rows) ==
  IF Len(rows) = 1 THEN SetUnion(p, rows[1])
  ELSE SetUnion(SetUnion(p, rows[1]), rows[2])

(***************************************************************************)
(* The mappings operators have approved: a line's pattern to a reading.    *)
(* Cisco and JunOS take one whatever its field; FortiOS and the generic    *)
(* parser only one whose field they can assign.                            *)
(***************************************************************************)
ApplyReplace(p, r) ==
  FoundAt([p EXCEPT !.config = AssignReplace(@, r)], r, p.n, "learned_mapping")

ApplyUnion(p, r) ==
  FoundAt([p EXCEPT !.config = AssignUnion(@, r)], r, p.n, "learned_mapping")

\* Mutation: a line whose approved field cannot be assigned is dropped.
LearnedOrDropped(p, learned, key) ==
  IF key \in DOMAIN learned
  THEN IF learned[key].field \in SchemaFields
       THEN ApplyUnion(p, learned[key]) ELSE p
  ELSE Unrecognized(p)

LearnedIfAssigned(p, learned, key) ==
  IF key \in DOMAIN learned /\ learned[key].field \in SchemaFields
  THEN ApplyUnion(p, learned[key])
  ELSE Unrecognized(p)
=============================================================================
