----------------------------- MODULE Compliance -----------------------------
(***************************************************************************)
(* The catalogues of controls, the engine that evaluates them and the      *)
(* drift report that compares two evaluations (compliance/).               *)
(*                                                                         *)
(* A control is a record: its number, the test it applies, the fields the  *)
(* test reads, its bound, and the reference under which a remediation is   *)
(* looked up.                                                              *)
(***************************************************************************)
EXTENDS JunosNormalizer

PASS == "PASS"
FAIL == "FAIL"
NA == "NOT_APPLICABLE"

Frameworks == {"cis", "nist", "stig", "iso"}
DefaultGeneric == "nist"

(***************************************************************************)
(* The tests.  A bound compared with a value that is not a number raises.  *)
(***************************************************************************)
\* Mutation: a setting that was not observed counts as not configured.
UnobservedFails(v) == IF v \notin {Unset, No} THEN PASS ELSE FAIL

RequiredBool(v) == IF v = Unset THEN NA ELSE IF v # No THEN PASS ELSE FAIL
AtMost(v, bound) == IF v = Unset THEN NA ELSE IF v <= bound THEN PASS ELSE FAIL
AtLeast(v, bound) == IF v = Unset THEN NA ELSE IF v >= bound THEN PASS ELSE FAIL
MemberOf(v, allowed) == IF v = Unset THEN NA ELSE IF v \in allowed THEN PASS ELSE FAIL
BothOf(v, w) == IF v = Unset /\ w = Unset THEN NA
                ELSE IF v = Yes /\ w = Yes THEN PASS ELSE FAIL

\* A banner is a text: any text but the empty one counts.
BothBanners(v, w) == IF v = Unset /\ w = Unset THEN NA
                  ELSE IF v \notin {Unset, No} /\ w \notin {Unset, No} THEN PASS ELSE FAIL

SecureHttp(disabled, secure) ==
  IF disabled \in {Unset, Yes} THEN NA ELSE IF secure = Yes THEN PASS ELSE FAIL

OnlySsh(transports) ==
  IF transports = {} THEN NA ELSE IF transports = {"ssh"} THEN PASS ELSE FAIL

EncryptedOnly(protocols) ==
  IF protocols = {} THEN NA
  ELSE IF protocols \cap {"ssh", "https"} # {} /\ protocols \cap {"http", "telnet"} = {}
       THEN PASS ELSE FAIL

NtpServers(servers) == IF servers = {} THEN NA
                       ELSE IF servers # {""} THEN PASS ELSE FAIL

NtpSynchronized(enabled, servers) ==
  IF enabled = Unset /\ servers = {} THEN NA
  ELSE IF enabled \notin {Unset, No} /\ servers # {} THEN PASS ELSE FAIL

CdpDisabled(global, interfaces) ==
  LET seen == {interfaces[i] : i \in DOMAIN interfaces} IN
  CASE global = Yes -> PASS
    [] global = No -> FAIL
    [] global \notin {Yes, No} /\ seen = {Yes} -> PASS
    [] OTHER -> IF No \in seen THEN FAIL ELSE NA

PoliciesLogged(policies) ==
  LET accepting == {i \in DOMAIN policies : policies[i].enabled /\ policies[i].accept} IN
  IF accepting = {} THEN NA
  ELSE IF \A i \in accepting : policies[i].logging = Yes THEN PASS ELSE FAIL

(***************************************************************************)
(* Rows of the catalogues.                                                 *)
(***************************************************************************)
Control(id, test, fields, bound, ref) ==
  [id |-> id, test |-> test, fields |-> fields, bound |-> bound, ref |-> ref]
Bool(id, f, ref) == Control(id, "bool", <<f>>, 0, ref)
Most(id, f, bound, ref) == Control(id, "most", <<f>>, bound, ref)
Least(id, f, bound, ref) == Control(id, "least", <<f>>, bound, ref)
Rule(id, test, fields, ref) == Control(id, test, fields, 0, ref)

Timeout == 600
Buffer == 64000
Ssh2(id) == Rule(id, "ssh2", <<"ssh.version">>, "ssh.version")
SshOnly(id) == Rule(id, "ssh_only", <<"line_vty.transport_input">>, "ssh.only")
Ntp(id) == Rule(id, "ntp", <<"ntp.servers">>, "ntp.servers")
Snmp(id) ==
  Rule(id, "both", <<"snmp.v3_only", "snmp.default_communities_removed">>, "snmp.v3")
Idle(id, ref) == Most(id, "line_vty.exec_timeout_minutes", Timeout, ref)
Stamps(id) == Bool(id, "logging.timestamps_enabled", "logging.enabled")
Aaa(id) == Bool(id, "aaa.new_model", "aaa.enabled")

CisCiscoIOS ==
  {Bool("1.1.1", "service_hardening.password_encryption", "1.1.1"),
   Rule("1.1.2", "secret", <<"device_info.enable_secret_type">>, "1.1.2"),
   Bool("1.2.1", "service_hardening.finger_disabled", "1.2.1"),
   Bool("1.2.2", "service_hardening.http_server_disabled", "1.2.2"),
   Rule("1.2.3", "secure_http",
        <<"service_hardening.http_server_disabled",
          "service_hardening.http_secure_server_enabled">>, "1.2.3"),
   Bool("1.2.4", "service_hardening.tcp_small_servers_disabled", "1.2.4"),
   Bool("1.2.5", "service_hardening.udp_small_servers_disabled", "1.2.5"),
   Bool("1.2.6", "service_hardening.bootp_server_disabled", "1.2.6"),
   Bool("1.3.1", "access_control.source_route_disabled", "1.3.1"),
   Rule("1.3.2", "no_evidence", <<"interfaces">>, "1.3.2"),
   Rule("1.4.1", "banners", <<"access_control.banner_motd", "access_control.banner_login">>,
        "1.4.1"),
   Most("1.5.1", "line_console.exec_timeout_minutes", Timeout, "1.5.1"),
   Idle("1.5.2", "1.5.2"),
   Rule("1.5.3", "ssh_only", <<"line_vty.transport_input">>, "1.5.3"),
   Rule("1.5.4", "ssh2", <<"ssh.version">>, "1.5.4"),
   Most("1.5.5", "ssh.timeout_seconds", 60, "1.5.5"),
   Most("1.5.6", "ssh.auth_retries", 3, "1.5.6"),
   Least("1.6.1", "logging.buffered_size", Buffer, "1.6.1"),
   Bool("1.6.2", "logging.timestamps_enabled", "1.6.2"),
   Rule("1.7.1", "ntp", <<"ntp.servers">>, "1.7.1"),
   Rule("1.8.1", "both", <<"snmp.v3_only", "snmp.default_communities_removed">>, "1.8.1"),
   Bool("1.9.1", "aaa.new_model", "1.9.1"),
   Rule("1.10.1", "cdp", <<"cdp.global_disabled", "interfaces">>, "1.10.1")}

CisJuniper ==
  {Rule("JUN-1.1", "secret", <<"device_info.enable_secret_type">>, "credential.secure_hash"),
   Bool("JUN-1.2", "service_hardening.http_server_disabled", "http.disabled"),
   Bool("JUN-1.3", "access_control.banner_login", "banner.login"),
   Ssh2("JUN-2.1"), Idle("JUN-2.2", "session.timeout"), Stamps("JUN-3.1"),
   Ntp("JUN-3.2"), Bool("JUN-3.3", "ntp.authenticate", "ntp.authenticate"),
   Snmp("JUN-4.1"), Aaa("JUN-4.2"),
   Bool("JUN-5.1", "cdp.global_disabled", "discovery.disabled")}

Nist ==
  {Aaa("AC-2"), Bool("IA-5", "service_hardening.password_encryption", "password.encryption"),
   Ssh2("SC-8"), Idle("AC-12", "session.timeout"), Stamps("AU-2"),
   Least("AU-4", "logging.buffered_size", Buffer, "logging.buffer"),
   Rule("CM-7", "both",
        <<"service_hardening.http_server_disabled", "service_hardening.finger_disabled">>,
        "services.minimal"),
   Ntp("SC-45")}

FortinetNist ==
  {Idle("AC-12", "fortios.session.timeout"),
   Rule("AC-17", "encrypted_only", <<"line_vty.transport_input">>,
        "fortios.management.secure"),
   Bool("IA-5", "service_hardening.password_encryption", "fortios.password.encryption"),
   Bool("SC-13", "service_hardening.strong_crypto_enabled", "fortios.strong_crypto"),
   Bool("AU-2", "logging.enabled", "fortios.logging.enabled"),
   Rule("AU-12", "policies", <<"policies">>, "fortios.policy.logging"),
   Rule("SC-45", "ntp_sync", <<"ntp.enabled", "ntp.servers">>, "fortios.ntp")}

Stig ==
  {Ssh2("V-243075"), SshOnly("V-243076"), Idle("V-243077", "session.timeout"),
   Stamps("V-243078"), Snmp("V-243079"), Ntp("V-243080")}

Iso ==
  {Aaa("A.5.15"), Ssh2("A.8.5"),
   Bool("A.8.9", "service_hardening.password_encryption", "password.encryption"),
   Stamps("A.8.15"), Ntp("A.8.17"), SshOnly("A.8.20")}

(***************************************************************************)
(* get_controls: the catalogue of a framework for a vendor, or none.       *)
(***************************************************************************)
Supported(framework, vendor) ==
  /\ vendor = "fortinet" => framework = DefaultGeneric
  /\ framework = "cis" => vendor \in {"cisco", "juniper"}

GetControls(framework, vendor) ==
  CASE vendor = "fortinet" -> FortinetNist
    [] vendor # "fortinet" /\ framework = "cis" ->
         IF vendor = "cisco" THEN CisCiscoIOS ELSE CisJuniper
    [] vendor # "fortinet" /\ framework = "nist" -> Nist
    [] vendor # "fortinet" /\ framework = "stig" -> Stig
    [] vendor # "fortinet" /\ framework = "iso" -> Iso

Verdict(r, c) ==
  LET v(i) == Get(c, r.fields[i])
      list(i) == c.lists[r.fields[i]]
  IN CASE r.test = "bool" -> RequiredBool(v(1))
       [] r.test = "most" -> AtMost(v(1), r.bound)
       [] r.test = "least" -> AtLeast(v(1), r.bound)
       [] r.test = "ssh2" -> MemberOf(v(1), {2})
       [] r.test = "secret" -> MemberOf(v(1), {5, 8, 9})
       [] r.test = "both" -> BothOf(v(1), v(2))
       [] r.test = "banners" -> BothBanners(v(1), v(2))
       [] r.test = "secure_http" -> SecureHttp(v(1), v(2))
       [] r.test = "ssh_only" -> OnlySsh(list(1))
       [] r.test = "encrypted_only" -> EncryptedOnly(list(1))
       [] r.test = "ntp" -> NtpServers(list(1))
       [] r.test = "ntp_sync" -> NtpSynchronized(v(1), list(2))
       [] r.test = "cdp" -> CdpDisabled(v(1), c.interfaces)
       [] r.test = "policies" -> PoliciesLogged(c.policies)
       [] r.test = "no_evidence" -> NA

\* A control whose evaluation raises; one of them is enough to fail the audit.  A
\* mistyped value is one that does not compare with a number; values that raise by
\* another way are left out: an unhashable secret type (cis_cisco_ios.py:63), a list
\* with an item that is no text (lines 118 and 134).
Raises(r, c) == r.test \in {"most", "least"} /\ Get(c, r.fields[1]) = Mistyped

(***************************************************************************)
(* evaluate_compliance: one result per control, and the share of the       *)
(* applicable ones that pass in hundredths of a percent, rounded.          *)
(***************************************************************************)
Evaluate(framework, vendor, c) ==
  {[framework |-> framework, id |-> r.id, verdict |-> Verdict(r, c)] :
     r \in GetControls(framework, vendor)}

Count(results, verdict) == Cardinality({r \in results : r.verdict = verdict})

Percent(part, whole) == (2 * 10000 * part + whole) \div (2 * whole)

ComplianceScore(results) ==
  LET applicable == {r \in results : r.verdict # NA} IN
  IF applicable = {} THEN 0
  ELSE Percent(Count(applicable, PASS), Cardinality(applicable))

(***************************************************************************)
(* build_drift_report.  The score is computed again from the stored        *)
(* verdicts.                                                               *)
(***************************************************************************)
DriftScore(results) ==
  LET passed == Count(results, PASS)
      failed == Count(results, FAIL)
  IN IF passed + failed > 0 THEN Percent(passed, passed + failed) ELSE 0

\* The earlier verdict of the same control of the same framework, if there is one.
Previous(baseline, r) ==
  LET prior == {b \in baseline : b.framework = r.framework /\ b.id = r.id} IN
  IF prior = {} THEN "none" ELSE (CHOOSE b \in prior : TRUE).verdict

\* Mutation: only a control that passed before is newly failed.
DriftFromPass(baseline, current) ==
  LET was(r) == Previous(baseline, r) IN
  [newly_failed |-> {r \in current : r.verdict = FAIL /\ was(r) = PASS},
   newly_passed |-> {r \in current : r.verdict = PASS /\ was(r) = FAIL},
   still_failing |-> {r \in current : r.verdict = FAIL /\ was(r) = FAIL},
   unchanged_count |-> Cardinality({r \in current : was(r) = r.verdict}),
   score_before |-> DriftScore(baseline),
   score_after |-> DriftScore(current)]

Drift(baseline, current) ==
  LET was(r) == Previous(baseline, r) IN
  [newly_failed |-> {r \in current : r.verdict = FAIL /\ was(r) # FAIL},
   newly_passed |-> {r \in current : r.verdict = PASS /\ was(r) = FAIL},
   still_failing |-> {r \in current : r.verdict = FAIL /\ was(r) = FAIL},
   unchanged_count |-> Cardinality({r \in current : was(r) = r.verdict}),
   score_before |-> DriftScore(baseline),
   score_after |-> DriftScore(current)]
=============================================================================
