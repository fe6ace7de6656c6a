------------------------ MODULE ConfigAnalysisProofs ------------------------
(***************************************************************************)
(* Proofs about ConfigAnalysis for every set of vendors, fragments and     *)
(* approved readings and every bound: what the catalogues and the engine   *)
(* compute, what the drift report accounts for, and the invariants of the  *)
(* audits, resting on what ParserProofs shows of every parse.              *)
(***************************************************************************)
EXTENDS ParserProofs, FiniteSetTheorems

-----------------------------------------------------------------------------
(* The catalogues.                                                         *)

\* What the test of a control reads: a setting, two, a list, or parts of records.
Singles == ScalarFields \ {"snmp.default_communities_removed"}

Row(v, r) ==
  \/ /\ r.test \in {"bool", "most", "least", "ssh2", "secret"}
     /\ \E f \in Singles : r.fields = <<f>> /\ (v = "fortinet" => f \notin Facts)
  \/ /\ r.test \in {"both", "banners", "secure_http"} /\ v # "fortinet"
     /\ \E f \in Singles, g \in ScalarFields :
          /\ r.fields = <<f, g>>
          /\ g = "snmp.default_communities_removed" => f = "snmp.v3_only"
  \/ /\ r.test \in {"ssh_only", "encrypted_only", "ntp"}
     /\ \E f \in ListFields : r.fields = <<f>>
  \/ r.test = "ntp_sync" /\ r.fields = <<"ntp.enabled", "ntp.servers">>
  \/ r.test = "cdp" /\ r.fields = <<"cdp.global_disabled", "interfaces">>
  \/ r.test = "policies" /\ r.fields = <<"policies">>
  \/ r.test = "no_evidence"

\* A row of each form is such a control, under its number.
LEMMA BoolRow ==
  ASSUME NEW id, NEW f, NEW ref
  PROVE  /\ Bool(id, f, ref).id = id
         /\ \A v : f \in Singles /\ (v = "fortinet" => f \notin Facts)
                     => Row(v, Bool(id, f, ref))
  <1>1. /\ Bool(id, f, ref).id = id /\ Bool(id, f, ref).test = "bool"
        /\ Bool(id, f, ref).fields = <<f>>
    BY DEF Bool, Control
  <1> HIDE DEF Bool
  <1> QED BY <1>1 DEF Row

\* The same of a bound above.
LEMMA MostRow ==
  ASSUME NEW id, NEW f, NEW bound, NEW ref
  PROVE  /\ Most(id, f, bound, ref).id = id
         /\ \A v : f \in Singles /\ (v = "fortinet" => f \notin Facts)
                     => Row(v, Most(id, f, bound, ref))
  <1>1. /\ Most(id, f, bound, ref).id = id /\ Most(id, f, bound, ref).test = "most"
        /\ Most(id, f, bound, ref).fields = <<f>>
    BY DEF Most, Control
  <1> QED BY <1>1 DEF Row

\* The same of a bound below.
LEMMA LeastRow ==
  ASSUME NEW id, NEW f, NEW bound, NEW ref
  PROVE  /\ Least(id, f, bound, ref).id = id
         /\ \A v : f \in Singles /\ (v = "fortinet" => f \notin Facts)
                     => Row(v, Least(id, f, bound, ref))
  <1>1. /\ Least(id, f, bound, ref).id = id /\ Least(id, f, bound, ref).test = "least"
        /\ Least(id, f, bound, ref).fields = <<f>>
    BY DEF Least, Control
  <1> QED BY <1>1 DEF Row

\* The parts of any other.
LEMMA RuleParts ==
  ASSUME NEW id, NEW test, NEW fields, NEW ref
  PROVE  /\ Rule(id, test, fields, ref).id = id
         /\ Rule(id, test, fields, ref).test = test
         /\ Rule(id, test, fields, ref).fields = fields
  BY DEF Rule, Control

\* The fields that the catalogues read.
LEMMA CatalogueFields ==
  /\ {"service_hardening.password_encryption", "device_info.enable_secret_type",
      "service_hardening.finger_disabled", "service_hardening.http_server_disabled",
      "service_hardening.http_secure_server_enabled",
      "service_hardening.tcp_small_servers_disabled",
      "service_hardening.udp_small_servers_disabled",
      "service_hardening.bootp_server_disabled", "access_control.source_route_disabled",
      "access_control.banner_motd", "access_control.banner_login",
      "line_console.exec_timeout_minutes", "line_vty.exec_timeout_minutes",
      "ssh.version", "ssh.timeout_seconds", "ssh.auth_retries",
      "logging.buffered_size", "logging.timestamps_enabled", "logging.enabled",
      "snmp.v3_only", "aaa.new_model", "ntp.authenticate", "ntp.enabled",
      "cdp.global_disabled", "service_hardening.strong_crypto_enabled"} \subseteq Singles
  /\ Singles \subseteq ScalarFields
  /\ "snmp.default_communities_removed" \in ScalarFields
  /\ {"line_vty.transport_input", "ntp.servers"} \subseteq ListFields
  /\ {"service_hardening.password_encryption", "line_vty.exec_timeout_minutes",
      "service_hardening.strong_crypto_enabled", "logging.enabled"} \cap Facts = {}
  BY DEF Singles, ScalarFields, BooleanFields, NumberFields, TextFields, ListFields, Facts

\* A row under its number, of a form the engine knows for the other vendors.
Shared(id, r) == r.id = id /\ \A v : v # "fortinet" => Row(v, r)

\* The rows that several catalogues share.
LEMMA SharedRows ==
  ASSUME NEW id
  PROVE  /\ Shared(id, Ssh2(id)) /\ Shared(id, SshOnly(id)) /\ Shared(id, Ntp(id))
         /\ Shared(id, Snmp(id)) /\ Shared(id, Stamps(id)) /\ Shared(id, Aaa(id))
  <1>1. Shared(id, Ssh2(id))
    BY RuleParts, CatalogueFields DEF Ssh2, Row, Shared
  <1>2. Shared(id, SshOnly(id))
    BY RuleParts, CatalogueFields DEF SshOnly, Row, Shared
  <1>3. Shared(id, Ntp(id))
    BY RuleParts, CatalogueFields DEF Ntp, Row, Shared
  <1>4. Shared(id, Snmp(id))
    BY RuleParts, CatalogueFields DEF Snmp, Row, Shared
  <1>5. Shared(id, Stamps(id))
    BY BoolRow, CatalogueFields DEF Stamps, Shared
  <1>6. Shared(id, Aaa(id))
    BY BoolRow, CatalogueFields DEF Aaa, Shared
  <1> QED BY <1>1, <1>2, <1>3, <1>4, <1>5, <1>6

\* The bound on idle sessions, which FortiOS has too.
LEMMA IdleRow ==
  ASSUME NEW id, NEW ref
  PROVE  Idle(id, ref).id = id /\ \A v : Row(v, Idle(id, ref))
  BY MostRow, CatalogueFields DEF Idle

\* Every row is of a form the engine knows, and no two have one number.
Catalogue(v, S) ==
  /\ \A r \in S : Row(v, r)
  /\ \A r, q \in S : r.id = q.id => r = q

\* The catalogue of STIG.
LEMMA StigRows ==
  ASSUME NEW v, v # "fortinet"
  PROVE  Catalogue(v, Stig)
  <1>1. \A r \in Stig : Row(v, r)
    BY SharedRows, IdleRow DEF Stig, Shared
  <1>2. \A r, q \in Stig : r.id = q.id => r = q
    BY SharedRows, IdleRow DEF Stig, Shared
  <1> QED BY <1>1, <1>2 DEF Catalogue

\* The catalogue of ISO 27001.
LEMMA IsoRows ==
  ASSUME NEW v, v # "fortinet"
  PROVE  Catalogue(v, Iso)
  <1>1. \A r \in Iso : Row(v, r)
    BY SharedRows, BoolRow, CatalogueFields DEF Iso, Shared
  <1>2. \A r, q \in Iso : r.id = q.id => r = q
    BY SharedRows, BoolRow DEF Iso, Shared
  <1> QED BY <1>1, <1>2 DEF Catalogue

\* The tests of the remaining rows read what their forms say.
LEMMA CatalogueRules ==
  ASSUME NEW v, v # "fortinet", NEW r
  PROVE  /\ r.test = "secret" /\ r.fields = <<"device_info.enable_secret_type">> => Row(v, r)
         /\ r.test = "ssh2" /\ r.fields = <<"ssh.version">> => Row(v, r)
         /\ r.test = "ssh_only" /\ r.fields = <<"line_vty.transport_input">> => Row(v, r)
         /\ r.test = "ntp" /\ r.fields = <<"ntp.servers">> => Row(v, r)
         /\ (/\ r.test = "secure_http"
             /\ r.fields = <<"service_hardening.http_server_disabled",
                             "service_hardening.http_secure_server_enabled">>) => Row(v, r)
         /\ (/\ r.test = "banners"
             /\ r.fields = <<"access_control.banner_motd", "access_control.banner_login">>)
              => Row(v, r)
         /\ (/\ r.test = "both"
             /\ r.fields = <<"snmp.v3_only", "snmp.default_communities_removed">>) => Row(v, r)
         /\ (/\ r.test = "both"
             /\ r.fields = <<"service_hardening.http_server_disabled",
                             "service_hardening.finger_disabled">>) => Row(v, r)
         /\ r.test = "cdp" /\ r.fields = <<"cdp.global_disabled", "interfaces">> => Row(v, r)
         /\ r.test = "no_evidence" => Row(v, r)
  <1>1. /\ r.test = "secret" /\ r.fields = <<"device_info.enable_secret_type">> => Row(v, r)
        /\ r.test = "ssh2" /\ r.fields = <<"ssh.version">> => Row(v, r)
    BY CatalogueFields DEF Row
  <1>2. /\ r.test = "ssh_only" /\ r.fields = <<"line_vty.transport_input">> => Row(v, r)
        /\ r.test = "ntp" /\ r.fields = <<"ntp.servers">> => Row(v, r)
    BY CatalogueFields DEF Row
  <1>3. (/\ r.test = "secure_http"
         /\ r.fields = <<"service_hardening.http_server_disabled",
                         "service_hardening.http_secure_server_enabled">>) => Row(v, r)
    BY CatalogueFields DEF Row
  <1>4. (/\ r.test = "banners"
         /\ r.fields = <<"access_control.banner_motd", "access_control.banner_login">>)
          => Row(v, r)
    BY CatalogueFields DEF Row
  <1>5. (/\ r.test = "both"
         /\ r.fields = <<"snmp.v3_only", "snmp.default_communities_removed">>) => Row(v, r)
    BY CatalogueFields DEF Row
  <1>6. (/\ r.test = "both"
         /\ r.fields = <<"service_hardening.http_server_disabled",
                         "service_hardening.finger_disabled">>) => Row(v, r)
    BY CatalogueFields DEF Row
  <1>7. /\ r.test = "cdp" /\ r.fields = <<"cdp.global_disabled", "interfaces">> => Row(v, r)
        /\ r.test = "no_evidence" => Row(v, r)
    BY DEF Row
  <1> QED BY <1>1, <1>2, <1>3, <1>4, <1>5, <1>6, <1>7

\* The catalogue of CIS for Cisco.
LEMMA CiscoRows ==
  ASSUME NEW v, v # "fortinet"
  PROVE  Catalogue(v, CisCiscoIOS)
  <1>1. \A r \in CisCiscoIOS : Row(v, r)
    BY IdleRow, BoolRow, MostRow, LeastRow, RuleParts, CatalogueRules, CatalogueFields
       DEF CisCiscoIOS
  <1>2. \A r, q \in CisCiscoIOS : r.id = q.id => r = q
    BY IdleRow, BoolRow, MostRow, LeastRow, RuleParts DEF CisCiscoIOS
  <1> QED BY <1>1, <1>2 DEF Catalogue

\* The catalogue of CIS for Juniper.
LEMMA JuniperRows ==
  ASSUME NEW v, v # "fortinet"
  PROVE  Catalogue(v, CisJuniper)
  <1>1. \A r \in CisJuniper : Row(v, r)
    BY SharedRows, IdleRow, BoolRow, RuleParts, CatalogueRules, CatalogueFields
       DEF CisJuniper, Shared
  <1>2. \A r, q \in CisJuniper : r.id = q.id => r = q
    BY SharedRows, IdleRow, BoolRow, RuleParts DEF CisJuniper, Shared
  <1> QED BY <1>1, <1>2 DEF Catalogue

\* The catalogue of NIST 800-53.
LEMMA NistRows ==
  ASSUME NEW v, v # "fortinet"
  PROVE  Catalogue(v, Nist)
  <1>1. \A r \in Nist : Row(v, r)
    BY SharedRows, IdleRow, BoolRow, LeastRow, RuleParts, CatalogueRules, CatalogueFields
       DEF Nist, Shared
  <1>2. \A r, q \in Nist : r.id = q.id => r = q
    BY SharedRows, IdleRow, BoolRow, LeastRow, RuleParts DEF Nist, Shared
  <1> QED BY <1>1, <1>2 DEF Catalogue

\* The tests of the rows of FortiOS alone.
LEMMA FortinetRules ==
  ASSUME NEW v, NEW r
  PROVE  /\ r.test = "encrypted_only" /\ r.fields = <<"line_vty.transport_input">> => Row(v, r)
         /\ r.test = "policies" /\ r.fields = <<"policies">> => Row(v, r)
         /\ r.test = "ntp_sync" /\ r.fields = <<"ntp.enabled", "ntp.servers">> => Row(v, r)
  BY CatalogueFields DEF Row

\* The catalogue of NIST 800-53 for FortiOS.
LEMMA FortinetRows ==
  ASSUME NEW v
  PROVE  Catalogue(v, FortinetNist)
  <1>0. /\ "service_hardening.password_encryption" \notin Facts
        /\ "service_hardening.strong_crypto_enabled" \notin Facts
        /\ "logging.enabled" \notin Facts
    BY DEF Facts
  <1>1. \A r \in FortinetNist : Row(v, r)
    BY <1>0, IdleRow, BoolRow, RuleParts, FortinetRules, CatalogueFields DEF FortinetNist
  <1>2. \A r, q \in FortinetNist : r.id = q.id => r = q
    BY IdleRow, BoolRow, RuleParts DEF FortinetNist
  <1> QED BY <1>1, <1>2 DEF Catalogue

\* Whatever the framework and the vendor.
LEMMA Catalogues ==
  ASSUME NEW v, NEW framework \in Frameworks
  PROVE  Catalogue(v, GetControls(framework, v))
  <1>1. CASE v = "fortinet"
    <2>1. GetControls(framework, v) = FortinetNist
      BY <1>1 DEF GetControls
    <2> QED BY <2>1, FortinetRows
  <1>2. CASE v # "fortinet"
    <2>1. GetControls(framework, v) \in {CisCiscoIOS, CisJuniper, Nist, Stig, Iso}
      BY <1>2 DEF GetControls, Frameworks
    <2> QED BY <1>2, <2>1, CiscoRows, JuniperRows, NistRows, StigRows, IsoRows
  <1> QED BY <1>1, <1>2

-----------------------------------------------------------------------------
(* The catalogues are finite.                                              *)

\* Sets of a few.
LEMMA Few ==
  ASSUME NEW a, NEW b, NEW c, NEW d, NEW e, NEW f
  PROVE  IsFiniteSet({a, b, c, d, e, f})
  <1>1. IsFiniteSet({a}) /\ IsFiniteSet({a} \cup {b})
    BY FS_Singleton, FS_AddElement
  <1>2. IsFiniteSet(({a} \cup {b}) \cup {c})
    BY <1>1, FS_AddElement
  <1>3. IsFiniteSet((({a} \cup {b}) \cup {c}) \cup {d})
    BY <1>2, FS_AddElement
  <1>4. IsFiniteSet(((({a} \cup {b}) \cup {c}) \cup {d}) \cup {e})
    BY <1>3, FS_AddElement
  <1>5. IsFiniteSet((((({a} \cup {b}) \cup {c}) \cup {d}) \cup {e}) \cup {f})
    BY <1>4, FS_AddElement
  <1>6. {a, b, c, d, e, f} = (((({a} \cup {b}) \cup {c}) \cup {d}) \cup {e}) \cup {f}
    OBVIOUS
  <1> QED BY <1>5, <1>6

\* A set of records with one of finitely many numbers each, and a number each.
LEMMA Numbered ==
  ASSUME NEW S, NEW I, IsFiniteSet(I), \A r \in S : r.id \in I,
         \A r, q \in S : r.id = q.id => r = q
  PROVE  IsFiniteSet(S)
  <1> DEFINE f == [r \in S |-> r.id]
  <1>1. f \in Injection(S, I)
    BY DEF Injection, IsInjective
  <1> QED BY <1>1, FS_Injection

\* The STIG and ISO catalogues.
LEMMA SmallFinite ==
  IsFiniteSet(Stig) /\ IsFiniteSet(Iso)
  <1>1. IsFiniteSet({"V-243075", "V-243076", "V-243077", "V-243078", "V-243079", "V-243080"})
    BY Few
  <1>2. IsFiniteSet({"A.5.15", "A.8.5", "A.8.9", "A.8.15", "A.8.17", "A.8.20"})
    BY Few
  <1>3. \A r \in Stig :
          r.id \in {"V-243075", "V-243076", "V-243077", "V-243078", "V-243079", "V-243080"}
    BY SharedRows, IdleRow DEF Stig, Shared
  <1>4. \A r \in Iso : r.id \in {"A.5.15", "A.8.5", "A.8.9", "A.8.15", "A.8.17", "A.8.20"}
    BY SharedRows, BoolRow DEF Iso, Shared
  <1>5. /\ \A r, q \in Stig : r.id = q.id => r = q
        /\ \A r, q \in Iso : r.id = q.id => r = q
    BY StigRows, IsoRows DEF Catalogue
  <1>6. IsFiniteSet(Stig)
    BY <1>1, <1>3, <1>5, Numbered
  <1>7. IsFiniteSet(Iso)
    BY <1>2, <1>4, <1>5, Numbered
  <1> QED BY <1>6, <1>7

\* The NIST catalogues.
LEMMA NistFinite ==
  IsFiniteSet(Nist) /\ IsFiniteSet(FortinetNist)
  <1> DEFINE A == {"AC-2", "IA-5", "SC-8", "AC-12", "AU-2", "AU-4"}
             B == {"CM-7", "SC-45", "AC-17", "SC-13", "AU-12", "AC-12"}
  <1>1. IsFiniteSet(A) /\ IsFiniteSet(B)
    BY Few
  <1>2. \A r \in Nist : r.id \in A \cup B
    BY SharedRows, IdleRow, BoolRow, LeastRow, RuleParts DEF Nist, Shared
  <1>3. \A r \in FortinetNist : r.id \in A \cup B
    BY IdleRow, BoolRow, RuleParts DEF FortinetNist
  <1> HIDE DEF A, B
  <1>4. IsFiniteSet(A \cup B)
    BY <1>1, FS_Union
  <1> DEFINE I == A \cup B
  <1> HIDE DEF I
  <1>5. \A r, q \in Nist : r.id = q.id => r = q
    <2>1. "cisco" # "fortinet"
      OBVIOUS
    <2> QED BY <2>1, NistRows DEF Catalogue
  <1>6. \A r, q \in FortinetNist : r.id = q.id => r = q
    BY FortinetRows DEF Catalogue
  <1>7. IsFiniteSet(Nist)
    BY <1>2, <1>4, <1>5, Numbered DEF I
  <1>8. IsFiniteSet(FortinetNist)
    BY <1>3, <1>4, <1>6, Numbered DEF I
  <1> QED BY <1>7, <1>8

\* The CIS catalogues.
LEMMA CisFinite ==
  IsFiniteSet(CisCiscoIOS) /\ IsFiniteSet(CisJuniper)
  <1> DEFINE A == {"1.1.1", "1.1.2", "1.2.1", "1.2.2", "1.2.3", "1.2.4"}
             B == {"1.2.5", "1.2.6", "1.3.1", "1.3.2", "1.4.1", "1.5.1"}
             C == {"1.5.2", "1.5.3", "1.5.4", "1.5.5", "1.5.6", "1.6.1"}
             D == {"1.6.2", "1.7.1", "1.8.1", "1.9.1", "1.10.1", "JUN-1.1"}
             E == {"JUN-1.1", "JUN-1.2", "JUN-1.3", "JUN-2.1", "JUN-2.2", "JUN-3.1"}
             F == {"JUN-3.2", "JUN-3.3", "JUN-4.1", "JUN-4.2", "JUN-5.1", "JUN-1.1"}
             I == (A \cup B) \cup (C \cup D)
             J == E \cup F
  <1>1. IsFiniteSet(A) /\ IsFiniteSet(B) /\ IsFiniteSet(C) /\ IsFiniteSet(D)
    BY Few
  <1>2. IsFiniteSet(E) /\ IsFiniteSet(F)
    BY Few
  <1>3. \A r \in CisCiscoIOS : r.id \in I
    BY IdleRow, BoolRow, MostRow, LeastRow, RuleParts DEF CisCiscoIOS
  <1>4. \A r \in CisJuniper : r.id \in J
    BY SharedRows, IdleRow, BoolRow, RuleParts DEF CisJuniper, Shared
  <1> HIDE DEF A, B, C, D, E, F
  <1>5. IsFiniteSet(A \cup B) /\ IsFiniteSet(C \cup D) /\ IsFiniteSet(J)
    BY <1>1, <1>2, FS_Union
  <1>6. IsFiniteSet(I)
    BY <1>5, FS_Union
  <1> HIDE DEF I, J
  <1>7. "cisco" # "fortinet"
    OBVIOUS
  <1>8. \A r, q \in CisCiscoIOS : r.id = q.id => r = q
    BY <1>7, CiscoRows DEF Catalogue
  <1>9. \A r, q \in CisJuniper : r.id = q.id => r = q
    BY <1>7, JuniperRows DEF Catalogue
  <1>10. IsFiniteSet(CisCiscoIOS)
    BY <1>3, <1>6, <1>8, Numbered
  <1>11. IsFiniteSet(CisJuniper)
    BY <1>4, <1>5, <1>9, Numbered
  <1> QED BY <1>10, <1>11

\* Whatever the framework and the vendor.
LEMMA CataloguesFinite ==
  ASSUME NEW v, NEW framework \in Frameworks
  PROVE  IsFiniteSet(GetControls(framework, v))
  <1>1. GetControls(framework, v) \in {FortinetNist, CisCiscoIOS, CisJuniper, Nist, Stig, Iso}
    BY DEF GetControls, Frameworks
  <1> QED BY <1>1, NistFinite, CisFinite, SmallFinite

-----------------------------------------------------------------------------
(* The engine.                                                             *)

Verdicts == {PASS, FAIL, NA}

\* What the configuration has of what a control reads.
Observed(r, c) ==
  \/ \E i \in DOMAIN r.fields : Get(c, r.fields[i]) # Unset
  \/ \E i \in DOMAIN r.fields : r.fields[i] \in ListFields /\ c.lists[r.fields[i]] # {}
  \/ r.test = "cdp" /\ \E i \in DOMAIN c.interfaces : c.interfaces[i] # Unset
  \/ r.test = "policies" /\ \E i \in DOMAIN c.policies : c.policies[i].accept

\* A verdict, and what it may rest on.
Judges(r, c) ==
  /\ Verdict(r, c) \in Verdicts
  /\ Verdict(r, c) # NA => Observed(r, c)

\* The tests of one number.
LEMMA SingleJudges ==
  ASSUME NEW r, NEW c, NEW f, r.fields = <<f>>,
         r.test \in {"bool", "most", "least", "ssh2", "secret"}
  PROVE  Judges(r, c)
  <1>1. 1 \in DOMAIN r.fields /\ r.fields[1] = f
    OBVIOUS
  <1>2. \/ Verdict(r, c) = RequiredBool(Get(c, f))
        \/ Verdict(r, c) = AtMost(Get(c, f), r.bound)
        \/ Verdict(r, c) = AtLeast(Get(c, f), r.bound)
        \/ Verdict(r, c) = MemberOf(Get(c, f), {2})
        \/ Verdict(r, c) = MemberOf(Get(c, f), {5, 8, 9})
    BY <1>1 DEF Verdict
  <1>3. Verdict(r, c) \in Verdicts /\ (Verdict(r, c) # NA => Get(c, f) # Unset)
    BY <1>2 DEF RequiredBool, AtMost, AtLeast, MemberOf, Verdicts
  <1> QED BY <1>1, <1>3 DEF Judges, Observed

\* The tests of two numbers.
LEMMA PairJudges ==
  ASSUME NEW r, NEW c, NEW f, NEW g, r.fields = <<f, g>>,
         r.test \in {"both", "banners", "secure_http"}
  PROVE  Judges(r, c)
  <1>1. {1, 2} \subseteq DOMAIN r.fields /\ r.fields[1] = f /\ r.fields[2] = g
    OBVIOUS
  <1>2. \/ Verdict(r, c) = BothOf(Get(c, f), Get(c, g))
        \/ Verdict(r, c) = BothBanners(Get(c, f), Get(c, g))
        \/ Verdict(r, c) = SecureHttp(Get(c, f), Get(c, g))
    BY <1>1 DEF Verdict
  <1>3. /\ Verdict(r, c) \in Verdicts
        /\ Verdict(r, c) # NA => Get(c, f) # Unset \/ Get(c, g) # Unset
    BY <1>2 DEF BothOf, BothBanners, SecureHttp, Verdicts
  <1> QED BY <1>1, <1>3 DEF Judges, Observed

\* The test of servers.
LEMMA NtpJudged ==
  ASSUME NEW servers
  PROVE  /\ NtpServers(servers) \in Verdicts
         /\ NtpServers(servers) # NA => servers # {}
  BY Zenon DEF NtpServers, Verdicts

\* The tests of a list.
LEMMA ListJudges ==
  ASSUME NEW r, NEW c, NEW f \in ListFields, r.fields = <<f>>,
         r.test \in {"ssh_only", "encrypted_only", "ntp"}
  PROVE  Judges(r, c)
  <1>1. 1 \in DOMAIN r.fields /\ r.fields[1] = f
    OBVIOUS
  <1>2. \/ Verdict(r, c) = OnlySsh(c.lists[f])
        \/ Verdict(r, c) = EncryptedOnly(c.lists[f])
        \/ Verdict(r, c) = NtpServers(c.lists[f])
    BY <1>1 DEF Verdict
  <1>3. Verdict(r, c) \in Verdicts /\ (Verdict(r, c) # NA => c.lists[f] # {})
    BY <1>2, NtpJudged DEF OnlySsh, EncryptedOnly, Verdicts
  <1> QED BY <1>1, <1>3 DEF Judges, Observed

\* The test of FortiOS's clock.
LEMMA ClockJudges ==
  ASSUME NEW r, NEW c, r.fields = <<"ntp.enabled", "ntp.servers">>, r.test = "ntp_sync"
  PROVE  Judges(r, c)
  <1> DEFINE f == "ntp.enabled"
             g == "ntp.servers"
  <1>1. {1, 2} \subseteq DOMAIN r.fields /\ r.fields[1] = f /\ r.fields[2] = g
    OBVIOUS
  <1>2. g \in ListFields
    BY DEF ListFields
  <1>3. Verdict(r, c) = NtpSynchronized(Get(c, f), c.lists[g])
    BY <1>1 DEF Verdict
  <1> HIDE DEF f, g
  <1>4. /\ Verdict(r, c) \in Verdicts
        /\ Verdict(r, c) # NA => Get(c, f) # Unset \/ c.lists[g] # {}
    BY <1>3 DEF NtpSynchronized, Verdicts
  <1> QED BY <1>1, <1>2, <1>4 DEF Judges, Observed

\* The test of the discovery protocol.
LEMMA CdpJudges ==
  ASSUME NEW r, NEW c, NEW f, NEW g, r.fields = <<f, g>>, r.test = "cdp"
  PROVE  Judges(r, c)
  <1>1. 1 \in DOMAIN r.fields /\ r.fields[1] = f
    OBVIOUS
  <1>2. Verdict(r, c) = CdpDisabled(Get(c, f), c.interfaces)
    BY <1>1 DEF Verdict
  <1> DEFINE x == Get(c, f)
             seen == {c.interfaces[i] : i \in DOMAIN c.interfaces}
  <1>3. Verdict(r, c) = CASE x = Yes -> PASS
                          [] x = No -> FAIL
                          [] x \notin {Yes, No} /\ seen = {Yes} -> PASS
                          [] OTHER -> IF No \in seen THEN FAIL ELSE NA
    BY <1>2 DEF CdpDisabled
  <1>4. /\ Verdict(r, c) \in Verdicts
        /\ Verdict(r, c) # NA => x \in {Yes, No} \/ Yes \in seen \/ No \in seen
    <2>1. CASE x = Yes
      BY <1>3, <2>1 DEF Verdicts, Yes, No
    <2>2. CASE x = No
      BY <1>3, <2>2 DEF Verdicts, Yes, No
    <2>3. CASE x \notin {Yes, No} /\ seen = {Yes}
      BY <1>3, <2>3 DEF Verdicts, Yes, No
    <2>4. CASE x \notin {Yes, No} /\ seen # {Yes}
      BY <1>3, <2>4 DEF Verdicts, Yes, No
    <2> QED BY <2>1, <2>2, <2>3, <2>4
  <1>5. Yes # Unset /\ No # Unset
    BY DEF Yes, No, Unset
  <1>6. Verdict(r, c) # NA => \/ Get(c, f) # Unset
                              \/ \E i \in DOMAIN c.interfaces : c.interfaces[i] # Unset
    BY <1>4, <1>5
  <1> QED BY <1>1, <1>4, <1>6 DEF Judges, Observed

\* The test of the firewall policies.
LEMMA PoliciesJudge ==
  ASSUME NEW r, NEW c, r.test = "policies"
  PROVE  Judges(r, c)
  <1>1. Verdict(r, c) = PoliciesLogged(c.policies)
    BY DEF Verdict
  <1>2. /\ Verdict(r, c) \in Verdicts
        /\ Verdict(r, c) # NA => \E i \in DOMAIN c.policies : c.policies[i].accept
    BY <1>1 DEF PoliciesLogged, Verdicts
  <1> QED BY <1>2 DEF Judges, Observed

\* Every control of every catalogue is judged, and on something observed.
LEMMA RowJudges ==
  ASSUME NEW v, NEW r, Row(v, r), NEW c
  PROVE  Judges(r, c)
  <1>1. CASE r.test \in {"bool", "most", "least", "ssh2", "secret"} /\ \E f : r.fields = <<f>>
    BY <1>1, SingleJudges
  <1>2. CASE r.test \in {"both", "banners", "secure_http"} /\ \E f, g : r.fields = <<f, g>>
    BY <1>2, PairJudges
  <1>3. CASE /\ r.test \in {"ssh_only", "encrypted_only", "ntp"}
             /\ \E f \in ListFields : r.fields = <<f>>
    BY <1>3, ListJudges
  <1>4. CASE r.test = "ntp_sync" /\ r.fields = <<"ntp.enabled", "ntp.servers">>
    BY <1>4, ClockJudges
  <1>5. CASE r.test = "cdp" /\ r.fields = <<"cdp.global_disabled", "interfaces">>
    BY <1>5, CdpJudges
  <1>6. CASE r.test = "policies"
    BY <1>6, PoliciesJudge
  <1>7. CASE r.test = "no_evidence"
    <2>1. Verdict(r, c) = NA
      BY <1>7 DEF Verdict
    <2> QED BY <2>1 DEF Judges, Verdicts
  <1> QED BY <1>1, <1>2, <1>3, <1>4, <1>5, <1>6, <1>7 DEF Row

-----------------------------------------------------------------------------
(* The results of an audit.                                                *)

\* What every evaluation returns: finitely many results, one per control, under its
\* number.
Results(framework, v, R) ==
  /\ IsFiniteSet(R)
  /\ Cardinality(R) = Cardinality(GetControls(framework, v))
  /\ \A x \in R : x.framework = framework /\ x.verdict \in Verdicts
  /\ \A x, y \in R : x.id = y.id => x = y

\* Whatever the configuration.
THEOREM OneResultPerControl ==
  ASSUME NEW v, NEW framework \in Frameworks, NEW c
  PROVE  Results(framework, v, Evaluate(framework, v, c))
  <1> DEFINE S == GetControls(framework, v)
             Of(r) == [framework |-> framework, id |-> r.id, verdict |-> Verdict(r, c)]
             R == Evaluate(framework, v, c)
             f == [r \in S |-> Of(r)]
  <1>1. R = {Of(r) : r \in S}
    BY DEF Evaluate
  <1>2. Catalogue(v, S) /\ IsFiniteSet(S)
    BY Catalogues, CataloguesFinite
  <1>3. \A r \in S : Of(r).id = r.id /\ Of(r).framework = framework
                     /\ Of(r).verdict = Verdict(r, c)
    OBVIOUS
  <1> HIDE DEF S, Of, R
  <1>4. \A r, q \in S : Of(r).id = Of(q).id => r = q
    BY <1>2, <1>3 DEF Catalogue
  <1>5. f \in [S -> R]
    BY <1>1
  <1>6. IsInjective(f)
    BY <1>4 DEF IsInjective
  <1>7. \A x \in R : \E r \in S : f[r] = x
    BY <1>1
  <1>8. f \in Bijection(S, R)
    BY <1>5, <1>6, <1>7 DEF Bijection, Injection, Surjection
  <1>9. IsFiniteSet(R) /\ Cardinality(R) = Cardinality(S)
    BY <1>2, <1>8, FS_Bijection DEF ExistsBijection
  <1>10. \A r \in S : Verdict(r, c) \in Verdicts
    BY <1>2, RowJudges DEF Catalogue, Judges
  <1>11. \A x \in R : x.framework = framework /\ x.verdict \in Verdicts
    BY <1>1, <1>3, <1>10
  <1>12. \A x, y \in R : x.id = y.id => x = y
    BY <1>1, <1>4
  <1> QED BY <1>9, <1>11, <1>12 DEF Results, S, R

\* A share in hundredths of a percent.
Hundredths == 0 .. 10000
Share(x) == x \in Hundredths

\* A part of a whole has one.
LEMMA PercentRange ==
  ASSUME NEW part \in Nat, NEW whole \in Nat, whole > 0, part <= whole
  PROVE  Share(Percent(part, whole))
  <1> DEFINE a == 20000 * part + whole
             b == 2 * whole
             q == a \div b
  <1>1. a \in Nat /\ b \in Nat /\ b > 0 /\ a <= 20000 * whole + whole
    OBVIOUS
  <1>2. q \in Int /\ b * q <= a /\ a < b * (q + 1)
    BY <1>1
  <1>3. q >= 0
    BY <1>1, <1>2
  <1>4. q <= 10000
    <2>1. SUFFICES ASSUME q >= 10001 PROVE FALSE
      BY <1>2
    <2>2. b * q >= b * 10001
      BY <1>1, <1>2, <2>1
    <2>3. b * 10001 = 20002 * whole
      OBVIOUS
    <2> QED BY <1>1, <1>2, <2>2, <2>3
  <1>5. Percent(part, whole) = q
    BY DEF Percent
  <1> HIDE DEF q
  <1> QED BY <1>2, <1>3, <1>4, <1>5 DEF Share, Hundredths

\* Of the results that apply some pass and the others fail.
LEMMA Split ==
  ASSUME NEW R, IsFiniteSet(R), \A x \in R : x.verdict \in Verdicts
  PROVE  LET A == {r \in R : r.verdict # NA} IN
         /\ Count(R, PASS) \in Nat /\ Count(R, FAIL) \in Nat
         /\ Cardinality(A) \in Nat
         /\ Cardinality(A) = Count(R, PASS) + Count(R, FAIL)
         /\ Count(A, PASS) = Count(R, PASS)
         /\ A = {} <=> Cardinality(A) = 0
  <1> DEFINE A == {r \in R : r.verdict # NA}
             P == {r \in R : r.verdict = PASS}
             F == {r \in R : r.verdict = FAIL}
  <1>1. A = P \cup F /\ P \cap F = {} /\ P = {r \in A : r.verdict = PASS}
    BY DEF Verdicts, PASS, FAIL, NA
  <1>2. P \in SUBSET R /\ F \in SUBSET R
    OBVIOUS
  <1>3. Count(R, PASS) = Cardinality(P) /\ Count(R, FAIL) = Cardinality(F)
        /\ Count(A, PASS) = Cardinality(P)
    BY <1>1 DEF Count
  <1> HIDE DEF A, P, F
  <1>4. IsFiniteSet(P) /\ IsFiniteSet(F)
    BY <1>2, FS_Subset
  <1>5. /\ IsFiniteSet(A)
        /\ Cardinality(A) = Cardinality(P) + Cardinality(F) - Cardinality(P \cap F)
    BY <1>1, <1>4, FS_Union
  <1>6. Cardinality(P \cap F) = 0 /\ (Cardinality(A) = 0 <=> A = {})
    BY <1>1, <1>5, FS_EmptySet
  <1>7. Cardinality(P) \in Nat /\ Cardinality(F) \in Nat /\ Cardinality(A) \in Nat
    BY <1>4, <1>5, FS_CardinalityType
  <1> QED BY <1>3, <1>5, <1>6, <1>7 DEF A

\* The score is a share, and the one the drift report computes again.
THEOREM ScoreComputedAgain ==
  ASSUME NEW R, IsFiniteSet(R), \A x \in R : x.verdict \in Verdicts
  PROVE  Share(ComplianceScore(R)) /\ DriftScore(R) = ComplianceScore(R)
  <1> DEFINE A == {r \in R : r.verdict # NA}
             p == Count(R, PASS)
             f == Count(R, FAIL)
  <1>1. /\ p \in Nat /\ f \in Nat /\ Cardinality(A) \in Nat
        /\ Cardinality(A) = p + f /\ Count(A, PASS) = p
        /\ A = {} <=> Cardinality(A) = 0
    BY Split
  <1>2. ComplianceScore(R) = IF A = {} THEN 0 ELSE Percent(Count(A, PASS), Cardinality(A))
    BY DEF ComplianceScore
  <1>3. DriftScore(R) = IF p + f > 0 THEN Percent(p, p + f) ELSE 0
    BY DEF DriftScore
  <1> HIDE DEF A, p, f
  <1>4. p + f > 0 => Share(Percent(p, p + f))
    BY <1>1, PercentRange
  <1>5. Share(0)
    BY DEF Share, Hundredths
  <1> QED BY <1>1, <1>2, <1>3, <1>4, <1>5

\* The earlier verdict of a control is the one its only earlier result has.
LEMMA PreviousVerdict ==
  ASSUME NEW framework, NEW v, NEW B, Results(framework, v, B), NEW y
  PROVE  /\ \A b \in B : b.framework = y.framework /\ b.id = y.id
                           => Previous(B, y) = b.verdict
         /\ \/ Previous(B, y) = "none"
            \/ \E b \in B : /\ b.framework = y.framework /\ b.id = y.id
                            /\ Previous(B, y) = b.verdict
  <1> DEFINE prior == {b \in B : b.framework = y.framework /\ b.id = y.id}
             last == CHOOSE b \in prior : TRUE
  <1>1. Previous(B, y) = IF prior = {} THEN "none" ELSE last.verdict
    BY DEF Previous
  <1>2. \A a, b \in prior : a = b
    BY DEF Results
  <1>3. prior # {} => last \in prior
    OBVIOUS
  <1>4. \A b \in prior : Previous(B, y) = b.verdict
    <2> HIDE DEF last
    <2> QED BY <1>1, <1>2, <1>3
  <1>5. prior # {} => \E b \in prior : Previous(B, y) = b.verdict
    BY <1>4
  <1> QED BY <1>1, <1>4, <1>5

\* What fails now, what failed before, and what was never observed since.
Fails(R) == {x \in R : x.verdict = FAIL}
IdsOf(R) == {x.id : x \in R}
Gone(B, A) ==
  {b \in Fails(B) : ~\E y \in A : y.framework = b.framework /\ y.id = b.id
                                  /\ y.verdict # NA}

\* The drift report loses no failure, between any two evaluations.
THEOREM DriftLosesNothing ==
  ASSUME NEW v, NEW f, NEW g, NEW B, NEW A, Results(f, v, B), Results(g, v, A)
  PROVE  LET d == Drift(B, A) IN
         /\ IdsOf(Fails(A)) = IdsOf(d.newly_failed) \cup IdsOf(d.still_failing)
         /\ d.newly_failed \cap d.still_failing = {}
         /\ IdsOf(Fails(B))
              = (IdsOf(d.newly_passed) \cup IdsOf(d.still_failing)) \cup IdsOf(Gone(B, A))
         /\ d.score_before = ComplianceScore(B) /\ d.score_after = ComplianceScore(A)
  <1> DEFINE d == Drift(B, A)
             N == {r \in A : r.verdict = FAIL /\ Previous(B, r) # FAIL}
             P == {r \in A : r.verdict = PASS /\ Previous(B, r) = FAIL}
             S == {r \in A : r.verdict = FAIL /\ Previous(B, r) = FAIL}
  <1>1. /\ d.newly_failed = N /\ d.newly_passed = P /\ d.still_failing = S
        /\ d.score_before = DriftScore(B) /\ d.score_after = DriftScore(A)
    BY DEF Drift
  <1> HIDE DEF d
  <1>2. IdsOf(Fails(A)) = IdsOf(N) \cup IdsOf(S) /\ N \cap S = {}
    BY DEF IdsOf, Fails
  <1>3. ASSUME NEW b \in Fails(B), b \notin Gone(B, A)
        PROVE  b.id \in IdsOf(P) \cup IdsOf(S)
    <2>1. b \in B /\ b.verdict = FAIL
      BY <1>3 DEF Fails
    <2>2. PICK y \in A : y.framework = b.framework /\ y.id = b.id /\ y.verdict # NA
      BY <1>3 DEF Gone
    <2>3. Previous(B, y) = FAIL
      BY <2>1, <2>2, PreviousVerdict
    <2>4. y.verdict \in {PASS, FAIL}
      BY <2>2 DEF Results, Verdicts
    <2>5. y \in P \cup S
      BY <2>2, <2>3, <2>4
    <2> QED BY <2>2, <2>5 DEF IdsOf
  <1>4. ASSUME NEW y \in A, Previous(B, y) = FAIL
        PROVE  y.id \in IdsOf(Fails(B))
    <2>1. FAIL # "none"
      BY DEF FAIL
    <2>2. PICK b \in B : b.id = y.id /\ b.verdict = FAIL
      BY <1>4, <2>1, PreviousVerdict
    <2> QED BY <2>2 DEF IdsOf, Fails
  <1>5. IdsOf(P) \cup IdsOf(S) \subseteq IdsOf(Fails(B))
    BY <1>4 DEF IdsOf
  <1>6. IdsOf(Gone(B, A)) \subseteq IdsOf(Fails(B))
    BY DEF IdsOf, Gone
  <1>7. IdsOf(Fails(B)) \subseteq (IdsOf(P) \cup IdsOf(S)) \cup IdsOf(Gone(B, A))
    <2> SUFFICES ASSUME NEW b \in Fails(B)
                 PROVE  b.id \in (IdsOf(P) \cup IdsOf(S)) \cup IdsOf(Gone(B, A))
      BY DEF IdsOf
    <2>1. b \in Gone(B, A) => b.id \in IdsOf(Gone(B, A))
      BY DEF IdsOf
    <2> HIDE DEF P, S
    <2> QED BY <1>3, <2>1
  <1>8. DriftScore(B) = ComplianceScore(B) /\ DriftScore(A) = ComplianceScore(A)
    BY ScoreComputedAgain DEF Results
  <1> HIDE DEF N, P, S
  <1> QED BY <1>1, <1>2, <1>5, <1>6, <1>7, <1>8 DEF d

-----------------------------------------------------------------------------
(* The inductive invariant of the audits of the device.                    *)

Statuses == {"queued", "normalising", "awaiting_training", "complete", "failed"}
Scores == {Unset} \cup Hundredths
ControlIds == UNION {{r.id : r \in GetControls(f, v)} : f \in Frameworks, v \in Vendors}
AuditRow ==
  [framework : Frameworks, status : Statuses, score : Scores,
   results : SUBSET [framework : Frameworks, id : ControlIds, verdict : Verdicts]]

TextInv ==
  vendor \in Vendors /\ text \in Seq(LineOf(vendor)) /\ Len(text) <= MaxLines[vendor]

LearnedInv == \A k \in DOMAIN learned : learned[k] \in Approvals

\* Only the last audit is under way.
AuditsInv ==
  /\ audits \in Seq(AuditRow) /\ Len(audits) <= MaxAudits
  /\ \A i \in 1 .. Len(audits) - 1 : audits[i].status \in {"complete", "failed"}

\* A completed audit has the results of an evaluation and their score.
ResultsInv ==
  \A i \in 1 .. Len(audits) :
    LET a == audits[i] IN
    a.status = "complete" =>
      Results(a.framework, vendor, a.results) /\ a.score = ComplianceScore(a.results)

BaselineInv == baseline # 0 => Complete(baseline)

\* The text so far begins with these lines.
Begins(L) == Len(L) <= Len(text) /\ \A i \in 1 .. Len(L) : text[i] = L[i]

\* A pass over these lines with these mappings.
Pass(L, m) == [Parse(vendor, L, m) EXCEPT !.state = "none"]

Passed(L, m) ==
  L \in Seq(LineOf(vendor)) /\ Mappings(m) /\ Begins(L) /\ normalized = Pass(L, m)

\* What normalized holds is a pass over the text or what it began with, until an audit runs.
NormalizedInv ==
  \/ normalized = NothingParsed /\ (audits = << >> \/ LastAudit.status = "queued")
  \/ \E L, m : Passed(L, m)

\* The lines pending are some of the lines it left; an audit that waits waits for one.
PendingInv ==
  /\ pending \subseteq normalized.unknown
  /\ audits # << >> /\ LastAudit.status = "awaiting_training" => pending # {}

\* The last audit's results are of what normalized holds.
LastInv ==
  audits # << >> /\ LastAudit.status = "complete" =>
    LastAudit.results = Evaluate(LastAudit.framework, vendor, normalized.config)

\* An audit of a catalogue failed over a mapping that the parser can use, and that no
\* pending line is about to replace.
FailedInv ==
  \A i \in 1 .. Len(audits) :
    audits[i].status = "failed" /\ Supported(audits[i].framework, vendor) =>
      \E k \in Keys(vendor, learned) :
        learned[k].value = Mistyped /\ \A n \in pending : Key(vendor, text[n]) # k

IInv ==
  /\ TextInv /\ LearnedInv /\ AuditsInv /\ ResultsInv /\ BaselineInv
  /\ NormalizedInv /\ PendingInv /\ LastInv /\ FailedInv

\* Approved readings are readings.
LEMMA ApprovedReadings ==
  Approvals \subseteq ReadingType
  <1>1. STRING \subseteq Names
    BY DEF Names
  <1>2. Approvals \subseteq [field : STRING, value : Int, items : SUBSET STRING]
    BY LinesAssumption
  <1> HIDE DEF Names
  <1> QED BY <1>1, <1>2 DEF ReadingType

\* The parts of a pass.
LEMMA PassParts ==
  ASSUME NEW L, NEW m, IsParse(Parse(vendor, L, m))
  PROVE  LET p == Parse(vendor, L, m)
             q == Pass(L, m)
         IN /\ q.config = p.config /\ q.findings = p.findings /\ q.unknown = p.unknown
            /\ q.n = p.n
  <1> DEFINE p == Parse(vendor, L, m)
             q == Pass(L, m)
  <1>1. p = [config |-> p.config, findings |-> p.findings, unknown |-> p.unknown, n |-> p.n,
             state |-> p.state]
    BY DEF IsParse
  <1>2. q = [p EXCEPT !.state = "none"]
    BY DEF Pass
  <1> HIDE DEF p, q
  <1>3. q = [config |-> p.config, findings |-> p.findings, unknown |-> p.unknown, n |-> p.n,
             state |-> "none"]
    BY <1>1, <1>2
  <1>4. q.config = p.config /\ q.findings = p.findings /\ q.unknown = p.unknown /\ q.n = p.n
    BY <1>3
  <1> QED BY <1>4 DEF p, q

\* What is known of a pass.
LEMMA PassParsed ==
  ASSUME NEW m, Mappings(m), NEW L \in Seq(LineOf(vendor))
  PROVE  LET p == Parse(vendor, L, m)
             q == Pass(L, m)
         IN /\ Parsed(vendor, m, L, p)
            /\ q.config = p.config /\ q.findings = p.findings /\ q.unknown = p.unknown
            /\ q.n = Len(L)
  <1>1. Parsed(vendor, m, L, Parse(vendor, L, m))
    BY ParseParsed
  <1>2. IsParse(Parse(vendor, L, m)) /\ Parse(vendor, L, m).n = Len(L)
    BY <1>1 DEF Parsed
  <1> QED BY <1>1, <1>2, PassParts

\* The lines left are lines of the text.
LEMMA UnknownLines ==
  ASSUME TextInv, NormalizedInv
  PROVE  /\ normalized.unknown \subseteq 1 .. normalized.n
         /\ normalized.n \in Nat /\ normalized.n <= Len(text)
         /\ Len(text) \in Nat
  <1>0. Len(text) \in Nat
    BY DEF TextInv
  <1>1. CASE normalized = NothingParsed
    <2>1. normalized.unknown = {} /\ normalized.n = 0
      BY <1>1 DEF NothingParsed, NewParse
    <2> QED BY <1>0, <2>1
  <1>2. CASE \E L, m : Passed(L, m)
    <2>1. PICK L, m : Passed(L, m)
      BY <1>2
    <2>2. /\ Parsed(vendor, m, L, Parse(vendor, L, m)) /\ normalized.n = Len(L)
          /\ normalized.unknown = Parse(vendor, L, m).unknown
      BY <2>1, PassParsed DEF Passed
    <2>3. Len(L) \in Nat
      BY <2>1 DEF Passed
    <2> QED BY <1>0, <2>1, <2>2, <2>3 DEF Parsed, Begins, Passed
  <1> QED BY <1>1, <1>2 DEF NormalizedInv

\* The invariant holds at the start.
LEMMA InitIInv ==
  Init => IInv
  <1> SUFFICES ASSUME Init PROVE IInv
    OBVIOUS
  <1>1. vendor \in Vendors /\ text = << >> /\ learned = << >> /\ audits = << >>
        /\ normalized = NothingParsed /\ pending = {} /\ baseline = 0
    BY DEF Init
  <1>2. Len(text) = 0 /\ Len(audits) = 0 /\ DOMAIN learned = {}
    BY <1>1
  <1>3. MaxLines[vendor] \in Nat /\ MaxAudits \in Nat
    BY <1>1, BoundsAssumption, Zenon
  <1>4. TextInv
    BY <1>1, <1>2, <1>3 DEF TextInv
  <1>5. LearnedInv
    BY <1>2 DEF LearnedInv
  <1>6. AuditsInv
    BY <1>1, <1>2, <1>3 DEF AuditsInv
  <1>7. ResultsInv /\ FailedInv
    BY <1>2 DEF ResultsInv, FailedInv
  <1>8. BaselineInv
    BY <1>1 DEF BaselineInv
  <1>9. NormalizedInv /\ PendingInv /\ LastInv
    BY <1>1 DEF NormalizedInv, PendingInv, LastInv
  <1> QED BY <1>4, <1>5, <1>6, <1>7, <1>8, <1>9 DEF IInv

\* A longer text begins with what the text began with.
LEMMA ConfigureKeeps ==
  ASSUME IInv, NEW piece \in Fragments[vendor], Configure(piece)
  PROVE  IInv'
  <1> DEFINE v == vendor
             S == LineOf(v)
  <1>1. /\ text' = text \o piece /\ Len(text) + Len(piece) <= MaxLines[v]
        /\ vendor' = v /\ learned' = learned /\ audits' = audits
        /\ normalized' = normalized /\ pending' = pending /\ baseline' = baseline
    BY DEF Configure
  <1>2. v \in Vendors /\ text \in Seq(S) /\ Len(text) <= MaxLines[v]
    BY DEF IInv, TextInv
  <1>3. piece \in Seq(S)
    <2>1. Fragments[v] \subseteq Seq(IF v = "juniper" THEN PathLine ELSE TextLine)
      BY <1>2, LinesAssumption
    <2>2. S = IF v = "juniper" THEN PathLine ELSE TextLine
      BY DEF LineOf
    <2> QED BY <2>1, <2>2
  <1> HIDE DEF S
  <1>4. /\ text \o piece \in Seq(S) /\ Len(text \o piece) = Len(text) + Len(piece)
        /\ \A i \in 1 .. Len(text) : (text \o piece)[i] = text[i]
        /\ Len(text) \in Nat /\ Len(piece) \in Nat
    BY <1>2, <1>3
  <1>5. TextInv'
    BY <1>1, <1>2, <1>4 DEF TextInv, S
  <1>6. LearnedInv' /\ AuditsInv' /\ ResultsInv' /\ LastInv' /\ BaselineInv'
    BY <1>1 DEF IInv, LearnedInv, AuditsInv, ResultsInv, LastInv, LastAudit, BaselineInv,
                Complete
  <1>7. NormalizedInv'
    <2>1. CASE normalized = NothingParsed /\ (audits = << >> \/ LastAudit.status = "queued")
      BY <1>1, <2>1 DEF NormalizedInv, LastAudit
    <2>2. CASE \E L, m : Passed(L, m)
      <3>1. PICK L, m : Passed(L, m)
        BY <2>2
      <3>2. Len(L) \in Nat
        BY <3>1 DEF Passed
      <3>3. Passed(L, m)'
        BY <1>1, <1>4, <3>1, <3>2 DEF Passed, Begins, Pass
      <3> QED BY <3>3 DEF NormalizedInv
    <2> QED BY <2>1, <2>2 DEF IInv, NormalizedInv
  <1>8. PendingInv'
    BY <1>1 DEF IInv, PendingInv, LastAudit
  <1>9. FailedInv'
    <2>1. \A n \in pending : text'[n] = text[n]
      <3>1. /\ normalized.unknown \subseteq 1 .. normalized.n /\ normalized.n \in Nat
            /\ normalized.n <= Len(text)
        BY UnknownLines DEF IInv
      <3>2. pending \subseteq normalized.unknown
        BY DEF IInv, PendingInv
      <3>3. \A n \in pending : n \in 1 .. Len(text)
        BY <1>4, <3>1, <3>2
      <3> QED BY <1>1, <1>4, <3>3
    <2> QED BY <1>1, <2>1 DEF IInv, FailedInv
  <1> QED BY <1>5, <1>6, <1>7, <1>8, <1>9 DEF IInv

\* The framework of a request is one of the catalogue's.
LEMMA FrameworkKnown ==
  ASSUME NEW way \in Ways, NEW f \in Requests, FrameworkFor(way, vendor, f) # Rejected
  PROVE  FrameworkFor(way, vendor, f) \in Frameworks
  <1> DEFINE v == vendor
  <1>1. way \in {"upload one", "upload many", "pull", "import", "pull discovered"}
    BY BoundsAssumption, Zenon
  <1>2. f = NoRequest \/ f \in Frameworks
    BY BoundsAssumption, Zenon
  <1>3. DefaultFramework(v) \in Frameworks /\ DefaultGeneric \in Frameworks
    BY DEF DefaultFramework, DefaultGeneric, Frameworks
  <1>4. UploadOne(v, f) \in Frameworks \cup {Rejected}
    BY <1>2, <1>3 DEF UploadOne
  <1>5. UploadMany(v, f) \in Frameworks \cup {Rejected}
    BY <1>2, <1>3 DEF UploadMany
  <1>6. PullDevice(v, f) \in Frameworks \cup {Rejected}
    BY <1>2 DEF PullDevice
  <1>7. DiscoveryImport(v, f) \in Frameworks \cup {Rejected}
    BY <1>2, <1>3 DEF DiscoveryImport
  <1>8. PullDiscovered(v, f) \in Frameworks \cup {Rejected}
    BY <1>2 DEF PullDiscovered
  <1>9. FrameworkFor(way, v, f) \in {UploadOne(v, f), UploadMany(v, f), PullDevice(v, f),
                                     DiscoveryImport(v, f), PullDiscovered(v, f)}
    BY <1>1, Zenon DEF FrameworkFor
  <1> QED BY <1>4, <1>5, <1>6, <1>7, <1>8, <1>9

\* One more audit is queued.
LEMMA SubmitKeeps ==
  ASSUME IInv, NEW way \in Ways, NEW f \in Requests, Submit(way, f)
  PROVE  IInv'
  <1> DEFINE x == [framework |-> FrameworkFor(way, vendor, f),
                   status |-> "queued", results |-> {}, score |-> Unset]
             k == Len(audits)
  <1>1. /\ Settled /\ k < MaxAudits /\ audits' = Append(audits, x)
        /\ vendor' = vendor /\ text' = text /\ learned' = learned
        /\ normalized' = normalized /\ pending' = pending /\ baseline' = baseline
    BY DEF Submit
  <1>2. x \in AuditRow /\ x.status = "queued"
    <2>1. FrameworkFor(way, vendor, f) \in Frameworks
      BY FrameworkKnown DEF Submit
    <2>2. Unset \in Scores
      BY DEF Scores, Unset
    <2>3. "queued" \in Statuses
      BY DEF Statuses
    <2> QED BY <2>1, <2>2, <2>3 DEF AuditRow
  <1> HIDE DEF x
  <1>3. audits \in Seq(AuditRow) /\ k \in Nat
    BY DEF IInv, AuditsInv
  <1>4. /\ audits' \in Seq(AuditRow) /\ Len(audits') = k + 1 /\ audits'[k + 1] = x
        /\ \A i \in 1 .. k : audits'[i] = audits[i]
        /\ DOMAIN audits = 1 .. k /\ DOMAIN audits' = 1 .. k + 1
    BY <1>1, <1>2, <1>3
  <1>5. LastAudit'.status = "queued" /\ audits' # << >>
    BY <1>2, <1>3, <1>4 DEF LastAudit
  <1>6. AuditsInv'
    <2>1. ASSUME NEW i \in 1 .. k PROVE audits[i].status \in {"complete", "failed"}
      <3>1. CASE i = k
        BY <1>1, <3>1 DEF Settled, LastAudit
      <3>2. CASE i # k
        BY <1>3, <3>2 DEF IInv, AuditsInv
      <3> QED BY <3>1, <3>2
    <2>2. MaxAudits \in Nat
      BY BoundsAssumption, Zenon
    <2> QED BY <1>1, <1>3, <1>4, <2>1, <2>2 DEF AuditsInv
  <1>7. ResultsInv'
    BY <1>1, <1>2, <1>3, <1>4 DEF IInv, ResultsInv
  <1>8. BaselineInv'
    BY <1>1, <1>4 DEF IInv, BaselineInv, Complete
  <1>9. NormalizedInv'
    BY <1>1, <1>5 DEF IInv, NormalizedInv, Passed, Begins, Pass
  <1>10. PendingInv' /\ LastInv'
    BY <1>1, <1>5 DEF IInv, PendingInv, LastInv
  <1>11. FailedInv'
    BY <1>1, <1>2, <1>3, <1>4 DEF IInv, FailedInv
  <1>12. TextInv' /\ LearnedInv'
    BY <1>1 DEF IInv, TextInv, LearnedInv
  <1> QED BY <1>6, <1>7, <1>8, <1>9, <1>10, <1>11, <1>12 DEF IInv

\* The mappings that are approved are readings.
LEMMA LearnedMappings ==
  ASSUME LearnedInv
  PROVE  Mappings(learned)
  BY ApprovedReadings DEF LearnedInv, Mappings

\* A row with another entry.
LEMMA ReplacedRow ==
  ASSUME NEW k \in 1 .. Len(audits), audits \in Seq(AuditRow), NEW x \in AuditRow
  PROVE  LET s == [audits EXCEPT ![k] = x] IN
         /\ s \in Seq(AuditRow) /\ Len(s) = Len(audits) /\ s[k] = x
         /\ \A i \in 1 .. Len(audits) : i # k => s[i] = audits[i]
         /\ s # << >> /\ DOMAIN s = 1 .. Len(audits)
  OBVIOUS

\* What an evaluation stores is a row.
LEMMA EvaluateRows ==
  ASSUME NEW framework \in Frameworks, vendor \in Vendors, NEW c
  PROVE  Evaluate(framework, vendor, c)
           \in SUBSET [framework : Frameworks, id : ControlIds, verdict : Verdicts]
  <1> DEFINE S == GetControls(framework, vendor)
  <1>1. \A r \in S : r.id \in ControlIds
    <2> DEFINE IdsIn(f, v) == {r.id : r \in GetControls(f, v)}
    <2>1. ControlIds = UNION {IdsIn(f, v) : f \in Frameworks, v \in Vendors}
      BY DEF ControlIds
    <2>2. \A r \in S : r.id \in IdsIn(framework, vendor)
      OBVIOUS
    <2> HIDE DEF IdsIn, S
    <2> QED BY <2>1, <2>2
  <1>2. \A r \in S : Verdict(r, c) \in Verdicts
    BY Catalogues, RowJudges DEF Catalogue, Judges
  <1>3. Evaluate(framework, vendor, c)
          = {[framework |-> framework, id |-> r.id, verdict |-> Verdict(r, c)] : r \in S}
    BY DEF Evaluate
  <1> HIDE DEF S
  <1> QED BY <1>1, <1>2, <1>3

\* The three ends of a pass.
LEMMA OutcomeRow ==
  ASSUME NEW a \in AuditRow, NEW p, vendor \in Vendors
  PROVE  LET x == Outcome(a, p)
             R == Evaluate(a.framework, vendor, p.config)
         IN
         /\ x \in AuditRow /\ x.framework = a.framework
         /\ \/ p.unknown # {} /\ x.status = "awaiting_training"
            \/ /\ p.unknown = {} /\ x.status = "failed"
               /\ \/ ~Supported(a.framework, vendor)
                  \/ \E r \in GetControls(a.framework, vendor) : Raises(r, p.config)
            \/ /\ p.unknown = {} /\ x.status = "complete" /\ x.results = R
               /\ x.score = ComplianceScore(R)
  <1> DEFINE x == Outcome(a, p)
             R == Evaluate(a.framework, vendor, p.config)
             F == ~Supported(a.framework, vendor)
                  \/ \E r \in GetControls(a.framework, vendor) : Raises(r, p.config)
  <1>1. a = [framework |-> a.framework, status |-> a.status, score |-> a.score,
             results |-> a.results]
        /\ a.framework \in Frameworks /\ a.score \in Scores
        /\ a.results \in SUBSET [framework : Frameworks, id : ControlIds, verdict : Verdicts]
    BY DEF AuditRow
  <1>2. {"awaiting_training", "failed", "complete"} \subseteq Statuses
    BY DEF Statuses
  <1>3. CASE p.unknown # {}
    <2>1. x = [a EXCEPT !.status = "awaiting_training"]
      BY <1>3 DEF Outcome
    <2> HIDE DEF x
    <2>2. x = [framework |-> a.framework, status |-> "awaiting_training", score |-> a.score,
               results |-> a.results]
      BY <1>1, <2>1
    <2> QED BY <1>1, <1>2, <1>3, <2>2 DEF AuditRow, x
  <1>4. CASE p.unknown = {} /\ F
    <2>1. x = [a EXCEPT !.status = "failed"]
      BY <1>4 DEF Outcome
    <2> HIDE DEF x
    <2>2. x = [framework |-> a.framework, status |-> "failed", score |-> a.score,
               results |-> a.results]
      BY <1>1, <2>1
    <2> QED BY <1>1, <1>2, <1>4, <2>2 DEF AuditRow, x
  <1>5. CASE p.unknown = {} /\ ~F
    <2>1. x = [a EXCEPT !.status = "complete", !.results = R, !.score = ComplianceScore(R)]
      BY <1>5 DEF Outcome
    <2>2. R \in SUBSET [framework : Frameworks, id : ControlIds, verdict : Verdicts]
      BY <1>1, EvaluateRows
    <2>3. ComplianceScore(R) \in Scores
      <3>1. Results(a.framework, vendor, R)
        BY <1>1, OneResultPerControl
      <3>2. Share(ComplianceScore(R))
        BY <3>1, ScoreComputedAgain DEF Results
      <3> QED BY <3>2 DEF Share, Scores
    <2> HIDE DEF x, R
    <2>4. x = [framework |-> a.framework, status |-> "complete",
               score |-> ComplianceScore(R), results |-> R]
      BY <1>1, <2>1
    <2>5. x \in AuditRow /\ x.framework = a.framework /\ x.status = "complete"
          /\ x.results = R /\ x.score = ComplianceScore(R)
      BY <1>1, <1>2, <2>2, <2>3, <2>4 DEF AuditRow
    <2> QED BY <1>5, <2>5 DEF x, R
  <1> QED BY <1>3, <1>4, <1>5

\* A control raises only over a mapping of the wrong type that a line of the text met.
LEMMA RaisesMistyped ==
  ASSUME NEW v, NEW m, NEW L, NEW p, Parsed(v, m, L, p), NEW r, Raises(r, p.config)
  PROVE  \E k \in Keys(v, m) : m[k].value = Mistyped
  <1> DEFINE f == r.fields[1]
  <1>1. Get(p.config, f) = Mistyped
    BY DEF Raises
  <1> HIDE DEF f
  <1>2. f \in DOMAIN p.config.scalars /\ p.config.scalars[f] = Mistyped
    BY <1>1 DEF Get, Unset, Mistyped
  <1>3. Mistyped \in Values(v, m)
    BY <1>2 DEF Parsed, Valued
  <1> QED BY <1>3 DEF Values, Mistyped

\* A pass over the text ends the audit one way or another.
LEMMA RunAuditKeeps ==
  ASSUME IInv, RunAudit
  PROVE  IInv'
  <1> DEFINE k == Len(audits)
             a == audits[k]
             p == Parse(vendor, text, learned)
             x == Outcome(a, p)
  <1>1. /\ ~Settled /\ a.status \in {"queued", "normalising"}
        /\ normalized' = [p EXCEPT !.state = "none"] /\ pending' = p.unknown
        /\ audits' = [audits EXCEPT ![k] = Outcome(@, p)]
        /\ vendor' = vendor /\ text' = text /\ learned' = learned /\ baseline' = baseline
    BY DEF RunAudit, LastAudit
  <1>2. audits \in Seq(AuditRow) /\ k \in 1 .. Len(audits) /\ a \in AuditRow /\ k \in Nat
    BY <1>1 DEF IInv, AuditsInv, Settled
  <1>3. vendor \in Vendors /\ text \in Seq(LineOf(vendor)) /\ Mappings(learned)
    BY LearnedMappings DEF IInv, TextInv
  <1>4. /\ Parsed(vendor, learned, text, p)
        /\ Pass(text, learned).config = p.config /\ Pass(text, learned).unknown = p.unknown
    BY <1>3, PassParsed
  <1>5. /\ x \in AuditRow /\ x.framework = a.framework
        /\ \/ p.unknown # {} /\ x.status = "awaiting_training"
           \/ /\ p.unknown = {} /\ x.status = "failed"
              /\ \/ ~Supported(a.framework, vendor)
                 \/ \E r \in GetControls(a.framework, vendor) : Raises(r, p.config)
           \/ /\ p.unknown = {} /\ x.status = "complete"
              /\ x.results = Evaluate(a.framework, vendor, p.config)
              /\ x.score = ComplianceScore(x.results)
    <2> HIDE DEF a, p
    <2> QED BY <1>2, <1>3, OutcomeRow
  <1>6. normalized' = Pass(text, learned)
    BY <1>1 DEF Pass
  <1> HIDE DEF p, x, a
  <1>7. /\ audits' \in Seq(AuditRow) /\ Len(audits') = k /\ audits'[k] = x
        /\ \A i \in 1 .. k : i # k => audits'[i] = audits[i]
        /\ audits' # << >> /\ DOMAIN audits' = 1 .. k /\ DOMAIN audits = 1 .. k
    <2>1. audits' = [audits EXCEPT ![k] = x]
      BY <1>1, <1>2 DEF x, a
    <2> QED BY <1>2, <1>5, <2>1, ReplacedRow
  <1> HIDE DEF k
  <1>8. LastAudit' = x
    BY <1>7 DEF LastAudit
  <1>9. TextInv' /\ LearnedInv'
    BY <1>1 DEF IInv, TextInv, LearnedInv
  <1>10. AuditsInv'
    <2>1. k <= MaxAudits /\ \A i \in 1 .. k - 1 : audits[i].status \in {"complete", "failed"}
      BY DEF IInv, AuditsInv, k
    <2>2. \A i \in 1 .. k - 1 : audits'[i] = audits[i]
      BY <1>2, <1>7
    <2> QED BY <1>2, <1>7, <2>1, <2>2 DEF AuditsInv
  <1>11. ResultsInv'
    <2> SUFFICES ASSUME NEW i \in 1 .. k, audits'[i].status = "complete"
                 PROVE  /\ Results(audits'[i].framework, vendor, audits'[i].results)
                        /\ audits'[i].score = ComplianceScore(audits'[i].results)
      BY <1>1, <1>7 DEF ResultsInv
    <2>1. CASE i = k
      <3>1. /\ x.results = Evaluate(a.framework, vendor, p.config)
            /\ x.score = ComplianceScore(x.results) /\ x.framework = a.framework
        BY <1>5, <1>7, <2>1
      <3>2. a.framework \in Frameworks
        BY <1>2 DEF AuditRow
      <3> QED BY <1>7, <2>1, <3>1, <3>2, OneResultPerControl
    <2>2. CASE i # k
      BY <1>7, <2>2 DEF IInv, ResultsInv, k
    <2> QED BY <2>1, <2>2
  <1>12. BaselineInv'
    <2>1. \A i : Complete(i) => Complete(i)'
      <3> SUFFICES ASSUME NEW i \in 1 .. k, audits[i].status = "complete"
                   PROVE  audits'[i].status = "complete"
        BY <1>7 DEF Complete
      <3>1. i # k
        BY <1>1 DEF a
      <3> QED BY <1>7, <3>1
    <2> QED BY <1>1, <2>1 DEF IInv, BaselineInv
  <1>13. NormalizedInv'
    <2>1. Begins(text)
      <3>1. Len(text) \in Nat
        BY <1>3
      <3> QED BY <3>1 DEF Begins
    <2>2. Passed(text, learned)'
      BY <1>1, <1>3, <1>6, <2>1 DEF Passed, Begins, Pass
    <2> QED BY <2>2 DEF NormalizedInv
  <1>14. PendingInv'
    BY <1>1, <1>4, <1>5, <1>6, <1>8 DEF PendingInv
  <1>15. LastInv'
    BY <1>1, <1>4, <1>5, <1>6, <1>8 DEF LastInv
  <1>16. FailedInv'
    <2> SUFFICES ASSUME NEW i \in 1 .. k, audits'[i].status = "failed",
                        Supported(audits'[i].framework, vendor)
                 PROVE  \E j \in Keys(vendor, learned) :
                          /\ learned[j].value = Mistyped
                          /\ \A n \in p.unknown : Key(vendor, text[n]) # j
      BY <1>1, <1>7 DEF FailedInv
    <2>1. \A n \in p.unknown : Key(vendor, text[n]) \notin Keys(vendor, learned)
      BY <1>4 DEF Parsed
    <2>2. \E j \in Keys(vendor, learned) : learned[j].value = Mistyped
      <3>1. CASE i = k
        <4>1. \E r \in GetControls(a.framework, vendor) : Raises(r, p.config)
          BY <1>5, <1>7, <3>1
        <4> QED BY <1>4, <4>1, RaisesMistyped
      <3>2. CASE i # k
        BY <1>7, <3>2 DEF IInv, FailedInv, k
      <3> QED BY <3>1, <3>2
    <2> QED BY <2>1, <2>2
  <1> QED BY <1>9, <1>10, <1>11, <1>12, <1>13, <1>14, <1>15, <1>16 DEF IInv

\* A line is trained, and the last of them resumes the audit.
LEMMA ApproveTrainingKeeps ==
  ASSUME IInv, NEW n \in pending, NEW r \in Approvals, ApproveTraining(n, r)
  PROVE  IInv'
  <1> DEFINE k == Len(audits)
             a == audits[k]
             key == Pattern(text[n])
             x == [a EXCEPT !.status = "normalising"]
  <1>1. /\ ~Settled /\ a.status = "awaiting_training"
        /\ learned' = With(learned, key, r) /\ pending' = pending \ {n}
        /\ audits' = IF pending' = {} THEN [audits EXCEPT ![k].status = "normalising"]
                     ELSE audits
        /\ vendor' = vendor /\ text' = text /\ normalized' = normalized /\ baseline' = baseline
    BY DEF ApproveTraining, LastAudit
  <1>2. audits \in Seq(AuditRow) /\ k \in 1 .. Len(audits) /\ a \in AuditRow /\ k \in Nat
    BY <1>1 DEF IInv, AuditsInv, Settled
  <1>3. x \in AuditRow /\ x.status = "normalising" /\ x.framework = a.framework
    <2>1. "normalising" \in Statuses
      BY DEF Statuses
    <2> QED BY <1>2, <2>1 DEF AuditRow
  <1>4. key = Key(vendor, text[n])
    BY DEF Pattern, Key
  <1> HIDE DEF x, a, key
  <1>5. /\ audits' \in Seq(AuditRow) /\ Len(audits') = k
        /\ \A i \in 1 .. k : i # k => audits'[i] = audits[i]
        /\ audits' # << >> /\ DOMAIN audits' = 1 .. k /\ DOMAIN audits = 1 .. k
        /\ \/ pending' # {} /\ audits'[k] = a
           \/ pending' = {} /\ audits'[k] = x
    <2>1. CASE pending' = {}
      <3>1. audits' = [audits EXCEPT ![k] = x]
        BY <1>1, <1>2, <2>1 DEF x, a
      <3> QED BY <1>2, <1>3, <2>1, <3>1, ReplacedRow
    <2>2. CASE pending' # {}
      BY <1>1, <1>2, <2>2 DEF a
    <2> QED BY <2>1, <2>2
  <1> HIDE DEF k
  <1>6. LastAudit' = audits'[k] /\ LastAudit = a
    BY <1>5 DEF LastAudit, a, k
  <1>7. audits'[k].status \in {"normalising", "awaiting_training"}
        /\ (pending' = {} => audits'[k].status = "normalising")
    BY <1>1, <1>3, <1>5
  <1>8. TextInv'
    BY <1>1 DEF IInv, TextInv
  <1>9. LearnedInv'
    BY <1>1 DEF IInv, LearnedInv, With
  <1>10. AuditsInv'
    <2>1. k <= MaxAudits /\ \A i \in 1 .. k - 1 : audits[i].status \in {"complete", "failed"}
      BY DEF IInv, AuditsInv, k
    <2>2. \A i \in 1 .. k - 1 : audits'[i] = audits[i]
      BY <1>2, <1>5
    <2> QED BY <1>2, <1>5, <2>1, <2>2 DEF AuditsInv
  <1>11. ResultsInv'
    BY <1>1, <1>5, <1>7 DEF IInv, ResultsInv, k
  <1>12. BaselineInv'
    <2>1. \A i : Complete(i) => Complete(i)'
      <3> SUFFICES ASSUME NEW i \in 1 .. k, audits[i].status = "complete"
                   PROVE  audits'[i].status = "complete"
        BY <1>5 DEF Complete
      <3>1. i # k
        BY <1>1 DEF a
      <3> QED BY <1>5, <3>1
    <2> QED BY <1>1, <2>1 DEF IInv, BaselineInv
  <1>13. NormalizedInv'
    <2>1. PICK L, m : Passed(L, m)
      BY <1>1, <1>2, <1>6 DEF IInv, NormalizedInv
    <2>2. Passed(L, m)'
      BY <1>1, <2>1 DEF Passed, Begins, Pass
    <2> QED BY <2>2 DEF NormalizedInv
  <1>14. PendingInv'
    BY <1>1, <1>6, <1>7 DEF IInv, PendingInv
  <1>15. LastInv'
    BY <1>6, <1>7 DEF LastInv
  <1>16. FailedInv'
    <2> SUFFICES ASSUME NEW i \in 1 .. k, audits'[i].status = "failed",
                        Supported(audits'[i].framework, vendor)
                 PROVE  \E j \in Keys(vendor, learned') :
                          /\ learned'[j].value = Mistyped
                          /\ \A q \in pending' : Key(vendor, text[q]) # j
      BY <1>1, <1>5 DEF FailedInv
    <2>1. i # k /\ audits'[i] = audits[i]
      BY <1>5, <1>7
    <2>2. PICK j \in Keys(vendor, learned) :
            learned[j].value = Mistyped /\ \A q \in pending : Key(vendor, text[q]) # j
      BY <2>1 DEF IInv, FailedInv, k
    <2>3. j # key /\ j \in DOMAIN learned
      BY <1>4, <2>2 DEF Keys
    <2>4. j \in DOMAIN learned' /\ learned'[j] = learned[j]
      BY <1>1, <2>3 DEF With
    <2>5. j \in Keys(vendor, learned')
      BY <2>2, <2>4 DEF Keys, Usable
    <2> QED BY <1>1, <2>2, <2>4, <2>5
  <1> QED BY <1>8, <1>9, <1>10, <1>11, <1>12, <1>13, <1>14, <1>15, <1>16 DEF IInv

\* A completed audit becomes the baseline.
LEMMA SetBaselineKeeps ==
  ASSUME IInv, NEW i, SetBaseline(i)
  PROVE  IInv'
  <1>1. /\ Complete(i) /\ baseline' = i /\ vendor' = vendor /\ text' = text
        /\ learned' = learned /\ audits' = audits /\ normalized' = normalized
        /\ pending' = pending
    BY DEF SetBaseline
  <1>2. BaselineInv'
    BY <1>1 DEF BaselineInv, Complete
  <1> QED BY <1>1, <1>2 DEF IInv, TextInv, LearnedInv, AuditsInv, ResultsInv, NormalizedInv,
             PendingInv, LastInv, FailedInv, LastAudit, Passed, Begins, Pass

\* Every step keeps the invariant.
LEMMA NextIInv ==
  IInv /\ [Next]_vars => IInv'
  <1> SUFFICES ASSUME IInv, [Next]_vars PROVE IInv'
    OBVIOUS
  <1>1. CASE RunAudit
    BY <1>1, RunAuditKeeps
  <1>2. ASSUME NEW piece \in Fragments[vendor], Configure(piece) PROVE IInv'
    BY <1>2, ConfigureKeeps
  <1>3. ASSUME NEW way \in Ways, NEW f \in Requests, Submit(way, f) PROVE IInv'
    BY <1>3, SubmitKeeps
  <1>4. ASSUME NEW n \in pending, NEW r \in Approvals, ApproveTraining(n, r) PROVE IInv'
    BY <1>4, ApproveTrainingKeeps
  <1>5. ASSUME NEW i \in 1 .. MaxAudits, SetBaseline(i) PROVE IInv'
    BY <1>5, SetBaselineKeeps
  <1>6. CASE UNCHANGED vars
    BY <1>6 DEF vars, IInv, TextInv, LearnedInv, AuditsInv, ResultsInv, BaselineInv,
                NormalizedInv, PendingInv, LastInv, FailedInv, LastAudit, Complete, Passed,
                Begins, Pass
  <1> QED BY <1>1, <1>2, <1>3, <1>4, <1>5, <1>6 DEF Next

\* The invariant holds in every state.
LEMMA AlwaysIInv ==
  Spec => []IInv
  <1>1. Init => IInv
    BY InitIInv
  <1>2. IInv /\ [Next]_vars => IInv'
    BY NextIInv
  <1> QED BY <1>1, <1>2, PTL DEF Spec

-----------------------------------------------------------------------------
(* The properties of the runs.                                             *)

\* Rows are what the code can store: the type invariant of the run.
LEMMA RowsStored ==
  IInv => TypeOK
  <1> SUFFICES ASSUME IInv PROVE TypeOK
    OBVIOUS
  <1>1. /\ vendor \in Vendors /\ Len(text) <= MaxLines[vendor]
        /\ \A k \in DOMAIN learned : learned[k] \in Approvals
        /\ pending \subseteq normalized.unknown
        /\ baseline # 0 => Complete(baseline)
    BY DEF IInv, TextInv, LearnedInv, PendingInv, BaselineInv
  <1>2. normalized.unknown \subseteq 1 .. normalized.n
    BY UnknownLines DEF IInv
  <1>3. audits \in Seq(AuditRow) /\ Len(audits) <= MaxAudits
    BY DEF IInv, AuditsInv
  <1>4. Len(audits) \in Nat /\ DOMAIN audits = 1 .. Len(audits)
    BY <1>3
  <1>5. ASSUME NEW i \in DOMAIN audits
        PROVE  /\ audits[i].framework \in Frameworks
               /\ audits[i].status = "complete" =>
                    /\ Share(audits[i].score)
                    /\ Cardinality(audits[i].results)
                         = Cardinality(GetControls(audits[i].framework, vendor))
               /\ audits[i].status = "awaiting_training" => i = Len(audits) /\ pending # {}
    <2>1. audits[i] \in AuditRow
      BY <1>3, <1>4
    <2>2. audits[i].framework \in Frameworks
      BY <2>1 DEF AuditRow
    <2>3. ASSUME audits[i].status = "complete"
          PROVE  /\ Share(audits[i].score)
                 /\ Cardinality(audits[i].results)
                      = Cardinality(GetControls(audits[i].framework, vendor))
      <3>1. /\ Results(audits[i].framework, vendor, audits[i].results)
            /\ audits[i].score = ComplianceScore(audits[i].results)
        BY <1>4, <2>3 DEF IInv, ResultsInv
      <3>2. Share(ComplianceScore(audits[i].results))
        BY <3>1, ScoreComputedAgain DEF Results
      <3> QED BY <3>1, <3>2 DEF Results
    <2>4. ASSUME audits[i].status = "awaiting_training"
          PROVE  i = Len(audits) /\ pending # {}
      <3>1. i = Len(audits)
        BY <1>4, <2>4 DEF IInv, AuditsInv
      <3>2. audits # << >>
        BY <1>4
      <3> QED BY <2>4, <3>1, <3>2 DEF IInv, PendingInv, LastAudit
    <2> QED BY <2>2, <2>3, <2>4
  <1> QED BY <1>1, <1>2, <1>3, <1>5, Zenon DEF TypeOK, Share, Hundredths

\* Every set of numbers of audits has a last.
LEMMA LastOf ==
  ASSUME NEW k \in Nat, NEW T, T \subseteq 1 .. k, T # {}
  PROVE  \E m \in T : \A j \in T : m >= j
  <1> DEFINE U == {u \in Nat : k - u \in T}
  <1>1. PICK t \in T : TRUE
    OBVIOUS
  <1>2. k - t \in Nat /\ k - (k - t) = t
    BY <1>1
  <1>3. U \subseteq Nat /\ U # {}
    BY <1>1, <1>2
  <1>4. PICK u \in U : \A w \in U : u <= w
    BY <1>3, LeastNat
  <1>5. k - u \in T /\ u \in Nat
    BY <1>4
  <1>6. ASSUME NEW j \in T PROVE k - u >= j
    <2>1. j \in 1 .. k
      OBVIOUS
    <2>2. k - j \in Nat /\ k - (k - j) = j
      BY <2>1
    <2>3. k - j \in U
      BY <2>2
    <2>4. u <= k - j
      BY <1>4, <2>3
    <2> QED BY <1>5, <2>1, <2>4
  <1> QED BY <1>5, <1>6

\* The drift report compares two completed audits.
LEMMA DriftCompleted ==
  ASSUME IInv, DriftAnswers
  PROVE  DriftFrom \in CompletedAudits /\ DriftTo \in CompletedAudits
  <1>1. audits \in Seq(AuditRow)
    BY DEF IInv, AuditsInv
  <1>2. Len(audits) \in Nat /\ CompletedAudits \subseteq 1 .. Len(audits)
    BY <1>1 DEF CompletedAudits
  <1>3. CompletedAudits # {}
    <2>1. Cardinality(CompletedAudits) >= 2
      BY DEF DriftAnswers
    <2> QED BY <2>1, FS_EmptySet
  <1>4. DriftTo \in CompletedAudits
    <2>1. \E m \in CompletedAudits : \A j \in CompletedAudits : m >= j
      BY <1>2, <1>3, LastOf
    <2> QED BY <2>1 DEF DriftTo
  <1>5. DriftFrom \in CompletedAudits
    <2>1. CASE baseline # 0
      BY <2>1 DEF DriftFrom, IInv, BaselineInv, CompletedAudits, Complete
    <2>2. CASE baseline = 0
      <3>1. CompletedAudits \subseteq Nat
        BY <1>2
      <3>2. \E m \in CompletedAudits : \A j \in CompletedAudits : m <= j
        BY <1>3, <3>1, LeastNat
      <3> QED BY <2>2, <3>2 DEF DriftFrom
    <2> QED BY <2>1, <2>2
  <1> QED BY <1>4, <1>5

\* The drift report loses no failure, whichever two audits it compares.
LEMMA DriftComplete ==
  IInv => DriftAccounts
  <1> SUFFICES ASSUME IInv, DriftAnswers PROVE DriftAccounts
    BY DEF DriftAccounts
  <1> DEFINE before == audits[DriftFrom]
             after == audits[DriftTo]
             B == before.results
             A == after.results
             d == Drift(B, A)
  <1>1. DriftFrom \in CompletedAudits /\ DriftTo \in CompletedAudits
    BY DriftCompleted
  <1>2. ASSUME NEW i \in CompletedAudits
        PROVE  /\ Results(audits[i].framework, vendor, audits[i].results)
               /\ audits[i].score = ComplianceScore(audits[i].results)
    <2>1. i \in DOMAIN audits /\ audits[i].status = "complete"
      BY DEF CompletedAudits, Complete
    <2>2. audits \in Seq(AuditRow)
      BY DEF IInv, AuditsInv
    <2>3. i \in 1 .. Len(audits)
      BY <2>1, <2>2
    <2> QED BY <2>1, <2>3 DEF IInv, ResultsInv
  <1>3. /\ Results(before.framework, vendor, B) /\ Results(after.framework, vendor, A)
        /\ before.score = ComplianceScore(B) /\ after.score = ComplianceScore(A)
    BY <1>1, <1>2
  <1> HIDE DEF B, A
  <1>4. /\ IdsOf(Fails(A)) = IdsOf(d.newly_failed) \cup IdsOf(d.still_failing)
        /\ d.newly_failed \cap d.still_failing = {}
        /\ IdsOf(Fails(B))
             = (IdsOf(d.newly_passed) \cup IdsOf(d.still_failing)) \cup IdsOf(Gone(B, A))
        /\ d.score_before = ComplianceScore(B) /\ d.score_after = ComplianceScore(A)
    BY <1>3, DriftLosesNothing
  <1>5. DeviceDrift = d
    BY DEF DeviceDrift, B, A
  <1> HIDE DEF d
  <1>6. IdsOf(Gone(B, A))
          = {b.id : b \in {x \in B : x.verdict = FAIL /\
               ~\E y \in A : y.framework = x.framework /\ y.id = x.id /\ y.verdict # NA}}
    BY DEF IdsOf, Gone, Fails
  <1> QED BY <1>3, <1>4, <1>5, <1>6 DEF DriftAccounts, IdsOf, Fails, B, A

\* After a pass over the whole text, normalized holds what is known of every parse.
LEMMA CurrentPass ==
  ASSUME IInv, Current
  PROVE  \E m : LET p == Parse(vendor, text, m) IN
           /\ Mappings(m) /\ text \in Seq(LineOf(vendor))
           /\ Parsed(vendor, m, text, p)
           /\ normalized.config = p.config /\ normalized.findings = p.findings
           /\ normalized.unknown = p.unknown
  <1>1. PICK L, m : Passed(L, m)
    BY DEF IInv, NormalizedInv, Current
  <1>2. L \in Seq(LineOf(vendor)) /\ Mappings(m) /\ Begins(L) /\ normalized = Pass(L, m)
    BY <1>1 DEF Passed
  <1>3. text \in Seq(LineOf(vendor))
    BY DEF IInv, TextInv
  <1>4. /\ Parsed(vendor, m, L, Parse(vendor, L, m)) /\ normalized.n = Len(L)
        /\ normalized.config = Parse(vendor, L, m).config
        /\ normalized.findings = Parse(vendor, L, m).findings
        /\ normalized.unknown = Parse(vendor, L, m).unknown
    BY <1>2, PassParsed
  <1>5. L = text
    <2>1. Len(L) = Len(text)
      BY <1>4 DEF Current
    <2>2. \A i \in 1 .. Len(L) : L[i] = text[i]
      BY <1>2 DEF Begins
    <2> QED BY <1>2, <1>3, <2>1, <2>2
  <1> QED BY <1>2, <1>3, <1>4, <1>5

\* The lines that say nothing, and the lines of a banner, as the properties tell them
\* apart and as the proofs about the parsers do.
LEMMA LinesApart ==
  /\ \A n : Structural(text[n]) <=> Blank(vendor, text[n])
  /\ \A n : InsideBanner(n) <=> Inside(vendor, text, n - 1)
  <1>1. ASSUME NEW n PROVE Structural(text[n]) <=> Blank(vendor, text[n])
    BY Zenon DEF Structural, Blank
  <1>2. ASSUME NEW n PROVE InsideBanner(n) <=> Inside(vendor, text, n - 1)
    BY Zenon DEF InsideBanner, Inside, Opens, Closes
  <1> QED BY <1>1, <1>2

\* Every line that says something is cited by a finding or kept for training.
LEMMA LinesAccounted ==
  IInv => EveryLineAccounted
  <1> SUFFICES ASSUME IInv, Current, NEW n \in DOMAIN text,
                      ~Structural(text[n]), ~InsideBanner(n)
               PROVE  Cited(n) <=> n \notin normalized.unknown
    BY DEF EveryLineAccounted
  <1>1. PICK m : LET p == Parse(vendor, text, m) IN
          /\ Mappings(m) /\ text \in Seq(LineOf(vendor))
          /\ Parsed(vendor, m, text, p)
          /\ normalized.config = p.config /\ normalized.findings = p.findings
          /\ normalized.unknown = p.unknown
    BY CurrentPass
  <1> DEFINE p == Parse(vendor, text, m)
  <1>2. n \in 1 .. Len(text)
    BY <1>1
  <1>3. ~Blank(vendor, text[n]) /\ ~Inside(vendor, text, n - 1)
    BY LinesApart
  <1>4. Cited(n) <=> n \in Cites(p)
    BY <1>1 DEF Cited, Cites
  <1> HIDE DEF p
  <1>5. n \in Cites(p) <=> n \notin p.unknown
    BY <1>1, <1>2, <1>3 DEF Parsed, p
  <1> QED BY <1>1, <1>4, <1>5 DEF p

\* The findings of a field.
LEMMA FoundFields ==
  \A f : FindingsOf(f) # {} <=> f \in FieldsIn(normalized)
  BY DEF FindingsOf, FieldsIn

\* The last statement of a setting decides, the weakest password of FortiOS.
LEMMA LastDecides ==
  IInv => LastStatementDecides
  <1> SUFFICES ASSUME IInv PROVE LastStatementDecides
    OBVIOUS
  <1> DEFINE fs == normalized.findings
  <1>1. ASSUME NEW f \in DOMAIN normalized.config.scalars \ (Concluded \cup HeldSeveral),
               NEW i \in FindingsOf(f), \A j \in FindingsOf(f) : j <= i,
               fs[i].reading.value # Unset
        PROVE  Get(normalized.config, f) = fs[i].reading.value
    <2>1. f \in FieldsIn(normalized)
      BY FoundFields
    <2>2. CASE normalized = NothingParsed
      <3>1. DOMAIN normalized.findings = {}
        BY <2>2 DEF NothingParsed, NewParse
      <3> QED BY <2>1, <3>1 DEF FieldsIn
    <2>3. CASE \E L, m : Passed(L, m)
      <3>1. PICK L, m : Passed(L, m)
        BY <2>3
      <3> DEFINE p == Parse(vendor, L, m)
      <3>2. /\ Parsed(vendor, m, L, p) /\ normalized.config = p.config
            /\ normalized.findings = p.findings
        BY <3>1, PassParsed DEF Passed
      <3> HIDE DEF p
      <3>3. f \in ScalarFields
        BY <3>2 DEF Parsed, IsParse, IsConfig
      <3>4. vendor = "fortinet" => f \notin Facts
        BY DEF Concluded, Facts
      <3>5. i \in DOMAIN p.findings /\ p.findings[i].reading.field = f
        BY <3>2 DEF FindingsOf
      <3>6. \A j \in DOMAIN p.findings : p.findings[j].reading.field = f => j <= i
        BY <1>1, <3>2 DEF FindingsOf
      <3>7. p.findings[i].reading.value # Unset
        BY <1>1, <3>2
      <3>8. Get(p.config, f) = p.findings[i].reading.value
        BY <3>2, <3>3, <3>4, <3>5, <3>6, <3>7 DEF Parsed
      <3> QED BY <3>2, <3>8
    <2> QED BY <2>2, <2>3 DEF IInv, NormalizedInv
  <1>2. ASSUME Current, vendor = "fortinet",
               \A i \in FindingsOf(Password) : fs[i].source = "parser",
               \E i \in FindingsOf(Password) : "ENC" \notin text[fs[i].line].words
        PROVE  Get(normalized.config, Password) = No
    <2>1. PICK m : LET p == Parse(vendor, text, m) IN
            /\ Mappings(m) /\ text \in Seq(LineOf(vendor))
            /\ Parsed(vendor, m, text, p)
            /\ normalized.config = p.config /\ normalized.findings = p.findings
            /\ normalized.unknown = p.unknown
      BY <1>2, CurrentPass
    <2> DEFINE p == Parse(vendor, text, m)
    <2>2. Weakest(text, p)
      BY <1>2, <2>1 DEF Parsed
    <2> HIDE DEF p
    <2>3. normalized.config = p.config /\ normalized.findings = p.findings
      BY <2>1 DEF p
    <2> QED BY <1>2, <2>2, <2>3 DEF Weakest, FindingsOf
  <1> QED BY <1>1, <1>2 DEF LastStatementDecides, Password

\* Approved mappings touch nothing that the parser reads.
LEMMA MappingsTouchNothing ==
  IInv => LearnedExplainsOnlyUnknown
  <1> SUFFICES ASSUME IInv, Current PROVE LearnedExplainsOnlyUnknown
    BY DEF LearnedExplainsOnlyUnknown
  <1>1. PICK m : LET p == Parse(vendor, text, m) IN
          /\ Mappings(m) /\ text \in Seq(LineOf(vendor))
          /\ Parsed(vendor, m, text, p)
          /\ normalized.config = p.config /\ normalized.findings = p.findings
          /\ normalized.unknown = p.unknown
    BY CurrentPass
  <1> DEFINE p == Parse(vendor, text, m)
             b == Parse(vendor, text, << >>)
  <1>2. Twin(p, b)
    BY <1>1, MappingsExplain
  <1>3. normalized.findings = p.findings /\ normalized.unknown = p.unknown
    BY <1>1
  <1> HIDE DEF p
  <1>4. Explained(normalized.findings) = Explains(p)
    BY <1>3 DEF Explained, Explains
  <1>5. LET bare == b IN
        /\ ReadByParser(normalized.findings) = ReadByParser(bare.findings)
        /\ Explained(normalized.findings) \cap normalized.unknown = {}
        /\ Explained(normalized.findings) \cup normalized.unknown = bare.unknown
    <2> HIDE DEF b
    <2> QED BY <1>2, <1>3, <1>4 DEF Twin
  <1> QED BY <1>5 DEF LearnedExplainsOnlyUnknown

\* The findings that the verdict of a control may rest on.
LEMMA EvidenceOf ==
  ASSUME NEW r, NEW i \in DOMAIN r.fields
  PROVE  LET f == r.fields[i] IN
         /\ f = "interfaces" => "interfaces.cdp_disabled" \in Evidence(r)
         /\ f = "policies" => "firewall_policies.action" \in Evidence(r)
         /\ f = "service_hardening.http_server_disabled" =>
              {f, "service_hardening.http_secure_server_enabled"} \subseteq Evidence(r)
         /\ f \notin {"interfaces", "policies"} => f \in Evidence(r)
  <1> DEFINE f == r.fields[i]
             E(g) == CASE g = "interfaces" -> {"interfaces.cdp_disabled"}
                       [] g = "policies" -> {"firewall_policies.action"}
                       [] g = "service_hardening.http_server_disabled" ->
                            {g, "service_hardening.http_secure_server_enabled"}
                       [] OTHER -> {g}
  <1>1. Evidence(r) = UNION {E(g) : g \in Range(r.fields)}
    BY DEF Evidence
  <1>2. f \in Range(r.fields)
    BY DEF Range
  <1>3. /\ f = "interfaces" => E(f) = {"interfaces.cdp_disabled"}
        /\ f = "policies" => E(f) = {"firewall_policies.action"}
        /\ f = "service_hardening.http_server_disabled" =>
             E(f) = {f, "service_hardening.http_secure_server_enabled"}
        /\ f \notin {"interfaces", "policies", "service_hardening.http_server_disabled"}
             => E(f) = {f}
    <2> HIDE DEF f
    <2>1. CASE f = "interfaces"
      BY <2>1
    <2>2. CASE f = "policies"
      BY <2>2
    <2>3. CASE f = "service_hardening.http_server_disabled"
      BY <2>3
    <2>4. CASE f \notin {"interfaces", "policies", "service_hardening.http_server_disabled"}
      BY <2>4
    <2> QED BY <2>1, <2>2, <2>3, <2>4
  <1> HIDE DEF E, f
  <1>4. E(f) \subseteq Evidence(r)
    BY <1>1, <1>2
  <1> QED BY <1>3, <1>4 DEF f

\* The other fields that JunOS and FortiOS conclude are not what a control reads alone.
LEMMA ConcludedRead ==
  ASSUME NEW v, NEW r, Row(v, r), r.test # "no_evidence", NEW i \in DOMAIN r.fields,
         r.fields[i] \in ScalarFields
  PROVE  /\ v = "fortinet" => r.fields[i] \notin Facts
         /\ r.fields[i] = "snmp.default_communities_removed" =>
              \E j \in DOMAIN r.fields : r.fields[j] = "snmp.v3_only"
  <1>1. /\ ListFields \cap ScalarFields = {}
        /\ "interfaces" \notin ScalarFields /\ "policies" \notin ScalarFields
        /\ "snmp.default_communities_removed" \notin Singles /\ Singles \subseteq ScalarFields
        /\ {"ntp.enabled", "ntp.servers", "cdp.global_disabled"} \cap Facts = {}
        /\ "snmp.default_communities_removed" \in Facts
    BY DEF ListFields, ScalarFields, BooleanFields, NumberFields, TextFields, Singles, Facts
  <1>2. CASE \E f \in Singles : r.fields = <<f>> /\ (v = "fortinet" => f \notin Facts)
    BY <1>1, <1>2
  <1>3. CASE v # "fortinet" /\ \E f \in Singles, g \in ScalarFields :
               /\ r.fields = <<f, g>>
               /\ g = "snmp.default_communities_removed" => f = "snmp.v3_only"
    <2>1. PICK f \in Singles, g \in ScalarFields :
            /\ r.fields = <<f, g>>
            /\ g = "snmp.default_communities_removed" => f = "snmp.v3_only"
      BY <1>3
    <2>2. DOMAIN r.fields = {1, 2} /\ r.fields[1] = f /\ r.fields[2] = g
      BY <2>1
    <2> QED BY <1>1, <1>3, <2>1, <2>2
  <1>4. CASE \E f \in ListFields : r.fields = <<f>>
    BY <1>1, <1>4
  <1>5. CASE r.fields = <<"ntp.enabled", "ntp.servers">>
    BY <1>1, <1>5
  <1>6. CASE r.fields = <<"cdp.global_disabled", "interfaces">>
    BY <1>1, <1>6
  <1>7. CASE r.fields = <<"policies">>
    BY <1>1, <1>7
  <1> QED BY <1>2, <1>3, <1>4, <1>5, <1>6, <1>7 DEF Row

\* What was observed was found on a line of the text.
LEMMA ObservedFound ==
  ASSUME NEW v, NEW r, Row(v, r), r.test # "no_evidence",
         NEW p, Sourced(v, p), IsConfig(p.config), Observed(r, p.config)
  PROVE  \E f \in Evidence(r) : f \in FieldsIn(p)
  <1>1. /\ "interfaces" \notin ScalarFields /\ "policies" \notin ScalarFields
        /\ "interfaces" \notin ListFields /\ "policies" \notin ListFields
    BY DEF ListFields, ScalarFields, BooleanFields, NumberFields, TextFields
  <1>2. ASSUME NEW i \in DOMAIN r.fields, Get(p.config, r.fields[i]) # Unset
        PROVE  \E f \in Evidence(r) : f \in FieldsIn(p)
    <2> DEFINE f == r.fields[i]
    <2>1. f \in DOMAIN p.config.scalars
      BY <1>2 DEF Get
    <2>2. f \in ScalarFields
      BY <2>1 DEF IsConfig
    <2>3. f \in Evidence(r)
      BY <1>1, <2>2, EvidenceOf
    <2>4. /\ v = "fortinet" => f \notin Facts
          /\ f = "snmp.default_communities_removed" =>
               \E j \in DOMAIN r.fields : r.fields[j] = "snmp.v3_only"
      BY <2>2, ConcludedRead
    <2>5. f = "service_hardening.http_server_disabled" =>
            "service_hardening.http_secure_server_enabled" \in Evidence(r)
      BY EvidenceOf
    <2>6. \A j \in DOMAIN r.fields : r.fields[j] = "snmp.v3_only" =>
            "snmp.v3_only" \in Evidence(r)
      BY EvidenceOf
    <2> HIDE DEF f
    <2> QED BY <2>1, <2>3, <2>4, <2>5, <2>6 DEF Sourced
  <1>3. ASSUME NEW i \in DOMAIN r.fields, r.fields[i] \in ListFields,
               p.config.lists[r.fields[i]] # {}
        PROVE  \E f \in Evidence(r) : f \in FieldsIn(p)
    BY <1>1, <1>3, EvidenceOf DEF Sourced
  <1>4. ASSUME r.test = "cdp", \E i \in DOMAIN p.config.interfaces :
                                 p.config.interfaces[i] # Unset
        PROVE  \E f \in Evidence(r) : f \in FieldsIn(p)
    <2>1. r.fields = <<"cdp.global_disabled", "interfaces">>
      BY <1>4 DEF Row
    <2>2. 2 \in DOMAIN r.fields /\ r.fields[2] = "interfaces"
      BY <2>1
    <2>3. "interfaces.cdp_disabled" \in Evidence(r)
      BY <2>2, EvidenceOf
    <2> QED BY <1>4, <2>3 DEF Sourced
  <1>5. ASSUME r.test = "policies", \E i \in DOMAIN p.config.policies :
                                      p.config.policies[i].accept
        PROVE  \E f \in Evidence(r) : f \in FieldsIn(p)
    <2>1. r.fields = <<"policies">>
      BY <1>5 DEF Row
    <2>2. 1 \in DOMAIN r.fields /\ r.fields[1] = "policies"
      BY <2>1
    <2>3. "firewall_policies.action" \in Evidence(r)
      BY <2>2, EvidenceOf
    <2> QED BY <1>5, <2>3 DEF Sourced
  <1> QED BY <1>2, <1>3, <1>4, <1>5 DEF Observed

\* No verdict without a line of the text that says something about it.
LEMMA VerdictsRest ==
  IInv => VerdictHasEvidence
  <1> DEFINE a == LastAudit
             S == GetControls(a.framework, vendor)
             c == normalized.config
  <1> SUFFICES ASSUME IInv, Current, a.status = "complete", NEW r \in S,
                      [framework |-> a.framework, id |-> r.id, verdict |-> NA]
                        \notin a.results
               PROVE  \E f \in Evidence(r) : FindingsOf(f) # {}
    BY DEF VerdictHasEvidence
  <1>1. a.framework \in Frameworks
    <2>1. audits \in Seq(AuditRow) /\ audits # << >>
      BY DEF IInv, AuditsInv, Current
    <2>2. a \in AuditRow
      BY <2>1 DEF LastAudit
    <2> QED BY <2>2 DEF AuditRow
  <1>2. a.results
          = {[framework |-> a.framework, id |-> x.id, verdict |-> Verdict(x, c)] : x \in S}
    BY DEF IInv, LastInv, Evaluate, Current
  <1>3. Row(vendor, r)
    BY <1>1, Catalogues DEF Catalogue
  <1> HIDE DEF a, S, c
  <1>4. Verdict(r, c) # NA
    BY <1>2
  <1>5. Observed(r, c) /\ r.test # "no_evidence"
    <2>1. Observed(r, c)
      BY <1>3, <1>4, RowJudges DEF Judges
    <2>2. r.test = "no_evidence" => Verdict(r, c) = NA
      BY DEF Verdict
    <2> QED BY <1>4, <2>1, <2>2
  <1>6. PICK m : LET p == Parse(vendor, text, m) IN
          /\ Mappings(m) /\ text \in Seq(LineOf(vendor))
          /\ Parsed(vendor, m, text, p)
          /\ normalized.config = p.config /\ normalized.findings = p.findings
          /\ normalized.unknown = p.unknown
    BY CurrentPass
  <1> DEFINE p == Parse(vendor, text, m)
  <1>7. Sourced(vendor, p) /\ IsConfig(p.config)
    BY <1>6 DEF Parsed, IsParse
  <1>8. c = p.config /\ FieldsIn(p) = FieldsIn(normalized)
    BY <1>6 DEF c, FieldsIn
  <1> HIDE DEF p
  <1>9. \E f \in Evidence(r) : f \in FieldsIn(p)
    BY <1>3, <1>5, <1>7, <1>8, ObservedFound
  <1> QED BY <1>8, <1>9, FoundFields

\* A request is refused or gets a framework that the vendor has.
Served(f, v) == f = Rejected \/ Supported(f, v)

\* So it is by an import.
LEMMA ImportServes ==
  ASSUME NEW v, NEW f
  PROVE  Served(DiscoveryImport(v, f), v)
  BY DEF DefaultGeneric, DiscoveryImport, Served, Supported

\* So it is by every way in but the pull of a discovered neighbour.
LEMMA WayServes ==
  ASSUME NEW way \in Ways \ {"pull discovered"}, NEW f
  PROVE  Served(FrameworkFor(way, vendor, f), vendor)
  <1> DEFINE v == vendor
  <1>1. way \in {"upload one", "upload many", "pull", "import"}
    BY BoundsAssumption, Zenon
  <1>2. Served(DefaultFramework(v), v) /\ Served(DefaultGeneric, v) /\ Served(Rejected, v)
    BY DEF DefaultFramework, DefaultGeneric, Supported, Served
  <1>3. Served(UploadOne(v, f), v)
    BY <1>2 DEF UploadOne, Served
  <1>4. Served(UploadMany(v, f), v)
    BY <1>2 DEF UploadMany, Served, Supported
  <1>5. Served(PullDevice(v, f), v)
    BY DEF PullDevice, Served
  <1>6. Served(DiscoveryImport(v, f), v)
    BY ImportServes
  <1>7. FrameworkFor(way, v, f)
          \in {UploadOne(v, f), UploadMany(v, f), PullDevice(v, f), DiscoveryImport(v, f)}
    BY <1>1, Zenon DEF FrameworkFor
  <1> QED BY <1>3, <1>4, <1>5, <1>6, <1>7

\* A completed audit is of a framework that its vendor has.
CompleteInv ==
  \A i \in 1 .. Len(audits) :
    audits[i].status = "complete" => Supported(audits[i].framework, vendor)

\* A pass completes only such an audit; a request and an approval complete none.
LEMMA CompleteKept ==
  ASSUME IInv, CompleteInv, [Next]_vars
  PROVE  CompleteInv'
  <1> DEFINE k == Len(audits)
  <1>2. audits \in Seq(AuditRow) /\ k \in Nat
    BY DEF IInv, AuditsInv
  <1>3. CASE RunAudit
    <2> DEFINE p == Parse(vendor, text, learned)
               x == Outcome(audits[k], p)
    <2>1. /\ k \in 1 .. Len(audits) /\ audits' = [audits EXCEPT ![k] = x]
          /\ vendor' = vendor
      BY <1>2, <1>3 DEF RunAudit, Settled
    <2>2. audits[k] \in AuditRow /\ vendor \in Vendors
      BY <1>2, <2>1 DEF IInv, TextInv
    <2> HIDE DEF p
    <2>3. x \in AuditRow /\ x.framework = audits[k].framework
      BY <2>2, OutcomeRow
    <2>4. x.status = "complete" => Supported(audits[k].framework, vendor)
      <3>1. CASE p.unknown # {}
        BY <2>2, <3>1, OutcomeRow
      <3>2. CASE p.unknown = {} /\ ~Supported(audits[k].framework, vendor)
        <4>1. x = [audits[k] EXCEPT !.status = "failed"]
          BY <3>2 DEF Outcome
        <4> HIDE DEF x
        <4>2. x.status = "failed"
          BY <2>2, <4>1 DEF AuditRow
        <4> QED BY <4>2
      <3> QED BY <3>1, <3>2
    <2> HIDE DEF x
    <2>5. /\ Len(audits') = k /\ audits'[k] = x
          /\ \A i \in 1 .. k : i # k => audits'[i] = audits[i]
      BY <1>2, <2>1, <2>3, ReplacedRow
    <2> QED BY <2>1, <2>3, <2>4, <2>5 DEF CompleteInv
  <1>4. ASSUME NEW piece \in Fragments[vendor], Configure(piece) PROVE CompleteInv'
    BY <1>4 DEF Configure, CompleteInv
  <1>5. ASSUME NEW way \in Ways, NEW f \in Requests, Submit(way, f) PROVE CompleteInv'
    <2> DEFINE x == [framework |-> FrameworkFor(way, vendor, f), status |-> "queued",
                     results |-> {}, score |-> Unset]
    <2>1. audits' = Append(audits, x) /\ vendor' = vendor
      BY <1>5 DEF Submit
    <2>2. x.status # "complete"
      OBVIOUS
    <2> HIDE DEF x
    <2>3. /\ Len(audits') = k + 1 /\ audits'[k + 1] = x
          /\ \A i \in 1 .. k : audits'[i] = audits[i]
      BY <1>2, <2>1
    <2> QED BY <1>2, <2>1, <2>2, <2>3 DEF CompleteInv
  <1>6. ASSUME NEW n \in pending, NEW r \in Approvals, ApproveTraining(n, r)
        PROVE  CompleteInv'
    <2> DEFINE x == [audits[k] EXCEPT !.status = "normalising"]
    <2>1. /\ k \in 1 .. Len(audits) /\ vendor' = vendor
          /\ audits' = [audits EXCEPT ![k].status = "normalising"] \/ audits' = audits
      BY <1>2, <1>6 DEF ApproveTraining, Settled
    <2>2. audits[k] \in AuditRow
      BY <1>2, <2>1
    <2>3. x \in AuditRow /\ x.status = "normalising"
      <3>1. "normalising" \in Statuses
        BY DEF Statuses
      <3> QED BY <2>2, <3>1 DEF AuditRow
    <2>4. audits' = [audits EXCEPT ![k] = x] \/ audits' = audits
      BY <2>1
    <2> HIDE DEF x
    <2>5. CASE audits' = [audits EXCEPT ![k] = x]
      <3>1. /\ Len(audits') = k /\ audits'[k] = x
            /\ \A i \in 1 .. k : i # k => audits'[i] = audits[i]
        BY <1>2, <2>1, <2>3, <2>5, ReplacedRow
      <3> QED BY <2>1, <2>3, <3>1 DEF CompleteInv
    <2>6. CASE audits' = audits
      BY <2>1, <2>6 DEF CompleteInv
    <2> QED BY <2>4, <2>5, <2>6
  <1>7. ASSUME NEW i \in 1 .. MaxAudits, SetBaseline(i) PROVE CompleteInv'
    BY <1>7 DEF SetBaseline, CompleteInv
  <1>8. CASE UNCHANGED vars
    BY <1>8 DEF vars, CompleteInv
  <1> QED BY <1>3, <1>4, <1>5, <1>6, <1>7, <1>8 DEF Next

\* An audit of a catalogue that failed has a mapping of the wrong type among the
\* approved ones.
LEMMA FailuresMistyped ==
  IInv /\ CompleteInv => FailsOnlyByMistyping
  <1> SUFFICES ASSUME IInv, CompleteInv PROVE FailsOnlyByMistyping
    OBVIOUS
  <1>1. ASSUME NEW way \in Ways \ {"pull discovered"}, NEW f \in Requests,
               FrameworkFor(way, vendor, f) # Rejected
        PROVE  Supported(FrameworkFor(way, vendor, f), vendor)
    BY <1>1, WayServes, Zenon DEF Served
  <1>2. ASSUME NEW i \in DOMAIN audits
        PROVE  /\ Supported(audits[i].framework, vendor) /\ audits[i].status = "failed" =>
                    \E k \in DOMAIN learned : learned[k].value = Mistyped
               /\ ~Supported(audits[i].framework, vendor) => audits[i].status # "complete"
    <2>1. audits \in Seq(AuditRow)
      BY DEF IInv, AuditsInv
    <2>2. i \in 1 .. Len(audits)
      BY <1>2, <2>1
    <2>3. audits[i].status = "failed" /\ Supported(audits[i].framework, vendor) =>
            \E k \in Keys(vendor, learned) : learned[k].value = Mistyped
      BY <2>2 DEF IInv, FailedInv
    <2>4. audits[i].status = "complete" => Supported(audits[i].framework, vendor)
      BY <2>2 DEF CompleteInv
    <2> QED BY <2>3, <2>4 DEF Keys
  <1> QED BY <1>1, <1>2, Zenon DEF FailsOnlyByMistyping

\* A baseline is a completed audit, a completed audit has one result per control and a
\* score, one that waits has a line to train, and the lines left are lines of the text.
THEOREM AlwaysTypeOK ==
  Spec => []TypeOK
  BY AlwaysIInv, RowsStored, PTL

\* A pass over the text loses no line: whatever the vendor, the text and the mappings,
\* a line that says something is understood or kept for training, and never both.
THEOREM AlwaysAccounted ==
  Spec => []EveryLineAccounted
  BY AlwaysIInv, LinesAccounted, PTL

\* A setting stated more than once is the one stated last, and of the stored passwords
\* of FortiOS administrators the weakest decides.
THEOREM AlwaysLastDecides ==
  Spec => []LastStatementDecides
  BY AlwaysIInv, LastDecides, PTL

\* No control of any catalogue passes or fails without a line that says something of it.
THEOREM AlwaysEvidence ==
  Spec => []VerdictHasEvidence
  BY AlwaysIInv, VerdictsRest, PTL

\* Approved mappings explain lines the parser does not know and touch no other.
THEOREM AlwaysOnlyUnknown ==
  Spec => []LearnedExplainsOnlyUnknown
  BY AlwaysIInv, MappingsTouchNothing, PTL

\* The drift report accounts for every failure of the two audits it compares.
THEOREM AlwaysDriftAccounts ==
  Spec => []DriftAccounts
  BY AlwaysIInv, DriftComplete, PTL

\* Every way in but the pull of a discovered neighbour refuses a framework that has no
\* catalogue for the vendor; the audit of one that has fails only over an approved value
\* of the wrong type, and the audit of one that has none never completes.
THEOREM AlwaysMistyped ==
  Spec => []FailsOnlyByMistyping
  <1>1. Init => CompleteInv
    <2> SUFFICES ASSUME Init PROVE CompleteInv
      OBVIOUS
    <2>1. Len(audits) = 0
      BY DEF Init
    <2> QED BY <2>1 DEF CompleteInv
  <1>2. IInv /\ CompleteInv /\ [Next]_vars => CompleteInv'
    BY CompleteKept
  <1> QED BY <1>1, <1>2, AlwaysIInv, FailuresMistyped, PTL DEF Spec

-----------------------------------------------------------------------------
(* The templates.                                                          *)

\* No key of a dictionary has two values.
Functional(rows) == \A r, q \in rows : r[1] = q[1] => r[2] = q[2]

\* So each of its rows is what it holds.
LEMMA DictRow ==
  ASSUME NEW rows, Functional(rows), NEW k, NEW x, <<k, x>> \in rows
  PROVE  k \in DOMAIN Dict(rows) /\ Dict(rows)[k] = x
  <1>1. <<k, x>>[1] = k /\ <<k, x>>[2] = x
    OBVIOUS
  <1>2. k \in {r[1] : r \in rows}
    BY <1>1
  <1>3. k \in DOMAIN Dict(rows)
    BY <1>2 DEF Dict
  <1>4. PICK r \in rows : r[1] = k /\ Dict(rows)[k] = r[2]
    BY <1>3, DictRows
  <1>5. r[2] = x
    BY <1>1, <1>4 DEF Functional
  <1> QED BY <1>3, <1>4, <1>5

\* A statement that switches this setting to this value when not negated, one that
\* gives it its number, and one that opens its banner.
Switches(t, f, x) == t \in DOMAIN Toggles /\ Toggles[t] = <<f, x>>
Counts(t, f) == t \in DOMAIN Numbers /\ Numbers[t] = f
Greets(t, f) == t \in DOMAIN Banners /\ Banners[t] = f

\* The statements that switch a setting.
LEMMA TogglesHold ==
  /\ Switches("service password-encryption", "service_hardening.password_encryption", Yes)
  /\ Switches("service finger", "service_hardening.finger_disabled", No)
  /\ Switches("service tcp-small-servers", "service_hardening.tcp_small_servers_disabled", No)
  /\ Switches("service udp-small-servers", "service_hardening.udp_small_servers_disabled", No)
  /\ Switches("ip bootp server", "service_hardening.bootp_server_disabled", No)
  /\ Switches("ip http server", "service_hardening.http_server_disabled", No)
  /\ Switches("ip http secure-server", "service_hardening.http_secure_server_enabled", Yes)
  /\ Switches("ip source-route", "access_control.source_route_disabled", No)
  /\ Switches("cdp run", "cdp.global_disabled", No)
  /\ Switches("aaa new-model", "aaa.new_model", Yes)
  /\ Switches("service timestamps log", "logging.timestamps_enabled", Yes)
  <1> DEFINE
    k1 == "service password-encryption"
    k2 == "service finger"
    k3 == "service tcp-small-servers"
    k4 == "service udp-small-servers"
    k5 == "ip bootp server"
    k6 == "ip http server"
    k7 == "ip http secure-server"
    k8 == "ip source-route"
    k9 == "cdp run"
    k10 == "aaa new-model"
    k11 == "ntp authenticate"
    k12 == "service timestamps log"
    rows ==
      {<<k1, <<"service_hardening.password_encryption", Yes>> >>,
       <<k2, <<"service_hardening.finger_disabled", No>> >>,
       <<k3, <<"service_hardening.tcp_small_servers_disabled", No>> >>,
       <<k4, <<"service_hardening.udp_small_servers_disabled", No>> >>,
       <<k5, <<"service_hardening.bootp_server_disabled", No>> >>,
       <<k6, <<"service_hardening.http_server_disabled", No>> >>,
       <<k7, <<"service_hardening.http_secure_server_enabled", Yes>> >>,
       <<k8, <<"access_control.source_route_disabled", No>> >>,
       <<k9, <<"cdp.global_disabled", No>> >>,
       <<k10, <<"aaa.new_model", Yes>> >>,
       <<k11, <<"ntp.authenticate", Yes>> >>,
       <<k12, <<"logging.timestamps_enabled", Yes>> >>}
  <1>1. Toggles = Dict(rows)
    BY DEF Toggles
  <1>2. /\ k1 # k2 /\ k1 # k3 /\ k1 # k4 /\ k1 # k5 /\ k1 # k6 /\ k1 # k7 /\ k1 # k8
        /\ k1 # k9 /\ k1 # k10 /\ k1 # k11 /\ k1 # k12 /\ k2 # k3 /\ k2 # k4 /\ k2 # k5
        /\ k2 # k6 /\ k2 # k7 /\ k2 # k8 /\ k2 # k9 /\ k2 # k10 /\ k2 # k11 /\ k2 # k12
        /\ k3 # k4 /\ k3 # k5 /\ k3 # k6 /\ k3 # k7 /\ k3 # k8 /\ k3 # k9 /\ k3 # k10
        /\ k3 # k11 /\ k3 # k12 /\ k4 # k5 /\ k4 # k6 /\ k4 # k7 /\ k4 # k8 /\ k4 # k9
        /\ k4 # k10 /\ k4 # k11 /\ k4 # k12 /\ k5 # k6 /\ k5 # k7 /\ k5 # k8 /\ k5 # k9
        /\ k5 # k10 /\ k5 # k11 /\ k5 # k12 /\ k6 # k7 /\ k6 # k8 /\ k6 # k9 /\ k6 # k10
        /\ k6 # k11 /\ k6 # k12 /\ k7 # k8 /\ k7 # k9 /\ k7 # k10 /\ k7 # k11 /\ k7 # k12
        /\ k8 # k9 /\ k8 # k10 /\ k8 # k11 /\ k8 # k12 /\ k9 # k10 /\ k9 # k11 /\ k9 # k12
        /\ k10 # k11 /\ k10 # k12 /\ k11 # k12
    BY Zenon
  <1> HIDE DEF k1, k2, k3, k4, k5, k6, k7, k8, k9, k10, k11, k12
  <1>3. Functional(rows)
    BY <1>2 DEF Functional
  <1>4. /\ <<k1, <<"service_hardening.password_encryption", Yes>> >> \in rows
        /\ <<k2, <<"service_hardening.finger_disabled", No>> >> \in rows
        /\ <<k3, <<"service_hardening.tcp_small_servers_disabled", No>> >> \in rows
        /\ <<k4, <<"service_hardening.udp_small_servers_disabled", No>> >> \in rows
        /\ <<k5, <<"service_hardening.bootp_server_disabled", No>> >> \in rows
        /\ <<k6, <<"service_hardening.http_server_disabled", No>> >> \in rows
        /\ <<k7, <<"service_hardening.http_secure_server_enabled", Yes>> >> \in rows
        /\ <<k8, <<"access_control.source_route_disabled", No>> >> \in rows
        /\ <<k9, <<"cdp.global_disabled", No>> >> \in rows
        /\ <<k10, <<"aaa.new_model", Yes>> >> \in rows
        /\ <<k12, <<"logging.timestamps_enabled", Yes>> >> \in rows
    OBVIOUS
  <1> HIDE DEF rows
  <1>5. \A k, x : <<k, x>> \in rows => k \in DOMAIN Dict(rows) /\ Dict(rows)[k] = x
    BY <1>3, DictRow
  <1>6. /\ Switches(k1, "service_hardening.password_encryption", Yes)
        /\ Switches(k2, "service_hardening.finger_disabled", No)
        /\ Switches(k3, "service_hardening.tcp_small_servers_disabled", No)
        /\ Switches(k4, "service_hardening.udp_small_servers_disabled", No)
        /\ Switches(k5, "service_hardening.bootp_server_disabled", No)
        /\ Switches(k6, "service_hardening.http_server_disabled", No)
        /\ Switches(k7, "service_hardening.http_secure_server_enabled", Yes)
        /\ Switches(k8, "access_control.source_route_disabled", No)
        /\ Switches(k9, "cdp.global_disabled", No)
        /\ Switches(k10, "aaa.new_model", Yes)
        /\ Switches(k12, "logging.timestamps_enabled", Yes)
    BY <1>1, <1>4, <1>5 DEF Switches
  <1> QED BY <1>6, Zenon DEF k1, k2, k3, k4, k5, k6, k7, k8, k9, k10, k12

\* The statements that give a setting its number.
LEMMA NumbersHold ==
  /\ Counts("enable secret", "device_info.enable_secret_type")
  /\ Counts("ip ssh version", "ssh.version")
  /\ Counts("ip ssh time-out", "ssh.timeout_seconds")
  /\ Counts("ip ssh authentication-retries", "ssh.auth_retries")
  /\ Counts("logging buffered", "logging.buffered_size")
  <1> DEFINE
    k1 == "enable secret"
    k2 == "ip ssh version"
    k3 == "ip ssh time-out"
    k4 == "ip ssh authentication-retries"
    k5 == "logging buffered"
    rows ==
      {<<k1, "device_info.enable_secret_type">>,
       <<k2, "ssh.version">>,
       <<k3, "ssh.timeout_seconds">>,
       <<k4, "ssh.auth_retries">>,
       <<k5, "logging.buffered_size">>}
  <1>1. Numbers = Dict(rows)
    BY DEF Numbers
  <1>2. /\ k1 # k2 /\ k1 # k3 /\ k1 # k4 /\ k1 # k5 /\ k2 # k3 /\ k2 # k4 /\ k2 # k5
        /\ k3 # k4 /\ k3 # k5 /\ k4 # k5
    BY Zenon
  <1> HIDE DEF k1, k2, k3, k4, k5
  <1>3. Functional(rows)
    BY <1>2 DEF Functional
  <1>4. /\ <<k1, "device_info.enable_secret_type">> \in rows
        /\ <<k2, "ssh.version">> \in rows
        /\ <<k3, "ssh.timeout_seconds">> \in rows
        /\ <<k4, "ssh.auth_retries">> \in rows
        /\ <<k5, "logging.buffered_size">> \in rows
    OBVIOUS
  <1> HIDE DEF rows
  <1>5. \A k, x : <<k, x>> \in rows => k \in DOMAIN Dict(rows) /\ Dict(rows)[k] = x
    BY <1>3, DictRow
  <1>6. /\ Counts(k1, "device_info.enable_secret_type")
        /\ Counts(k2, "ssh.version")
        /\ Counts(k3, "ssh.timeout_seconds")
        /\ Counts(k4, "ssh.auth_retries")
        /\ Counts(k5, "logging.buffered_size")
    BY <1>1, <1>4, <1>5 DEF Counts
  <1> QED BY <1>6, Zenon DEF k1, k2, k3, k4, k5

\* The statements that open a banner.
LEMMA BannersHold ==
  /\ Greets("banner motd", "access_control.banner_motd")
  /\ Greets("banner login", "access_control.banner_login")
  <1> DEFINE
    k1 == "banner motd"
    k2 == "banner login"
    rows ==
      {<<k1, "access_control.banner_motd">>,
       <<k2, "access_control.banner_login">>}
  <1>1. Banners = Dict(rows)
    BY DEF Banners
  <1>2. /\ k1 # k2
    BY Zenon
  <1> HIDE DEF k1, k2
  <1>3. Functional(rows)
    BY <1>2 DEF Functional
  <1>4. /\ <<k1, "access_control.banner_motd">> \in rows
        /\ <<k2, "access_control.banner_login">> \in rows
    OBVIOUS
  <1> HIDE DEF rows
  <1>5. \A k, x : <<k, x>> \in rows => k \in DOMAIN Dict(rows) /\ Dict(rows)[k] = x
    BY <1>3, DictRow
  <1>6. /\ Greets(k1, "access_control.banner_motd")
        /\ Greets(k2, "access_control.banner_login")
    BY <1>1, <1>4, <1>5 DEF Greets
  <1> QED BY <1>6, Zenon DEF k1, k2

\* The rows of a dictionary are all there is to look up.
LEMMA LookedUp ==
  ASSUME NEW rows, Functional(rows)
  PROVE  /\ \A k, x : <<k, x>> \in rows => k \in DOMAIN Dict(rows) /\ Dict(rows)[k] = x
         /\ \A k : (\A r \in rows : r[1] # k) => k \notin DOMAIN Dict(rows)
  <1>1. ASSUME NEW k, NEW x, <<k, x>> \in rows
        PROVE  k \in DOMAIN Dict(rows) /\ Dict(rows)[k] = x
    BY <1>1, DictRow
  <1>2. ASSUME NEW k, \A r \in rows : r[1] # k PROVE k \notin DOMAIN Dict(rows)
    BY <1>2, DictRows
  <1> QED BY <1>1, <1>2

\* The number of Cisco's own catalogue that a reference stands for.
Named(ref, num) ==
  (IF ref \in DOMAIN CiscoCanonical THEN CiscoCanonical[ref] ELSE ref) = num

CiscoNumbered ==
  {"1.1.1", "1.1.2", "1.2.1", "1.2.2", "1.2.3", "1.2.4", "1.2.5", "1.2.6", "1.3.1",
   "1.4.1", "1.5.1", "1.5.2", "1.5.3", "1.5.4", "1.5.5", "1.5.6", "1.6.1", "1.6.2", "1.7.1",
   "1.8.1", "1.9.1", "1.10.1", "services.minimal", "ntp.authenticate"}

\* The references of the other catalogues have one, and a number stands for itself.
LEMMA CiscoNumbers ==
  /\ Named("credential.secure_hash", "1.1.2")
  /\ Named("password.encryption", "1.1.1")
  /\ Named("http.disabled", "1.2.2")
  /\ Named("banner.login", "1.4.1")
  /\ Named("ssh.version", "1.5.4")
  /\ Named("ssh.only", "1.5.3")
  /\ Named("session.timeout", "1.5.2")
  /\ Named("logging.enabled", "1.6.2")
  /\ Named("logging.buffer", "1.6.1")
  /\ Named("ntp.servers", "1.7.1")
  /\ Named("snmp.v3", "1.8.1")
  /\ Named("aaa.enabled", "1.9.1")
  /\ Named("discovery.disabled", "1.10.1")
  /\ \A ref \in CiscoNumbered : Named(ref, ref)
  <1> DEFINE
    rows ==
      {<<"credential.secure_hash", "1.1.2">>,
       <<"password.encryption", "1.1.1">>,
       <<"http.disabled", "1.2.2">>,
       <<"banner.login", "1.4.1">>,
       <<"ssh.version", "1.5.4">>,
       <<"ssh.only", "1.5.3">>,
       <<"session.timeout", "1.5.2">>,
       <<"logging.enabled", "1.6.2">>,
       <<"logging.buffer", "1.6.1">>,
       <<"ntp.servers", "1.7.1">>,
       <<"snmp.v3", "1.8.1">>,
       <<"aaa.enabled", "1.9.1">>,
       <<"discovery.disabled", "1.10.1">>}
  <1>1. CiscoCanonical = Dict(rows)
    BY DEF CiscoCanonical
  <1>2. Functional(rows)
    BY DEF Functional
  <1>3. \A ref \in CiscoNumbered : \A r \in rows : r[1] # ref
    BY DEF CiscoNumbered
  <1>4. /\ <<"credential.secure_hash", "1.1.2">> \in rows
        /\ <<"password.encryption", "1.1.1">> \in rows
        /\ <<"http.disabled", "1.2.2">> \in rows
        /\ <<"banner.login", "1.4.1">> \in rows
        /\ <<"ssh.version", "1.5.4">> \in rows
        /\ <<"ssh.only", "1.5.3">> \in rows
        /\ <<"session.timeout", "1.5.2">> \in rows
        /\ <<"logging.enabled", "1.6.2">> \in rows
        /\ <<"logging.buffer", "1.6.1">> \in rows
        /\ <<"ntp.servers", "1.7.1">> \in rows
        /\ <<"snmp.v3", "1.8.1">> \in rows
        /\ <<"aaa.enabled", "1.9.1">> \in rows
        /\ <<"discovery.disabled", "1.10.1">> \in rows
    OBVIOUS
  <1> HIDE DEF rows
  <1>5. \A ref \in CiscoNumbered : Named(ref, ref)
    BY <1>1, <1>2, <1>3, LookedUp DEF Named
  <1>6. \A k, x : <<k, x>> \in rows => Named(k, x)
    BY <1>1, <1>2, LookedUp DEF Named
  <1>7. /\ Named("credential.secure_hash", "1.1.2")
        /\ Named("password.encryption", "1.1.1")
        /\ Named("http.disabled", "1.2.2")
        /\ Named("banner.login", "1.4.1")
        /\ Named("ssh.version", "1.5.4")
        /\ Named("ssh.only", "1.5.3")
        /\ Named("session.timeout", "1.5.2")
        /\ Named("logging.enabled", "1.6.2")
        /\ Named("logging.buffer", "1.6.1")
        /\ Named("ntp.servers", "1.7.1")
        /\ Named("snmp.v3", "1.8.1")
        /\ Named("aaa.enabled", "1.9.1")
        /\ Named("discovery.disabled", "1.10.1")
    BY <1>4, <1>6
  <1> QED BY <1>5, <1>7

\* What the templates of Cisco show.
EncryptPasswords == <<Line("service password-encryption")>>
HashSecret == <<NumLine("enable secret", 9)>>
HttpsOn == <<Line("ip http secure-server")>>
BothGreetings ==
  <<[NumLine("banner motd", Yes) EXCEPT !.words = {Delimiter}],
    [NumLine("banner login", Yes) EXCEPT !.words = {Delimiter}]>>
ConsoleTimeout == <<Line("line console"), NumLine("exec-timeout", 600)>>
VtyTimeout == <<VtyLines, NumLine("exec-timeout", 600)>>
VtySsh == <<VtyLines, WordLine("transport input", {"ssh"})>>
SshTwo == <<NumLine("ip ssh version", 2)>>
SshTimeout == <<NumLine("ip ssh time-out", 60)>>
SshRetries == <<NumLine("ip ssh authentication-retries", 3)>>
LogBuffer == <<NumLine("logging buffered", 64000)>>
LogStamps == <<Line("service timestamps log")>>
NtpServer == <<WordLine("ntp server", {"NTP_SERVER_ADDRESS"})>>
NewModel == <<Line("aaa new-model")>>

\* Those of Cisco that take statements away.
FingerOff == Takes(NoLine("service finger"))
HttpOff == Takes(NoLine("ip http server"))
TcpSmallOff == Takes(NoLine("service tcp-small-servers"))
UdpSmallOff == Takes(NoLine("service udp-small-servers"))
BootpOff == Takes(NoLine("ip bootp server"))
SourceRouteOff == Takes(NoLine("ip source-route"))
NoCommunities ==
  Block({[NoLine("snmp-server community") EXCEPT !.words = {"public"}],
         [NoLine("snmp-server community") EXCEPT !.words = {"private"}]},
        <<Line("snmp-server v3")>>)
CdpOff == Takes(NoLine("cdp run"))

\* What those of JunOS show.
RootHashed == <<RootPassword>>
JunosMessage == <<[Set(<<"system", "login", "message">>) EXCEPT !.n = Yes]>>
JunosSshTwo == <<[Set(SshKnob("protocol-version")) EXCEPT !.n = 2]>>
JunosIdle == <<[Set(<<"system", "login", "idle-timeout">>) EXCEPT !.n = 600]>>
JunosSyslog == <<Set(<<"system", "syslog">>)>>
JunosArchive == <<[Set(<<"system", "syslog", "archive-size">>) EXCEPT !.n = 1048576]>>
JunosNtp == <<[Set(<<"system", "ntp", "server">>) EXCEPT !.words = {"ntp"}]>>
JunosKeys ==
  <<Set(<<"system", "ntp", "authentication-key">>), Set(<<"system", "ntp", "trusted-key">>)>>
JunosAaa == <<Set(<<"system", "authentication-order">>), Set(<<"system", "radius-server">>)>>
JunosLldp == <<Set(<<"protocols", "lldp", "interface", "all", "disable">>)>>

\* Those of JunOS that take statements away, with HttpTemplate.
JunosSshOnly == Block({Delete(Service("telnet"))}, <<Set(Ssh)>>)
JunosCommunities ==
  Block({[Delete(<<"snmp", "community">>) EXCEPT !.words = {"public"}],
         [Delete(<<"snmp", "community">>) EXCEPT !.words = {"private"}]},
        <<Set(<<"snmp", "v3">>)>>)

\* The template that a vendor has for a reference.
Remedy(v, ref, b) == DeterministicRemediation(v, ref) = b

\* Cisco's templates, by number and by the references of the other catalogues.
LEMMA CiscoRemedies ==
  /\ Remedy("cisco", "1.1.1", Shows(EncryptPasswords))
  /\ Remedy("cisco", "1.1.2", Shows(HashSecret))
  /\ Remedy("cisco", "1.2.1", FingerOff)
  /\ Remedy("cisco", "1.2.2", HttpOff)
  /\ Remedy("cisco", "1.2.3", Shows(HttpsOn))
  /\ Remedy("cisco", "1.2.4", TcpSmallOff)
  /\ Remedy("cisco", "1.2.5", UdpSmallOff)
  /\ Remedy("cisco", "1.2.6", BootpOff)
  /\ Remedy("cisco", "1.3.1", SourceRouteOff)
  /\ Remedy("cisco", "1.4.1", Shows(BothGreetings))
  /\ Remedy("cisco", "1.5.1", Shows(ConsoleTimeout))
  /\ Remedy("cisco", "1.5.2", Shows(VtyTimeout))
  /\ Remedy("cisco", "1.5.3", Shows(VtySsh))
  /\ Remedy("cisco", "1.5.4", Shows(SshTwo))
  /\ Remedy("cisco", "1.5.5", Shows(SshTimeout))
  /\ Remedy("cisco", "1.5.6", Shows(SshRetries))
  /\ Remedy("cisco", "1.6.1", Shows(LogBuffer))
  /\ Remedy("cisco", "1.6.2", Shows(LogStamps))
  /\ Remedy("cisco", "1.7.1", Shows(NtpServer))
  /\ Remedy("cisco", "1.8.1", NoCommunities)
  /\ Remedy("cisco", "1.9.1", Shows(NewModel))
  /\ Remedy("cisco", "1.10.1", CdpOff)
  /\ Remedy("cisco", "credential.secure_hash", Shows(HashSecret))
  /\ Remedy("cisco", "password.encryption", Shows(EncryptPasswords))
  /\ Remedy("cisco", "http.disabled", HttpOff)
  /\ Remedy("cisco", "banner.login", Shows(BothGreetings))
  /\ Remedy("cisco", "ssh.version", Shows(SshTwo))
  /\ Remedy("cisco", "ssh.only", Shows(VtySsh))
  /\ Remedy("cisco", "session.timeout", Shows(VtyTimeout))
  /\ Remedy("cisco", "logging.enabled", Shows(LogStamps))
  /\ Remedy("cisco", "logging.buffer", Shows(LogBuffer))
  /\ Remedy("cisco", "ntp.servers", Shows(NtpServer))
  /\ Remedy("cisco", "snmp.v3", NoCommunities)
  /\ Remedy("cisco", "aaa.enabled", Shows(NewModel))
  /\ Remedy("cisco", "discovery.disabled", CdpOff)
  /\ Remedy("cisco", "services.minimal", NoTemplate)
  /\ Remedy("cisco", "ntp.authenticate", NoTemplate)
  <1> DEFINE
    t1 == Shows(<<Line("service password-encryption")>>)
    t2 == Shows(<<NumLine("enable secret", 9)>>)
    t3 == Takes(NoLine("service finger"))
    t4 == Takes(NoLine("ip http server"))
    t5 == Shows(<<Line("ip http secure-server")>>)
    t6 == Takes(NoLine("service tcp-small-servers"))
    t7 == Takes(NoLine("service udp-small-servers"))
    t8 == Takes(NoLine("ip bootp server"))
    t9 == Takes(NoLine("ip source-route"))
    t10 == Shows(<<[NumLine("banner motd", Yes) EXCEPT !.words = {Delimiter}],
    [NumLine("banner login", Yes) EXCEPT !.words = {Delimiter}]>>)
    t11 == Shows(<<Line("line console"), NumLine("exec-timeout", 600)>>)
    t12 == Shows(<<VtyLines, NumLine("exec-timeout", 600)>>)
    t13 == Shows(<<VtyLines, WordLine("transport input", {"ssh"})>>)
    t14 == Shows(<<NumLine("ip ssh version", 2)>>)
    t15 == Shows(<<NumLine("ip ssh time-out", 60)>>)
    t16 == Shows(<<NumLine("ip ssh authentication-retries", 3)>>)
    t17 == Shows(<<NumLine("logging buffered", 64000)>>)
    t18 == Shows(<<Line("service timestamps log")>>)
    t19 == Shows(<<WordLine("ntp server", {"NTP_SERVER_ADDRESS"})>>)
    t20 == Block({[NoLine("snmp-server community") EXCEPT !.words = {"public"}],
         [NoLine("snmp-server community") EXCEPT !.words = {"private"}]},
        <<Line("snmp-server v3")>>)
    t21 == Shows(<<Line("aaa new-model")>>)
    t22 == Takes(NoLine("cdp run"))
    rows ==
      {<<"1.1.1", t1>>,
       <<"1.1.2", t2>>,
       <<"1.2.1", t3>>,
       <<"1.2.2", t4>>,
       <<"1.2.3", t5>>,
       <<"1.2.4", t6>>,
       <<"1.2.5", t7>>,
       <<"1.2.6", t8>>,
       <<"1.3.1", t9>>,
       <<"1.4.1", t10>>,
       <<"1.5.1", t11>>,
       <<"1.5.2", t12>>,
       <<"1.5.3", t13>>,
       <<"1.5.4", t14>>,
       <<"1.5.5", t15>>,
       <<"1.5.6", t16>>,
       <<"1.6.1", t17>>,
       <<"1.6.2", t18>>,
       <<"1.7.1", t19>>,
       <<"1.8.1", t20>>,
       <<"1.9.1", t21>>,
       <<"1.10.1", t22>>}
  <1> HIDE DEF rows, t1, t2, t3, t4, t5, t6, t7, t8, t9, t10, t11, t12, t13, t14, t15, t16, t17,
              t18, t19, t20, t21, t22
  \* PTL takes the two sides, which are the same, for one atom.
  <1>i. Dict(rows) = Dict(rows) /\ t17 = t17
    OBVIOUS
  <1>1. CiscoTemplates = Dict(rows)
    BY <1>i, PTL DEF CiscoTemplates, rows, t1, t2, t3, t4, t5, t6, t7, t8, t9, t10, t11, t12,
       t13, t14, t15, t16, t17, t18, t19, t20, t21, t22
  <1> USE DEF rows
  <1>t1. t1 = Shows(EncryptPasswords)
    BY Zenon DEF t1, EncryptPasswords
  <1>t2. t2 = Shows(HashSecret)
    BY Zenon DEF t2, HashSecret
  <1>t3. t3 = FingerOff
    BY Zenon DEF t3, FingerOff
  <1>t4. t4 = HttpOff
    BY Zenon DEF t4, HttpOff
  <1>t5. t5 = Shows(HttpsOn)
    BY Zenon DEF t5, HttpsOn
  <1>t6. t6 = TcpSmallOff
    BY Zenon DEF t6, TcpSmallOff
  <1>t7. t7 = UdpSmallOff
    BY Zenon DEF t7, UdpSmallOff
  <1>t8. t8 = BootpOff
    BY Zenon DEF t8, BootpOff
  <1>t9. t9 = SourceRouteOff
    BY Zenon DEF t9, SourceRouteOff
  <1>t10. t10 = Shows(BothGreetings)
    BY Zenon DEF t10, BothGreetings
  <1>t11. t11 = Shows(ConsoleTimeout)
    BY Zenon DEF t11, ConsoleTimeout
  <1>t12. t12 = Shows(VtyTimeout)
    BY Zenon DEF t12, VtyTimeout
  <1>t13. t13 = Shows(VtySsh)
    BY Zenon DEF t13, VtySsh
  <1>t14. t14 = Shows(SshTwo)
    BY Zenon DEF t14, SshTwo
  <1>t15. t15 = Shows(SshTimeout)
    BY Zenon DEF t15, SshTimeout
  <1>t16. t16 = Shows(SshRetries)
    BY Zenon DEF t16, SshRetries
  <1>t17. t17 = Shows(LogBuffer)
    BY <1>i, PTL DEF t17, LogBuffer
  <1>t18. t18 = Shows(LogStamps)
    BY Zenon DEF t18, LogStamps
  <1>t19. t19 = Shows(NtpServer)
    BY Zenon DEF t19, NtpServer
  <1>t20. t20 = NoCommunities
    BY Zenon DEF t20, NoCommunities
  <1>t21. t21 = Shows(NewModel)
    BY Zenon DEF t21, NewModel
  <1>t22. t22 = CdpOff
    BY Zenon DEF t22, CdpOff
  <1>2. Functional(rows)
    BY DEF Functional
  <1>3. \A r \in rows : r[1] # "services.minimal" /\ r[1] # "ntp.authenticate"
    OBVIOUS
  <1>4. /\ <<"1.1.1", Shows(EncryptPasswords)>> \in rows
        /\ <<"1.1.2", Shows(HashSecret)>> \in rows
        /\ <<"1.2.1", FingerOff>> \in rows
        /\ <<"1.2.2", HttpOff>> \in rows
        /\ <<"1.2.3", Shows(HttpsOn)>> \in rows
        /\ <<"1.2.4", TcpSmallOff>> \in rows
        /\ <<"1.2.5", UdpSmallOff>> \in rows
        /\ <<"1.2.6", BootpOff>> \in rows
        /\ <<"1.3.1", SourceRouteOff>> \in rows
        /\ <<"1.4.1", Shows(BothGreetings)>> \in rows
        /\ <<"1.5.1", Shows(ConsoleTimeout)>> \in rows
        /\ <<"1.5.2", Shows(VtyTimeout)>> \in rows
        /\ <<"1.5.3", Shows(VtySsh)>> \in rows
        /\ <<"1.5.4", Shows(SshTwo)>> \in rows
        /\ <<"1.5.5", Shows(SshTimeout)>> \in rows
        /\ <<"1.5.6", Shows(SshRetries)>> \in rows
        /\ <<"1.6.1", Shows(LogBuffer)>> \in rows
        /\ <<"1.6.2", Shows(LogStamps)>> \in rows
        /\ <<"1.7.1", Shows(NtpServer)>> \in rows
        /\ <<"1.8.1", NoCommunities>> \in rows
        /\ <<"1.9.1", Shows(NewModel)>> \in rows
        /\ <<"1.10.1", CdpOff>> \in rows
    BY <1>t1, <1>t2, <1>t3, <1>t4, <1>t5, <1>t6, <1>t7, <1>t8, <1>t9, <1>t10, <1>t11, <1>t12,
       <1>t13, <1>t14, <1>t15, <1>t16, <1>t17, <1>t18, <1>t19, <1>t20, <1>t21, <1>t22
  <1> HIDE DEF rows
  <1>5. \A k, x : <<k, x>> \in rows => Lookup(CiscoTemplates, k) = x
    BY <1>1, <1>2, LookedUp DEF Lookup
  <1>6. \A k : (\A r \in rows : r[1] # k) => Lookup(CiscoTemplates, k) = NoTemplate
    BY <1>1, <1>2, LookedUp DEF Lookup
  <1>7. \A ref, num : Named(ref, num) =>
          DeterministicRemediation("cisco", ref) = Lookup(CiscoTemplates, num)
    BY Zenon DEF Named, DeterministicRemediation
  <1>8. \A ref, num, x : Named(ref, num) /\ <<num, x>> \in rows => Remedy("cisco", ref, x)
    BY <1>5, <1>7 DEF Remedy
  <1>0. \A ref, x : ref \in CiscoNumbered /\ <<ref, x>> \in rows => Remedy("cisco", ref, x)
    BY <1>8, CiscoNumbers
  <1>9. /\ Remedy("cisco", "services.minimal", NoTemplate)
        /\ Remedy("cisco", "ntp.authenticate", NoTemplate)
    BY <1>3, <1>6, <1>7, CiscoNumbers DEF Remedy, CiscoNumbered
  <1>10. /\ Remedy("cisco", "1.1.1", Shows(EncryptPasswords))
         /\ Remedy("cisco", "1.1.2", Shows(HashSecret))
         /\ Remedy("cisco", "1.2.1", FingerOff)
         /\ Remedy("cisco", "1.2.2", HttpOff)
         /\ Remedy("cisco", "1.2.3", Shows(HttpsOn))
         /\ Remedy("cisco", "1.2.4", TcpSmallOff)
         /\ Remedy("cisco", "1.2.5", UdpSmallOff)
         /\ Remedy("cisco", "1.2.6", BootpOff)
         /\ Remedy("cisco", "1.3.1", SourceRouteOff)
         /\ Remedy("cisco", "1.4.1", Shows(BothGreetings))
         /\ Remedy("cisco", "1.5.1", Shows(ConsoleTimeout))
         /\ Remedy("cisco", "1.5.2", Shows(VtyTimeout))
         /\ Remedy("cisco", "1.5.3", Shows(VtySsh))
         /\ Remedy("cisco", "1.5.4", Shows(SshTwo))
         /\ Remedy("cisco", "1.5.5", Shows(SshTimeout))
         /\ Remedy("cisco", "1.5.6", Shows(SshRetries))
         /\ Remedy("cisco", "1.6.1", Shows(LogBuffer))
         /\ Remedy("cisco", "1.6.2", Shows(LogStamps))
         /\ Remedy("cisco", "1.7.1", Shows(NtpServer))
         /\ Remedy("cisco", "1.8.1", NoCommunities)
         /\ Remedy("cisco", "1.9.1", Shows(NewModel))
         /\ Remedy("cisco", "1.10.1", CdpOff)
    BY <1>0, <1>4, SMT DEF CiscoNumbered
  <1>11. /\ Remedy("cisco", "credential.secure_hash", Shows(HashSecret))
         /\ Remedy("cisco", "password.encryption", Shows(EncryptPasswords))
         /\ Remedy("cisco", "http.disabled", HttpOff)
         /\ Remedy("cisco", "banner.login", Shows(BothGreetings))
         /\ Remedy("cisco", "ssh.version", Shows(SshTwo))
         /\ Remedy("cisco", "ssh.only", Shows(VtySsh))
         /\ Remedy("cisco", "session.timeout", Shows(VtyTimeout))
         /\ Remedy("cisco", "logging.enabled", Shows(LogStamps))
         /\ Remedy("cisco", "logging.buffer", Shows(LogBuffer))
         /\ Remedy("cisco", "ntp.servers", Shows(NtpServer))
         /\ Remedy("cisco", "snmp.v3", NoCommunities)
         /\ Remedy("cisco", "aaa.enabled", Shows(NewModel))
         /\ Remedy("cisco", "discovery.disabled", CdpOff)
    BY <1>4, <1>8, CiscoNumbers, SMTT(30)
  <1> QED BY <1>9, <1>10, <1>11

\* The templates of JunOS.
LEMMA JunosRemedies ==
  /\ Remedy("juniper", "credential.secure_hash", Shows(RootHashed))
  /\ Remedy("juniper", "http.disabled", HttpTemplate)
  /\ Remedy("juniper", "banner.login", Shows(JunosMessage))
  /\ Remedy("juniper", "ssh.version", Shows(JunosSshTwo))
  /\ Remedy("juniper", "ssh.only", JunosSshOnly)
  /\ Remedy("juniper", "session.timeout", Shows(JunosIdle))
  /\ Remedy("juniper", "logging.enabled", Shows(JunosSyslog))
  /\ Remedy("juniper", "logging.buffer", Shows(JunosArchive))
  /\ Remedy("juniper", "ntp.servers", Shows(JunosNtp))
  /\ Remedy("juniper", "ntp.authenticate", Shows(JunosKeys))
  /\ Remedy("juniper", "snmp.v3", JunosCommunities)
  /\ Remedy("juniper", "aaa.enabled", Shows(JunosAaa))
  /\ Remedy("juniper", "discovery.disabled", Shows(JunosLldp))
  /\ Remedy("juniper", "password.encryption", Shows(RootHashed))
  /\ Remedy("juniper", "services.minimal", NoTemplate)
  <1> DEFINE
    t1 == Shows(<<RootPassword>>)
    t2 == HttpTemplate
    t3 == Shows(<<[Set(<<"system", "login", "message">>) EXCEPT !.n = Yes]>>)
    t4 == Shows(<<[Set(SshKnob("protocol-version")) EXCEPT !.n = 2]>>)
    t5 == Block({Delete(Service("telnet"))}, <<Set(Ssh)>>)
    t6 == Shows(<<[Set(<<"system", "login", "idle-timeout">>) EXCEPT !.n = 600]>>)
    t7 == Shows(<<Set(<<"system", "syslog">>)>>)
    t8 == Shows(<<[Set(<<"system", "syslog", "archive-size">>) EXCEPT !.n = 1048576]>>)
    t9 == Shows(<<[Set(<<"system", "ntp", "server">>) EXCEPT !.words = {"ntp"}]>>)
    t10 == Shows(<<Set(<<"system", "ntp", "authentication-key">>),
                  Set(<<"system", "ntp", "trusted-key">>)>>)
    t11 == Block({[Delete(<<"snmp", "community">>) EXCEPT !.words = {"public"}],
         [Delete(<<"snmp", "community">>) EXCEPT !.words = {"private"}]},
        <<Set(<<"snmp", "v3">>)>>)
    t12 == Shows(<<Set(<<"system", "authentication-order">>),
                  Set(<<"system", "radius-server">>)>>)
    t13 == Shows(<<Set(<<"protocols", "lldp", "interface", "all", "disable">>)>>)
    t14 == Shows(<<RootPassword>>)
    rows ==
      {<<"credential.secure_hash", t1>>,
       <<"http.disabled", t2>>,
       <<"banner.login", t3>>,
       <<"ssh.version", t4>>,
       <<"ssh.only", t5>>,
       <<"session.timeout", t6>>,
       <<"logging.enabled", t7>>,
       <<"logging.buffer", t8>>,
       <<"ntp.servers", t9>>,
       <<"ntp.authenticate", t10>>,
       <<"snmp.v3", t11>>,
       <<"aaa.enabled", t12>>,
       <<"discovery.disabled", t13>>,
       <<"password.encryption", t14>>}
  <1> HIDE DEF rows, t1, t2, t3, t4, t5, t6, t7, t8, t9, t10, t11, t12, t13, t14
  <1>i. Dict(rows) = Dict(rows) /\ t8 = t8
    OBVIOUS
  <1>1. JuniperTemplates = Dict(rows)
    BY <1>i, PTL DEF JuniperTemplates, rows, t1, t2, t3, t4, t5, t6, t7, t8, t9, t10, t11,
       t12, t13, t14
  <1> USE DEF rows
  <1>t1. t1 = Shows(RootHashed)
    BY Zenon DEF t1, RootHashed
  <1>t2. t2 = HttpTemplate
    BY Zenon DEF t2
  <1>t3. t3 = Shows(JunosMessage)
    BY Zenon DEF t3, JunosMessage
  <1>t4. t4 = Shows(JunosSshTwo)
    BY Zenon DEF t4, JunosSshTwo
  <1>t5. t5 = JunosSshOnly
    BY Zenon DEF t5, JunosSshOnly
  <1>t6. t6 = Shows(JunosIdle)
    BY Zenon DEF t6, JunosIdle
  <1>t7. t7 = Shows(JunosSyslog)
    BY Zenon DEF t7, JunosSyslog
  <1>t8. t8 = Shows(JunosArchive)
    BY <1>i, PTL DEF t8, JunosArchive
  <1>t9. t9 = Shows(JunosNtp)
    BY Zenon DEF t9, JunosNtp
  <1>t10. t10 = Shows(JunosKeys)
    BY Zenon DEF t10, JunosKeys
  <1>t11. t11 = JunosCommunities
    BY Zenon DEF t11, JunosCommunities
  <1>t12. t12 = Shows(JunosAaa)
    BY Zenon DEF t12, JunosAaa
  <1>t13. t13 = Shows(JunosLldp)
    BY Zenon DEF t13, JunosLldp
  <1>t14. t14 = Shows(RootHashed)
    BY Zenon DEF t14, RootHashed
  <1>2. Functional(rows)
    BY DEF Functional
  <1>3. \A r \in rows : r[1] # "services.minimal"
    OBVIOUS
  <1>4. /\ <<"credential.secure_hash", Shows(RootHashed)>> \in rows
        /\ <<"http.disabled", HttpTemplate>> \in rows
        /\ <<"banner.login", Shows(JunosMessage)>> \in rows
        /\ <<"ssh.version", Shows(JunosSshTwo)>> \in rows
        /\ <<"ssh.only", JunosSshOnly>> \in rows
        /\ <<"session.timeout", Shows(JunosIdle)>> \in rows
        /\ <<"logging.enabled", Shows(JunosSyslog)>> \in rows
        /\ <<"logging.buffer", Shows(JunosArchive)>> \in rows
        /\ <<"ntp.servers", Shows(JunosNtp)>> \in rows
        /\ <<"ntp.authenticate", Shows(JunosKeys)>> \in rows
        /\ <<"snmp.v3", JunosCommunities>> \in rows
        /\ <<"aaa.enabled", Shows(JunosAaa)>> \in rows
        /\ <<"discovery.disabled", Shows(JunosLldp)>> \in rows
        /\ <<"password.encryption", Shows(RootHashed)>> \in rows
    BY <1>t1, <1>t2, <1>t3, <1>t4, <1>t5, <1>t6, <1>t7, <1>t8, <1>t9, <1>t10, <1>t11, <1>t12,
       <1>t13, <1>t14
  <1> HIDE DEF rows
  <1>0. \A ref, x : Lookup(JuniperTemplates, ref) = x => Remedy("juniper", ref, x)
    BY Zenon DEF DeterministicRemediation, Remedy
  <1>5. \A ref, x : <<ref, x>> \in rows => Remedy("juniper", ref, x)
    BY <1>0, <1>1, <1>2, LookedUp DEF Lookup
  <1>6. Remedy("juniper", "services.minimal", NoTemplate)
    BY <1>0, <1>1, <1>2, <1>3, LookedUp DEF Lookup
  <1>7. /\ Remedy("juniper", "credential.secure_hash", Shows(RootHashed))
        /\ Remedy("juniper", "http.disabled", HttpTemplate)
        /\ Remedy("juniper", "banner.login", Shows(JunosMessage))
        /\ Remedy("juniper", "ssh.version", Shows(JunosSshTwo))
        /\ Remedy("juniper", "ssh.only", JunosSshOnly)
        /\ Remedy("juniper", "session.timeout", Shows(JunosIdle))
        /\ Remedy("juniper", "logging.enabled", Shows(JunosSyslog))
        /\ Remedy("juniper", "logging.buffer", Shows(JunosArchive))
        /\ Remedy("juniper", "ntp.servers", Shows(JunosNtp))
        /\ Remedy("juniper", "ntp.authenticate", Shows(JunosKeys))
        /\ Remedy("juniper", "snmp.v3", JunosCommunities)
        /\ Remedy("juniper", "aaa.enabled", Shows(JunosAaa))
        /\ Remedy("juniper", "discovery.disabled", Shows(JunosLldp))
        /\ Remedy("juniper", "password.encryption", Shows(RootHashed))
    BY <1>4, <1>5
  <1> QED BY <1>6, <1>7

-----------------------------------------------------------------------------
(* What a line of a template does to the configuration.                    *)

\* The parts of a configuration and of a parse, whatever they hold.
ShapedConfig(c) ==
  /\ c = [scalars |-> c.scalars, lists |-> c.lists, interfaces |-> c.interfaces,
          policies |-> c.policies]
  /\ c.lists = [f \in ListFields |-> c.lists[f]]

Shaped(p) ==
  /\ p = [config |-> p.config, findings |-> p.findings, unknown |-> p.unknown, n |-> p.n,
          state |-> p.state]
  /\ ShapedConfig(p.config)

\* A setting written, or a list, and nothing else of the two.
Writes(c, d, r, items) ==
  /\ ShapedConfig(d)
  /\ \A f \in ScalarFields : Get(d, f) = IF f = r.field THEN r.value ELSE Get(c, f)
  /\ \A f \in ListFields : d.lists[f] = IF f = r.field THEN items ELSE c.lists[f]

\* A reading assigned beside what a list holds.
LEMMA UnionWrites ==
  ASSUME NEW c, ShapedConfig(c), NEW r
  PROVE  Writes(c, AssignUnion(c, r), r, c.lists[r.field] \cup r.items)
  <1> DEFINE d == AssignUnion(c, r)
             w == With(c.scalars, r.field, r.value)
             u == c.lists[r.field] \cup r.items
             g == [c.lists EXCEPT ![r.field] = u]
  <1>0. ListFields \cap ScalarFields = {}
    BY DEF ListFields, ScalarFields, BooleanFields, NumberFields, TextFields
  <1>1. CASE r.field \in ListFields
    <2>1. d = [scalars |-> c.scalars, lists |-> g, interfaces |-> c.interfaces,
               policies |-> c.policies]
      BY <1>1 DEF AssignUnion, ShapedConfig
    <2>2. g = [f \in ListFields |-> IF f = r.field THEN u ELSE c.lists[f]]
      BY <1>1 DEF ShapedConfig
    <2> HIDE DEF d, g, u
    <2>3. d.scalars = c.scalars /\ d.lists = g /\ ShapedConfig(d)
      BY <2>1, <2>2 DEF ShapedConfig
    <2>4. \A f : Get(d, f) = Get(c, f)
      BY <2>3 DEF Get
    <2> QED BY <1>0, <1>1, <2>2, <2>3, <2>4 DEF Writes, d, u
  <1>2. CASE r.field \in ScalarFields
    <2>1. d = [scalars |-> w, lists |-> c.lists, interfaces |-> c.interfaces,
               policies |-> c.policies]
      BY <1>0, <1>2 DEF AssignUnion, ShapedConfig
    <2>2. /\ DOMAIN w = DOMAIN c.scalars \cup {r.field}
          /\ \A f \in DOMAIN w : w[f] = IF f = r.field THEN r.value ELSE c.scalars[f]
      BY DEF With
    <2> HIDE DEF d, w, u
    <2>3. d.scalars = w /\ d.lists = c.lists /\ ShapedConfig(d)
      BY <2>1 DEF ShapedConfig
    <2>4. \A f : Get(d, f) = IF f = r.field THEN r.value ELSE Get(c, f)
      BY <2>2, <2>3 DEF Get
    <2> QED BY <1>0, <1>2, <2>3, <2>4 DEF Writes, d, u
  <1>3. CASE r.field \notin ListFields \cup ScalarFields
    <2>1. d = c
      BY <1>3 DEF AssignUnion
    <2> QED BY <1>3, <2>1 DEF Writes
  <1> QED BY <1>1, <1>2, <1>3

\* Cisco's transports are replaced.
LEMMA ReplaceWrites ==
  ASSUME NEW c, ShapedConfig(c), NEW r
  PROVE  Writes(c, AssignReplace(c, r), r,
                IF r.field = "line_vty.transport_input" THEN r.items
                ELSE c.lists[r.field] \cup r.items)
  <1>1. CASE r.field = "line_vty.transport_input"
    <2> DEFINE d == AssignReplace(c, r)
               g == [c.lists EXCEPT ![r.field] = r.items]
    <2>0. r.field \in ListFields /\ r.field \notin ScalarFields
      BY <1>1 DEF ListFields, ScalarFields, BooleanFields, NumberFields, TextFields
    <2>1. d = [scalars |-> c.scalars, lists |-> g, interfaces |-> c.interfaces,
               policies |-> c.policies]
      BY <1>1 DEF AssignReplace, ShapedConfig
    <2>2. g = [f \in ListFields |-> IF f = r.field THEN r.items ELSE c.lists[f]]
      BY <2>0 DEF ShapedConfig
    <2> HIDE DEF d, g
    <2>3. d.scalars = c.scalars /\ d.lists = g /\ ShapedConfig(d)
      BY <2>1, <2>2 DEF ShapedConfig
    <2>4. \A f : Get(d, f) = Get(c, f)
      BY <2>3 DEF Get
    <2> QED BY <1>1, <2>0, <2>2, <2>3, <2>4 DEF Writes, d
  <1>2. CASE r.field # "line_vty.transport_input"
    BY <1>2, UnionWrites DEF AssignReplace
  <1> QED BY <1>1, <1>2

\* The parts of a parse whose configuration is another.
LEMMA StatedParts ==
  ASSUME NEW p, Shaped(p), NEW d, ShapedConfig(d), NEW r, NEW n, NEW source
  PROVE  LET q == FoundAt([p EXCEPT !.config = d], r, n, source) IN
         Shaped(q) /\ q.config = d /\ q.state = p.state /\ q.unknown = p.unknown
  <1> DEFINE x == [p EXCEPT !.config = d]
             e == Append(p.findings, [reading |-> r, line |-> n, source |-> source])
             q == FoundAt(x, r, n, source)
  <1>1. x = [config |-> d, findings |-> p.findings, unknown |-> p.unknown, n |-> p.n,
             state |-> p.state]
    BY DEF Shaped
  <1>2. q = [x EXCEPT !.findings = Append(x.findings,
                                          [reading |-> r, line |-> n, source |-> source])]
    BY DEF FoundAt
  <1> HIDE DEF x, q
  <1>3. q = [config |-> d, findings |-> e, unknown |-> p.unknown, n |-> p.n,
             state |-> p.state]
    BY <1>1, <1>2
  <1> HIDE DEF e
  <1>4. Shaped(q) /\ q.config = d /\ q.state = p.state /\ q.unknown = p.unknown
    BY <1>3 DEF Shaped
  <1> QED BY <1>4 DEF q, x

\* Reading on, and remembering something else, leave the configuration.
LEMMA ShapeKept ==
  ASSUME NEW p, Shaped(p)
  PROVE  /\ LET q == Advance(p) IN
            Shaped(q) /\ q.config = p.config /\ q.state = p.state /\ q.unknown = p.unknown
         /\ \A s : LET q == [p EXCEPT !.state = s] IN
                   Shaped(q) /\ q.config = p.config /\ q.state = s /\ q.unknown = p.unknown
  <1>1. ASSUME NEW q, NEW n, NEW s,
               q = [config |-> p.config, findings |-> p.findings, unknown |-> p.unknown,
                    n |-> n, state |-> s]
        PROVE  Shaped(q) /\ q.config = p.config /\ q.state = s /\ q.unknown = p.unknown
    BY <1>1 DEF Shaped
  <1> DEFINE a == Advance(p)
  <1>2. a = [config |-> p.config, findings |-> p.findings, unknown |-> p.unknown,
             n |-> p.n + 1, state |-> p.state]
    BY DEF Shaped, Advance
  <1> HIDE DEF a
  <1>3. Shaped(a) /\ a.config = p.config /\ a.state = p.state /\ a.unknown = p.unknown
    BY <1>1, <1>2
  <1>4. ASSUME NEW s
        PROVE  LET q == [p EXCEPT !.state = s] IN
               Shaped(q) /\ q.config = p.config /\ q.state = s /\ q.unknown = p.unknown
    <2> DEFINE q == [p EXCEPT !.state = s]
    <2>1. q = [config |-> p.config, findings |-> p.findings, unknown |-> p.unknown,
               n |-> p.n, state |-> s]
      BY DEF Shaped
    <2> HIDE DEF q
    <2>2. Shaped(q) /\ q.config = p.config /\ q.state = s /\ q.unknown = p.unknown
      BY <1>1, <2>1
    <2> QED BY <2>2 DEF q
  <1> QED BY <1>3, <1>4 DEF a

\* A parse has that shape.
LEMMA ParseShaped ==
  ASSUME NEW p, IsParse(p)
  PROVE  Shaped(p)
  BY DEF IsParse, IsConfig, Shaped, ShapedConfig

-----------------------------------------------------------------------------
(* The templates of Cisco.                                                 *)

\* A parse outside any banner.
CiscoReady(p) ==
  /\ Shaped(p)
  /\ p.state = [context |-> p.state.context, name |-> p.state.name,
                banner |-> p.state.banner]
  /\ p.state.banner = NoBanner

\* What a line says wherever it stands outside a banner, what it says in a block, and
\* the block it opens.
Reports(l, r) ==
  \A m, p : CiscoReady(p) =>
    LET q == Step("cisco", m, p, l) IN
    CiscoReady(q) /\ q.config = AssignReplace(p.config, r)
ReportsIn(c, l, r) ==
  \A m, p : CiscoReady(p) /\ p.state.context = c =>
    LET q == Step("cisco", m, p, l) IN
    CiscoReady(q) /\ q.config = AssignReplace(p.config, r)
Enters(l, c) ==
  \A m, p : CiscoReady(p) =>
    LET q == Step("cisco", m, p, l) IN
    CiscoReady(q) /\ q.config = p.config /\ q.state.context = c

\* The texts that are settings of a block, and those that say what comes next.
BlockTexts ==
  {"exec-timeout", "transport preferred", "transport input", "access-class", "shutdown",
   "description", "ip address", "cdp enable"}
FirstTexts ==
  {"", "!", "interface", "line console", "line vty", "banner motd", "banner login"}
Globally(t) == t \notin BlockTexts /\ t \notin FirstTexts

\* The statements of the templates that are none of these.
LEMMA GlobalTexts ==
  /\ Globally("service password-encryption") /\ Globally("service finger")
  /\ Globally("service tcp-small-servers") /\ Globally("service udp-small-servers")
  /\ Globally("ip bootp server") /\ Globally("ip http server")
  /\ Globally("ip http secure-server") /\ Globally("ip source-route")
  /\ Globally("cdp run") /\ Globally("aaa new-model") /\ Globally("service timestamps log")
  /\ Globally("enable secret") /\ Globally("ip ssh version") /\ Globally("ip ssh time-out")
  /\ Globally("ip ssh authentication-retries") /\ Globally("logging buffered")
  /\ Globally("ntp server") /\ Globally("snmp-server v3") /\ Globally("snmp-server community")
  <1>3. /\ Globally("service password-encryption") /\ Globally("service finger")
        /\ Globally("service tcp-small-servers") /\ Globally("service udp-small-servers")
        /\ Globally("ip bootp server") /\ Globally("ip http server")
    BY ZenonT(30) DEF Globally, BlockTexts, FirstTexts
  <1>4. /\ Globally("ip http secure-server") /\ Globally("ip source-route")
        /\ Globally("cdp run") /\ Globally("aaa new-model")
        /\ Globally("service timestamps log") /\ Globally("enable secret")
        /\ Globally("ip ssh version")
    BY ZenonT(30) DEF Globally, BlockTexts, FirstTexts
  <1>5. /\ Globally("ip ssh time-out") /\ Globally("ip ssh authentication-retries")
        /\ Globally("logging buffered") /\ Globally("ntp server")
        /\ Globally("snmp-server v3") /\ Globally("snmp-server community")
    BY ZenonT(30) DEF Globally, BlockTexts, FirstTexts
  <1> QED BY <1>3, <1>4, <1>5, Zenon

\* The parts of a line.
LEMMA LineParts ==
  ASSUME NEW t, NEW k, NEW w
  PROVE  /\ Line(t).text = t /\ ~Line(t).no
         /\ NoLine(t).text = t /\ NoLine(t).no
         /\ NumLine(t, k).text = t /\ ~NumLine(t, k).no /\ NumLine(t, k).n = k
         /\ WordLine(t, w).text = t /\ ~WordLine(t, w).no /\ WordLine(t, w).words = w
         /\ LET l == [NumLine(t, k) EXCEPT !.words = w] IN
            l.text = t /\ l.n = k /\ l.words = w
         /\ LET l == [NoLine(t) EXCEPT !.words = w] IN
            l.text = t /\ l.no /\ l.words = w
  BY DEF Line, NoLine, NumLine, WordLine

\* A reading replaces what was said before, and an ended block is forgotten.
LEMMA ReadyReads ==
  ASSUME NEW p, CiscoReady(p), NEW r
  PROVE  LET q == SetReplace(p, r)
             w == InContext(q, "none")
         IN /\ CiscoReady(q) /\ q.config = AssignReplace(p.config, r)
            /\ CiscoReady(w) /\ w.config = AssignReplace(p.config, r)
  <1> DEFINE d == AssignReplace(p.config, r)
             q == SetReplace(p, r)
             s == [q.state EXCEPT !.context = "none"]
             w == InContext(q, "none")
  <1>1. ShapedConfig(d)
    BY ReplaceWrites DEF Writes, CiscoReady, Shaped
  <1>2. q = FoundAt([p EXCEPT !.config = d], r, p.n, "parser")
    BY DEF SetReplace, Stated
  <1> HIDE DEF d, q
  <1>3. Shaped(q) /\ q.config = d /\ q.state = p.state
    BY <1>1, <1>2, StatedParts DEF CiscoReady
  <1>4. w = [q EXCEPT !.state = s]
    BY DEF InContext
  <1>5. s = [context |-> "none", name |-> q.state.name, banner |-> NoBanner]
    BY <1>3 DEF CiscoReady
  <1> HIDE DEF s, w
  <1>6. Shaped(w) /\ w.config = d /\ w.state = s
    BY <1>3, <1>4, ShapeKept
  <1>7. CiscoReady(q) /\ CiscoReady(w)
    BY <1>3, <1>5, <1>6 DEF CiscoReady
  <1> QED BY <1>3, <1>6, <1>7 DEF d, q, w

\* The next line.
LEMMA ReadyAdvance ==
  ASSUME NEW p, CiscoReady(p)
  PROVE  /\ CiscoReady(Advance(p)) /\ Advance(p).config = p.config
         /\ Advance(p).state = p.state
  BY ShapeKept DEF CiscoReady

\* What a statement outside of any block says is read wherever it stands.
LEMMA GlobalReports ==
  ASSUME NEW l, Globally(l.text), NEW r, GlobalReadings(l) = <<r>>
  PROVE  Reports(l, r)
  <1> SUFFICES ASSUME NEW m, NEW p, CiscoReady(p)
               PROVE  LET q == Step("cisco", m, p, l) IN
                      CiscoReady(q) /\ q.config = AssignReplace(p.config, r)
    BY DEF Reports
  <1> DEFINE a == Advance(p)
             q == Step("cisco", m, p, l)
             global == GlobalReadings(l)
  <1>1. CiscoReady(a) /\ a.config = p.config
    BY ReadyAdvance
  <1>2. a.state.banner = NoBanner
    BY <1>1 DEF CiscoReady
  <1>0. l.text \notin DOMAIN Banners
    <2>1. \A t \in DOMAIN Banners : t \in {"banner motd", "banner login"}
      BY BannersMap
    <2> QED BY <2>1, Zenon DEF Globally, FirstTexts
  <1>3. l.text \notin DOMAIN Banners \cup {"", "!", "interface", "line console", "line vty"}
    BY <1>0, Zenon DEF Globally, FirstTexts
  <1>4. q = Statement(m, a, l)
    BY <1>2, <1>3, CiscoBranches, Zenon
  <1>5. ContextReadings(a.state, l) = << >>
    BY Zenon DEF Globally, BlockTexts, ContextReadings
  <1>6. global # << >> /\ global[1] = r
    BY DEF global
  <1> HIDE DEF a, q, global
  <1>7. q = InContext(SetReplace(a, r), "none")
    BY <1>4, <1>5, <1>6, Zenon DEF Statement, global
  <1> QED BY <1>1, <1>7, ReadyReads DEF q

\* A statement that switches a setting, and its negation.
LEMMA ToggleReports ==
  ASSUME NEW t, Globally(t), NEW f, NEW x, Switches(t, f, x)
  PROVE  /\ Reports(Line(t), Reading(f, x))
         /\ Reports(NoLine(t), Reading(f, Flip(x)))
  <1>1. Toggles[t][1] = f /\ Toggles[t][2] = x /\ t \in DOMAIN Toggles
    BY DEF Switches
  <1>2. ASSUME NEW l, l.text = t
        PROVE  GlobalReadings(l) = <<Reading(f, IF l.no THEN Flip(x) ELSE x)>>
    BY <1>1, <1>2, StatementTexts, Zenon DEF GlobalReadings
  <1>3. GlobalReadings(Line(t)) = <<Reading(f, x)>>
    BY <1>2, LineParts
  <1>4. GlobalReadings(NoLine(t)) = <<Reading(f, Flip(x))>>
    BY <1>2, LineParts
  <1>5. Line(t).text = t /\ NoLine(t).text = t
    BY LineParts
  <1> QED BY <1>3, <1>4, <1>5, GlobalReports

\* A statement that gives a setting its number.
LEMMA NumberReports ==
  ASSUME NEW t, Globally(t), NEW f, Counts(t, f), NEW k
  PROVE  Reports(NumLine(t, k), Reading(f, k))
  <1> DEFINE l == NumLine(t, k)
  <1>1. l.text = t /\ ~l.no /\ l.n = k
    BY LineParts
  <1> HIDE DEF l
  <1>2. GlobalReadings(l) = <<Reading(f, k)>>
    BY <1>1, StatementTexts, Zenon DEF GlobalReadings, Counts
  <1> QED BY <1>1, <1>2, GlobalReports DEF l

\* A server of the time.
LEMMA ServerReports ==
  ASSUME NEW w
  PROVE  Reports(WordLine("ntp server", w), Listing("ntp.servers", w))
  <1> DEFINE t == "ntp server"
             l == WordLine(t, w)
             r == Listing("ntp.servers", w)
  <1> HIDE DEF t
  <1>0. l.text = t /\ ~l.no /\ l.words = w
    BY LineParts
  <1>1. l.text = "ntp server" /\ ~l.no /\ l.words = w
    BY <1>0, Zenon DEF t
  <1> HIDE DEF l
  <1>2. GlobalReadings(l) = <<r>>
    BY <1>1, StatementTexts, Zenon DEF GlobalReadings
  <1>3. Globally(l.text)
    BY <1>1, GlobalTexts
  <1> HIDE DEF r
  <1> QED BY <1>2, <1>3, GlobalReports DEF l, r, t

\* A banner on one line.
LEMMA BannerReports ==
  ASSUME NEW t, NEW f, Greets(t, f)
  PROVE  Reports([NumLine(t, Yes) EXCEPT !.words = {Delimiter}], Reading(f, Yes))
  <1> DEFINE l == [NumLine(t, Yes) EXCEPT !.words = {Delimiter}]
             r == Reading(f, Yes)
  <1>1. l.text = t /\ l.n = Yes /\ l.words = {Delimiter}
    BY LineParts
  <1> HIDE DEF l
  <1> SUFFICES ASSUME NEW m, NEW p, CiscoReady(p)
               PROVE  LET q == Step("cisco", m, p, l) IN
                      CiscoReady(q) /\ q.config = AssignReplace(p.config, r)
    BY DEF Reports, l
  <1> DEFINE a == Advance(p)
             q == Step("cisco", m, p, l)
             b == [field |-> f, start |-> a.n, filled |-> Yes, blank |-> FALSE]
             c == InContext(a, "none")
             s == [a.state EXCEPT !.context = "none"]
             d == AssignReplace(p.config, r)
             e == [c EXCEPT !.config = AssignReplace(@, r), !.state.banner = NoBanner]
             u == [c.state EXCEPT !.banner = NoBanner]
             x == [c EXCEPT !.state = u]
  <1>2. CiscoReady(a) /\ a.config = p.config /\ a.state.banner = NoBanner
    BY ReadyAdvance DEF CiscoReady
  <1>3. q = OpenBanner(a, l)
    BY <1>1, <1>2, CiscoBranches DEF Greets
  <1>4. b = [field |-> Banners[l.text], start |-> a.n, filled |-> l.n, blank |-> FALSE]
    BY <1>1 DEF Greets
  <1>5. Delimiter \in l.words
    BY <1>1
  <1>6. b.field = f /\ b.start = a.n
    OBVIOUS
  <1>7. c = [a EXCEPT !.state = s]
    BY DEF InContext
  <1> HIDE DEF q, b, c
  <1>8. q = SetBanner(c, b, Yes)
    BY <1>1, <1>3, <1>4, <1>5, Zenon DEF OpenBanner, c
  <1>9. q = FoundAt(e, r, a.n, "parser")
    BY <1>6, <1>8 DEF SetBanner
  <1>10. s = [context |-> "none", name |-> a.state.name, banner |-> NoBanner]
    BY <1>2 DEF CiscoReady
  <1> HIDE DEF s
  <1>11. Shaped(c) /\ c.config = p.config /\ c.state = s
    BY <1>2, <1>7, ShapeKept DEF CiscoReady
  <1>12. u = s
    BY <1>10, <1>11
  <1> HIDE DEF u
  <1>13. Shaped(x) /\ x.config = p.config /\ x.state = s
    BY <1>11, <1>12, ShapeKept
  <1>14. e = [x EXCEPT !.config = d]
    BY <1>11 DEF Shaped, u
  <1> HIDE DEF e, x
  <1>15. ShapedConfig(d)
    BY ReplaceWrites DEF Writes, CiscoReady, Shaped
  <1> HIDE DEF d, r, a
  <1>16. Shaped(q) /\ q.config = d /\ q.state = s
    BY <1>9, <1>13, <1>14, <1>15, StatedParts
  <1>17. CiscoReady(q)
    BY <1>10, <1>16 DEF CiscoReady
  <1> QED BY <1>16, <1>17 DEF q, d

\* The blocks the templates open.
LEMMA BlocksEntered ==
  Enters(Line("line console"), "line_console") /\ Enters(VtyLines, "line_vty")
  <1> DEFINE Of(l, c) == \/ l.text = "line console" /\ c = "line_console"
                         \/ l.text = "line vty" /\ c = "line_vty"
  <1>1. ASSUME NEW l, NEW c, Of(l, c)
        PROVE  Enters(l, c)
    <2> SUFFICES ASSUME NEW m, NEW p, CiscoReady(p)
                 PROVE  LET q == Step("cisco", m, p, l) IN
                        CiscoReady(q) /\ q.config = p.config /\ q.state.context = c
      BY DEF Enters
    <2>0. /\ l.text \in {"line console", "line vty"}
          /\ c = IF l.text = "line vty" THEN "line_vty" ELSE "line_console"
      BY <1>1, Zenon
    <2> DEFINE a == Advance(p)
               q == Step("cisco", m, p, l)
               s == [a.state EXCEPT !.context = c]
    <2>1. CiscoReady(a) /\ a.config = p.config /\ a.state.banner = NoBanner
      BY <1>1, ReadyAdvance DEF CiscoReady
    <2>2. q = InContext(a, IF l.text = "line vty" THEN "line_vty" ELSE "line_console")
      BY <2>0, <2>1, CiscoBranches, Zenon
    <2> HIDE DEF a, q
    <2>3. q = [a EXCEPT !.state = s]
      BY <2>0, <2>2, Zenon DEF InContext
    <2>4. s = [context |-> c, name |-> a.state.name, banner |-> NoBanner]
      BY <2>1 DEF CiscoReady
    <2> HIDE DEF s
    <2>5. Shaped(q) /\ q.config = p.config /\ q.state = s
      BY <2>1, <2>3, ShapeKept DEF CiscoReady
    <2>6. CiscoReady(q) /\ q.state.context = c
      BY <2>4, <2>5 DEF CiscoReady
    <2> QED BY <2>5, <2>6 DEF q
  <1>2. Line("line console").text = "line console" /\ VtyLines.text = "line vty"
    <2> DEFINE t == "line console"
               u == "line vty"
               w == {"0 15"}
    <2>1. VtyLines = WordLine(u, w)
      BY Zenon DEF VtyLines
    <2> HIDE DEF t, u, w
    <2>2. Line(t).text = t /\ VtyLines.text = u
      BY <2>1, LineParts
    <2> QED BY <2>2, Zenon DEF t, u
  <1>3. Of(Line("line console"), "line_console") /\ Of(VtyLines, "line_vty")
    BY <1>2, Zenon
  <1> HIDE DEF Of
  <1> QED BY <1>1, <1>3, Zenon

\* What a line of a block says is read there.
LEMMA BlockReports ==
  ASSUME NEW l, l.text \in BlockTexts, NEW c, c # "interface", NEW r,
         \A s : s.context = c => ContextReadings(s, l) = <<r>>
  PROVE  ReportsIn(c, l, r)
  <1> SUFFICES ASSUME NEW m, NEW p, CiscoReady(p), p.state.context = c
               PROVE  LET q == Step("cisco", m, p, l) IN
                      CiscoReady(q) /\ q.config = AssignReplace(p.config, r)
    BY DEF ReportsIn
  <1> DEFINE a == Advance(p)
             q == Step("cisco", m, p, l)
             inside == ContextReadings(a.state, l)
  <1>1. CiscoReady(a) /\ a.config = p.config /\ a.state.context = c
    BY ReadyAdvance
  <1>2. a.state.banner = NoBanner
    BY <1>1 DEF CiscoReady
  <1>0. l.text \notin DOMAIN Banners
    <2>1. \A t \in DOMAIN Banners : t \in {"banner motd", "banner login"}
      BY BannersMap
    <2> QED BY <2>1, Zenon DEF BlockTexts
  <1>3. l.text \notin DOMAIN Banners \cup {"", "!", "interface", "line console", "line vty"}
    BY <1>0, Zenon DEF BlockTexts
  <1>4. q = Statement(m, a, l)
    BY <1>2, <1>3, CiscoBranches, Zenon
  <1>5. inside = <<r>>
    BY <1>1
  <1> HIDE DEF inside
  <1>6. inside # << >> /\ inside[1] = r
    BY <1>5
  <1> HIDE DEF a, q
  <1>7. q = SetReplace(a, r)
    BY <1>1, <1>4, <1>6, Zenon DEF Statement, inside
  <1> QED BY <1>1, <1>7, ReadyReads DEF q

\* The time-outs of the console and of the terminals, and the terminals' transports.
LEMMA TerminalReports ==
  ASSUME NEW k, NEW w
  PROVE  /\ ReportsIn("line_console", NumLine("exec-timeout", k),
                      Reading("line_console.exec_timeout_minutes", k))
         /\ ReportsIn("line_vty", NumLine("exec-timeout", k),
                      Reading("line_vty.exec_timeout_minutes", k))
         /\ ReportsIn("line_vty", WordLine("transport input", w),
                      Listing("line_vty.transport_input", w))
  <1> DEFINE u == "transport input"
             l == NumLine("exec-timeout", k)
             t == WordLine(u, w)
             r1 == Reading("line_console.exec_timeout_minutes", k)
             r2 == Reading("line_vty.exec_timeout_minutes", k)
             r3 == Listing("line_vty.transport_input", w)
  <1> HIDE DEF u
  <1>0. l.text = "exec-timeout" /\ ~l.no /\ l.n = k /\ t.text = u /\ ~t.no /\ t.words = w
    BY LineParts
  <1>1. /\ l.text = "exec-timeout" /\ ~l.no /\ l.n = k
        /\ t.text = "transport input" /\ ~t.no /\ t.words = w
    BY <1>0, Zenon DEF u
  <1>2. /\ TimeoutFields["line_console"] = "line_console.exec_timeout_minutes"
        /\ TimeoutFields["line_vty"] = "line_vty.exec_timeout_minutes"
    BY DEF TimeoutFields
  <1> HIDE DEF l, t
  <1>3. \A s : s.context = "line_console" => ContextReadings(s, l) = <<r1>>
    BY <1>1, <1>2, Zenon DEF ContextReadings
  <1>4. \A s : s.context = "line_vty" => ContextReadings(s, l) = <<r2>>
    BY <1>1, <1>2, Zenon DEF ContextReadings
  <1>5. \A s : s.context = "line_vty" => ContextReadings(s, t) = <<r3>>
    BY <1>1, Zenon DEF ContextReadings
  <1>6. l.text \in BlockTexts /\ t.text \in BlockTexts
    BY <1>1, Zenon DEF BlockTexts
  <1>7. "line_console" # "interface" /\ "line_vty" # "interface"
    OBVIOUS
  <1> HIDE DEF r1, r2, r3
  <1> QED BY <1>3, <1>4, <1>5, <1>6, <1>7, BlockReports DEF l, t, u, r1, r2, r3

-----------------------------------------------------------------------------
(* A text to which a template is added.                                    *)

\* It is read like the text, then on.
LEMMA Longer ==
  ASSUME NEW v, NEW m, NEW S, NEW L \in Seq(S), NEW T \in Seq(S)
  PROVE  LET f == After(v, L \o T, m)
             k == Len(L)
         IN /\ f[k] = After(v, L, m)[k]
            /\ \A i \in 1 .. Len(T) : f[k + i] = Step(v, m, f[k + i - 1], T[i])
            /\ Parse(v, L \o T, m) = End(v, f[k + Len(T)])
  <1> DEFINE M == L \o T
             f == After(v, M, m)
             g == After(v, L, m)
             k == Len(L)
             Q == {j \in Nat : j <= k => f[j] = g[j]}
  <1>1. M \in Seq(S) /\ k \in Nat /\ Len(T) \in Nat /\ Len(M) = k + Len(T)
    OBVIOUS
  <1>2. /\ \A i \in 1 .. k : M[i] = L[i]
        /\ \A i \in 1 .. Len(T) : M[k + i] = T[i]
    OBVIOUS
  <1>3. f[0] = Start(v) /\ \A i \in 1 .. Len(M) : f[i] = Step(v, m, f[i - 1], M[i])
    <2> HIDE DEF M
    <2> QED BY <1>1, AfterSteps
  <1>4. g[0] = Start(v) /\ \A i \in 1 .. k : g[i] = Step(v, m, g[i - 1], L[i])
    BY AfterSteps
  <1>5. Parse(v, M, m) = End(v, f[Len(M)])
    BY DEF Parse
  <1> HIDE DEF M, f, g, k
  <1>6. 0 \in Q
    BY <1>3, <1>4
  <1>7. ASSUME NEW j \in Nat, j \in Q PROVE j + 1 \in Q
    <2> SUFFICES ASSUME j + 1 <= k PROVE f[j + 1] = g[j + 1]
      OBVIOUS
    <2>1. f[j] = g[j] /\ j + 1 \in 1 .. k /\ j + 1 \in 1 .. Len(M) /\ (j + 1) - 1 = j
      BY <1>1, <1>7
    <2> QED BY <1>2, <1>3, <1>4, <2>1
  <1>8. k \in Q
    <2> HIDE DEF Q
    <2> QED BY <1>1, <1>6, <1>7, NatSet
  <1>9. f[k] = g[k]
    BY <1>1, <1>8
  <1>10. ASSUME NEW i \in 1 .. Len(T) PROVE f[k + i] = Step(v, m, f[k + i - 1], T[i])
    <2>1. k + i \in 1 .. Len(M) /\ M[k + i] = T[i]
      BY <1>1, <1>2
    <2>2. f[k + i] = Step(v, m, f[k + i - 1], M[k + i])
      BY <1>1, <1>3, <2>1
    <2> QED BY <2>1, <2>2
  <1> QED BY <1>1, <1>5, <1>9, <1>10 DEF M, f, g, k

\* One line more, and two.
LEMMA LongerByLines ==
  ASSUME NEW v, NEW m, NEW S, NEW L \in Seq(S), NEW T \in Seq(S)
  PROVE  LET p == After(v, L, m)[Len(L)]
             q == Step(v, m, p, T[1])
             r == Step(v, m, q, T[2])
         IN /\ Len(T) = 1 => Parse(v, L \o T, m) = End(v, q)
            /\ Len(T) = 2 => Parse(v, L \o T, m) = End(v, r)
  <1> DEFINE p == After(v, L, m)[Len(L)]
             q == Step(v, m, p, T[1])
             r == Step(v, m, q, T[2])
             k == Len(L)
             f == After(v, L \o T, m)
  <1>1. /\ f[k] = p
        /\ \A i \in 1 .. Len(T) : f[k + i] = Step(v, m, f[k + i - 1], T[i])
        /\ Parse(v, L \o T, m) = End(v, f[k + Len(T)])
    BY Longer
  <1>2. k \in Nat /\ k + 1 - 1 = k /\ k + 2 - 1 = k + 1
    OBVIOUS
  <1> HIDE DEF f, p, k
  <1>3. 1 \in 1 .. Len(T) => f[k + 1] = q
    BY <1>1, <1>2
  <1>4. 2 \in 1 .. Len(T) => f[k + 2] = Step(v, m, f[k + 1], T[2])
    BY <1>1, <1>2
  <1> QED BY <1>1, <1>3, <1>4 DEF p

\* One line more, as it is written.
LEMMA LongerByOne ==
  ASSUME NEW v, NEW m, NEW S, NEW L \in Seq(S), NEW a
  PROVE  LET p == After(v, L, m)[Len(L)] IN
         Parse(v, L \o <<a>>, m) = End(v, Step(v, m, p, a))
  <1> DEFINE U == S \cup {a}
             T == <<a>>
  <1>1. L \in Seq(U) /\ T \in Seq(U) /\ Len(T) = 1 /\ T[1] = a
    OBVIOUS
  <1> HIDE DEF U, T
  <1>2. LET p == After(v, L, m)[Len(L)] IN
        Parse(v, L \o T, m) = End(v, Step(v, m, p, a))
    BY <1>1, LongerByLines
  <1> QED BY <1>2 DEF T

\* Two lines more.
LEMMA LongerByTwo ==
  ASSUME NEW v, NEW m, NEW S, NEW L \in Seq(S), NEW a, NEW b
  PROVE  LET p == After(v, L, m)[Len(L)] IN
         Parse(v, L \o <<a, b>>, m) = End(v, Step(v, m, Step(v, m, p, a), b))
  <1> DEFINE U == S \cup {a, b}
             T == <<a, b>>
  <1>1. L \in Seq(U) /\ T \in Seq(U) /\ Len(T) = 2 /\ T[1] = a /\ T[2] = b
    OBVIOUS
  <1> HIDE DEF U, T
  <1>2. LET p == After(v, L, m)[Len(L)] IN
        Parse(v, L \o T, m) = End(v, Step(v, m, Step(v, m, p, a), b))
    BY <1>1, LongerByLines
  <1> QED BY <1>2 DEF T

\* A text whose every line was understood, with these mappings.
Understood(v, L, m) ==
  L \in Seq(LineOf(v)) /\ Mappings(m) /\ Parse(v, L, m).unknown = {}

\* The template leaves this setting with this value, and this name in a list.
SetsTo(v, T, f, x) ==
  \A L, m : Understood(v, L, m) => Get(Parse(v, L \o T, m).config, f) = x
Includes(v, T, f, x) ==
  \A L, m : Understood(v, L, m) => x \in Parse(v, L \o T, m).config.lists[f]

\* After such a text no banner of Cisco is open.
LEMMA CiscoUnderstood ==
  ASSUME NEW L, NEW m, Understood("cisco", L, m)
  PROVE  LET p == After("cisco", L, m)[Len(L)] IN
         CiscoReady(p) /\ Parse("cisco", L, m).config = p.config
  <1> DEFINE v == "cisco"
             k == Len(L)
             p == After(v, L, m)[k]
             q == End(v, p)
             o == Open(v, p.state)
  <1>1. L \in Seq(LineOf(v)) /\ Mappings(m) /\ k \in 0 .. k
    BY DEF Understood
  <1>2. Sound(v, m, L, k, p)
    BY <1>1, AlwaysSound
  <1>3. q = Parse(v, L, m)
    BY DEF Parse
  <1> HIDE DEF p, q, v
  <1>4. Ended(p, q, Facets(v, p), IF o = 0 THEN {} ELSE {o})
    BY <1>2, EndEnded DEF Sound, Good, q
  <1>5. q.unknown = {}
    BY <1>3 DEF Understood, v
  <1>6. o = 0
    BY <1>4, <1>5 DEF Ended
  <1>7. IsParse(p) /\ CiscoState(p.state)
    BY <1>2 DEF Sound, Good, StateOf, v
  <1>8. p.state.banner = NoBanner
    BY <1>6, <1>7 DEF Open, CiscoState, v
  <1>9. CiscoReady(p)
    BY <1>7, <1>8, ParseShaped DEF CiscoReady, CiscoState
  <1>10. q = p
    BY <1>8, Zenon DEF q, End, CiscoEnd, v
  <1> QED BY <1>3, <1>9, <1>10 DEF p, v

-----------------------------------------------------------------------------
(* What the templates of Cisco leave.                                      *)

\* A setting read, and the others kept.
LEMMA ReplaceSets ==
  ASSUME NEW c, ShapedConfig(c), NEW f \in ScalarFields, NEW x
  PROVE  LET d == AssignReplace(c, Reading(f, x)) IN
         ShapedConfig(d) /\ Get(d, f) = x
         /\ \A g \in ScalarFields : g # f => Get(d, g) = Get(c, g)
  <1> DEFINE r == Reading(f, x)
             d == AssignReplace(c, r)
             u == IF r.field = "line_vty.transport_input" THEN r.items
                  ELSE c.lists[r.field] \cup r.items
  <1>1. Writes(c, d, r, u)
    BY ReplaceWrites
  <1>2. r.field = f /\ r.value = x
    BY DEF Reading
  <1> HIDE DEF r, d, u
  <1>3. ShapedConfig(d) /\ Get(d, f) = x /\ \A g \in ScalarFields : g # f => Get(d, g) = Get(c, g)
    BY <1>1, <1>2 DEF Writes
  <1> QED BY <1>3 DEF d, r

\* Nothing is left to do at the end.
LEMMA ReadyEnds ==
  ASSUME NEW p, CiscoReady(p)
  PROVE  End("cisco", p) = p /\ ShapedConfig(p.config)
  <1>1. p.state.banner = NoBanner
    BY DEF CiscoReady
  <1>2. End("cisco", p) = p
    BY <1>1, Zenon DEF End, CiscoEnd
  <1> QED BY <1>2 DEF CiscoReady, Shaped

\* A template of one line, and of a block and a line.
LEMMA OneSets ==
  ASSUME NEW l, NEW f \in ScalarFields, NEW x, Reports(l, Reading(f, x))
  PROVE  SetsTo("cisco", <<l>>, f, x)
  <1> SUFFICES ASSUME NEW L, NEW m, Understood("cisco", L, m)
               PROVE  Get(Parse("cisco", L \o <<l>>, m).config, f) = x
    BY DEF SetsTo
  <1> DEFINE p == After("cisco", L, m)[Len(L)]
             q == Step("cisco", m, p, l)
             r == Reading(f, x)
  <1>1. L \in Seq(LineOf("cisco"))
    BY DEF Understood
  <1>2. Parse("cisco", L \o <<l>>, m) = End("cisco", q)
    BY <1>1, LongerByOne
  <1>3. CiscoReady(p)
    BY CiscoUnderstood
  <1> HIDE DEF p
  <1>4. CiscoReady(q) /\ q.config = AssignReplace(p.config, r)
    BY <1>3 DEF Reports
  <1> HIDE DEF q
  <1>5. Get(q.config, f) = x
    BY <1>3, <1>4, ReadyEnds, ReplaceSets
  <1> QED BY <1>2, <1>4, <1>5, ReadyEnds

\* A template of a block and a line in it.
LEMMA BlockReads ==
  ASSUME NEW a, NEW k, Enters(a, k), NEW l, NEW r, ReportsIn(k, l, r),
         NEW L, NEW m, Understood("cisco", L, m)
  PROVE  LET c == Parse("cisco", L, m).config IN
         /\ ShapedConfig(c)
         /\ Parse("cisco", L \o <<a, l>>, m).config = AssignReplace(c, r)
  <1> DEFINE p == After("cisco", L, m)[Len(L)]
             q == Step("cisco", m, p, a)
             w == Step("cisco", m, q, l)
  <1>1. L \in Seq(LineOf("cisco"))
    BY DEF Understood
  <1>2. Parse("cisco", L \o <<a, l>>, m) = End("cisco", w)
    BY <1>1, LongerByTwo
  <1>3. CiscoReady(p) /\ Parse("cisco", L, m).config = p.config
    BY CiscoUnderstood
  <1> HIDE DEF p
  <1>4. CiscoReady(q) /\ q.config = p.config /\ q.state.context = k
    BY <1>3 DEF Enters
  <1> HIDE DEF q
  <1>5. CiscoReady(w) /\ w.config = AssignReplace(q.config, r)
    BY <1>4 DEF ReportsIn
  <1> HIDE DEF w
  <1> QED BY <1>2, <1>3, <1>4, <1>5, ReadyEnds

\* So it sets what the line says.
LEMMA BlockSets ==
  ASSUME NEW a, NEW k, Enters(a, k), NEW l, NEW f \in ScalarFields, NEW x,
         ReportsIn(k, l, Reading(f, x))
  PROVE  SetsTo("cisco", <<a, l>>, f, x)
  BY BlockReads, ReplaceSets DEF SetsTo

\* A template of two lines that set two things.
LEMMA TwoSet ==
  ASSUME NEW a, NEW b, NEW f \in ScalarFields, NEW g \in ScalarFields, f # g,
         NEW x, NEW y, Reports(a, Reading(f, x)), Reports(b, Reading(g, y))
  PROVE  SetsTo("cisco", <<a, b>>, f, x) /\ SetsTo("cisco", <<a, b>>, g, y)
  <1> SUFFICES ASSUME NEW L, NEW m, Understood("cisco", L, m)
               PROVE  LET c == Parse("cisco", L \o <<a, b>>, m).config IN
                      Get(c, f) = x /\ Get(c, g) = y
    BY DEF SetsTo
  <1> DEFINE p == After("cisco", L, m)[Len(L)]
             q == Step("cisco", m, p, a)
             w == Step("cisco", m, q, b)
             r == Reading(f, x)
             s == Reading(g, y)
  <1>1. L \in Seq(LineOf("cisco"))
    BY DEF Understood
  <1>2. Parse("cisco", L \o <<a, b>>, m) = End("cisco", w)
    BY <1>1, LongerByTwo
  <1>3. CiscoReady(p)
    BY CiscoUnderstood
  <1> HIDE DEF p
  <1>4. CiscoReady(q) /\ q.config = AssignReplace(p.config, r)
    BY <1>3 DEF Reports
  <1> HIDE DEF q
  <1>5. CiscoReady(w) /\ w.config = AssignReplace(q.config, s)
    BY <1>4 DEF Reports
  <1> HIDE DEF w
  <1>6. Get(q.config, f) = x
    BY <1>3, <1>4, ReadyEnds, ReplaceSets
  <1>7. Get(w.config, f) = x /\ Get(w.config, g) = y
    BY <1>4, <1>5, <1>6, ReadyEnds, ReplaceSets
  <1> QED BY <1>2, <1>5, <1>7, ReadyEnds

\* The settings of these templates.
LEMMA SettingsNamed ==
  {"service_hardening.password_encryption", "service_hardening.finger_disabled",
   "service_hardening.tcp_small_servers_disabled",
   "service_hardening.udp_small_servers_disabled",
   "service_hardening.bootp_server_disabled", "service_hardening.http_server_disabled",
   "service_hardening.http_secure_server_enabled", "access_control.source_route_disabled",
   "aaa.new_model", "logging.timestamps_enabled", "snmp.v3_only",
   "snmp.default_communities_removed", "cdp.global_disabled", "ntp.authenticate",
   "device_info.enable_secret_type", "line_console.exec_timeout_minutes",
   "line_vty.exec_timeout_minutes", "ssh.version", "ssh.timeout_seconds",
   "ssh.auth_retries", "logging.buffered_size", "access_control.banner_motd",
   "access_control.banner_login"} \subseteq ScalarFields
  BY SMTT(30) DEF ScalarFields, BooleanFields, NumberFields, TextFields

\* The templates of one switch.
LEMMA CiscoSwitches ==
  /\ SetsTo("cisco", EncryptPasswords, "service_hardening.password_encryption", Yes)
  /\ SetsTo("cisco", HttpsOn, "service_hardening.http_secure_server_enabled", Yes)
  /\ SetsTo("cisco", LogStamps, "logging.timestamps_enabled", Yes)
  /\ SetsTo("cisco", NewModel, "aaa.new_model", Yes)
  <1>1. ASSUME NEW t, NEW f, Globally(t), Switches(t, f, Yes), f \in ScalarFields
        PROVE  SetsTo("cisco", <<Line(t)>>, f, Yes)
    <2>1. Reports(Line(t), Reading(f, Yes))
      BY <1>1, ToggleReports
    <2> QED BY <1>1, <2>1, OneSets
  <1>2. /\ SetsTo("cisco", EncryptPasswords, "service_hardening.password_encryption", Yes)
        /\ SetsTo("cisco", HttpsOn, "service_hardening.http_secure_server_enabled", Yes)
        /\ SetsTo("cisco", LogStamps, "logging.timestamps_enabled", Yes)
        /\ SetsTo("cisco", NewModel, "aaa.new_model", Yes)
    <2>1. /\ "service_hardening.password_encryption" \in ScalarFields
          /\ "service_hardening.http_secure_server_enabled" \in ScalarFields
          /\ "logging.timestamps_enabled" \in ScalarFields /\ "aaa.new_model" \in ScalarFields
      BY SettingsNamed
    <2> QED BY <1>1, <2>1, TogglesHold, GlobalTexts, Zenon
            DEF EncryptPasswords, HttpsOn, LogStamps, NewModel
  <1> QED BY <1>2

\* Those of a number.
LEMMA CiscoNumbersSet ==
  /\ SetsTo("cisco", HashSecret, "device_info.enable_secret_type", 9)
  /\ SetsTo("cisco", SshTwo, "ssh.version", 2)
  /\ SetsTo("cisco", SshTimeout, "ssh.timeout_seconds", 60)
  /\ SetsTo("cisco", SshRetries, "ssh.auth_retries", 3)
  /\ SetsTo("cisco", LogBuffer, "logging.buffered_size", 64000)
  /\ SetsTo("cisco", ConsoleTimeout, "line_console.exec_timeout_minutes", 600)
  /\ SetsTo("cisco", VtyTimeout, "line_vty.exec_timeout_minutes", 600)
  <1>1. ASSUME NEW t, NEW f, NEW k, Globally(t), Counts(t, f), f \in ScalarFields
        PROVE  SetsTo("cisco", <<NumLine(t, k)>>, f, k)
    <2>1. Reports(NumLine(t, k), Reading(f, k))
      BY <1>1, NumberReports
    <2> QED BY <1>1, <2>1, OneSets
  <1>2. /\ SetsTo("cisco", HashSecret, "device_info.enable_secret_type", 9)
        /\ SetsTo("cisco", SshTwo, "ssh.version", 2)
        /\ SetsTo("cisco", SshTimeout, "ssh.timeout_seconds", 60)
        /\ SetsTo("cisco", SshRetries, "ssh.auth_retries", 3)
    <2>1. /\ "device_info.enable_secret_type" \in ScalarFields
          /\ "ssh.version" \in ScalarFields /\ "ssh.timeout_seconds" \in ScalarFields
          /\ "ssh.auth_retries" \in ScalarFields
      BY SettingsNamed
    <2> QED BY <1>1, <2>1, NumbersHold, GlobalTexts, Zenon
            DEF HashSecret, SshTwo, SshTimeout, SshRetries
  <1>3. SetsTo("cisco", LogBuffer, "logging.buffered_size", 64000)
    <2> DEFINE k == 64000
               u == <<NumLine("logging buffered", k)>>
    <2> HIDE DEF u
    <2>1. u = u
      OBVIOUS
    <2>2. LogBuffer = u
      BY <2>1, PTL DEF LogBuffer, u
    <2>3. "logging.buffered_size" \in ScalarFields
      BY SettingsNamed
    <2> HIDE DEF k
    <2>4. SetsTo("cisco", u, "logging.buffered_size", k)
      BY <1>1, <2>3, NumbersHold, GlobalTexts, Zenon DEF u
    <2>5. SetsTo("cisco", LogBuffer, "logging.buffered_size", k)
      BY <2>2, <2>4, Zenon
    <2> QED BY <2>5 DEF k
  <1>4. /\ SetsTo("cisco", ConsoleTimeout, "line_console.exec_timeout_minutes", 600)
        /\ SetsTo("cisco", VtyTimeout, "line_vty.exec_timeout_minutes", 600)
    <2> DEFINE k == 600
               l == NumLine("exec-timeout", k)
               a == Line("line console")
    <2>1. /\ "line_console.exec_timeout_minutes" \in ScalarFields
          /\ "line_vty.exec_timeout_minutes" \in ScalarFields
      BY SettingsNamed
    <2>2. ConsoleTimeout = <<a, l>> /\ VtyTimeout = <<VtyLines, l>>
      BY Zenon DEF ConsoleTimeout, VtyTimeout
    <2>3. Enters(a, "line_console") /\ Enters(VtyLines, "line_vty")
      BY BlocksEntered, Zenon
    <2> HIDE DEF k, l, a
    <2>4. /\ ReportsIn("line_console", l, Reading("line_console.exec_timeout_minutes", k))
          /\ ReportsIn("line_vty", l, Reading("line_vty.exec_timeout_minutes", k))
      BY TerminalReports DEF l
    <2>5. /\ SetsTo("cisco", <<a, l>>, "line_console.exec_timeout_minutes", k)
          /\ SetsTo("cisco", <<VtyLines, l>>, "line_vty.exec_timeout_minutes", k)
      BY <2>1, <2>3, <2>4, BlockSets
    <2> QED BY <2>2, <2>5 DEF k
  <1> QED BY <1>2, <1>3, <1>4

\* The banners.
LEMMA CiscoGreetingsSet ==
  /\ SetsTo("cisco", BothGreetings, "access_control.banner_motd", Yes)
  /\ SetsTo("cisco", BothGreetings, "access_control.banner_login", Yes)
  <1> DEFINE a == [NumLine("banner motd", Yes) EXCEPT !.words = {Delimiter}]
             b == [NumLine("banner login", Yes) EXCEPT !.words = {Delimiter}]
  <1>1. /\ "access_control.banner_motd" \in ScalarFields
        /\ "access_control.banner_login" \in ScalarFields
        /\ "access_control.banner_motd" # "access_control.banner_login"
    BY SettingsNamed
  <1>2. BothGreetings = <<a, b>>
    BY Zenon DEF BothGreetings
  <1>3. /\ Reports(a, Reading("access_control.banner_motd", Yes))
        /\ Reports(b, Reading("access_control.banner_login", Yes))
    BY BannersHold, BannerReports, Zenon
  <1> HIDE DEF a, b
  <1> QED BY <1>1, <1>2, <1>3, TwoSet

\* And those of a list.
LEMMA CiscoListsSet ==
  /\ \A L, m : Understood("cisco", L, m) =>
       Parse("cisco", L \o VtySsh, m).config.lists["line_vty.transport_input"] = {"ssh"}
  /\ Includes("cisco", NtpServer, "ntp.servers", "NTP_SERVER_ADDRESS")
  <1>0. /\ "line_vty.transport_input" \in ListFields /\ "ntp.servers" \in ListFields
        /\ "ntp.servers" # "line_vty.transport_input"
    BY DEF ListFields
  <1>1. ASSUME NEW L, NEW m, Understood("cisco", L, m)
        PROVE  Parse("cisco", L \o VtySsh, m).config.lists["line_vty.transport_input"] = {"ssh"}
    <2> DEFINE u == "transport input"
               w == {"ssh"}
               l == WordLine(u, w)
               f == "line_vty.transport_input"
               r == Listing(f, w)
               c == Parse("cisco", L, m).config
               d == Parse("cisco", L \o <<VtyLines, l>>, m).config
    <2>1. VtySsh = <<VtyLines, l>>
      BY Zenon DEF VtySsh
    <2>2. ReportsIn("line_vty", l, r)
      BY TerminalReports, Zenon
    <2>3. r.field = f /\ r.items = w
      BY DEF Listing
    <2>0. Enters(VtyLines, "line_vty")
      BY BlocksEntered, Zenon
    <2> HIDE DEF u, w, l, r
    <2>4. ShapedConfig(c) /\ d = AssignReplace(c, r)
      BY <1>1, <2>0, <2>2, BlockReads
    <2> HIDE DEF c, d
    <2>5. Writes(c, d, r, r.items)
      BY <2>3, <2>4, ReplaceWrites
    <2>6. d.lists[f] = w
      BY <1>0, <2>3, <2>5 DEF Writes
    <2> QED BY <2>1, <2>6 DEF d, w
  <1>2. ASSUME NEW L, NEW m, Understood("cisco", L, m)
        PROVE  "NTP_SERVER_ADDRESS"
                 \in Parse("cisco", L \o NtpServer, m).config.lists["ntp.servers"]
    <2> DEFINE u == "ntp server"
               x == "NTP_SERVER_ADDRESS"
               w == {x}
               l == WordLine(u, w)
               f == "ntp.servers"
               r == Listing(f, w)
               p == After("cisco", L, m)[Len(L)]
               q == Step("cisco", m, p, l)
    <2>1. NtpServer = <<l>>
      BY Zenon DEF NtpServer
    <2>2. Reports(l, r)
      BY ServerReports, Zenon
    <2>3. r.field = f /\ r.items = w /\ x \in w
      BY DEF Listing
    <2> HIDE DEF u, x, w, l, r
    <2>4. L \in Seq(LineOf("cisco"))
      BY <1>2 DEF Understood
    <2>5. Parse("cisco", L \o <<l>>, m) = End("cisco", q)
      BY <2>4, LongerByOne
    <2>6. CiscoReady(p)
      BY <1>2, CiscoUnderstood
    <2> HIDE DEF p
    <2>7. CiscoReady(q) /\ q.config = AssignReplace(p.config, r)
      BY <2>2, <2>6 DEF Reports
    <2> HIDE DEF q
    <2>8. Writes(p.config, q.config, r, p.config.lists[r.field] \cup r.items)
      BY <1>0, <2>3, <2>6, <2>7, ReplaceWrites, ReadyEnds
    <2>9. x \in q.config.lists[f]
      BY <1>0, <2>3, <2>8 DEF Writes
    <2> QED BY <2>1, <2>5, <2>7, <2>9, ReadyEnds DEF x
  <1> QED BY <1>1, <1>2 DEF Includes

-----------------------------------------------------------------------------
(* What a template repairs.                                                *)

\* A control that fails of such a text, with no mapping for what it reads.
Failing(v, L, m, r) ==
  /\ Verdict(r, Parse(v, L, m).config) = FAIL
  /\ \A k \in DOMAIN m : m[k].field \notin Range(r.fields)

\* The lines repair the control, wherever they are added to the text it fails of.
Repairs(v, T, r) ==
  \A L, m : Understood(v, L, m) /\ Failing(v, L, m, r) =>
    Verdict(r, Parse(v, L \o T, m).config) # FAIL

\* If the vendor has a template for the control that takes nothing away, its lines do.
Repaired(v, r) ==
  LET b == DeterministicRemediation(v, r.ref) IN
  b # NoTemplate /\ b.takes = {} => Repairs(v, b.shows, r)

\* What the tests ask of one setting.
LEMMA SettingPasses ==
  ASSUME NEW c, NEW r, NEW f, r.fields[1] = f
  PROVE  /\ r.test = "bool" /\ Get(c, f) = Yes => Verdict(r, c) # FAIL
         /\ r.test = "most" /\ r.bound \in Int /\ Get(c, f) = r.bound => Verdict(r, c) # FAIL
         /\ r.test = "least" /\ r.bound \in Int /\ Get(c, f) \in Int /\ Get(c, f) >= r.bound
              => Verdict(r, c) # FAIL
         /\ r.test = "ssh2" /\ Get(c, f) = 2 => Verdict(r, c) # FAIL
         /\ r.test = "secret" /\ Get(c, f) = 9 => Verdict(r, c) # FAIL
  <1> DEFINE x == Get(c, f)
  <1>1. /\ r.test = "bool" => Verdict(r, c) = RequiredBool(x)
        /\ r.test = "most" => Verdict(r, c) = AtMost(x, r.bound)
        /\ r.test = "least" => Verdict(r, c) = AtLeast(x, r.bound)
        /\ r.test = "ssh2" => Verdict(r, c) = MemberOf(x, {2})
        /\ r.test = "secret" => Verdict(r, c) = MemberOf(x, {5, 8, 9})
    BY DEF Verdict
  <1> HIDE DEF x
  <1>2. /\ x = Yes => RequiredBool(x) # FAIL
        /\ x = 2 => MemberOf(x, {2}) # FAIL
        /\ x = 9 => MemberOf(x, {5, 8, 9}) # FAIL
    BY DEF RequiredBool, MemberOf, Yes, No, PASS, FAIL, NA
  <1>3. /\ r.bound \in Int /\ x = r.bound => AtMost(x, r.bound) # FAIL
        /\ r.bound \in Int /\ x \in Int /\ x >= r.bound => AtLeast(x, r.bound) # FAIL
    BY DEF AtMost, AtLeast, PASS, FAIL, NA
  <1> QED BY <1>1, <1>2, <1>3 DEF x

\* What they ask of two, and of lists and interfaces.
LEMMA SettingsPass ==
  ASSUME NEW c, NEW r, NEW f, NEW g, r.fields[1] = f, r.fields[2] = g
  PROVE  /\ r.test = "both" /\ Get(c, f) = Yes /\ Get(c, g) = Yes => Verdict(r, c) # FAIL
         /\ r.test = "banners" /\ Get(c, f) = Yes /\ Get(c, g) = Yes => Verdict(r, c) # FAIL
         /\ r.test = "secure_http" /\ Get(c, g) = Yes => Verdict(r, c) # FAIL
  <1> DEFINE x == Get(c, f)
             y == Get(c, g)
  <1>1. /\ r.test = "both" => Verdict(r, c) = BothOf(x, y)
        /\ r.test = "banners" => Verdict(r, c) = BothBanners(x, y)
        /\ r.test = "secure_http" => Verdict(r, c) = SecureHttp(x, y)
    BY DEF Verdict
  <1> HIDE DEF x, y
  <1>2. x = Yes /\ y = Yes => BothOf(x, y) # FAIL /\ BothBanners(x, y) # FAIL
    BY DEF BothOf, BothBanners, Yes, No, Unset, PASS, FAIL, NA
  <1>3. y = Yes => SecureHttp(x, y) # FAIL
    BY DEF SecureHttp, PASS, FAIL, NA
  <1> QED BY <1>1, <1>2, <1>3 DEF x, y

\* The same of the lists and of the interfaces.
LEMMA ListsPass ==
  ASSUME NEW c, NEW r, NEW f, r.fields[1] = f
  PROVE  /\ r.test = "ssh_only" /\ c.lists[f] = {"ssh"} => Verdict(r, c) # FAIL
         /\ r.test = "ssh_only" /\ Verdict(r, c) = FAIL => c.lists[f] # {} /\ c.lists[f] # {"ssh"}
         /\ r.test = "ntp" /\ c.lists[f] # {""} => Verdict(r, c) # FAIL
         /\ r.test = "cdp" /\ Get(c, f) = Yes => Verdict(r, c) # FAIL
         /\ r.test = "no_evidence" => Verdict(r, c) # FAIL
  <1> DEFINE x == Get(c, f)
             s == c.lists[f]
  <1>1. /\ r.test = "ssh_only" => Verdict(r, c) = OnlySsh(s)
        /\ r.test = "ntp" => Verdict(r, c) = NtpServers(s)
        /\ r.test = "cdp" => Verdict(r, c) = CdpDisabled(x, c.interfaces)
        /\ r.test = "no_evidence" => Verdict(r, c) = NA
    BY DEF Verdict
  <1> HIDE DEF x, s
  <1>2. /\ s = {"ssh"} => OnlySsh(s) # FAIL
        /\ OnlySsh(s) = FAIL => s # {} /\ s # {"ssh"}
    BY DEF OnlySsh, PASS, FAIL, NA
  <1>3. s # {""} => NtpServers(s) # FAIL
    BY Zenon DEF NtpServers, PASS, FAIL, NA
  <1>4. x = Yes => CdpDisabled(x, c.interfaces) = PASS
    BY DEF CdpDisabled, Yes, No
  <1>5. PASS # FAIL /\ NA # FAIL
    BY DEF PASS, FAIL, NA
  <1>6. /\ r.test = "ssh_only" /\ s = {"ssh"} => Verdict(r, c) # FAIL
        /\ r.test = "ssh_only" /\ Verdict(r, c) = FAIL => s # {} /\ s # {"ssh"}
        /\ r.test = "cdp" /\ x = Yes => Verdict(r, c) # FAIL
        /\ r.test = "no_evidence" => Verdict(r, c) # FAIL
    BY <1>1, <1>2, <1>4, <1>5
  <1>7. r.test = "ntp" /\ s # {""} => Verdict(r, c) # FAIL
    BY <1>1, <1>3, Zenon
  <1> QED BY <1>6, <1>7, Zenon DEF x, s

\* A template that leaves one setting as its test asks.
LEMMA OneRepairs ==
  ASSUME NEW v, NEW T, NEW r, NEW f, r.fields[1] = f
  PROVE  /\ r.test \in {"bool", "cdp"} /\ SetsTo(v, T, f, Yes) => Repairs(v, T, r)
         /\ r.test = "most" /\ r.bound \in Int /\ SetsTo(v, T, f, r.bound) => Repairs(v, T, r)
         /\ \A k \in Int : r.test = "least" /\ r.bound \in Int /\ k >= r.bound
              /\ SetsTo(v, T, f, k) => Repairs(v, T, r)
         /\ r.test = "ssh2" /\ SetsTo(v, T, f, 2) => Repairs(v, T, r)
         /\ r.test = "secret" /\ SetsTo(v, T, f, 9) => Repairs(v, T, r)
  <1>1. r.test \in {"bool", "cdp"} /\ SetsTo(v, T, f, Yes) => Repairs(v, T, r)
    <2>1. \A c : r.test \in {"bool", "cdp"} /\ Get(c, f) = Yes => Verdict(r, c) # FAIL
      <3>1. \A c : r.test = "cdp" /\ Get(c, f) = Yes => Verdict(r, c) # FAIL
        BY ListsPass, Zenon
      <3> QED BY <3>1, SettingPasses
    <2> QED BY <2>1 DEF SetsTo, Repairs
  <1>2. r.test = "most" /\ r.bound \in Int /\ SetsTo(v, T, f, r.bound) => Repairs(v, T, r)
    BY SettingPasses DEF SetsTo, Repairs
  <1>3. ASSUME NEW k \in Int, r.test = "least", r.bound \in Int, k >= r.bound,
               SetsTo(v, T, f, k)
        PROVE  Repairs(v, T, r)
    BY <1>3, SettingPasses DEF SetsTo, Repairs
  <1>4. /\ r.test = "ssh2" /\ SetsTo(v, T, f, 2) => Repairs(v, T, r)
        /\ r.test = "secret" /\ SetsTo(v, T, f, 9) => Repairs(v, T, r)
    BY SettingPasses DEF SetsTo, Repairs
  <1> QED BY <1>1, <1>2, <1>3, <1>4

\* One that leaves two.
LEMMA TwoRepair ==
  ASSUME NEW v, NEW T, NEW r, NEW f, NEW g, r.fields[1] = f, r.fields[2] = g
  PROVE  /\ r.test \in {"both", "banners"} /\ SetsTo(v, T, f, Yes) /\ SetsTo(v, T, g, Yes)
              => Repairs(v, T, r)
         /\ r.test = "secure_http" /\ SetsTo(v, T, g, Yes) => Repairs(v, T, r)
  BY SettingsPass DEF SetsTo, Repairs

\* One that leaves a server among the others.
LEMMA ServerRepairs ==
  ASSUME NEW v, NEW T, NEW r, NEW f, r.fields[1] = f, r.test = "ntp",
         NEW x, x # "", Includes(v, T, f, x)
  PROVE  Repairs(v, T, r)
  <1>1. \A s : x \in s => s # {""}
    BY Zenon
  <1>2. \A c : x \in c.lists[f] => Verdict(r, c) # FAIL
    BY <1>1, ListsPass, Zenon
  <1> QED BY <1>2, Zenon DEF Includes, Repairs

\* The parts of a row of each form.
LEMMA FormParts ==
  /\ \A id, f, ref : LET r == Bool(id, f, ref) IN
       r.test = "bool" /\ r.fields = <<f>> /\ r.ref = ref
  /\ \A id, f, bound, ref : LET r == Most(id, f, bound, ref) IN
       r.test = "most" /\ r.fields = <<f>> /\ r.bound = bound /\ r.ref = ref
  /\ \A id, f, bound, ref : LET r == Least(id, f, bound, ref) IN
       r.test = "least" /\ r.fields = <<f>> /\ r.bound = bound /\ r.ref = ref
  /\ \A id, test, fields, ref : LET r == Rule(id, test, fields, ref) IN
       r.test = test /\ r.fields = fields /\ r.ref = ref
  BY DEF Bool, Most, Least, Rule, Control

\* A control whose template shows lines that repair it.
LEMMA ByRemedy ==
  ASSUME NEW v, NEW r, NEW T, Remedy(v, r.ref, Shows(T)), Repairs(v, T, r)
  PROVE  Repaired(v, r)
  <1>1. Shows(T).shows = T
    BY DEF Shows, Block
  <1> QED BY <1>1 DEF Remedy, Repaired

\* A reference without a template, or with one that takes something away.
Taking(v, ref) ==
  LET b == DeterministicRemediation(v, ref) IN b = NoTemplate \/ b.takes # {}

\* Of its controls nothing is asked here.
LEMMA TakingRepaired ==
  ASSUME NEW v, NEW ref, Taking(v, ref), NEW id
  PROVE  /\ \A f : Repaired(v, Bool(id, f, ref))
         /\ \A test, fields : Repaired(v, Rule(id, test, fields, ref))
  <1>1. ASSUME NEW r, r.ref = ref PROVE Repaired(v, r)
    BY <1>1 DEF Taking, Repaired
  <1>2. /\ \A f : Bool(id, f, ref).ref = ref
        /\ \A test, fields : Rule(id, test, fields, ref).ref = ref
    BY FormParts
  <1> QED BY <1>1, <1>2

\* These take something away, or are none.
LEMMA Takers ==
  /\ \A ref \in {"1.2.1", "1.2.2", "1.2.4", "1.2.5", "1.2.6", "1.3.1", "1.8.1", "1.10.1",
                  "snmp.v3", "services.minimal"} : Taking("cisco", ref)
  /\ \A ref \in {"http.disabled", "ssh.only", "snmp.v3", "services.minimal"} :
       Taking("juniper", ref)
  <1>1. ASSUME NEW v, NEW ref, NEW c, Remedy(v, ref, Takes(c)) PROVE Taking(v, ref)
    BY <1>1 DEF Remedy, Taking, Takes, Block
  <1>2. ASSUME NEW v, NEW ref, NEW C, NEW T, NEW c \in C, Remedy(v, ref, Block(C, T))
        PROVE  Taking(v, ref)
    BY <1>2 DEF Remedy, Taking, Block
  <1>3. ASSUME NEW v, NEW ref, Remedy(v, ref, NoTemplate) PROVE Taking(v, ref)
    BY <1>3 DEF Remedy, Taking
  <1>4. /\ Taking("cisco", "1.2.1") /\ Taking("cisco", "1.2.2") /\ Taking("cisco", "1.2.4")
        /\ Taking("cisco", "1.2.5") /\ Taking("cisco", "1.2.6") /\ Taking("cisco", "1.3.1")
        /\ Taking("cisco", "1.10.1")
    BY <1>1, CiscoRemedies, Zenon DEF FingerOff, HttpOff, TcpSmallOff, UdpSmallOff, BootpOff,
       SourceRouteOff, CdpOff
  <1>5. Taking("cisco", "1.8.1") /\ Taking("cisco", "snmp.v3")
    BY <1>2, CiscoRemedies, Zenon DEF NoCommunities
  <1>6. Taking("juniper", "http.disabled")
    BY <1>1, JunosRemedies, Zenon DEF HttpTemplate
  <1>7. Taking("juniper", "ssh.only") /\ Taking("juniper", "snmp.v3")
    BY <1>2, JunosRemedies, Zenon DEF JunosSshOnly, JunosCommunities
  <1>8. Taking("cisco", "services.minimal") /\ Taking("juniper", "services.minimal")
    BY <1>3, CiscoRemedies, JunosRemedies, Zenon
  <1> QED BY <1>4, <1>5, <1>6, <1>7, <1>8

\* The rows that ask one setting.
LEMMA RowsOfOne ==
  ASSUME NEW v, NEW ref, NEW T, Remedy(v, ref, Shows(T)), NEW f, NEW id
  PROVE  /\ SetsTo(v, T, f, Yes) => Repaired(v, Bool(id, f, ref))
         /\ \A g : SetsTo(v, T, f, Yes) => Repaired(v, Rule(id, "cdp", <<f, g>>, ref))
         /\ \A b \in Int : SetsTo(v, T, f, b) => Repaired(v, Most(id, f, b, ref))
         /\ \A b, k \in Int : SetsTo(v, T, f, k) /\ k >= b
                                => Repaired(v, Least(id, f, b, ref))
         /\ SetsTo(v, T, f, 2) => Repaired(v, Rule(id, "ssh2", <<f>>, ref))
         /\ SetsTo(v, T, f, 9) => Repaired(v, Rule(id, "secret", <<f>>, ref))
  <1>1. SetsTo(v, T, f, Yes) => Repaired(v, Bool(id, f, ref))
    <2> DEFINE r == Bool(id, f, ref)
    <2>1. r.test = "bool" /\ r.fields[1] = f /\ r.ref = ref
      BY FormParts
    <2> HIDE DEF r
    <2> QED BY <2>1, OneRepairs, ByRemedy DEF r
  <1>2. ASSUME NEW g, SetsTo(v, T, f, Yes) PROVE Repaired(v, Rule(id, "cdp", <<f, g>>, ref))
    <2> DEFINE r == Rule(id, "cdp", <<f, g>>, ref)
    <2>1. r.test = "cdp" /\ r.fields[1] = f /\ r.ref = ref
      BY FormParts
    <2> HIDE DEF r
    <2> QED BY <1>2, <2>1, OneRepairs, ByRemedy DEF r
  <1>3. ASSUME NEW b \in Int, SetsTo(v, T, f, b) PROVE Repaired(v, Most(id, f, b, ref))
    <2> DEFINE r == Most(id, f, b, ref)
    <2>1. r.test = "most" /\ r.fields[1] = f /\ r.bound = b /\ r.ref = ref
      BY FormParts
    <2> HIDE DEF r
    <2> QED BY <1>3, <2>1, OneRepairs, ByRemedy DEF r
  <1>4. ASSUME NEW b \in Int, NEW k \in Int, SetsTo(v, T, f, k), k >= b
        PROVE  Repaired(v, Least(id, f, b, ref))
    <2> DEFINE r == Least(id, f, b, ref)
    <2>1. r.test = "least" /\ r.fields[1] = f /\ r.bound = b /\ r.ref = ref
      BY FormParts
    <2> HIDE DEF r
    <2>2. Repairs(v, T, r)
      BY <1>4, <2>1, OneRepairs
    <2> QED BY <2>1, <2>2, ByRemedy DEF r
  <1>5. SetsTo(v, T, f, 2) => Repaired(v, Rule(id, "ssh2", <<f>>, ref))
    <2> DEFINE r == Rule(id, "ssh2", <<f>>, ref)
    <2>1. r.test = "ssh2" /\ r.fields[1] = f /\ r.ref = ref
      BY FormParts
    <2> HIDE DEF r
    <2> QED BY <2>1, OneRepairs, ByRemedy DEF r
  <1>6. SetsTo(v, T, f, 9) => Repaired(v, Rule(id, "secret", <<f>>, ref))
    <2> DEFINE r == Rule(id, "secret", <<f>>, ref)
    <2>1. r.test = "secret" /\ r.fields[1] = f /\ r.ref = ref
      BY FormParts
    <2> HIDE DEF r
    <2> QED BY <2>1, OneRepairs, ByRemedy DEF r
  <1> QED BY <1>1, <1>2, <1>3, <1>4, <1>5, <1>6

\* A template that leaves the bound itself.
LEMMA BoundRows ==
  ASSUME NEW v, NEW ref, NEW T, Remedy(v, ref, Shows(T)), NEW f, NEW k \in Int, SetsTo(v, T, f, k)
  PROVE  \A id : Repaired(v, Most(id, f, k, ref)) /\ Repaired(v, Least(id, f, k, ref))
  <1> SUFFICES ASSUME NEW id
               PROVE  Repaired(v, Most(id, f, k, ref)) /\ Repaired(v, Least(id, f, k, ref))
    OBVIOUS
  <1>1. Repaired(v, Most(id, f, k, ref))
    BY RowsOfOne
  <1>2. \A b, j \in Int : SetsTo(v, T, f, j) /\ j >= b => Repaired(v, Least(id, f, b, ref))
    BY RowsOfOne
  <1> QED BY <1>1, <1>2

\* Those that ask two, or a list.
LEMMA RowsOfMore ==
  ASSUME NEW v, NEW ref, NEW T, Remedy(v, ref, Shows(T)), NEW f, NEW g, NEW id
  PROVE  /\ SetsTo(v, T, f, Yes) /\ SetsTo(v, T, g, Yes)
              => /\ Repaired(v, Rule(id, "both", <<f, g>>, ref))
                 /\ Repaired(v, Rule(id, "banners", <<f, g>>, ref))
         /\ SetsTo(v, T, g, Yes) => Repaired(v, Rule(id, "secure_http", <<f, g>>, ref))
         /\ \A x : x # "" /\ Includes(v, T, f, x) => Repaired(v, Rule(id, "ntp", <<f>>, ref))
  <1> DEFINE r1 == Rule(id, "both", <<f, g>>, ref)
             r2 == Rule(id, "banners", <<f, g>>, ref)
             r3 == Rule(id, "secure_http", <<f, g>>, ref)
             r4 == Rule(id, "ntp", <<f>>, ref)
  <1>1. /\ r1.test = "both" /\ r1.fields[1] = f /\ r1.fields[2] = g /\ r1.ref = ref
        /\ r2.test = "banners" /\ r2.fields[1] = f /\ r2.fields[2] = g /\ r2.ref = ref
        /\ r3.test = "secure_http" /\ r3.fields[1] = f /\ r3.fields[2] = g /\ r3.ref = ref
        /\ r4.test = "ntp" /\ r4.fields[1] = f /\ r4.ref = ref
    BY FormParts
  <1> HIDE DEF r1, r2, r3, r4
  <1>2. /\ SetsTo(v, T, f, Yes) /\ SetsTo(v, T, g, Yes) => Repaired(v, r1) /\ Repaired(v, r2)
        /\ SetsTo(v, T, g, Yes) => Repaired(v, r3)
    BY <1>1, TwoRepair, ByRemedy
  <1>3. ASSUME NEW x, x # "", Includes(v, T, f, x) PROVE Repaired(v, r4)
    <2>1. Repairs(v, T, r4)
      BY <1>1, <1>3, ServerRepairs, Zenon
    <2> QED BY <1>1, <2>1, ByRemedy
  <1> QED BY <1>2, <1>3, Zenon DEF r1, r2, r3, r4

-----------------------------------------------------------------------------
(* The catalogues of Cisco.                                                *)

\* The rows of a list.
LEMMA CiscoListsRepaired ==
  ASSUME NEW id
  PROVE  /\ Repaired("cisco", Rule(id, "ssh_only", <<"line_vty.transport_input">>, "1.5.3"))
         /\ Repaired("cisco", SshOnly(id))
         /\ Repaired("cisco", Rule(id, "ntp", <<"ntp.servers">>, "1.7.1"))
         /\ Repaired("cisco", Ntp(id))
         /\ Repaired("cisco", Rule(id, "no_evidence", <<"interfaces">>, "1.3.2"))
  <1>1. ASSUME NEW ref, Remedy("cisco", ref, Shows(VtySsh))
        PROVE  Repaired("cisco", Rule(id, "ssh_only", <<"line_vty.transport_input">>, ref))
    <2> DEFINE f == "line_vty.transport_input"
               r == Rule(id, "ssh_only", <<f>>, ref)
    <2>1. r.test = "ssh_only" /\ r.fields[1] = f /\ r.ref = ref
      BY FormParts
    <2> HIDE DEF r
    <2>2. Repairs("cisco", VtySsh, r)
      BY <2>1, CiscoListsSet, ListsPass, Zenon DEF Repairs, f
    <2> QED BY <1>1, <2>1, <2>2, ByRemedy DEF r
  <1>2. ASSUME NEW ref, Remedy("cisco", ref, Shows(NtpServer))
        PROVE  Repaired("cisco", Rule(id, "ntp", <<"ntp.servers">>, ref))
    <2>1. "NTP_SERVER_ADDRESS" # ""
      BY Zenon
    <2>2. Includes("cisco", NtpServer, "ntp.servers", "NTP_SERVER_ADDRESS")
      BY CiscoListsSet
    <2> QED BY <1>2, <2>1, <2>2, RowsOfMore, Zenon
  <1>3. Repaired("cisco", Rule(id, "no_evidence", <<"interfaces">>, "1.3.2"))
    <2> DEFINE r == Rule(id, "no_evidence", <<"interfaces">>, "1.3.2")
    <2>1. r.test = "no_evidence"
      BY FormParts
    <2> HIDE DEF r
    <2>2. \A c : Verdict(r, c) # FAIL
      BY <2>1, ListsPass, Zenon
    <2>3. Repaired("cisco", r)
      BY <2>2 DEF Repaired, Repairs
    <2> QED BY <2>3 DEF r
  <1>4. /\ Remedy("cisco", "1.5.3", Shows(VtySsh)) /\ Remedy("cisco", "ssh.only", Shows(VtySsh))
        /\ Remedy("cisco", "1.7.1", Shows(NtpServer))
        /\ Remedy("cisco", "ntp.servers", Shows(NtpServer))
    BY CiscoRemedies
  <1> QED BY <1>1, <1>2, <1>3, <1>4, Zenon DEF SshOnly, Ntp

\* CIS's own rows of switches.
LEMMA CiscoSwitchesRepaired ==
  \A id :
    /\ Repaired("cisco", Bool(id, "service_hardening.password_encryption", "1.1.1"))
    /\ Repaired("cisco", Bool(id, "service_hardening.finger_disabled", "1.2.1"))
    /\ Repaired("cisco", Bool(id, "service_hardening.http_server_disabled", "1.2.2"))
    /\ Repaired("cisco", Bool(id, "service_hardening.tcp_small_servers_disabled", "1.2.4"))
    /\ Repaired("cisco", Bool(id, "service_hardening.udp_small_servers_disabled", "1.2.5"))
    /\ Repaired("cisco", Bool(id, "service_hardening.bootp_server_disabled", "1.2.6"))
    /\ Repaired("cisco", Bool(id, "access_control.source_route_disabled", "1.3.1"))
    /\ Repaired("cisco", Bool(id, "logging.timestamps_enabled", "1.6.2"))
    /\ Repaired("cisco", Bool(id, "aaa.new_model", "1.9.1"))
    /\ Repaired("cisco", Rule(id, "cdp", <<"cdp.global_disabled", "interfaces">>, "1.10.1"))
    /\ Repaired("cisco", Rule(id, "secure_http",
         <<"service_hardening.http_server_disabled",
           "service_hardening.http_secure_server_enabled">>, "1.2.3"))
  <1>1. \A id, ref, T, f : Remedy("cisco", ref, Shows(T)) /\ SetsTo("cisco", T, f, Yes)
          => /\ Repaired("cisco", Bool(id, f, ref))
             /\ \A g : Repaired("cisco", Rule(id, "cdp", <<f, g>>, ref))
             /\ \A g : Repaired("cisco", Rule(id, "secure_http", <<g, f>>, ref))
    BY RowsOfOne, RowsOfMore, Zenon
  <1>2. \A id, ref : Taking("cisco", ref) => /\ \A f : Repaired("cisco", Bool(id, f, ref))
                                           /\ \A test, fields :
                                                Repaired("cisco", Rule(id, test, fields, ref))
    BY TakingRepaired, Zenon
  <1>3. /\ Taking("cisco", "1.2.1") /\ Taking("cisco", "1.2.2") /\ Taking("cisco", "1.2.4")
        /\ Taking("cisco", "1.2.5") /\ Taking("cisco", "1.2.6") /\ Taking("cisco", "1.3.1")
        /\ Taking("cisco", "1.10.1")
    BY Takers
  <1> QED BY <1>1, <1>2, <1>3, CiscoRemedies, CiscoSwitches, ZenonT(60)

\* Its rows of numbers and of more than one setting.
LEMMA CiscoNumbersRepaired ==
  \A id :
    /\ Repaired("cisco", Rule(id, "secret", <<"device_info.enable_secret_type">>, "1.1.2"))
    /\ Repaired("cisco", Most(id, "line_console.exec_timeout_minutes", Timeout, "1.5.1"))
    /\ Repaired("cisco", Idle(id, "1.5.2"))
    /\ Repaired("cisco", Rule(id, "ssh2", <<"ssh.version">>, "1.5.4"))
    /\ Repaired("cisco", Most(id, "ssh.timeout_seconds", 60, "1.5.5"))
    /\ Repaired("cisco", Most(id, "ssh.auth_retries", 3, "1.5.6"))
    /\ Repaired("cisco", Least(id, "logging.buffered_size", Buffer, "1.6.1"))
    /\ Repaired("cisco", Rule(id, "banners",
         <<"access_control.banner_motd", "access_control.banner_login">>, "1.4.1"))
    /\ Repaired("cisco", Rule(id, "both",
         <<"snmp.v3_only", "snmp.default_communities_removed">>, "1.8.1"))
  <1>0. /\ Remedy("cisco", "1.1.2", Shows(HashSecret))
        /\ SetsTo("cisco", HashSecret, "device_info.enable_secret_type", 9)
        /\ Remedy("cisco", "1.5.4", Shows(SshTwo)) /\ SetsTo("cisco", SshTwo, "ssh.version", 2)
        /\ Remedy("cisco", "1.5.1", Shows(ConsoleTimeout))
        /\ SetsTo("cisco", ConsoleTimeout, "line_console.exec_timeout_minutes", 600)
        /\ Remedy("cisco", "1.5.2", Shows(VtyTimeout))
        /\ SetsTo("cisco", VtyTimeout, "line_vty.exec_timeout_minutes", 600)
        /\ Remedy("cisco", "1.5.5", Shows(SshTimeout))
        /\ SetsTo("cisco", SshTimeout, "ssh.timeout_seconds", 60)
        /\ Remedy("cisco", "1.5.6", Shows(SshRetries))
        /\ SetsTo("cisco", SshRetries, "ssh.auth_retries", 3)
    BY CiscoRemedies, CiscoNumbersSet
  <1>1. \A id, ref, T, f : Remedy("cisco", ref, Shows(T))
          => /\ SetsTo("cisco", T, f, 9) => Repaired("cisco", Rule(id, "secret", <<f>>, ref))
             /\ SetsTo("cisco", T, f, 2) => Repaired("cisco", Rule(id, "ssh2", <<f>>, ref))
             /\ \A b \in Int : SetsTo("cisco", T, f, b) => Repaired("cisco", Most(id, f, b, ref))
    BY RowsOfOne
  <1>2. \A id, ref, T, f, g : Remedy("cisco", ref, Shows(T))
          /\ SetsTo("cisco", T, f, Yes) /\ SetsTo("cisco", T, g, Yes)
          => /\ Repaired("cisco", Rule(id, "banners", <<f, g>>, ref))
             /\ Repaired("cisco", Rule(id, "both", <<f, g>>, ref))
    BY RowsOfMore, Zenon
  <1>4. \A id : Repaired("cisco", Least(id, "logging.buffered_size", 64000, "1.6.1"))
    <2> DEFINE k == 64000
    <2>1. /\ Remedy("cisco", "1.6.1", Shows(LogBuffer)) /\ k \in Int
          /\ SetsTo("cisco", LogBuffer, "logging.buffered_size", k)
      BY CiscoRemedies, CiscoNumbersSet
    <2> HIDE DEF k
    <2>2. \A id : Repaired("cisco", Least(id, "logging.buffered_size", k, "1.6.1"))
      BY <2>1, BoundRows
    <2> QED BY <2>2 DEF k
  <1>5. \A id :
    /\ Repaired("cisco", Rule(id, "secret", <<"device_info.enable_secret_type">>, "1.1.2"))
    /\ Repaired("cisco", Rule(id, "ssh2", <<"ssh.version">>, "1.5.4"))
    BY <1>0, <1>1
  <1>6. \A id :
    /\ Repaired("cisco", Most(id, "line_console.exec_timeout_minutes", 600, "1.5.1"))
    /\ Repaired("cisco", Most(id, "line_vty.exec_timeout_minutes", 600, "1.5.2"))
    /\ Repaired("cisco", Most(id, "ssh.timeout_seconds", 60, "1.5.5"))
    /\ Repaired("cisco", Most(id, "ssh.auth_retries", 3, "1.5.6"))
    <2> DEFINE b == 600
               c == 60
               d == 3
    <2>1. b \in Int /\ c \in Int /\ d \in Int
      OBVIOUS
    <2>2. /\ SetsTo("cisco", ConsoleTimeout, "line_console.exec_timeout_minutes", b)
          /\ SetsTo("cisco", VtyTimeout, "line_vty.exec_timeout_minutes", b)
          /\ SetsTo("cisco", SshTimeout, "ssh.timeout_seconds", c)
          /\ SetsTo("cisco", SshRetries, "ssh.auth_retries", d)
      BY <1>0
    <2> HIDE DEF b, c, d
    <2>3. \A id :
            /\ Repaired("cisco", Most(id, "line_console.exec_timeout_minutes", b, "1.5.1"))
            /\ Repaired("cisco", Most(id, "line_vty.exec_timeout_minutes", b, "1.5.2"))
            /\ Repaired("cisco", Most(id, "ssh.timeout_seconds", c, "1.5.5"))
            /\ Repaired("cisco", Most(id, "ssh.auth_retries", d, "1.5.6"))
      BY <1>0, <1>1, <2>1, <2>2
    <2> QED BY <2>3 DEF b, c, d
  <1>7. \A id :
    Repaired("cisco", Rule(id, "banners",
      <<"access_control.banner_motd", "access_control.banner_login">>, "1.4.1"))
    BY <1>2, CiscoRemedies, CiscoGreetingsSet
  <1>8. \A id :
    Repaired("cisco", Rule(id, "both",
      <<"snmp.v3_only", "snmp.default_communities_removed">>, "1.8.1"))
    <2>1. Taking("cisco", "1.8.1")
      BY Takers
    <2> QED BY <2>1, TakingRepaired
  <1> QED BY <1>4, <1>5, <1>6, <1>7, <1>8 DEF Idle, Timeout, Buffer

\* The rows that the neutral catalogues are made of.
SharedRepaired(v) ==
  \A id :
    /\ Repaired(v, Ssh2(id)) /\ Repaired(v, SshOnly(id)) /\ Repaired(v, Ntp(id))
    /\ Repaired(v, Snmp(id)) /\ Repaired(v, Stamps(id)) /\ Repaired(v, Aaa(id))
    /\ Repaired(v, Idle(id, "session.timeout"))
    /\ Repaired(v, Bool(id, "service_hardening.password_encryption", "password.encryption"))
    /\ Repaired(v, Least(id, "logging.buffered_size", Buffer, "logging.buffer"))
    /\ Repaired(v, Rule(id, "both", <<"service_hardening.http_server_disabled",
                                      "service_hardening.finger_disabled">>,
                        "services.minimal"))

\* So those catalogues hold nothing else.
LEMMA NeutralRepaired ==
  ASSUME NEW v, SharedRepaired(v)
  PROVE  \A r \in Nist \cup Stig \cup Iso : Repaired(v, r)
  <1>1. \A r \in Nist : Repaired(v, r)
    BY DEF Nist, SharedRepaired
  <1>2. \A r \in Stig : Repaired(v, r)
    BY DEF Stig, SharedRepaired
  <1>3. \A r \in Iso : Repaired(v, r)
    BY DEF Iso, SharedRepaired
  <1> QED BY <1>1, <1>2, <1>3

\* Cisco's templates repair those rows.
LEMMA CiscoShared ==
  SharedRepaired("cisco")
  <1> SUFFICES ASSUME NEW id
               PROVE
      /\ Repaired("cisco", Ssh2(id)) /\ Repaired("cisco", SshOnly(id))
      /\ Repaired("cisco", Ntp(id)) /\ Repaired("cisco", Snmp(id))
      /\ Repaired("cisco", Stamps(id)) /\ Repaired("cisco", Aaa(id))
      /\ Repaired("cisco", Idle(id, "session.timeout"))
      /\ Repaired("cisco",
                  Bool(id, "service_hardening.password_encryption", "password.encryption"))
      /\ Repaired("cisco", Least(id, "logging.buffered_size", Buffer, "logging.buffer"))
      /\ Repaired("cisco", Rule(id, "both", <<"service_hardening.http_server_disabled",
                                              "service_hardening.finger_disabled">>,
                                "services.minimal"))
    BY DEF SharedRepaired
  <1>1. Repaired("cisco", SshOnly(id)) /\ Repaired("cisco", Ntp(id))
    BY CiscoListsRepaired
  <1>2. \A ref, T, f : Remedy("cisco", ref, Shows(T))
          => /\ SetsTo("cisco", T, f, Yes) => Repaired("cisco", Bool(id, f, ref))
             /\ SetsTo("cisco", T, f, 2) => Repaired("cisco", Rule(id, "ssh2", <<f>>, ref))
             /\ \A b \in Int : SetsTo("cisco", T, f, b) => Repaired("cisco", Most(id, f, b, ref))
             /\ \A b, j \in Int : SetsTo("cisco", T, f, j) /\ j >= b
                  => Repaired("cisco", Least(id, f, b, ref))
    BY RowsOfOne
  <1>3. /\ Remedy("cisco", "ssh.version", Shows(SshTwo))
        /\ SetsTo("cisco", SshTwo, "ssh.version", 2)
        /\ Remedy("cisco", "session.timeout", Shows(VtyTimeout))
        /\ SetsTo("cisco", VtyTimeout, "line_vty.exec_timeout_minutes", 600)
        /\ Remedy("cisco", "logging.buffer", Shows(LogBuffer))
        /\ SetsTo("cisco", LogBuffer, "logging.buffered_size", 64000)
    BY CiscoRemedies, CiscoNumbersSet
  <1>4. Repaired("cisco", Ssh2(id))
    BY <1>2, <1>3 DEF Ssh2
  <1>5. Repaired("cisco", Idle(id, "session.timeout"))
    <2> DEFINE k == Timeout
    <2>1. k \in Int /\ SetsTo("cisco", VtyTimeout, "line_vty.exec_timeout_minutes", k)
      BY <1>3 DEF Timeout
    <2> HIDE DEF k
    <2>2. Repaired("cisco", Most(id, "line_vty.exec_timeout_minutes", k, "session.timeout"))
      BY <1>3, <2>1, BoundRows
    <2> QED BY <2>2 DEF Idle, k
  <1>6. Repaired("cisco", Least(id, "logging.buffered_size", Buffer, "logging.buffer"))
    <2> DEFINE k == Buffer
    <2>1. k \in Int /\ SetsTo("cisco", LogBuffer, "logging.buffered_size", k)
      BY <1>3 DEF Buffer
    <2> HIDE DEF k
    <2>2. Repaired("cisco", Least(id, "logging.buffered_size", k, "logging.buffer"))
      BY <1>3, <2>1, BoundRows
    <2> QED BY <2>2 DEF k
  <1>7. /\ Repaired("cisco", Stamps(id)) /\ Repaired("cisco", Aaa(id))
        /\ Repaired("cisco",
                    Bool(id, "service_hardening.password_encryption", "password.encryption"))
    <2>1. /\ Remedy("cisco", "logging.enabled", Shows(LogStamps))
          /\ SetsTo("cisco", LogStamps, "logging.timestamps_enabled", Yes)
          /\ Remedy("cisco", "aaa.enabled", Shows(NewModel))
          /\ SetsTo("cisco", NewModel, "aaa.new_model", Yes)
          /\ Remedy("cisco", "password.encryption", Shows(EncryptPasswords))
          /\ SetsTo("cisco", EncryptPasswords, "service_hardening.password_encryption", Yes)
      BY CiscoRemedies, CiscoSwitches
    <2> QED BY <1>2, <2>1 DEF Stamps, Aaa
  <1>8. Repaired("cisco", Snmp(id))
    <2>1. Taking("cisco", "snmp.v3")
      BY Takers
    <2> QED BY <2>1, TakingRepaired, Zenon DEF Snmp
  <1>9. \A rows : Repaired("cisco", Rule(id, "both", rows, "services.minimal"))
    <2>1. Taking("cisco", "services.minimal")
      BY Takers
    <2> QED BY <2>1, TakingRepaired, Zenon
  <1> QED BY <1>1, <1>4, <1>5, <1>6, <1>7, <1>8, <1>9

\* Every control that a framework has for Cisco.
LEMMA CiscoRepaired ==
  ASSUME NEW framework \in Frameworks, NEW r \in GetControls(framework, "cisco")
  PROVE  Repaired("cisco", r)
  <1>1. \A x \in CisCiscoIOS : Repaired("cisco", x)
    BY CiscoListsRepaired, CiscoSwitchesRepaired, CiscoNumbersRepaired DEF CisCiscoIOS
  <1>2. \A x \in Nist \cup Stig \cup Iso : Repaired("cisco", x)
    BY CiscoShared, NeutralRepaired
  <1>3. GetControls(framework, "cisco") \in {CisCiscoIOS, Nist, Stig, Iso}
    BY DEF GetControls, Frameworks
  <1> QED BY <1>1, <1>2, <1>3

-----------------------------------------------------------------------------
(* What a line of a template of JunOS says.                                *)

\* The statements seen are remembered, and nothing else changes.
LEMMA SawShaped ==
  ASSUME NEW a, Shaped(a), NEW path, NEW l
  PROVE  Shaped(Saw(a, path, l)) /\ Saw(a, path, l).config = a.config
  <1> DEFINE b1 == IF path = WebHttp THEN ~l.no ELSE a.state.http
             x1 == [a EXCEPT !.state = [a.state EXCEPT !.http = b1]]
             b2 == IF path = WebHttps THEN ~l.no ELSE a.state.https
             x2 == [x1 EXCEPT !.state = [x1.state EXCEPT !.https = b2]]
             b3 == IF path = <<"snmp", "v3">> THEN ~l.no ELSE a.state.v3
             x3 == [x2 EXCEPT !.state = [x2.state EXCEPT !.v3 = b3]]
             b4 == IF path = <<"snmp", "community">> /\ l.words \cap {"public", "private"} # {}
                   THEN ~l.no ELSE a.state.community
             x4 == [x3 EXCEPT !.state = [x3.state EXCEPT !.community = b4]]
  <1>1. Saw(a, path, l) = x4
    BY Zenon DEF Saw
  <1> HIDE DEF b1, b2, b3, b4
  <1>2. Shaped(x1) /\ x1.config = a.config
    BY ShapeKept
  <1> HIDE DEF x1
  <1>3. Shaped(x2) /\ x2.config = a.config
    BY <1>2, ShapeKept
  <1> HIDE DEF x2
  <1>4. Shaped(x3) /\ x3.config = a.config
    BY <1>3, ShapeKept
  <1> HIDE DEF x3
  <1>5. Shaped(x4) /\ x4.config = a.config
    BY <1>4, ShapeKept
  <1> HIDE DEF x4
  <1> QED BY <1>1, <1>5

\* A reading stated, or approved for the line.
LEMMA UnionStated ==
  ASSUME NEW p, Shaped(p), NEW r
  PROVE  /\ LET q == SetUnion(p, r) IN Shaped(q) /\ q.config = AssignUnion(p.config, r)
         /\ LET q == ApplyUnion(p, r) IN Shaped(q) /\ q.config = AssignUnion(p.config, r)
         /\ Shaped(Unrecognized(p)) /\ Unrecognized(p).config = p.config
  <1> DEFINE d == AssignUnion(p.config, r)
  <1>1. ShapedConfig(d)
    BY UnionWrites DEF Writes, Shaped
  <1>2. SetUnion(p, r) = FoundAt([p EXCEPT !.config = d], r, p.n, "parser")
    BY DEF SetUnion, Stated
  <1>3. ApplyUnion(p, r) = FoundAt([p EXCEPT !.config = d], r, p.n, "learned_mapping")
    BY DEF ApplyUnion, Shaped
  <1> HIDE DEF d
  <1>4. /\ LET q == SetUnion(p, r) IN Shaped(q) /\ q.config = d
        /\ LET q == ApplyUnion(p, r) IN Shaped(q) /\ q.config = d
    BY <1>1, <1>2, <1>3, StatedParts
  <1>5. Shaped(Unrecognized(p)) /\ Unrecognized(p).config = p.config
    <2> DEFINE q == Unrecognized(p)
    <2>1. q = [config |-> p.config, findings |-> p.findings, unknown |-> p.unknown \cup {p.n},
               n |-> p.n, state |-> p.state]
      BY DEF Unrecognized, Shaped
    <2> HIDE DEF q
    <2>2. Shaped(q) /\ q.config = p.config
      BY <2>1 DEF Shaped
    <2> QED BY <2>2 DEF q
  <1> QED BY <1>4, <1>5 DEF d

\* A command of JunOS says what its rows say, whatever was said before; one without a
\* row waits for the mappings.
LEMMA JunosReads ==
  ASSUME NEW m, NEW p, NEW l, Shaped(p), l.form = "set"
  PROVE  LET q == Step("juniper", m, p, l)
             rows == JunosReadings(l.path, l)
         IN /\ \A r : rows = <<r>> => Shaped(q) /\ q.config = AssignUnion(p.config, r)
            /\ \A r, e : rows = <<r, e>> =>
                 Shaped(q) /\ q.config = AssignUnion(AssignUnion(p.config, r), e)
            /\ rows = << >> /\ l.path \notin DOMAIN m => Shaped(q) /\ q.config = p.config
            /\ rows = << >> /\ l.path \in DOMAIN m =>
                 Shaped(q) /\ q.config = AssignUnion(p.config, m[l.path])
  <1> DEFINE a == Advance(p)
             rows == JunosReadings(l.path, l)
             b == Saw(a, l.path, l)
             q == Step("juniper", m, p, l)
  <1>1. Shaped(a) /\ a.config = p.config
    BY ShapeKept
  <1>2. l.form \notin {"blank", "open", "close"} /\ Command(a, l) = l.path
    BY Zenon DEF Command
  <1>3. q = JunosStatement(m, a, l.path, l)
    BY <1>2, JunosBranches
  <1>4. Shaped(b) /\ b.config = p.config
    BY <1>1, SawShaped
  <1>5. /\ rows # << >> => q = SetAll(b, rows)
        /\ rows = << >> /\ l.path \in DOMAIN m => q = ApplyUnion(a, m[l.path])
        /\ rows = << >> /\ l.path \notin DOMAIN m => q = Unrecognized(a)
    BY <1>3, Zenon DEF JunosStatement
  <1> HIDE DEF a, b, q, rows
  <1>6. ASSUME NEW r, rows = <<r>>
        PROVE  Shaped(q) /\ q.config = AssignUnion(p.config, r)
    <2>1. rows # << >> /\ Len(rows) = 1 /\ rows[1] = r
      BY <1>6
    <2>2. q = SetUnion(b, r)
      BY <1>5, <2>1 DEF SetAll
    <2> QED BY <1>4, <2>2, UnionStated
  <1>7. ASSUME NEW r, NEW e, rows = <<r, e>>
        PROVE  Shaped(q) /\ q.config = AssignUnion(AssignUnion(p.config, r), e)
    <2>1. rows # << >> /\ Len(rows) # 1 /\ rows[1] = r /\ rows[2] = e
      BY <1>7
    <2> DEFINE c == SetUnion(b, r)
    <2>2. q = SetUnion(c, e)
      BY <1>5, <2>1 DEF SetAll
    <2>3. Shaped(c) /\ c.config = AssignUnion(p.config, r)
      BY <1>4, UnionStated
    <2> HIDE DEF c
    <2> QED BY <2>2, <2>3, UnionStated
  <1>8. rows = << >> /\ l.path \notin DOMAIN m => Shaped(q) /\ q.config = p.config
    BY <1>1, <1>5, UnionStated
  <1>9. rows = << >> /\ l.path \in DOMAIN m =>
          Shaped(q) /\ q.config = AssignUnion(p.config, m[l.path])
    BY <1>1, <1>5, UnionStated
  <1> QED BY <1>6, <1>7, <1>8, <1>9 DEF q, rows

\* A setting stated, and the others kept.
LEMMA UnionSets ==
  ASSUME NEW c, ShapedConfig(c), NEW r, r.field \in ScalarFields
  PROVE  LET d == AssignUnion(c, r) IN
         ShapedConfig(d) /\ Get(d, r.field) = r.value
         /\ \A g \in ScalarFields : g # r.field => Get(d, g) = Get(c, g)
  <1> DEFINE d == AssignUnion(c, r)
             u == c.lists[r.field] \cup r.items
  <1>1. Writes(c, d, r, u)
    BY UnionWrites
  <1> HIDE DEF d, u
  <1>2. ShapedConfig(d) /\ Get(d, r.field) = r.value
        /\ \A g \in ScalarFields : g # r.field => Get(d, g) = Get(c, g)
    BY <1>1 DEF Writes
  <1> QED BY <1>2 DEF d

\* The end of the file overrides no setting and no list.
LEMMA JunosEnds ==
  ASSUME NEW p, Shaped(p)
  PROVE  LET e == End("juniper", p).config IN
         /\ \A f : Get(p.config, f) # Unset => Get(e, f) = Get(p.config, f)
         /\ e.lists = p.config.lists
  <1> DEFINE c == p.config
             given(d, e, f) ==
               \/ e = d
               \/ Get(d, f) = Unset /\ e = [d EXCEPT !.scalars = With(@, f, Yes)]
             keeps(d, e) ==
               /\ ShapedConfig(e) /\ e.lists = d.lists
               /\ \A f : Get(d, f) # Unset => Get(e, f) = Get(d, f)
             f1 == "service_hardening.http_server_disabled"
             f2 == "snmp.default_communities_removed"
  <1>1. ASSUME NEW d, ShapedConfig(d), NEW e, NEW f, given(d, e, f) PROVE keeps(d, e)
    <2>1. CASE e = d
      BY <1>1, <2>1
    <2>2. CASE Get(d, f) = Unset /\ e = [d EXCEPT !.scalars = With(@, f, Yes)]
      <3> DEFINE w == With(d.scalars, f, Yes)
      <3>1. e = [scalars |-> w, lists |-> d.lists, interfaces |-> d.interfaces,
                 policies |-> d.policies]
        BY <1>1, <2>2 DEF ShapedConfig
      <3>2. /\ DOMAIN w = DOMAIN d.scalars \cup {f}
            /\ \A g \in DOMAIN w : w[g] = IF g = f THEN Yes ELSE d.scalars[g]
        BY DEF With
      <3> HIDE DEF w
      <3>3. e.scalars = w /\ e.lists = d.lists /\ ShapedConfig(e)
        BY <1>1, <3>1 DEF ShapedConfig
      <3>4. \A g : g # f => Get(e, g) = Get(d, g)
        BY <3>2, <3>3 DEF Get
      <3> QED BY <2>2, <3>3, <3>4
    <2> QED BY <1>1, <2>1, <2>2
  <1>2. \E d, e : /\ given(c, d, f1) /\ given(d, e, f2)
                  /\ End("juniper", p) = [p EXCEPT !.config = e]
    <2> DEFINE x == p.state.https /\ ~p.state.http
               y == p.state.v3 /\ ~p.state.community
               d == IF x /\ Get(c, f1) = Unset THEN [c EXCEPT !.scalars = With(@, f1, Yes)]
                    ELSE c
               e == IF y /\ Get(d, f2) = Unset THEN [d EXCEPT !.scalars = With(@, f2, Yes)]
                    ELSE d
    <2>1. JunosEnd(p) = [p EXCEPT !.config = e]
      BY DEF JunosEnd
    <2>2. End("juniper", p) = JunosEnd(p)
      BY Zenon DEF End
    <2> HIDE DEF x, y
    <2>3. given(c, d, f1)
      OBVIOUS
    <2> HIDE DEF d
    <2>4. given(d, e, f2)
      OBVIOUS
    <2> QED BY <2>1, <2>2, <2>3, <2>4
  <1> HIDE DEF given
  <1>3. PICK d, e : /\ given(c, d, f1) /\ given(d, e, f2)
                    /\ End("juniper", p) = [p EXCEPT !.config = e]
    BY <1>2
  <1>4. keeps(c, d)
    BY <1>1, <1>3 DEF Shaped
  <1>5. keeps(d, e)
    BY <1>1, <1>3, <1>4
  <1>6. End("juniper", p).config = e
    BY <1>3 DEF Shaped
  <1> QED BY <1>4, <1>5, <1>6

-----------------------------------------------------------------------------
(* What the templates of JunOS leave.                                      *)

\* The text that is understood has been read.
LEMMA JunosUnderstood ==
  ASSUME NEW L, NEW m, Understood("juniper", L, m)
  PROVE  L \in Seq(PathLine) /\ Shaped(After("juniper", L, m)[Len(L)])
  <1> DEFINE v == "juniper"
             k == Len(L)
             p == After(v, L, m)[k]
  <1>1. L \in Seq(LineOf(v)) /\ Mappings(m) /\ k \in 0 .. k
    BY DEF Understood
  <1>2. Sound(v, m, L, k, p)
    BY <1>1, AlwaysSound
  <1>3. IsParse(p)
    BY <1>2 DEF Sound, Good
  <1> HIDE DEF p
  <1> QED BY <1>1, <1>3, ParseShaped DEF p, LineOf

\* A line that leaves a setting with a value.
Leaves(l, f, x) ==
  \A m, p : Shaped(p) =>
    LET q == Step("juniper", m, p, l) IN Shaped(q) /\ Get(q.config, f) = x

\* A command with one row leaves its setting so; one with two rows leaves both.
LEMMA CommandLeaves ==
  ASSUME NEW l, l.form = "set"
  PROVE  LET rows == JunosReadings(l.path, l) IN
         /\ \A f \in ScalarFields : \A x : rows = <<Reading(f, x)>> => Leaves(l, f, x)
         /\ \A f \in ScalarFields : \A x : \A e : rows = <<Reading(f, x), e>> /\ e.field # f =>
              Leaves(l, f, x)
         /\ \A f \in ScalarFields : \A x : \A e : rows = <<e, Reading(f, x)>> => Leaves(l, f, x)
  <1> DEFINE rows == JunosReadings(l.path, l)
  <1>0. \A f, x : Reading(f, x).field = f /\ Reading(f, x).value = x
    BY DEF Reading
  <1>5. ASSUME NEW m, NEW p, Shaped(p), NEW r, JunosReadings(l.path, l) = <<r>>
        PROVE  LET q == Step("juniper", m, p, l) IN
               Shaped(q) /\ q.config = AssignUnion(p.config, r)
    BY <1>5, JunosReads
  <1>6. ASSUME NEW m, NEW p, Shaped(p), NEW r, NEW e, JunosReadings(l.path, l) = <<r, e>>
        PROVE  LET q == Step("juniper", m, p, l) IN
               Shaped(q) /\ q.config = AssignUnion(AssignUnion(p.config, r), e)
    BY <1>6, JunosReads
  <1>7. rows = JunosReadings(l.path, l)
    OBVIOUS
  <1> HIDE DEF rows
  <1>1. ASSUME NEW f \in ScalarFields, NEW x, rows = <<Reading(f, x)>>
        PROVE  Leaves(l, f, x)
    <2> DEFINE r == Reading(f, x)
    <2>1. r.field = f /\ r.value = x
      BY <1>0
    <2> HIDE DEF r
    <2>2. ASSUME NEW m, NEW p, Shaped(p)
          PROVE  LET q == Step("juniper", m, p, l) IN
                 Shaped(q) /\ Get(q.config, f) = x
      <3> DEFINE q == Step("juniper", m, p, l)
      <3>1. Shaped(q) /\ q.config = AssignUnion(p.config, r)
        BY <1>1, <1>5, <1>7, <2>2 DEF r
      <3> HIDE DEF q
      <3>2. Get(q.config, f) = x
        BY <2>1, <2>2, <3>1, UnionSets DEF Shaped
      <3> QED BY <3>1, <3>2 DEF q
    <2> QED BY <2>2 DEF Leaves
  <1>2. ASSUME NEW r, NEW e, rows = <<r, e>>, NEW m, NEW p, Shaped(p)
        PROVE  LET q == Step("juniper", m, p, l) IN
               /\ Shaped(q)
               /\ r.field \in ScalarFields /\ e.field # r.field =>
                    Get(q.config, r.field) = r.value
               /\ e.field \in ScalarFields => Get(q.config, e.field) = e.value
    <2> DEFINE q == Step("juniper", m, p, l)
               c == AssignUnion(p.config, r)
               g == r.field
    <2>1. Shaped(q) /\ q.config = AssignUnion(c, e)
      BY <1>2, <1>6, <1>7
    <2>2. ShapedConfig(c) /\ (g \in ScalarFields => Get(c, g) = r.value)
      BY <1>2, UnionWrites DEF Shaped, Writes
    <2> HIDE DEF q, c
    <2>3. e.field \in ScalarFields => Get(q.config, e.field) = e.value
      BY <2>1, <2>2, UnionSets
    <2>4. Writes(c, q.config, e, c.lists[e.field] \cup e.items)
      BY <2>1, <2>2, UnionWrites
    <2>5. g \in ScalarFields /\ e.field # g => Get(q.config, g) = r.value
      BY <2>2, <2>4 DEF Writes
    <2> QED BY <2>1, <2>3, <2>5 DEF q
  <1>3. ASSUME NEW f \in ScalarFields, NEW x, NEW e, rows = <<Reading(f, x), e>>, e.field # f
        PROVE  Leaves(l, f, x)
    <2> DEFINE r == Reading(f, x)
    <2>1. r.field = f /\ r.value = x /\ rows = <<r, e>>
      BY <1>0, <1>3
    <2> HIDE DEF r, rows
    <2> QED BY <1>2, <1>3, <2>1 DEF Leaves
  <1>4. ASSUME NEW f \in ScalarFields, NEW x, NEW e, rows = <<e, Reading(f, x)>>
        PROVE  Leaves(l, f, x)
    <2> DEFINE r == Reading(f, x)
    <2>1. r.field = f /\ r.value = x /\ rows = <<e, r>>
      BY <1>0, <1>4
    <2> HIDE DEF r, rows
    <2> QED BY <1>2, <1>4, <2>1 DEF Leaves
  <1> QED BY <1>1, <1>3, <1>4 DEF rows

\* A template of one command, and of two.
LEMMA CommandsSet ==
  ASSUME NEW f \in ScalarFields, NEW x, x # Unset
  PROVE  /\ \A a : Leaves(a, f, x) => SetsTo("juniper", <<a>>, f, x)
         /\ \A a, b : Leaves(a, f, x) /\ Leaves(b, f, x) =>
              SetsTo("juniper", <<a, b>>, f, x)
  <1> DEFINE v == "juniper"
  <1>0. ASSUME NEW q, Shaped(q), Get(q.config, f) = x
        PROVE  Get(End(v, q).config, f) = x
    BY <1>0, JunosEnds
  <1>1. ASSUME NEW a, Leaves(a, f, x) PROVE SetsTo(v, <<a>>, f, x)
    <2> SUFFICES ASSUME NEW L, NEW m, Understood(v, L, m)
                 PROVE  Get(Parse(v, L \o <<a>>, m).config, f) = x
      BY DEF SetsTo
    <2> DEFINE p == After(v, L, m)[Len(L)]
    <2>1. L \in Seq(PathLine) /\ Shaped(p)
      BY JunosUnderstood
    <2>2. Parse(v, L \o <<a>>, m) = End(v, Step(v, m, p, a))
      BY <2>1, LongerByOne
    <2> HIDE DEF p
    <2>3. Shaped(Step(v, m, p, a)) /\ Get(Step(v, m, p, a).config, f) = x
      BY <1>1, <2>1 DEF Leaves
    <2> QED BY <1>0, <2>2, <2>3
  <1>2. ASSUME NEW a, NEW b, Leaves(a, f, x), Leaves(b, f, x)
        PROVE  SetsTo(v, <<a, b>>, f, x)
    <2> SUFFICES ASSUME NEW L, NEW m, Understood(v, L, m)
                 PROVE  Get(Parse(v, L \o <<a, b>>, m).config, f) = x
      BY DEF SetsTo
    <2> DEFINE p == After(v, L, m)[Len(L)]
               q == Step(v, m, p, a)
    <2>1. L \in Seq(PathLine) /\ Shaped(p)
      BY JunosUnderstood
    <2>2. Parse(v, L \o <<a, b>>, m) = End(v, Step(v, m, q, b))
      BY <2>1, LongerByTwo
    <2>3. Shaped(q)
      BY <1>2, <2>1 DEF Leaves
    <2> HIDE DEF p, q
    <2>4. Shaped(Step(v, m, q, b)) /\ Get(Step(v, m, q, b).config, f) = x
      BY <1>2, <2>3 DEF Leaves
    <2> QED BY <1>0, <2>2, <2>4
  <1> QED BY <1>1, <1>2

\* The parts of a command.
LEMMA CommandParts ==
  ASSUME NEW path, NEW k, NEW w
  PROVE  /\ LET l == Set(path) IN l.form = "set" /\ l.path = path /\ ~l.no
         /\ LET l == [Set(path) EXCEPT !.n = k] IN
            l.form = "set" /\ l.path = path /\ ~l.no /\ l.n = k
         /\ LET l == [Set(path) EXCEPT !.words = w] IN
            l.form = "set" /\ l.path = path /\ ~l.no /\ l.words = w
  BY DEF JLine, Set

\* The paths of the templates.
PasswordPath == <<"system", "root-authentication", "encrypted-password">>
MessagePath == <<"system", "login", "message">>
IdlePath == <<"system", "login", "idle-timeout">>
SyslogPath == <<"system", "syslog">>
ArchivePath == <<"system", "syslog", "archive-size">>
ServerPath == <<"system", "ntp", "server">>
KeyPaths == {<<"system", "ntp", k>> : k \in {"authentication-key", "trusted-key"}}
OrderPath == <<"system", "authentication-order">>
RadiusPath == <<"system", "radius-server">>
LldpPath == <<"protocols", "lldp", "interface", "all", "disable">>

\* The rows of the commands of the templates.
LEMMA CommandRows ==
  ASSUME NEW l
  PROVE  LET c == JunosReadings(l.path, l) IN
         /\ l.path = PasswordPath /\ "$hash" \in l.words =>
              c = <<Reading("device_info.enable_secret_type", 9),
                    Reading("service_hardening.password_encryption", Yes)>>
         /\ l.path = MessagePath =>
              c = <<Reading("access_control.banner_login", l.n),
                    Reading("access_control.banner_motd", l.n)>>
         /\ l.path = SshKnob("protocol-version") =>
              c = <<Reading("ssh.version", l.n), Listing("line_vty.transport_input", {"ssh"})>>
         /\ l.path = IdlePath =>
              c = <<Reading("line_console.exec_timeout_minutes", l.n),
                    Reading("line_vty.exec_timeout_minutes", l.n)>>
         /\ l.path = SyslogPath /\ ~l.no =>
              c = <<Reading("logging.trap_severity", Yes),
                    Reading("logging.timestamps_enabled", Yes)>>
         /\ l.path = ArchivePath => c = <<Reading("logging.buffered_size", l.n)>>
         /\ l.path = ServerPath => c = <<Listing("ntp.servers", l.words)>>
         /\ l.path \in KeyPaths /\ ~l.no => c = <<Reading("ntp.authenticate", Yes)>>
         /\ l.path = OrderPath /\ ~l.no =>
              c = <<Reading("aaa.new_model", Yes), Reading("aaa.authentication_login", Yes)>>
         /\ l.path = RadiusPath => c = << >>
         /\ l.path = LldpPath /\ ~l.no => c = <<Reading("cdp.global_disabled", Yes)>>
  <1> DEFINE c == JunosReadings(l.path, l)
  <1>1. l.path = PasswordPath /\ "$hash" \in l.words =>
          c = <<Reading("device_info.enable_secret_type", 9),
                Reading("service_hardening.password_encryption", Yes)>>
    BY DEF JunosReadings, Service, Ssh, SshKnob, WebHttp, WebHttps, PasswordPath
  <1>2. l.path = MessagePath =>
          c = <<Reading("access_control.banner_login", l.n),
                Reading("access_control.banner_motd", l.n)>>
    BY DEF JunosReadings, Service, Ssh, SshKnob, WebHttp, WebHttps, MessagePath
  <1>3. l.path = SshKnob("protocol-version") =>
          c = <<Reading("ssh.version", l.n), Listing("line_vty.transport_input", {"ssh"})>>
    BY DEF JunosReadings, Service, Ssh, SshKnob, WebHttp, WebHttps
  <1>4. l.path = IdlePath =>
          c = <<Reading("line_console.exec_timeout_minutes", l.n),
                Reading("line_vty.exec_timeout_minutes", l.n)>>
    BY DEF JunosReadings, Service, Ssh, SshKnob, WebHttp, WebHttps, IdlePath
  <1>5. l.path = SyslogPath /\ ~l.no =>
          c = <<Reading("logging.trap_severity", Yes),
                Reading("logging.timestamps_enabled", Yes)>>
    BY DEF JunosReadings, Service, Ssh, SshKnob, WebHttp, WebHttps, SyslogPath
  <1>6. l.path = ArchivePath => c = <<Reading("logging.buffered_size", l.n)>>
    BY DEF JunosReadings, Service, Ssh, SshKnob, WebHttp, WebHttps, ArchivePath
  <1>7. l.path = ServerPath => c = <<Listing("ntp.servers", l.words)>>
    BY DEF JunosReadings, Service, Ssh, SshKnob, WebHttp, WebHttps, ServerPath
  <1>8. l.path \in KeyPaths /\ ~l.no => c = <<Reading("ntp.authenticate", Yes)>>
    BY DEF JunosReadings, Service, Ssh, SshKnob, WebHttp, WebHttps, KeyPaths
  <1>9. l.path = OrderPath /\ ~l.no =>
           c = <<Reading("aaa.new_model", Yes), Reading("aaa.authentication_login", Yes)>>
    BY DEF JunosReadings, Service, Ssh, SshKnob, WebHttp, WebHttps, OrderPath
  <1>10. l.path = RadiusPath => c = << >>
    BY DEF JunosReadings, Service, Ssh, SshKnob, WebHttp, WebHttps, RadiusPath
  <1>11. l.path = LldpPath /\ ~l.no => c = <<Reading("cdp.global_disabled", Yes)>>
    BY DEF JunosReadings, Service, Ssh, SshKnob, WebHttp, WebHttps, LldpPath
  <1> HIDE DEF c
  <1> QED BY <1>1, <1>2, <1>3, <1>4, <1>5, <1>6, <1>7, <1>8, <1>9, <1>10, <1>11 DEF c

\* Each command of a template leaves its setting as the control asks.
LEMMA JunosLeaves ==
  /\ SetsTo("juniper", RootHashed, "service_hardening.password_encryption", Yes)
  /\ SetsTo("juniper", RootHashed, "device_info.enable_secret_type", 9)
  /\ SetsTo("juniper", JunosMessage, "access_control.banner_login", Yes)
  /\ SetsTo("juniper", JunosSshTwo, "ssh.version", 2)
  /\ SetsTo("juniper", JunosIdle, "line_vty.exec_timeout_minutes", 600)
  /\ SetsTo("juniper", JunosSyslog, "logging.timestamps_enabled", Yes)
  /\ SetsTo("juniper", JunosArchive, "logging.buffered_size", 1048576)
  /\ SetsTo("juniper", JunosLldp, "cdp.global_disabled", Yes)
  <1>0. /\ Yes # Unset /\ 9 # Unset /\ 2 # Unset /\ 600 # Unset
        /\ \A f, x : Reading(f, x).field = f
        /\ Listing("line_vty.transport_input", {"ssh"}).field \notin ScalarFields
    BY DEF Yes, Unset, Reading, Listing, ScalarFields, BooleanFields, NumberFields, TextFields
  <1>1. /\ SetsTo("juniper", RootHashed, "service_hardening.password_encryption", Yes)
        /\ SetsTo("juniper", RootHashed, "device_info.enable_secret_type", 9)
    <2> DEFINE l == [Set(PasswordPath) EXCEPT !.words = {"$hash"}]
    <2>1. l.form = "set" /\ l.path = PasswordPath /\ "$hash" \in l.words
      BY CommandParts
    <2>0. RootHashed = <<l>>
      BY DEF RootHashed, RootPassword, PasswordPath
    <2> HIDE DEF l
    <2>2. JunosReadings(l.path, l) = <<Reading("device_info.enable_secret_type", 9),
                                     Reading("service_hardening.password_encryption", Yes)>>
      BY <2>1, CommandRows
    <2>3. "service_hardening.password_encryption" \in ScalarFields
          /\ "device_info.enable_secret_type" \in ScalarFields
      BY SettingsNamed
    <2>4. /\ Leaves(l, "service_hardening.password_encryption", Yes)
          /\ Leaves(l, "device_info.enable_secret_type", 9)
      BY <1>0, <2>1, <2>2, <2>3, CommandLeaves
    <2> QED BY <1>0, <2>0, <2>3, <2>4, CommandsSet
  <1>2. SetsTo("juniper", JunosMessage, "access_control.banner_login", Yes)
    <2> DEFINE l == [Set(MessagePath) EXCEPT !.n = Yes]
    <2>1. l.form = "set" /\ l.path = MessagePath /\ l.n = Yes
      BY CommandParts
    <2>0. JunosMessage = <<l>>
      BY DEF JunosMessage, MessagePath
    <2> HIDE DEF l
    <2>2. JunosReadings(l.path, l) = <<Reading("access_control.banner_login", Yes),
                                     Reading("access_control.banner_motd", Yes)>>
      BY <2>1, CommandRows
    <2>3. "access_control.banner_login" \in ScalarFields
      BY SettingsNamed
    <2>4. Leaves(l, "access_control.banner_login", Yes)
      BY <1>0, <2>1, <2>2, <2>3, CommandLeaves
    <2> QED BY <1>0, <2>0, <2>3, <2>4, CommandsSet
  <1>3. SetsTo("juniper", JunosSshTwo, "ssh.version", 2)
    <2> DEFINE l == [Set(SshKnob("protocol-version")) EXCEPT !.n = 2]
    <2>1. l.form = "set" /\ l.path = SshKnob("protocol-version") /\ l.n = 2
      BY CommandParts
    <2>0. JunosSshTwo = <<l>>
      BY DEF JunosSshTwo
    <2> HIDE DEF l
    <2>2. JunosReadings(l.path, l) = <<Reading("ssh.version", 2),
                                     Listing("line_vty.transport_input", {"ssh"})>>
      BY <2>1, CommandRows
    <2>3. "ssh.version" \in ScalarFields
      BY SettingsNamed
    <2>4. Leaves(l, "ssh.version", 2)
      BY <1>0, <2>1, <2>2, <2>3, CommandLeaves
    <2> QED BY <1>0, <2>0, <2>3, <2>4, CommandsSet
  <1>4. SetsTo("juniper", JunosIdle, "line_vty.exec_timeout_minutes", 600)
    <2> DEFINE k == 600
               l == [Set(IdlePath) EXCEPT !.n = k]
               f == "line_vty.exec_timeout_minutes"
               g == "line_console.exec_timeout_minutes"
    <2>0. JunosIdle = <<l>>
      BY DEF JunosIdle, IdlePath
    <2>5. k # Unset
      BY <1>0
    <2> HIDE DEF k
    <2>1. l.form = "set" /\ l.path = IdlePath /\ l.n = k
      BY CommandParts
    <2> HIDE DEF l
    <2>2. JunosReadings(l.path, l) = <<Reading(g, k), Reading(f, k)>>
      BY <2>1, CommandRows
    <2>3. f \in ScalarFields
      BY SettingsNamed
    <2>4. Leaves(l, f, k)
      BY <2>1, <2>2, <2>3, CommandLeaves
    <2>6. SetsTo("juniper", JunosIdle, f, k)
      BY <2>0, <2>3, <2>4, <2>5, CommandsSet
    <2> QED BY <2>6 DEF k
  <1>5. SetsTo("juniper", JunosSyslog, "logging.timestamps_enabled", Yes)
    <2> DEFINE l == Set(SyslogPath)
    <2>1. l.form = "set" /\ l.path = SyslogPath /\ ~l.no
      BY CommandParts
    <2>0. JunosSyslog = <<l>>
      BY DEF JunosSyslog, SyslogPath
    <2> HIDE DEF l
    <2>2. JunosReadings(l.path, l) = <<Reading("logging.trap_severity", Yes),
                                     Reading("logging.timestamps_enabled", Yes)>>
      BY <2>1, CommandRows
    <2>3. "logging.timestamps_enabled" \in ScalarFields
      BY SettingsNamed
    <2>4. Leaves(l, "logging.timestamps_enabled", Yes)
      BY <1>0, <2>1, <2>2, <2>3, CommandLeaves
    <2> QED BY <1>0, <2>0, <2>3, <2>4, CommandsSet
  <1>6. SetsTo("juniper", JunosArchive, "logging.buffered_size", 1048576)
    <2> DEFINE k == 1048576
               l == [Set(ArchivePath) EXCEPT !.n = k]
    <2>0. JunosArchive = <<l>>
      BY DEF JunosArchive, ArchivePath
    <2>5. k # Unset
      BY DEF Unset
    <2> HIDE DEF k
    <2>1. l.form = "set" /\ l.path = ArchivePath /\ l.n = k
      BY CommandParts
    <2> HIDE DEF l
    <2>2. JunosReadings(l.path, l) = <<Reading("logging.buffered_size", k)>>
      BY <2>1, CommandRows
    <2>3. "logging.buffered_size" \in ScalarFields
      BY SettingsNamed
    <2>4. Leaves(l, "logging.buffered_size", k)
      BY <2>1, <2>2, <2>3, CommandLeaves
    <2>6. SetsTo("juniper", JunosArchive, "logging.buffered_size", k)
      BY <2>0, <2>3, <2>4, <2>5, CommandsSet
    <2> QED BY <2>6 DEF k
  <1>7. SetsTo("juniper", JunosLldp, "cdp.global_disabled", Yes)
    <2> DEFINE l == Set(LldpPath)
    <2>1. l.form = "set" /\ l.path = LldpPath /\ ~l.no
      BY CommandParts
    <2>0. JunosLldp = <<l>>
      BY DEF JunosLldp, LldpPath
    <2> HIDE DEF l
    <2>2. JunosReadings(l.path, l) = <<Reading("cdp.global_disabled", Yes)>>
      BY <2>1, CommandRows
    <2>3. "cdp.global_disabled" \in ScalarFields
      BY SettingsNamed
    <2>4. Leaves(l, "cdp.global_disabled", Yes)
      BY <1>0, <2>1, <2>2, <2>3, CommandLeaves
    <2> QED BY <1>0, <2>0, <2>3, <2>4, CommandsSet
  <1> QED BY <1>1, <1>2, <1>3, <1>4, <1>5, <1>6, <1>7

\* So do the keys of the clock; and a server given is among the servers.
LEMMA JunosLeavesMore ==
  /\ SetsTo("juniper", JunosKeys, "ntp.authenticate", Yes)
  /\ Includes("juniper", JunosNtp, "ntp.servers", "ntp")
  <1>0. Yes # Unset
    BY DEF Yes, Unset
  <1>1. SetsTo("juniper", JunosKeys, "ntp.authenticate", Yes)
    <2> DEFINE a == Set(<<"system", "ntp", "authentication-key">>)
               b == Set(<<"system", "ntp", "trusted-key">>)
               f == "ntp.authenticate"
    <2>0. JunosKeys = <<a, b>>
      BY DEF JunosKeys
    <2>1. /\ a.form = "set" /\ a.path \in KeyPaths /\ ~a.no
          /\ b.form = "set" /\ b.path \in KeyPaths /\ ~b.no
      BY DEF Set, JLine, KeyPaths
    <2> HIDE DEF a, b
    <2>2. /\ JunosReadings(a.path, a) = <<Reading(f, Yes)>>
          /\ JunosReadings(b.path, b) = <<Reading(f, Yes)>>
      BY <2>1, CommandRows
    <2>3. f \in ScalarFields
      BY SettingsNamed
    <2>4. Leaves(a, f, Yes) /\ Leaves(b, f, Yes)
      BY <2>1, <2>2, <2>3, CommandLeaves
    <2> QED BY <1>0, <2>0, <2>3, <2>4, CommandsSet
  <1>2. ASSUME NEW L, NEW m, Understood("juniper", L, m)
        PROVE  "ntp" \in Parse("juniper", L \o JunosNtp, m).config.lists["ntp.servers"]
    <2> DEFINE v == "juniper"
               f == "ntp.servers"
               w == {"ntp"}
               l == [Set(ServerPath) EXCEPT !.words = w]
               r == Listing(f, w)
               p == After(v, L, m)[Len(L)]
               q == Step(v, m, p, l)
    <2>0. JunosNtp = <<l>>
      BY DEF JunosNtp, ServerPath
    <2>1. l.form = "set" /\ l.path = ServerPath /\ l.words = w
      BY CommandParts
    <2> HIDE DEF l
    <2>2. JunosReadings(l.path, l) = <<r>>
      BY <2>1, CommandRows
    <2>3. r.field = f /\ r.items = w /\ f \in ListFields
      BY DEF Listing, ListFields
    <2>4. L \in Seq(PathLine) /\ Shaped(p)
      BY <1>2, JunosUnderstood
    <2>5. Parse(v, L \o <<l>>, m) = End(v, q)
      BY <2>4, LongerByOne
    <2> HIDE DEF p, r
    <2>6. Shaped(q) /\ q.config = AssignUnion(p.config, r)
      BY <2>1, <2>2, <2>4, JunosReads
    <2> HIDE DEF q
    <2>7. Writes(p.config, q.config, r, p.config.lists[r.field] \cup r.items)
      BY <2>4, <2>6, UnionWrites DEF Shaped
    <2>8. "ntp" \in q.config.lists[f]
      BY <2>3, <2>7 DEF Writes
    <2> QED BY <2>0, <2>5, <2>6, <2>8, JunosEnds
  <1> QED BY <1>1, <1>2 DEF Includes

\* The template for authentication: its second line says nothing that the parser knows,
\* and no mapping for it concerns the same setting.
LEMMA AaaRepaired ==
  ASSUME NEW id, NEW r, r = Aaa(id)
  PROVE  Repaired("juniper", r)
  <1> DEFINE f == "aaa.new_model"
             a == Set(OrderPath)
             b == Set(RadiusPath)
  <1>1. r.test = "bool" /\ r.fields = <<f>> /\ r.ref = "aaa.enabled"
    BY FormParts DEF Aaa
  <1>2. r.fields[1] = f /\ f \in Range(r.fields)
    BY <1>1 DEF Range
  <1>3. f \in ScalarFields /\ Yes # Unset
    BY SettingsNamed DEF Yes, Unset
  <1>4. Leaves(a, f, Yes)
    <2> DEFINE e == Reading("aaa.authentication_login", Yes)
    <2>1. a.form = "set" /\ a.path = OrderPath /\ ~a.no
      BY CommandParts
    <2>2. e.field # f
      BY DEF Reading
    <2> HIDE DEF a
    <2>3. JunosReadings(a.path, a) = <<Reading("aaa.new_model", Yes), e>>
      BY <2>1, CommandRows
    <2> HIDE DEF e
    <2> QED BY <1>3, <2>1, <2>2, <2>3, CommandLeaves
  <1>5. b.form = "set" /\ b.path = RadiusPath
    BY CommandParts
  <1>6. JunosReadings(b.path, b) = << >>
    BY <1>5, CommandRows
  <1>7. JunosAaa = <<a, b>>
    BY DEF JunosAaa, OrderPath, RadiusPath
  <1> HIDE DEF a, b, f
  <1>8. ASSUME NEW L, NEW m, Understood("juniper", L, m), Failing("juniper", L, m, r)
        PROVE  Get(Parse("juniper", L \o <<a, b>>, m).config, f) = Yes
    <2> DEFINE v == "juniper"
               p == After(v, L, m)[Len(L)]
               q == Step(v, m, p, a)
               w == Step(v, m, q, b)
               k == RadiusPath
    <2>1. L \in Seq(PathLine) /\ Shaped(p)
      BY <1>8, JunosUnderstood
    <2>2. Parse(v, L \o <<a, b>>, m) = End(v, w)
      BY <2>1, LongerByTwo
    <2>3. Shaped(q) /\ Get(q.config, f) = Yes
      BY <1>4, <2>1 DEF Leaves
    <2>4. k \in DOMAIN m => m[k].field # f
      BY <1>2, <1>8 DEF Failing
    <2> HIDE DEF p, q
    <2>5. /\ k \notin DOMAIN m => Shaped(w) /\ w.config = q.config
          /\ k \in DOMAIN m => Shaped(w) /\ w.config = AssignUnion(q.config, m[k])
      BY <1>5, <1>6, <2>3, JunosReads
    <2> HIDE DEF w, k
    <2>6. Get(w.config, f) = Yes
      <3>1. CASE k \notin DOMAIN m
        BY <2>3, <2>5, <3>1
      <3>2. CASE k \in DOMAIN m
        <4> DEFINE e == m[k]
                   c == q.config
        <4>1. w.config = AssignUnion(c, e) /\ e.field # f /\ ShapedConfig(c)
          BY <2>3, <2>4, <2>5, <3>2 DEF Shaped
        <4>2. Get(c, f) = Yes
          BY <2>3
        <4> HIDE DEF e, c
        <4>3. Writes(c, AssignUnion(c, e), e, c.lists[e.field] \cup e.items)
          BY <4>1, UnionWrites
        <4> QED BY <1>3, <4>1, <4>2, <4>3 DEF Writes
      <3> QED BY <3>1, <3>2
    <2>7. Shaped(w)
      BY <2>5
    <2> QED BY <1>3, <2>2, <2>6, <2>7, JunosEnds
  <1>9. \A c : Get(c, f) = Yes => Verdict(r, c) # FAIL
    BY <1>1, <1>2, SettingPasses
  <1>10. Repairs("juniper", JunosAaa, r)
    BY <1>7, <1>8, <1>9 DEF Repairs
  <1>11. Remedy("juniper", r.ref, Shows(JunosAaa))
    BY <1>1, JunosRemedies
  <1> QED BY <1>10, <1>11, ByRemedy

-----------------------------------------------------------------------------
(* The catalogues of JunOS.                                                *)

\* The templates of JunOS repair the rows of the neutral catalogues.
LEMMA JunosShared ==
  SharedRepaired("juniper")
  <1> DEFINE v == "juniper"
  <1> SUFFICES ASSUME NEW id
               PROVE
      /\ Repaired(v, Ssh2(id)) /\ Repaired(v, SshOnly(id))
      /\ Repaired(v, Ntp(id)) /\ Repaired(v, Snmp(id))
      /\ Repaired(v, Stamps(id)) /\ Repaired(v, Aaa(id))
      /\ Repaired(v, Idle(id, "session.timeout"))
      /\ Repaired(v, Bool(id, "service_hardening.password_encryption",
                          "password.encryption"))
      /\ Repaired(v, Least(id, "logging.buffered_size", Buffer, "logging.buffer"))
      /\ Repaired(v, Rule(id, "both", <<"service_hardening.http_server_disabled",
                                        "service_hardening.finger_disabled">>,
                          "services.minimal"))
    BY DEF SharedRepaired
  <1>1. /\ Repaired(v, Aaa(id)) /\ Repaired(v, SshOnly(id)) /\ Repaired(v, Snmp(id))
        /\ \A fields : Repaired(v, Rule(id, "both", fields, "services.minimal"))
    <2>1. Repaired(v, Aaa(id))
      BY AaaRepaired
    <2>2. \A ref \in {"ssh.only", "snmp.v3", "services.minimal"} : Taking(v, ref)
      BY Takers
    <2>3. \A ref \in {"ssh.only", "snmp.v3", "services.minimal"} :
            \A test, fields : Repaired(v, Rule(id, test, fields, ref))
      BY <2>2, TakingRepaired
    <2> QED BY <2>1, <2>3, Zenon DEF SshOnly, Snmp
  <1>2. \A ref, T, f : Remedy(v, ref, Shows(T))
          => /\ SetsTo(v, T, f, Yes) => Repaired(v, Bool(id, f, ref))
             /\ SetsTo(v, T, f, 2) => Repaired(v, Rule(id, "ssh2", <<f>>, ref))
             /\ \A b, j \in Int : SetsTo(v, T, f, j) /\ j >= b
                  => Repaired(v, Least(id, f, b, ref))
    BY RowsOfOne
  <1>3. /\ Remedy(v, "ssh.version", Shows(JunosSshTwo))
        /\ SetsTo(v, JunosSshTwo, "ssh.version", 2)
        /\ Remedy(v, "session.timeout", Shows(JunosIdle))
        /\ SetsTo(v, JunosIdle, "line_vty.exec_timeout_minutes", 600)
        /\ Remedy(v, "logging.buffer", Shows(JunosArchive))
        /\ Remedy(v, "logging.enabled", Shows(JunosSyslog))
        /\ SetsTo(v, JunosSyslog, "logging.timestamps_enabled", Yes)
        /\ Remedy(v, "password.encryption", Shows(RootHashed))
        /\ SetsTo(v, RootHashed, "service_hardening.password_encryption", Yes)
    BY JunosRemedies, JunosLeaves
  <1>4. Repaired(v, Ssh2(id))
    BY <1>2, <1>3 DEF Ssh2
  <1>5. Repaired(v, Idle(id, "session.timeout"))
    <2> DEFINE k == Timeout
    <2>1. k \in Int /\ SetsTo(v, JunosIdle, "line_vty.exec_timeout_minutes", k)
      BY <1>3 DEF Timeout
    <2> HIDE DEF k
    <2>2. Repaired(v, Most(id, "line_vty.exec_timeout_minutes", k, "session.timeout"))
      BY <1>3, <2>1, BoundRows
    <2> QED BY <2>2 DEF Idle, k
  <1>6. Repaired(v, Least(id, "logging.buffered_size", Buffer, "logging.buffer"))
    <2> DEFINE k == 1048576
               b == Buffer
    <2>1. k \in Int /\ b \in Int /\ k >= b
      BY DEF Buffer
    <2>2. SetsTo(v, JunosArchive, "logging.buffered_size", k)
      BY JunosLeaves
    <2> HIDE DEF k, b
    <2>3. Repaired(v, Least(id, "logging.buffered_size", b, "logging.buffer"))
      BY <1>2, <1>3, <2>1, <2>2
    <2> QED BY <2>3 DEF b
  <1>7. /\ Repaired(v, Stamps(id))
        /\ Repaired(v, Bool(id, "service_hardening.password_encryption",
                            "password.encryption"))
    BY <1>2, <1>3 DEF Stamps
  <1>8. Repaired(v, Ntp(id))
    <2>1. Remedy(v, "ntp.servers", Shows(JunosNtp)) /\ Includes(v, JunosNtp, "ntp.servers", "ntp")
      BY JunosRemedies, JunosLeavesMore
    <2>2. "ntp" # ""
      BY Zenon
    <2> QED BY <2>1, <2>2, RowsOfMore, Zenon DEF Ntp
  <1> QED BY <1>1, <1>4, <1>5, <1>6, <1>7, <1>8

\* The rows of their own.
LEMMA JunosOwnRepaired ==
  /\ Repaired("juniper", Rule("JUN-1.1", "secret", <<"device_info.enable_secret_type">>,
                              "credential.secure_hash"))
  /\ Repaired("juniper", Bool("JUN-1.2", "service_hardening.http_server_disabled",
                              "http.disabled"))
  /\ Repaired("juniper", Bool("JUN-1.3", "access_control.banner_login", "banner.login"))
  /\ Repaired("juniper", Bool("JUN-3.3", "ntp.authenticate", "ntp.authenticate"))
  /\ Repaired("juniper", Bool("JUN-5.1", "cdp.global_disabled", "discovery.disabled"))
  <1> DEFINE v == "juniper"
  <1>1. \A id, ref, T, f : Remedy(v, ref, Shows(T))
          => /\ SetsTo(v, T, f, Yes) => Repaired(v, Bool(id, f, ref))
             /\ SetsTo(v, T, f, 9) => Repaired(v, Rule(id, "secret", <<f>>, ref))
    BY RowsOfOne
  <1>2. /\ Remedy(v, "credential.secure_hash", Shows(RootHashed))
        /\ SetsTo(v, RootHashed, "device_info.enable_secret_type", 9)
        /\ Remedy(v, "banner.login", Shows(JunosMessage))
        /\ SetsTo(v, JunosMessage, "access_control.banner_login", Yes)
        /\ Remedy(v, "ntp.authenticate", Shows(JunosKeys))
        /\ SetsTo(v, JunosKeys, "ntp.authenticate", Yes)
        /\ Remedy(v, "discovery.disabled", Shows(JunosLldp))
        /\ SetsTo(v, JunosLldp, "cdp.global_disabled", Yes)
    BY JunosRemedies, JunosLeaves, JunosLeavesMore
  <1>3. \A id, f : Repaired(v, Bool(id, f, "http.disabled"))
    BY Takers, TakingRepaired
  <1> QED BY <1>1, <1>2, <1>3

\* Every control that a framework has for JunOS.
LEMMA JuniperRepaired ==
  ASSUME NEW framework \in Frameworks, NEW r \in GetControls(framework, "juniper")
  PROVE  Repaired("juniper", r)
  <1>1. \A x \in CisJuniper : Repaired("juniper", x)
    BY JunosShared, JunosOwnRepaired DEF CisJuniper, SharedRepaired
  <1>2. \A x \in Nist \cup Stig \cup Iso : Repaired("juniper", x)
    BY JunosShared, NeutralRepaired
  <1>3. GetControls(framework, "juniper") \in {CisJuniper, Nist, Stig, Iso}
    BY DEF GetControls, Frameworks
  <1> QED BY <1>1, <1>2, <1>3

-----------------------------------------------------------------------------
(* The device whose configuration an audit has understood.                 *)

\* A completed audit left no line, with the mappings approved now.
FreshInv ==
  audits # << >> /\ LastAudit.status = "complete" =>
    normalized.unknown = {} /\ \E L : Passed(L, learned)

\* It holds at the start.
LEMMA InitFresh ==
  Init => FreshInv
  BY DEF Init, FreshInv

\* What is added to a configuration keeps what it began with.
LEMMA ConfigureAdds ==
  ASSUME IInv, NEW piece \in Fragments[vendor], Configure(piece)
  PROVE  LET S == LineOf(vendor) IN
         /\ text \in Seq(S) /\ piece \in Seq(S) /\ text' = text \o piece
         /\ \A L, m : Passed(L, m) => Passed(L, m)'
  <1> DEFINE v == vendor
             S == LineOf(v)
  <1>1. text' = text \o piece /\ vendor' = v /\ normalized' = normalized
    BY DEF Configure
  <1>2. v \in Vendors /\ text \in Seq(S)
    BY DEF IInv, TextInv
  <1>3. piece \in Seq(S)
    <2>1. Fragments[v] \subseteq Seq(IF v = "juniper" THEN PathLine ELSE TextLine)
      BY <1>2, LinesAssumption
    <2>2. S = IF v = "juniper" THEN PathLine ELSE TextLine
      BY DEF LineOf
    <2> QED BY <2>1, <2>2
  <1> HIDE DEF S
  <1>4. /\ Len(text') = Len(text) + Len(piece) /\ Len(text) \in Nat /\ Len(piece) \in Nat
        /\ \A i \in 1 .. Len(text) : text'[i] = text[i]
    BY <1>1, <1>2, <1>3
  <1>5. ASSUME NEW L, NEW m, Passed(L, m) PROVE Passed(L, m)'
    <2>1. Len(L) \in Nat
      BY <1>5 DEF Passed
    <2>2. Begins(L)'
      BY <1>4, <1>5, <2>1 DEF Passed, Begins
    <2> QED BY <1>1, <1>5, <2>2 DEF Passed, Pass
  <1> QED BY <1>1, <1>2, <1>3, <1>5 DEF S

\* Every step keeps it.
LEMMA FreshKept ==
  ASSUME IInv, FreshInv, [Next]_vars
  PROVE  FreshInv'
  <1> DEFINE k == Len(audits)
  <1>1. audits \in Seq(AuditRow) /\ k \in Nat
    BY DEF IInv, AuditsInv
  <1>2. CASE RunAudit
    <2> DEFINE p == Parse(vendor, text, learned)
               x == Outcome(audits[k], p)
    <2>1. /\ k \in 1 .. Len(audits) /\ audits' = [audits EXCEPT ![k] = x]
          /\ normalized' = [p EXCEPT !.state = "none"]
          /\ vendor' = vendor /\ text' = text /\ learned' = learned
      BY <1>1, <1>2 DEF RunAudit, Settled
    <2>2. vendor \in Vendors /\ text \in Seq(LineOf(vendor)) /\ Mappings(learned)
      BY LearnedMappings DEF IInv, TextInv
    <2>3. normalized' = Pass(text, learned)
      BY <2>1 DEF Pass
    <2>4. Pass(text, learned).unknown = p.unknown
      BY <2>2, PassParsed
    <2>5. audits[k] \in AuditRow
      BY <1>1, <2>1
    <2> HIDE DEF p
    <2>6. x \in AuditRow /\ (x.status = "complete" => p.unknown = {})
      BY <2>2, <2>5, OutcomeRow
    <2> HIDE DEF x
    <2>7. LastAudit' = x
      <3>1. Len(audits') = k /\ audits'[k] = x
        BY <1>1, <2>1, <2>6, ReplacedRow
      <3> QED BY <3>1 DEF LastAudit
    <2>8. Passed(text, learned)'
      <3>1. Len(text) \in Nat
        BY <2>2
      <3>2. Begins(text)'
        BY <2>1, <3>1 DEF Begins
      <3> QED BY <2>1, <2>2, <2>3, <3>2 DEF Passed, Pass
    <2>9. LastAudit'.status = "complete" => normalized'.unknown = {}
      BY <2>3, <2>4, <2>6, <2>7
    <2> QED BY <2>8, <2>9 DEF FreshInv
  <1>3. ASSUME NEW piece \in Fragments[vendor], Configure(piece) PROVE FreshInv'
    <2>1. /\ learned' = learned /\ audits' = audits /\ normalized' = normalized
      BY <1>3 DEF Configure
    <2>2. \A L, m : Passed(L, m) => Passed(L, m)'
      BY <1>3, ConfigureAdds
    <2>3. LastAudit' = LastAudit
      BY <2>1 DEF LastAudit
    <2>4. SUFFICES ASSUME audits # << >>, LastAudit.status = "complete"
                   PROVE  normalized'.unknown = {} /\ \E L : Passed(L, learned)'
      BY <2>1, <2>3 DEF FreshInv
    <2>5. PICK L : Passed(L, learned)
      BY <2>4 DEF FreshInv
    <2>6. normalized'.unknown = {}
      BY <2>1, <2>4 DEF FreshInv
    <2>7. Passed(L, learned)'
      BY <2>1, <2>2, <2>5 DEF Passed
    <2> QED BY <2>6, <2>7
  <1>4. ASSUME NEW way \in Ways, NEW f \in Requests, Submit(way, f) PROVE FreshInv'
    <2> DEFINE x == [framework |-> FrameworkFor(way, vendor, f),
                     status |-> "queued", results |-> {}, score |-> Unset]
    <2>1. audits' = Append(audits, x) /\ x.status = "queued"
      BY <1>4 DEF Submit
    <2> HIDE DEF x
    <2>2. Len(audits') = k + 1 /\ audits'[k + 1] = x
      BY <1>1, <2>1
    <2>3. LastAudit'.status # "complete"
      BY <2>1, <2>2 DEF LastAudit
    <2> QED BY <2>3 DEF FreshInv
  <1>5. ASSUME NEW n \in pending, NEW r \in Approvals, ApproveTraining(n, r)
        PROVE  FreshInv'
    <2> DEFINE x == [audits[k] EXCEPT !.status = "normalising"]
    <2>1. /\ k \in 1 .. Len(audits) /\ audits[k].status = "awaiting_training"
          /\ audits' = [audits EXCEPT ![k].status = "normalising"] \/ audits' = audits
      BY <1>1, <1>5 DEF ApproveTraining, Settled, LastAudit
    <2>2. audits[k] \in AuditRow
      BY <1>1, <2>1
    <2>3. x \in AuditRow /\ x.status = "normalising"
      <3>1. "normalising" \in Statuses
        BY DEF Statuses
      <3> QED BY <2>2, <3>1 DEF AuditRow
    <2>4. audits' = [audits EXCEPT ![k] = x] \/ audits' = audits
      BY <2>1
    <2> HIDE DEF x
    <2>5. Len(audits') = k /\ (audits'[k] = x \/ audits'[k] = audits[k])
      BY <1>1, <2>1, <2>3, <2>4, ReplacedRow
    <2>6. LastAudit'.status # "complete"
      BY <2>1, <2>3, <2>5 DEF LastAudit
    <2> QED BY <2>6 DEF FreshInv
  <1>6. ASSUME NEW i \in 1 .. MaxAudits, SetBaseline(i) PROVE FreshInv'
    BY <1>6 DEF SetBaseline, FreshInv, LastAudit, Passed, Begins, Pass
  <1>7. CASE UNCHANGED vars
    BY <1>7 DEF vars, FreshInv, LastAudit, Passed, Begins, Pass
  <1> QED BY <1>2, <1>3, <1>4, <1>5, <1>6, <1>7 DEF Next

\* After the last audit has completed, its pass is over the whole text with the mappings
\* approved now, and it has understood every line.
LEMMA FreshPass ==
  ASSUME IInv, FreshInv, Current, LastAudit.status = "complete"
  PROVE  LET p == Parse(vendor, text, learned) IN
         /\ Understood(vendor, text, learned)
         /\ normalized.config = p.config /\ normalized.findings = p.findings
  <1>1. audits # << >>
    BY DEF Current
  <1>2. PICK L : Passed(L, learned)
    BY <1>1 DEF FreshInv
  <1>3. /\ L \in Seq(LineOf(vendor)) /\ Mappings(learned) /\ Begins(L)
        /\ normalized = Pass(L, learned) /\ text \in Seq(LineOf(vendor))
    BY <1>2 DEF Passed, IInv, TextInv
  <1> DEFINE p == Parse(vendor, L, learned)
  <1>4. /\ normalized.n = Len(L) /\ normalized.config = p.config
        /\ normalized.findings = p.findings /\ normalized.unknown = p.unknown
    BY <1>3, PassParsed
  <1>5. L = text
    <2>1. Len(L) = Len(text)
      BY <1>4 DEF Current
    <2>2. \A i \in 1 .. Len(L) : L[i] = text[i]
      BY <1>3 DEF Begins
    <2> QED BY <1>3, <2>1, <2>2
  <1>6. p.unknown = {}
    BY <1>1, <1>4 DEF FreshInv
  <1>7. Understood(vendor, text, learned)
    BY <1>3, <1>5, <1>6 DEF Understood
  <1> QED BY <1>4, <1>5, <1>7

\* So the lines its template adds repair the control that failed.
LEMMA NewLinesDo ==
  IInv /\ FreshInv => NewLinesPrevail
  <1> SUFFICES ASSUME IInv, FreshInv, NEW r \in Remediable,
                      DeterministicRemediation(vendor, r.ref).takes = {}
               PROVE  Verdict(r, Parse(vendor,
                              text \o DeterministicRemediation(vendor, r.ref).shows,
                              learned).config) # FAIL
    BY Zenon DEF NewLinesPrevail
  <1> DEFINE b == DeterministicRemediation(vendor, r.ref)
             p == Parse(vendor, text, learned)
             q == Parse(vendor, text \o b.shows, learned)
  <1>1. /\ Current /\ LastAudit.status = "complete" /\ vendor \in {"cisco", "juniper"}
        /\ r \in GetControls(LastAudit.framework, vendor)
        /\ b # NoTemplate /\ b.takes = {}
        /\ Verdict(r, normalized.config) = FAIL /\ Unmapped(r)
    BY Zenon DEF Remediable
  <1>2. Understood(vendor, text, learned) /\ normalized.config = p.config
    BY <1>1, FreshPass
  <1>3. LastAudit.framework \in Frameworks
    <2>1. audits # << >> /\ audits \in Seq(AuditRow)
      BY <1>1 DEF Current, IInv, AuditsInv
    <2>2. LastAudit \in AuditRow
      BY <2>1 DEF LastAudit
    <2> QED BY <2>2 DEF AuditRow
  <1>4. Repaired(vendor, r)
    <2>1. CASE vendor = "cisco"
      BY <1>1, <1>3, <2>1, CiscoRepaired, Zenon
    <2>2. CASE vendor = "juniper"
      BY <1>1, <1>3, <2>2, JuniperRepaired, Zenon
    <2> QED BY <1>1, <2>1, <2>2, Zenon
  <1>5. Repairs(vendor, b.shows, r)
    BY <1>1, <1>4, Zenon DEF Repaired
  <1>6. Failing(vendor, text, learned, r)
    BY <1>1, <1>2, Zenon DEF Failing, Unmapped
  <1> HIDE DEF b
  <1>7. Verdict(r, q.config) # FAIL
    BY <1>2, <1>5, <1>6, Zenon DEF Repairs
  <1> QED BY <1>7 DEF b

\* Of the remediation of Cisco and JunOS, the part about the parser: a template that
\* takes nothing away, added to any configuration an audit has understood, clears the
\* control that failed, whatever the lines before it say and in whatever block
\* they end, as long as no approved mapping concerns what the control reads.
THEOREM AlwaysNewLinesPrevail ==
  Spec => []NewLinesPrevail
  <1>1. IInv /\ FreshInv /\ [Next]_vars => FreshInv'
    BY FreshKept
  <1> QED BY <1>1, InitFresh, AlwaysIInv, NewLinesDo, PTL DEF Spec
=============================================================================
