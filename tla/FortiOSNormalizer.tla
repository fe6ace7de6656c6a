------------------------- MODULE FortiOSNormalizer --------------------------
(***************************************************************************)
(* The FortiOS parser (normalizer/fortios.py), one line at a time: blocks  *)
(* nest, "config" opens one, "edit" names a record in it, "next" and "end" *)
(* close them.  A line "set <key> <values>" is [text |-> key], its values  *)
(* in words and n, and "unset" is its negation.                            *)
(***************************************************************************)
EXTENDS CiscoNormalizer

FortiOSStart ==
  NewParse([stack |-> << >>, protocols |-> {}, allowaccess |-> FALSE,
            v3 |-> FALSE, community |-> FALSE])

NoEdit == "none"
InBlock(p) == p.state.stack # << >>
Section(p) == IF InBlock(p) THEN Last(p.state.stack).section ELSE "none"
Edit(p) == IF InBlock(p) THEN Last(p.state.stack).edit ELSE NoEdit

Enabled(l) == IF "enable" \in l.words THEN Yes ELSE No
Log == {"log disk setting", "log fortianalyzer setting", "log syslogd setting"}
Servers == {"user radius", "user tacacs+", "user ldap"}
Protocols == {"ssh", "https", "http", "telnet"}

\* The settings that are read the same way wherever they stand in their section.
SectionReadings(section, edit, l) ==
  CASE section = "system global" /\ l.text = "hostname" ->
         <<Reading("device_info.hostname", Yes)>>
    [] section = "system global" /\ l.text \in {"admintimeout", "admin-console-timeout"}
         /\ l.words = {} ->
         <<Reading("line_vty.exec_timeout_minutes", l.n),
           Reading("line_console.exec_timeout_minutes", l.n)>>
    [] section = "system global" /\ l.text = "admin-ssh-v1" ->
         <<Reading("ssh.version", IF "disable" \in l.words THEN 2 ELSE 1)>>
    [] section = "system global" /\ l.text = "strong-crypto" ->
         <<Reading("service_hardening.strong_crypto_enabled", Enabled(l))>>
    [] section \in Servers /\ edit # NoEdit /\ l.text \in {"server", "remote-auth"} ->
         <<Reading("aaa.new_model", Yes), Reading("aaa.authentication_login", Yes)>>
    [] section \in Log /\ l.text = "status" -> <<Reading("logging.enabled", Enabled(l))>>
    [] section = "system ntp" /\ l.text = "ntpsync" -> <<Reading("ntp.enabled", Enabled(l))>>
    [] section = "ntpserver" /\ edit # NoEdit /\ l.text = "server" ->
         <<Listing("ntp.servers", l.words)>>
    [] OTHER -> << >>

(***************************************************************************)
(* The settings that accumulate over the records of a section.             *)
(***************************************************************************)
\* Mutation: the administrator listed last decides.
LastPassword(p, l) ==
  SetUnion(p, Reading("service_hardening.password_encryption",
                      IF "ENC" \in l.words THEN Yes ELSE No))

\* The weakest administrator decides: once one password is stored in clear the
\* field stays No.
AdminPassword(p, l) ==
  LET protected == "ENC" \in l.words
      current == Get(p.config, "service_hardening.password_encryption")
  IN SetUnion(p, Reading("service_hardening.password_encryption",
                         IF current # No /\ protected THEN Yes ELSE No))

AllowAccess(p, l) ==
  LET protocols == p.state.protocols \cup (l.words \cap Protocols) IN
  SetUnion([p EXCEPT !.state.allowaccess = TRUE, !.state.protocols = protocols],
           Listing("line_vty.transport_input", protocols))

SnmpUser(p, l) ==
  LET secure == l.words \cap {"auth-priv", "auth-no-priv"} # {} IN
  SetUnion([p EXCEPT !.state.v3 = @ \/ secure],
           Reading("snmp.v3_only", IF secure THEN Yes ELSE No))

SnmpCommunity(p, l) ==
  IF l.words \cap {"public", "private"} # {}
  THEN SetUnion([p EXCEPT !.state.community = TRUE],
                Reading("snmp.default_communities_removed", No))
  ELSE FoundAt(p, Reading("snmp.community", Yes), p.n, "parser")

\* Firewall policies: the keys a control reads are interpreted, the others kept.
PolicyFields ==
  [name |-> "firewall_policies.name", srcintf |-> "firewall_policies.srcintf",
   dstintf |-> "firewall_policies.dstintf", srcaddr |-> "firewall_policies.srcaddr",
   dstaddr |-> "firewall_policies.dstaddr", service |-> "firewall_policies.service",
   action |-> "firewall_policies.action", status |-> "firewall_policies.status",
   logtraffic |-> "firewall_policies.logtraffic"]

SetPolicy(policy, l) ==
  CASE l.text = "action" -> [policy EXCEPT !.accept = "accept" \in l.words]
    [] l.text = "status" -> [policy EXCEPT !.enabled = "disable" \notin l.words]
    [] l.text = "logtraffic" ->
         [policy EXCEPT !.logging = IF l.words \cap {"disable", "utm"} = {} THEN Yes ELSE No]
    [] OTHER -> policy

PolicySetting(p, l) ==
  FoundAt([p EXCEPT !.config.policies[Edit(p)] = SetPolicy(@, l)],
          Reading(PolicyFields[l.text], Yes), p.n, "parser")

InterfaceFields ==
  [alias |-> "interfaces.description", description |-> "interfaces.description",
   ip |-> "interfaces.ip_address", status |-> "interfaces.shutdown"]

\* A "set" line; an "unset" one has no value and no rule takes it.
Setting(learned, p, l) ==
  LET rows == SectionReadings(Section(p), Edit(p), l)
      record(s) == Section(p) = s /\ Edit(p) # NoEdit
      known == ~l.no
  IN CASE known /\ rows # << >> -> SetAll(p, rows)
       [] known /\ record("system interface") /\ l.text \in DOMAIN InterfaceFields ->
            FoundAt(p, Reading(InterfaceFields[l.text], Yes), p.n, "parser")
       [] known /\ record("system interface") /\ l.text = "allowaccess" ->
            AllowAccess(p, l)
       [] known /\ record("system admin") /\ l.text = "password" -> AdminPassword(p, l)
       [] known /\ record("system snmp user") /\ l.text = "security-level" -> SnmpUser(p, l)
       [] known /\ record("system snmp community") /\ l.text = "name" -> SnmpCommunity(p, l)
       [] known /\ record("firewall policy") /\ l.text \in DOMAIN PolicyFields ->
            PolicySetting(p, l)
       [] OTHER -> LearnedIfAssigned(p, learned, l.text)

(***************************************************************************)
(* The block structure.                                                    *)
(***************************************************************************)
OpenBlock(p, section) ==
  [p EXCEPT !.state.stack = Append(@, [section |-> section, edit |-> NoEdit])]

EditRecord(p, name) ==
  LET s == Section(p)
      q == [p EXCEPT !.state.stack[Len(p.state.stack)].edit = name]
  IN CASE s = "system interface" ->
            [q EXCEPT !.config.interfaces = SetDefault(@, name, Unset)]
       [] s = "firewall policy" ->
            [q EXCEPT !.config.policies = SetDefault(@, name, NewPolicy)]
       [] OTHER -> q

Word(l) == CHOOSE w \in l.words : TRUE

FortiOSStep(learned, p0, l) ==
  LET p == Advance(p0) IN
  CASE l.text \in {"", "#"} -> p
    [] l.text = "#config-version" ->
         SetAll(p, <<Reading("device_info.model", Yes),
                     Reading("device_info.os_version", Yes)>>)
    [] l.text = "config" -> OpenBlock(p, Word(l))
    [] l.text = "edit" /\ InBlock(p) -> EditRecord(p, Word(l))
    [] l.text = "next" /\ InBlock(p) ->
         [p EXCEPT !.state.stack[Len(p.state.stack)].edit = NoEdit]
    [] l.text = "end" /\ InBlock(p) -> [p EXCEPT !.state.stack = Front(@)]
    [] OTHER -> Setting(learned, p, l)

\* The findings of the allowaccess lines share one list, so in the end each of
\* them holds the protocols of all.  Then facts about what the whole file does or
\* does not contain; no line is cited for them.
SharedList(p) ==
  [p EXCEPT !.findings =
     [i \in DOMAIN @ |->
        IF @[i].reading.field = "line_vty.transport_input" /\ @[i].source = "parser"
        THEN [@[i] EXCEPT !.reading.items = p.state.protocols] ELSE @[i]]]

FortiOSEnd(p0) ==
  LET p == SharedList(p0)
      has(s) == IF s \in p.state.protocols THEN Yes ELSE No
      fact(c, f, v) == [c EXCEPT !.scalars = With(@, f, v)]
      http == IF p.state.allowaccess
              THEN fact(fact(p.config, "service_hardening.http_server_disabled",
                             Flip(has("http"))),
                        "service_hardening.http_secure_server_enabled", has("https"))
              ELSE p.config
  IN [p EXCEPT !.config =
        IF p.state.v3 /\ ~p.state.community
        THEN fact(http, "snmp.default_communities_removed", Yes) ELSE http]

(***************************************************************************)
(* Any other vendor (normalizer/generic.py): no syntax is interpreted.     *)
(***************************************************************************)
GenericStart == NewParse("none")

GenericStep(learned, p0, l) ==
  LET p == Advance(p0) IN
  IF l.text = "" THEN p ELSE LearnedIfAssigned(p, learned, l.text)
=============================================================================
