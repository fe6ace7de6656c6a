-------------------------- MODULE JunosNormalizer ---------------------------
(***************************************************************************)
(* The JunOS parser (normalizer/juniper_junos.py).  The text is either one *)
(* "set", "delete" or "deactivate" command per line or a hierarchy of      *)
(* braces; both are first turned into statements, and those are read.      *)
(*                                                                         *)
(* A line is [form, path, no, n, words]: path is the sequence of keywords, *)
(* no says that the command deletes or deactivates.  The forms are "set"   *)
(* (a command), "open" and "close" (braces), "leaf" (a statement of the    *)
(* hierarchy, or a line that is none of these) and "blank".                *)
(***************************************************************************)
EXTENDS FortiOSNormalizer

JLine(form, path) == [form |-> form, path |-> path, no |-> FALSE, n |-> 0, words |-> {}]
Set(path) == JLine("set", path)
Delete(path) == [JLine("set", path) EXCEPT !.no = TRUE]

Service(k) == <<"system", "services", k>>
Ssh == Service("ssh")
SshKnob(k) == <<"system", "services", "ssh", k>>
WebHttp == <<"system", "services", "web-management", "http">>
WebHttps == <<"system", "services", "web-management", "https">>

JunosStart ==
  NewParse([stack |-> << >>, http |-> FALSE, https |-> FALSE, v3 |-> FALSE,
            community |-> FALSE])

\* The command a line stands for: its path below the braces that are open.
Command(p, l) ==
  IF l.form = "set" THEN l.path ELSE FlattenSeq(p.state.stack) \o l.path

\* What one statement says.  on is Yes for "set" and No for "delete" and
\* "deactivate"; many of the rules do not ask.
JunosReadings(path, l) ==
  LET on == IF l.no THEN No ELSE Yes IN
  CASE path \in {<<"system", "host-name">>, <<"host-name">>} ->
         <<Reading("device_info.hostname", Yes)>>
    [] path \in {<<"system", "version">>, <<"version">>} ->
         <<Reading("device_info.os_version", Yes)>>
    [] path = <<"system", "root-authentication", "encrypted-password">> ->
         LET hashed == "$hash" \in l.words IN
         <<Reading("device_info.enable_secret_type", IF hashed THEN 9 ELSE 0),
           Reading("service_hardening.password_encryption", IF hashed THEN Yes ELSE No)>>
    [] path = Service("finger") ->
         <<Reading("service_hardening.finger_disabled", Flip(on))>>
    [] path = WebHttp -> <<Reading("service_hardening.http_server_disabled", Flip(on))>>
    [] path = WebHttps -> <<Reading("service_hardening.http_secure_server_enabled", on)>>
    [] path = <<"system", "login", "message">> ->
         <<Reading("access_control.banner_login", l.n),
           Reading("access_control.banner_motd", l.n)>>
    [] path = <<"system", "login", "idle-timeout">> ->
         <<Reading("line_console.exec_timeout_minutes", l.n),
           Reading("line_vty.exec_timeout_minutes", l.n)>>
    [] path = Ssh -> <<Listing("line_vty.transport_input", {"ssh"})>>
    [] path = SshKnob("protocol-version") ->
         <<Reading("ssh.version", l.n), Listing("line_vty.transport_input", {"ssh"})>>
    [] path = SshKnob("client-alive-interval") -> <<Reading("ssh.timeout_seconds", l.n)>>
    [] path = SshKnob("max-authentication-retries") -> <<Reading("ssh.auth_retries", l.n)>>
    [] path = <<"system", "authentication-order">> ->
         <<Reading("aaa.new_model", on), Reading("aaa.authentication_login", Yes)>>
    [] path = <<"system", "syslog", "archive-size">> ->
         <<Reading("logging.buffered_size", l.n)>>
    [] path = <<"system", "syslog">> ->
         <<Reading("logging.trap_severity", Yes), Reading("logging.timestamps_enabled", on)>>
    [] path = <<"system", "ntp", "server">> -> <<Listing("ntp.servers", l.words)>>
    [] path \in {<<"system", "ntp", k>> : k \in {"authentication-key", "trusted-key"}} ->
         <<Reading("ntp.authenticate", on)>>
    [] path = <<"snmp", "v3">> -> <<Reading("snmp.v3_only", on)>>
    [] path = <<"snmp", "community">> /\ l.words \cap {"public", "private"} # {} ->
         <<Reading("snmp.default_communities_removed", Flip(on))>>
    [] path = <<"protocols", "lldp", "interface", "all", "disable">> ->
         <<Reading("cdp.global_disabled", on)>>
    [] path = <<"interfaces", "disable">> -> <<Reading("interfaces.shutdown", on)>>
    [] OTHER -> << >>

\* What the last statement of each kind was, for the facts at the end.
Saw(p, path, l) ==
  [p EXCEPT !.state.http = IF path = WebHttp THEN ~l.no ELSE @,
            !.state.https = IF path = WebHttps THEN ~l.no ELSE @,
            !.state.v3 = IF path = <<"snmp", "v3">> THEN ~l.no ELSE @,
            !.state.community = IF path = <<"snmp", "community">>
                                   /\ l.words \cap {"public", "private"} # {}
                                THEN ~l.no ELSE @]

JunosStatement(learned, p, path, l) ==
  LET rows == JunosReadings(path, l) IN
  IF rows # << >> THEN SetAll(Saw(p, path, l), rows)
  ELSE IF l.path \in DOMAIN learned THEN ApplyUnion(p, learned[l.path])
  ELSE Unrecognized(p)

JunosStep(learned, p0, l) ==
  LET p == Advance(p0) IN
  CASE l.form = "blank" -> p
    [] l.form = "open" -> [p EXCEPT !.state.stack = Append(@, l.path)]
    [] l.form = "close" /\ p.state.stack # << >> -> [p EXCEPT !.state.stack = Front(@)]
    [] l.form = "close" /\ p.state.stack = << >> -> p
    [] OTHER -> JunosStatement(learned, p, Command(p, l), l)

\* HTTPS without HTTP, and SNMPv3 without a default community, are taken as facts
\* of a complete file, unless a statement said otherwise.
JunosEnd(p) ==
  LET fact(c, given, f) ==
        IF given /\ Get(c, f) = Unset THEN [c EXCEPT !.scalars = With(@, f, Yes)] ELSE c
  IN [p EXCEPT !.config =
        fact(fact(@, p.state.https /\ ~p.state.http,
                  "service_hardening.http_server_disabled"),
             p.state.v3 /\ ~p.state.community, "snmp.default_communities_removed")]
=============================================================================
