----------------------------- MODULE Remediation ----------------------------
(***************************************************************************)
(* The template a failed control of a vendor is given (remediation/), and  *)
(* what a device makes of one.  A control without a template gets a        *)
(* proposal of the local model or nothing, and either is for an operator   *)
(* to review: that is left out.                                            *)
(*                                                                         *)
(* A template is what its commands do: the statements they take away, as   *)
(* commands ("no ..." of IOS, "delete ..." of JunOS), and the lines the    *)
(* device shows for the others.  The editor's own commands (configure      *)
(* terminal, exit, end, write memory, commit) show nothing.                *)
(***************************************************************************)
EXTENDS Compliance

Block(takes, shows) == [takes |-> takes, shows |-> shows]
Takes(command) == Block({command}, << >>)
Shows(lines) == Block({}, lines)

VtyLines == WordLine("line vty", {"0 15"})

CiscoTemplates ==
  Dict({<<"1.1.1", Shows(<<Line("service password-encryption")>>)>>,
        <<"1.1.2", Shows(<<NumLine("enable secret", 9)>>)>>,
        <<"1.2.1", Takes(NoLine("service finger"))>>,
        <<"1.2.2", Takes(NoLine("ip http server"))>>,
        <<"1.2.3", Shows(<<Line("ip http secure-server")>>)>>,
        <<"1.2.4", Takes(NoLine("service tcp-small-servers"))>>,
        <<"1.2.5", Takes(NoLine("service udp-small-servers"))>>,
        <<"1.2.6", Takes(NoLine("ip bootp server"))>>,
        <<"1.3.1", Takes(NoLine("ip source-route"))>>,
        <<"1.4.1", Shows(<<[NumLine("banner motd", Yes) EXCEPT !.words = {Delimiter}],
                           [NumLine("banner login", Yes) EXCEPT !.words = {Delimiter}]>>)>>,
        <<"1.5.1", Shows(<<Line("line console"), NumLine("exec-timeout", 600)>>)>>,
        <<"1.5.2", Shows(<<VtyLines, NumLine("exec-timeout", 600)>>)>>,
        <<"1.5.3", Shows(<<VtyLines, WordLine("transport input", {"ssh"})>>)>>,
        <<"1.5.4", Shows(<<NumLine("ip ssh version", 2)>>)>>,
        <<"1.5.5", Shows(<<NumLine("ip ssh time-out", 60)>>)>>,
        <<"1.5.6", Shows(<<NumLine("ip ssh authentication-retries", 3)>>)>>,
        <<"1.6.1", Shows(<<NumLine("logging buffered", 64000)>>)>>,
        <<"1.6.2", Shows(<<Line("service timestamps log")>>)>>,
        <<"1.7.1", Shows(<<WordLine("ntp server", {"NTP_SERVER_ADDRESS"})>>)>>,
        <<"1.8.1", Block({[NoLine("snmp-server community") EXCEPT !.words = {"public"}],
                          [NoLine("snmp-server community") EXCEPT !.words = {"private"}]},
                         <<Line("snmp-server v3")>>)>>,
        <<"1.9.1", Shows(<<Line("aaa new-model")>>)>>,
        <<"1.10.1", Takes(NoLine("cdp run"))>>})

\* The references the other catalogues use, as Cisco's own numbers.
CiscoCanonical ==
  Dict({<<"credential.secure_hash", "1.1.2">>,
        <<"password.encryption", "1.1.1">>,
        <<"http.disabled", "1.2.2">>,
        <<"banner.login", "1.4.1">>,
        <<"ssh.version", "1.5.4">>,
        <<"ssh.only", "1.5.3">>,
        <<"session.timeout", "1.5.2">>,
        <<"logging.enabled", "1.6.2">>,
        <<"logging.buffer", "1.6.1">>,
        <<"ntp.servers", "1.7.1">>,
        <<"snmp.v3", "1.8.1">>,
        <<"aaa.enabled", "1.9.1">>,
        <<"discovery.disabled", "1.10.1">>})

RootPassword ==
  [Set(<<"system", "root-authentication", "encrypted-password">>) EXCEPT !.words = {"$hash"}]

\* Mutation: the template of http.disabled was written for another statement.
HttpsTemplate == Takes(Delete(WebHttps))

\* delete system services web-management http
HttpTemplate == Takes(Delete(WebHttp))

JuniperTemplates ==
  Dict({<<"credential.secure_hash", Shows(<<RootPassword>>)>>,
        <<"http.disabled", HttpTemplate>>,
        <<"banner.login", Shows(<<[Set(<<"system", "login", "message">>) EXCEPT !.n = Yes]>>)>>,
        <<"ssh.version", Shows(<<[Set(SshKnob("protocol-version")) EXCEPT !.n = 2]>>)>>,
        <<"ssh.only", Block({Delete(Service("telnet"))}, <<Set(Ssh)>>)>>,
        <<"session.timeout",
          Shows(<<[Set(<<"system", "login", "idle-timeout">>) EXCEPT !.n = 600]>>)>>,
        <<"logging.enabled", Shows(<<Set(<<"system", "syslog">>)>>)>>,
        <<"logging.buffer",
          Shows(<<[Set(<<"system", "syslog", "archive-size">>) EXCEPT !.n = 1048576]>>)>>,
        <<"ntp.servers",
          Shows(<<[Set(<<"system", "ntp", "server">>) EXCEPT !.words = {"ntp"}]>>)>>,
        <<"ntp.authenticate", Shows(<<Set(<<"system", "ntp", "authentication-key">>),
                                      Set(<<"system", "ntp", "trusted-key">>)>>)>>,
        <<"snmp.v3", Block({[Delete(<<"snmp", "community">>) EXCEPT !.words = {"public"}],
                            [Delete(<<"snmp", "community">>) EXCEPT !.words = {"private"}]},
                           <<Set(<<"snmp", "v3">>)>>)>>,
        <<"aaa.enabled", Shows(<<Set(<<"system", "authentication-order">>),
                                 Set(<<"system", "radius-server">>)>>)>>,
        <<"discovery.disabled",
          Shows(<<Set(<<"protocols", "lldp", "interface", "all", "disable">>)>>)>>,
        <<"password.encryption", Shows(<<RootPassword>>)>>})

InSection(section, l) == <<WordLine("config", {section}), l, Line("end")>>
InRecord(section, edit, l) ==
  <<WordLine("config", {section}), WordLine("edit", {edit}), l, Line("next"), Line("end")>>

FortiosTemplates ==
  Dict({<<"fortios.session.timeout",
          Shows(InSection("system global", NumLine("admintimeout", 600)))>>,
        <<"fortios.management.secure",
          Shows(InRecord("system interface", "MANAGEMENT_INTERFACE",
                         WordLine("allowaccess", {"ping", "https", "ssh"})))>>,
        <<"fortios.strong_crypto",
          Shows(<<WordLine("config", {"system global"}), WordLine("strong-crypto", {"enable"}),
                  WordLine("admin-ssh-v1", {"disable"}), Line("end")>>)>>,
        <<"fortios.logging.enabled",
          Shows(InSection("log disk setting", WordLine("status", {"enable"})))>>,
        <<"fortios.policy.logging",
          Shows(InRecord("firewall policy", "POLICY_ID", WordLine("logtraffic", {"all"})))>>,
        <<"fortios.ntp",
          Shows(<<WordLine("config", {"system ntp"}), WordLine("ntpsync", {"enable"}),
                  WordLine("config", {"ntpserver"}), WordLine("edit", {"1"}),
                  WordLine("server", {"NTP_SERVER_ADDRESS"}), Line("next"), Line("end"),
                  Line("end")>>)>>})

NoTemplate == Shows(<< >>)
Lookup(templates, ref) == IF ref \in DOMAIN templates THEN templates[ref] ELSE NoTemplate

\* deterministic_remediation: Cisco's own controls carry their number.
DeterministicRemediation(vendor, ref) ==
  CASE vendor = "cisco" ->
         Lookup(CiscoTemplates, IF ref \in DOMAIN CiscoCanonical THEN CiscoCanonical[ref]
                                ELSE ref)
    [] vendor = "juniper" -> Lookup(JuniperTemplates, ref)
    [] vendor = "fortinet" -> Lookup(FortiosTemplates, ref)
    [] OTHER -> NoTemplate

(***************************************************************************)
(* What a device of Cisco or Juniper makes of a block: no code of the      *)
(* repository, but what its parsers are given at the next audit.           *)
(***************************************************************************)
\* The block of an IOS configuration a line stands in.
Under(lines, n) ==
  LET heads == {i \in 1 .. n : lines[i].text \in {"line console", "line vty", "interface", "!"}}
  IN IF heads = {} THEN "!" ELSE lines[Max(heads)].text

\* A line of an IOS banner: its first, its text, its end.
OfBanner(lines, n) ==
  \E i \in 1 .. n :
    /\ lines[i].text \in DOMAIN Banners
    /\ i < n => /\ Delimiter \notin lines[i].words
                /\ \A j \in i + 1 .. n - 1 : lines[j].text # Delimiter

\* The statement of a line of JunOS, whichever way it is written.
JunosPath(lines, n) ==
  LET braces[i \in 0 .. n - 1] ==
        IF i = 0 THEN << >>
        ELSE CASE lines[i].form = "open" -> Append(braces[i - 1], lines[i].path)
               [] lines[i].form = "close" /\ braces[i - 1] # << >> -> Front(braces[i - 1])
               [] OTHER -> braces[i - 1]
  IN IF lines[n].form = "set" THEN lines[n].path
     ELSE FlattenSeq(braces[n - 1]) \o lines[n].path

\* A command that takes a statement away meets every line of it, or those with its word.
TakenAway(vendor, block, lines, n) ==
  \E c \in block.takes :
    /\ c.words # {} => c.words \cap lines[n].words # {}
    /\ IF vendor = "cisco" THEN lines[n].text = c.text
       ELSE lines[n].form \in {"set", "leaf"} /\ IsPrefix(c.path, JunosPath(lines, n))

\* Statements a device keeps several of; of any other, the new one replaces the old.
SeveralKept == {"ntp server", "snmp-server v3", "line console", "line vty"}
SeveralKeptPaths ==
  {<<"system", "syslog">>, <<"system", "ntp", "server">>, <<"snmp", "v3">>,
   <<"system", "ntp", "authentication-key">>, <<"system", "ntp", "trusted-key">>,
   <<"system", "authentication-order">>, <<"system", "radius-server">>}

Replaced(vendor, block, lines, n) ==
  \E i \in DOMAIN block.shows :
    LET new == block.shows[i] IN
    IF vendor = "cisco"
    THEN \/ /\ lines[n].text = new.text /\ new.text \notin SeveralKept
            /\ new.text \in {"exec-timeout", "transport input"}
                 => Under(lines, n) = Under(block.shows, i)
         \/ new.text \in DOMAIN Banners /\ OfBanner(lines, n)
    ELSE /\ lines[n].form \in {"set", "leaf"}
         /\ JunosPath(lines, n) = new.path /\ new.path \notin SeveralKeptPaths

\* The lines of the configuration the block leaves as they are.
Kept(vendor, block, lines) ==
  LET kept[n \in 0 .. Len(lines)] ==
        IF n = 0 THEN << >>
        ELSE IF TakenAway(vendor, block, lines, n) \/ Replaced(vendor, block, lines, n)
             THEN kept[n - 1] ELSE Append(kept[n - 1], lines[n])
  IN kept[Len(lines)]

\* The new lines: IOS shows "no ..." for some of the switches that are off.  It shows
\* none for a community that is gone, and JunOS shows no deletion.
NewLines(vendor, block) ==
  {block.shows} \cup {Append(block.shows, c) : c \in
     {x \in block.takes : vendor = "cisco" /\ x.text \in DOMAIN Toggles}}

\* The configurations the device may show once the block has been entered: the new
\* lines before the others or after them, for the device has an order of its own.
ReadBacks(vendor, block, lines) ==
  LET kept == Kept(vendor, block, lines)
      apart == IF vendor = "cisco" THEN <<Line("!")>> ELSE << >>
  IN UNION {{new \o apart \o kept, kept \o apart \o new} : new \in NewLines(vendor, block)}
=============================================================================
