-------------------------- MODULE CiscoNormalizer ---------------------------
(***************************************************************************)
(* The Cisco IOS parser (normalizer/cisco_ios.py), one line at a time.     *)
(*                                                                         *)
(* A line is [text, no, n, words]: the keywords of the statement, whether  *)
(* it is negated, its number and its words.  A text no rule knows is a     *)
(* line of syntax the parser does not understand.  All parsers share this  *)
(* shape of a line.                                                        *)
(***************************************************************************)
EXTENDS NormalizedConfig

\* Interface names with a dot: the path to their settings splits in the wrong
\* place and is not found, so nothing is assigned to them.
CONSTANT SubInterfaces

Line(t) == [text |-> t, no |-> FALSE, n |-> 0, words |-> {}]
NoLine(t) == [Line(t) EXCEPT !.no = TRUE]
NumLine(t, v) == [Line(t) EXCEPT !.n = v]
WordLine(t, w) == [Line(t) EXCEPT !.words = w]

\* Statements that switch a Boolean field, and its value when not negated.
Toggles ==
  Dict({<<"service password-encryption", <<"service_hardening.password_encryption", Yes>> >>,
        <<"service finger", <<"service_hardening.finger_disabled", No>> >>,
        <<"service tcp-small-servers", <<"service_hardening.tcp_small_servers_disabled", No>> >>,
        <<"service udp-small-servers", <<"service_hardening.udp_small_servers_disabled", No>> >>,
        <<"ip bootp server", <<"service_hardening.bootp_server_disabled", No>> >>,
        <<"ip http server", <<"service_hardening.http_server_disabled", No>> >>,
        <<"ip http secure-server", <<"service_hardening.http_secure_server_enabled", Yes>> >>,
        <<"ip source-route", <<"access_control.source_route_disabled", No>> >>,
        <<"cdp run", <<"cdp.global_disabled", No>> >>,
        <<"aaa new-model", <<"aaa.new_model", Yes>> >>,
        <<"ntp authenticate", <<"ntp.authenticate", Yes>> >>,
        <<"service timestamps log", <<"logging.timestamps_enabled", Yes>> >>})

\* Statements that give a field its number, and those that give it a text.
Numbers ==
  Dict({<<"enable secret", "device_info.enable_secret_type">>,
        <<"ip ssh version", "ssh.version">>,
        <<"ip ssh time-out", "ssh.timeout_seconds">>,
        <<"ip ssh authentication-retries", "ssh.auth_retries">>,
        <<"logging buffered", "logging.buffered_size">>})

Texts ==
  Dict({<<"hostname", "device_info.hostname">>,
        <<"ip domain-name", "device_info.domain_name">>,
        <<"version", "device_info.os_version">>,
        <<"aaa authentication login", "aaa.authentication_login">>,
        <<"logging trap", "logging.trap_severity">>})

TimeoutFields == [line_console |-> "line_console.exec_timeout_minutes",
                  line_vty |-> "line_vty.exec_timeout_minutes"]

Banners ==
  Dict({<<"banner motd", "access_control.banner_motd">>,
        <<"banner login", "access_control.banner_login">>})

Flip(v) == Yes - v

(***************************************************************************)
(* The parser remembers the block it is in and the banner it is inside.    *)
(***************************************************************************)
NoBanner == [field |-> "none", start |-> 0, filled |-> No, blank |-> FALSE]
CiscoStart == NewParse([context |-> "none", name |-> "none", banner |-> NoBanner])

InContext(p, c) == [p EXCEPT !.state.context = c]

\* What a line says inside a block; << >> when the block has no such setting.
ContextReadings(s, l) ==
  CASE s.context \in {"line_console", "line_vty"} /\ l.text = "exec-timeout" /\ ~l.no ->
         <<Reading(TimeoutFields[s.context], l.n)>>
    [] s.context = "line_console" /\ l.text = "transport preferred" /\ ~l.no ->
         <<Reading("line_console.transport_preferred", Yes)>>
    [] s.context = "line_vty" /\ l.text = "transport input" /\ ~l.no ->
         <<Listing("line_vty.transport_input", l.words)>>
    [] s.context = "line_vty" /\ l.text = "access-class" /\ ~l.no ->
         <<Reading("line_vty.access_class", Yes)>>
    [] s.context = "interface" /\ l.text = "shutdown" ->
         <<Reading("interfaces.shutdown", IF l.no THEN No ELSE Yes)>>
    [] s.context = "interface" /\ l.text \in {"description", "ip address"} /\ ~l.no ->
         <<Reading(IF l.text = "description" THEN "interfaces.description"
                   ELSE "interfaces.ip_address", Yes)>>
    [] s.context = "interface" /\ l.text = "cdp enable" /\ l.no ->
         <<Reading("interfaces.cdp_disabled", Yes)>>
    [] OTHER -> << >>

GlobalReadings(l) ==
  CASE l.text \in DOMAIN Toggles ->
         LET t == Toggles[l.text] IN <<Reading(t[1], IF l.no THEN Flip(t[2]) ELSE t[2])>>
    [] l.text \in DOMAIN Numbers /\ ~l.no -> <<Reading(Numbers[l.text], l.n)>>
    [] l.text \in DOMAIN Texts /\ ~l.no -> <<Reading(Texts[l.text], Yes)>>
    [] l.text = "ntp server" /\ ~l.no -> <<Listing("ntp.servers", l.words)>>
    [] l.text = "snmp-server v3" /\ ~l.no -> <<Reading("snmp.v3_only", Yes)>>
    [] l.text = "snmp-server community" /\ l.words \cap {"public", "private"} # {} ->
         <<Reading("snmp.default_communities_removed", IF l.no THEN Yes ELSE No)>>
    [] l.text = "snmp-server community" /\ l.words \cap {"public", "private"} = {} ->
         <<Reading("snmp.v3_only", No)>>
    [] OTHER -> << >>

\* A setting of an interface is assigned under its name, if the path resolves.
SetInterface(p, r) ==
  LET named == IF r.field = "interfaces.cdp_disabled" /\ p.state.name \notin SubInterfaces
               THEN [p EXCEPT !.config.interfaces = With(@, p.state.name, r.value)]
               ELSE p
  IN FoundAt(named, r, p.n, "parser")

Interface(p, name) ==
  InContext(FoundAt([p EXCEPT !.config.interfaces = SetDefault(@, name, Unset),
                              !.state.name = name],
                    Reading("interfaces.name", Yes), p.n, "parser"),
            "interface")

(***************************************************************************)
(* Banners.  A banner on one line carries its closing delimiter (in words) *)
(* and its text (n); one that is not closed takes every line up to the     *)
(* delimiter, whatever it says.  Its lines are joined: one blank line      *)
(* alone is no text, two are.                                              *)
(***************************************************************************)
Delimiter == "^C"

SetBanner(p, b, filled) ==
  LET r == Reading(b.field, filled) IN
  FoundAt([p EXCEPT !.config = AssignReplace(@, r), !.state.banner = NoBanner],
          r, b.start, "parser")

OpenBanner(p, l) ==
  LET b == [field |-> Banners[l.text], start |-> p.n, filled |-> l.n, blank |-> FALSE]
      q == InContext(p, "none")
  IN IF Delimiter \in l.words THEN SetBanner(q, b, l.n) ELSE [q EXCEPT !.state.banner = b]

BannerLine(p, l) ==
  LET b == p.state.banner IN
  IF l.text = Delimiter
  THEN SetBanner(p, b, IF l.n = Yes THEN Yes ELSE b.filled)
  ELSE [p EXCEPT !.state.banner.filled = IF l.text = "" /\ ~b.blank THEN @ ELSE Yes,
                 !.state.banner.blank = TRUE]

\* Mutation: approved mappings are asked before the rules.
LearnedFirst(learned, p, l) ==
  LET inside == ContextReadings(p.state, l)
      global == GlobalReadings(l)
  IN CASE l.text \in DOMAIN learned -> ApplyReplace(p, learned[l.text])
       [] l.text \notin DOMAIN learned /\ inside # << >> ->
            IF p.state.context = "interface" THEN SetInterface(p, inside[1])
            ELSE SetReplace(p, inside[1])
       [] l.text \notin DOMAIN learned /\ inside = << >> /\ global # << >> ->
            InContext(SetReplace(p, global[1]), "none")
       [] OTHER -> Unrecognized(p)

\* A statement: a setting of the block, else a global one (which ends the block),
\* else a line an approved mapping explains, else a line for training.
Statement(learned, p, l) ==
  LET inside == ContextReadings(p.state, l)
      global == GlobalReadings(l)
  IN CASE inside # << >> /\ p.state.context = "interface" -> SetInterface(p, inside[1])
       [] inside # << >> /\ p.state.context # "interface" -> SetReplace(p, inside[1])
       [] inside = << >> /\ global # << >> -> InContext(SetReplace(p, global[1]), "none")
       [] OTHER -> IF l.text \in DOMAIN learned THEN ApplyReplace(p, learned[l.text])
                   ELSE Unrecognized(p)

CiscoStep(learned, p0, l) ==
  LET p == Advance(p0) IN
  CASE p.state.banner # NoBanner -> BannerLine(p, l)
    [] p.state.banner = NoBanner /\ l.text = "" -> p
    [] p.state.banner = NoBanner /\ l.text = "!" -> InContext(p, "none")
    [] p.state.banner = NoBanner /\ l.text \in DOMAIN Banners -> OpenBanner(p, l)
    [] p.state.banner = NoBanner /\ l.text = "interface" ->
         Interface(p, CHOOSE name \in l.words : TRUE)
    [] p.state.banner = NoBanner /\ l.text \in {"line console", "line vty"} ->
         InContext(p, IF l.text = "line vty" THEN "line_vty" ELSE "line_console")
    [] OTHER -> Statement(learned, p, l)

\* At the end of the file an open banner becomes a line for training: its first
\* line only, the others were taken as its text.
CiscoEnd(p) ==
  IF p.state.banner = NoBanner THEN p
  ELSE [p EXCEPT !.unknown = @ \cup {p.state.banner.start}]
=============================================================================
