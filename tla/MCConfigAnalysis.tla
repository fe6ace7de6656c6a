-------------------------- MODULE MCConfigAnalysis --------------------------
(***************************************************************************)
(* Devices of four vendors whose configurations are put together from a    *)
(* few pieces each: settings that pass and that fail, settings stated      *)
(* twice, blocks, banners with and without an end, and unknown syntax.     *)
(***************************************************************************)
EXTENDS ConfigAnalysis

CONSTANTS noRequest

AllVendors == {"cisco", "fortinet", "juniper", "other"}
SubIfs == {"e0.10"}
Unknown == Line("crypto pki")

CiscoPieces ==
  {<<WordLine("line vty", {"0 4"}), NumLine("exec-timeout", 660)>>,
   <<NumLine("exec-timeout", 300)>>,
   <<Line("line vty"), WordLine("transport input", {"ssh", "telnet"}), Line("!")>>,
   <<Line("ip http server")>>,
   <<NoLine("aaa new-model")>>,
   <<WordLine("snmp-server community", {"public"})>>,
   <<WordLine("snmp-server community", {"foo"})>>,
   <<Line("snmp-server v3")>>,
   <<WordLine("interface", {"e0"}), NoLine("cdp enable")>>,
   <<WordLine("interface", {"e0.10"}), NoLine("cdp enable")>>,
   <<Line("cdp run")>>,
   <<NumLine("banner motd", No)>>, <<Line("^C")>>,
   <<[NumLine("banner login", Yes) EXCEPT !.words = {"^C"}]>>,
   <<Unknown>>}

FortinetPieces ==
  {InSection("system global", NumLine("admintimeout", 900)),
   InSection("system global", WordLine("strong-crypto", {"disable"})),
   InRecord("system interface", "port1", WordLine("allowaccess", {"ssh", "https"})),
   InRecord("system interface", "port2", WordLine("allowaccess", {"http", "telnet"})),
   InRecord("system admin", "admin", WordLine("password", {"ENC"})),
   InRecord("system admin", "ops", WordLine("password", {"clear"})),
   InRecord("firewall policy", "1", WordLine("action", {"accept"})),
   <<Line("end"), WordLine("config", {"system global"}), NoLine("strong-crypto")>>}

JuniperPieces ==
  {<<Set(WebHttps)>>, <<Set(WebHttp)>>,
   <<JLine("open", Ssh), [JLine("leaf", <<"protocol-version">>) EXCEPT !.n = 1],
     JLine("close", << >>)>>,
   <<[Set(<<"snmp", "community">>) EXCEPT !.words = {"public"}]>>,
   <<Set(<<"snmp", "v3">>)>>,
   <<Set(<<"chassis", "aggregated-devices">>)>>}

OtherPieces == {<<Unknown>>, <<Line("")>>, <<Line("hostname")>>}

Pieces == [v \in AllVendors |->
  CASE v = "cisco" -> CiscoPieces
    [] v = "fortinet" -> FortinetPieces
    [] v = "juniper" -> JuniperPieces
    [] v = "other" -> OtherPieces]

Lines == [v \in AllVendors |->
  CASE v = "cisco" -> 3 [] v = "fortinet" -> 10 [] v = "juniper" -> 4 [] v = "other" -> 3]

AllRequests == Frameworks \cup {noRequest}
AllWays == {"upload one", "upload many", "pull", "import", "pull discovered"}

Readings == {Reading("aaa.new_model", Yes), Reading("line_vty.exec_timeout_minutes", Mistyped),
             Reading("custom.setting", Yes)}
=============================================================================
