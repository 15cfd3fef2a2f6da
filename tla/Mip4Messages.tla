---------------------------- MODULE Mip4Messages ----------------------------
(***************************************************************************)
(* The messages of the Mobile IPv4 application and their groups            *)
(* (diameter_mip4_parser.hxx, diameter_mip4_amr_parser.cxx,                *)
(* diameter_mip4_ama_parser.cxx, diameter_mip4_har_parser.cxx,             *)
(* diameter_mip4_haa_parser.cxx) and what the dictionary says of them. The *)
(* mobility security associations, which these write as grouped AVPs, are  *)
(* in no dictionary: what their classes hold never leaves the program.     *)
(***************************************************************************)
EXTENDS MessageKind

----------------------------------------------------------------------------
(* MIP-MN-AAA-Auth, MIP-Originating-Foreign-AAA, Proxy-Info                *)

MnAaaAuthGrammar ==
  Grammar(<<>>,
          One(<<"MIP-MN-AAA-SPI", "MIP-Auth-Input-Data-Length",
                "MIP-Authenticator-Offset">>),
          Many(<<"AVP">>),
          {})

MnAaaAuthWrites ==
  As("Unsigned32", {"MIP-MN-AAA-SPI", "MIP-Auth-Input-Data-Length",
                    "MIP-Authenticator-Length", "MIP-Authenticator-Offset"})

MnAaaAuth ==
  Group(MnAaaAuthGrammar, MnAaaAuthWrites, Back(MnAaaAuthWrites), {}, TRUE)

ForeignAaaGrammar ==
  Grammar(<<>>,
          One(<<"Origin-Realm", "Origin-Host">>),
          Many(<<"AVP">>),
          {})

\* The class keeps both names as integers.
ForeignAaaWrites ==
  As(Custom, {"AVP"})
  \cup {Row("Origin-Realm", "Origin-Realm", "DiameterIdentity", "Unsigned32"),
        Row("Origin-Host", "Origin-Host", "DiameterIdentity", "Unsigned32")}

ForeignAaa ==
  Group(ForeignAaaGrammar, ForeignAaaWrites, Back(ForeignAaaWrites), {"AVP"}, TRUE)

Mip4ProxyInfoGrammar ==
  Grammar(<<>>,
          One(<<"Proxy-Host", "Proxy-State">>),
          Many(<<"AVP">>),
          {})

Mip4ProxyInfoWrites ==
  As("DiameterIdentity", {"Proxy-Host"})
  \cup As("OctetString", {"Proxy-State"})
  \cup As(Custom, {"AVP"})

Mip4ProxyInfo ==
  Group(Mip4ProxyInfoGrammar, Mip4ProxyInfoWrites,
        Back(Mip4ProxyInfoWrites),
        {"AVP"}, FALSE)

----------------------------------------------------------------------------
(* AA-Mobile-Node-Request                                                  *)

AMRGrammar ==
  Grammar(One(<<"Session-Id">>),
          One(<<"Auth-Application-Id", "User-Name", "Destination-Realm", "Origin-Host",
                "Origin-Realm", "MIP-Reg-Request", "MIP-MN-AAA-Auth">>),
          Opt(<<"Acct-Multi-Session-Id", "Destination-Host", "Origin-State-Id",
                "MIP-Mobile-Node-Address", "MIP-Home-Agent-Address", "MIP-Feature-Vector",
                "MIP-Originating-Foreign-AAA", "Authorization-Lifetime",
                "Auth-Session-State", "MIP-FA-Challenge", "MIP-Candidate-Home-Agent-Host",
                "MIP-Home-Agent-Host">>)
       \o Many(<<"Proxy-Info", "Route-Record", "AVP">>),
          {"Acct-Multi-Session-Id"})

AMRWritesHead ==
  As("Integer32", {"Auth-Application-Id"})
  \cup As("UTF8String", {"User-Name", "Acct-Multi-Session-Id"})
  \cup As("DiameterIdentity", {"Destination-Realm", "Origin-Host", "Origin-Realm",
                               "Destination-Host"})
  \cup As("OctetString", {"MIP-Reg-Request"})
  \cup As("Grouped", {"MIP-MN-AAA-Auth"})
  \cup As("Unsigned32", {"Origin-State-Id"})
  \cup As("Address", {"MIP-Mobile-Node-Address", "MIP-Home-Agent-Address"})

AMRWritesTail ==
  As("Unsigned32", {"MIP-Feature-Vector", "Authorization-Lifetime", "Auth-Session-State",
                    "MIP-HA-to-FA-SPI"})
  \cup As("Grouped", {"MIP-Originating-Foreign-AAA", "MIP-Home-Agent-Host", "Proxy-Info"})
  \cup As("OctetString", {"MIP-FA-Challenge", "Route-Record"})
  \cup As("DiameterIdentity", {"MIP-Candidate-Home-Agent-Host"})
  \cup As(Custom, {"AVP"})

AMRReads ==
  (Back((AMRWritesHead \cup AMRWritesTail)) \ Same({"Auth-Application-Id"}))
  \cup Same({"Session-Id"})

AMRequest ==
  [Group(AMRGrammar, AMRWritesHead \cup AMRWritesTail, AMRReads,
         {"Proxy-Info", "Route-Record", "AVP"}, FALSE)
   EXCEPT !.early = Same({"Session-Id"}), !.compares = TRUE]

----------------------------------------------------------------------------
(* AA-Mobile-Node-Answer                                                   *)

AMAGrammar ==
  Grammar(One(<<"Session-Id">>),
          One(<<"Auth-Application-Id", "Result-Code", "Origin-Host", "Origin-Realm">>),
          Opt(<<"Acct-Multi-Session-Id", "User-Name", "Authorization-Lifetime",
                "Auth-Session-State", "Error-Message", "Error-Reporting-Host",
                "Re-Auth-Request-Type", "MIP-Feature-Vector", "MIP-Reg-Reply",
                "MIP-MN-to-FA-Key", "MIP-MN-to-HA-Key", "MIP-FA-to-MN-Key",
                "MIP-FA-to-HA-Key", "MIP-HA-to-MN-Key", "MIP-HA-to-FA-Key",
                "MIP-Key-Lifetime", "MIP-Home-Agent-Address", "MIP-Mobile-Node-Address",
                "Origin-State-Id">>)
       \o Many(<<"Proxy-Info", "AVP">>),
          {"Acct-Multi-Session-Id", "Error-Message"})

AMAWritesHead ==
  As("Integer32", {"Auth-Application-Id"})
  \cup As("Unsigned32", {"Result-Code", "Authorization-Lifetime", "Auth-Session-State",
                         "MIP-Feature-Vector"})
  \cup As("DiameterIdentity", {"Origin-Host", "Origin-Realm", "Error-Reporting-Host"})
  \cup As("UTF8String", {"Acct-Multi-Session-Id", "User-Name", "Error-Message"})
  \cup As("Enumerated", {"Re-Auth-Request-Type"})

AMAWritesTail ==
  As("OctetString", {"MIP-Reg-Reply"})
  \cup As("Grouped", {"MIP-MN-to-FA-MSA", "MIP-MN-to-HA-MSA", "MIP-FA-to-MN-MSA",
                      "MIP-FA-to-HA-MSA", "MIP-HA-to-MN-MSA", "Proxy-Info"})
  \cup As("Unsigned32", {"MIP-Msa-Lifetime", "Origin-State-Id"})
  \cup As("Enumerated", {"MIP-Algorithm-Type"})
  \cup As("Address", {"MIP-Home-Agent-Address", "MIP-Mobile-Node-Address"})
  \cup As("IPFilterRule", {"MIP-Filter-Rule"})
  \cup As(Custom, {"AVP"})

AMAReads ==
  (Back((AMAWritesHead \cup AMAWritesTail)) \ Same({"MIP-Msa-Lifetime"}))
  \cup Same({"Session-Id", "MIP-MSA-Lifetime"})

AMAnswer ==
  [Group(AMAGrammar, AMAWritesHead \cup AMAWritesTail, AMAReads,
         {"MIP-Filter-Rule", "Proxy-Info", "AVP"}, FALSE)
   EXCEPT !.early = Same({"Session-Id", "Auth-Application-Id"}), !.compares = TRUE]

----------------------------------------------------------------------------
(* Home-Agent-MIP-Request                                                  *)

HARGrammar ==
  Grammar(One(<<"Session-Id">>),
          One(<<"Auth-Application-Id", "Authorization-Lifetime", "Auth-Session-State",
                "MIP-Reg-Request", "Origin-Host", "Origin-Realm", "User-Name",
                "Destination-Realm", "MIP-Feature-Vector">>),
          Opt(<<"Destination-Host", "MIP-MN-to-HA-Key", "MIP-MN-to-FA-Key",
                "MIP-HA-to-MN-Key", "MIP-HA-to-FA-Key", "MIP-Key-Lifetime",
                "MIP-Originating-Foreign-AAA", "MIP-Mobile-Node-Address",
                "MIP-Home-Agent-Address", "Origin-State-Id">>)
       \o Many(<<"Proxy-Info", "Route-Record", "AVP">>),
          {})

HARWritesHead ==
  As("Integer32", {"Auth-Application-Id"})
  \cup As("Unsigned32", {"Authorization-Lifetime", "Auth-Session-State",
                         "MIP-Feature-Vector"})
  \cup As("OctetString", {"MIP-Reg-Request"})
  \cup As("DiameterIdentity", {"Origin-Host", "Origin-Realm", "Destination-Realm",
                               "Destination-Host"})
  \cup As("UTF8String", {"User-Name"})
  \cup As("Grouped", {"MIP-MN-to-HA-MSA"})

HARWritesTail ==
  As("Grouped", {"MIP-MN-to-FA-MSA", "MIP-HA-to-MN-MSA", "MIP-HA-to-FA-MSA",
                 "MIP-Originating-Foreign-AAA", "Proxy-Info"})
  \cup As("Unsigned32", {"MIP-Msa-Lifetime", "Origin-State-Id"})
  \cup As("Address", {"MIP-Mobile-Node-Address", "MIP-Home-Agent-Address"})
  \cup As("Enumerated", {"MIP-Algorithm-Type"})
  \cup As("IPFilterRule", {"MIP-Filter-Rule"})
  \cup As("OctetString", {"Route-Record"})
  \cup As(Custom, {"AVP"})

HARReads ==
  (Back((HARWritesHead \cup HARWritesTail)) \ Same({"Auth-Application-Id",
                                                    "MIP-Msa-Lifetime"}))
  \cup Same({"Session-Id", "MIP-MSA-Lifetime"})

HARequest ==
  [Group(HARGrammar, HARWritesHead \cup HARWritesTail, HARReads,
         {"MIP-Filter-Rule", "Proxy-Info", "Route-Record", "AVP"}, FALSE)
   EXCEPT !.early = Same({"Session-Id"}), !.compares = TRUE]

----------------------------------------------------------------------------
(* Home-Agent-MIP-Answer                                                   *)

HAAGrammar ==
  Grammar(One(<<"Session-Id">>),
          One(<<"Auth-Application-Id", "Result-Code", "Origin-Host", "Origin-Realm">>),
          Opt(<<"Acct-Multi-Session-Id", "User-Name", "Error-Reporting-Host",
                "Error-Message", "MIP-Reg-Reply", "MIP-Home-Agent-Address",
                "MIP-Mobile-Node-Address", "MIP-FA-to-HA-SPI", "MIP-FA-to-MN-SPI",
                "Origin-State-Id">>)
       \o Many(<<"Proxy-Info", "AVP">>),
          {"Acct-Multi-Session-Id", "Error-Message"})

HAAWrites ==
  As("Integer32", {"Auth-Application-Id"})
  \cup As("Unsigned32", {"Result-Code", "MIP-FA-to-HA-SPI", "MIP-FA-to-MN-SPI",
                         "Origin-State-Id"})
  \cup As("DiameterIdentity", {"Origin-Host", "Origin-Realm", "Error-Reporting-Host"})
  \cup As("UTF8String", {"Acct-Multi-Session-Id", "User-Name", "Error-Message"})
  \cup As("OctetString", {"MIP-Reg-Reply"})
  \cup As("Address", {"MIP-Home-Agent-Address", "MIP-Mobile-Node-Address"})
  \cup As("Grouped", {"Proxy-Info"})
  \cup As(Custom, {"AVP"})

HAAReads ==
  Back(HAAWrites)
  \cup Same({"Session-Id"})

HAAnswer ==
  Group(HAAGrammar, HAAWrites, HAAReads,
        {"Proxy-Info", "AVP"}, FALSE)
=============================================================================
