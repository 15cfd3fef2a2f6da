---------------------------- MODULE EapMessages -----------------------------
(***************************************************************************)
(* The messages of the Diameter EAP application and their groups           *)
(* (diameter_eap_parser.hxx, diameter_eap_der_parser.cxx,                  *)
(* diameter_eap_dea_parser.cxx) and what the dictionary says of them.      *)
(***************************************************************************)
EXTENDS MessageKind

----------------------------------------------------------------------------
(* Tunneling, Proxy-Info                                                   *)

EapTunnelingGrammar ==
  Grammar(<<>>,
          One(<<"Tunnel-Type", "Tunnel-Medium-Type", "Tunnel-Client-Endpoint",
                "Tunnel-Server-Endpoint">>),
          Opt(<<"Tunnel-Preference", "Tunnel-Client-Auth-Id", "Tunnel-Server-Auth-Id",
                "Tunnel-Assignment-Id", "Tunnel-Password", "Tunnel-Private-Group-Id">>),
          {})

EapTunnelingWrites ==
  As("Enumerated", {"Tunnel-Type", "Tunnel-Medium-Type"})
  \cup As("UTF8String", {"Tunnel-Client-Endpoint", "Tunnel-Server-Endpoint",
                         "Tunnel-Private-Group-Id"})
  \cup As("Unsigned32", {"Tunnel-Preference", "Tunnel-Client-Auth-Id",
                         "Tunnel-Server-Auth-Id"})
  \cup As("OctetString", {"Tunnel-Password"})

EapTunneling ==
  Group(EapTunnelingGrammar, EapTunnelingWrites, Back(EapTunnelingWrites), {}, FALSE)

EapProxyInfoGrammar ==
  Grammar(<<>>,
          One(<<"Proxy-Host", "Proxy-State">>),
          Many(<<"AVP">>),
          {})

EapProxyInfoWrites ==
  As("DiameterIdentity", {"Proxy-Host"})
  \cup As("OctetString", {"Proxy-State"})
  \cup As(Custom, {"AVP"})

EapProxyInfo ==
  Group(EapProxyInfoGrammar, EapProxyInfoWrites, Back(EapProxyInfoWrites), {"AVP"}, FALSE)

----------------------------------------------------------------------------
(* Diameter-EAP-Request                                                    *)

DERGrammar ==
  Grammar(One(<<"Session-Id">>),
          One(<<"Auth-Application-Id", "Origin-Host", "Origin-Realm", "Destination-Realm",
                "Auth-Request-Type", "EAP-Payload">>),
          Opt(<<"NAS-Port", "NAS-Port-Id", "Origin-State-Id", "Destination-Host",
                "NAS-Identifier", "NAS-IP-Address", "NAS-IPv6-Address", "NAS-Port-Type",
                "Port-Limit", "User-Name", "Service-Type", "Idle-Timeout", "State",
                "Authorization-Lifetime", "Auth-Grace-Period", "Auth-Session-State",
                "Session-Timeout", "Callback-Number", "Called-Station-Id",
                "Calling-Station-Id", "Originating-Line-Info", "Connect-Info",
                "Framed-Interface-Id", "Framed-IP-Address", "Framed-IP-Netmask",
                "Framed-MTU", "Framed-Protocol">>)
       \o Many(<<"Class", "Framed-Compression", "Framed-IPv6-Prefix", "Tunneling",
                 "Proxy-Info", "Route-Record", "AVP">>),
          {})

DERWritesHead ==
  As("Integer32", {"Auth-Application-Id"})
  \cup As("DiameterIdentity", {"Origin-Host", "Origin-Realm", "Destination-Realm",
                               "Destination-Host"})
  \cup As("Enumerated", {"Auth-Request-Type", "Service-Type"})
  \cup As("Unsigned32", {"Origin-State-Id", "Port-Limit", "Idle-Timeout"})
  \cup As("UTF8String", {"User-Name"})
  \cup As("OctetString", {"EAP-Payload", "State"})
  \cup {Row("NAS-Port", "Nas-Port", "Unsigned32", "Unsigned32"),
        Row("NAS-Port-Id", "Nas-Port-Id", "UTF8String", "UTF8String"),
        Row("NAS-Identifier", "Nas-Identifier", "UTF8String", "UTF8String"),
        Row("NAS-IP-Address", "Nas-IP-Address", "OctetString", "OctetString"),
        Row("NAS-IPv6-Address", "Nas-IPv6-Address", "OctetString", "OctetString"),
        Row("NAS-Port-Type", "Nas-Port-Type", "Enumerated", "Enumerated")}

DERWritesTail ==
  As("Unsigned32", {"Authorization-Lifetime", "Auth-Grace-Period", "Auth-Session-State",
                    "Session-Timeout", "Framed-MTU"})
  \cup As("UTF8String", {"Callback-Number", "Called-Station-Id", "Calling-Station-Id",
                         "Connect-Info"})
  \cup As("OctetString", {"Class", "Originating-Line-Info", "Framed-IP-Address",
                          "Framed-IPv6-Prefix", "Framed-IP-Netmask", "Route-Record"})
  \cup As("Enumerated", {"Framed-Compression", "Framed-Protocol"})
  \cup As("Grouped", {"Tunneling", "Proxy-Info"})
  \cup As(Custom, {"AVP"})
  \cup {Row("Framed-Interface-Id", "Framed-Interface-Id", "Unsigned32", "Unsigned64")}

DERReadsHead ==
  (Back(DERWritesHead) \ Same({"Auth-Application-Id"}))
  \cup Same({"Session-Id", "Authorization-Lifetime"})

DERReadsTail ==
  Back(DERWritesTail) \ Same({"Authorization-Lifetime", "Framed-IP-Netmask"})

DERVectors ==
  {"Class", "Framed-Compression", "Framed-IPv6-Prefix", "Tunneling", "Proxy-Info",
   "Route-Record", "AVP"}

DERequest ==
  [Group(DERGrammar, DERWritesHead \cup DERWritesTail, DERReadsHead \cup DERReadsTail,
         DERVectors, FALSE)
   EXCEPT !.early = Same({"Session-Id"}), !.compares = TRUE]

----------------------------------------------------------------------------
(* Diameter-EAP-Answer                                                     *)

\* The dictionary has the reissued payload, the master session key and the accounting
\* method in no rule.
DEAGrammar ==
  Grammar(One(<<"Session-Id">>),
          One(<<"Auth-Application-Id", "Auth-Request-Type", "Result-Code", "Origin-Host",
                "Origin-Realm">>),
          Opt(<<"User-Name", "EAP-Payload", "Multi-Round-Time-Out", "Service-Type",
                "Acct-Interim-Interval", "Error-Message", "Error-Reporting-Host",
                "Idle-Timeout", "Authorization-Lifetime", "Auth-Grace-Period",
                "Auth-Session-State", "Re-Auth-Request-Type", "Session-Timeout", "State",
                "Origin-State-Id", "Port-Limit", "Callback-Id", "Callback-Number",
                "Framed-Appletalk-Link", "Framed-Appletalk-Zone", "Framed-Interface-Id",
                "Framed-IP-Address", "Framed-IPv6-Pool", "Framed-IP-Netmask",
                "Framed-Pool", "Framed-IPX-Network", "Framed-MTU", "Framed-Protocol",
                "Framed-Routing", "Redirect-Host-Usage", "Redirect-Max-Cache-Time">>)
       \o Many(<<"Class", "Configuration-Token", "Reply-Message", "Filter-Id",
                 "Framed-Appletalk-Network", "Framed-Compression", "Framed-IPv6-Prefix",
                 "Framed-IPv6-Route", "Framed-Route", "NAS-Filter-Rule", "Tunneling",
                 "Redirect-Host", "Proxy-Info", "Route-Record", "AVP">>),
          {"Error-Message"})

DEAWritesHead ==
  As("Integer32", {"Auth-Application-Id"})
  \cup As("Enumerated", {"Auth-Request-Type", "Service-Type", "Re-Auth-Request-Type"})
  \cup As("Unsigned32", {"Origin-State-Id", "Port-Limit", "Result-Code",
                         "Multi-Round-Time-Out", "Acct-Interim-Interval"})
  \cup As("UTF8String", {"User-Name", "Error-Message", "Reply-Message", "Filter-Id",
                         "Callback-Id"})
  \cup As("OctetString", {"EAP-Payload", "EAP-Reissued-Payload", "EAP-Master-Session-Key",
                          "Configuration-Token"})
  \cup As("DiameterIdentity", {"Error-Reporting-Host"})
  \cup {Row("Accounting-EAP-Auth-Method", "Accounting-Eap-Auth-Method",
            "Unsigned64", "Unsigned64")}

DEAWritesBody ==
  As("Unsigned32", {"Framed-Appletalk-Link", "Framed-Appletalk-Network",
                    "Redirect-Max-Cache-Time", "Idle-Timeout", "Authorization-Lifetime",
                    "Auth-Grace-Period", "Auth-Session-State", "Session-Timeout"})
  \cup As("OctetString", {"Framed-Appletalk-Zone", "Framed-IPv6-Pool", "Framed-Pool",
                          "Framed-IPX-Network", "State", "Class", "Framed-IP-Address"})
  \cup As("UTF8String", {"Framed-IPv6-Route", "Framed-Route", "Callback-Number"})
  \cup As("Enumerated", {"Framed-Routing", "Redirect-Host-Usage", "Framed-Compression"})
  \cup As("DiameterIdentity", {"Redirect-Host"})
  \cup As("Unsigned64", {"Framed-Interface-Id"})

DEAWritesTail ==
  As("OctetString", {"Framed-IPv6-Prefix", "Framed-IP-Netmask"})
  \cup As("Unsigned32", {"Framed-MTU"})
  \cup As("Enumerated", {"Framed-Protocol"})
  \cup As("IPFilterRule", {"NAS-Filter-Rule"})
  \cup As("Grouped", {"Tunneling", "Proxy-Info"})
  \cup As(Custom, {"AVP"})

DEAReadsHead ==
  (Back(DEAWritesHead) \ Same({"Auth-Request-Type", "Reply-Message"}))
  \cup Same({"Session-Id", "Origin-Host", "Origin-Realm"})

DEAReadsTail ==
  Back((DEAWritesBody \cup DEAWritesTail)) \ Same({"Framed-IP-Netmask"})

DEAVectors ==
  {"Accounting-EAP-Auth-Method", "Class", "Framed-Compression", "Framed-IPv6-Prefix",
   "NAS-Filter-Rule", "Tunneling", "Proxy-Info", "AVP", "Configuration-Token",
   "Reply-Message", "Filter-Id", "Framed-Appletalk-Network", "Framed-IPv6-Route",
   "Framed-Route", "Redirect-Host"}

\* What Clear() leaves.
DEAKept ==
  {"Session-Id", "Auth-Application-Id", "Auth-Request-Type", "Origin-Host",
   "Origin-Realm", "Result-Code", "Configuration-Token", "Acct-Interim-Interval",
   "Error-Message", "Error-Reporting-Host", "Re-Auth-Request-Type", "Reply-Message",
   "Filter-Id", "Callback-Id"}

DEAnswer ==
  [Group(DEAGrammar, DEAWritesHead \cup DEAWritesBody \cup DEAWritesTail,
         DEAReadsHead \cup DEAReadsTail, DEAVectors, FALSE)
   EXCEPT !.kept = DEAKept]
=============================================================================
