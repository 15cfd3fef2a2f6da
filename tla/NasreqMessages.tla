--------------------------- MODULE NasreqMessages ---------------------------
(***************************************************************************)
(* The messages of the NASREQ application and their groups                 *)
(* (diameter_nasreq_parser.hxx, diameter_nasreq_aareq_parser.cxx,          *)
(* diameter_nasreq_aaans_parser.cxx) and what the dictionary says of them. *)
(* The rules of each part are listed by how often the AVP may occur.       *)
(***************************************************************************)
EXTENDS MessageKind

----------------------------------------------------------------------------
(* Tunneling, Proxy-Info, CHAP-Auth                                        *)

TunnelingGrammar ==
  Grammar(<<>>,
          One(<<"Tunnel-Type", "Tunnel-Medium-Type", "Tunnel-Client-Endpoint",
                "Tunnel-Server-Endpoint">>),
          Opt(<<"Tunnel-Preference", "Tunnel-Client-Auth-Id", "Tunnel-Server-Auth-Id",
                "Tunnel-Assignment-Id", "Tunnel-Password", "Tunnel-Private-Group-Id">>),
          {})

TunnelingWrites ==
  As("Enumerated", {"Tunnel-Type", "Tunnel-Medium-Type"})
  \cup As("UTF8String", {"Tunnel-Client-Endpoint", "Tunnel-Server-Endpoint",
                         "Tunnel-Private-Group-Id"})
  \cup As("Unsigned32", {"Tunnel-Preference", "Tunnel-Client-Auth-Id",
                         "Tunnel-Server-Auth-Id"})
  \cup As("OctetString", {"Tunnel-Password"})

Tunneling ==
  Group(TunnelingGrammar, TunnelingWrites, Back(TunnelingWrites), {}, FALSE)

ProxyInfoGrammar ==
  Grammar(<<>>,
          One(<<"Proxy-Host", "Proxy-State">>),
          Many(<<"AVP">>),
          {})

ProxyInfoWrites ==
  As("DiameterIdentity", {"Proxy-Host"})
  \cup As("OctetString", {"Proxy-State"})
  \cup As(Custom, {"AVP"})

ProxyInfo ==
  Group(ProxyInfoGrammar, ProxyInfoWrites, Back(ProxyInfoWrites), {"AVP"}, FALSE)

ChapAuthGrammar ==
  Grammar(<<>>,
          One(<<"CHAP-Algorithm", "CHAP-Ident">>),
          Opt(<<"CHAP-Response">>)
       \o Many(<<"AVP">>),
          {})

ChapAuthWrites ==
  As("Enumerated", {"CHAP-Algorithm"})
  \cup As("OctetString", {"CHAP-Ident", "CHAP-Response"})
  \cup As(Custom, {"AVP"})

ChapAuth ==
  Group(ChapAuthGrammar, ChapAuthWrites, Back(ChapAuthWrites), {"AVP"}, TRUE)

----------------------------------------------------------------------------
(* AA-Request                                                              *)

AARGrammar ==
  Grammar(One(<<"Session-Id">>),
          One(<<"Auth-Application-Id", "Origin-Host", "Origin-Realm", "Destination-Realm",
                "Auth-Request-Type">>),
          Opt(<<"NAS-Port", "NAS-Port-Id", "Origin-State-Id", "Destination-Host",
                "NAS-Identifier", "NAS-IP-Address", "NAS-IPv6-Address", "NAS-Port-Type",
                "Port-Limit", "User-Name", "User-Password", "Service-Type", "State",
                "Authorization-Lifetime", "Auth-Grace-Period", "Auth-Session-State",
                "Callback-Number", "Called-Station-Id", "Calling-Station-Id",
                "Originating-Line-Info", "Connect-Info", "CHAP-Auth", "CHAP-Challenge",
                "Framed-Interface-Id", "Framed-IP-Address", "Framed-IP-Netmask",
                "Framed-MTU", "Framed-Protocol", "ARAP-Password", "ARAP-Security",
                "Login-LAT-Group", "Login-LAT-Node", "Login-LAT-Port",
                "Login-LAT-Service">>)
       \o Many(<<"Framed-Compression", "Framed-IPv6-Prefix", "ARAP-Security-Data",
                 "Login-IP-Host", "Login-IPv6-Host", "Tunneling", "Proxy-Info",
                 "Route-Record", "AVP">>),
          {"User-Password", "User-Name"})

\* The dictionary has no AVP of the names that begin with "Nas-".
AARWritesHead ==
  As("Integer32", {"Auth-Application-Id"})
  \cup As("DiameterIdentity", {"Origin-Host", "Origin-Realm", "Destination-Realm",
                               "Destination-Host"})
  \cup As("Enumerated", {"Auth-Request-Type", "Service-Type"})
  \cup As("Unsigned32", {"Origin-State-Id", "Port-Limit", "Authorization-Lifetime",
                         "Auth-Grace-Period"})
  \cup As("UTF8String", {"User-Name"})
  \cup As("OctetString", {"User-Password", "State"})
  \cup {Row("NAS-Identifier", "Nas-Identifier", "UTF8String", "UTF8String"),
        Row("NAS-IP-Address", "Nas-IP-Address", "OctetString", "OctetString"),
        Row("NAS-IPv6-Address", "Nas-IPv6-Address", "OctetString", "OctetString"),
        Row("NAS-Port", "Nas-Port", "Unsigned32", "Unsigned32"),
        Row("NAS-Port-Id", "Nas-Port-Id", "UTF8String", "UTF8String"),
        Row("NAS-Port-Type", "Nas-Port-Type", "Enumerated", "Enumerated")}

AARWritesBody ==
  As("Unsigned32", {"Auth-Session-State", "Framed-MTU"})
  \cup As("UTF8String", {"Callback-Number", "Called-Station-Id", "Calling-Station-Id",
                         "Connect-Info"})
  \cup As("OctetString", {"Originating-Line-Info", "CHAP-Challenge", "Framed-IP-Address",
                          "Framed-IPv6-Prefix", "Framed-IP-Netmask", "ARAP-Password",
                          "ARAP-Challenge-Response", "ARAP-Security-Data",
                          "Login-IP-Host", "Login-IPv6-Host", "Login-LAT-Group",
                          "Login-LAT-Node", "Login-LAT-Port", "Login-LAT-Service"})
  \cup As("Grouped", {"CHAP-Auth"})
  \cup As("Enumerated", {"Framed-Compression", "Framed-Protocol"})
  \cup As("Integer32", {"ARAP-Security"})
  \cup {Row("Framed-Interface-Id", "Framed-Interface-Id", "Unsigned32", "Unsigned64")}

AARWritesTail ==
  As("Grouped", {"Tunneling", "Proxy-Info"})
  \cup As("OctetString", {"Route-Record"})
  \cup As(Custom, {"AVP"})

AARReadsHead ==
  (Back(AARWritesHead) \ Same({"Auth-Application-Id"}))
  \cup Same({"Session-Id"})

AARReadsBody ==
  Back(AARWritesBody) \ Same({"Framed-IP-Netmask"})

AARReadsTail ==
  Back(AARWritesTail)

AARVectors ==
  {"Framed-Compression", "Framed-IPv6-Prefix", "ARAP-Security-Data", "Login-IP-Host",
   "Login-IPv6-Host", "Tunneling", "Proxy-Info", "Route-Record", "AVP"}

\* The netmask is read into the address.
AARequest ==
  [Group(AARGrammar, AARWritesHead \cup AARWritesBody \cup AARWritesTail,
         AARReadsHead \cup AARReadsBody \cup AARReadsTail, AARVectors, FALSE)
   EXCEPT !.misread = {From("Framed-IP-Address", "Framed-IP-Netmask")},
          !.early   = Same({"Session-Id"}), !.compares = TRUE,
          !.bySize  = {"Proxy-Info"}]

----------------------------------------------------------------------------
(* AA-Answer                                                               *)

AAAGrammar ==
  Grammar(One(<<"Session-Id">>),
          One(<<"Auth-Application-Id", "Auth-Request-Type", "Result-Code", "Origin-Host",
                "Origin-Realm">>),
          Opt(<<"User-Name", "Service-Type", "Acct-Interim-Interval", "Error-Message",
                "Error-Reporting-Host", "Idle-Timeout", "Authorization-Lifetime",
                "Auth-Grace-Period", "Auth-Session-State", "Re-Auth-Request-Type",
                "Session-Timeout", "State", "Termination-Action", "Origin-State-Id",
                "Password-Retry", "Port-Limit", "Prompt", "ARAP-Challenge-Response",
                "ARAP-Features", "ARAP-Security", "ARAP-Zone-Access", "Callback-Id",
                "Callback-Number", "Framed-Appletalk-Link", "Framed-Appletalk-Zone",
                "Framed-Interface-Id", "Framed-IP-Address", "Framed-IPv6-Pool",
                "Framed-IP-Netmask", "Framed-Pool", "Framed-IPX-Network", "Framed-MTU",
                "Framed-Protocol", "Framed-Routing", "Login-LAT-Group", "Login-LAT-Node",
                "Login-LAT-Port", "Login-LAT-Service", "Login-Service", "Login-TCP-Port",
                "Redirect-Host-Usage", "Redirect-Max-Cache-Time">>)
       \o Many(<<"Class", "Configuration-Token", "Reply-Message", "Filter-Id",
                 "ARAP-Security-Data", "Framed-Appletalk-Network", "Framed-Compression",
                 "Framed-IPv6-Prefix", "Framed-IPv6-Route", "Framed-Route",
                 "Login-IP-Host", "Login-IPv6-Host", "Tunneling", "Redirect-Host",
                 "Proxy-Info", "Route-Record", "AVP">>),
          {"Error-Message", "User-Name"})

AAAWritesHead ==
  As("Integer32", {"Auth-Application-Id"})
  \cup As("Enumerated", {"Auth-Request-Type", "Service-Type", "Re-Auth-Request-Type"})
  \cup As("Unsigned32", {"Result-Code", "Acct-Interim-Interval", "Idle-Timeout",
                         "Authorization-Lifetime", "Auth-Grace-Period",
                         "Auth-Session-State", "Session-Timeout", "Origin-State-Id"})
  \cup As("UTF8String", {"User-Name", "Error-Message", "Reply-Message", "Filter-Id"})
  \cup As("OctetString", {"Class", "Configuration-Token", "State"})
  \cup As("DiameterIdentity", {"Error-Reporting-Host"})

AAAWritesBody ==
  As("Unsigned32", {"Port-Limit", "Framed-Appletalk-Link", "Framed-Appletalk-Network",
                    "Framed-MTU"})
  \cup As("Enumerated", {"Prompt", "ARAP-Zone-Access", "Framed-Compression",
                         "Framed-Protocol", "Framed-Routing"})
  \cup As("OctetString", {"ARAP-Challenge-Response", "ARAP-Features",
                          "ARAP-Security-Data", "Framed-Appletalk-Zone",
                          "Framed-IP-Address", "Framed-IPv6-Prefix", "Framed-IPv6-Pool",
                          "Framed-IP-Netmask", "Framed-Pool", "Framed-IPX-Network"})
  \cup As("Integer32", {"ARAP-Security"})
  \cup As("UTF8String", {"Callback-Id", "Callback-Number", "Framed-IPv6-Route",
                         "Framed-Route"})
  \cup As("Unsigned64", {"Framed-Interface-Id"})

AAAWritesTail ==
  As("DiameterIdentity", {"Redirect-Host"})
  \cup As("Enumerated", {"Redirect-Host-Usage", "Login-Service"})
  \cup As("OctetString", {"Login-IP-Host", "Login-IPv6-Host", "Login-LAT-Group",
                          "Login-LAT-Node", "Login-LAT-Port"})
  \cup As("Integer32", {"Login-TCP-Port", "Redirect-Max-Cache-Time"})
  \cup As("IPFilterRule", {"NAS-Filter-Rule"})
  \cup As("Grouped", {"Tunneling", "Proxy-Info"})
  \cup As(Custom, {"AVP"})
  \cup {Row("Login-LAT-Service", "Login-Lat-Service", "OctetString", "OctetString")}

AAAReadsHead ==
  Back(AAAWritesHead)
  \cup Same({"Session-Id", "Origin-Host", "Origin-Realm"})

AAAReadsBody ==
  Back(AAAWritesBody)
  \cup Same({"Password-Retry"})

AAAReadsTail ==
  (Back(AAAWritesTail) \ {From("Login-LAT-Service", "Login-Lat-Service")})
  \cup Same({"Login-LAT-Service"})

AAAVectors ==
  {"Class", "Configuration-Token", "Reply-Message", "Filter-Id", "ARAP-Features",
   "ARAP-Security-Data", "Framed-Appletalk-Network", "Framed-Compression",
   "Framed-IPv6-Prefix", "Framed-IPv6-Route", "Framed-Route", "NAS-Filter-Rule",
   "Login-IP-Host", "Login-IPv6-Host", "Tunneling", "Redirect-Host", "Proxy-Info", "AVP"}

\* Clear() forgets two of the vectors.
AAAnswer ==
  [Group(AAAGrammar, AAAWritesHead \cup AAAWritesBody \cup AAAWritesTail,
         AAAReadsHead \cup AAAReadsBody \cup AAAReadsTail, AAAVectors, FALSE)
   EXCEPT !.kept = {"Login-IP-Host", "Login-IPv6-Host"}, !.bySize = {"Proxy-Info"}]
=============================================================================
