----------------------------- MODULE CcMessages -----------------------------
(***************************************************************************)
(* The messages of the credit control application and their groups         *)
(* (diameter_cc_parser.h, diameter_cc_req_parser.cxx,                      *)
(* diameter_cc_ans_parser.cxx) and what the dictionary says of them.       *)
(***************************************************************************)
EXTENDS MessageKind

----------------------------------------------------------------------------
(* Groups                                                                  *)

SubscriptionIdGrammar ==
  Grammar(<<>>,
          One(<<"Subscription-Id-Type", "Subscription-Id-Data">>),
          <<>>,
          {})

SubscriptionIdWrites ==
  As("Enumerated", {"Subscription-Id-Type"})
  \cup As("UTF8String", {"Subscription-Id-Data"})

SubscriptionId ==
  Group(SubscriptionIdGrammar, SubscriptionIdWrites, Back(SubscriptionIdWrites), {}, FALSE)

CcProxyInfoGrammar ==
  Grammar(<<>>,
          One(<<"Proxy-Host", "Proxy-State">>),
          Many(<<"AVP">>),
          {})

CcProxyInfoWrites ==
  As("DiameterIdentity", {"Proxy-Host"})
  \cup As("OctetString", {"Proxy-State"})
  \cup As(Custom, {"AVP"})

CcProxyInfo ==
  Group(CcProxyInfoGrammar, CcProxyInfoWrites, Back(CcProxyInfoWrites), {"AVP"}, FALSE)

UnitValueGrammar ==
  Grammar(<<>>,
          One(<<"Value-Digits">>),
          Opt(<<"Exponent">>),
          {})

UnitValueWrites ==
  As("Integer64", {"Value-Digits"})
  \cup As("Integer32", {"Exponent"})

UnitValue ==
  Group(UnitValueGrammar, UnitValueWrites, Back(UnitValueWrites), {}, TRUE)

CostInformationGrammar ==
  Grammar(<<>>,
          One(<<"Unit-Value", "Currency-Code">>),
          Opt(<<"Cost-Unit">>),
          {})

CostInformationWrites ==
  As("Grouped", {"Unit-Value"})
  \cup As("Unsigned32", {"Currency-Code"})
  \cup As("UTF8String", {"Cost-Unit"})

CostInformation ==
  Group(CostInformationGrammar, CostInformationWrites,
        (Back(CostInformationWrites) \ Same({"Currency-Code"}))
        \cup {From("Currency-Code", "Current-Code")},
        {}, TRUE)

CCMoneyGrammar ==
  Grammar(<<>>,
          One(<<"Unit-Value">>),
          Opt(<<"Currency-Code">>),
          {})

CCMoneyWrites ==
  As("Grouped", {"Unit-Value"})
  \cup As("Unsigned32", {"Currency-Code"})

CCMoney ==
  Group(CCMoneyGrammar, CCMoneyWrites, Back(CCMoneyWrites), {}, TRUE)

RequestedServiceUnitGrammar ==
  Grammar(<<>>,
          <<>>,
          Opt(<<"CC-Time", "CC-Money", "CC-Total-Octets", "CC-Input-Octets",
                "CC-Output-Octets", "CC-Service-Specific-Units">>)
       \o Many(<<"AVP">>),
          {})

\* Three of the AVPs are not called that in the dictionary.
RequestedServiceUnitWrites ==
  As("Unsigned32", {"CC-Time"})
  \cup As("Grouped", {"CC-Money"})
  \cup As("Unsigned64", {"CC-Total-Octets"})
  \cup As(Custom, {"AVP"})
  \cup {Row("CC-Input-Octets", "CC-INPUT-Octets", "Unsigned64", "Unsigned64"),
        Row("CC-Output-Octets", "CC-OUTPUT-Octets", "Unsigned64", "Unsigned64"),
        Row("CC-Service-Specific-Units", "Service-Specific-Units",
            "Unsigned64", "Unsigned64")}

RequestedServiceUnit ==
  Group(RequestedServiceUnitGrammar, RequestedServiceUnitWrites,
        (Back(RequestedServiceUnitWrites)
           \ {From("CC-Input-Octets", "CC-INPUT-Octets"),
              From("CC-Output-Octets", "CC-OUTPUT-Octets"),
              From("CC-Service-Specific-Units", "Service-Specific-Units")})
        \cup Same({"CC-Input-Octets", "CC-Output-Octets", "CC-Service-Specific-Units"}),
        {"AVP"}, TRUE)

GrantedServiceUnitGrammar ==
  Grammar(<<>>,
          <<>>,
          Opt(<<"Tariff-Time-Change", "CC-Time", "CC-Money", "CC-Total-Octets",
                "CC-Input-Octets", "CC-Output-Octets", "CC-Service-Specific-Units">>)
       \o Many(<<"AVP">>),
          {})

GrantedServiceUnitWrites ==
  RequestedServiceUnit.writes \cup As("Enumerated", {"Tariff-Time-Change"})

GrantedServiceUnit ==
  Group(GrantedServiceUnitGrammar, GrantedServiceUnitWrites,
        RequestedServiceUnit.reads \cup Back(GrantedServiceUnitWrites),
        {"AVP"}, TRUE)

UsedServiceUnitGrammar ==
  Grammar(<<>>,
          <<>>,
          Opt(<<"Tariff-Change-Usage", "CC-Time", "CC-Money", "CC-Total-Octets",
                "CC-Input-Octets", "CC-Output-Octets", "CC-Service-Specific-Units">>)
       \o Many(<<"AVP">>),
          {})

UsedServiceUnitWrites ==
  RequestedServiceUnit.writes \cup As("Enumerated", {"Tariff-Change-Usage"})

UsedServiceUnit ==
  Group(UsedServiceUnitGrammar, UsedServiceUnitWrites,
        RequestedServiceUnit.reads \cup Back(UsedServiceUnitWrites),
        {"AVP"}, FALSE)

GSUPoolReferenceGrammar ==
  Grammar(<<>>,
          One(<<"G-S-U-Pool-Identifier", "CC-Unit-Type", "Unit-Value">>),
          <<>>,
          {})

GSUPoolReferenceWrites ==
  As("Unsigned32", {"G-S-U-Pool-Identifier"})
  \cup As("Enumerated", {"CC-Unit-Type"})
  \cup As("Grouped", {"Unit-Value"})

GSUPoolReference ==
  Group(GSUPoolReferenceGrammar, GSUPoolReferenceWrites,
        Back(GSUPoolReferenceWrites),
        {}, FALSE)

RedirectServerGrammar ==
  Grammar(<<>>,
          One(<<"Redirect-Address-Type", "Redirect-Server-Address">>),
          <<>>,
          {})

RedirectServerWrites ==
  As("Enumerated", {"Redirect-Address-Type"})
  \cup As("UTF8String", {"Redirect-Server-Address"})

RedirectServer ==
  Group(RedirectServerGrammar, RedirectServerWrites, Back(RedirectServerWrites), {}, TRUE)

FinalUnitIndicationGrammar ==
  Grammar(<<>>,
          One(<<"Final-Unit-Action">>),
          Opt(<<"Redirect-Server">>)
       \o Many(<<"Restriction-Filter-Rule", "Filter-Id">>),
          {})

FinalUnitIndicationWrites ==
  As("Enumerated", {"Final-Unit-Action"})
  \cup As("IPFilterRule", {"Restriction-Filter-Rule"})
  \cup As("UTF8String", {"Filter-Id"})
  \cup As("Grouped", {"Redirect-Server"})

FinalUnitIndication ==
  Group(FinalUnitIndicationGrammar, FinalUnitIndicationWrites,
        (Back(FinalUnitIndicationWrites) \ Same({"Final-Unit-Action"}))
        \cup {From("Final-Unit-Action", "FinalUnitAction")},
        {"Restriction-Filter-Rule", "Filter-Id"}, TRUE)

MultipleServicesGrammar ==
  Grammar(<<>>,
          <<>>,
          Opt(<<"Granted-Service-Unit", "Requested-Service-Unit", "Tariff-Change-Usage",
                "Rating-Group", "Validity-Time", "Result-Code", "Final-Unit-Indication">>)
       \o Many(<<"Used-Service-Unit", "Service-Identifier", "G-S-U-Pool-Reference", "AVP">>),
          {})

MultipleServicesWrites ==
  As("Grouped", {"Granted-Service-Unit", "Requested-Service-Unit", "Used-Service-Unit",
                 "G-S-U-Pool-Reference", "Final-Unit-Indication"})
  \cup As("Enumerated", {"Tariff-Change-Usage"})
  \cup As("Unsigned32", {"Service-Identifier", "Rating-Group", "Validity-Time",
                         "Result-Code"})

MultipleServices ==
  Group(MultipleServicesGrammar, MultipleServicesWrites,
        Back(MultipleServicesWrites),
        {"Used-Service-Unit", "Service-Identifier", "G-S-U-Pool-Reference"}, FALSE)

ServiceParameterInfoGrammar ==
  Grammar(<<>>,
          Opt(<<"Service-Parameter-Type", "Service-Parameter-Value">>),
          <<>>,
          {})

ServiceParameterInfoWrites ==
  As("Unsigned32", {"Service-Parameter-Type"})
  \cup As("UTF8String", {"Service-Parameter-Value"})

ServiceParameterInfo ==
  Group(ServiceParameterInfoGrammar, ServiceParameterInfoWrites,
        Back(ServiceParameterInfoWrites),
        {}, FALSE)

UserEquipmentInfoGrammar ==
  Grammar(<<>>,
          One(<<"User-Equipment-Info-Type", "User-Equipment-Info-Value">>),
          <<>>,
          {})

UserEquipmentInfoWrites ==
  As("Enumerated", {"User-Equipment-Info-Type"})
  \cup As("UTF8String", {"User-Equipment-Info-Value"})

UserEquipmentInfo ==
  Group(UserEquipmentInfoGrammar, UserEquipmentInfoWrites,
        Back(UserEquipmentInfoWrites),
        {}, TRUE)

----------------------------------------------------------------------------
(* CC-Request                                                              *)

CCRGrammar ==
  Grammar(One(<<"Session-Id">>),
          One(<<"Origin-Host", "Origin-Realm", "Destination-Realm", "Auth-Application-Id",
                "Service-Context-Id", "CC-Request-Type", "CC-Request-Number">>),
          Opt(<<"Destination-Host", "User-Name", "CC-Sub-Session-Id",
                "Acct-Multi-Session-Id", "Origin-State-Id", "Event-Timestamp",
                "Service-Identifier", "Termination-Cause", "Requested-Service-Unit",
                "Requested-Action", "Multiple-Services-Indicator", "CC-Correlation-Id",
                "User-Equipment-Info">>)
       \o Many(<<"Subscription-Id", "Used-Service-Unit",
                 "Multiple-Services-Credit-Control", "Service-Parameter-Info",
                 "Proxy-Info", "Route-Record", "AVP">>),
          {"Acct-Multi-Session-Id", "Event-Timestamp"})

CCRWritesHead ==
  As("DiameterIdentity", {"Origin-Host", "Origin-Realm", "Destination-Realm",
                          "Destination-Host"})
  \cup As("Unsigned32", {"Auth-Application-Id", "CC-Request-Number", "Origin-State-Id"})
  \cup As("UTF8String", {"Service-Context-Id", "User-Name", "Acct-Multi-Session-Id"})
  \cup As("Enumerated", {"CC-Request-Type"})
  \cup As("Unsigned64", {"CC-Sub-Session-Id"})
  \cup As("Time", {"Event-Timestamp"})

CCRWritesTail ==
  As("Grouped", {"Subscription-Id", "Requested-Service-Unit", "Used-Service-Unit",
                 "Multiple-Services-Credit-Control", "Service-Parameter-Info",
                 "User-Equipment-Info", "Proxy-Info"})
  \cup As("Unsigned32", {"Service-Identifier"})
  \cup As("Enumerated", {"Termination-Cause", "Requested-Action",
                         "Multiple-Services-Indicator"})
  \cup As("UTF8String", {"CC-Correlation-Id"})
  \cup As("OctetString", {"Route-Record"})
  \cup As(Custom, {"AVP"})

CCRReads ==
  (Back((CCRWritesHead \cup CCRWritesTail)) \ Same({"Auth-Application-Id",
                                                    "Service-Identifier"}))
  \cup Same({"Session-Id"})

CCRequest ==
  [Group(CCRGrammar, CCRWritesHead \cup CCRWritesTail, CCRReads,
         {"Subscription-Id", "Used-Service-Unit", "Multiple-Services-Credit-Control",
          "Service-Parameter-Info", "Proxy-Info", "Route-Record", "AVP"}, FALSE)
   EXCEPT !.early = Same({"Session-Id"}), !.compares = TRUE, !.bySize = {"Proxy-Info"}]

----------------------------------------------------------------------------
(* CC-Answer                                                               *)

CCAGrammar ==
  Grammar(One(<<"Session-Id">>),
          One(<<"Result-Code", "Origin-Host", "Origin-Realm", "Auth-Application-Id",
                "CC-Request-Type", "CC-Request-Number">>),
          Opt(<<"User-Name", "CC-Session-Failover", "CC-Sub-Session-Id",
                "Acct-Multi-Session-Id", "Origin-State-Id", "Event-Timestamp",
                "Granted-Service-Unit", "Cost-Information", "Final-Unit-Indication",
                "Check-Balance-Result", "Credit-Control-Failure-Handling",
                "Direct-Debiting-Failure-Handling", "Validity-Time",
                "Redirect-Host-Usage", "Redirect-Max-Cache-Time">>)
       \o Many(<<"Multiple-Services-Credit-Control", "Redirect-Host", "Proxy-Info",
                 "Route-Record", "Failed-AVP", "AVP">>),
          {"Acct-Multi-Session-Id", "Event-Timestamp"})

\* The second row of Acct-Multi-Session-Id is a copy with the AVP of another one.
CCAWritesHead ==
  As("Unsigned32", {"Result-Code", "Auth-Application-Id", "CC-Request-Number",
                    "Origin-State-Id"})
  \cup As("DiameterIdentity", {"Origin-Host", "Origin-Realm"})
  \cup As("Enumerated", {"CC-Request-Type", "CC-Session-Failover"})
  \cup As("UTF8String", {"User-Name", "Acct-Multi-Session-Id"})
  \cup As("Unsigned64", {"CC-Sub-Session-Id"})
  \cup {Row("Acct-Multi-Session-Id", "Auth-Request-Type", "Enumerated", "UTF8String")}

CCAWritesTail ==
  As("Time", {"Event-Timestamp"})
  \cup As("Grouped", {"Granted-Service-Unit", "Multiple-Services-Credit-Control",
                      "Cost-Information", "Final-Unit-Indication", "Proxy-Info"})
  \cup As("Enumerated", {"Check-Balance-Result", "Credit-Control-Failure-Handling",
                         "Direct-Debiting-Failure-Handling", "Redirect-Host-Usage"})
  \cup As("Unsigned32", {"Validity-Time", "Redirect-Max-Cache-Time"})
  \cup As("DiameterIdentity", {"Redirect-Host"})
  \cup As(Custom, {"AVP"})
  \cup {Row("Route-Record", "Route-Record", "Unsigned32", "DiameterIdentity"),
        Row("Failed-AVP", "Failed-AVP", "Unsigned32", "OctetString")}

CCAReads ==
  (Back((CCAWritesHead \cup CCAWritesTail)) \ {From("Acct-Multi-Session-Id", "Auth-Request-Type")})
  \cup Same({"Session-Id"})

CCAnswer ==
  [Group(CCAGrammar, CCAWritesHead \cup CCAWritesTail, CCAReads,
         {"Multiple-Services-Credit-Control", "Redirect-Host", "Proxy-Info", "Route-Record",
          "Failed-AVP", "AVP"}, FALSE)
   EXCEPT !.kept = {"CC-Sub-Session-Id", "Auth-Request-Type"}, !.bySize = {"Proxy-Info"}]
=============================================================================
