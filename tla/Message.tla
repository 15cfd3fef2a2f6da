------------------------------ MODULE Message -------------------------------
(***************************************************************************)
(* A message of an application on its way: composed in the data object of  *)
(* a parser, completed and encoded by the session that sends it, forwarded *)
(* by relays, altered on the way or written by another implementation, and *)
(* read into the data object of the receiver, which the next message is    *)
(* read into as well (diameter_api.h, aaa_session.inl, aaa_parser.cxx,     *)
(* aaa_route_msg_router.cxx).  A grouped AVP takes the same way without    *)
(* the session and the header.                                             *)
(***************************************************************************)
EXTENDS NasreqMessages, EapMessages, Mip4Messages, CcMessages

CONSTANTS Checked,  \* the kinds that are sent
          Relays,   \* the agents between the peers
          MaxHops   \* how many of them a message passes

LOCAL INSTANCE SequencesExt

ASSUME MessageAssumption == MaxHops \in Nat

VARIABLES
  kind,    \* what is sent
  round,   \* the first or the second message
  step,    \* "idle", "set", "refused", "sent", "read"
  plan,    \* what distinguishes the message
  data,    \* the sender's data object
  attrs,   \* what the sending session remembers
  wire,    \* the header and the AVPs
  hops,    \* the relays it has passed
  got,     \* the receiver's data object
  err      \* the verdict on the last operation

vars == <<kind, round, step, plan, data, attrs, wire, hops, got, err>>
----------------------------------------------------------------------------
(* The commands.                                                           *)

ASRGrammar ==
  Grammar(One(<<"Session-Id">>),
          One(<<"Origin-Host", "Origin-Realm", "Destination-Realm", "Destination-Host",
                "Auth-Application-Id">>),
          Opt(<<"User-Name", "Origin-State-Id">>)
       \o Many(<<"AVP", "Proxy-Info", "Route-Record">>),
          {})

ASRWrites ==
  As("DiameterIdentity", {"Origin-Host", "Origin-Realm", "Destination-Host",
                          "Destination-Realm"})
  \cup As("Unsigned32", {"Auth-Application-Id", "Origin-State-Id"})
  \cup As("UTF8String", {"User-Name"})

\* The client looks at nothing else.
ASRequest == Group(ASRGrammar, ASRWrites, Same({"Session-Id"}), {}, FALSE)

ProxyableErrorGrammar ==
  Grammar(Opt(<<"Session-Id">>),
          One(<<"Origin-Host", "Origin-Realm", "Result-Code">>),
          One(<<"Origin-State-Id">>)
       \o Opt(<<"Error-Reporting-Host", "Redirect-Host-Usage", "Proxy-Info">>)
       \o Many(<<"Redirect-Host", "AVP">>),
          {})

NonProxyableErrorGrammar ==
  Grammar(Opt(<<"Session-Id">>),
          One(<<"Origin-Host", "Origin-Realm", "Result-Code">>),
          Opt(<<"Origin-State-Id", "Error-Reporting-Host", "Redirect-Host-Usage",
                "Proxy-Info">>)
       \o Many(<<"Redirect-Host", "AVP">>),
          {})

KindOf == [
  AAR |-> AARequest, AAA |-> AAAnswer, DER |-> DERequest, DEA |-> DEAnswer,
  AMR |-> AMRequest, AMA |-> AMAnswer, HAR |-> HARequest, HAA |-> HAAnswer,
  CCR |-> CCRequest, CCA |-> CCAnswer, ASR |-> ASRequest,
  tunneling |-> Tunneling, proxyinfo |-> ProxyInfo, chap_auth |-> ChapAuth,
  eap_tunneling |-> EapTunneling, eap_proxyinfo |-> EapProxyInfo,
  mn_aaa_auth |-> MnAaaAuth, foreign_aaa |-> ForeignAaa, mip4_proxyinfo |-> Mip4ProxyInfo,
  subscriptionId |-> SubscriptionId, cc_proxyInfo |-> CcProxyInfo, unitValue |-> UnitValue,
  costInformation |-> CostInformation, ccMoney |-> CCMoney,
  requestedServiceUnit |-> RequestedServiceUnit, grantedServiceUnit |-> GrantedServiceUnit,
  usedServiceUnit |-> UsedServiceUnit, gsuPoolReference |-> GSUPoolReference,
  redirectServer |-> RedirectServer, finalUnitIndication |-> FinalUnitIndication,
  multipleServices |-> MultipleServices, serviceParameterInfo |-> ServiceParameterInfo,
  userEquipmentInfo |-> UserEquipmentInfo]

Requests  == {"AAR", "DER", "AMR", "HAR", "CCR", "ASR"}
Messages  == Requests \cup {"AAA", "DEA", "AMA", "HAA", "CCA"}
Proxiable == {"AAR", "AAA", "DER", "DEA", "CCR", "CCA", "ASR"}

Kind == KindOf[kind]

\* The flags a sender sets.
Header == [ours |-> TRUE, e |-> FALSE, p |-> kind \in {"AAR", "DER", "CCR"}]

\* The command of the header, the same on both sides.
HeaderError(h) ==
  CASE ~h.ours                      -> "AAA_COMMAND_UNSUPPORTED"
    [] kind \in Requests /\ h.e     -> "AAA_INVALID_BIT_IN_HEADER"
    [] kind \notin Proxiable /\ h.p -> "AAA_INVALID_BIT_IN_HEADER"
    [] OTHER                        -> Success

\* An answer with the E flag has the grammar of errors.
GrammarFor(h) ==
  CASE ~h.e -> Kind.grammar
    [] h.p  -> ProxyableErrorGrammar
    [] OTHER -> NonProxyableErrorGrammar
----------------------------------------------------------------------------
(* Sending.                                                                *)

Identity == [labels |-> <<[first |-> "letter", rest |-> 3]>>]
IsEmpty(v) == "labels" \in DOMAIN v /\ v.labels = <<>>

\* GetAvp(), AddAvp() of the container widgets.
Get(list, name) == LET c == Search(list, name)
                   IN IF c = <<>> THEN <<>> ELSE SubSeq(c[1].vals, 1, 1)
Add(list, name, v) == Append(list, Container(name, TypeOf(name), <<v>>))

\* AAAMessageControl::Send(): the sender's own name, unless the application gives one.
Sign(list, name) ==
  LET v == Get(list, name)
  IN IF v = <<>> THEN Add(list, name, Identity)
     ELSE [i \in DOMAIN list |->
             IF list[i].name = name /\ IsEmpty(v[1])
             THEN [list[i] EXCEPT !.vals[1] = Identity] ELSE list[i]]

\* A destination that the message lacks is the one remembered, or the callback's offer.
Destination(list, name, remembered, offer) ==
  LET given == Get(list, name)
      v     == IF given # <<>> THEN given ELSE IF remembered # <<>> THEN remembered ELSE offer
  IN [list |-> IF given = <<>> /\ v # <<>> THEN Add(list, name, v[1]) ELSE list,
      now  |-> v]

\* The user's name is asked for and remembered once.
UserName(list, remembered, offer) ==
  IF remembered # <<>> THEN [list |-> list, now |-> remembered]
  ELSE Destination(list, "User-Name", <<>>, offer)

\* TxDelivery(): offered tells whether the application's callbacks give anything.
Deliver(list, offered) ==
  LET Offer(name) == IF offered THEN <<Token(name, 0, 1)>> ELSE <<>>
      host  == Destination(list, "Destination-Host", attrs.host, Offer("Destination-Host"))
      realm == Destination(host.list, "Destination-Realm", attrs.realm,
                           Offer("Destination-Realm"))
      user  == UserName(realm.list, attrs.user, Offer("User-Name"))
      lost  == kind \in Requests /\ realm.now = <<>>
  IN [err   |-> IF lost THEN "AAA_ERR_FAILURE" ELSE Success,
      attrs |-> [host |-> host.now, realm |-> realm.now,
                 user |-> IF lost THEN attrs.user ELSE user.now],
      list  |-> Add(user.list, "Session-Id", Token("Session-Id", round, 1))]

Remember(list, offered) ==
  IF kind \in Messages
  THEN Deliver(Sign(Sign(list, "Origin-Host"), "Origin-Realm"), offered)
  ELSE [err |-> Success, attrs |-> attrs, list |-> list]

Send ==
  /\ step = "set"
  /\ \E offered \in BOOLEAN :
       LET raw  == AppToRaw(Kind, data)
           out  == Remember(raw.list, offered)
           text == Encode(Kind.grammar, out.list)
           all  == FirstError(<<raw.err, out.err, text.err>>)
       IN /\ offered => kind \in Messages
          /\ attrs' = IF raw.err = Success THEN out.attrs ELSE attrs
          /\ err'   = all
          /\ wire'  = [hdr |-> Header, avps |-> IF all = Success THEN text.wire ELSE <<>>]
          /\ step'  = IF all = Success THEN "sent" ELSE "refused"
  /\ UNCHANGED <<kind, round, plan, data, hops, got>>
----------------------------------------------------------------------------
(* Forwarding.                                                             *)

RelayId(r) == Token("Route-Record", 0, r)

\* LoopDetection(): the relay's own name in the first container of Route-Record.
LoopDetection(list, r) ==
  LET c == Search(list, "Route-Record")
  IN c # <<>> /\ RelayId(r) \in ToSet(c[1].vals)

\* A relay adds a container of its own behind the others.
RecordRoute(list, r) ==
  Append(list, Container("Route-Record", "DiameterIdentity", <<RelayId(r)>>))

\* A relay parses the request, and encodes it again if it finds no loop.
Relay ==
  /\ step = "sent" /\ kind \in Requests /\ Len(hops) < MaxHops
  /\ round = 1 /\ plan \in {"standard", "foreign"}
  /\ \E r \in Relays :
       LET in   == Decode(Kind.grammar, wire.avps)
           loop == LoopDetection(in.list, r)
           out  == Encode(Kind.grammar, RecordRoute(in.list, r))
           bad  == CASE in.err # Success -> in.err
                     [] loop            -> "AAA_LOOP_DETECTED"
                     [] OTHER           -> out.err
       IN /\ hops # <<>> => r # Last(hops)
          /\ err'  = bad
          /\ step' = IF bad = Success THEN "sent" ELSE "refused"
          /\ wire' = IF bad = Success THEN [wire EXCEPT !.avps = out.wire] ELSE wire
          /\ hops' = IF bad = Success THEN Append(hops, r) ELSE hops
  /\ UNCHANGED <<kind, round, plan, data, attrs, got>>
----------------------------------------------------------------------------
(* Receiving.                                                              *)

Receive ==
  /\ step = "sent"
  /\ LET head == HeaderError(wire.hdr)
         list == Decode(GrammarFor(wire.hdr), wire.avps)
         read == RawToApp(Kind, list.list, got)
     IN /\ err' = FirstError(<<head, list.err, read.err>>)
        /\ got' = IF FirstError(<<head, list.err>>) = Success THEN read.data ELSE got
  /\ step' = "read"
  /\ UNCHANGED <<kind, round, plan, data, attrs, wire, hops>>
----------------------------------------------------------------------------
(* What the applications set, and what else may come over the wire.        *)

\* The rules that no message may lack.
Needed(g) == SelectSeq(g.fixed \o g.required, LAMBDA r : r.min > 0)
NamesOf(rules) == {rules[i].avp : i \in DOMAIN rules}

Written == {r.field : r \in Kind.writes}
Required ==
  {r.field : r \in {w \in Kind.writes : w.avp \in NamesOf(Needed(Kind.grammar))}}

Standard == [f \in Required |-> Assigned(<<Token(f, round, 1)>>)]

Endpoint(host, mask, ports) == [host |-> host, mask |-> mask, ports |-> ports]
RuleTo(dst, opts) == [src |-> Endpoint("any", NoNumber, <<>>), dst |-> dst, opts |-> opts]

Filters ==
  {RuleTo(Endpoint("v4", mask, <<>>), {}) : mask \in {NoNumber, 24, 129}}
  \cup {RuleTo(Endpoint("v6", NoNumber, ports), opts) :
          ports \in {<<>>, << <<80, 80>> >>, << <<80, 90>> >>},
          opts \in {{}, {"frag"}, {"setup"}}}
  \cup {RuleTo(Endpoint("any", NoNumber, <<>>), {"icmptypes"}),
        RuleTo(Endpoint("v6full", NoNumber, <<>>), {})}

Uris ==
  [scheme : {"aaa", "aaas"}, fqdn : {Identity.labels, <<>>}, port : {NoNumber, 3868},
   transport : {None, "tcp", "sctp"}, protocol : {None, "diameter", "radius"}]

\* The values of a type beside those that are copied unseen.
Special(type) ==
  CASE type = "UTF8String" ->
         {[octets |-> o] : o \in {<<72, 105>>, <<72, 0>>, <<195, 169>>,
                                  <<195, 169, 169, 169, 169, 169>>}}
    [] type = "DiameterIdentity" ->
         {[labels |-> l] : l \in {<<>>, <<[first |-> "digit", rest |-> 0]>>,
                                  <<[first |-> "digit", rest |-> 2]>>}}
    [] type = "IPFilterRule" -> Filters
    [] type = "DiameterURI"  -> Uris
    [] OTHER                 -> {}

Values(f) == {Token(f, round, 1)} \cup Special(FieldType(Kind, f))

Contents(f) ==
  IF f \in Kind.vectors
  THEN {<<>>, <<Token(f, round, 1), Token(f, round, 2)>>} \cup {<<v>> : v \in Values(f)}
  ELSE {<<v>> : v \in Values(f)}

Set(name, contents) ==
  /\ plan' = name /\ data' = contents /\ step' = "set"
  /\ UNCHANGED <<kind, round, attrs, wire, hops, got, err>>

ComposeStandard == step = "idle" /\ Set("standard", Standard)

\* One of the AVPs that are needed is left to the library.
ComposeWithout ==
  /\ step = "idle"
  /\ \E f \in Required : /\ round = 2 => f = "Destination-Realm"
                         /\ Set("without", [g \in Required \ {f} |-> Standard[g]])

\* One more attribute, or another value; in the second round one that the receiver holds.
ComposeWith ==
  /\ step = "idle"
  /\ \E f \in Written : \E vals \in Contents(f) :
       /\ round = 2 => Holds(got, f) /\ Len(vals) = 1 /\ vals[1] = Token(f, 2, 1)
       /\ \/ Set("with", (f :> Assigned(vals)) @@ Standard)
          \/ f \in Kind.vectors /\ Set("with", (f :> Appended(vals)) @@ Standard)

\* The text of an AVP, right but for the flag.
Text(name, flip, v) == [name |-> name, flip |-> flip, val |-> v]

StandardText ==
  [i \in DOMAIN Needed(Kind.grammar) |->
     LET name == Needed(Kind.grammar)[i].avp IN Text(name, NoFlip, Token(name, round, 1))]

\* Another implementation sends any AVP of the grammar, or one of no dictionary.
Foreign ==
  /\ step = "idle" /\ round = 1
  /\ \E name \in (NamesOf(RulesOf(Kind.grammar)) \ {Wildcard}) \cup {"Unknown"} :
     \E v \in {Token(name, 1, 1), Token(name, 1, 2)} \cup Special(TypeOf(name)) :
     \E twice, first \in BOOLEAN :
       LET extra == IF twice THEN <<Text(name, NoFlip, v), Text(name, NoFlip, v)>>
                    ELSE <<Text(name, NoFlip, v)>>
           rest  == SelectSeq(StandardText, LAMBDA w : w.name # name)
       IN wire' = [hdr |-> Header, avps |-> IF first THEN extra \o rest ELSE rest \o extra]
  /\ plan' = "foreign" /\ step' = "sent"
  /\ UNCHANGED <<kind, round, data, attrs, hops, got, err>>

\* A message of another version, or of a sender in error: one AVP missing, twice, in the
\* other order or with another flag; another header.
Alter ==
  /\ step = "sent" /\ plan = "standard" /\ round = 1 /\ hops = <<>>
  /\ LET w == wire.avps
         n == Len(w)
     IN \/ \E i \in 1 .. n : wire' = [wire EXCEPT !.avps = RemoveAt(w, i)]
        \/ \E i \in 1 .. n : wire' = [wire EXCEPT !.avps = InsertAt(w, i, w[i])]
        \/ \E i \in 1 .. n : wire' = [wire EXCEPT !.avps = Append(RemoveAt(w, i), w[i])]
        \/ \E i \in 1 .. n : \E flip \in {"m", "p", "v"} :
             wire' = [wire EXCEPT !.avps[i].flip = flip]
        \/ kind \in Messages /\ \E h \in [ours : BOOLEAN, e : BOOLEAN, p : BOOLEAN] :
             wire' = [wire EXCEPT !.hdr = h]
  /\ plan' = "altered"
  /\ UNCHANGED <<kind, round, step, data, attrs, hops, got, err>>

\* The receiver keeps its object, the sender starts with a new one.
NextRound ==
  /\ step = "read" /\ round = 1 /\ plan # "altered" /\ hops = <<>> /\ got # <<>>
  /\ round' = 2 /\ step' = "idle" /\ data' = <<>>
  /\ UNCHANGED <<kind, plan, attrs, wire, hops, got, err>>
----------------------------------------------------------------------------
Init ==
  /\ kind \in Checked
  /\ round = 1 /\ step = "idle" /\ plan = "none" /\ err = Success
  /\ data = <<>> /\ got = <<>> /\ hops = <<>>
  /\ attrs = [host |-> <<>>, realm |-> <<>>, user |-> <<>>]
  /\ wire = [hdr |-> Header, avps |-> <<>>]

Next ==
  \/ ComposeStandard \/ ComposeWithout \/ ComposeWith \/ Send
  \/ Foreign \/ Alter \/ Relay \/ Receive \/ NextRound

Spec == Init /\ [][Next]_vars
----------------------------------------------------------------------------
(* What the two applications can rely on.                                  *)

\* The AVPs that a parser writes and the other does not find: the dictionary has no such
\* name or no such rule, or the reader has another name, no row or another type for it.
NoneOf == [k \in DOMAIN KindOf |-> {}]
UnnamedUnits == {"CC-Input-Octets", "CC-Output-Octets", "CC-Service-Specific-Units"}
Lost == [NoneOf EXCEPT
  !["AAR"] = {"ARAP-Challenge-Response", "Auth-Application-Id", "Framed-IP-Netmask",
              "NAS-IP-Address", "NAS-IPv6-Address", "NAS-Identifier", "NAS-Port",
              "NAS-Port-Id", "NAS-Port-Type"},
  !["AAA"] = {"Login-LAT-Service", "NAS-Filter-Rule"},
  !["DER"] = {"Auth-Application-Id", "Framed-IP-Netmask", "NAS-IP-Address",
              "NAS-IPv6-Address", "NAS-Identifier", "NAS-Port", "NAS-Port-Id",
              "NAS-Port-Type"},
  !["DEA"] = {"Accounting-EAP-Auth-Method", "Auth-Request-Type", "EAP-Master-Session-Key",
              "EAP-Reissued-Payload", "Framed-IP-Netmask", "Reply-Message"},
  !["AMR"] = {"Auth-Application-Id", "MIP-HA-to-FA-SPI"},
  !["AMA"] = {"MIP-Algorithm-Type", "MIP-FA-to-HA-MSA", "MIP-FA-to-MN-MSA",
              "MIP-Filter-Rule", "MIP-HA-to-MN-MSA", "MIP-MN-to-FA-MSA",
              "MIP-MN-to-HA-MSA", "MIP-Msa-Lifetime"},
  !["HAR"] = {"Auth-Application-Id", "MIP-Algorithm-Type", "MIP-Filter-Rule",
              "MIP-HA-to-FA-MSA", "MIP-HA-to-MN-MSA", "MIP-MN-to-FA-MSA",
              "MIP-MN-to-HA-MSA", "MIP-Msa-Lifetime"},
  !["CCR"] = {"Auth-Application-Id", "Service-Identifier"},
  !["ASR"] = Written,
  !["costInformation"]     = {"Currency-Code"},
  !["finalUnitIndication"] = {"Final-Unit-Action"},
  !["foreign_aaa"]         = {"Origin-Host", "Origin-Realm"},
  !["mn_aaa_auth"]         = {"MIP-Authenticator-Length"},
  !["requestedServiceUnit"] = UnnamedUnits,
  !["grantedServiceUnit"]   = UnnamedUnits,
  !["usedServiceUnit"]      = UnnamedUnits]

\* The AVPs that make the library refuse the message: the entries are of another type
\* than the dictionary's.
Refused == [NoneOf EXCEPT
  !["AAR"] = {"Framed-Interface-Id", "Route-Record"},
  !["AAA"] = {"Framed-IPX-Network", "Redirect-Host"},
  !["DER"] = {"Framed-Interface-Id", "Route-Record"},
  !["DEA"] = {"Framed-IPX-Network", "Redirect-Host"},
  !["AMR"] = {"MIP-Home-Agent-Host", "Route-Record"},
  !["HAR"] = {"Route-Record"},
  !["CCR"] = {"CC-Correlation-Id", "Route-Record"},
  !["CCA"] = {"Failed-AVP", "Redirect-Host", "Route-Record"},
  !["tunneling"]            = {"Tunnel-Server-Auth-Id"},
  !["eap_tunneling"]        = {"Tunnel-Server-Auth-Id"},
  !["serviceParameterInfo"] = {"Service-Parameter-Value"},
  !["userEquipmentInfo"]    = {"User-Equipment-Info-Value"}]

\* What the type of an AVP allows.  A text is ASCII; a filter rule has IPv6 addresses
\* with a mask only and no ICMP types.
WellFormed(type, v) ==
  \/ IsToken(v)
  \/ type = "UTF8String" /\ ToSet(v.octets) \subseteq 1 .. 127
  \/ type = "DiameterIdentity" /\ v.labels # <<>> /\ v.labels[1].rest > 0
  \/ type = "IPFilterRule" /\ v.dst.mask <= 32 /\ v.dst.host \in {"any", "v4"}
                                                         /\ v.opts = {}

\* A message that follows the grammar, as far as the application is concerned.
Proper ==
  \A f \in DOMAIN data :
    /\ f \notin Refused[kind] \cup {Wildcard}
    /\ \A i \in DOMAIN data[f].vals : WellFormed(FieldType(Kind, f), data[f].vals[i])
    /\ \A i \in DOMAIN RulesOf(Kind.grammar) :
         LET r == RulesOf(Kind.grammar)[i] IN r.avp = f => Len(data[f].vals) \in r.min .. r.max

\* What the session adds to a message.
Added == {"Session-Id", "Origin-Host", "Origin-Realm", "Destination-Host",
          "Destination-Realm", "User-Name"}

\* The netmask of a request is read as the address.
Netmask == kind = "AAR" /\ Holds(data, "Framed-IP-Netmask")

\* No request passes the first of its relays again.  Loops among the others are not
\* detected: every relay adds a container, and the encoder takes the first of a name.
FirstRelayOnce == \A i \in 2 .. Len(hops) : hops[i] # hops[1]

\* A message that follows the grammar is refused nowhere on its way but for a loop, and
\* what its sender set arrives as it was set, with nothing beside it but what the sessions
\* and the relays add: two parsers of one message, written by hand, agree with each other
\* and with the dictionary, apart from the AVPs of Lost and Refused, and the record of the
\* relays outlives the way through parsers that know nothing of the application.  (The
\* rules of the ASR let only one relay name itself.)
Carried ==
  /\ plan \in {"standard", "with"} /\ round = 1 /\ Proper
  /\ kind = "ASR" => Len(hops) < 2
  =>
    /\ FirstRelayOnce
    /\ step = "refused" => err = "AAA_LOOP_DETECTED"
    /\ step = "read" =>
         /\ err = Success
         /\ DOMAIN got \subseteq DOMAIN data \cup Added
                            \cup (IF hops = <<>> THEN {} ELSE {"Route-Record"})
                            \cup (IF Netmask THEN {"Framed-IP-Address"} ELSE {})
         /\ \A f \in DOMAIN data \ Lost[kind] :
              data[f].set /\ data[f].vals # <<>> => Holds(got, f) /\ got[f] = data[f]

\* The attributes that Clear() leaves.
UnitFields == {"CC-Money", "CC-Service-Specific-Units", "CC-Total-Octets",
               "CC-Input-Octets", "CC-Output-Octets", "CC-Time"}
Leftover == [NoneOf EXCEPT
  !["AAA"] = {"Login-IP-Host", "Login-IPv6-Host"},
  !["DEA"] = {"Acct-Interim-Interval", "Callback-Id", "Configuration-Token",
              "Error-Message", "Error-Reporting-Host", "Filter-Id",
              "Re-Auth-Request-Type"},
  !["CCA"] = {"CC-Sub-Session-Id"},
  !["chap_auth"]            = {"CHAP-Response"},
  !["unitValue"]            = {"Exponent"},
  !["ccMoney"]              = {"Currency-Code"},
  !["costInformation"]      = {"Cost-Unit"},
  !["requestedServiceUnit"] = UnitFields,
  !["grantedServiceUnit"]   = UnitFields \cup {"Tariff-Time-Change"},
  !["finalUnitIndication"]  = {"Filter-Id", "Redirect-Server", "Restriction-Filter-Rule"}]

\* The values that the message brings.
OnWire == {wire.avps[i].val : i \in DOMAIN wire.avps}

\* Nothing of the message before is left in an object that a message has been read into:
\* parseRawToApp() begins with Clear(), which forgets no attribute but those of Leftover.
NothingStale ==
  round = 2 /\ step = "read" /\ err = Success =>
    \A f \in DOMAIN got \ Leftover[kind] : \A i \in DOMAIN got[f].vals :
      got[f].vals[i] \in {Token(f, 1, j) : j \in 1 .. 2} => got[f].vals[i] \in OnWire

\* Which rule of the required and the optional part an AVP belongs to, if any: the first
\* that its name matches.
OwnerOf(g, w, lead) ==
  LET rules == g.required \o g.optional
  IN [i \in lead + 1 .. Len(w) |->
        LET takers == {k \in DOMAIN rules : Matches(rules[k], w[i])}
        IN IF takers = {} THEN 0 ELSE CHOOSE k \in takers : \A m \in takers : k <= m]

\* The AVPs at the given positions are as many as rule r wants, and legible.
FitsRule(g, r, w, at) ==
  /\ Cardinality(at) <= r.max
  /\ at = {} => r.min = 0 \/ r \in ToSet(g.optional)
  /\ at # {} => Cardinality(at) >= r.min
  /\ r.avp # Wildcard => \A i \in at : Decodable(TypeOf(r.avp), w[i].val)

\* The grammar as it reads: the fixed AVP in front, the others in any order, each as often
\* as its rule says, and with the flags of the dictionary.
Conforms(g, w) ==
  LET rules == g.required \o g.optional
      Leads(n) == \A i \in 1 .. n : g.fixed # <<>> /\ w[i].name = g.fixed[1].avp
      lead  == CHOOSE n \in 0 .. Len(w) : Leads(n) /\ (n < Len(w) => ~Leads(n + 1))
      owner == OwnerOf(g, w, lead)
  IN /\ ~Garbled(w)
     /\ \A k \in DOMAIN g.fixed : FitsRule(g, g.fixed[k], w, 1 .. lead)
     /\ \A i \in 1 .. lead : w[i].flip # "v"
     /\ \A k \in DOMAIN rules :
          LET at == {i \in DOMAIN owner : owner[i] = k}
          IN /\ FitsRule(g, rules[k], w, at)
             /\ rules[k].avp # Wildcard =>
                  \A i \in at : w[i].flip # "m" /\ (w[i].flip = "p" => w[i].name \in g.p)

\* The decoder, which eats the header list rule by rule, accepts a message exactly if it
\* conforms to the grammar, whatever its order, its unknown AVPs and its flags; only the
\* parser's own test of the application identifier comes on top.
AcceptsGrammar ==
  step = "read" /\ wire.hdr = Header =>
    (err \in {Success, "DIAMETER_PAYLOAD_ERROR"} <=> Conforms(Kind.grammar, wire.avps))
=============================================================================
