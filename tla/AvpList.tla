------------------------------ MODULE AvpList -------------------------------
(***************************************************************************)
(* The list codec of libdiamparser: a list of containers against the       *)
(* grammar of a command or of a grouped AVP (aaa_parser_q_avplist.cxx,     *)
(* aaa_parser_avp.cxx, aaa_avp_header.cxx).                                *)
(*                                                                         *)
(* A grammar has the rules of the fixed, the required and the optional     *)
(* part, in the order of the dictionary, and the AVPs whose P flag the     *)
(* dictionary sets.  A container has a name, the type its entries were     *)
(* made for, and their values.  On the wire an AVP has its name, the flag  *)
(* that differs from the dictionary's, if any, and its value; what the     *)
(* wildcard "AVP" writes is a value without a header.                      *)
(***************************************************************************)
EXTENDS AvpValue

LOCAL INSTANCE SequencesExt

Infinity == 65535

RuleOf(names, min, max) ==
  [i \in DOMAIN names |-> [avp |-> names[i], min |-> min, max |-> max]]
One(names)  == RuleOf(names, 1, 1)
Opt(names)  == RuleOf(names, 0, 1)
Many(names) == RuleOf(names, 0, Infinity)

Grammar(fixed, required, optional, p) ==
  [fixed |-> fixed, required |-> required, optional |-> optional, p |-> p]

Wildcard == "AVP"

AvpTypes == [
  Address          |-> {"MIP-Home-Agent-Address", "MIP-Mobile-Node-Address"},
  Any              |-> {Wildcard},
  DiameterIdentity |-> {"Destination-Host", "Destination-Realm", "Error-Reporting-Host",
                        "MIP-Candidate-Home-Agent-Host", "MIP-Home-Agent-Host", "Origin-Host",
                        "Origin-Realm", "Proxy-Host", "Route-Record"},
  DiameterURI      |-> {"Redirect-Host"},
  Enumerated       |-> {"ARAP-Zone-Access", "Auth-Request-Type", "Auth-Session-State",
                        "CHAP-Algorithm", "Framed-Compression", "Framed-Protocol",
                        "Framed-Routing", "Login-Service", "MIP-Algorithm-Type",
                        "MIP-Replay-Mode", "NAS-Port-Type", "Prompt", "Re-Auth-Request-Type",
                        "Service-Type", "Termination-Action", "Tunnel-Medium-Type",
                        "Tunnel-Type"},
  Grouped          |-> {"CC-Money", "CHAP-Auth", "Cost-Information", "Failed-AVP",
                        "Final-Unit-Indication", "G-S-U-Pool-Reference", "Granted-Service-Unit",
                        "MIP-FA-to-HA-Key", "MIP-FA-to-MN-Key", "MIP-HA-to-FA-Key",
                        "MIP-HA-to-MN-Key", "MIP-MN-AAA-Auth", "MIP-MN-to-FA-Key",
                        "MIP-MN-to-HA-Key", "MIP-Originating-Foreign-AAA",
                        "Multiple-Services-Credit-Control", "Proxy-Info", "Redirect-Server",
                        "Requested-Service-Unit", "Service-Parameter-Info", "Subscription-Id",
                        "Tunneling", "Unit-Value", "Used-Service-Unit", "User-Equipment-Info"},
  IPFilterRule     |-> {"NAS-Filter-Rule", "Restriction-Filter-Rule"},
  OctetString      |-> {"ARAP-Challenge-Response", "ARAP-Features", "ARAP-Password",
                        "ARAP-Security-Data", "CC-Correlation-Id", "CHAP-Challenge",
                        "CHAP-Ident", "CHAP-Response", "Class", "Configuration-Token",
                        "EAP-Payload", "Framed-Appletalk-Zone", "Framed-IP-Address",
                        "Framed-IP-Netmask", "Framed-IPv6-Pool", "Framed-IPv6-Prefix",
                        "Framed-Pool", "Login-IP-Host", "Login-IPv6-Host", "Login-LAT-Group",
                        "Login-LAT-Node", "Login-LAT-Port", "Login-LAT-Service",
                        "MIP-FA-Challenge", "MIP-Key-Material", "MIP-Reg-Reply",
                        "MIP-Reg-Request", "MIP-Session-Key", "NAS-IP-Address",
                        "NAS-IPv6-Address", "Originating-Line-Info", "Proxy-State",
                        "Service-Parameter-Value", "State", "Tunnel-Assignment-Id",
                        "Tunnel-Password", "Tunnel-Server-Auth-Id", "User-Equipment-Info-Value",
                        "User-Password"},
  UTF8String       |-> {"Acct-Multi-Session-Id", "Callback-Id", "Callback-Number",
                        "Called-Station-Id", "Calling-Station-Id", "Connect-Info", "Cost-Unit",
                        "Error-Message", "Filter-Id", "Framed-IPX-Network", "Framed-IPv6-Route",
                        "Framed-Route", "NAS-Identifier", "NAS-Port-Id",
                        "Redirect-Server-Address", "Reply-Message", "Service-Context-Id",
                        "Session-Id", "Subscription-Id-Data", "Tunnel-Client-Endpoint",
                        "Tunnel-Private-Group-Id", "Tunnel-Server-Endpoint", "User-Name"},
  Unsigned64       |-> {"CC-Input-Octets", "CC-Output-Octets", "CC-Service-Specific-Units",
                        "CC-Sub-Session-Id", "CC-Total-Octets", "Framed-Interface-Id",
                        "Value-Digits"}]

\* The type of an AVP that is in a grammar; all the others are integers of 32 bits.
AvpType == [a \in UNION {AvpTypes[t] : t \in DOMAIN AvpTypes} |->
              CHOOSE t \in DOMAIN AvpTypes : a \in AvpTypes[t]]
TypeOf(a) == IF a \in DOMAIN AvpType THEN AvpType[a] ELSE "Unsigned32"

Container(name, type, vals) == [name |-> name, type |-> type, vals |-> vals]

\* AAAAvpContainerList::search(): the first container of that name.
Search(list, name) ==
  LET ofName == SelectSeq(list, LAMBDA c : c.name = name)
  IN IF ofName = <<>> THEN <<>> ELSE <<ofName[1]>>
----------------------------------------------------------------------------
Success == "AAA_SUCCESS"

RulesOf(g) == g.fixed \o g.required \o g.optional

\* A value parser's verdict on v, an entry made for entryType; it runs per entry.
ValueError(type, entryType, v) ==
  IF ~Fits(type, entryType)
  THEN "AAA_PARSE_ERROR_PROHIBITED_CONTAINER"
  ELSE IF ~Encodable(type, v) THEN "AAA_INVALID_AVP_VALUE" ELSE Success

\* The first error of a sequence of verdicts.
FirstError(verdicts) ==
  LET faults == SelectSeq(verdicts, LAMBDA e : e # Success)
  IN IF faults = <<>> THEN Success ELSE faults[1]

\* What encoding finds wrong with the container of rule r (no rule has a maximum of 0).
RuleError(g, list, r) ==
  LET found == Search(list, r.avp)
      vals  == found[1].vals
  IN CASE found = <<>> -> IF r.min > 0 /\ r \notin ToSet(g.optional)
                          THEN "AAA_PARSE_ERROR_MISSING_CONTAINER" ELSE Success
       [] OTHER -> IF Len(vals) < r.min THEN "AAA_PARSE_ERROR_TOO_LESS_AVP_ENTRIES"
                   ELSE IF Len(vals) > r.max THEN "AAA_PARSE_ERROR_TOO_MUCH_AVP_ENTRIES"
                   ELSE FirstError([i \in DOMAIN vals |->
                                      ValueError(TypeOf(r.avp), found[1].type, vals[i])])

NoFlip == ""

\* An AVP as its header and value are written; the wildcard's entries have no header.
AvpText(name, v) ==
  IF name = Wildcard THEN [raw |-> v]
  ELSE [name |-> name, flip |-> NoFlip, val |-> Encoded(TypeOf(name), v)]

RuleText(list, r) ==
  LET found == Search(list, r.avp)
  IN IF found = <<>> THEN <<>>
     ELSE [i \in DOMAIN found[1].vals |-> AvpText(r.avp, found[1].vals[i])]

\* parseAppToRawWithDict(): by rule, so a container of no rule, and the second one of a
\* name, are left out without a word.
Encode(g, list) ==
  LET rules == RulesOf(g)
      err   == FirstError([k \in DOMAIN rules |-> RuleError(g, list, rules[k])])
  IN [err |-> err,
      wire |-> IF err # Success THEN <<>>
               ELSE FlattenSeq([k \in DOMAIN rules |-> RuleText(list, rules[k])])]
----------------------------------------------------------------------------
\* The values of an AVP are lost to the header list when the wildcard has written one:
\* its first words are taken for a header whose length runs past the end.
Garbled(wire) == \E i \in DOMAIN wire : "raw" \in DOMAIN wire[i]

\* Whether the AVP w is one the rule takes (the V flag and the vendor select, too).
Matches(r, w) == r.avp = Wildcard \/ (w.name = r.avp /\ w.flip # "v")

\* checkFlags(): M as in the dictionary; P may be cleared, not set.
FlagsRight(g, w) == w.flip # "m" /\ (w.flip = "p" => w.name \in g.p)

\* The verdict on an AVP that a rule has taken.  The head of the message is matched by
\* its code alone: with a V flag the vendor is read as the beginning of the value.
TakenError(g, r, fixed, w) ==
  CASE r.avp = Wildcard            -> Success
    [] fixed /\ w.flip = "v"       -> "AAA_INVALID_AVP_VALUE"
    [] ~fixed /\ ~FlagsRight(g, w) -> "AAA_INVALID_AVP_BITS"
    [] ~Decodable(TypeOf(r.avp), w.val) -> "AAA_INVALID_AVP_VALUE"
    [] OTHER                       -> Success

\* Mutation: a rule takes one AVP and leaves the others to the rules behind it.
SplitFirst(r, fixed, left) ==
  LET at == SelectInSeq(left, LAMBDA w : Matches(r, w))
  IN CASE r.avp = Wildcard -> [taken |-> left, left |-> <<>>]
       [] at = 0           -> [taken |-> <<>>, left |-> left]
       [] OTHER            -> [taken |-> <<left[at]>>, left |-> RemoveAt(left, at)]

\* The rule takes from what is left: at the head those that lead, elsewhere all that match.
Split(r, fixed, left) ==
  IF fixed
  THEN LET n == CHOOSE k \in 0 .. Len(left) :
                  /\ \A i \in 1 .. k : left[i].name = r.avp
                  /\ k < Len(left) => left[k + 1].name # r.avp
       IN [taken |-> SubSeq(left, 1, n), left |-> SubSeq(left, n + 1, Len(left))]
  ELSE [taken |-> SelectSeq(left, LAMBDA w : Matches(r, w)),
        left  |-> SelectSeq(left, LAMBDA w : ~Matches(r, w))]

\* How often the AVP may occur; the optional part may lack any.
CountError(g, r, taken) ==
  CASE taken = <<>> -> IF r.min = 0 \/ r \in ToSet(g.optional) THEN Success
                       ELSE "AAA_MISSING_AVP"
    [] Len(taken) < r.min -> "AAA_MISSING_AVP"
    [] Len(taken) > r.max -> "AAA_AVP_OCCURS_TOO_MANY_TIMES"
    [] OTHER              -> Success

\* One rule: acc.left is the header list, acc.list the containers so far.
DecodeRule(g, acc, k) ==
  LET r     == RulesOf(g)[k]
      fixed == k <= Len(g.fixed)
      s     == Split(r, fixed, acc.left)
      err   == FirstError([i \in DOMAIN s.taken |-> TakenError(g, r, fixed, s.taken[i])]
                          \o <<CountError(g, r, s.taken)>>)
      vals  == [i \in DOMAIN s.taken |-> Decoded(TypeOf(r.avp), s.taken[i].val)]
  IN IF acc.err # Success THEN acc
     ELSE [left |-> s.left, err  |-> err,
           list |-> IF s.taken = <<>> \/ err # Success THEN acc.list
                    ELSE Append(acc.list, Container(r.avp, TypeOf(r.avp), vals))]

\* parseRawToAppWithDict(): what is left at the end is ignored.
Decode(g, wire) ==
  LET start == [left |-> wire, list |-> <<>>, err |-> Success]
      after[k \in 0 .. Len(RulesOf(g))] ==
        IF k = 0 THEN start ELSE DecodeRule(g, after[k - 1], k)
  IN IF Garbled(wire) THEN [start EXCEPT !.err = "AAA_INVALID_MESSAGE_LENGTH"]
     ELSE after[Len(RulesOf(g))]
=============================================================================
