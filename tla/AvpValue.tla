------------------------------ MODULE AvpValue ------------------------------
(***************************************************************************)
(* The value parsers of the AVP types (aaa_parser_avpvalue.h): what each   *)
(* accepts from the application and from the wire, and what the other side *)
(* reads in it.                                                            *)
(*                                                                         *)
(* A value is a record.  A token stands for contents that its parser       *)
(* copies and never looks at; the types with a syntax of their own have    *)
(* values whose parts decide whether they are accepted.  The text of an    *)
(* identity, a URI or a filter rule is kept as the parts it is written     *)
(* from; blanks, which the grammars skip, are left out.                    *)
(***************************************************************************)
EXTENDS Integers, Sequences, FiniteSets

CONSTANT CharSigned  \* whether the compiler's char is signed

ASSUME CharAssumption == CharSigned \in BOOLEAN

Ints32  == {"Integer32", "Unsigned32", "Enumerated", "Time"}
Ints64  == {"Integer64", "Unsigned64"}
Strings == {"OctetString", "UTF8String", "DiameterIdentity", "Any"}

\* An entry made for type e is accepted by the parser of type t.
Fits(t, e) == \/ t = e
              \/ {t, e} \subseteq Ints32
              \/ {t, e} \subseteq Ints64

\* Entries of both types keep their value in the same C++ type.
SameStorage(t, e) == Fits(t, e) \/ {t, e} \subseteq Strings

\* What reading an entry as another C++ type gives.
Undefined == [undefined |-> TRUE]

Token(of, round, i) == [of |-> of, round |-> round, i |-> i]
IsToken(v) == DOMAIN v \cap {"of", "undefined"} # {}
----------------------------------------------------------------------------
(* UTF8String: v.octets.                                                   *)

\* The number of leading 1 bits is counted with a logical "and": it is always five.
\* An octet that continues a character is shifted as a char, so where char is signed
\* none is ever recognised.
Utf8Checker(octets) ==
  LET n == Len(octets)
      Leads(i)     == octets[i] \notin {0, 128, 236, 237} /\ i + 5 <= n
      Continues(i) == octets[i] \in 128 .. 191 /\ ~CharSigned
      ok[i \in 1 .. n + 1] ==
        IF i = n + 1 THEN TRUE
        ELSE IF octets[i] \in 1 .. 127 THEN ok[i + 1]
        ELSE Leads(i) /\ (\A j \in i + 1 .. i + 5 : Continues(j)) /\ ok[i + 6]
  IN ok[1]
----------------------------------------------------------------------------
(* DiameterIdentity: v.labels, each with its first character and how many  *)
(* letters, digits and hyphens follow.                                     *)

DiamidentGrammar(labels) ==
  /\ labels # <<>>
  /\ \A i \in DOMAIN labels :
       \/ labels[i].first = "letter"
       \/ labels[i].first = "digit" /\ labels[i].rest > 0
----------------------------------------------------------------------------
(* DiameterURI: v.scheme, v.fqdn, v.port, v.transport, v.protocol; a URI   *)
(* of another implementation may leave out the last three.                 *)

None      == "none"
NoNumber  == -1  \* no port, no mask
AnyNumber == -2  \* whatever the memory held

\* A structure has no word for udp and tacacs+.
UriText(v) ==
  [v EXCEPT !.transport = IF @ = "tcp" THEN @ ELSE "sctp",
            !.protocol  = IF @ = "diameter" THEN @ ELSE "radius"]

\* "aaa" is tried first and matches the beginning of "aaas".
DiamuriGrammar(w) == w.scheme = "aaa" /\ DiamidentGrammar(w.fqdn)

\* The word for the protocol is stored as the transport with the same number.
ProtocolFunctor(w) ==
  CASE w.protocol = "diameter" -> "tcp"
    [] w.protocol = "radius"   -> "sctp"
    [] w.protocol = "tacacs+"  -> "udp"
    [] w.transport = None      -> "tcp"
    [] OTHER                   -> w.transport

\* Without a port the field keeps what the memory held.
UriRead(w) ==
  [w EXCEPT !.transport = ProtocolFunctor(w),
            !.protocol  = "diameter",
            !.port      = IF @ = NoNumber THEN AnyNumber ELSE @]
----------------------------------------------------------------------------
(* IPFilterRule: v.src, v.dst, each with a host ("any", "assigned", "v4",  *)
(* "v6" for an abbreviated IPv6 address, "v6full" for one in full), a mask *)
(* or NoNumber, and the ranges of ports; v.opts is a set of options.       *)

OptionOrder == <<"frag", "ipoptions", "tcpoptions", "established", "setup", "tcpflags",
                 "icmptypes">>

\* The option that follows the destination.
FirstOption(opts) ==
  IF opts = {} THEN None
  ELSE OptionOrder[CHOOSE i \in DOMAIN OptionOrder :
                     /\ OptionOrder[i] \in opts
                     /\ \A j \in 1 .. i - 1 : OptionOrder[j] \notin opts]

\* An IPv6 address without a mask goes on over blanks while there are hex digits.
Unbounded(e) == e.host = "v6" /\ e.mask = NoNumber

EndpointGrammar(e) ==
  \/ e.host \in {"any", "assigned"}
  \/ e.host = "v4" /\ (e.mask = NoNumber \/ e.mask <= 128)
  \/ e.host = "v6" /\ e.mask # NoNumber /\ e.mask <= 128
  \/ Unbounded(e) /\ e.ports = <<>>
  \/ Unbounded(e) /\ Len(e.ports) = 1 /\ e.ports[1][1] = e.ports[1][2]

\* The grammar has no keyword for the ICMP types, and "frag" and "established" begin
\* with a hex digit.
IPFilterRuleGrammar(r) ==
  /\ EndpointGrammar(r.src) /\ EndpointGrammar(r.dst)
  /\ "icmptypes" \notin r.opts
  /\ ~(Unbounded(r.dst) /\ FirstOption(r.opts) \in {"frag", "established"})

\* What the address has taken of the ports is part of its text.
EndpointRead(e) ==
  IF Unbounded(e) /\ e.ports # <<>> THEN [e EXCEPT !.host = "v6 port", !.ports = <<>>] ELSE e

IPFilterRuleRead(r) == [r EXCEPT !.src = EndpointRead(@), !.dst = EndpointRead(@)]
----------------------------------------------------------------------------
\* parseAppToRaw() of type t accepts v (the three grammars are tested on encoding but
\* that of URIs).
Encodable(t, v) ==
  \/ IsToken(v)
  \/ t \in Ints32 \cup Ints64 \cup {"OctetString", "Any", "Address", "Grouped", "DiameterURI"}
  \/ t = "UTF8String" /\ Utf8Checker(v.octets)
  \/ t = "DiameterIdentity" /\ DiamidentGrammar(v.labels)
  \/ t = "IPFilterRule" /\ IPFilterRuleGrammar(v)

\* What it writes.
Encoded(t, v) == IF t = "DiameterURI" /\ ~IsToken(v) THEN UriText(v) ELSE v

\* parseRawToApp() of type t accepts w.
Decodable(t, w) ==
  \/ IsToken(w)
  \/ t = "DiameterURI" /\ DiamuriGrammar(w)
  \/ t # "DiameterURI" /\ Encodable(t, w)

\* What it reads.
Decoded(t, w) ==
  IF IsToken(w) THEN w
  ELSE CASE t = "DiameterURI"  -> UriRead(w)
         [] t = "IPFilterRule" -> IPFilterRuleRead(w)
         [] OTHER              -> w
=============================================================================
