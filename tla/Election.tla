----------------------------- MODULE Election -----------------------------
(***************************************************************************)
(* The election between two peers that have connected to each other        *)
(* (DiameterPeerStateMachine::Elect): each node, when it has both          *)
(* connections, compares its own name with the name in the CER of the      *)
(* other, and keeps the connection that the other opened if its own name   *)
(* is the higher one.  Both nodes run this code, each at its own time.     *)
(***************************************************************************)
EXTENDS Integers, Sequences

CONSTANTS
  Octet,       \* the octets that names are made of
  MaxName,     \* bound: the length of a name
  CharSigned   \* whether the compiler's char is signed

ASSUME ElectionAssumption ==
  Octet \subseteq 0 .. 255 /\ MaxName \in Nat /\ CharSigned \in BOOLEAN

VARIABLES
  name,    \* each node's identity, advertised as Origin-Host
  result   \* what each node has concluded

vars == <<name, result>>

Node  == {1, 2}
Other(n) == 3 - n
Name  == UNION {[1 .. k -> Octet] : k \in 1 .. MaxName}
Result == {"none", "win", "lose", "same"}

\* char(0x08), and what comparing two chars compares.
Pad == 8
CharValue(o) == IF CharSigned /\ o > 127 THEN o - 256 ELSE o

Longer(a, b) == IF Len(a) > Len(b) THEN Len(a) ELSE Len(b)
OctetAtLast(a, i) == IF i <= Len(a) THEN a[i] ELSE a[Len(a)]
OctetAt(a, i) == IF i <= Len(a) THEN a[i] ELSE Pad

DifferenceOnly(a, b, i) == i \in 1 .. Longer(a, b) /\ OctetAt(a, i) # OctetAt(b, i)
\* The first octet in which the padded names differ decides.
FirstDifference(a, b, i) ==
  /\ i \in 1 .. Longer(a, b)
  /\ OctetAt(a, i) # OctetAt(b, i)
  /\ \A j \in 1 .. i - 1 : OctetAt(a, j) = OctetAt(b, j)

Higher(a, b) ==
  \E i \in 1 .. Longer(a, b) :
     FirstDifference(a, b, i) /\ CharValue(OctetAt(a, i)) > CharValue(OctetAt(b, i))

Elect(local, remote) ==
  IF local = remote THEN "same"
  ELSE IF Higher(local, remote) THEN "win" ELSE "lose"

Init ==
  /\ name \in [Node -> Name]
  /\ result = [n \in Node |-> "none"]

ElectAt(n) ==
  /\ result[n] = "none"
  /\ result' = [result EXCEPT ![n] = Elect(name[n], name[Other(n)])]
  /\ UNCHANGED name

Next == \E n \in Node : ElectAt(n)

Spec == Init /\ [][Next]_vars
----------------------------------------------------------------------------
\* Names keep their octets; conclusions are drawn once.
TypeOK == name \in [Node -> Name] /\ result \in [Node -> Result]

\* The two nodes, which compare independently, agree on one winner: both
\* winning would close both connections, both losing would leave each waiting
\* for the other.  Only nodes of the same name have none.
OneWinner ==
  result[1] # "none" /\ result[2] # "none" =>
    IF name[1] = name[2] THEN result[1] = "same" /\ result[2] = "same"
                         ELSE {result[1], result[2]} = {"win", "lose"}

\* "The comparison proceeds by considering the shorter OctetString to be padded with
\* zeros so that it length is the same as the length of the longer, then performing
\* an octet-by-octet unsigned comparison with the first octet being most
\* significant.  Any remaining octets are assumed to have value 0x80."
\* (aaa_peer_fsm.cxx:1103-1107).  The two values named for the octets a name
\* lacks elect differently between a name and a longer one that begins with it: zeros
\* the longer, 0x80 the shorter.  Where they elect alike, so does the code,
\* and any other implementation.
Ordinal(a, i, fill) == IF i <= Len(a) THEN a[i] ELSE fill
UnsignedHigher(a, b, fill) ==
  \E i \in 1 .. Longer(a, b) :
    /\ Ordinal(a, i, fill) > Ordinal(b, i, fill)
    /\ \A j \in 1 .. i - 1 : Ordinal(a, j, fill) = Ordinal(b, j, fill)
StatedAlike(a, b) == UnsignedHigher(a, b, 0) <=> UnsignedHigher(a, b, 128)
UnsignedOrder ==
  \A n \in Node :
    LET own == name[n]  peers == name[Other(n)] IN
    result[n] # "none" /\ StatedAlike(own, peers) =>
      (result[n] = "win" <=> UnsignedHigher(own, peers, 0))
============================================================================
