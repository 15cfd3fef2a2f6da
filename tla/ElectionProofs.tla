-------------------------- MODULE ElectionProofs --------------------------
(***************************************************************************)
(* The election has exactly one winner, for names of any length over any   *)
(* octets but the padding itself, with signed and with unsigned chars.     *)
(* That there are never two winners follows from the first difference      *)
(* being unique; that there is one needs that two names differ somewhere   *)
(* once padded, and that a set of positions has a first element.           *)
(*                                                                         *)
(* That the winner is the one the protocol's order elects needs more of    *)
(* the octets: the code pads with 8 and not with 0, and compares chars.    *)
(***************************************************************************)
EXTENDS Election, FiniteSetTheorems, TLAPS

\* A non-empty set of positions has a least one.
LEMMA LeastPosition ==
  ASSUME NEW m \in Nat, NEW T, T \subseteq 1 .. m, T # {}
  PROVE  \E x \in T : \A y \in T : x <= y
<1> DEFINE S  == 1 .. m
           Up == {1 .. x : x \in T}
           R  == StrictSubsetOrdering(S)
<1>1. IsWellFoundedOn(R, FiniteSubsetsOf(S))
  BY FS_StrictSubsetOrderingWellFounded
<1>2. Up \subseteq FiniteSubsetsOf(S)
  <2> SUFFICES ASSUME NEW x \in T
               PROVE  1 .. x \in FiniteSubsetsOf(S)
    OBVIOUS
  <2>1. x \in Int /\ 1 \in Int /\ 1 .. x \subseteq S
    OBVIOUS
  <2>2. IsFiniteSet(1 .. x)
    BY <2>1, FS_Interval
  <2> QED
    BY <2>1, <2>2 DEF FiniteSubsetsOf
<1>3. Up # {}
  OBVIOUS
<1>4. PICK u \in Up : \A w \in Up : <<w, u>> \notin R
  <2> HIDE DEF Up, R
  <2> QED
    BY <1>1, <1>2, <1>3, WFMin
<1>5. PICK x \in T : u = 1 .. x
  OBVIOUS
<1>6. ASSUME NEW y \in T, y < x
      PROVE  FALSE
  <2>1. 1 .. y \in Up
    OBVIOUS
  <2>2. x \in 1 .. x /\ x \notin 1 .. y /\ 1 .. y \subseteq 1 .. x /\ 1 .. x \subseteq S
    BY <1>6
  <2>3. <<1 .. y, u>> \in R
    BY <1>5, <2>2 DEF StrictSubsetOrdering
  <2> QED
    BY <1>4, <2>1, <2>3
<1> QED
  BY <1>6

\* A name and its length.
LEMMA NameFacts ==
  ASSUME NEW a \in Name
  PROVE  /\ Len(a) \in Nat
         /\ a \in [1 .. Len(a) -> Octet]
         /\ \A i \in Nat \ {0} : OctetAt(a, i) \in 0 .. 255
<1>1. PICK k \in 1 .. MaxName : a \in [1 .. k -> Octet]
  BY DEF Name
<1>2. k \in Nat /\ a \in Seq(Octet) /\ Len(a) = k
  BY <1>1, ElectionAssumption
<1>3. ASSUME NEW i \in Nat \ {0} PROVE OctetAt(a, i) \in 0 .. 255
  <2>1. CASE i <= Len(a)
    <3>1. i \in 1 .. k
      BY <1>2, <2>1
    <3>2. a[i] \in Octet
      BY <1>1, <3>1
    <3> QED
      BY <2>1, <3>2, ElectionAssumption DEF OctetAt
  <2>2. CASE ~(i <= Len(a))
    BY <1>2, <2>2 DEF OctetAt, Pad
  <2> QED
    BY <2>1, <2>2, <1>2
<1> QED
  BY <1>1, <1>2, <1>3

\* Comparing chars separates different octets, signed or not.
LEMMA CharValueInjective ==
  ASSUME NEW o \in 0 .. 255, NEW u \in 0 .. 255
  PROVE  /\ CharValue(o) \in Int
         /\ o # u => CharValue(o) > CharValue(u) \/ CharValue(u) > CharValue(o)
  BY DEF CharValue

\* Two names that differ also differ somewhere once the shorter is padded,
\* if no name contains the padding.
LEMMA PaddedNamesDiffer ==
  ASSUME Pad \notin Octet, NEW a \in Name, NEW b \in Name, a # b
  PROVE  \E i \in 1 .. Longer(a, b) : OctetAt(a, i) # OctetAt(b, i)
<1>0. /\ Len(a) \in Nat /\ a \in [1 .. Len(a) -> Octet]
      /\ Len(b) \in Nat /\ b \in [1 .. Len(b) -> Octet]
  BY NameFacts
<1>len. Len(a) \in Nat /\ Len(b) \in Nat
  BY <1>0
<1>1. CASE Len(a) = Len(b)
  <2>1. PICK i \in 1 .. Len(a) : a[i] # b[i]
    BY <1>0, <1>1
  <2> QED
    BY <1>0, <1>1, <2>1 DEF Longer, OctetAt
<1>2. CASE Len(a) < Len(b)
  <2>1. Len(a) + 1 \in 1 .. Len(b) /\ Longer(a, b) = Len(b)
    BY <1>len, <1>2 DEF Longer
  <2>2. OctetAt(a, Len(a) + 1) = Pad
    BY <1>0 DEF OctetAt
  <2>3. OctetAt(b, Len(a) + 1) \in Octet
    BY <1>0, <2>1 DEF OctetAt
  <2> QED
    BY <2>1, <2>2, <2>3
<1>3. CASE Len(b) < Len(a)
  <2>1. Len(b) + 1 \in 1 .. Len(a) /\ Longer(a, b) = Len(a)
    BY <1>len, <1>3 DEF Longer
  <2>2. OctetAt(b, Len(b) + 1) = Pad
    BY <1>0 DEF OctetAt
  <2>3. OctetAt(a, Len(b) + 1) \in Octet
    BY <1>0, <2>1 DEF OctetAt
  <2> QED
    BY <2>1, <2>2, <2>3
<1>4. Len(a) = Len(b) \/ Len(a) < Len(b) \/ Len(b) < Len(a)
  BY <1>len
<1> QED
  BY <1>1, <1>2, <1>3, <1>4

\* Both nodes look at the same positions.
LEMMA LongerSymmetric ==
  ASSUME NEW a \in Name, NEW b \in Name
  PROVE  Longer(a, b) = Longer(b, a) /\ Longer(a, b) \in Nat
  BY NameFacts DEF Longer

\* The first difference is the same seen from either side, and there is only
\* one, so both names cannot be the higher one.
LEMMA NeverBothHigher ==
  ASSUME NEW a \in Name, NEW b \in Name
  PROVE  ~(Higher(a, b) /\ Higher(b, a))
<1> SUFFICES ASSUME Higher(a, b), Higher(b, a)
             PROVE  FALSE
  OBVIOUS
<1>1. PICK i \in 1 .. Longer(a, b) :
        /\ FirstDifference(a, b, i)
        /\ CharValue(OctetAt(a, i)) > CharValue(OctetAt(b, i))
  BY DEF Higher
<1>2. PICK j \in 1 .. Longer(a, b) :
        /\ FirstDifference(b, a, j)
        /\ CharValue(OctetAt(b, j)) > CharValue(OctetAt(a, j))
  BY LongerSymmetric DEF Higher
<1>3. i \in Nat \ {0} /\ j \in Nat \ {0}
  BY LongerSymmetric
<1>4. i = j
  <2>1. ~(i < j)
    <3>1. i < j => i \in 1 .. j - 1
      BY <1>3
    <3> QED
      BY <1>1, <1>2, <3>1 DEF FirstDifference
  <2>2. ~(j < i)
    <3>1. j < i => j \in 1 .. i - 1
      BY <1>3
    <3> QED
      BY <1>1, <1>2, <3>1 DEF FirstDifference
  <2> QED
    BY <1>3, <2>1, <2>2
<1>5. CharValue(OctetAt(a, i)) \in Int /\ CharValue(OctetAt(b, i)) \in Int
  BY <1>3, NameFacts, CharValueInjective
<1> QED
  BY <1>1, <1>2, <1>4, <1>5

\* Of two different names one is the higher.
LEMMA OneIsHigher ==
  ASSUME Pad \notin Octet, NEW a \in Name, NEW b \in Name, a # b
  PROVE  Higher(a, b) \/ Higher(b, a)
<1> DEFINE m == Longer(a, b)
           T == {i \in 1 .. m : OctetAt(a, i) # OctetAt(b, i)}
<1>1. m \in Nat /\ m = Longer(b, a)
  BY LongerSymmetric
<1>2. T \subseteq 1 .. m /\ T # {}
  BY PaddedNamesDiffer
<1>3. PICK i \in T : \A j \in T : i <= j
  <2> HIDE DEF T, m
  <2> QED
    BY <1>1, <1>2, LeastPosition
<1>4. i \in 1 .. m /\ OctetAt(a, i) # OctetAt(b, i)
  OBVIOUS
<1>5. ASSUME NEW j \in 1 .. i - 1
      PROVE  OctetAt(a, j) = OctetAt(b, j)
  <2>1. j \in 1 .. m /\ ~(i <= j)
    BY <1>1, <1>4
  <2> QED
    BY <1>3, <2>1
<1>6. FirstDifference(a, b, i) /\ FirstDifference(b, a, i)
  BY <1>1, <1>4, <1>5 DEF FirstDifference
<1>7. OctetAt(a, i) \in 0 .. 255 /\ OctetAt(b, i) \in 0 .. 255
  BY <1>1, <1>4, NameFacts
<1>8. \/ CharValue(OctetAt(a, i)) > CharValue(OctetAt(b, i))
      \/ CharValue(OctetAt(b, i)) > CharValue(OctetAt(a, i))
  BY <1>4, <1>7, CharValueInjective
<1> QED
  BY <1>1, <1>4, <1>6, <1>8 DEF Higher

\* Whatever a node has concluded, it concluded it from the two names.
Concluded == \A n \in Node : result[n] \in {"none", Elect(name[n], name[Other(n)])}

\* Names never change, and conclusions are drawn from them.
LEMMA SpecConcluded == Spec => [](TypeOK /\ Concluded)
<1>0. 1 \in Node /\ 2 \in Node /\ \A n \in Node : Other(n) \in Node
  BY DEF Node, Other
<1>1. Init => TypeOK /\ Concluded
  BY DEF Init, TypeOK, Concluded, Result
<1>2. TypeOK /\ Concluded /\ [Next]_vars => TypeOK' /\ Concluded'
  <2> SUFFICES ASSUME TypeOK, Concluded, [Next]_vars
               PROVE  TypeOK' /\ Concluded'
    OBVIOUS
  <2>1. CASE UNCHANGED vars
    BY <2>1 DEF TypeOK, Concluded, vars
  <2>2. ASSUME NEW n \in Node, ElectAt(n)
        PROVE  TypeOK' /\ Concluded'
    <3>1. Elect(name[n], name[Other(n)]) \in Result
      BY DEF Elect, Result
    <3> QED
      BY <2>2, <3>1 DEF ElectAt, TypeOK, Concluded
  <2> QED
    BY <2>1, <2>2 DEF Next
<1> QED
  BY <1>1, <1>2, PTL DEF Spec

\* Two nodes that connect to each other and elect independently (Elect() in
\* each of them) agree on one winner, unless they have the same name, if no
\* name contains the padding character.
THEOREM AlwaysOneWinner ==
  ASSUME Pad \notin Octet
  PROVE  Spec => []OneWinner
<1>1. TypeOK /\ Concluded => OneWinner
  <2> SUFFICES ASSUME TypeOK, Concluded, result[1] # "none", result[2] # "none"
               PROVE  IF name[1] = name[2]
                      THEN result[1] = "same" /\ result[2] = "same"
                      ELSE {result[1], result[2]} = {"win", "lose"}
    BY DEF OneWinner
  <2>1. 1 \in Node /\ 2 \in Node /\ Other(1) = 2 /\ Other(2) = 1
    BY DEF Node, Other
  <2>2. name[1] \in Name /\ name[2] \in Name
    BY <2>1 DEF TypeOK
  <2>3. result[1] = Elect(name[1], name[2]) /\ result[2] = Elect(name[2], name[1])
    BY <2>1 DEF Concluded
  <2>4. CASE name[1] = name[2]
    BY <2>3, <2>4 DEF Elect
  <2>5. CASE name[1] # name[2]
    <3>1. ~(Higher(name[1], name[2]) /\ Higher(name[2], name[1]))
      BY <2>2, NeverBothHigher
    <3>2. Higher(name[1], name[2]) \/ Higher(name[2], name[1])
      BY <2>2, <2>5, OneIsHigher
    <3> QED
      BY <2>3, <2>5, <3>1, <3>2 DEF Elect
  <2> QED
    BY <2>4, <2>5
<1> QED
  BY <1>1, SpecConcluded, PTL
----------------------------------------------------------------------------
\* Octets on which the code's comparison is the protocol's: above the padding,
\* and of the same value as chars.  Those of host names (letters, digits, "-"
\* and ".") are.
Comparable == \A o \in Octet : o > Pad /\ (CharSigned => o <= 127)

\* At every position of the longer name, padding with 8 and comparing chars
\* orders two names as padding with 0 and comparing unsigned octets does.
LEMMA SameOrderAt ==
  ASSUME Comparable, NEW a \in Name, NEW b \in Name, NEW i \in 1 .. Longer(a, b)
  PROVE  /\ OctetAt(a, i) = OctetAt(b, i) <=> Ordinal(a, i, 0) = Ordinal(b, i, 0)
         /\ CharValue(OctetAt(a, i)) > CharValue(OctetAt(b, i))
              <=> Ordinal(a, i, 0) > Ordinal(b, i, 0)
<1>1. /\ Len(a) \in Nat /\ a \in [1 .. Len(a) -> Octet]
      /\ Len(b) \in Nat /\ b \in [1 .. Len(b) -> Octet]
  BY NameFacts
<1>2. i \in Nat \ {0} /\ (i <= Len(a) \/ i <= Len(b))
  BY <1>1 DEF Longer
<1>3. ASSUME NEW o \in Octet
      PROVE  o \in Int /\ o > 8 /\ CharValue(o) = o
  BY ElectionAssumption DEF Comparable, Pad, CharValue
<1>4. CharValue(8) = 8
  BY DEF CharValue
<1>5. CASE i <= Len(a) /\ i <= Len(b)
  <2>1. a[i] \in Octet /\ b[i] \in Octet
    BY <1>1, <1>2, <1>5
  <2>2. OctetAt(a, i) = a[i] /\ Ordinal(a, i, 0) = a[i]
        /\ OctetAt(b, i) = b[i] /\ Ordinal(b, i, 0) = b[i]
    BY <1>5 DEF OctetAt, Ordinal
  <2> QED
    BY <1>3, <2>1, <2>2
<1>6. CASE i <= Len(a) /\ ~(i <= Len(b))
  <2>1. a[i] \in Octet
    BY <1>1, <1>2, <1>6
  <2>2. OctetAt(a, i) = a[i] /\ Ordinal(a, i, 0) = a[i]
        /\ OctetAt(b, i) = 8 /\ Ordinal(b, i, 0) = 0
    BY <1>6 DEF OctetAt, Ordinal, Pad
  <2> QED
    BY <1>3, <1>4, <2>1, <2>2
<1>7. CASE ~(i <= Len(a)) /\ i <= Len(b)
  <2>1. b[i] \in Octet
    BY <1>1, <1>2, <1>7
  <2>2. OctetAt(b, i) = b[i] /\ Ordinal(b, i, 0) = b[i]
        /\ OctetAt(a, i) = 8 /\ Ordinal(a, i, 0) = 0
    BY <1>7 DEF OctetAt, Ordinal, Pad
  <2> QED
    BY <1>3, <1>4, <2>1, <2>2
<1> QED
  BY <1>2, <1>5, <1>6, <1>7

\* So the code's order of whole names is the protocol's.
LEMMA SameOrder ==
  ASSUME Comparable, NEW a \in Name, NEW b \in Name
  PROVE  Higher(a, b) <=> UnsignedHigher(a, b, 0)
<1>1. Longer(a, b) \in Nat
  BY LongerSymmetric
<1>2. ASSUME NEW i \in 1 .. Longer(a, b), NEW j \in 1 .. i - 1
      PROVE  OctetAt(a, j) = OctetAt(b, j) <=> Ordinal(a, j, 0) = Ordinal(b, j, 0)
  <2>1. j \in 1 .. Longer(a, b)
    BY <1>1
  <2> QED
    BY <2>1, SameOrderAt
<1>3. ASSUME NEW i \in 1 .. Longer(a, b)
      PROVE  (/\ FirstDifference(a, b, i)
              /\ CharValue(OctetAt(a, i)) > CharValue(OctetAt(b, i)))
             <=>
             (/\ Ordinal(a, i, 0) > Ordinal(b, i, 0)
              /\ \A j \in 1 .. i - 1 : Ordinal(a, j, 0) = Ordinal(b, j, 0))
  <2>1. CharValue(OctetAt(a, i)) > CharValue(OctetAt(b, i))
          <=> Ordinal(a, i, 0) > Ordinal(b, i, 0)
    BY SameOrderAt
  <2>2. CharValue(OctetAt(a, i)) > CharValue(OctetAt(b, i))
          => OctetAt(a, i) # OctetAt(b, i)
    <3>1. i \in Nat \ {0}
      BY <1>1
    <3>2. OctetAt(a, i) \in 0 .. 255
      BY <3>1, NameFacts
    <3>3. CharValue(OctetAt(a, i)) \in Int
      BY <3>2, CharValueInjective
    <3> QED
      BY <3>3
  <2> QED
    BY <1>2, <2>1, <2>2 DEF FirstDifference
<1> QED
  BY <1>3 DEF Higher, UnsignedHigher

\* No name is higher than itself.
LEMMA NotHigherThanItself ==
  ASSUME NEW a \in Name
  PROVE  ~UnsignedHigher(a, a, 0)
<1> SUFFICES ASSUME NEW i \in 1 .. Longer(a, a), Ordinal(a, i, 0) > Ordinal(a, i, 0)
             PROVE  FALSE
  BY DEF UnsignedHigher
<1>1. Len(a) \in Nat /\ a \in [1 .. Len(a) -> Octet] /\ i \in Nat \ {0}
  BY NameFacts, LongerSymmetric
<1>2. Ordinal(a, i, 0) \in Int
  <2>1. CASE i <= Len(a)
    <3>1. a[i] \in Octet
      BY <1>1, <2>1
    <3>2. a[i] \in 0 .. 255
      BY <3>1, ElectionAssumption
    <3>3. Ordinal(a, i, 0) = a[i]
      BY <2>1 DEF Ordinal
    <3> QED
      BY <3>2, <3>3
  <2>2. CASE ~(i <= Len(a))
    BY <2>2 DEF Ordinal
  <2> QED
    BY <2>1, <2>2
<1> QED
  BY <1>2

\* Whatever the octets a name lacks are taken for, it is zeros the code is like: a
\* node wins just when its name is the higher one of the names filled with zeros.
ZeroFilledOrder ==
  \A n \in Node : result[n] # "none" =>
    (result[n] = "win" <=> UnsignedHigher(name[n], name[Other(n)], 0))

LEMMA ConcludedZeroFilled ==
  ASSUME Comparable, TypeOK, Concluded
  PROVE  ZeroFilledOrder
<1> SUFFICES ASSUME NEW n \in Node, result[n] # "none"
             PROVE  result[n] = "win" <=> UnsignedHigher(name[n], name[Other(n)], 0)
  BY DEF ZeroFilledOrder
<1>1. name[n] \in Name /\ name[Other(n)] \in Name
  BY DEF TypeOK, Node, Other
<1>2. result[n] = Elect(name[n], name[Other(n)])
  BY DEF Concluded
<1>3. CASE name[n] = name[Other(n)]
  BY <1>1, <1>2, <1>3, NotHigherThanItself DEF Elect
<1>4. CASE name[n] # name[Other(n)]
  <2>1. Higher(name[n], name[Other(n)]) <=> UnsignedHigher(name[n], name[Other(n)], 0)
    BY <1>1, SameOrder
  <2> QED
    BY <1>2, <1>4, <2>1 DEF Elect
<1> QED
  BY <1>3, <1>4

\* Elect() elects by the order its comment quotes from the protocol, an
\* unsigned comparison, wherever the comment's two words on what follows
\* the shorter name, zeros and 0x80, agree; for names of any length
\* over the octets of host names, with signed and with unsigned chars.
THEOREM AlwaysUnsignedOrder ==
  ASSUME Comparable
  PROVE  Spec => []UnsignedOrder
<1>1. TypeOK /\ Concluded => UnsignedOrder
  BY ConcludedZeroFilled DEF ZeroFilledOrder, UnsignedOrder
<1> QED
  BY <1>1, SpecConcluded, PTL

\* Where they do not agree the code follows the zeros: a name that the other one begins
\* with loses, although 0x80, above any octet of a host name, would make it win.
BeginsWith(b, a) == Len(a) < Len(b) /\ \A i \in 1 .. Len(a) : a[i] = b[i]
PrefixLoses ==
  \A n \in Node : BeginsWith(name[Other(n)], name[n]) => result[n] \in {"none", "lose"}

\* Of names filled with 0x80 the prefix is the higher; filled with zeros it is not.
LEMMA PrefixOrder ==
  ASSUME Comparable, \A o \in Octet : o < 128,
         NEW a \in Name, NEW b \in Name, BeginsWith(b, a)
  PROVE  UnsignedHigher(a, b, 128) /\ ~UnsignedHigher(a, b, 0)
<1>1. /\ Len(a) \in Nat /\ a \in [1 .. Len(a) -> Octet]
      /\ Len(b) \in Nat /\ b \in [1 .. Len(b) -> Octet]
  BY NameFacts
<1>2. Len(a) < Len(b) /\ Longer(a, b) = Len(b)
  <2>1. Len(a) < Len(b)
    BY DEF BeginsWith
  <2>2. Len(a) \in Nat /\ Len(b) \in Nat
    BY <1>1
  <2> QED
    BY <2>1, <2>2 DEF Longer
<1>3. Len(a) + 1 \in 1 .. Len(b)
  BY <1>1, <1>2
<1>4. ASSUME NEW i \in 1 .. Len(b)
      PROVE  b[i] \in Int /\ 0 < b[i] /\ b[i] < 128
  <2>1. b[i] \in Octet
    BY <1>1
  <2>2. ASSUME NEW o \in Octet
        PROVE  o \in Int /\ 0 < o /\ o < 128
    <3>1. o \in 0 .. 255 /\ o > 8
      BY ElectionAssumption DEF Comparable, Pad
    <3>2. o < 128
      OBVIOUS
    <3> QED
      BY <3>1, <3>2
  <2> QED
    BY <2>1, <2>2
<1>5. ASSUME NEW i \in 1 .. Len(b), i <= Len(a)
      PROVE  Ordinal(a, i, 0) = Ordinal(b, i, 0) /\ Ordinal(a, i, 128) = Ordinal(b, i, 128)
  BY <1>1, <1>2, <1>5 DEF Ordinal, BeginsWith
<1>6. UnsignedHigher(a, b, 128)
  <2>1. Ordinal(a, Len(a) + 1, 128) = 128 /\ Ordinal(b, Len(a) + 1, 128) = b[Len(a) + 1]
    BY <1>1, <1>2, <1>3 DEF Ordinal
  <2>2. ASSUME NEW j \in 1 .. (Len(a) + 1) - 1
        PROVE  Ordinal(a, j, 128) = Ordinal(b, j, 128)
    <3>1. j \in 1 .. Len(b) /\ j <= Len(a)
      BY <1>1, <1>2
    <3> QED
      BY <1>5, <3>1
  <2>3. Ordinal(a, Len(a) + 1, 128) > Ordinal(b, Len(a) + 1, 128)
    BY <1>3, <1>4, <2>1
  <2> QED
    BY <1>2, <1>3, <2>2, <2>3 DEF UnsignedHigher
<1>7. ASSUME NEW i \in 1 .. Longer(a, b), Ordinal(a, i, 0) > Ordinal(b, i, 0)
      PROVE  FALSE
  <2>0. i \in 1 .. Len(b) /\ i \in Nat
    BY <1>1, <1>2
  <2>1. Ordinal(b, i, 0) = b[i]
    BY <2>0 DEF Ordinal
  <2>2. CASE i <= Len(a)
    BY <1>4, <1>5, <1>7, <2>0, <2>1, <2>2
  <2>3. CASE ~(i <= Len(a))
    <3>1. Ordinal(a, i, 0) = 0
      BY <2>3 DEF Ordinal
    <3> QED
      BY <1>4, <1>7, <2>0, <2>1, <3>1
  <2> QED
    BY <2>2, <2>3
<1> QED
  BY <1>6, <1>7 DEF UnsignedHigher

\* Elect() makes the prefix lose, between names of any length.
THEOREM AlwaysPrefixLoses ==
  ASSUME Comparable, \A o \in Octet : o < 128
  PROVE  Spec => []PrefixLoses
<1>1. TypeOK /\ Concluded => PrefixLoses
  <2> SUFFICES ASSUME TypeOK, Concluded, NEW n \in Node,
                      BeginsWith(name[Other(n)], name[n]), result[n] # "none"
               PROVE  result[n] = "lose"
    BY DEF PrefixLoses
  <2>1. name[n] \in Name /\ name[Other(n)] \in Name
    BY DEF TypeOK, Node, Other
  <2>2. ~UnsignedHigher(name[n], name[Other(n)], 0)
    BY <2>1, PrefixOrder
  <2>3. result[n] # "win"
    BY <2>2, ConcludedZeroFilled DEF ZeroFilledOrder
  <2>4. name[n] # name[Other(n)]
    BY <2>1, NameFacts DEF BeginsWith
  <2>5. result[n] = Elect(name[n], name[Other(n)])
    BY DEF Concluded
  <2> QED
    BY <2>3, <2>4, <2>5 DEF Elect
<1> QED
  BY <1>1, SpecConcluded, PTL
============================================================================
