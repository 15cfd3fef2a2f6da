-------------------------- MODULE SessionDbProofs --------------------------
(***************************************************************************)
(* Theorems about SessionDb, for every finite set of ids that the          *)
(* comparisons of the nodes put in order (Ordered): of ids without an      *)
(* optional value, any (PlainOrdered).                                     *)
(*                                                                         *)
(* The invariant is DbInv: where the operation is, and what that says of   *)
(* the tree.  A tree is a search tree if each node has bounds (Sorted)     *)
(* that its children take over; it is level if each node has a black       *)
(* height (Heights).  Neither is recursive: a rotation, a new node, a node *)
(* less or renamed changes bounds and heights of the nodes at hand and of  *)
(* no others.  All this is proved for one side; the other is the mirror.   *)
(***************************************************************************)
EXTENDS SessionDb, FiniteSetTheorems, WellFoundedInduction, TLAPS
----------------------------------------------------------------------------
(* The shape of a search tree, and rotations.                              *)

\* A node: an id, or the sentinel.
Node == Id \cup {Nil}

\* lt[b], the ids before b, is a strict order of all the ids.
Order(lt) ==
  /\ lt \in [Id -> SUBSET Id]
  /\ \A a \in Id : a \notin lt[a]
  /\ \A a, b, c \in Id : a \in lt[b] /\ b \in lt[c] => a \in lt[c]
  /\ \A a, b \in Id : a = b \/ a \in lt[b] \/ b \in lt[a]

\* Near and far links N and F and parents P of a tree of the nodes U below r: where a
\* node is linked, its parent says so, and the other way round.
Linked(N, F, P, r, U) ==
  /\ U \subseteq Id
  /\ N \in [Node -> Node] /\ F \in [Node -> Node] /\ P \in [Node -> Id \cup {Null}]
  /\ (r \in U /\ P[r] = Null) \/ (r = Nil /\ U = {})
  /\ \A n \in U : N[n] # Nil => N[n] \in U /\ P[N[n]] = n
  /\ \A n \in U : F[n] # Nil => F[n] \in U /\ P[F[n]] = n
  /\ \A n \in U : n # r => P[n] \in U /\ (n = N[P[n]] \/ n = F[P[n]])

\* The id u is between lo[n] and hi[n], the bounds of what may be below the node n.
InSpan(lt, lo, hi, n, u) ==
  /\ lo[n] = Null \/ lo[n] \in lt[u]
  /\ hi[n] = Null \/ u \in lt[hi[n]]

\* Bounds are nodes further up, in order.
Bounded(lt, lo, hi, U) ==
  /\ lo \in [Id -> Id \cup {Null}] /\ hi \in [Id -> Id \cup {Null}]
  /\ \A n \in U : lo[n] # Null =>
       lo[n] \in U /\ lo[n] \in lt[n] /\ InSpan(lt, lo, hi, lo[n], n)
  /\ \A n \in U : hi[n] # Null =>
       hi[n] \in U /\ n \in lt[hi[n]] /\ InSpan(lt, lo, hi, hi[n], n)

\* A node hands its bounds on: itself to one side, its own to the other.
Handed(N, F, r, U, lo, hi) ==
  /\ r \in U => lo[r] = Null /\ hi[r] = Null
  /\ \A n \in U : N[n] # Nil => lo[N[n]] = lo[n] /\ hi[N[n]] = n
  /\ \A n \in U : F[n] # Nil => lo[F[n]] = n /\ hi[F[n]] = hi[n]

\* Whoever belongs below n is on a side where n has a child.
Reached(lt, N, F, U, lo, hi) ==
  \A n, u \in U : InSpan(lt, lo, hi, n, u) =>
    /\ u \in lt[n] => N[n] # Nil
    /\ n \in lt[u] => F[n] # Nil

\* Between n and a node u in its span lies the bound of u on that side.
Nested(lt, U, lo, hi) ==
  \A n, u \in U : InSpan(lt, lo, hi, n, u) =>
    /\ u \in lt[n] => hi[u] # Null /\ (hi[u] = n \/ hi[u] \in lt[n])
    /\ n \in lt[u] => lo[u] # Null /\ (lo[u] = n \/ n \in lt[lo[u]])

\* The shape of a search tree, with the bounds lo and hi as witnesses.
Sorted(lt, N, F, P, r, U, lo, hi) ==
  /\ Order(lt) /\ Linked(N, F, P, r, U)
  /\ Bounded(lt, lo, hi, U) /\ Handed(N, F, r, U, lo, hi)
  /\ Reached(lt, N, F, U, lo, hi) /\ Nested(lt, U, lo, hi)

\* The order the other way round.
Mirror(lt) == [b \in Id |-> {a \in Id : b \in lt[a]}]

\* A tree mirrored is sorted by the order mirrored: what is proved of one side holds
\* of the other.
LEMMA MirrorSorted ==
  ASSUME NEW lt, NEW N, NEW F, NEW P, NEW r, NEW U, NEW lo, NEW hi,
         Sorted(lt, N, F, P, r, U, lo, hi)
  PROVE  Sorted(Mirror(lt), F, N, P, r, U, hi, lo)
<1> DEFINE gt == Mirror(lt)
<1>0. /\ gt \in [Id -> SUBSET Id]
      /\ \A a, b \in Id : a \in gt[b] <=> b \in lt[a]
  BY DEF Mirror
<1>k. Order(lt) /\ Linked(N, F, P, r, U) /\ Bounded(lt, lo, hi, U)
  BY DEF Sorted
<1> HIDE DEF gt
<1>1. Order(gt)
  BY <1>0, <1>k DEF Order
<1>2. Linked(F, N, P, r, U)
  BY DEF Sorted, Linked
<1>3. ASSUME NEW n \in U, NEW u \in U
      PROVE  InSpan(gt, hi, lo, n, u) <=> InSpan(lt, lo, hi, n, u)
  <2>1. n \in Id /\ u \in Id /\ lo[n] \in Id \cup {Null} /\ hi[n] \in Id \cup {Null}
    BY <1>k DEF Bounded, Linked
  <2> QED
    BY <1>0, <2>1 DEF InSpan
<1>4. Bounded(gt, hi, lo, U)
  BY <1>0, <1>3, <1>k DEF Bounded, Linked
<1>5. Handed(F, N, r, U, hi, lo)
  BY DEF Sorted, Handed
<1>6. Reached(gt, F, N, U, hi, lo)
  BY <1>0, <1>3, <1>k DEF Sorted, Reached, Linked
<1>7. Nested(gt, U, hi, lo)
  BY <1>0, <1>3, <1>k DEF Sorted, Nested, Linked, Bounded
<1> QED
  BY <1>1, <1>2, <1>4, <1>5, <1>6, <1>7 DEF Sorted, gt

\* What a rotation at x does to the links: its far child y goes up, y's near child
\* to x.
Turned(N, F, P, r, x, N2, F2, P2, r2) ==
  LET y == F[x]  b == N[y]  p == P[x] IN
  /\ N2 = [n \in Node |-> IF n = y THEN x ELSE IF n = p /\ N[p] = x THEN y ELSE N[n]]
  /\ F2 = [n \in Node |-> IF n = x THEN b ELSE IF n = p /\ F[p] = x THEN y ELSE F[n]]
  /\ P2 = [n \in Node |-> IF n = x THEN y ELSE IF n = y THEN p
                          ELSE IF n = b /\ b # Nil THEN x ELSE P[n]]
  /\ r2 = IF x = r THEN y ELSE r

\* A node is not the child of another twice.
LEMMA ChildrenDiffer ==
  ASSUME NEW lt, NEW N, NEW F, NEW P, NEW r, NEW U, NEW lo, NEW hi,
         Sorted(lt, N, F, P, r, U, lo, hi), NEW n \in U, N[n] # Nil
  PROVE  N[n] # F[n]
<1>1. N[n] \in U /\ hi[N[n]] = n /\ n \in Id /\ n # Null /\ n \notin lt[n]
  BY SessionDbAssumption DEF Sorted, Linked, Handed, Order
<1>2. N[n] \in lt[n]
  BY <1>1 DEF Sorted, Bounded
<1> SUFFICES ASSUME N[n] = F[n] PROVE FALSE
  OBVIOUS
<1>3. lo[N[n]] = n /\ n \in lt[N[n]]
  BY <1>1 DEF Sorted, Handed, Bounded
<1> QED
  BY <1>1, <1>2, <1>3 DEF Sorted, Order, Linked

\* The nodes a rotation at x touches are different ones, and in place.
LEMMA TurnedAround ==
  ASSUME NEW lt, NEW N, NEW F, NEW P, NEW r, NEW U, NEW lo, NEW hi,
         Sorted(lt, N, F, P, r, U, lo, hi), NEW x \in U, F[x] # Nil
  PROVE  /\ F[x] \in U /\ F[x] # x /\ x \in lt[F[x]]
         /\ N[F[x]] \in U \cup {Nil} /\ N[F[x]] # x /\ N[F[x]] # F[x]
         /\ P[x] # x /\ P[x] # F[x] /\ P[F[x]] = x
         /\ x # r => P[x] \in U /\ N[P[x]] # F[P[x]]
         /\ x = r <=> P[x] = Null
         /\ N[F[x]] # Nil => P[N[F[x]]] = F[x] /\ N[F[x]] # P[x]
<1> USE SessionDbAssumption
<1>1. F[x] \in U /\ x \in Id /\ P[F[x]] = x /\ lo[F[x]] = x
  BY DEF Sorted, Linked, Handed
<1>2. x \in lt[F[x]]
  BY <1>1 DEF Sorted, Bounded
<1>3. F[x] # x
  BY <1>1, <1>2 DEF Sorted, Order
<1>4. N[F[x]] # Nil => N[F[x]] \in U /\ hi[N[F[x]]] = F[x] /\ lo[N[F[x]]] = x /\ P[N[F[x]]] = F[x]
  BY <1>1 DEF Sorted, Linked, Handed
<1>5. N[F[x]] # Nil => x \in lt[N[F[x]]] /\ N[F[x]] \in lt[F[x]]
  BY <1>1, <1>4 DEF Sorted, Bounded, Linked
<1>6. N[F[x]] # x /\ N[F[x]] # F[x]
  BY <1>1, <1>4, <1>5 DEF Sorted, Order, Linked
<1>7. ASSUME x # r PROVE P[x] \in U /\ N[P[x]] # F[P[x]] /\ P[x] # x /\ P[x] # F[x] /\ P[x] # Null
      /\ (N[F[x]] # Nil => N[F[x]] # P[x])
  <2>1. P[x] \in U /\ x \in {N[P[x]], F[P[x]]} /\ P[x] \in Id
    BY <1>7 DEF Sorted, Linked
  <2>2. x # Nil
    BY <1>1
  <2>3. CASE N[P[x]] = x
    <3>1. hi[x] = P[x] /\ x \in lt[P[x]] /\ lo[P[x]] = lo[x]
      BY <2>1, <2>2, <2>3, <1>1 DEF Sorted, Handed, Bounded
    <3>2. F[P[x]] # x
      BY <3>1, <2>1, <2>2, <1>1 DEF Sorted, Handed, Order, Bounded
    <3>3. hi[F[x]] = P[x]
      BY <3>1 DEF Sorted, Handed
    <3>4. F[x] \in lt[P[x]]
      BY <3>3, <1>1, <2>1 DEF Sorted, Bounded
    <3> QED
      BY <3>1, <3>2, <3>4, <2>1, <1>1, <1>4, <1>5, <2>3 DEF Sorted, Order
  <2>4. CASE F[P[x]] = x
    <3>1. lo[x] = P[x] /\ P[x] \in lt[x]
      BY <2>1, <2>2, <2>4, <1>1 DEF Sorted, Handed, Bounded
    <3>2. N[P[x]] # x
      BY <3>1, <2>1, <2>2, <1>1 DEF Sorted, Handed, Order, Bounded
    <3>3. P[x] \in lt[F[x]]
      BY <3>1, <1>1, <1>2, <2>1 DEF Sorted, Order, Linked
    <3> QED
      BY <3>1, <3>2, <3>3, <2>1, <1>1, <1>4, <1>5, <2>4 DEF Sorted, Order
  <2> QED
    BY <2>1, <2>3, <2>4
<1>8. x = r => P[x] = Null
  BY <1>1 DEF Sorted, Linked
<1>9. Null \notin U /\ Nil \notin U /\ Null # Nil
  BY DEF Sorted, Linked
<1> QED
  BY <1>1, <1>2, <1>3, <1>4, <1>6, <1>7, <1>8, <1>9

\* A rotation keeps the order of the tree and all its nodes.
LEMMA TurnedSorted ==
  ASSUME NEW lt, NEW N, NEW F, NEW P, NEW r, NEW U, NEW lo, NEW hi,
         Sorted(lt, N, F, P, r, U, lo, hi), NEW x \in U, F[x] # Nil,
         NEW N2, NEW F2, NEW P2, NEW r2, Turned(N, F, P, r, x, N2, F2, P2, r2)
  PROVE  \E lo2, hi2 : Sorted(lt, N2, F2, P2, r2, U, lo2, hi2)
<1> DEFINE y == F[x]
           b == N[y]
           p == P[x]
           lo2 == [lo EXCEPT ![y] = lo[x]]
           hi2 == [hi EXCEPT ![x] = y]
<1> USE SessionDbAssumption
<1>a. /\ y \in U /\ y # x /\ x \in lt[y] /\ b \in U \cup {Nil} /\ b # x /\ b # y
      /\ p # x /\ p # y /\ (x # r => p \in U /\ N[p] # F[p]) /\ (x = r <=> p = Null)
      /\ (b # Nil => P[b] = y /\ b # p) /\ P[y] = x
  BY TurnedAround
<1>u. U \subseteq Id /\ Null \notin Node /\ Nil \notin U /\ x \in Id /\ y \in Id
  BY <1>a DEF Sorted, Linked, Node
<1>o. Order(lt)
  BY DEF Sorted
<1>l. Linked(N, F, P, r, U)
  BY DEF Sorted
<1>b. Bounded(lt, lo, hi, U)
  BY DEF Sorted
<1>h. /\ Handed(N, F, r, U, lo, hi) /\ lo[y] = x /\ hi[y] = hi[x]
      /\ (b # Nil => lo[b] = x /\ hi[b] = y)
      /\ (x # r /\ N[p] = x => lo[x] = lo[p] /\ hi[x] = p)
      /\ (x # r /\ F[p] = x => lo[x] = p /\ hi[x] = hi[p])
  BY <1>a, <1>u DEF Sorted, Handed
<1>2. \A n \in Node : /\ N2[n] = IF n = y THEN x ELSE IF n = p /\ N[p] = x THEN y ELSE N[n]
                      /\ F2[n] = IF n = x THEN b ELSE IF n = p /\ F[p] = x THEN y ELSE F[n]
                      /\ P2[n] = IF n = x THEN y ELSE IF n = y THEN p
                                 ELSE IF n = b /\ b # Nil THEN x ELSE P[n]
  BY DEF Turned
<1>3. r2 = IF x = r THEN y ELSE r
  BY DEF Turned
<1>4. /\ N2 \in [Node -> Node] /\ F2 \in [Node -> Node] /\ P2 \in [Node -> Id \cup {Null}]
  BY <1>a, <1>u, <1>l DEF Turned, Linked, Node
<1>5. /\ lo2 \in [Id -> Id \cup {Null}] /\ hi2 \in [Id -> Id \cup {Null}]
      /\ \A n \in Id : /\ lo2[n] = IF n = y THEN lo[x] ELSE lo[n]
                       /\ hi2[n] = IF n = x THEN y ELSE hi[n]
  BY <1>u, <1>b DEF Bounded
<1> HIDE DEF y, b, p, lo2, hi2
<1>6. Linked(N2, F2, P2, r2, U)
  <2>1. U \subseteq Id /\ ((r2 \in U /\ P2[r2] = Null) \/ (r2 = Nil /\ U = {}))
    BY <1>2, <1>3, <1>a, <1>l, <1>u DEF Linked, Node, p, b, y
  <2>d. N[x] # y /\ (b # Nil => F[y] # b)
    BY <1>a, <1>l, <1>u, ChildrenDiffer DEF Linked, b, y
  <2>2. ASSUME NEW n \in U, N2[n] # Nil PROVE N2[n] \in U /\ P2[N2[n]] = n
    BY <1>2, <2>d, <1>a, <1>l, <1>u, <2>2 DEF Linked, Node, p, b, y
  <2>3. ASSUME NEW n \in U, F2[n] # Nil PROVE F2[n] \in U /\ P2[F2[n]] = n
    BY <1>2, <2>d, <1>a, <1>l, <1>u, <2>3 DEF Linked, Node, p, b, y
  <2>4. ASSUME NEW n \in U, n # r2 PROVE P2[n] \in U /\ (n = N2[P2[n]] \/ n = F2[P2[n]])
    BY <1>2, <1>3, <1>a, <1>l, <1>u, <2>4 DEF Linked, Node, p, b, y
  <2> QED
    BY <1>4, <2>1, <2>2, <2>3, <2>4 DEF Linked
<1>7. ASSUME NEW n \in U, NEW u \in U
      PROVE  InSpan(lt, lo2, hi2, n, u) <=>
               IF n = x THEN InSpan(lt, lo, hi, x, u) /\ u \in lt[y]
               ELSE IF n = y THEN InSpan(lt, lo, hi, x, u)
               ELSE InSpan(lt, lo, hi, n, u)
  <2>1. CASE n = x
    <3>1. hi[x] = Null \/ (hi[x] \in Id /\ y \in lt[hi[x]])
      BY <1>h, <1>b, <1>a, <1>u DEF Bounded
    <3> QED
      BY <3>1, <2>1, <1>a, <1>5, <1>u, <1>o DEF InSpan, Order
  <2>2. CASE n = y
    BY <2>2, <1>h, <1>5, <1>u, <1>a DEF InSpan
  <2>3. CASE n # x /\ n # y
    BY <2>3, <1>5, <1>u DEF InSpan
  <2> QED
    BY <1>a, <2>1, <2>2, <2>3
<1>w. ASSUME NEW u \in U, InSpan(lt, lo, hi, x, u), x \in lt[u]
      PROVE  InSpan(lt, lo, hi, y, u)
  BY <1>w, <1>h DEF InSpan
<1>8. Handed(N2, F2, r2, U, lo2, hi2)
  BY <1>2, <1>3, <1>5, <1>h, <1>a, <1>l, <1>u DEF Linked, Handed, Node, y, b, p
<1>9. Reached(lt, N2, F2, U, lo2, hi2)
  <2> SUFFICES ASSUME NEW n \in U, NEW u \in U, InSpan(lt, lo2, hi2, n, u)
               PROVE  (u \in lt[n] => N2[n] # Nil) /\ (n \in lt[u] => F2[n] # Nil)
    BY DEF Reached
  <2>r. \A m \in U : InSpan(lt, lo, hi, m, u) => (u \in lt[m] => N[m] # Nil) /\ (m \in lt[u] => F[m] # Nil)
    BY DEF Sorted, Reached
  <2>1. CASE n = x
    <3>1. InSpan(lt, lo, hi, x, u) /\ u \in lt[y]
      BY <2>1, <1>7
    <3>2. u \in lt[x] => N2[x] # Nil
      BY <3>1, <2>r, <1>2, <1>a, <1>u DEF Node
    <3>3. x \in lt[u] => F2[x] # Nil
      BY <3>1, <2>r, <1>2, <1>a, <1>u, <1>w DEF Node, b
    <3> QED
      BY <3>2, <3>3, <2>1
  <2>2. CASE n = y
    <3>1. InSpan(lt, lo, hi, x, u)
      BY <2>2, <1>7, <1>a
    <3>2. N2[y] # Nil
      BY <1>2, <1>a, <1>u DEF Node
    <3>3. y \in lt[u] => x \in lt[u]
      BY <1>a, <1>u, <1>o DEF Order
    <3>4. y \in lt[u] => F2[y] # Nil
      BY <3>1, <3>3, <2>r, <1>2, <1>a, <1>u, <1>w DEF Node
    <3> QED
      BY <3>2, <3>4, <2>2
  <2>3. CASE n # x /\ n # y
    BY <2>3, <1>7, <2>r, <1>2, <1>a, <1>u DEF Node
  <2> QED
    BY <2>1, <2>2, <2>3
<1>10. Nested(lt, U, lo2, hi2)
  <2> SUFFICES ASSUME NEW n \in U, NEW u \in U, InSpan(lt, lo2, hi2, n, u)
               PROVE  /\ u \in lt[n] => hi2[u] # Null /\ (hi2[u] = n \/ hi2[u] \in lt[n])
                      /\ n \in lt[u] => lo2[u] # Null /\ (lo2[u] = n \/ n \in lt[lo2[u]])
    BY DEF Nested
  <2>r. \A m \in U, v \in U : InSpan(lt, lo, hi, m, v) =>
          /\ v \in lt[m] => hi[v] # Null /\ (hi[v] = m \/ hi[v] \in lt[m])
          /\ m \in lt[v] => lo[v] # Null /\ (lo[v] = m \/ m \in lt[lo[v]])
    BY DEF Sorted, Nested
  <2>t. n \in Id /\ u \in Id /\ lo[u] \in Id \cup {Null} /\ hi[u] \in Id \cup {Null}
        /\ lo[x] \in Id \cup {Null} /\ hi[x] \in Id \cup {Null}
    BY <1>u, <1>b DEF Bounded
  <2>1. CASE n = x
    <3>1. InSpan(lt, lo, hi, x, u) /\ u \in lt[y]
      BY <2>1, <1>7
    <3>2. u # x => hi2[u] = hi[u]
      BY <1>5, <2>t
    <3>3. u # y /\ lo2[u] = lo[u]
      BY <3>1, <1>o, <1>5, <2>t DEF Order
    <3> QED
      BY <3>1, <3>2, <3>3, <2>r, <2>1, <2>t, <1>o DEF Order
  <2>2. CASE n = y
    <3>1. InSpan(lt, lo, hi, x, u)
      BY <2>2, <1>7, <1>a
    <3>2. CASE u = x
      BY <3>2, <2>2, <1>5, <1>a, <1>o, <1>u DEF Order
    <3>3. CASE u \in lt[x]
      <4>1. hi[u] # Null /\ (hi[u] = x \/ hi[u] \in lt[x]) /\ u # x /\ u # y
        BY <3>3, <3>1, <2>r, <1>a, <1>o, <1>u DEF Order
      <4>2. hi2[u] \in lt[y] /\ hi2[u] = hi[u]
        BY <4>1, <1>5, <2>t, <1>a, <1>o, <1>u DEF Order
      <4>3. y \notin lt[u]
        BY <3>3, <1>a, <1>o, <1>u DEF Order
      <4> QED
        BY <4>1, <4>2, <4>3, <2>2
    <3>4. CASE x \in lt[u]
      <4>1. InSpan(lt, lo, hi, y, u)
        BY <3>1, <3>4, <1>w
      <4>2. u # x /\ hi2[u] = hi[u] /\ (u # y => lo2[u] = lo[u])
        BY <3>4, <1>5, <1>o, <2>t DEF Order
      <4> QED
        BY <4>1, <4>2, <2>r, <2>2, <1>a, <1>o, <1>u DEF Order
    <3> QED
      BY <3>2, <3>3, <3>4, <1>o, <2>t, <1>u DEF Order
  <2>3. CASE n # x /\ n # y
    <3>1. InSpan(lt, lo, hi, n, u)
      BY <2>3, <1>7
    <3>2. CASE u = x
      <4>1. n \in lt[x] => lo2[x] = lo[x]
        BY <1>5, <1>u, <1>a
      <4>2. x \in lt[n] => y = n \/ y \in lt[n]
        <5> SUFFICES ASSUME x \in lt[n] PROVE y \in lt[n]
          OBVIOUS
        <5>1. hi[x] # Null /\ (hi[x] = n \/ hi[x] \in lt[n])
          BY <3>1, <3>2, <2>r
        <5>2. hi[y] = hi[x] /\ y \in lt[hi[x]]
          BY <5>1, <1>h, <1>b, <1>a DEF Bounded
        <5> QED
          BY <5>1, <5>2, <1>o, <1>u, <2>t DEF Order
      <4> QED
        BY <4>1, <4>2, <3>1, <3>2, <2>r, <1>5, <1>u, <1>a
    <3>3. CASE u = y
      <4>1. y \in lt[n] => hi2[y] = hi[y]
        BY <1>5, <1>u, <1>a
      <4>2. n \in lt[y] => lo[x] # Null /\ (lo[x] = n \/ n \in lt[lo[x]])
        <5> SUFFICES ASSUME n \in lt[y]
                     PROVE lo[x] # Null /\ (lo[x] = n \/ n \in lt[lo[x]])
          OBVIOUS
        <5>1. x = n \/ n \in lt[x]
          BY <3>1, <3>3, <2>r, <1>h
        <5>2. n \in lt[x] /\ (lo[n] = Null \/ lo[n] \in lt[n])
          BY <5>1, <2>3, <1>b DEF Bounded
        <5>3. InSpan(lt, lo, hi, n, x)
          <6>1. hi[n] = Null \/ (hi[n] \in Id /\ y \in lt[hi[n]])
            BY <3>1, <3>3, <1>b, <1>u DEF InSpan, Bounded
          <6>2. lo[n] \in Id \cup {Null} /\ n \in Id
            BY <1>b, <1>u DEF Bounded
          <6> QED
            BY <6>1, <6>2, <5>2, <1>o, <1>a, <1>u DEF Order, InSpan
        <5> QED
          BY <5>2, <5>3, <2>r
      <4> QED
        BY <4>1, <4>2, <3>1, <3>3, <2>r, <1>5, <1>u, <1>a
    <3>4. CASE u # x /\ u # y
      BY <3>1, <3>4, <2>r, <1>5, <2>t
    <3> QED
      BY <3>2, <3>3, <3>4
  <2> QED
    BY <2>1, <2>2, <2>3
<1>11. Bounded(lt, lo2, hi2, U)
  <2>1. ASSUME NEW n \in U, lo2[n] # Null
        PROVE  lo2[n] \in U /\ lo2[n] \in lt[n] /\ InSpan(lt, lo2, hi2, lo2[n], n)
    <3>t. n \in Id
      BY <1>u
    <3>1. CASE n = y
      <4>1. lo2[n] = lo[x] /\ lo[x] \in U /\ lo[x] \in lt[x] /\ InSpan(lt, lo, hi, lo[x], x)
        BY <2>1, <3>1, <1>5, <1>b, <1>u DEF Bounded
      <4>2. lo[x] # x /\ lo[x] # y /\ lo[x] \in lt[y]
        BY <4>1, <1>o, <1>a, <1>u DEF Order
      <4>3. hi[lo[x]] = Null \/ (hi[lo[x]] \in Id /\ y \in lt[hi[lo[x]]])
        <5> SUFFICES ASSUME hi[lo[x]] # Null PROVE hi[lo[x]] \in Id /\ y \in lt[hi[lo[x]]]
          OBVIOUS
        <5>1. hi[x] = hi[y] /\ hi[lo[x]] \in U /\ x \in lt[hi[lo[x]]] /\ lo[x] \in lt[hi[lo[x]]] /\ hi[lo[x]] \in Id
          BY <4>1, <1>h, <1>b, <1>u DEF Bounded, InSpan
        <5>2. hi[lo[x]] = y \/ y \in lt[hi[lo[x]]] \/ hi[lo[x]] \in lt[y]
          BY <5>1, <1>o, <1>u DEF Order
        <5>3. InSpan(lt, lo, hi, lo[x], x) /\ InSpan(lt, lo, hi, hi[lo[x]], lo[x])
          BY <4>1, <1>b DEF Bounded
        <5>4. InSpan(lt, lo, hi, hi[lo[x]], x)
          <6>1. lo[hi[lo[x]]] = Null \/ lo[hi[lo[x]]] \in lt[x]
            BY <5>1, <5>3, <4>1, <1>o, <1>b, <1>u DEF InSpan, Order, Bounded
          <6>2. hi[hi[lo[x]]] = Null \/ x \in lt[hi[hi[lo[x]]]]
            BY <5>1, <4>1, <1>o, <1>b, <1>u DEF InSpan, Order, Bounded
          <6> QED
            BY <6>1, <6>2 DEF InSpan
        <5>5. hi[x] # Null /\ (hi[x] = hi[lo[x]] \/ hi[x] \in lt[hi[lo[x]]])
          BY <5>1, <5>4 DEF Sorted, Nested
        <5>6. hi[y] \in Id /\ y \in lt[hi[y]]
          BY <5>1, <5>5, <1>a, <1>b, <1>u DEF Bounded
        <5> QED
          BY <5>1, <5>5, <5>6, <1>o, <1>u DEF Order
      <4>4. InSpan(lt, lo, hi, lo[x], y)
        <5>1. lo[lo[x]] = Null \/ (lo[lo[x]] \in Id /\ lo[lo[x]] \in lt[lo[x]])
          BY <4>1, <1>b, <1>u DEF Bounded
        <5> QED
          BY <4>1, <4>2, <4>3, <5>1, <1>o, <1>u DEF InSpan, Order
      <4> QED
        BY <4>1, <4>2, <4>4, <3>1, <1>7
    <3>2. CASE n # y
      <4>1. lo2[n] = lo[n] /\ lo[n] \in U /\ lo[n] \in lt[n] /\ InSpan(lt, lo, hi, lo[n], n) /\ lo[n] \in Id
        BY <2>1, <3>2, <3>t, <1>5, <1>b, <1>u DEF Bounded
      <4>2. CASE lo[n] # x /\ lo[n] # y
        BY <4>1, <4>2, <1>7
      <4>3. CASE lo[n] = x
        <5>1. n \in lt[y]
          <6> SUFFICES ASSUME y \in lt[n] PROVE FALSE
            BY <3>2, <3>t, <1>o, <1>u DEF Order
          <6>1. InSpan(lt, lo, hi, y, n)
            BY <4>1, <4>3, <1>w
          <6>2. lo[n] # Null /\ (lo[n] = y \/ y \in lt[lo[n]])
            BY <6>1, <1>a DEF Sorted, Nested
          <6> QED
            BY <6>2, <4>3, <1>a, <1>o, <1>u DEF Order
        <5> QED
          BY <5>1, <4>1, <4>3, <1>7
      <4>4. CASE lo[n] = y
        <5>1. x \in lt[n] /\ InSpan(lt, lo, hi, y, n) /\ y \in lt[n]
          BY <4>1, <4>4, <1>a, <1>o, <1>u, <3>t DEF Order
        <5>2. lo[x] = Null \/ (lo[x] \in Id /\ lo[x] \in lt[x])
          BY <1>b, <1>u DEF Bounded
        <5>3. InSpan(lt, lo, hi, x, n)
          BY <5>1, <5>2, <1>h, <1>o, <1>u, <3>t DEF InSpan, Order
        <5> QED
          BY <5>3, <4>1, <4>4, <1>7, <1>a
      <4> QED
        BY <4>2, <4>3, <4>4
    <3> QED
      BY <3>1, <3>2
  <2>2. ASSUME NEW n \in U, hi2[n] # Null
        PROVE  hi2[n] \in U /\ n \in lt[hi2[n]] /\ InSpan(lt, lo2, hi2, hi2[n], n)
    <3>t. n \in Id
      BY <1>u
    <3>s. InSpan(lt, lo, hi, x, x)
      BY <1>b DEF Bounded, InSpan
    <3>1. CASE n = x
      BY <3>1, <3>s, <1>5, <1>7, <1>a, <1>u
    <3>2. CASE n # x
      <4>1. hi2[n] = hi[n] /\ hi[n] \in U /\ n \in lt[hi[n]] /\ InSpan(lt, lo, hi, hi[n], n) /\ hi[n] \in Id
        BY <2>2, <3>2, <3>t, <1>5, <1>b, <1>u DEF Bounded
      <4>2. CASE hi[n] # x /\ hi[n] # y
        BY <4>1, <4>2, <1>7
      <4>3. CASE hi[n] = x
        <5>1. n \in lt[y]
          BY <4>1, <4>3, <1>a, <1>o, <1>u, <3>t DEF Order
        <5> QED
          BY <5>1, <4>1, <4>3, <1>7
      <4>4. CASE hi[n] = y
        <5>1. x \in lt[n]
          BY <4>1, <4>4, <1>h, <1>u DEF InSpan
        <5>2. lo[x] = Null \/ (lo[x] \in Id /\ lo[x] \in lt[x])
          BY <1>b, <1>u DEF Bounded
        <5>3. InSpan(lt, lo, hi, x, n)
          BY <5>1, <5>2, <4>1, <4>4, <1>h, <1>o, <1>u, <3>t DEF InSpan, Order
        <5> QED
          BY <5>3, <4>1, <4>4, <1>7, <1>a
      <4> QED
        BY <4>2, <4>3, <4>4
    <3> QED
      BY <3>1, <3>2
  <2> QED
    BY <1>5, <2>1, <2>2 DEF Bounded
<1> QED
  BY <1>o, <1>6, <1>8, <1>9, <1>10, <1>11 DEF Sorted
----------------------------------------------------------------------------
(* The rotations of the module, as operations on links.                    *)

\* The tree of these links and colours.
TreeOf(r, L, R, P, B) == [root |-> r, left |-> L, right |-> R, parent |-> P, black |-> B]

\* Links and colours of the right types.
Balls(L, R, P, B) ==
  /\ L \in [Node -> Node] /\ R \in [Node -> Node] /\ P \in [Node -> Id \cup {Null}]
  /\ B \in [Node -> BOOLEAN]

\* f, with v for k.
With(f, k, v) == [f EXCEPT ![k] = v]

\* HangLeft and HangRight on a tree in parts.
LEMMA HangLeftIs ==
  ASSUME NEW r, NEW L, NEW R, NEW P, NEW B, NEW x, NEW b
  PROVE  HangLeft(TreeOf(r, L, R, P, B), x, b) =
           TreeOf(r, With(L, x, b), R, With(P, b, IF b # Nil THEN x ELSE P[b]), B)
<1> DEFINE t == TreeOf(r, L, R, P, B)
<1>1. HangLeft(t, x, b) = [[t EXCEPT !.left[x] = b] EXCEPT !.parent[b] = IF b # Nil THEN x ELSE t.parent[b]]
  <2> HIDE DEF t
  <2> QED
    BY DEF HangLeft
<1>2. [t EXCEPT !.left[x] = b] = TreeOf(r, With(L, x, b), R, P, B)
  BY DEF TreeOf, With
<1>3. t.parent = P
  BY DEF TreeOf
<1> HIDE DEF t
<1>4. [TreeOf(r, With(L, x, b), R, P, B) EXCEPT !.parent[b] = IF b # Nil THEN x ELSE t.parent[b]]
       = TreeOf(r, With(L, x, b), R, With(P, b, IF b # Nil THEN x ELSE P[b]), B)
  BY <1>3 DEF TreeOf, With
<1> QED
  BY <1>1, <1>2, <1>4 DEF t

LEMMA HangRightIs ==
  ASSUME NEW r, NEW L, NEW R, NEW P, NEW B, NEW x, NEW b
  PROVE  HangRight(TreeOf(r, L, R, P, B), x, b) =
           TreeOf(r, L, With(R, x, b), With(P, b, IF b # Nil THEN x ELSE P[b]), B)
<1> DEFINE t == TreeOf(r, L, R, P, B)
<1>1. HangRight(t, x, b) = [[t EXCEPT !.right[x] = b] EXCEPT !.parent[b] = IF b # Nil THEN x ELSE t.parent[b]]
  <2> HIDE DEF t
  <2> QED
    BY DEF HangRight
<1>2. [t EXCEPT !.right[x] = b] = TreeOf(r, L, With(R, x, b), P, B)
  BY DEF TreeOf, With
<1>3. t.parent = P
  BY DEF TreeOf
<1> HIDE DEF t
<1>4. [TreeOf(r, L, With(R, x, b), P, B) EXCEPT !.parent[b] = IF b # Nil THEN x ELSE t.parent[b]]
       = TreeOf(r, L, With(R, x, b), With(P, b, IF b # Nil THEN x ELSE P[b]), B)
  BY <1>3 DEF TreeOf, With
<1> QED
  BY <1>1, <1>2, <1>4 DEF t

\* Raised, and Replaced in its three cases, on a tree in parts.
LEMMA RaisedPrepared ==
  ASSUME NEW r, NEW L, NEW R, NEW P, NEW B, NEW x, NEW y, y # Nil
  PROVE  Raised(TreeOf(r, L, R, P, B), x, y) = Replaced(TreeOf(r, L, R, With(P, y, P[x]), B), x, y)
<1>1. [TreeOf(r, L, R, P, B) EXCEPT !.parent[y] = IF y # Nil THEN TreeOf(r, L, R, P, B).parent[x] ELSE @]
        = TreeOf(r, L, R, With(P, y, P[x]), B)
  BY DEF TreeOf, With
<1> QED
  BY <1>1 DEF Raised

LEMMA ReplacedRoot ==
  ASSUME NEW r, NEW L, NEW R, NEW P, NEW B, NEW x, NEW y, P[x] = Null
  PROVE  Replaced(TreeOf(r, L, R, P, B), x, y) = TreeOf(y, L, R, P, B)
  BY DEF Replaced, TreeOf, With

LEMMA ReplacedLeft ==
  ASSUME NEW r, NEW L, NEW R, NEW P, NEW B, NEW x, NEW y, P[x] # Null, x = L[P[x]]
  PROVE  Replaced(TreeOf(r, L, R, P, B), x, y) = TreeOf(r, With(L, P[x], y), R, P, B)
  BY DEF Replaced, TreeOf, With

LEMMA ReplacedRight ==
  ASSUME NEW r, NEW L, NEW R, NEW P, NEW B, NEW x, NEW y, P[x] # Null, x # L[P[x]]
  PROVE  Replaced(TreeOf(r, L, R, P, B), x, y) = TreeOf(r, L, With(R, P[x], y), P, B)
  BY DEF Replaced, TreeOf, With

\* RotateLeft and RotateRight do to the links what Turned says.
LEMMA RotateLeftIs ==
  ASSUME NEW r, NEW L, NEW R, NEW P, NEW B, Balls(L, R, P, B),
         NEW x \in Id, R[x] \in Id, R[x] # x, L[R[x]] # x, P[x] # x, P[x] # R[x],
         P[x] = Null <=> x = r,
         P[x] # Null => (x = L[P[x]] /\ x # R[P[x]]) \/ (x = R[P[x]] /\ x # L[P[x]])
  PROVE  \E L2, R2, P2, r2 :
            /\ Turned(L, R, P, r, x, L2, R2, P2, r2)
            /\ RotateLeft(TreeOf(r, L, R, P, B), x) = TreeOf(r2, L2, R2, P2, B)
<1> DEFINE t == TreeOf(r, L, R, P, B)
           y == R[x]
           b == L[y]
           R1 == With(R, x, b)
           P1 == With(P, b, IF b # Nil THEN x ELSE P[b])
           P3 == With(P1, y, P1[x])
           L4 == IF P[x] # Null /\ x = L[P[x]] THEN With(L, P[x], y) ELSE L
           R4 == IF P[x] # Null /\ x # L[P[x]] THEN With(R1, P[x], y) ELSE R1
           r4 == IF P[x] = Null THEN y ELSE r
           L5 == With(L4, y, x)
           P5 == With(P3, x, IF x # Nil THEN y ELSE P3[x])
<1>n. x # Nil /\ y # Nil /\ x \in Node /\ y \in Node /\ b \in Node /\ Null \notin Node
  BY SessionDbAssumption DEF Node, Balls
<1>f. t.left = L /\ t.right = R
  BY DEF TreeOf
<1>1. HangRight(t, x, b) = TreeOf(r, L, R1, P1, B)
  BY HangRightIs
<1>2. P1 \in [Node -> Id \cup {Null}] /\ P1[x] = P[x]
  BY <1>n DEF Balls, With
<1> HIDE DEF P1, R1
<1>3. Raised(TreeOf(r, L, R1, P1, B), x, y) = TreeOf(r4, L4, R4, P3, B)
  <2>0. Raised(TreeOf(r, L, R1, P1, B), x, y) = Replaced(TreeOf(r, L, R1, P3, B), x, y)
    BY <1>n, RaisedPrepared
  <2>p. P3[x] = P[x]
    BY <1>n, <1>2 DEF With
  <2> HIDE DEF P3
  <2>1. CASE P[x] = Null
    BY <2>0, <2>p, <2>1, <1>2, ReplacedRoot
  <2>2. CASE P[x] # Null /\ x = L[P[x]]
    BY <2>0, <2>p, <2>2, <1>2, ReplacedLeft
  <2>3. CASE P[x] # Null /\ x # L[P[x]]
    BY <2>0, <2>p, <2>3, <1>2, ReplacedRight
  <2> QED
    BY <2>1, <2>2, <2>3
<1>4. HangLeft(TreeOf(r4, L4, R4, P3, B), y, x) = TreeOf(r4, L5, R4, P5, B)
  <2> HIDE DEF L4, R4, P3, r4
  <2> QED
    BY HangLeftIs
<1>5. RotateLeft(t, x) = TreeOf(r4, L5, R4, P5, B)
  <2> HIDE DEF t, L4, R4, P3, r4, L5, P5
  <2>1. RotateLeft(t, x) = HangLeft(Raised(HangRight(t, x, b), x, y), y, x)
    BY <1>f DEF RotateLeft
  <2> QED
    BY <2>1, <1>1, <1>3, <1>4 DEF t
<1>6. Turned(L, R, P, r, x, L5, R4, P5, r4)
  <2>1. L5 = [n \in Node |-> IF n = y THEN x ELSE IF n = P[x] /\ L[P[x]] = x THEN y ELSE L[n]]
    BY <1>n DEF Balls, With
  <2>2. R4 = [n \in Node |-> IF n = x THEN b ELSE IF n = P[x] /\ R[P[x]] = x THEN y ELSE R[n]]
    BY <1>n DEF Balls, R1, With
  <2>3. P5 = [n \in Node |-> IF n = x THEN y ELSE IF n = y THEN P[x]
                          ELSE IF n = b /\ b # Nil THEN x ELSE P[n]]
    BY <1>n, <1>2 DEF Balls, P1, With
  <2> QED
    BY <2>1, <2>2, <2>3 DEF Turned
<1> QED
  BY <1>5, <1>6

LEMMA RotateRightIs ==
  ASSUME NEW r, NEW L, NEW R, NEW P, NEW B, Balls(L, R, P, B),
         NEW x \in Id, L[x] \in Id, L[x] # x, R[L[x]] # x, P[x] # x, P[x] # L[x],
         P[x] = Null <=> x = r,
         P[x] # Null => (x = L[P[x]] /\ x # R[P[x]]) \/ (x = R[P[x]] /\ x # L[P[x]])
  PROVE  \E L2, R2, P2, r2 :
            /\ Turned(R, L, P, r, x, R2, L2, P2, r2)
            /\ RotateRight(TreeOf(r, L, R, P, B), x) = TreeOf(r2, L2, R2, P2, B)
<1> DEFINE t == TreeOf(r, L, R, P, B)
           y == L[x]
           b == R[y]
           L1 == With(L, x, b)
           P1 == With(P, b, IF b # Nil THEN x ELSE P[b])
           P3 == With(P1, y, P1[x])
           L4 == IF P[x] # Null /\ x = L[P[x]] THEN With(L1, P[x], y) ELSE L1
           R4 == IF P[x] # Null /\ x # L[P[x]] THEN With(R, P[x], y) ELSE R
           r4 == IF P[x] = Null THEN y ELSE r
           R5 == With(R4, y, x)
           P5 == With(P3, x, IF x # Nil THEN y ELSE P3[x])
<1>n. x # Nil /\ y # Nil /\ x \in Node /\ y \in Node /\ b \in Node /\ Null \notin Node
  BY SessionDbAssumption DEF Node, Balls
<1>f. t.left = L /\ t.right = R
  BY DEF TreeOf
<1>1. HangLeft(t, x, b) = TreeOf(r, L1, R, P1, B)
  BY HangLeftIs
<1>2. P1 \in [Node -> Id \cup {Null}] /\ P1[x] = P[x] /\ (P[x] # Null => L1[P[x]] = L[P[x]])
  BY <1>n DEF Balls, Node, With
<1> HIDE DEF P1, L1
<1>3. Raised(TreeOf(r, L1, R, P1, B), x, y) = TreeOf(r4, L4, R4, P3, B)
  <2>0. Raised(TreeOf(r, L1, R, P1, B), x, y) = Replaced(TreeOf(r, L1, R, P3, B), x, y)
    BY <1>n, RaisedPrepared
  <2>p. P3[x] = P[x]
    BY <1>n, <1>2 DEF With
  <2> HIDE DEF P3
  <2>1. CASE P[x] = Null
    BY <2>0, <2>p, <2>1, <1>2, ReplacedRoot
  <2>2. CASE P[x] # Null /\ x = L[P[x]]
    BY <2>0, <2>p, <2>2, <1>2, ReplacedLeft
  <2>3. CASE P[x] # Null /\ x # L[P[x]]
    BY <2>0, <2>p, <2>3, <1>2, ReplacedRight
  <2> QED
    BY <2>1, <2>2, <2>3
<1>4. HangRight(TreeOf(r4, L4, R4, P3, B), y, x) = TreeOf(r4, L4, R5, P5, B)
  <2> HIDE DEF L4, R4, P3, r4
  <2> QED
    BY HangRightIs
<1>5. RotateRight(t, x) = TreeOf(r4, L4, R5, P5, B)
  <2> HIDE DEF t, L4, R4, P3, r4, R5, P5
  <2>1. RotateRight(t, x) = HangRight(Raised(HangLeft(t, x, b), x, y), y, x)
    BY <1>f DEF RotateRight
  <2> QED
    BY <2>1, <1>1, <1>3, <1>4 DEF t
<1>6. Turned(R, L, P, r, x, R5, L4, P5, r4)
  <2>1. R5 = [n \in Node |-> IF n = y THEN x ELSE IF n = P[x] /\ R[P[x]] = x THEN y ELSE R[n]]
    BY <1>n DEF Balls, With
  <2>2. L4 = [n \in Node |-> IF n = x THEN b ELSE IF n = P[x] /\ L[P[x]] = x THEN y ELSE L[n]]
    BY <1>n DEF Balls, L1, With
  <2>3. P5 = [n \in Node |-> IF n = x THEN y ELSE IF n = y THEN P[x]
                          ELSE IF n = b /\ b # Nil THEN x ELSE P[n]]
    BY <1>n, <1>2 DEF Balls, P1, With
  <2> QED
    BY <2>1, <2>2, <2>3 DEF Turned
<1> QED
  BY <1>5, <1>6
----------------------------------------------------------------------------
(* Trees as values, seen from the left or from the right.                  *)

\* The trees.
Trees == [root : Node, left : [Node -> Node], right : [Node -> Node],
          parent : [Node -> Id \cup {Null}], black : [Node -> BOOLEAN]]

\* The links of t seen from the left (l) or from the right.
Near(t, l) == IF l THEN t.left ELSE t.right
Far(t, l) == IF l THEN t.right ELSE t.left

\* The order the comparisons of two nodes give. A hypothesis of the theorems is that
\* it is one, and that two ids are the same only when they are equal.
LT == [b \in Id |-> {a \in Id : Less(a, b)}]
Ordered == Order(LT) /\ \A a, b \in Id : Same(a, b) <=> a = b

\* t is a search tree of the ids U.
Shaped(t, U) == \E lo, hi : Sorted(LT, t.left, t.right, t.parent, t.root, U, lo, hi)

\* u is t, rotated at x.
Turning(t, u, x, l) ==
  /\ Turned(Near(t, l), Far(t, l), t.parent, t.root, x, Near(u, l), Far(u, l), u.parent, u.root)
  /\ u.black = t.black

\* What the sides are.
LEMMA NearFar == ASSUME NEW t PROVE
  /\ Near(t, TRUE) = t.left /\ Far(t, TRUE) = t.right
  /\ Near(t, FALSE) = t.right /\ Far(t, FALSE) = t.left
BY DEF Near, Far

\* A search tree is sorted from either side.
LEMMA ShapeSeen ==
  ASSUME NEW t, NEW U, Shaped(t, U), NEW l \in BOOLEAN
  PROVE  \E lt, lo, hi : Sorted(lt, Near(t, l), Far(t, l), t.parent, t.root, U, lo, hi)
<1>1. PICK lo, hi : Sorted(LT, t.left, t.right, t.parent, t.root, U, lo, hi)
  BY DEF Shaped
<1>2. Sorted(Mirror(LT), t.right, t.left, t.parent, t.root, U, hi, lo)
  BY <1>1, MirrorSorted
<1>3. CASE l = TRUE
  BY <1>1, <1>3, NearFar, Zenon
<1>4. CASE l = FALSE
  BY <1>2, <1>4, NearFar, Zenon
<1> QED
  BY <1>3, <1>4

\* Mirroring twice changes nothing.
LEMMA MirrorTwice ==
  Mirror(Mirror(LT)) = LT
<1>1. \A b \in Id : LT[b] = {a \in Id : Less(a, b)}
  BY DEF LT
<1>2. \A b \in Id : Mirror(LT)[b] = {a \in Id : b \in LT[a]}
  BY DEF Mirror
<1>3. \A b \in Id : {a \in Id : b \in Mirror(LT)[a]} = {a \in Id : Less(a, b)}
  BY <1>1, <1>2
<1> QED
  BY <1>3 DEF Mirror, LT

\* A tree is made of its parts.
LEMMA TreeIs ==
  ASSUME NEW t \in Trees
  PROVE  t = TreeOf(t.root, t.left, t.right, t.parent, t.black)
BY DEF Trees, TreeOf

LEMMA TreeFields ==
  ASSUME NEW r, NEW L, NEW R, NEW P, NEW B
  PROVE  /\ TreeOf(r, L, R, P, B).root = r /\ TreeOf(r, L, R, P, B).left = L
         /\ TreeOf(r, L, R, P, B).right = R /\ TreeOf(r, L, R, P, B).parent = P
         /\ TreeOf(r, L, R, P, B).black = B
BY DEF TreeOf

LEMMA TreeTyped ==
  ASSUME NEW r \in Node, NEW L \in [Node -> Node], NEW R \in [Node -> Node],
         NEW P \in [Node -> Id \cup {Null}], NEW B \in [Node -> BOOLEAN]
  PROVE  TreeOf(r, L, R, P, B) \in Trees
BY DEF TreeOf, Trees

\* A rotation of a search tree is one of the same ids, with the same colours.
LEMMA RotateLeftTurns ==
  ASSUME NEW t \in Trees, NEW U, Shaped(t, U), NEW x \in U, t.right[x] # Nil
  PROVE  LET u == RotateLeft(t, x) IN
         /\ u \in Trees /\ Shaped(u, U) /\ u.black = t.black
         /\ Turned(t.left, t.right, t.parent, t.root, x, u.left, u.right, u.parent, u.root)
<1> DEFINE L == t.left  R == t.right  P == t.parent  B == t.black  r == t.root  u == RotateLeft(t, x)
<1>1. PICK lo, hi : Sorted(LT, L, R, P, r, U, lo, hi)
  BY DEF Shaped
<1>2. t = TreeOf(r, L, R, P, B)
  BY TreeIs
<1>b. r \in Node /\ Balls(L, R, P, B)
  BY DEF Trees, Balls
<1> HIDE DEF L, R, P, B, r
<1>3. U \subseteq Id /\ R[x] # Nil /\ P[x] \in Id \cup {Null}
  BY <1>1 DEF Sorted, Linked, R, Node
<1>4. /\ R[x] \in U /\ R[x] # x /\ L[R[x]] # x /\ P[x] # x /\ P[x] # R[x]
      /\ (x # r => P[x] \in U /\ L[P[x]] # R[P[x]]) /\ (P[x] = Null <=> x = r)
  BY <1>1, <1>3, TurnedAround
<1>5. x # r => x = L[P[x]] \/ x = R[P[x]]
  BY <1>1 DEF Sorted, Linked
<1>6. PICK L2, R2, P2, r2 : Turned(L, R, P, r, x, L2, R2, P2, r2)
                            /\ RotateLeft(TreeOf(r, L, R, P, B), x) = TreeOf(r2, L2, R2, P2, B)
  <2>1. x \in Id /\ R[x] \in Id /\ R[x] # x /\ L[R[x]] # x /\ P[x] # x /\ P[x] # R[x] /\ (P[x] = Null <=> x = r)
    BY <1>3, <1>4
  <2>2. P[x] # Null => (x = L[P[x]] /\ x # R[P[x]]) \/ (x = R[P[x]] /\ x # L[P[x]])
    BY <1>4, <1>5
  <2> QED
    BY ONLY <1>b, <2>1, <2>2, RotateLeftIs
<1>7. \E lo2, hi2 : Sorted(LT, L2, R2, P2, r2, U, lo2, hi2)
  BY <1>1, <1>3, <1>6, TurnedSorted
<1>8. u = TreeOf(r2, L2, R2, P2, B)
  BY <1>2, <1>6
<1>9. u.root = r2 /\ u.left = L2 /\ u.right = R2 /\ u.parent = P2 /\ u.black = B
  BY <1>8, TreeFields
<1>10. r2 \in Node /\ L2 \in [Node -> Node] /\ R2 \in [Node -> Node] /\ P2 \in [Node -> Id \cup {Null}]
  BY <1>7 DEF Sorted, Linked, Node
<1>11. u \in Trees
  BY <1>8, <1>10, <1>b, TreeTyped DEF Balls
<1> HIDE DEF u
<1> QED
  BY <1>6, <1>7, <1>9, <1>11 DEF Shaped, L, R, P, B, r, u

LEMMA RotateRightTurns ==
  ASSUME NEW t \in Trees, NEW U, Shaped(t, U), NEW x \in U, t.left[x] # Nil
  PROVE  LET u == RotateRight(t, x) IN
         /\ u \in Trees /\ Shaped(u, U) /\ u.black = t.black
         /\ Turned(t.right, t.left, t.parent, t.root, x, u.right, u.left, u.parent, u.root)
<1> DEFINE L == t.left  R == t.right  P == t.parent  B == t.black  r == t.root  u == RotateRight(t, x)
           gt == Mirror(LT)
<1>0. PICK lo, hi : Sorted(LT, L, R, P, r, U, lo, hi)
  BY DEF Shaped
<1>1. Sorted(gt, R, L, P, r, U, hi, lo)
  BY <1>0, MirrorSorted
<1>g. Mirror(gt) = LT
  BY MirrorTwice
<1>2. t = TreeOf(r, L, R, P, B)
  BY TreeIs
<1>b. r \in Node /\ Balls(L, R, P, B)
  BY DEF Trees, Balls
<1> HIDE DEF L, R, P, B, r, gt
<1>3. U \subseteq Id /\ L[x] # Nil /\ P[x] \in Id \cup {Null}
  BY <1>1 DEF Sorted, Linked, L, Node
<1>4. /\ L[x] \in U /\ L[x] # x /\ R[L[x]] # x /\ P[x] # x /\ P[x] # L[x]
      /\ (x # r => P[x] \in U /\ R[P[x]] # L[P[x]]) /\ (P[x] = Null <=> x = r)
  BY <1>1, <1>3, TurnedAround
<1>5. x # r => x = L[P[x]] \/ x = R[P[x]]
  BY <1>1 DEF Sorted, Linked
<1>6. PICK L2, R2, P2, r2 : Turned(R, L, P, r, x, R2, L2, P2, r2)
                            /\ RotateRight(TreeOf(r, L, R, P, B), x) = TreeOf(r2, L2, R2, P2, B)
  <2>1. x \in Id /\ L[x] \in Id /\ L[x] # x /\ R[L[x]] # x /\ P[x] # x /\ P[x] # L[x] /\ (P[x] = Null <=> x = r)
    BY <1>3, <1>4
  <2>2. P[x] # Null => (x = L[P[x]] /\ x # R[P[x]]) \/ (x = R[P[x]] /\ x # L[P[x]])
    BY <1>4, <1>5
  <2> QED
    BY ONLY <1>b, <2>1, <2>2, RotateRightIs
<1>7. PICK lo2, hi2 : Sorted(gt, R2, L2, P2, r2, U, lo2, hi2)
  BY <1>1, <1>3, <1>6, TurnedSorted
<1>m. Sorted(LT, L2, R2, P2, r2, U, hi2, lo2)
  BY <1>7, <1>g, MirrorSorted
<1>8. u = TreeOf(r2, L2, R2, P2, B)
  BY <1>2, <1>6
<1>9. u.root = r2 /\ u.left = L2 /\ u.right = R2 /\ u.parent = P2 /\ u.black = B
  BY <1>8, TreeFields
<1>10. r2 \in Node /\ L2 \in [Node -> Node] /\ R2 \in [Node -> Node] /\ P2 \in [Node -> Id \cup {Null}]
  BY <1>7 DEF Sorted, Linked, Node
<1>11. u \in Trees
  BY <1>8, <1>10, <1>b, TreeTyped DEF Balls
<1> HIDE DEF u
<1> QED
  BY <1>6, <1>m, <1>9, <1>11 DEF Shaped, L, R, P, B, r, u

LEMMA RotateTurns ==
  ASSUME NEW t \in Trees, NEW U, Shaped(t, U), NEW x \in U, NEW l \in BOOLEAN, Far(t, l)[x] # Nil
  PROVE  LET u == Rotate(t, x, l) IN u \in Trees /\ Shaped(u, U) /\ Turning(t, u, x, l)
<1>1. CASE l = TRUE
  BY <1>1, RotateLeftTurns, NearFar, Zenon DEF Rotate, Turning
<1>2. CASE l = FALSE
  BY <1>2, RotateRightTurns, NearFar, Zenon DEF Rotate, Turning
<1> QED
  BY <1>1, <1>2
----------------------------------------------------------------------------
(* A node more.                                                            *)

\* The links with the new node k in the place N[f].
Grown(N, F, P, f, k, N2, F2, P2) ==
  /\ N2 = [n \in Node |-> IF n = k THEN Nil ELSE IF n = f THEN k ELSE N[n]]
  /\ F2 = [n \in Node |-> IF n = k THEN Nil ELSE F[n]]
  /\ P2 = [n \in Node |-> IF n = k THEN f ELSE P[n]]

\* Nobody belongs where there is no child.
LEMMA Unreached ==
  ASSUME NEW lt, NEW N, NEW F, NEW P, NEW r, NEW U, NEW lo, NEW hi,
         Sorted(lt, N, F, P, r, U, lo, hi), NEW n \in U, N[n] = Nil,
         NEW u \in U, u \in lt[n], InSpan(lt, lo, hi, n, u)
  PROVE  FALSE
BY DEF Sorted, Reached

\* A node linked where the walk towards it ended keeps the order, and was not there.
LEMMA GrownSorted ==
  ASSUME NEW lt, NEW N, NEW F, NEW P, NEW r, NEW U, NEW lo, NEW hi,
         Sorted(lt, N, F, P, r, U, lo, hi), NEW f \in U, N[f] = Nil,
         NEW k \in Id, k \in lt[f], InSpan(lt, lo, hi, f, k),
         NEW N2, NEW F2, NEW P2, Grown(N, F, P, f, k, N2, F2, P2)
  PROVE  k \notin U /\ \E lo2, hi2 : Sorted(lt, N2, F2, P2, r, U \cup {k}, lo2, hi2)
<1> DEFINE lo2 == [lo EXCEPT ![k] = lo[f]]
           hi2 == [hi EXCEPT ![k] = f]
           V == U \cup {k}
<1> USE SessionDbAssumption
<1>o. Order(lt)
  BY DEF Sorted
<1>l. Linked(N, F, P, r, U)
  BY DEF Sorted
<1>b. Bounded(lt, lo, hi, U)
  BY DEF Sorted
<1>u. U \subseteq Id /\ Null \notin Node /\ Nil \notin U /\ f \in Id /\ k # f /\ Nil \notin Id /\ Null \notin Id
      /\ f \notin lt[k]
  BY <1>l, <1>o DEF Linked, Node, Order
<1>1. \A u \in U : ~(u \in lt[f] /\ InSpan(lt, lo, hi, f, u))
  BY Unreached
<1>2. k \notin U
  BY <1>1
<1>3. /\ lo[f] \in Id \cup {Null} /\ hi[f] \in Id \cup {Null}
      /\ lo[f] # Null => lo[f] \in U /\ lo[f] \in lt[k] /\ lo[f] \in lt[f] /\ InSpan(lt, lo, hi, lo[f], f)
      /\ hi[f] # Null => hi[f] \in U /\ k \in lt[hi[f]] /\ f \in lt[hi[f]]
  BY <1>b, <1>u DEF Bounded, InSpan
<1>4. \A n \in Node : /\ N2[n] = IF n = k THEN Nil ELSE IF n = f THEN k ELSE N[n]
                      /\ F2[n] = IF n = k THEN Nil ELSE F[n]
                      /\ P2[n] = IF n = k THEN f ELSE P[n]
  BY DEF Grown
<1>5. /\ N2 \in [Node -> Node] /\ F2 \in [Node -> Node] /\ P2 \in [Node -> Id \cup {Null}]
  BY <1>u, <1>l DEF Grown, Linked, Node
<1>6. /\ lo2 \in [Id -> Id \cup {Null}] /\ hi2 \in [Id -> Id \cup {Null}]
      /\ \A n \in Id : /\ lo2[n] = IF n = k THEN lo[f] ELSE lo[n]
                       /\ hi2[n] = IF n = k THEN f ELSE hi[n]
  BY <1>u, <1>b DEF Bounded
<1>k. /\ k \in Id /\ k \in Node /\ N2[k] = Nil /\ F2[k] = Nil /\ P2[k] = f /\ lo2[k] = lo[f] /\ hi2[k] = f
      /\ N2[f] = k
      /\ \A n \in U : /\ n # k /\ n \in Id /\ n \in Node /\ F2[n] = F[n] /\ P2[n] = P[n] /\ lo2[n] = lo[n]
                     /\ hi2[n] = hi[n] /\ (n # f => N2[n] = N[n])
  BY <1>2, <1>4, <1>6, <1>u DEF Node
<1> HIDE DEF lo2, hi2
<1>7. Linked(N2, F2, P2, r, V)
  BY <1>5, <1>k, <1>l, <1>u DEF Linked
<1>8. Handed(N2, F2, r, V, lo2, hi2)
  BY <1>k, <1>l, <1>u DEF Sorted, Handed, Linked
<1>9. /\ \A n, u \in U : InSpan(lt, lo2, hi2, n, u) <=> InSpan(lt, lo, hi, n, u)
      /\ \A n \in U : InSpan(lt, lo2, hi2, n, k) <=> InSpan(lt, lo, hi, n, k)
  BY <1>k DEF InSpan
<1>10. \A u \in U : ~InSpan(lt, lo2, hi2, k, u)
  <2> SUFFICES ASSUME NEW u \in U, InSpan(lt, lo2, hi2, k, u) PROVE FALSE
    OBVIOUS
  <2>1. u \in lt[f] /\ (lo[f] = Null \/ lo[f] \in lt[u])
    BY <1>k, <1>u DEF InSpan
  <2>2. InSpan(lt, lo, hi, f, u)
    BY <2>1, <1>3, <1>o, <1>u DEF InSpan, Order
  <2> QED
    BY <2>1, <2>2, <1>1
<1>11. Bounded(lt, lo2, hi2, V)
  <2>1. ASSUME NEW n \in U, lo2[n] # Null
        PROVE  lo2[n] \in V /\ lo2[n] \in lt[n] /\ InSpan(lt, lo2, hi2, lo2[n], n)
    BY <2>1, <1>9, <1>k, <1>b DEF Bounded
  <2>2. ASSUME NEW n \in U, hi2[n] # Null
        PROVE  hi2[n] \in V /\ n \in lt[hi2[n]] /\ InSpan(lt, lo2, hi2, hi2[n], n)
    BY <2>2, <1>9, <1>k, <1>b DEF Bounded
  <2>3. ASSUME lo2[k] # Null
        PROVE  lo2[k] \in V /\ lo2[k] \in lt[k] /\ InSpan(lt, lo2, hi2, lo2[k], k)
    <3>1. lo2[k] = lo[f] /\ lo[f] \in U /\ lo[f] \in lt[k] /\ InSpan(lt, lo, hi, lo[f], f)
      BY <2>3, <1>k, <1>3
    <3>2. lo[lo[f]] = Null \/ (lo[lo[f]] \in Id /\ lo[lo[f]] \in lt[lo[f]])
      BY <3>1, <1>b, <1>u DEF Bounded
    <3>3. hi[lo[f]] = Null \/ (hi[lo[f]] \in Id /\ f \in lt[hi[lo[f]]])
      BY <3>1, <1>b, <1>u DEF Bounded, InSpan
    <3>4. InSpan(lt, lo, hi, lo[f], k)
      BY <3>1, <3>2, <3>3, <1>o, <1>u DEF InSpan, Order
    <3> QED
      BY <3>1, <3>4, <1>9
  <2>4. hi2[k] \in V /\ k \in lt[hi2[k]] /\ InSpan(lt, lo2, hi2, hi2[k], k)
    BY <1>k, <1>9
  <2> QED
    BY <1>6, <2>1, <2>2, <2>3, <2>4 DEF Bounded
<1>12. ASSUME NEW n \in U, InSpan(lt, lo, hi, n, k)
       PROVE  /\ k \in lt[n] => N2[n] # Nil /\ (f = n \/ f \in lt[n])
              /\ n \in lt[k] => F[n] # Nil /\ lo[f] # Null /\ (lo[f] = n \/ n \in lt[lo[f]])
  <2>n. n \in Id /\ (lo[n] = Null \/ (lo[n] \in Id /\ lo[n] \in lt[n])) /\ (hi[n] = Null \/ (hi[n] \in Id /\ n \in lt[hi[n]]))
    BY <1>b, <1>u DEF Bounded
  <2>1. ASSUME k \in lt[n], n # f PROVE N[n] # Nil /\ f \in lt[n]
    <3>1. n \notin lt[f]
      <4> SUFFICES ASSUME n \in lt[f] PROVE FALSE
        OBVIOUS
      <4>1. InSpan(lt, lo, hi, f, n)
        BY <2>1, <2>n, <1>3, <1>o, <1>u DEF InSpan, Order
      <4> QED
        BY <4>1, <1>1
    <3>2. f \in lt[n]
      BY <3>1, <2>1, <2>n, <1>u, <1>o DEF Order
    <3>3. InSpan(lt, lo, hi, n, f)
      BY <3>2, <2>n, <1>12, <1>o, <1>u DEF InSpan, Order
    <3> QED
      BY <3>2, <3>3 DEF Sorted, Reached
  <2>2. ASSUME n \in lt[k] PROVE F[n] # Nil /\ lo[f] # Null /\ (lo[f] = n \/ n \in lt[lo[f]])
    <3>1. n \in lt[f]
      BY <2>2, <2>n, <1>u, <1>o DEF Order
    <3>2. ~InSpan(lt, lo, hi, f, n)
      BY <3>1, <1>1
    <3>3. lo[f] # Null /\ lo[f] \notin lt[n]
      BY <3>1, <3>2, <2>n, <1>3, <1>o, <1>u DEF InSpan, Order
    <3>4. lo[f] = n \/ n \in lt[lo[f]]
      BY <3>3, <2>n, <1>3, <1>u, <1>o DEF Order
    <3>5. CASE lo[f] = n
      BY <3>5, <3>1, <3>3, <1>3 DEF Sorted, Reached
    <3>6. CASE n \in lt[lo[f]]
      <4>1. InSpan(lt, lo, hi, n, lo[f])
        BY <3>3, <3>6, <2>n, <1>12, <1>3, <1>o, <1>u DEF InSpan, Order
      <4> QED
        BY <4>1, <3>3, <3>6, <1>3 DEF Sorted, Reached
    <3> QED
      BY <3>3, <3>4, <3>5, <3>6
  <2> QED
    BY <2>1, <2>2, <1>k, <1>u
<1>13. k \notin lt[k]
  BY <1>o DEF Order
<1>14. Reached(lt, N2, F2, V, lo2, hi2)
  <2>1. ASSUME NEW n \in U, NEW u \in U, InSpan(lt, lo2, hi2, n, u)
        PROVE  (u \in lt[n] => N2[n] # Nil) /\ (n \in lt[u] => F2[n] # Nil)
    BY <2>1, <1>9, <1>k, <1>u DEF Sorted, Reached
  <2>2. ASSUME NEW n \in U, InSpan(lt, lo2, hi2, n, k)
        PROVE  (k \in lt[n] => N2[n] # Nil) /\ (n \in lt[k] => F2[n] # Nil)
    BY <2>2, <1>9, <1>12, <1>k
  <2> QED
    BY <2>1, <2>2, <1>10, <1>13 DEF Reached
<1>15. Nested(lt, V, lo2, hi2)
  <2>1. ASSUME NEW n \in U, NEW u \in U, InSpan(lt, lo2, hi2, n, u)
        PROVE  /\ u \in lt[n] => hi2[u] # Null /\ (hi2[u] = n \/ hi2[u] \in lt[n])
               /\ n \in lt[u] => lo2[u] # Null /\ (lo2[u] = n \/ n \in lt[lo2[u]])
    BY <2>1, <1>9, <1>k, <1>u DEF Sorted, Nested
  <2>2. ASSUME NEW n \in U, InSpan(lt, lo2, hi2, n, k)
        PROVE  /\ k \in lt[n] => hi2[k] # Null /\ (hi2[k] = n \/ hi2[k] \in lt[n])
               /\ n \in lt[k] => lo2[k] # Null /\ (lo2[k] = n \/ n \in lt[lo2[k]])
    BY <2>2, <1>9, <1>12, <1>k, <1>u
  <2> QED
    BY <2>1, <2>2, <1>10, <1>13 DEF Nested
<1> QED
  BY <1>2, <1>o, <1>7, <1>8, <1>11, <1>14, <1>15 DEF Sorted

\* The links with the new node k as the root.
Rooted(N, F, P, k, N2, F2, P2) ==
  /\ N2 = [n \in Node |-> IF n = k THEN Nil ELSE N[n]]
  /\ F2 = [n \in Node |-> IF n = k THEN Nil ELSE F[n]]
  /\ P2 = [n \in Node |-> IF n = k THEN Null ELSE P[n]]

\* The first node makes a search tree.
LEMMA RootedSorted ==
  ASSUME NEW lt, NEW N, NEW F, NEW P, NEW r, NEW U, NEW lo, NEW hi,
         Sorted(lt, N, F, P, r, U, lo, hi), r = Nil, NEW k \in Id,
         NEW N2, NEW F2, NEW P2, Rooted(N, F, P, k, N2, F2, P2)
  PROVE  U = {} /\ \E lo2, hi2 : Sorted(lt, N2, F2, P2, k, {k}, lo2, hi2)
<1> DEFINE none == [n \in Id |-> Null]
<1> USE SessionDbAssumption
<1>1. U = {} /\ Order(lt) /\ k \notin lt[k]
  BY DEF Sorted, Linked, Order
<1>2. N2[k] = Nil /\ F2[k] = Nil /\ P2[k] = Null /\ none \in [Id -> Id \cup {Null}] /\ none[k] = Null
  BY DEF Rooted, Node
<1>3. N2 \in [Node -> Node] /\ F2 \in [Node -> Node] /\ P2 \in [Node -> Id \cup {Null}]
  BY DEF Rooted, Node, Sorted, Linked
<1> HIDE DEF none
<1>4. Linked(N2, F2, P2, k, {k})
  BY <1>2, <1>3 DEF Linked
<1>5. Bounded(lt, none, none, {k}) /\ Handed(N2, F2, k, {k}, none, none)
  BY <1>2 DEF Bounded, Handed
<1>6. Reached(lt, N2, F2, {k}, none, none) /\ Nested(lt, {k}, none, none)
  BY <1>1 DEF Reached, Nested
<1> QED
  BY <1>1, <1>4, <1>5, <1>6 DEF Sorted
----------------------------------------------------------------------------
(* A node less.                                                            *)

\* The links without y, whose only child is c.
SplicedOut(N, F, P, r, y, c, N2, F2, P2, r2) ==
  /\ N2 = [n \in Node |-> IF n = P[y] /\ N[n] = y THEN c ELSE N[n]]
  /\ F2 = [n \in Node |-> IF n = P[y] /\ F[n] = y THEN c ELSE F[n]]
  /\ P2 = [n \in Node |-> IF n = c THEN P[y] ELSE P[n]]
  /\ r2 = IF y = r THEN c ELSE r

\* A node with one child at most leaves, and the order stays.
LEMMA SplicedSorted ==
  ASSUME NEW lt, NEW N, NEW F, NEW P, NEW r, NEW U, NEW lo, NEW hi,
         Sorted(lt, N, F, P, r, U, lo, hi), NEW y \in U, N[y] = Nil,
         NEW N2, NEW F2, NEW P2, NEW r2, SplicedOut(N, F, P, r, y, F[y], N2, F2, P2, r2)
  PROVE  \E lo2, hi2 : Sorted(lt, N2, F2, P2, r2, U \ {y}, lo2, hi2)
<1> DEFINE lo2 == [n \in Id |-> IF lo[n] = y THEN lo[y] ELSE lo[n]]
           V == U \ {y}
           c == F[y]
           p == P[y]
<1> USE SessionDbAssumption
<1>o. Order(lt)
  BY DEF Sorted
<1>l. Linked(N, F, P, r, U)
  BY DEF Sorted
<1>b. Bounded(lt, lo, hi, U)
  BY DEF Sorted
<1>h. Handed(N, F, r, U, lo, hi)
  BY DEF Sorted
<1>u. /\ U \subseteq Id /\ Null \notin Node /\ Nil \notin U /\ y \in Id /\ Nil \notin Id /\ Null \notin Id
      /\ y \notin lt[y] /\ \A n \in U : n \in Node
  BY <1>l, <1>o DEF Linked, Node, Order
<1>y. /\ lo[y] = Null \/ (lo[y] \in U /\ lo[y] \in Id /\ lo[y] \in lt[y] /\ lo[y] # y)
      /\ hi[y] = Null \/ (hi[y] \in U /\ hi[y] \in Id /\ y \in lt[hi[y]] /\ hi[y] # y)
  BY <1>b, <1>u, <1>o DEF Bounded, Order
<1>c. c # Nil => c \in U /\ P[c] = y /\ lo[c] = y /\ hi[c] = hi[y] /\ c # y
  BY <1>l, <1>h, <1>y, <1>u, <1>b DEF Linked, Handed, Bounded
<1>p. /\ y # r => p \in U /\ p # y /\ (y = N[p] \/ y = F[p]) /\ N[p] # F[p] /\ p # c
      /\ y # r /\ y = N[p] => lo[y] = lo[p] /\ hi[y] = p
      /\ y # r /\ y = F[p] => lo[y] = p /\ hi[y] = hi[p]
      /\ y = r => p = Null /\ lo[y] = Null /\ hi[y] = Null
  <2>1. y # r => p \in U /\ (y = N[p] \/ y = F[p])
    BY <1>l DEF Linked
  <2>2. y # r /\ y = N[p] => lo[y] = lo[p] /\ hi[y] = p
    BY <2>1, <1>h, <1>u DEF Handed
  <2>3. y # r /\ y = F[p] => lo[y] = p /\ hi[y] = hi[p]
    BY <2>1, <1>h, <1>u DEF Handed
  <2>4. y # r => p # y
    BY <2>1, <2>2, <2>3, <1>y, <1>u
  <2>5. y # r => N[p] # F[p]
    BY <2>1, <1>u, ChildrenDiffer
  <2>6. y # r => p # c
    <3> SUFFICES ASSUME y # r, p = c PROVE FALSE
      OBVIOUS
    <3>1. lo[p] = y /\ p \in U /\ y \in lt[p] /\ p \in Id
      BY <2>1, <1>c, <1>u, <1>b DEF Bounded
    <3>2. y = F[p]
      BY <3>1, <2>1, <2>2, <1>y, <1>u
    <3>3. p \in lt[y]
      BY <3>1, <3>2, <2>3, <1>y, <1>u
    <3> QED
      BY <3>1, <3>3, <1>o, <1>u DEF Order
  <2>7. y = r => p = Null /\ lo[y] = Null /\ hi[y] = Null
    BY <1>l, <1>h, <1>u DEF Linked, Handed
  <2> QED
    BY <2>1, <2>2, <2>3, <2>4, <2>5, <2>6, <2>7
<1>0. \A u \in U : ~(u \in lt[y] /\ InSpan(lt, lo, hi, y, u))
  BY Unreached
<1>00. c = Nil => \A u \in U : ~(y \in lt[u] /\ InSpan(lt, lo, hi, y, u))
  BY DEF Sorted, Reached
<1>1. \A n \in U : hi[n] # y
  BY <1>0, <1>b, <1>u DEF Bounded
<1>2. \A n \in Node : /\ N2[n] = IF n = p /\ N[n] = y THEN c ELSE N[n]
                      /\ F2[n] = IF n = p /\ F[n] = y THEN c ELSE F[n]
                      /\ P2[n] = IF n = c THEN p ELSE P[n]
  BY DEF SplicedOut
<1>3. r2 = IF y = r THEN c ELSE r
  BY DEF SplicedOut
<1>4. c \in Node /\ p \in Id \cup {Null}
  BY <1>l, <1>u DEF Linked
<1>5. /\ N2 \in [Node -> Node] /\ F2 \in [Node -> Node] /\ P2 \in [Node -> Id \cup {Null}]
  BY <1>4, <1>l DEF SplicedOut, Linked
<1>6. /\ lo2 \in [Id -> Id \cup {Null}]
      /\ \A n \in Id : lo2[n] = IF lo[n] = y THEN lo[y] ELSE lo[n]
  BY <1>u, <1>b DEF Bounded
<1> HIDE DEF lo2, c, p
<1>7. V = {} \/ ~(y = r /\ c = Nil)
  <2> SUFFICES ASSUME NEW u \in V, y = r, c = Nil PROVE FALSE
    OBVIOUS
  <2>1. InSpan(lt, lo, hi, y, u)
    BY <1>p DEF InSpan
  <2> QED
    BY <2>1, <1>0, <1>00, <1>o, <1>u DEF Order
<1>8. Linked(N2, F2, P2, r2, V)
  <2>1. V \subseteq Id /\ ((r2 \in V /\ P2[r2] = Null) \/ (r2 = Nil /\ V = {}))
    BY <1>2, <1>3, <1>4, <1>7, <1>c, <1>p, <1>l, <1>u DEF Linked
  <2>2. ASSUME NEW n \in V, N2[n] # Nil PROVE N2[n] \in V /\ P2[N2[n]] = n
    BY <2>2, <1>2, <1>4, <1>c, <1>p, <1>l, <1>u DEF Linked, p, c
  <2>3. ASSUME NEW n \in V, F2[n] # Nil PROVE F2[n] \in V /\ P2[F2[n]] = n
    BY <2>3, <1>2, <1>4, <1>c, <1>p, <1>l, <1>u DEF Linked, p, c
  <2>4. ASSUME NEW n \in V, n # r2 PROVE P2[n] \in V /\ (n = N2[P2[n]] \/ n = F2[P2[n]])
    <3>1. CASE n = c
      <4>1. y # r /\ P2[n] = p
        BY <3>1, <2>4, <1>2, <1>3, <1>4
      <4> QED
        BY <4>1, <3>1, <1>2, <1>p, <1>u
    <3>2. CASE n # c
      <4>1. n # r /\ P2[n] = P[n] /\ P[n] \in U /\ (n = N[P[n]] \/ n = F[P[n]])
        BY <3>2, <2>4, <1>2, <1>3, <1>l, <1>u, <1>7 DEF Linked
      <4>2. P[n] # y
        BY <4>1, <3>2, <1>u DEF c
      <4> QED
        BY <4>1, <4>2, <1>2, <1>u
    <3> QED
      BY <3>1, <3>2
  <2> QED
    BY <1>5, <2>1, <2>2, <2>3, <2>4 DEF Linked
<1>9. Handed(N2, F2, r2, V, lo2, hi)
  <2>1. r2 \in V => lo2[r2] = Null /\ hi[r2] = Null
    BY <1>3, <1>6, <1>c, <1>p, <1>h, <1>u DEF Handed
  <2>2. ASSUME NEW n \in V, N2[n] # Nil PROVE lo2[N2[n]] = lo2[n] /\ hi[N2[n]] = n
    <3>1. CASE n = p /\ N[n] = y
      BY <3>1, <2>2, <1>2, <1>6, <1>c, <1>p, <1>y, <1>u
    <3>2. CASE ~(n = p /\ N[n] = y)
      BY <3>2, <2>2, <1>2, <1>6, <1>h, <1>l, <1>u DEF Handed, Linked
    <3> QED
      BY <3>1, <3>2
  <2>3. ASSUME NEW n \in V, F2[n] # Nil PROVE lo2[F2[n]] = n /\ hi[F2[n]] = hi[n]
    <3>1. CASE n = p /\ F[n] = y
      BY <3>1, <2>3, <1>2, <1>6, <1>c, <1>p, <1>y, <1>u
    <3>2. CASE ~(n = p /\ F[n] = y)
      BY <3>2, <2>3, <1>2, <1>6, <1>h, <1>l, <1>u DEF Handed, Linked
    <3> QED
      BY <3>1, <3>2
  <2> QED
    BY <2>1, <2>2, <2>3 DEF Handed
<1>10. ASSUME NEW n \in V, NEW u \in V
       PROVE  InSpan(lt, lo2, hi, n, u) <=> InSpan(lt, lo, hi, n, u)
  <2>1. n \in Id /\ u \in Id /\ n \in U /\ u \in U /\ u # y
    BY <1>u
  <2>2. CASE lo[n] # y
    BY <2>1, <2>2, <1>6 DEF InSpan
  <2>3. CASE lo[n] = y
    <3>1. y \in lt[u] => lo[y] = Null \/ lo[y] \in lt[u]
      BY <1>y, <1>o, <2>1, <1>u DEF Order
    <3>2. (lo[y] = Null \/ lo[y] \in lt[u]) => y \in lt[u]
      <4> SUFFICES ASSUME lo[y] = Null \/ lo[y] \in lt[u], u \in lt[y] PROVE FALSE
        BY <2>1, <1>o, <1>u DEF Order
      <4>1. InSpan(lt, lo, hi, y, u)
        BY <1>y, <1>o, <2>1, <1>u DEF InSpan, Order
      <4> QED
        BY <4>1, <2>1, <1>0
    <3>3. y # Null /\ lo2[n] = lo[y]
      BY <2>1, <2>3, <1>6, <1>u
    <3> QED
      BY <3>1, <3>2, <3>3, <2>3 DEF InSpan
  <2> QED
    BY <2>2, <2>3
<1>11. Bounded(lt, lo2, hi, V)
  <2>1. ASSUME NEW n \in V, hi[n] # Null
        PROVE  hi[n] \in V /\ n \in lt[hi[n]] /\ InSpan(lt, lo2, hi, hi[n], n)
    BY <2>1, <1>1, <1>10, <1>b DEF Bounded
  <2>2. ASSUME NEW n \in V, lo2[n] # Null
        PROVE  lo2[n] \in V /\ lo2[n] \in lt[n] /\ InSpan(lt, lo2, hi, lo2[n], n)
    <3>1. n \in U /\ n \in Id
      BY <1>u
    <3>2. CASE lo[n] # y
      BY <2>2, <3>1, <3>2, <1>6, <1>10, <1>b DEF Bounded
    <3>3. CASE lo[n] = y
      <4> DEFINE q == lo[y]
                 g == hi[q]
      <4>1. lo2[n] = q /\ q \in U /\ q \in V /\ q \in Id /\ q \in lt[y]
        BY <2>2, <3>1, <3>3, <1>6, <1>y
      <4>2. y \in lt[n] /\ InSpan(lt, lo, hi, y, n) /\ InSpan(lt, lo, hi, q, y)
        BY <3>1, <3>3, <4>1, <1>b, <1>u DEF Bounded
      <4>3. q \in lt[n]
        BY <4>1, <4>2, <3>1, <1>o, <1>u DEF Order
      <4>4. g = Null \/ (g \in Id /\ n \in lt[g])
        <5> SUFFICES ASSUME g # Null PROVE g \in Id /\ n \in lt[g]
          OBVIOUS
        <5>1. g \in U /\ g \in Id /\ q \in lt[g] /\ y \in lt[g] /\ InSpan(lt, lo, hi, g, q)
          BY <4>1, <4>2, <1>b, <1>u DEF Bounded, InSpan
        <5>2. InSpan(lt, lo, hi, g, y)
          <6>1. lo[g] = Null \/ (lo[g] \in Id /\ lo[g] \in lt[q])
            BY <5>1, <1>b DEF Bounded, InSpan
          <6>2. hi[g] = Null \/ (hi[g] \in Id /\ g \in lt[hi[g]])
            BY <5>1, <1>b, <1>u DEF Bounded
          <6> HIDE DEF q, g
          <6> QED
            BY <5>1, <6>1, <6>2, <4>1, <1>o, <1>u DEF InSpan, Order
        <5>3. hi[y] # Null /\ (hi[y] = g \/ hi[y] \in lt[g])
          BY <5>1, <5>2 DEF Sorted, Nested
        <5>4. n \in lt[hi[y]] /\ hi[y] \in Id
          BY <5>3, <4>2, <1>y DEF InSpan
        <5> HIDE DEF q, g
        <5> QED
          BY <5>1, <5>3, <5>4, <3>1, <1>o DEF Order
      <4>5. lo[q] = Null \/ (lo[q] \in Id /\ lo[q] \in lt[q])
        BY <4>1, <1>b, <1>u DEF Bounded
      <4>6. InSpan(lt, lo, hi, q, n)
        BY <4>3, <4>4, <4>5, <4>1, <3>1, <1>o DEF InSpan, Order
      <4> QED
        BY <4>1, <4>3, <4>6, <1>10
    <3> QED
      BY <3>2, <3>3
  <2>3. hi \in [Id -> Id \cup {Null}]
    BY <1>b DEF Bounded
  <2> QED
    BY <2>1, <2>2, <2>3, <1>6 DEF Bounded
<1>12. Reached(lt, N2, F2, V, lo2, hi)
  <2> SUFFICES ASSUME NEW n \in V, NEW u \in V, InSpan(lt, lo2, hi, n, u)
               PROVE  (u \in lt[n] => N2[n] # Nil) /\ (n \in lt[u] => F2[n] # Nil)
    BY DEF Reached
  <2>1. n \in Id /\ u \in Id /\ n \in U /\ u \in U /\ u # y /\ InSpan(lt, lo, hi, n, u) /\ n \in Node
    BY <1>u, <1>10
  <2>2. (u \in lt[n] => N[n] # Nil) /\ (n \in lt[u] => F[n] # Nil)
    BY <2>1 DEF Sorted, Reached
  <2>3. c = Nil => ~InSpan(lt, lo, hi, y, u)
    BY <2>1, <1>0, <1>00, <1>o, <1>u DEF Order
  <2>4. u \in lt[n] => N2[n] # Nil
    BY <2>1, <2>2, <2>3, <1>2, <1>p, <1>u DEF InSpan
  <2>5. n \in lt[u] => F2[n] # Nil
    BY <2>1, <2>2, <2>3, <1>2, <1>p, <1>u DEF InSpan
  <2> QED
    BY <2>4, <2>5
<1>13. Nested(lt, V, lo2, hi)
  <2> SUFFICES ASSUME NEW n \in V, NEW u \in V, InSpan(lt, lo2, hi, n, u)
               PROVE  /\ u \in lt[n] => hi[u] # Null /\ (hi[u] = n \/ hi[u] \in lt[n])
                      /\ n \in lt[u] => lo2[u] # Null /\ (lo2[u] = n \/ n \in lt[lo2[u]])
    BY DEF Nested
  <2>1. n \in Id /\ u \in Id /\ n \in U /\ u \in U /\ n # y /\ InSpan(lt, lo, hi, n, u)
    BY <1>u, <1>10
  <2>r. \A m \in U, v \in U : InSpan(lt, lo, hi, m, v) =>
          /\ v \in lt[m] => hi[v] # Null /\ (hi[v] = m \/ hi[v] \in lt[m])
          /\ m \in lt[v] => lo[v] # Null /\ (lo[v] = m \/ m \in lt[lo[v]])
    BY DEF Sorted, Nested
  <2>2. CASE lo[u] # y
    BY <2>1, <2>r, <2>2, <1>6
  <2>3. CASE lo[u] = y
    <3>1. lo2[u] = lo[y] /\ y \in lt[u]
      BY <2>1, <2>3, <1>6, <1>b, <1>u DEF Bounded
    <3>2. ASSUME n \in lt[u] PROVE lo[y] # Null /\ (lo[y] = n \/ n \in lt[lo[y]])
      <4>1. n \in lt[y]
        BY <3>2, <2>1, <2>r, <2>3
      <4>2. lo[n] = Null \/ (lo[n] \in Id /\ lo[n] \in lt[n])
        BY <2>1, <1>b, <1>u DEF Bounded
      <4>3. hi[n] = Null \/ (hi[n] \in Id /\ u \in lt[hi[n]])
        BY <2>1, <1>b DEF Bounded, InSpan
      <4>4. InSpan(lt, lo, hi, n, y)
        BY <4>1, <4>2, <4>3, <3>1, <2>1, <1>o, <1>u DEF InSpan, Order
      <4> QED
        BY <4>1, <4>4, <2>1, <2>r
    <3> QED
      BY <3>1, <3>2, <2>1, <2>r
  <2> QED
    BY <2>2, <2>3
<1> QED
  BY <1>o, <1>8, <1>9, <1>11, <1>12, <1>13 DEF Sorted
----------------------------------------------------------------------------
(* A node renamed.                                                         *)

\* The name of x once z is called y.
New(z, y, x) == IF x = z THEN y ELSE x

\* The links once z is called y.
RenamedAs(N, F, P, z, y, N2, F2, P2) ==
  /\ N2 = [x \in Node |-> IF x = z THEN Nil ELSE New(z, y, N[New(y, z, x)])]
  /\ F2 = [x \in Node |-> IF x = z THEN Nil ELSE New(z, y, F[New(y, z, x)])]
  /\ P2 = [x \in Node |-> IF x = z THEN Null ELSE New(z, y, P[New(y, z, x)])]

\* Renaming confuses no two nodes of U.
Relabels(U, z, y) ==
  /\ New(z, y, Nil) = Nil /\ New(z, y, Null) = Null /\ New(y, z, Nil) = Nil
  /\ \A m \in U : New(z, y, m) \in (U \ {z}) \cup {y} /\ New(y, z, New(z, y, m)) = m /\ New(z, y, m) # z
                  /\ New(z, y, m) \in Id /\ New(z, y, m) \in Node
  /\ \A n \in (U \ {z}) \cup {y} : \E m \in U : n = New(z, y, m)
  /\ \A a, b \in U \cup {Nil, Null} : New(z, y, a) = New(z, y, b) <=> a = b
  /\ \A m \in Node : New(z, y, m) \in Node /\ New(y, z, m) \in Node
  /\ \A m \in Id : New(z, y, m) \in Id /\ New(y, z, m) \in Id

\* It does not if y is new.
LEMMA NewIs ==
  ASSUME NEW U, U \subseteq Id, NEW z \in U, NEW y \in Id, y \notin U
  PROVE  Relabels(U, z, y)
<1> USE SessionDbAssumption
<1> QED
  BY DEF New, Node, Relabels

\* z may be renamed y if no node is between the two: how the value of the successor
\* comes to the node removed.
LEMMA RenamedSorted ==
  ASSUME NEW lt, NEW N, NEW F, NEW P, NEW r, NEW U, NEW lo, NEW hi,
         Sorted(lt, N, F, P, r, U, lo, hi), NEW z \in U, NEW y \in Id, y \notin U, z \in lt[y],
         \A u \in U : ~(z \in lt[u] /\ u \in lt[y]),
         NEW N2, NEW F2, NEW P2, RenamedAs(N, F, P, z, y, N2, F2, P2)
  PROVE  \E lo2, hi2 : Sorted(lt, N2, F2, P2, New(z, y, r), (U \ {z}) \cup {y}, lo2, hi2)
<1> DEFINE lo2 == [x \in Id |-> New(z, y, lo[New(y, z, x)])]
           hi2 == [x \in Id |-> New(z, y, hi[New(y, z, x)])]
           V == (U \ {z}) \cup {y}
           n2(x) == New(z, y, x)
<1> USE SessionDbAssumption
<1>o. Order(lt)
  BY DEF Sorted
<1>l. Linked(N, F, P, r, U)
  BY DEF Sorted
<1>b. Bounded(lt, lo, hi, U)
  BY DEF Sorted
<1>h. Handed(N, F, r, U, lo, hi)
  BY DEF Sorted
<1>u. /\ U \subseteq Id /\ Null \notin Node /\ Nil \notin U /\ z \in Id /\ Nil \notin Id /\ Null \notin Id
      /\ \A n \in U : n \in Node
  BY <1>l, <1>o DEF Linked, Node, Order
<1>n. /\ n2(Nil) = Nil /\ n2(Null) = Null
      /\ \A m \in U : n2(m) \in V /\ New(y, z, n2(m)) = m /\ n2(m) # z /\ n2(m) \in Id /\ n2(m) \in Node
      /\ \A n \in V : \E m \in U : n = n2(m)
      /\ \A a, b \in U \cup {Nil, Null} : n2(a) = n2(b) <=> a = b
      /\ \A m \in Node : n2(m) \in Node /\ New(y, z, m) \in Node
      /\ \A m \in Id : n2(m) \in Id /\ New(y, z, m) \in Id
  <2>1. Relabels(U, z, y)
    BY <1>u, NewIs
  <2> QED
    BY <2>1, Zenon DEF Relabels
<1>t. /\ N2 \in [Node -> Node] /\ F2 \in [Node -> Node] /\ P2 \in [Node -> Id \cup {Null}]
      /\ lo2 \in [Id -> Id \cup {Null}] /\ hi2 \in [Id -> Id \cup {Null}]
  <2>1. /\ \A x \in Node : New(z, y, N[New(y, z, x)]) \in Node /\ New(z, y, F[New(y, z, x)]) \in Node
        /\ \A x \in Node : New(z, y, P[New(y, z, x)]) \in Id \cup {Null}
        /\ \A x \in Id : New(z, y, lo[New(y, z, x)]) \in Id \cup {Null} /\ New(z, y, hi[New(y, z, x)]) \in Id \cup {Null}
    BY <1>n, <1>u, <1>l, <1>b DEF Linked, Bounded
  <2> HIDE DEF lo2, hi2
  <2>2. Nil \in Node
    BY DEF Node
  <2>3. N2 \in [Node -> Node] /\ F2 \in [Node -> Node] /\ P2 \in [Node -> Id \cup {Null}]
    BY <2>1, <2>2 DEF RenamedAs
  <2> QED
    BY <2>1, <2>3 DEF lo2, hi2
<1>e. \A m \in U : /\ N2[n2(m)] = n2(N[m]) /\ F2[n2(m)] = n2(F[m]) /\ P2[n2(m)] = n2(P[m])
                   /\ lo2[n2(m)] = n2(lo[m]) /\ hi2[n2(m)] = n2(hi[m])
  <2> TAKE m \in U
  <2>1. n2(m) \in Id /\ n2(m) \in Node /\ New(y, z, n2(m)) = m /\ n2(m) # z
    BY <1>n
  <2> HIDE DEF n2
  <2>2. N2[n2(m)] = n2(N[m]) /\ F2[n2(m)] = n2(F[m]) /\ P2[n2(m)] = n2(P[m])
    BY <2>1 DEF RenamedAs, n2
  <2> QED
    BY <2>1, <2>2 DEF n2
<1>c. \A a, b \in U : a \in lt[b] <=> n2(a) \in lt[n2(b)]
  <2>1. \A a \in U : a # z => (a \in lt[y] <=> a \in lt[z]) /\ (y \in lt[a] <=> z \in lt[a])
    BY <1>o, <1>u DEF Order
  <2>2. y \notin lt[y] /\ z \notin lt[z]
    BY <1>o, <1>u DEF Order
  <2> QED
    BY <2>1, <2>2, <1>u DEF New
<1> HIDE DEF lo2, hi2, n2, V
<1>v. \A m \in U : /\ N[m] \in U \cup {Nil} /\ F[m] \in U \cup {Nil} /\ lo[m] \in U \cup {Null} /\ hi[m] \in U \cup {Null}
                   /\ P[m] \in U \cup {Null}
  BY <1>l, <1>b, <1>u DEF Linked, Bounded
<1>1. Linked(N2, F2, P2, n2(r), V)
  <2>1. V \subseteq Id /\ ((n2(r) \in V /\ P2[n2(r)] = Null) \/ (n2(r) = Nil /\ V = {}))
    BY <1>n, <1>e, <1>l DEF Linked
  <2>2. ASSUME NEW n \in V, N2[n] # Nil PROVE N2[n] \in V /\ P2[N2[n]] = n
    <3>1. PICK m \in U : n = n2(m)
      BY <1>n
    <3>2. N[m] # Nil
      BY <2>2, <3>1, <1>e, <1>n
    <3> QED
      BY <3>1, <3>2, <1>e, <1>n, <1>l DEF Linked
  <2>3. ASSUME NEW n \in V, F2[n] # Nil PROVE F2[n] \in V /\ P2[F2[n]] = n
    <3>1. PICK m \in U : n = n2(m)
      BY <1>n
    <3>2. F[m] # Nil
      BY <2>3, <3>1, <1>e, <1>n
    <3> QED
      BY <3>1, <3>2, <1>e, <1>n, <1>l DEF Linked
  <2>4. ASSUME NEW n \in V, n # n2(r) PROVE P2[n] \in V /\ (n = N2[P2[n]] \/ n = F2[P2[n]])
    <3>1. PICK m \in U : n = n2(m)
      BY <1>n
    <3>2. m # r
      BY <2>4, <3>1
    <3> QED
      BY <3>1, <3>2, <1>e, <1>n, <1>l DEF Linked
  <2> QED
    BY <2>1, <2>2, <2>3, <2>4, <1>t DEF Linked
<1>2. Handed(N2, F2, n2(r), V, lo2, hi2)
  <2>1. n2(r) \in V => lo2[n2(r)] = Null /\ hi2[n2(r)] = Null
    BY <1>n, <1>e, <1>h, <1>l DEF Linked, Handed
  <2>2. ASSUME NEW n \in V, N2[n] # Nil PROVE lo2[N2[n]] = lo2[n] /\ hi2[N2[n]] = n
    <3>1. PICK m \in U : n = n2(m)
      BY <1>n
    <3>2. N[m] # Nil /\ N[m] \in U
      BY <2>2, <3>1, <1>e, <1>n, <1>v
    <3> QED
      BY <3>1, <3>2, <1>e, <1>n, <1>h DEF Handed
  <2>3. ASSUME NEW n \in V, F2[n] # Nil PROVE lo2[F2[n]] = n /\ hi2[F2[n]] = hi2[n]
    <3>1. PICK m \in U : n = n2(m)
      BY <1>n
    <3>2. F[m] # Nil /\ F[m] \in U
      BY <2>3, <3>1, <1>e, <1>n, <1>v
    <3> QED
      BY <3>1, <3>2, <1>e, <1>n, <1>h DEF Handed
  <2> QED
    BY <2>1, <2>2, <2>3 DEF Handed
<1>3. \A n, u \in U : InSpan(lt, lo2, hi2, n2(n), n2(u)) <=> InSpan(lt, lo, hi, n, u)
  <2> TAKE n, u \in U
  <2>1. lo[n] = Null <=> n2(lo[n]) = Null
    BY <1>v, <1>n
  <2>2. hi[n] = Null <=> n2(hi[n]) = Null
    BY <1>v, <1>n
  <2>3. lo[n] # Null => (lo[n] \in lt[u] <=> n2(lo[n]) \in lt[n2(u)])
    BY <1>v, <1>c
  <2>4. hi[n] # Null => (u \in lt[hi[n]] <=> n2(u) \in lt[n2(hi[n])])
    BY <1>v, <1>c
  <2> QED
    BY <2>1, <2>2, <2>3, <2>4, <1>e DEF InSpan
<1>4. Bounded(lt, lo2, hi2, V)
  <2>1. ASSUME NEW n \in V, lo2[n] # Null
        PROVE  lo2[n] \in V /\ lo2[n] \in lt[n] /\ InSpan(lt, lo2, hi2, lo2[n], n)
    <3>1. PICK m \in U : n = n2(m)
      BY <1>n
    <3>2. lo[m] # Null /\ lo[m] \in U
      BY <2>1, <3>1, <1>e, <1>n, <1>v
    <3>3. lo[m] \in lt[m] /\ InSpan(lt, lo, hi, lo[m], m)
      BY <3>2, <1>b DEF Bounded
    <3> QED
      BY <3>1, <3>2, <3>3, <1>e, <1>n, <1>c, <1>3
  <2>2. ASSUME NEW n \in V, hi2[n] # Null
        PROVE  hi2[n] \in V /\ n \in lt[hi2[n]] /\ InSpan(lt, lo2, hi2, hi2[n], n)
    <3>1. PICK m \in U : n = n2(m)
      BY <1>n
    <3>2. hi[m] # Null /\ hi[m] \in U
      BY <2>2, <3>1, <1>e, <1>n, <1>v
    <3>3. m \in lt[hi[m]] /\ InSpan(lt, lo, hi, hi[m], m)
      BY <3>2, <1>b DEF Bounded
    <3> QED
      BY <3>1, <3>2, <3>3, <1>e, <1>n, <1>c, <1>3
  <2> QED
    BY <2>1, <2>2, <1>t DEF Bounded
<1>5. Reached(lt, N2, F2, V, lo2, hi2)
  <2> SUFFICES ASSUME NEW n \in V, NEW u \in V, InSpan(lt, lo2, hi2, n, u)
               PROVE  (u \in lt[n] => N2[n] # Nil) /\ (n \in lt[u] => F2[n] # Nil)
    BY DEF Reached
  <2>1. PICK m \in U : n = n2(m)
    BY <1>n
  <2>2. PICK v \in U : u = n2(v)
    BY <1>n
  <2>3. InSpan(lt, lo, hi, m, v) /\ (u \in lt[n] <=> v \in lt[m]) /\ (n \in lt[u] <=> m \in lt[v])
    BY <2>1, <2>2, <1>3, <1>c
  <2>4. (v \in lt[m] => N[m] # Nil) /\ (m \in lt[v] => F[m] # Nil)
    BY <2>3 DEF Sorted, Reached
  <2>5. N2[n] = n2(N[m]) /\ F2[n] = n2(F[m])
    BY <2>1, <1>e
  <2>6. (N[m] # Nil <=> n2(N[m]) # Nil) /\ (F[m] # Nil <=> n2(F[m]) # Nil)
    BY <1>n, <1>v
  <2> QED
    BY <2>3, <2>4, <2>5, <2>6
<1>6. Nested(lt, V, lo2, hi2)
  <2> SUFFICES ASSUME NEW n \in V, NEW u \in V, InSpan(lt, lo2, hi2, n, u)
               PROVE  /\ u \in lt[n] => hi2[u] # Null /\ (hi2[u] = n \/ hi2[u] \in lt[n])
                      /\ n \in lt[u] => lo2[u] # Null /\ (lo2[u] = n \/ n \in lt[lo2[u]])
    BY DEF Nested
  <2>1. PICK m \in U : n = n2(m)
    BY <1>n
  <2>2. PICK v \in U : u = n2(v)
    BY <1>n
  <2>3. InSpan(lt, lo, hi, m, v) /\ (u \in lt[n] <=> v \in lt[m]) /\ (n \in lt[u] <=> m \in lt[v])
    BY <2>1, <2>2, <1>3, <1>c
  <2>4. /\ v \in lt[m] => hi[v] # Null /\ (hi[v] = m \/ hi[v] \in lt[m])
        /\ m \in lt[v] => lo[v] # Null /\ (lo[v] = m \/ m \in lt[lo[v]])
    BY <2>3 DEF Sorted, Nested
  <2>5. lo2[u] = n2(lo[v]) /\ hi2[u] = n2(hi[v])
    BY <2>2, <1>e
  <2>6. /\ (hi[v] # Null => n2(hi[v]) # Null /\ (hi[v] \in lt[m] => n2(hi[v]) \in lt[n]))
        /\ (lo[v] # Null => n2(lo[v]) # Null /\ (m \in lt[lo[v]] => n \in lt[n2(lo[v])]))
    BY <2>1, <1>n, <1>v, <1>c
  <2> QED
    BY <2>1, <2>3, <2>4, <2>5, <2>6
<1> QED
  BY <1>o, <1>1, <1>2, <1>4, <1>5, <1>6 DEF Sorted, n2, V
----------------------------------------------------------------------------
(* Black heights.                                                          *)

\* What a node adds to the black height.
Wt(Red, n) == IF n \in Red THEN 0 ELSE 1
\* What a node owes because its child d lacks a black node.
Owed(P, d, n, m) == IF m = d /\ P[m] = n THEN 1 ELSE 0

\* h is a black height: the same on both sides of each node, one more below the child
\* that lacks a black node.
Heights(N, F, P, U, Red, d, h) ==
  /\ h \in [Node -> Nat] /\ h[Nil] = 0
  /\ \A n \in U : /\ h[n] = Wt(Red, n) + h[N[n]] + Owed(P, d, n, N[n])
                  /\ h[n] = Wt(Red, n) + h[F[n]] + Owed(P, d, n, F[n])

\* No red node has a red child.
RedRule(N, F, U, Red) == \A n \in U : n \in Red => N[n] \notin Red /\ F[n] \notin Red

\* If d lacks a black node, one side of its parent does, not both.
Owing(N, F, P, U, d) ==
  d \in Node /\ P[d] \in U => d \in {N[P[d]], F[P[d]]} /\ N[P[d]] # F[P[d]]

\* A node, its children and their parents.
LEMMA Apart ==
  ASSUME NEW lt, NEW N, NEW F, NEW P, NEW r, NEW U, NEW lo, NEW hi,
         Sorted(lt, N, F, P, r, U, lo, hi), NEW n \in U
  PROVE  /\ n \in Id /\ n # Nil /\ n # Null /\ N[n] \in U \cup {Nil} /\ F[n] \in U \cup {Nil}
         /\ N[n] # n /\ F[n] # n /\ (N[n] # Nil => N[n] # F[n])
         /\ N[n] # Nil => P[N[n]] = n
         /\ F[n] # Nil => P[F[n]] = n
<1> USE SessionDbAssumption
<1>1. n \in Id /\ n # Nil /\ n # Null /\ N[n] \in U \cup {Nil} /\ F[n] \in U \cup {Nil} /\ n \notin lt[n]
  BY DEF Sorted, Linked, Order
<1>2. N[n] # Nil => hi[N[n]] = n /\ N[n] \in lt[n]
  BY <1>1 DEF Sorted, Handed, Bounded
<1>3. F[n] # Nil => lo[F[n]] = n /\ n \in lt[F[n]]
  BY <1>1 DEF Sorted, Handed, Bounded
<1>4. N[n] # Nil => N[n] # F[n]
  BY ChildrenDiffer
<1>5. (N[n] # Nil => P[N[n]] = n) /\ (F[n] # Nil => P[F[n]] = n)
  BY DEF Sorted, Linked
<1> QED
  BY <1>1, <1>2, <1>3, <1>4, <1>5

\* What the lemmas on colours need to know of a rotation.
Swung(N, F, P, r, U, x, N2, F2, P2) ==
  LET y == F[x]  b == N[y]  p == P[x] IN
  /\ x \in U /\ y \in U /\ x # y /\ U \subseteq Id /\ Nil \notin U /\ Null \notin Node
  /\ b \in U \cup {Nil} /\ b # x /\ b # y /\ F[y] \in U \cup {Nil} /\ F[y] # x /\ F[y] # y
  /\ N[x] \in U \cup {Nil} /\ N[x] # x /\ N[x] # y /\ P[y] = x
  /\ p # x /\ p # y /\ (F[y] # Nil => p # F[y]) /\ (b # Nil => b # F[y])
  /\ N2 \in [Node -> Node] /\ F2 \in [Node -> Node] /\ P2 \in [Node -> Id \cup {Null}]
  /\ N2[x] = N[x] /\ F2[x] = b /\ N2[y] = x /\ F2[y] = F[y]
  /\ \A n \in U \ {x, y} :
       /\ N[n] \in U \cup {Nil} /\ F[n] \in U \cup {Nil} /\ N[n] # y /\ F[n] # y
       /\ N2[n] = IF N[n] = x THEN y ELSE N[n]
       /\ F2[n] = IF F[n] = x THEN y ELSE F[n]
       /\ P2[n] = IF n = b THEN x ELSE P[n]
  /\ P2[x] = y /\ P2[y] = p /\ P2[Nil] = P[Nil]
  /\ \A n \in U : (N[n] # Nil => P[N[n]] = n) /\ (F[n] # Nil => P[F[n]] = n)

\* A rotation of a sorted tree is one.
LEMMA SwungAround ==
  ASSUME NEW lt, NEW N, NEW F, NEW P, NEW r, NEW U, NEW lo, NEW hi,
         Sorted(lt, N, F, P, r, U, lo, hi), NEW x \in U, F[x] # Nil,
         NEW N2, NEW F2, NEW P2, NEW r2, Turned(N, F, P, r, x, N2, F2, P2, r2)
  PROVE  Swung(N, F, P, r, U, x, N2, F2, P2)
<1> DEFINE y == F[x]
           b == N[y]
           p == P[x]
<1> USE SessionDbAssumption
<1>a. /\ y \in U /\ y # x /\ b \in U \cup {Nil} /\ b # x /\ b # y
      /\ p # x /\ p # y /\ (x # r => p \in U /\ N[p] # F[p]) /\ (x = r <=> p = Null)
      /\ (b # Nil => P[b] = y /\ b # p) /\ P[y] = x
  BY TurnedAround
<1>u. U \subseteq Id /\ Null \notin Node /\ Nil \notin U /\ Nil \in Node /\ \A n \in U : n \in Node
  BY DEF Sorted, Linked, Node
<1>t. N \in [Node -> Node] /\ F \in [Node -> Node] /\ P \in [Node -> Id \cup {Null}]
  BY DEF Sorted, Linked
<1>1. \A n \in U : /\ N[n] \in U \cup {Nil} /\ F[n] \in U \cup {Nil}
                   /\ N[n] # n /\ F[n] # n /\ (N[n] # Nil => N[n] # F[n])
                   /\ (N[n] # Nil => P[N[n]] = n) /\ (F[n] # Nil => P[F[n]] = n)
  BY Apart
<1>2. \A n \in Node : /\ N2[n] = IF n = y THEN x ELSE IF n = p /\ N[p] = x THEN y ELSE N[n]
                      /\ F2[n] = IF n = x THEN b ELSE IF n = p /\ F[p] = x THEN y ELSE F[n]
                      /\ P2[n] = IF n = x THEN y ELSE IF n = y THEN p
                                 ELSE IF n = b /\ b # Nil THEN x ELSE P[n]
  BY DEF Turned
<1>4. /\ N2 \in [Node -> Node] /\ F2 \in [Node -> Node] /\ P2 \in [Node -> Id \cup {Null}]
  BY <1>a, <1>u, <1>t DEF Turned
<1> HIDE DEF y, b, p
<1>5. F[y] \in U \cup {Nil} /\ F[y] # x /\ F[y] # y /\ N[x] \in U \cup {Nil} /\ N[x] # x /\ N[x] # y
  BY <1>1, <1>a, <1>u DEF y, p
<1>6. N2[x] = N[x] /\ F2[x] = b /\ N2[y] = x /\ F2[y] = F[y] /\ P2[x] = y /\ P2[y] = p /\ P2[Nil] = P[Nil]
  BY <1>2, <1>a, <1>u
<1>7. \A n \in U : ((N[n] = x \/ F[n] = x) => n = p) /\ ((N[n] = y \/ F[n] = y) => n = x)
  BY <1>1, <1>a, <1>u DEF p, y
<1>8. \A n \in U \ {x, y} :
       /\ N[n] # y /\ F[n] # y
       /\ N2[n] = IF N[n] = x THEN y ELSE N[n]
       /\ F2[n] = IF F[n] = x THEN y ELSE F[n]
       /\ P2[n] = IF n = b THEN x ELSE P[n]
  BY <1>2, <1>7, <1>u
<1>9. F[y] # Nil => p # F[y]
  <2> SUFFICES ASSUME F[y] # Nil, p = F[y] PROVE FALSE
    OBVIOUS
  <2>1. F[y] \in U /\ lo[F[y]] = y /\ hi[F[y]] = hi[y] /\ lo[y] = x /\ hi[y] = hi[x] /\ x # r /\ x # Nil
    BY <1>a, <1>5, <1>u DEF Sorted, Handed, y
  <2>2. F[y] \in Id /\ y \in lt[F[y]] /\ x \in lt[y] /\ y \in Id /\ x \in Id
    BY <2>1, <1>a, <1>u DEF Sorted, Bounded
  <2>3. CASE x = N[F[y]]
    <3>1. hi[x] = F[y]
      BY <2>1, <2>3 DEF Sorted, Handed
    <3>2. hi[F[y]] = F[y] /\ F[y] \in lt[F[y]]
      BY <2>1, <3>1, <1>u DEF Sorted, Bounded
    <3> QED
      BY <3>2, <2>2 DEF Sorted, Order
  <2>4. CASE x = F[F[y]]
    <3>1. F[y] \in lt[x]
      BY <2>1, <2>2, <2>4, <1>u DEF Sorted, Handed, Bounded
    <3> QED
      BY <3>1, <2>2 DEF Sorted, Order
  <2>5. x = N[p] \/ x = F[p]
    BY <2>1 DEF Sorted, Linked, p
  <2> QED
    BY <2>3, <2>4, <2>5
<1>10. b # Nil => b # F[y]
  BY <1>1, <1>a DEF b
<1> QED
  BY <1>1, <1>4, <1>5, <1>6, <1>8, <1>9, <1>10, <1>a, <1>u DEF Swung, y, b, p

\* A rotation that swaps the colours of the node that goes down and the red one
\* that goes up leaves the heights of the others as they were.
LEMMA SwungHeights ==
  ASSUME NEW N, NEW F, NEW P, NEW r, NEW U, NEW x, NEW N2, NEW F2, NEW P2,
         Swung(N, F, P, r, U, x, N2, F2, P2),
         NEW Red, NEW d, NEW h, Heights(N, F, P, U, Red, d, h), Owing(N, F, P, U, d),
         F[x] \in Red, d # x, d # F[x], d \in Node => P[d] # F[x],
         NEW Red2, Red2 = IF x \in Red THEN Red ELSE (Red \ {F[x]}) \cup {x}
  PROVE  \E h2 : Heights(N2, F2, P2, U, Red2, d, h2)
<1> DEFINE y == F[x]
           b == N[y]
           h2 == [h EXCEPT ![x] = h[y], ![y] = h[x]]
<1>s. /\ x \in U /\ y \in U /\ x # y /\ U \subseteq Id /\ Nil \notin U /\ Null \notin Node
      /\ b \in U \cup {Nil} /\ b # x /\ b # y /\ F[y] \in U \cup {Nil} /\ F[y] # x /\ F[y] # y
      /\ N[x] \in U \cup {Nil} /\ N[x] # x /\ N[x] # y
      /\ N2[x] = N[x] /\ F2[x] = b /\ N2[y] = x /\ F2[y] = F[y]
  BY DEF Swung
<1>n. \A n \in U \ {x, y} :
       /\ N[n] \in U \cup {Nil} /\ F[n] \in U \cup {Nil} /\ N[n] # y /\ F[n] # y
       /\ N2[n] = IF N[n] = x THEN y ELSE N[n]
       /\ F2[n] = IF F[n] = x THEN y ELSE F[n]
       /\ P2[n] = IF n = b THEN x ELSE P[n]
  BY DEF Swung
<1>p. /\ P2[x] = y /\ P2[y] = P[x] /\ P2[Nil] = P[Nil] /\ P[y] = x
      /\ \A n \in U : (N[n] # Nil => P[N[n]] = n) /\ (F[n] # Nil => P[F[n]] = n)
  BY DEF Swung
<1>h. /\ h \in [Node -> Nat] /\ h[Nil] = 0 /\ \A n \in U : n \in Node /\ h[n] \in Nat
      /\ \A n \in U : /\ h[n] = Wt(Red, n) + h[N[n]] + Owed(P, d, n, N[n])
                      /\ h[n] = Wt(Red, n) + h[F[n]] + Owed(P, d, n, F[n])
  BY <1>s DEF Heights, Node
<1>2. h2 \in [Node -> Nat] /\ h2[x] = h[y] /\ h2[y] = h[x] /\ \A n \in Node \ {x, y} : h2[n] = h[n]
  BY <1>h, <1>s DEF Node
<1> HIDE DEF y, b, h2
<1>d. d = Nil => P[Nil] # y
  BY DEF Node, y
<1>3. h[y] = h[b] /\ h[y] = h[F[y]] /\ h[x] = Wt(Red, x) + h[y] /\ h[y] = h[N[x]] + Owed(P, d, x, N[x])
  <2>1. Owed(P, d, y, b) = 0 /\ Owed(P, d, y, F[y]) = 0 /\ Owed(P, d, x, y) = 0
    BY <1>s DEF Owed, y, Node
  <2>2. Wt(Red, y) = 0 /\ Wt(Red, x) \in {0, 1} /\ Owed(P, d, x, N[x]) \in {0, 1}
    BY DEF Wt, Owed, y
  <2>3. h[y] \in Nat /\ h[x] \in Nat /\ h[b] \in Nat /\ h[F[y]] \in Nat /\ h[N[x]] \in Nat
    BY <1>h, <1>s DEF Node
  <2>4. h[x] = Wt(Red, x) + h[N[x]] + Owed(P, d, x, N[x]) /\ h[x] = Wt(Red, x) + h[y] + Owed(P, d, x, y)
    BY <1>h, <1>s DEF y
  <2>5. h[y] = Wt(Red, y) + h[b] + Owed(P, d, y, b) /\ h[y] = Wt(Red, y) + h[F[y]] + Owed(P, d, y, F[y])
    BY <1>h, <1>s DEF b
  <2> QED
    BY <2>1, <2>2, <2>3, <2>4, <2>5
<1>w. /\ Wt(Red2, x) = 0 /\ Wt(Red2, y) = Wt(Red, x)
      /\ \A n \in U \ {x, y} : Wt(Red2, n) = Wt(Red, n)
  <2>1. CASE x \in Red
    BY <2>1, <1>s DEF Wt, y
  <2>2. CASE x \notin Red
    BY <2>2, <1>s DEF Wt, y
  <2> QED
    BY <2>1, <2>2
<1>4. /\ h2[y] = Wt(Red2, y) + h2[x] + Owed(P2, d, y, x)
      /\ h2[y] = Wt(Red2, y) + h2[F[y]] + Owed(P2, d, y, F[y])
  <2>1. Owed(P2, d, y, x) = 0
    BY DEF Owed
  <2>2. Owed(P2, d, y, F[y]) = 0
    <3> SUFFICES ASSUME F[y] = d, P2[d] = y PROVE FALSE
      BY DEF Owed
    <3>1. CASE F[y] = Nil
      BY <3>1, <1>d, <1>p
    <3>2. CASE F[y] # Nil
      <4>1. P[F[y]] = y
        BY <3>2, <1>s, <1>p
      <4> QED
        BY <4>1, <3>2, <1>s DEF y, Node
    <3> QED
      BY <3>1, <3>2
  <2>3. h2[F[y]] = h[F[y]] /\ h[x] \in Nat /\ h[y] \in Nat /\ Wt(Red, x) \in {0, 1}
    BY <1>2, <1>h, <1>s DEF Node, Wt
  <2> QED
    BY <2>1, <2>2, <2>3, <1>2, <1>3, <1>w
<1>5. /\ h2[x] = Wt(Red2, x) + h2[N[x]] + Owed(P2, d, x, N[x])
      /\ h2[x] = Wt(Red2, x) + h2[b] + Owed(P2, d, x, b)
  <2>1. Owed(P2, d, x, N[x]) = Owed(P, d, x, N[x])
    <3>1. CASE N[x] = Nil
      BY <3>1, <1>p DEF Owed
    <3>2. CASE N[x] # Nil
      <4>1. P[N[x]] = x
        BY <3>2, <1>s, <1>p
      <4>2. P2[N[x]] = x
        BY <4>1, <3>2, <1>s, <1>n
      <4> QED
        BY <4>1, <4>2 DEF Owed
    <3> QED
      BY <3>1, <3>2
  <2>2. Owed(P2, d, x, b) = 0
    <3> SUFFICES ASSUME b = d, P2[d] = x PROVE FALSE
      BY DEF Owed
    <3>1. CASE b = Nil
      <4>1. P[d] = x /\ d \in Node /\ d = Nil
        BY <3>1, <1>p DEF Node
      <4>2. N[x] = d
        BY <4>1, <1>s DEF Owing, y
      <4>3. Owed(P, d, x, N[x]) = 1
        BY <4>1, <4>2 DEF Owed
      <4> QED
        BY <4>1, <4>2, <4>3, <1>3, <1>h
    <3>2. CASE b # Nil
      <4>1. P[b] = y
        BY <3>2, <1>s, <1>p DEF b
      <4> QED
        BY <4>1, <3>2, <1>s DEF y, Node
    <3> QED
      BY <3>1, <3>2
  <2>3. h2[N[x]] = h[N[x]] /\ h2[b] = h[b] /\ h[N[x]] \in Nat /\ h[b] \in Nat /\ h[y] \in Nat
        /\ Owed(P, d, x, N[x]) \in {0, 1}
    BY <1>2, <1>h, <1>s DEF Node, Owed
  <2> QED
    BY <2>1, <2>2, <2>3, <1>2, <1>3, <1>w
<1>6. ASSUME NEW n \in U \ {x, y}
      PROVE  /\ h2[n] = Wt(Red2, n) + h2[N2[n]] + Owed(P2, d, n, N2[n])
             /\ h2[n] = Wt(Red2, n) + h2[F2[n]] + Owed(P2, d, n, F2[n])
  <2>1. ASSUME NEW m \in U \cup {Nil}, m # y, m # Nil => P[m] = n
        PROVE  LET m2 == IF m = x THEN y ELSE m IN
               h2[m2] = h[m] /\ Owed(P2, d, n, m2) = Owed(P, d, n, m)
    <3>1. CASE m = x
      BY <3>1, <1>2 DEF Owed, y
    <3>2. CASE m # x
      <4>1. h2[m] = h[m]
        BY <2>1, <3>2, <1>2, <1>s DEF Node
      <4>2. m # Nil => m # b
        BY <2>1, <1>p, <1>s DEF b
      <4>3. P2[m] = P[m]
        BY <4>2, <2>1, <3>2, <1>n, <1>p
      <4> QED
        BY <4>1, <4>3, <3>2 DEF Owed
    <3> QED
      BY <3>1, <3>2
  <2>2. /\ N[n] \in U \cup {Nil} /\ F[n] \in U \cup {Nil} /\ N[n] # y /\ F[n] # y
        /\ N2[n] = IF N[n] = x THEN y ELSE N[n]
        /\ F2[n] = IF F[n] = x THEN y ELSE F[n]
        /\ (N[n] # Nil => P[N[n]] = n) /\ (F[n] # Nil => P[F[n]] = n)
    BY <1>n, <1>p
  <2>3. h2[N2[n]] = h[N[n]] /\ Owed(P2, d, n, N2[n]) = Owed(P, d, n, N[n])
    BY <2>1, <2>2
  <2>4. h2[F2[n]] = h[F[n]] /\ Owed(P2, d, n, F2[n]) = Owed(P, d, n, F[n])
    BY <2>1, <2>2
  <2>5. h2[n] = h[n] /\ Wt(Red2, n) = Wt(Red, n)
    BY <1>2, <1>w, <1>s DEF Node
  <2> QED
    BY <2>3, <2>4, <2>5, <1>h
<1>7. h2[Nil] = 0
  BY <1>2, <1>h, <1>s DEF Node
<1>8. ASSUME NEW n \in U
      PROVE  /\ h2[n] = Wt(Red2, n) + h2[N2[n]] + Owed(P2, d, n, N2[n])
             /\ h2[n] = Wt(Red2, n) + h2[F2[n]] + Owed(P2, d, n, F2[n])
  <2>1. CASE n = x
    BY ONLY <2>1, <1>5, <1>s
  <2>2. CASE n = y
    BY ONLY <2>2, <1>4, <1>s
  <2>3. CASE n # x /\ n # y
    BY <2>3, <1>6
  <2> QED
    BY <2>1, <2>2, <2>3
<1> QED
  BY <1>2, <1>7, <1>8 DEF Heights

\* After the outer rotation no red node has a red child: the end of the fix-up of an
\* insertion.
LEMMA SwungRedRule ==
  ASSUME NEW N, NEW F, NEW P, NEW r, NEW U, NEW x, NEW N2, NEW F2, NEW P2,
         Swung(N, F, P, r, U, x, N2, F2, P2),
         NEW Red, Red \subseteq Id, NEW e, e = Null \/ e = F[F[x]],
         e \in U => N[e] \notin Red /\ F[e] \notin Red,
         RedRule(N, F, U, Red \ {e}),
         x \notin Red, F[x] \in Red, N[x] \notin Red, N[F[x]] \notin Red,
         NEW Red2, Red2 = (Red \ {F[x]}) \cup {x}
  PROVE  RedRule(N2, F2, U, Red2)
<1> DEFINE y == F[x]
           b == N[y]
<1> USE SessionDbAssumption
<1>s. /\ x \in U /\ y \in U /\ x # y /\ U \subseteq Id /\ Nil \notin U /\ Null \notin Node
      /\ b \in U \cup {Nil} /\ b # x /\ b # y /\ F[y] \in U \cup {Nil} /\ F[y] # x /\ F[y] # y
      /\ N[x] \in U \cup {Nil} /\ N[x] # x /\ N[x] # y
      /\ N2[x] = N[x] /\ F2[x] = b /\ N2[y] = x /\ F2[y] = F[y]
  BY DEF Swung
<1>n. \A n \in U \ {x, y} :
       /\ N[n] \in U \cup {Nil} /\ F[n] \in U \cup {Nil} /\ N[n] # y /\ F[n] # y
       /\ N2[n] = IF N[n] = x THEN y ELSE N[n]
       /\ F2[n] = IF F[n] = x THEN y ELSE F[n]
  BY DEF Swung
<1>p. \A n \in U : (N[n] # Nil => P[N[n]] = n) /\ (F[n] # Nil => P[F[n]] = n)
  BY DEF Swung
<1> SUFFICES ASSUME NEW n \in U, n \in Red2 PROVE N2[n] \notin Red2 /\ F2[n] \notin Red2
  BY DEF RedRule
<1>e. y \in Red /\ N[x] \notin Red /\ b \notin Red /\ Red2 = (Red \ {y}) \cup {x} /\ (e = Null \/ e = F[y])
  OBVIOUS
<1> HIDE DEF y, b
<1>1. CASE n = x
  BY <1>1, <1>s, <1>e
<1>2. n # y
  BY <1>s, <1>e
<1>3. CASE n # x /\ n # y
  <2>1. n \in Red
    BY <1>3, <1>e
  <2>2. ASSUME NEW m \in {N[n], F[n]} PROVE m \notin Red
    <3>1. CASE n = e
      BY <3>1, <2>2
    <3>2. CASE n # e
      <4>1. m \notin Red \ {e}
        BY <3>2, <2>1, <2>2 DEF RedRule
      <4>2. m = e => m \notin Red
        <5> SUFFICES ASSUME m = e, m \in Red PROVE FALSE
          OBVIOUS
        <5>1. m # Nil /\ m \in Id
          OBVIOUS
        <5>2. P[m] = n /\ m = F[y]
          BY <5>1, <2>2, <1>p, <1>e
        <5> QED
          BY <5>1, <5>2, <1>p, <1>s, <1>3
      <4> QED
        BY <4>1, <4>2
    <3> QED
      BY <3>1, <3>2
  <2>3. N[n] \notin Red /\ F[n] \notin Red
    BY <2>2
  <2>4. y \notin Red2
    BY <1>s, <1>e
  <2> QED
    BY <2>3, <2>4, <1>3, <1>n, <1>e
<1> QED
  BY <1>1, <1>2, <1>3

\* After the inner rotation the two red nodes are in line.
LEMMA SwungInner ==
  ASSUME NEW N, NEW F, NEW P, NEW r, NEW U, NEW x, NEW N2, NEW F2, NEW P2,
         Swung(N, F, P, r, U, x, N2, F2, P2),
         NEW Red, Red \subseteq Id, RedRule(N, F, U, Red \ {F[x]}),
         N[F[x]] \notin Red, F[F[x]] \notin Red, x \in Red
  PROVE  RedRule(N2, F2, U, Red \ {x}) /\ N2[x] \notin Red /\ F2[x] \notin Red
<1> DEFINE y == F[x]
           b == N[y]
<1> USE SessionDbAssumption
<1>s. /\ x \in U /\ y \in U /\ x # y /\ U \subseteq Id /\ Nil \notin U /\ Null \notin Node
      /\ b \in U \cup {Nil} /\ b # x /\ b # y /\ F[y] \in U \cup {Nil} /\ F[y] # x /\ F[y] # y
      /\ N[x] \in U \cup {Nil} /\ N[x] # x /\ N[x] # y
      /\ N2[x] = N[x] /\ F2[x] = b /\ N2[y] = x /\ F2[y] = F[y]
  BY DEF Swung
<1>n. \A n \in U \ {x, y} :
       /\ N[n] \in U \cup {Nil} /\ F[n] \in U \cup {Nil} /\ N[n] # y /\ F[n] # y
       /\ N2[n] = IF N[n] = x THEN y ELSE N[n]
       /\ F2[n] = IF F[n] = x THEN y ELSE F[n]
  BY DEF Swung
<1>1. N[x] \notin Red
  BY <1>s DEF RedRule
<1>2. b \notin Red /\ F[y] \notin Red
  OBVIOUS
<1>3. \A n \in U : n \in Red /\ n # y => N[n] \notin Red \ {y} /\ F[n] \notin Red \ {y}
  BY DEF RedRule
<1> HIDE DEF y, b
<1>4. ASSUME NEW n \in U, n \in Red, n # x PROVE N2[n] \notin Red \ {x} /\ F2[n] \notin Red \ {x}
  <2>1. CASE n = y
    BY <2>1, <1>s, <1>2
  <2>2. CASE n # y
    <3>1. N[n] \notin Red /\ F[n] \notin Red
      BY <2>2, <1>4, <1>3, <1>n
    <3> QED
      BY <3>1, <2>2, <1>4, <1>n
  <2> QED
    BY <2>1, <2>2
<1> QED
  BY <1>1, <1>2, <1>4, <1>s DEF RedRule

\* The last turn of a removal: the debt is paid.
LEMMA SwungLast ==
  ASSUME NEW N, NEW F, NEW P, NEW r, NEW U, NEW x, NEW N2, NEW F2, NEW P2,
         Swung(N, F, P, r, U, x, N2, F2, P2),
         NEW Red, Red \subseteq Id, NEW d, NEW h, Heights(N, F, P, U, Red, d, h), RedRule(N, F, U, Red),
         N[x] = d, P[d] = x, d \notin Red, F[x] \notin Red, F[F[x]] \in Red,
         NEW Red2, Red2 = (Red \ {x, F[x], F[F[x]]}) \cup (IF x \in Red THEN {F[x]} ELSE {})
  PROVE  RedRule(N2, F2, U, Red2) /\ \E h2 : Heights(N2, F2, P2, U, Red2, Null, h2)
<1> DEFINE y == F[x]
           b == N[y]
           c == F[y]
           h2 == [[h EXCEPT ![x] = h[y]] EXCEPT ![y] = h[x], ![c] = h[c] + 1]
<1> USE SessionDbAssumption
<1>s. /\ x \in U /\ y \in U /\ x # y /\ U \subseteq Id /\ Nil \notin U /\ Null \notin Node
      /\ b \in U \cup {Nil} /\ b # x /\ b # y /\ c \in U \cup {Nil} /\ c # x /\ c # y
      /\ d \in U \cup {Nil} /\ d # x /\ d # y
      /\ N2[x] = d /\ F2[x] = b /\ N2[y] = x /\ F2[y] = c
  BY DEF Swung
<1>n. \A n \in U \ {x, y} :
       /\ N[n] \in U \cup {Nil} /\ F[n] \in U \cup {Nil} /\ N[n] # y /\ F[n] # y
       /\ N2[n] = IF N[n] = x THEN y ELSE N[n]
       /\ F2[n] = IF F[n] = x THEN y ELSE F[n]
  BY DEF Swung
<1>p. \A n \in U : (N[n] # Nil => P[N[n]] = n) /\ (F[n] # Nil => P[F[n]] = n)
  BY DEF Swung
<1>h. /\ h \in [Node -> Nat] /\ h[Nil] = 0 /\ \A n \in U : n \in Node /\ h[n] \in Nat
      /\ \A n \in U : /\ h[n] = Wt(Red, n) + h[N[n]] + Owed(P, d, n, N[n])
                      /\ h[n] = Wt(Red, n) + h[F[n]] + Owed(P, d, n, F[n])
  BY <1>s DEF Heights, Node
<1>c. c \in U /\ c \in Red /\ y \notin Red /\ d \notin Red /\ b \notin {c, x, y} /\ P[c] = y /\ P[x] # c /\ d # c
  <2>1. c \in U /\ c \in Red
    BY <1>s
  <2>2. P[c] = y
    BY <2>1, <1>s, <1>p
  <2>3. (b # Nil => b # c) /\ P[x] # c
    BY <2>1, <1>s DEF Swung
  <2> QED
    BY <2>1, <2>2, <2>3, <1>s
<1>d. Red2 = (Red \ {x, y, c}) \cup (IF x \in Red THEN {y} ELSE {})
  OBVIOUS
<1>x. N[x] = d /\ F[x] = y /\ N[y] = b /\ F[y] = c
  OBVIOUS
<1>2. /\ h2 \in [Node -> Nat] /\ h2[x] = h[y] /\ h2[y] = h[x] /\ h2[c] = h[c] + 1
      /\ \A n \in Node \ {x, y, c} : h2[n] = h[n]
  BY <1>h, <1>s, <1>c
<1> HIDE DEF y, b, c, h2
<1>3. h[y] = h[b] + 1 /\ h[y] = h[c] + 1 /\ h[x] = Wt(Red, x) + h[y] /\ h[y] = h[d] + 1
  <2>1. Owed(P, d, y, b) = 0 /\ Owed(P, d, y, c) = 0 /\ Owed(P, d, x, y) = 0 /\ Owed(P, d, x, d) = 1
    BY <1>s DEF Owed
  <2>2. Wt(Red, y) = 1 /\ Wt(Red, x) \in {0, 1}
    BY <1>c DEF Wt
  <2>3. h[y] \in Nat /\ h[x] \in Nat /\ h[b] \in Nat /\ h[c] \in Nat /\ h[d] \in Nat
    BY <1>h, <1>s DEF Node
  <2>4. h[x] = Wt(Red, x) + h[d] + Owed(P, d, x, d) /\ h[x] = Wt(Red, x) + h[y] + Owed(P, d, x, y)
    BY <1>h, <1>s, <1>x
  <2>5. h[y] = Wt(Red, y) + h[b] + Owed(P, d, y, b) /\ h[y] = Wt(Red, y) + h[c] + Owed(P, d, y, c)
    BY <1>h, <1>s, <1>x
  <2> QED
    BY <2>1, <2>2, <2>3, <2>4, <2>5
<1>w. /\ Wt(Red2, x) = 1 /\ Wt(Red2, y) = Wt(Red, x) /\ Wt(Red2, c) = 1
      /\ \A n \in U \ {x, y, c} : Wt(Red2, n) = Wt(Red, n)
  <2>1. CASE x \in Red
    BY <2>1, <1>s, <1>c, <1>d DEF Wt
  <2>2. CASE x \notin Red
    BY <2>2, <1>s, <1>c, <1>d DEF Wt
  <2> QED
    BY <2>1, <2>2
<1>0. \A n \in U, m \in Node : Owed(P2, Null, n, m) = 0
  BY <1>s DEF Owed
<1>4. ASSUME NEW n \in U \ {x, y}, NEW m \in U \cup {Nil}, m # y, m # Nil => P[m] = n
      PROVE  LET m2 == IF m = x THEN y ELSE m IN h2[m2] = h[m] /\ Owed(P, d, n, m) = 0 /\ m2 \in Node
  <2>1. m # c /\ m \in Node
    BY <1>4, <1>c, <1>s DEF Node
  <2>2. Owed(P, d, n, m) = 0
    BY <1>4 DEF Owed
  <2>3. CASE m = x
    BY <2>2, <2>3, <1>2, <1>s DEF Node
  <2>4. CASE m # x
    BY <2>1, <2>2, <2>4, <1>2, <1>4
  <2> QED
    BY <2>3, <2>4
<1>5. ASSUME NEW n \in U \ {x, y}
      PROVE  h2[N2[n]] = h[N[n]] /\ h2[F2[n]] = h[F[n]] /\ Owed(P, d, n, N[n]) = 0 /\ Owed(P, d, n, F[n]) = 0
             /\ N2[n] \in Node /\ F2[n] \in Node
  <2>1. /\ N[n] \in U \cup {Nil} /\ F[n] \in U \cup {Nil} /\ N[n] # y /\ F[n] # y
        /\ N2[n] = IF N[n] = x THEN y ELSE N[n]
        /\ F2[n] = IF F[n] = x THEN y ELSE F[n]
        /\ (N[n] # Nil => P[N[n]] = n) /\ (F[n] # Nil => P[F[n]] = n)
    BY <1>n, <1>p
  <2> QED
    BY <2>1, <1>4
<1>6. ASSUME NEW n \in U
      PROVE  /\ h2[n] = Wt(Red2, n) + h2[N2[n]] + Owed(P2, Null, n, N2[n])
             /\ h2[n] = Wt(Red2, n) + h2[F2[n]] + Owed(P2, Null, n, F2[n])
  <2>1. CASE n = x
    <3>1. h2[d] = h[d] /\ h2[b] = h[b] /\ h2[x] = h[y] /\ Wt(Red2, x) = 1 /\ d \in Node /\ b \in Node
      BY <1>2, <1>w, <1>c, <1>s DEF Node
    <3>2. Owed(P2, Null, x, d) = 0 /\ Owed(P2, Null, x, b) = 0
      BY <3>1, <1>0, <1>s
    <3>3. h[y] \in Nat /\ h[b] \in Nat /\ h[d] \in Nat
      BY <1>h, <1>s, <3>1
    <3> QED
      BY <3>1, <3>2, <3>3, <1>3, <2>1, <1>s
  <2>2. CASE n = y
    <3>1. h2[c] = h[c] + 1 /\ h2[x] = h[y] /\ h2[y] = h[x] /\ Wt(Red2, y) = Wt(Red, x) /\ c \in Node /\ x \in Node
      BY <1>2, <1>w, <1>c, <1>s DEF Node
    <3>2. Owed(P2, Null, y, x) = 0 /\ Owed(P2, Null, y, c) = 0
      BY <3>1, <1>0, <1>s
    <3>3. h[y] \in Nat /\ h[c] \in Nat /\ Wt(Red, x) \in {0, 1}
      BY <1>h, <1>s, <3>1 DEF Wt
    <3> QED
      BY <3>1, <3>2, <3>3, <1>3, <2>2, <1>s
  <2>3. CASE n \in U \ {x, y}
    <3>1. Owed(P2, Null, n, N2[n]) = 0 /\ Owed(P2, Null, n, F2[n]) = 0
      BY <2>3, <1>5, <1>0
    <3>2. h[n] = Wt(Red, n) + h[N[n]] /\ h[n] = Wt(Red, n) + h[F[n]] /\ h[N[n]] \in Nat /\ h[F[n]] \in Nat /\ Wt(Red, n) \in {0, 1}
      <4>1. h[n] = Wt(Red, n) + h[N[n]] + 0 /\ h[n] = Wt(Red, n) + h[F[n]] + 0
        BY <2>3, <1>5, <1>h
      <4>2. h[N[n]] \in Nat /\ h[F[n]] \in Nat /\ Wt(Red, n) \in {0, 1}
        BY <2>3, <1>n, <1>h DEF Wt
      <4> QED
        BY <4>1, <4>2
    <3>3. CASE n = c
      <4>1. Wt(Red, c) = 0 /\ Wt(Red2, c) = 1 /\ h2[c] = h[c] + 1
        BY <1>w, <1>c, <1>2 DEF Wt
      <4> QED
        BY <4>1, <3>1, <3>2, <3>3, <2>3, <1>5
    <3>4. CASE n # c
      <4>1. Wt(Red2, n) = Wt(Red, n) /\ h2[n] = h[n]
        BY <1>w, <3>4, <2>3, <1>2, <1>h
      <4> QED
        BY <4>1, <3>1, <3>2, <2>3, <1>5
    <3> QED
      BY <3>3, <3>4
  <2> QED
    BY <2>1, <2>2, <2>3
<1>7. h2[Nil] = 0
  BY <1>2, <1>h, <1>s, <1>c DEF Node
<1>8. Heights(N2, F2, P2, U, Red2, Null, h2)
  BY <1>2, <1>6, <1>7 DEF Heights
<1>9. RedRule(N2, F2, U, Red2)
  <2> SUFFICES ASSUME NEW n \in U, n \in Red2 PROVE N2[n] \notin Red2 /\ F2[n] \notin Red2
    BY DEF RedRule
  <2>1. CASE n = y
    BY <2>1, <1>s, <1>c, <1>d
  <2>2. CASE n # y
    <3>1. n \in Red /\ n \notin {x, y, c}
      BY <2>2, <1>d
    <3>2. N[n] \notin Red /\ F[n] \notin Red
      BY <3>1 DEF RedRule
    <3> QED
      BY <3>1, <3>2, <1>n, <1>d
  <2> QED
    BY <2>1, <2>2
<1> QED
  BY <1>8, <1>9

\* The black heights around a node.
LEMMA HeightsAt ==
  ASSUME NEW lt, NEW N, NEW F, NEW P, NEW r, NEW U, NEW lo, NEW hi,
         Sorted(lt, N, F, P, r, U, lo, hi),
         NEW Red, NEW d, NEW h, Heights(N, F, P, U, Red, d, h)
  PROVE  /\ h \in [Node -> Nat] /\ h[Nil] = 0 /\ U \subseteq Id /\ Nil \notin U /\ Null \notin Node
         /\ \A n \in U :
              /\ n \in Node /\ h[n] \in Nat /\ h[N[n]] \in Nat /\ h[F[n]] \in Nat
              /\ N[n] \in U \cup {Nil} /\ F[n] \in U \cup {Nil} /\ N[n] # n /\ F[n] # n
              /\ (N[n] # Nil => N[n] # F[n] /\ P[N[n]] = n) /\ (F[n] # Nil => P[F[n]] = n)
              /\ h[n] = Wt(Red, n) + h[N[n]] + Owed(P, d, n, N[n])
              /\ h[n] = Wt(Red, n) + h[F[n]] + Owed(P, d, n, F[n])
<1> USE SessionDbAssumption
<1>1. U \subseteq Id /\ Nil \notin U /\ Null \notin Node /\ \A n \in U : n \in Node
  BY DEF Sorted, Linked, Node
<1>2. \A n \in U : /\ N[n] \in U \cup {Nil} /\ F[n] \in U \cup {Nil} /\ N[n] # n /\ F[n] # n
                   /\ (N[n] # Nil => N[n] # F[n] /\ P[N[n]] = n) /\ (F[n] # Nil => P[F[n]] = n)
  BY Apart
<1>3. h \in [Node -> Nat] /\ h[Nil] = 0
      /\ \A n \in U : /\ h[n] = Wt(Red, n) + h[N[n]] + Owed(P, d, n, N[n])
                      /\ h[n] = Wt(Red, n) + h[F[n]] + Owed(P, d, n, F[n])
  BY DEF Heights
<1>4. \A n \in U \cup {Nil} : h[n] \in Nat
  BY <1>1, <1>3
<1> QED
  BY <1>1, <1>2, <1>3, <1>4

\* A red uncle: the debt of red moves up.
LEMMA RaisedRed ==
  ASSUME NEW lt, NEW N, NEW F, NEW P, NEW r, NEW U, NEW lo, NEW hi,
         Sorted(lt, N, F, P, r, U, lo, hi),
         NEW Red, Red \subseteq Id, NEW h, Heights(N, F, P, U, Red, Null, h),
         NEW g \in U, g \notin Red, N[g] \in Red, F[g] \in Red,
         NEW a \in U, P[a] \in {N[g], F[g]}, RedRule(N, F, U, Red \ {a}), N[a] \notin Red, F[a] \notin Red,
         NEW Red2, Red2 = (Red \ {N[g], F[g]}) \cup {g}
  PROVE  /\ \E h2 : Heights(N, F, P, U, Red2, Null, h2)
         /\ RedRule(N, F, U, Red2 \ {g}) /\ N[g] \notin Red2 /\ F[g] \notin Red2
<1> DEFINE p == N[g]
           u == F[g]
           h2 == [[h EXCEPT ![p] = h[p] + 1] EXCEPT ![u] = h[u] + 1]
<1> USE SessionDbAssumption
<1>h. /\ h \in [Node -> Nat] /\ h[Nil] = 0 /\ U \subseteq Id /\ Nil \notin U /\ Null \notin Node
      /\ \A n \in U :
              /\ n \in Node /\ h[n] \in Nat /\ h[N[n]] \in Nat /\ h[F[n]] \in Nat
              /\ N[n] \in U \cup {Nil} /\ F[n] \in U \cup {Nil} /\ N[n] # n /\ F[n] # n
              /\ (N[n] # Nil => N[n] # F[n] /\ P[N[n]] = n) /\ (F[n] # Nil => P[F[n]] = n)
              /\ h[n] = Wt(Red, n) + h[N[n]] + Owed(P, Null, n, N[n])
              /\ h[n] = Wt(Red, n) + h[F[n]] + Owed(P, Null, n, F[n])
  BY HeightsAt
<1>0. \A n \in U : Owed(P, Null, n, N[n]) = 0 /\ Owed(P, Null, n, F[n]) = 0
  BY <1>h DEF Owed, Node
<1>1. p \in U /\ u \in U /\ p # u /\ p # g /\ u # g /\ P[p] = g /\ P[u] = g /\ p # Nil /\ u # Nil
  BY <1>h
<1>g. N[g] = p /\ F[g] = u /\ p \in Red /\ u \in Red
  OBVIOUS
<1>2. h2 \in [Node -> Nat] /\ h2[p] = h[p] + 1 /\ h2[u] = h[u] + 1 /\ \A n \in Node \ {p, u} : h2[n] = h[n]
  BY <1>h, <1>1
<1>3. Red2 = (Red \ {p, u}) \cup {g}
  OBVIOUS
<1> HIDE DEF p, u, h2
<1>4. \A n \in U : n # g => N[n] \notin {p, u} /\ F[n] \notin {p, u}
  BY <1>h, <1>1
<1>5. ASSUME NEW n \in U
      PROVE  /\ h2[n] = Wt(Red2, n) + h2[N[n]] + Owed(P, Null, n, N[n])
             /\ h2[n] = Wt(Red2, n) + h2[F[n]] + Owed(P, Null, n, F[n])
  <2>0. /\ h[n] = Wt(Red, n) + h[N[n]] + 0 /\ h[n] = Wt(Red, n) + h[F[n]] + 0
        /\ h[n] \in Nat /\ h[N[n]] \in Nat /\ h[F[n]] \in Nat
    BY <1>0, <1>h
  <2>1. CASE n = g
    <3>1. Wt(Red, g) = 1 /\ Wt(Red2, g) = 0
      BY <1>3 DEF Wt
    <3>2. h2[g] = h[g]
      BY <1>1, <1>2, <1>h
    <3> QED
      BY <3>1, <3>2, <2>0, <2>1, <1>g, <1>2, <1>0
  <2>2. CASE n \in {p, u}
    <3>1. Wt(Red, n) = 0 /\ Wt(Red2, n) = 1 /\ n # g
      BY <2>2, <1>1, <1>3, <1>g DEF Wt
    <3>2. h2[N[n]] = h[N[n]] /\ h2[F[n]] = h[F[n]] /\ h2[n] = h[n] + 1
      BY <3>1, <2>2, <1>2, <1>4, <1>h DEF Node
    <3> QED
      BY <3>1, <3>2, <2>0, <1>0
  <2>3. CASE n \notin {g, p, u}
    <3>1. Wt(Red, n) = Wt(Red2, n)
      BY <2>3, <1>3 DEF Wt
    <3>2. h2[N[n]] = h[N[n]] /\ h2[F[n]] = h[F[n]] /\ h2[n] = h[n]
      BY <2>3, <1>2, <1>4, <1>h DEF Node
    <3> QED
      BY <3>1, <3>2, <2>0, <1>0
  <2> QED
    BY <2>1, <2>2, <2>3
<1>6. Heights(N, F, P, U, Red2, Null, h2)
  BY <1>1, <1>2, <1>5, <1>h DEF Heights, Node
<1>7. RedRule(N, F, U, Red2 \ {g})
  <2> SUFFICES ASSUME NEW n \in U, n \in Red2 \ {g} PROVE N[n] \notin Red2 \ {g} /\ F[n] \notin Red2 \ {g}
    BY DEF RedRule
  <2>1. n \in Red /\ n \notin {p, u, g}
    BY <1>3
  <2>2. CASE n = a
    BY <2>2, <1>3
  <2>3. CASE n # a
    <3>1. N[n] \notin Red \ {a} /\ F[n] \notin Red \ {a}
      BY <2>1, <2>3 DEF RedRule
    <3>2. P[a] \in {p, u}
      BY DEF p, u
    <3>3. N[n] # a /\ F[n] # a
      BY <3>2, <2>1, <1>h
    <3> QED
      BY <3>1, <3>3, <1>3
  <2> QED
    BY <2>2, <2>3
<1>8. N[g] \notin Red2 /\ F[g] \notin Red2
  BY <1>3, <1>g, <1>1
<1> QED
  BY <1>6, <1>7, <1>8

\* A black sibling with black children turns red: the debt moves up.
LEMMA SiblingReddened ==
  ASSUME NEW lt, NEW N, NEW F, NEW P, NEW r, NEW U, NEW lo, NEW hi,
         Sorted(lt, N, F, P, r, U, lo, hi),
         NEW Red, Red \subseteq Id, NEW d, NEW h, Heights(N, F, P, U, Red, d, h), RedRule(N, F, U, Red),
         NEW x \in U, N[x] = d, P[d] = x, F[x] # Nil, F[x] \notin Red, N[F[x]] \notin Red, F[F[x]] \notin Red,
         NEW Red2, Red2 = Red \cup {F[x]}
  PROVE  RedRule(N, F, U, Red2 \ {x}) /\ \E h2 : Heights(N, F, P, U, Red2, x, h2)
<1> DEFINE w == F[x]
           h2 == [[h EXCEPT ![x] = h[x] - 1] EXCEPT ![w] = h[w] - 1]
<1> USE SessionDbAssumption
<1>h. /\ h \in [Node -> Nat] /\ h[Nil] = 0 /\ U \subseteq Id /\ Nil \notin U /\ Null \notin Node
      /\ \A n \in U :
              /\ n \in Node /\ h[n] \in Nat /\ h[N[n]] \in Nat /\ h[F[n]] \in Nat
              /\ N[n] \in U \cup {Nil} /\ F[n] \in U \cup {Nil} /\ N[n] # n /\ F[n] # n
              /\ (N[n] # Nil => N[n] # F[n] /\ P[N[n]] = n) /\ (F[n] # Nil => P[F[n]] = n)
              /\ h[n] = Wt(Red, n) + h[N[n]] + Owed(P, d, n, N[n])
              /\ h[n] = Wt(Red, n) + h[F[n]] + Owed(P, d, n, F[n])
  BY HeightsAt
<1>1. w \in U /\ w # x /\ P[w] = x /\ d # w /\ P[x] # w /\ d # x /\ w # Nil /\ d \in U \cup {Nil}
  <2>1. w \in U /\ w # x /\ P[w] = x /\ d # x /\ w # Nil /\ d \in U \cup {Nil}
    BY <1>h
  <2>2. P[x] # F[x]
    BY TurnedAround
  <2>3. d # w
    BY <1>h, <2>1
  <2> QED
    BY <2>1, <2>2, <2>3
<1>g. N[x] = d /\ F[x] = w /\ w \notin Red /\ N[w] \notin Red /\ F[w] \notin Red /\ Red2 = Red \cup {w}
  OBVIOUS
<1> HIDE DEF w
<1>3. h[w] = 1 + h[N[w]] /\ h[w] = 1 + h[F[w]] /\ h[x] = Wt(Red, x) + h[w] /\ h[w] = h[d] + 1
  <2>1. Owed(P, d, w, N[w]) = 0 /\ Owed(P, d, w, F[w]) = 0 /\ Owed(P, d, x, w) = 0 /\ Owed(P, d, x, d) = 1
    BY <1>1 DEF Owed
  <2>2. Wt(Red, w) = 1 /\ Wt(Red, x) \in {0, 1}
    BY <1>g DEF Wt
  <2>3. h[w] \in Nat /\ h[x] \in Nat /\ h[d] \in Nat /\ h[N[w]] \in Nat /\ h[F[w]] \in Nat
    BY <1>h, <1>1
  <2>4. h[x] = Wt(Red, x) + h[d] + Owed(P, d, x, d) /\ h[x] = Wt(Red, x) + h[w] + Owed(P, d, x, w)
    BY <1>h, <1>g
  <2>5. h[w] = Wt(Red, w) + h[N[w]] + Owed(P, d, w, N[w]) /\ h[w] = Wt(Red, w) + h[F[w]] + Owed(P, d, w, F[w])
    BY <1>h, <1>1
  <2> QED
    BY <2>1, <2>2, <2>3, <2>4, <2>5
<1>p. h[x] - 1 \in Nat /\ h[w] - 1 \in Nat
  BY <1>3, <1>h, <1>1 DEF Wt
<1>2. h2 \in [Node -> Nat] /\ h2[x] = h[x] - 1 /\ h2[w] = h[w] - 1 /\ \A n \in Node \ {x, w} : h2[n] = h[n]
  BY <1>h, <1>1, <1>p
<1> HIDE DEF h2
<1>4. ASSUME NEW n \in U
      PROVE  /\ h2[n] = Wt(Red2, n) + h2[N[n]] + Owed(P, x, n, N[n])
             /\ h2[n] = Wt(Red2, n) + h2[F[n]] + Owed(P, x, n, F[n])
  <2>1. CASE n = x
    <3>1. h2[d] = h[d] /\ h2[w] = h[w] - 1 /\ h2[x] = h[x] - 1 /\ h[d] \in Nat /\ h[w] \in Nat
      BY <1>1, <1>2, <1>h DEF Node
    <3>2. Owed(P, x, x, d) = 0 /\ Owed(P, x, x, w) = 0
      BY <1>1 DEF Owed
    <3>3. Wt(Red2, x) = Wt(Red, x) /\ Wt(Red, x) \in {0, 1}
      BY <1>1, <1>g DEF Wt
    <3> QED
      BY <3>1, <3>2, <3>3, <2>1, <1>3, <1>g
  <2>2. CASE n = w
    <3>1. N[w] \in Node \ {x, w} /\ F[w] \in Node \ {x, w}
      <4>1. N[w] # x /\ F[w] # x
        BY <1>1, <1>h
      <4> QED
        BY <4>1, <1>1, <1>h DEF Node
    <3>2. h2[N[w]] = h[N[w]] /\ h2[F[w]] = h[F[w]] /\ h2[w] = h[w] - 1 /\ h[N[w]] \in Nat /\ h[F[w]] \in Nat /\ h[w] \in Nat
      BY <3>1, <1>1, <1>2, <1>h
    <3>3. Owed(P, x, w, N[w]) = 0 /\ Owed(P, x, w, F[w]) = 0
      BY <3>1 DEF Owed
    <3>4. Wt(Red2, w) = 0
      BY <1>g DEF Wt
    <3> QED
      BY <3>2, <3>3, <3>4, <2>2, <1>3
  <2>3. CASE n \notin {x, w}
    <3>1. ASSUME NEW m \in {N[n], F[n]}
          PROVE  h2[m] + Owed(P, x, n, m) = h[m] + Owed(P, d, n, m) /\ h2[m] + Owed(P, x, n, m) \in Nat
                 /\ h[m] \in Nat /\ h2[m] \in Nat /\ Owed(P, x, n, m) \in {0, 1} /\ Owed(P, d, n, m) \in {0, 1}
      <4>0. m \in U \cup {Nil} /\ (m # Nil => P[m] = n) /\ h[m] \in Nat /\ m \in Node
        BY <3>1, <1>h DEF Node
      <4>1. m # w /\ Owed(P, d, n, m) = 0
        BY <4>0, <2>3, <1>1 DEF Owed
      <4>2. CASE m = x
        <5>1. Owed(P, x, n, m) = 1
          BY <4>0, <4>2, <1>1, <1>h DEF Owed
        <5> QED
          BY <5>1, <4>0, <4>1, <4>2, <1>2, <1>p
      <4>3. CASE m # x
        <5>1. Owed(P, x, n, m) = 0 /\ h2[m] = h[m]
          BY <4>0, <4>1, <4>3, <1>2 DEF Owed
        <5> QED
          BY <5>1, <4>0, <4>1
      <4> QED
        BY <4>2, <4>3
    <3>2. h2[n] = h[n] /\ Wt(Red2, n) = Wt(Red, n) /\ Wt(Red, n) \in {0, 1} /\ h[n] \in Nat
      BY <2>3, <1>2, <1>h, <1>g DEF Wt
    <3>3. h[n] = Wt(Red, n) + h[N[n]] + Owed(P, d, n, N[n]) /\ h[n] = Wt(Red, n) + h[F[n]] + Owed(P, d, n, F[n])
      BY <1>h
    <3>4. h2[N[n]] + Owed(P, x, n, N[n]) = h[N[n]] + Owed(P, d, n, N[n])
          /\ h[N[n]] \in Nat /\ h2[N[n]] \in Nat /\ Owed(P, x, n, N[n]) \in {0, 1} /\ Owed(P, d, n, N[n]) \in {0, 1}
      BY <3>1
    <3>5. h2[F[n]] + Owed(P, x, n, F[n]) = h[F[n]] + Owed(P, d, n, F[n])
          /\ h[F[n]] \in Nat /\ h2[F[n]] \in Nat /\ Owed(P, x, n, F[n]) \in {0, 1} /\ Owed(P, d, n, F[n]) \in {0, 1}
      BY <3>1
    <3> QED
      BY <3>2, <3>3, <3>4, <3>5
  <2> QED
    BY <2>1, <2>2, <2>3
<1>5. Heights(N, F, P, U, Red2, x, h2)
  <2>1. h2[Nil] = 0
    BY <1>1, <1>2, <1>h DEF Node
  <2> QED
    BY <2>1, <1>2, <1>4 DEF Heights
<1>6. RedRule(N, F, U, Red2 \ {x})
  <2> SUFFICES ASSUME NEW n \in U, n \in Red2 \ {x} PROVE N[n] \notin Red2 \ {x} /\ F[n] \notin Red2 \ {x}
    BY DEF RedRule
  <2>1. CASE n = w
    BY <2>1, <1>g, <1>1, <1>h
  <2>2. CASE n # w
    <3>1. N[n] \notin Red /\ F[n] \notin Red
      BY <2>2, <1>g DEF RedRule
    <3>2. N[n] # w /\ F[n] # w
      BY <1>1, <1>h
    <3> QED
      BY <3>1, <3>2, <1>g
  <2> QED
    BY <2>1, <2>2
<1> QED
  BY <1>5, <1>6

\* A node that is there owes nothing twice.
LEMMA OwingNode ==
  ASSUME NEW lt, NEW N, NEW F, NEW P, NEW r, NEW U, NEW lo, NEW hi,
         Sorted(lt, N, F, P, r, U, lo, hi), NEW d \in U
  PROVE  Owing(N, F, P, U, d)
<1> USE SessionDbAssumption
<1> SUFFICES ASSUME P[d] \in U PROVE d \in {N[P[d]], F[P[d]]} /\ N[P[d]] # F[P[d]]
  BY DEF Owing
<1>1. d # r /\ d # Nil
  BY DEF Sorted, Linked
<1>2. d = N[P[d]] \/ d = F[P[d]]
  BY <1>1 DEF Sorted, Linked
<1>3. N[P[d]] # Nil => N[P[d]] # F[P[d]]
  BY ChildrenDiffer
<1> QED
  BY <1>1, <1>2, <1>3

\* A node that is red, or the root, turns black: nothing is owed any more.
LEMMA Blackened ==
  ASSUME NEW lt, NEW N, NEW F, NEW P, NEW r, NEW U, NEW lo, NEW hi,
         Sorted(lt, N, F, P, r, U, lo, hi),
         NEW Red, NEW d \in U, NEW h, d \in Red \/ d = r, NEW e, e = d \/ (e = Null /\ d = r),
         Heights(N, F, P, U, Red, e, h)
  PROVE  \E h2 : Heights(N, F, P, U, Red \ {d}, Null, h2)
<1> DEFINE h2 == IF d \in Red THEN [h EXCEPT ![d] = h[d] + 1] ELSE h
           Red2 == Red \ {d}
<1> USE SessionDbAssumption
<1>h. /\ h \in [Node -> Nat] /\ h[Nil] = 0 /\ U \subseteq Id /\ Nil \notin U /\ Null \notin Node
      /\ \A n \in U :
              /\ n \in Node /\ h[n] \in Nat /\ h[N[n]] \in Nat /\ h[F[n]] \in Nat
              /\ N[n] \in U \cup {Nil} /\ F[n] \in U \cup {Nil} /\ N[n] # n /\ F[n] # n
              /\ (N[n] # Nil => N[n] # F[n] /\ P[N[n]] = n) /\ (F[n] # Nil => P[F[n]] = n)
              /\ h[n] = Wt(Red, n) + h[N[n]] + Owed(P, e, n, N[n])
              /\ h[n] = Wt(Red, n) + h[F[n]] + Owed(P, e, n, F[n])
  BY HeightsAt
<1>r. d = r => P[d] = Null
  BY DEF Sorted, Linked
<1>n. d \in Node /\ d # Nil
  BY <1>h
<1>1. h2 \in [Node -> Nat] /\ h2[d] = (IF d \in Red THEN h[d] + 1 ELSE h[d]) /\ \A n \in Node \ {d} : h2[n] = h[n]
  BY <1>h, <1>n
<1> HIDE DEF h2
<1>2. ASSUME NEW n \in U, NEW m \in U \cup {Nil}, m # Nil => P[m] = n
      PROVE  h2[m] + Owed(P, Null, n, m) = h[m] + Owed(P, e, n, m)
  <2>0. m \in Node /\ Owed(P, Null, n, m) = 0 /\ h[m] \in Nat /\ Null \notin U
    BY <1>2, <1>h DEF Owed, Node
  <2>1. CASE m = d
    <3>1. d # r
      BY <2>0, <2>1, <1>2, <1>n, <1>r
    <3>2. Owed(P, e, n, m) = 1
      BY <3>1, <2>1, <1>2, <1>n DEF Owed
    <3> QED
      BY <3>1, <3>2, <2>0, <2>1, <1>1
  <2>2. CASE m # d
    <3>1. Owed(P, e, n, m) = 0
      BY <2>0, <2>2 DEF Owed
    <3> QED
      BY <3>1, <2>0, <2>2, <1>1
  <2> QED
    BY <2>1, <2>2
<1>3. ASSUME NEW n \in U
      PROVE  /\ h2[n] = Wt(Red2, n) + h2[N[n]] + Owed(P, Null, n, N[n])
             /\ h2[n] = Wt(Red2, n) + h2[F[n]] + Owed(P, Null, n, F[n])
  <2>1. h2[N[n]] + Owed(P, Null, n, N[n]) = h[N[n]] + Owed(P, e, n, N[n])
    BY <1>2, <1>h
  <2>2. h2[F[n]] + Owed(P, Null, n, F[n]) = h[F[n]] + Owed(P, e, n, F[n])
    BY <1>2, <1>h
  <2>3. h[n] = Wt(Red, n) + (h[N[n]] + Owed(P, e, n, N[n])) /\ h[n] = Wt(Red, n) + (h[F[n]] + Owed(P, e, n, F[n]))
    <3>1. Owed(P, e, n, N[n]) \in {0, 1} /\ Owed(P, e, n, F[n]) \in {0, 1} /\ Wt(Red, n) \in {0, 1}
      BY DEF Owed, Wt
    <3> QED
      BY <3>1, <1>h
  <2>t. /\ h[N[n]] \in Nat /\ h[F[n]] \in Nat /\ h2[N[n]] \in Nat /\ h2[F[n]] \in Nat /\ h[n] \in Nat
        /\ Owed(P, e, n, N[n]) \in {0, 1} /\ Owed(P, e, n, F[n]) \in {0, 1} /\ Wt(Red, n) \in {0, 1}
        /\ Owed(P, Null, n, N[n]) \in {0, 1} /\ Owed(P, Null, n, F[n]) \in {0, 1} /\ Wt(Red2, n) \in {0, 1}
    BY <1>h, <1>1 DEF Owed, Wt, Node
  <2>4. h2[n] - Wt(Red2, n) = h[n] - Wt(Red, n)
    <3>1. CASE n = d /\ d \in Red
      <4>1. Wt(Red, n) = 0 /\ Wt(Red2, n) = 1 /\ h2[n] = h[n] + 1
        BY <3>1, <1>1 DEF Wt
      <4> QED
        BY <4>1, <2>t
    <3>2. CASE ~(n = d /\ d \in Red)
      <4>1. Wt(Red, n) = Wt(Red2, n) /\ h2[n] = h[n]
        BY <3>2, <1>1, <1>h DEF Wt
      <4> QED
        BY <4>1, <2>t
    <3> QED
      BY <3>1, <3>2
  <2>5. h2[n] \in Nat
    BY <1>1, <1>h
  <2> QED
    BY <2>1, <2>2, <2>3, <2>4, <2>5, <2>t
<1>4. h2[Nil] = 0
  BY <1>1, <1>h, <1>n DEF Node
<1> QED
  BY <1>1, <1>3, <1>4 DEF Heights
----------------------------------------------------------------------------
(* Black heights of a tree with a node more, a node less, a node renamed.  *)

\* A new red leaf keeps the black heights; only it may have a red parent.
LEMMA GrownHeights ==
  ASSUME NEW lt, NEW N, NEW F, NEW P, NEW r, NEW U, NEW lo, NEW hi,
         Sorted(lt, N, F, P, r, U, lo, hi), NEW f \in U, N[f] = Nil, NEW k \in Id, k \notin U,
         NEW N2, NEW F2, NEW P2, Grown(N, F, P, f, k, N2, F2, P2),
         NEW Red, Red \subseteq Id, NEW h, Heights(N, F, P, U, Red, Null, h), RedRule(N, F, U, Red),
         NEW Red2, Red2 = Red \cup {k}
  PROVE  /\ \E h2 : Heights(N2, F2, P2, U \cup {k}, Red2, Null, h2)
         /\ RedRule(N2, F2, U \cup {k}, Red2 \ {k}) /\ N2[k] \notin Red2 /\ F2[k] \notin Red2
<1> DEFINE h2 == [h EXCEPT ![k] = 0]
           V == U \cup {k}
<1> USE SessionDbAssumption
<1>h. /\ h \in [Node -> Nat] /\ h[Nil] = 0 /\ U \subseteq Id /\ Nil \notin U /\ Null \notin Node
      /\ \A n \in U :
              /\ n \in Node /\ h[n] \in Nat /\ h[N[n]] \in Nat /\ h[F[n]] \in Nat
              /\ N[n] \in U \cup {Nil} /\ F[n] \in U \cup {Nil} /\ N[n] # n /\ F[n] # n
              /\ (N[n] # Nil => N[n] # F[n] /\ P[N[n]] = n) /\ (F[n] # Nil => P[F[n]] = n)
              /\ h[n] = Wt(Red, n) + h[N[n]] + Owed(P, Null, n, N[n])
              /\ h[n] = Wt(Red, n) + h[F[n]] + Owed(P, Null, n, F[n])
  BY HeightsAt
<1>1. k \in Node /\ k # Nil /\ f # k /\ Nil \in Node
  BY DEF Node
<1>2. /\ N2[k] = Nil /\ F2[k] = Nil /\ N2[f] = k /\ F2[f] = F[f]
      /\ \A n \in U \ {f} : N2[n] = N[n] /\ F2[n] = F[n]
  BY <1>1, <1>h DEF Grown
<1>3. h2 \in [Node -> Nat] /\ h2[k] = 0 /\ \A n \in Node \ {k} : h2[n] = h[n]
  BY <1>h, <1>1
<1> HIDE DEF h2
<1>4. ASSUME NEW n \in V
      PROVE  /\ h2[n] = Wt(Red2, n) + h2[N2[n]] + Owed(P2, Null, n, N2[n])
             /\ h2[n] = Wt(Red2, n) + h2[F2[n]] + Owed(P2, Null, n, F2[n])
  <2>1. CASE n = k
    <3>1. Wt(Red2, k) = 0 /\ Owed(P2, Null, k, Nil) = 0 /\ h2[Nil] = 0
      BY <1>1, <1>3, <1>h DEF Wt, Owed, Node
    <3> QED
      BY <3>1, <2>1, <1>2, <1>3
  <2>2. CASE n \in U
    <3>1. Owed(P2, Null, n, N2[n]) = 0 /\ Owed(P2, Null, n, F2[n]) = 0
          /\ Owed(P, Null, n, N[n]) = 0 /\ Owed(P, Null, n, F[n]) = 0
      <4>1. N2[n] # Null /\ F2[n] # Null /\ N[n] # Null /\ F[n] # Null
        BY <2>2, <1>2, <1>h, <1>1 DEF Node
      <4> QED
        BY <4>1 DEF Owed
    <3>2. h2[n] = h[n] /\ h2[N2[n]] = h[N[n]] /\ h2[F2[n]] = h[F[n]]
      <4>1. n # k /\ N[n] # k /\ F[n] # k /\ N[n] \in Node /\ F[n] \in Node
        BY <2>2, <1>1, <1>h DEF Node
      <4> QED
        BY <4>1, <2>2, <1>2, <1>3, <1>h
    <3>3. Wt(Red2, n) = Wt(Red, n)
      BY <2>2 DEF Wt
    <3> QED
      BY <3>1, <3>2, <3>3, <2>2, <1>h
  <2> QED
    BY <2>1, <2>2
<1>5. h2[Nil] = 0
  BY <1>1, <1>3, <1>h
<1>6. RedRule(N2, F2, V, Red2 \ {k})
  <2> SUFFICES ASSUME NEW n \in U, n \in Red PROVE N2[n] \notin Red2 \ {k} /\ F2[n] \notin Red2 \ {k}
    BY DEF RedRule
  <2>1. N[n] \notin Red /\ F[n] \notin Red
    BY DEF RedRule
  <2> QED
    BY <2>1, <1>2
<1>7. N2[k] \notin Red2 /\ F2[k] \notin Red2
  BY <1>1, <1>2
<1> QED
  BY <1>3, <1>4, <1>5, <1>6, <1>7 DEF Heights

\* A new node k, red, in its place: the ways down are as long as before.
Sprouted(N, F, P, U, Red, k) ==
  /\ \E h : Heights(N, F, P, U, Red, Null, h)
  /\ RedRule(N, F, U, Red \ {k}) /\ N[k] \notin Red /\ F[k] \notin Red

\* The first node, red, is level.
LEMMA RootedHeights ==
  ASSUME NEW k \in Id, NEW N, NEW F, NEW P, NEW N2, NEW F2, NEW P2, Rooted(N, F, P, k, N2, F2, P2),
         NEW Red, Red \subseteq Id, NEW Red2, Red2 = Red \cup {k}
  PROVE  Sprouted(N2, F2, P2, {k}, Red2, k)
<1> DEFINE h2 == [n \in Node |-> 0]
<1> USE SessionDbAssumption
<1>1. k \in Node /\ k # Nil /\ Nil \in Node /\ Nil # Null
  BY DEF Node
<1>2. N2[k] = Nil /\ F2[k] = Nil
  BY <1>1 DEF Rooted
<1>3. Wt(Red2, k) = 0 /\ Owed(P2, Null, k, Nil) = 0
  BY <1>1 DEF Wt, Owed
<1>4. h2 \in [Node -> Nat] /\ h2[k] = 0 /\ h2[Nil] = 0
  BY <1>1
<1> HIDE DEF h2
<1>5. Heights(N2, F2, P2, {k}, Red2, Null, h2)
  BY <1>2, <1>3, <1>4 DEF Heights
<1> QED
  BY <1>2, <1>5, <1>1 DEF RedRule, Sprouted

\* Without y, its only child lacks a black node if y was one; without a red y nothing
\* is lacking.
LEMMA SplicedHeights ==
  ASSUME NEW lt, NEW N, NEW F, NEW P, NEW r, NEW U, NEW lo, NEW hi,
         Sorted(lt, N, F, P, r, U, lo, hi), NEW y \in U, N[y] = Nil,
         NEW N2, NEW F2, NEW P2, NEW r2, SplicedOut(N, F, P, r, y, F[y], N2, F2, P2, r2),
         NEW Red, Red \subseteq Id, NEW h, Heights(N, F, P, U, Red, Null, h), RedRule(N, F, U, Red),
         NEW e, e = IF y \in Red THEN Null ELSE F[y]
  PROVE  /\ Heights(N2, F2, P2, U \ {y}, Red, e, h)
         /\ RedRule(N2, F2, U \ {y}, Red \ {e})
         /\ Owing(N2, F2, P2, U \ {y}, e)
<1> DEFINE c == F[y]
           V == U \ {y}
<1> USE SessionDbAssumption
<1>h. /\ h \in [Node -> Nat] /\ h[Nil] = 0 /\ U \subseteq Id /\ Nil \notin U /\ Null \notin Node
      /\ \A n \in U :
              /\ n \in Node /\ h[n] \in Nat /\ h[N[n]] \in Nat /\ h[F[n]] \in Nat
              /\ N[n] \in U \cup {Nil} /\ F[n] \in U \cup {Nil} /\ N[n] # n /\ F[n] # n
              /\ (N[n] # Nil => N[n] # F[n] /\ P[N[n]] = n) /\ (F[n] # Nil => P[F[n]] = n)
              /\ h[n] = Wt(Red, n) + h[N[n]] + Owed(P, Null, n, N[n])
              /\ h[n] = Wt(Red, n) + h[F[n]] + Owed(P, Null, n, F[n])
  BY HeightsAt
<1>0. \A n \in U : /\ h[n] = Wt(Red, n) + h[N[n]] /\ h[n] = Wt(Red, n) + h[F[n]]
                   /\ Wt(Red, n) \in {0, 1}
  <2> TAKE n \in U
  <2>1. Owed(P, Null, n, N[n]) = 0 /\ Owed(P, Null, n, F[n]) = 0 /\ Wt(Red, n) \in {0, 1}
    BY <1>h DEF Owed, Wt, Node
  <2> QED
    BY <2>1, <1>h
<1>1. /\ c \in U \cup {Nil} /\ c \in Node /\ c # y /\ y # Nil /\ (c # Nil => P[c] = y) /\ h[c] \in Nat /\ h[y] \in Nat
      /\ h[y] = Wt(Red, y) + h[c] /\ c # Null
  BY <1>h, <1>0 DEF Node
<1>2. \A n \in V : /\ N2[n] = IF N[n] = y THEN c ELSE N[n]
                   /\ F2[n] = IF F[n] = y THEN c ELSE F[n]
  BY <1>h DEF SplicedOut
<1>3. P2[c] = P[y] /\ \A n \in Node \ {c} : P2[n] = P[n]
  BY <1>1 DEF SplicedOut
<1>e. e = IF y \in Red THEN Null ELSE c
  OBVIOUS
<1>f. y \in U
  OBVIOUS
<1>l. P[y] \in U => y = N[P[y]] \/ y = F[P[y]]
  <2>1. P[y] \in U => y # r
    BY <1>h DEF Sorted, Linked
  <2> QED
    BY <2>1 DEF Sorted, Linked
<1> HIDE DEF c
\* The other child is not the one that takes the place.
<1>4. ASSUME NEW n \in V, NEW m, m \in U \cup {Nil}, m # y, m # Nil => P[m] = n,
             h[y] = h[m], P[y] = n, y \notin Red
      PROVE  m # c
  <2> SUFFICES ASSUME m = c PROVE FALSE
    OBVIOUS
  <2>1. Wt(Red, y) = 1
    BY <1>4 DEF Wt
  <2> QED
    BY <2>1, <1>1, <1>4
<1>5. \A n \in V : N[n] = y \/ F[n] = y => P[y] = n
  BY <1>1, <1>h
<1>6. ASSUME NEW n \in V
      PROVE  /\ N[n] # y /\ e # Null /\ P[y] = n => N[n] # c
             /\ F[n] # y /\ e # Null /\ P[y] = n => F[n] # c
  <2>1. n \in U /\ (P[y] = n => y = N[n] \/ y = F[n])
    BY <1>l
  <2>2. h[N[n]] = h[F[n]]
    BY <1>0, <1>h
  <2>3. ASSUME N[n] # y, e # Null, P[y] = n PROVE N[n] # c
    <3>1. F[n] = y
      BY <2>1, <2>3
    <3> QED
      BY <3>1, <2>1, <2>2, <2>3, <1>4, <1>h, <1>e
  <2>4. ASSUME F[n] # y, e # Null, P[y] = n PROVE F[n] # c
    <3>1. N[n] = y
      BY <2>1, <2>4
    <3> QED
      BY <3>1, <2>1, <2>2, <2>4, <1>4, <1>h, <1>e
  <2> QED
    BY <2>3, <2>4
<1>7. Owed(P2, e, P[y], c) = Wt(Red, y)
  BY <1>1, <1>3, <1>e DEF Owed, Wt
<1>8. ASSUME NEW n \in V
      PROVE  /\ h[N2[n]] + Owed(P2, e, n, N2[n]) = h[N[n]]
             /\ h[F2[n]] + Owed(P2, e, n, F2[n]) = h[F[n]]
  <2>0. n \in U /\ n \in Node
    BY <1>h
  <2>1. ASSUME NEW m, m \in U \cup {Nil}, m # Nil => P[m] = n, m # y, e # Null /\ P[y] = n => m # c
        PROVE  Owed(P2, e, n, m) = 0
    <3> SUFFICES ASSUME m = e, P2[m] = n PROVE FALSE
      BY DEF Owed
    <3>1. m = c /\ e # Null
      BY <1>e, <1>h, <2>1 DEF Node
    <3>2. P[y] = n
      BY <3>1, <1>3
    <3> QED
      BY <3>1, <3>2, <2>1
  <2>2. CASE N[n] = y
    <3>1. P[y] = n /\ N2[n] = c /\ F[n] # y
      BY <2>2, <1>2, <1>5, <2>0, <1>h, <1>1
    <3>2. Owed(P2, e, n, F[n]) = 0
      BY <3>1, <2>0, <2>1, <1>h, <1>6
    <3> QED
      BY <3>1, <3>2, <2>2, <1>1, <1>2, <1>7, <2>0, <1>h, <1>0
  <2>3. CASE F[n] = y
    <3>1. P[y] = n /\ F2[n] = c /\ N[n] # y
      BY <2>3, <1>2, <1>5, <2>0, <1>h, <1>1
    <3>2. Owed(P2, e, n, N[n]) = 0
      BY <3>1, <2>0, <2>1, <1>h, <1>6
    <3> QED
      BY <3>1, <3>2, <2>3, <1>1, <1>2, <1>7, <2>0, <1>h, <1>0
  <2>4. CASE N[n] # y /\ F[n] # y
    <3>1. Owed(P2, e, n, N[n]) = 0 /\ Owed(P2, e, n, F[n]) = 0
      BY <2>4, <2>0, <2>1, <1>h, <1>6
    <3> QED
      BY <3>1, <2>4, <1>2, <2>0, <1>h
  <2> QED
    BY <2>2, <2>3, <2>4
<1>9. ASSUME NEW n \in V
      PROVE  /\ h[n] = Wt(Red, n) + h[N2[n]] + Owed(P2, e, n, N2[n])
             /\ h[n] = Wt(Red, n) + h[F2[n]] + Owed(P2, e, n, F2[n])
  <2>1. n \in U /\ N2[n] \in U \cup {Nil} /\ F2[n] \in U \cup {Nil}
    BY <1>2, <1>1, <1>h
  <2>2. h[N2[n]] \in Nat /\ h[F2[n]] \in Nat /\ Owed(P2, e, n, N2[n]) \in {0, 1} /\ Owed(P2, e, n, F2[n]) \in {0, 1}
    BY <2>1, <1>h DEF Owed, Node
  <2> QED
    BY <2>1, <2>2, <1>8, <1>0, <1>h
<1>10. Heights(N2, F2, P2, V, Red, e, h)
  BY <1>9, <1>h DEF Heights
<1>11. RedRule(N2, F2, V, Red \ {e})
  <2> SUFFICES ASSUME NEW n \in V, n \in Red PROVE N2[n] \notin Red \ {e} /\ F2[n] \notin Red \ {e}
    BY DEF RedRule
  <2>1. N[n] \notin Red /\ F[n] \notin Red
    BY DEF RedRule
  <2>2. c \notin Red \ {e} \/ y \in Red
    BY <1>e
  <2> QED
    BY <2>1, <2>2, <1>2
<1>12. Owing(N2, F2, P2, V, e)
  <2> SUFFICES ASSUME e \in Node, P2[e] \in V PROVE e \in {N2[P2[e]], F2[P2[e]]} /\ N2[P2[e]] # F2[P2[e]]
    BY DEF Owing
  <2>1. e = c /\ P2[e] = P[y] /\ P[y] \in V /\ e # Null
    BY <1>e, <1>3, <1>h
  <2>2. y = N[P[y]] \/ y = F[P[y]]
    BY <2>1, <1>l
  <2>3. N[P[y]] # F[P[y]]
    BY <2>1, <2>2, <1>h, <1>1
  <2> QED
    BY <2>1, <2>2, <2>3, <1>2, <1>6
<1> QED
  BY <1>10, <1>11, <1>12

\* Renaming keeps the black heights and the rule for red nodes.
LEMMA RenamedHeights ==
  ASSUME NEW lt, NEW N, NEW F, NEW P, NEW r, NEW U, NEW lo, NEW hi,
         Sorted(lt, N, F, P, r, U, lo, hi), NEW z \in U, NEW y \in Id, y \notin U,
         NEW N2, NEW F2, NEW P2, RenamedAs(N, F, P, z, y, N2, F2, P2),
         NEW Red, Red \subseteq Id, NEW d \in U \cup {Nil, Null}, d \in Node => P[d] \in U \cup {Null},
         NEW h, Heights(N, F, P, U, Red, d, h), RedRule(N, F, U, Red \ {d}), Owing(N, F, P, U, d),
         NEW Red2, Red2 \subseteq Id, \A x \in Id : x \in Red2 <=> x # z /\ New(y, z, x) \in Red
  PROVE  LET V == (U \ {z}) \cup {y} IN
         /\ \E h2 : Heights(N2, F2, P2, V, Red2, New(z, y, d), h2)
         /\ RedRule(N2, F2, V, Red2 \ {New(z, y, d)})
         /\ Owing(N2, F2, P2, V, New(z, y, d))
<1> DEFINE V == (U \ {z}) \cup {y}
           n2(x) == New(z, y, x)
           h2 == [x \in Node |-> h[New(y, z, x)]]
<1> USE SessionDbAssumption
<1>h. /\ h \in [Node -> Nat] /\ h[Nil] = 0 /\ U \subseteq Id /\ Nil \notin U /\ Null \notin Node
      /\ \A n \in U :
              /\ n \in Node /\ h[n] \in Nat /\ h[N[n]] \in Nat /\ h[F[n]] \in Nat
              /\ N[n] \in U \cup {Nil} /\ F[n] \in U \cup {Nil} /\ N[n] # n /\ F[n] # n
              /\ (N[n] # Nil => N[n] # F[n] /\ P[N[n]] = n) /\ (F[n] # Nil => P[F[n]] = n)
              /\ h[n] = Wt(Red, n) + h[N[n]] + Owed(P, d, n, N[n])
              /\ h[n] = Wt(Red, n) + h[F[n]] + Owed(P, d, n, F[n])
  BY HeightsAt
<1>n. /\ n2(Nil) = Nil /\ n2(Null) = Null /\ New(y, z, Nil) = Nil
      /\ \A m \in U : n2(m) \in V /\ New(y, z, n2(m)) = m /\ n2(m) # z /\ n2(m) \in Id /\ n2(m) \in Node
      /\ \A n \in V : \E m \in U : n = n2(m)
      /\ \A a, b \in U \cup {Nil, Null} : n2(a) = n2(b) <=> a = b
      /\ \A m \in Node : n2(m) \in Node /\ New(y, z, m) \in Node
  <2>1. Relabels(U, z, y)
    BY <1>h, NewIs
  <2> QED
    BY <2>1, Zenon DEF Relabels
<1>t. h2 \in [Node -> Nat] /\ h2[Nil] = 0 /\ \A m \in U : h2[n2(m)] = h[m]
  BY <1>n, <1>h DEF Node
<1>e. /\ \A m \in U : N2[n2(m)] = n2(N[m]) /\ F2[n2(m)] = n2(F[m]) /\ P2[n2(m)] = n2(P[m])
      /\ P2[Nil] = n2(P[Nil])
  <2>1. \A x \in Node : x # z => /\ N2[x] = New(z, y, N[New(y, z, x)]) /\ F2[x] = New(z, y, F[New(y, z, x)])
                                 /\ P2[x] = New(z, y, P[New(y, z, x)])
    BY DEF RenamedAs
  <2>2. Nil \in Node /\ Nil # z
    BY <1>h DEF Node
  <2>3. P2[Nil] = n2(P[Nil])
    BY <2>1, <2>2, <1>n
  <2>4. \A m \in U : N2[n2(m)] = n2(N[m]) /\ F2[n2(m)] = n2(F[m]) /\ P2[n2(m)] = n2(P[m])
    BY <2>1, <1>n
  <2> QED
    BY <2>3, <2>4
<1>r. \A m \in U : n2(m) \in Red2 <=> m \in Red
  BY <1>n
<1>z. n2(Nil) \notin Red2
  BY <1>n
<1>p. d \in Node => P[d] \in U \cup {Null}
  OBVIOUS
<1>d. d \in U \cup {Nil, Null}
  OBVIOUS
<1> HIDE DEF n2, h2, V
<1>1. ASSUME NEW n \in U, NEW m \in U \cup {Nil}, m # Nil => P[m] = n
      PROVE  h2[n2(m)] = h[m] /\ Owed(P2, n2(d), n2(n), n2(m)) = Owed(P, d, n, m)
  <2>1. h2[n2(m)] = h[m]
    BY <1>t, <1>n, <1>h
  <2>2. n2(m) = n2(d) <=> m = d
    BY <1>n, <1>d
  <2>3. m = d => (P2[n2(m)] = n2(n) <=> P[m] = n)
    <3> SUFFICES ASSUME m = d PROVE P2[n2(m)] = n2(n) <=> P[m] = n
      OBVIOUS
    <3>1. P2[n2(m)] = n2(P[m])
      BY <1>e, <1>n
    <3>2. P[m] \in U \cup {Null}
      BY <1>p, <1>h DEF Node
    <3> QED
      BY <3>1, <3>2, <1>n
  <2> QED
    BY <2>1, <2>2, <2>3 DEF Owed
<1>2. ASSUME NEW n \in V
      PROVE  /\ h2[n] = Wt(Red2, n) + h2[N2[n]] + Owed(P2, n2(d), n, N2[n])
             /\ h2[n] = Wt(Red2, n) + h2[F2[n]] + Owed(P2, n2(d), n, F2[n])
  <2>1. PICK m \in U : n = n2(m)
    BY <1>n
  <2>2. h2[N2[n]] = h[N[m]] /\ Owed(P2, n2(d), n, N2[n]) = Owed(P, d, m, N[m])
    BY <2>1, <1>1, <1>e, <1>h
  <2>3. h2[F2[n]] = h[F[m]] /\ Owed(P2, n2(d), n, F2[n]) = Owed(P, d, m, F[m])
    BY <2>1, <1>1, <1>e, <1>h
  <2>4. h2[n] = h[m] /\ Wt(Red2, n) = Wt(Red, m)
    BY <2>1, <1>t, <1>r DEF Wt
  <2> QED
    BY <2>2, <2>3, <2>4, <1>h
<1>3. Heights(N2, F2, P2, V, Red2, n2(d), h2)
  BY <1>2, <1>t DEF Heights
<1>4. ASSUME NEW m \in U \cup {Nil}, n2(m) \in Red2 \ {n2(d)} PROVE m \in Red \ {d}
  BY <1>4, <1>r, <1>z
<1>5. RedRule(N2, F2, V, Red2 \ {n2(d)})
  <2> SUFFICES ASSUME NEW n \in V, n \in Red2 \ {n2(d)}
               PROVE N2[n] \notin Red2 \ {n2(d)} /\ F2[n] \notin Red2 \ {n2(d)}
    BY DEF RedRule
  <2>1. PICK m \in U : n = n2(m)
    BY <1>n
  <2>2. m \in Red \ {d}
    BY <2>1, <1>r
  <2>3. N[m] \notin Red \ {d} /\ F[m] \notin Red \ {d}
    BY <2>2 DEF RedRule
  <2>4. N2[n] = n2(N[m]) /\ F2[n] = n2(F[m])
    BY <2>1, <1>e
  <2>5. N[m] \in U \cup {Nil} /\ F[m] \in U \cup {Nil}
    BY <1>h
  <2> QED
    BY <2>3, <2>4, <2>5, <1>4
<1>6. Owing(N2, F2, P2, V, n2(d))
  <2> SUFFICES ASSUME n2(d) \in Node, P2[n2(d)] \in V
               PROVE n2(d) \in {N2[P2[n2(d)]], F2[P2[n2(d)]]} /\ N2[P2[n2(d)]] # F2[P2[n2(d)]]
    BY DEF Owing
  <2>1. d \in U \cup {Nil} /\ d \in Node
    BY <1>d, <1>n, <1>h DEF Node
  <2>2. P2[n2(d)] = n2(P[d]) /\ P[d] \in U
    <3>1. P2[n2(d)] = n2(P[d])
      BY <2>1, <1>e, <1>n
    <3>2. P[d] # Null
      BY <3>1, <1>n, <1>h DEF V
    <3> QED
      BY <3>1, <3>2, <2>1, <1>p
  <2>3. d \in {N[P[d]], F[P[d]]} /\ N[P[d]] # F[P[d]]
    BY <2>1, <2>2 DEF Owing
  <2>4. N2[n2(P[d])] = n2(N[P[d]]) /\ F2[n2(P[d])] = n2(F[P[d]]) /\ N[P[d]] \in U \cup {Nil} /\ F[P[d]] \in U \cup {Nil}
    BY <2>2, <1>e, <1>h
  <2> QED
    BY <2>2, <2>3, <2>4, <1>n
<1> QED
  BY <1>3, <1>5, <1>6 DEF V, n2
----------------------------------------------------------------------------
(* Colours.                                                                *)

\* The red nodes of t.
Reds(t) == {n \in Id : ~t.black[n]}

\* A search tree of the ids U; its black heights agree but for what d lacks; and no node
\* of Red has a child in Red.
Good(t, U)     == t \in Trees /\ t.black[Nil] = TRUE /\ Shaped(t, U)
Level(t, U, d) == \E h : Heights(t.left, t.right, t.parent, U, Reds(t), d, h)
Quiet(t, U, Red) == RedRule(t.left, t.right, U, Red)

\* These look the same from both sides.
LEMMA Seen ==
  ASSUME NEW t, NEW U, NEW l \in BOOLEAN
  PROVE  /\ \A d : Level(t, U, d) <=> \E h : Heights(Near(t, l), Far(t, l), t.parent, U, Reds(t), d, h)
         /\ \A Red : Quiet(t, U, Red) <=> RedRule(Near(t, l), Far(t, l), U, Red)
         /\ \A d : Owing(t.left, t.right, t.parent, U, d) <=> Owing(Near(t, l), Far(t, l), t.parent, U, d)
         /\ \A P, r : Linked(t.left, t.right, P, r, U) <=> Linked(Near(t, l), Far(t, l), P, r, U)
<1>1. ASSUME NEW N, NEW F
      PROVE  /\ \A d, h, P, Red : Heights(N, F, P, U, Red, d, h) <=> Heights(F, N, P, U, Red, d, h)
             /\ \A Red : RedRule(N, F, U, Red) <=> RedRule(F, N, U, Red)
             /\ \A d, P : Owing(N, F, P, U, d) <=> Owing(F, N, P, U, d)
             /\ \A P, r : Linked(N, F, P, r, U) <=> Linked(F, N, P, r, U)
  <2>1. \A d, h, P, Red : Heights(N, F, P, U, Red, d, h) <=> Heights(F, N, P, U, Red, d, h)
    BY DEF Heights
  <2>2. \A Red : RedRule(N, F, U, Red) <=> RedRule(F, N, U, Red)
    BY DEF RedRule
  <2>3. \A d, P : Owing(N, F, P, U, d) <=> Owing(F, N, P, U, d)
    BY DEF Owing
  <2>4. \A P, r : Linked(N, F, P, r, U) <=> Linked(F, N, P, r, U)
    BY DEF Linked
  <2> QED
    BY <2>1, <2>2, <2>3, <2>4
<1>2. CASE l = TRUE
  <2>1. Near(t, l) = t.left /\ Far(t, l) = t.right
    BY <1>2, NearFar, Zenon
  <2> QED
    BY <2>1 DEF Level, Quiet
<1>3. CASE l = FALSE
  <2>1. Near(t, l) = t.right /\ Far(t, l) = t.left
    BY <1>3, NearFar, Zenon
  <2> QED
    BY <2>1, <1>1 DEF Level, Quiet
<1> QED
  BY <1>2, <1>3

\* The sides, and the child on one.
LEMMA Sides ==
  ASSUME NEW l \in BOOLEAN
  PROVE  /\ (~l) \in BOOLEAN
         /\ \A t : Near(t, ~l) = Far(t, l) /\ Far(t, ~l) = Near(t, l)
         /\ \A t, x : Child(t, x, l) = Near(t, l)[x] /\ Child(t, x, ~l) = Far(t, l)[x]
<1>1. \A t : Near(t, ~l) = Far(t, l) /\ Far(t, ~l) = Near(t, l)
  BY Zenon DEF Near, Far
<1>2. \A t, x : Child(t, x, l) = Near(t, l)[x]
  <2> TAKE t, x
  <2>1. CASE l = TRUE
    BY <2>1, Zenon DEF Near, Child
  <2>2. CASE l = FALSE
    BY <2>2, Zenon DEF Near, Child
  <2> QED
    BY <2>1, <2>2
<1>3. \A t, x : Child(t, x, ~l) = Far(t, l)[x]
  <2> TAKE t, x
  <2>1. CASE l = TRUE
    BY <2>1, Zenon DEF Far, Child
  <2>2. CASE l = FALSE
    BY <2>2, Zenon DEF Far, Child
  <2> QED
    BY <2>1, <2>2
<1> QED
  BY <1>1, <1>2, <1>3, Zenon

\* A child is on the side IsLeft says.
LEMMA SideOf ==
  ASSUME NEW t, NEW d, d \in {t.left[t.parent[d]], t.right[t.parent[d]]}
  PROVE  IsLeft(t, d) \in BOOLEAN /\ Near(t, IsLeft(t, d))[t.parent[d]] = d
<1>1. CASE d = t.left[t.parent[d]]
  BY <1>1, Zenon DEF IsLeft, Near
<1>2. CASE d # t.left[t.parent[d]]
  <2>1. d = t.right[t.parent[d]]
    BY <1>2
  <2>2. IsLeft(t, d) = FALSE
    BY <1>2, Zenon DEF IsLeft
  <2> QED
    BY <2>1, <2>2, NearFar, Zenon
<1> QED
  BY <1>1, <1>2

\* A node is black or in Reds.
LEMMA Coloured ==
  ASSUME NEW t \in Trees, NEW n \in Node, t.black[Nil] = TRUE
  PROVE  /\ t.black[n] \in BOOLEAN /\ (t.black[n] <=> n \notin Reds(t)) /\ Reds(t) \subseteq Id
         /\ Nil \notin Reds(t)
<1> USE SessionDbAssumption
<1>1. t.black \in [Node -> BOOLEAN]
  BY DEF Trees
<1>2. t.black[n] \in BOOLEAN
  BY <1>1
<1>3. Reds(t) \subseteq Id /\ Nil \notin Reds(t)
  BY DEF Reds
<1>4. n = Nil \/ n \in Id
  BY DEF Node
<1>5. CASE n = Nil
  BY <1>2, <1>3, <1>5, Zenon
<1>6. CASE n \in Id
  <2>1. n \in Reds(t) <=> ~t.black[n]
    BY <1>6, Zenon DEF Reds
  <2> QED
    BY <2>1, <1>2, <1>3, Zenon
<1> QED
  BY <1>4, <1>5, <1>6

\* Paint on a tree in parts.
LEMMA PaintIs ==
  ASSUME NEW r, NEW L, NEW R, NEW P, NEW B, NEW n, NEW b
  PROVE  Paint(TreeOf(r, L, R, P, B), n, b) = TreeOf(r, L, R, P, With(B, n, b))
BY DEF Paint, TreeOf, With

\* What painting changes.
LEMMA Painted ==
  ASSUME NEW t \in Trees, t.black[Nil] = TRUE, NEW n \in Node, NEW b \in BOOLEAN, b = TRUE \/ n # Nil
  PROVE  LET u == Paint(t, n, b) IN
         /\ u \in Trees /\ u.black[Nil] = TRUE
         /\ u.left = t.left /\ u.right = t.right /\ u.parent = t.parent /\ u.root = t.root
         /\ Reds(u) = IF b THEN Reds(t) \ {n} ELSE Reds(t) \cup {n}
<1> DEFINE u == Paint(t, n, b)
           B == With(t.black, n, b)
<1> USE SessionDbAssumption
<1>1. t.black \in [Node -> BOOLEAN]
  BY DEF Trees
<1>2. B \in [Node -> BOOLEAN] /\ B[n] = b /\ \A m \in Node : m # n => B[m] = t.black[m]
  BY <1>1, Zenon DEF With
<1>3. u = TreeOf(t.root, t.left, t.right, t.parent, B)
  <2>1. t = TreeOf(t.root, t.left, t.right, t.parent, t.black)
    BY TreeIs
  <2> QED
    BY <2>1, PaintIs
<1> HIDE DEF B
<1>4. u.left = t.left /\ u.right = t.right /\ u.parent = t.parent /\ u.root = t.root /\ u.black = B
  BY <1>3, TreeFields
<1>5. u \in Trees
  <2>1. t.root \in Node /\ t.left \in [Node -> Node] /\ t.right \in [Node -> Node]
        /\ t.parent \in [Node -> Id \cup {Null}]
    BY DEF Trees
  <2> QED
    BY <2>1, <1>2, <1>3, TreeTyped
<1> HIDE DEF u
<1>n. Nil \in Node /\ \A m \in Id : m \in Node
  BY DEF Node
<1>6. u.black[Nil] = TRUE
  <2>1. CASE n = Nil
    BY <2>1, <1>2, <1>4, Zenon
  <2>2. CASE n # Nil
    <3>1. B[Nil] = t.black[Nil]
      BY <2>2, <1>2, <1>n
    <3> QED
      BY <3>1, <1>4, Zenon
  <2> QED
    BY <2>1, <2>2
<1>7. \A m : m \in Reds(u) <=> m \in Id /\ ~B[m]
  BY <1>4, Zenon DEF Reds
<1>8. \A m : m \in Reds(t) <=> m \in Id /\ ~t.black[m]
  BY Zenon DEF Reds
<1>9. CASE b = TRUE
  <2>1. \A m : m \in Reds(u) <=> m \in Reds(t) /\ m # n
    BY <1>2, <1>7, <1>8, <1>9, <1>n, Zenon
  <2>2. Reds(u) = Reds(t) \ {n}
    BY <2>1
  <2> QED
    BY <2>2, <1>4, <1>5, <1>6, <1>9, Zenon DEF u
<1>10. CASE b = FALSE
  <2>0. n # Nil
    BY <1>10, Zenon
  <2>i. n \in Id
    BY <2>0 DEF Node
  <2>1. \A m : m \in Reds(u) <=> m \in Reds(t) \/ m = n
    <3> TAKE m
    <3>1. CASE m = n
      BY <3>1, <1>2, <1>7, <1>10, <2>i, Zenon
    <3>2. CASE m # n
      BY <3>2, <1>2, <1>7, <1>8, <1>n, Zenon
    <3> QED
      BY <3>1, <3>2
  <2>2. Reds(u) = Reds(t) \cup {n}
    BY <2>1
  <2> QED
    BY <2>2, <1>4, <1>5, <1>6, <1>10, Zenon DEF u
<1> QED
  BY <1>9, <1>10

\* Both children, from either side.
LEMMA ChildrenSeen ==
  ASSUME NEW t, NEW x, NEW S, NEW l \in BOOLEAN
  PROVE  t.left[x] \notin S /\ t.right[x] \notin S <=> Near(t, l)[x] \notin S /\ Far(t, l)[x] \notin S
<1>1. CASE l = TRUE
  BY <1>1, NearFar, Zenon
<1>2. CASE l = FALSE
  BY <1>2, NearFar, Zenon
<1> QED
  BY <1>1, <1>2

\* A rotation of a good tree, with all that is needed of it.
LEMMA Spun ==
  ASSUME NEW t, NEW U, Good(t, U), NEW x \in U, NEW l \in BOOLEAN, Far(t, l)[x] # Nil
  PROVE  LET u == Rotate(t, x, l) IN
         /\ Good(u, U) /\ Reds(u) = Reds(t)
         /\ Swung(Near(t, l), Far(t, l), t.parent, t.root, U, x, Near(u, l), Far(u, l), u.parent)
         /\ u.root = IF x = t.root THEN Far(t, l)[x] ELSE t.root
<1> DEFINE u == Rotate(t, x, l)
<1>1. t \in Trees /\ t.black[Nil] = TRUE /\ Shaped(t, U)
  BY DEF Good
<1>2. u \in Trees /\ Shaped(u, U) /\ Turning(t, u, x, l)
  BY <1>1, RotateTurns
<1> HIDE DEF u
<1>3. /\ Turned(Near(t, l), Far(t, l), t.parent, t.root, x, Near(u, l), Far(u, l), u.parent, u.root)
      /\ u.black = t.black
  BY <1>2 DEF Turning
<1>4. PICK lt, lo, hi : Sorted(lt, Near(t, l), Far(t, l), t.parent, t.root, U, lo, hi)
  BY <1>1, ShapeSeen
<1>5. Swung(Near(t, l), Far(t, l), t.parent, t.root, U, x, Near(u, l), Far(u, l), u.parent)
  BY <1>3, <1>4, SwungAround
<1>6. u.root = IF x = t.root THEN Far(t, l)[x] ELSE t.root
  BY <1>3 DEF Turned
<1>7. Good(u, U) /\ Reds(u) = Reds(t)
  BY <1>1, <1>2, <1>3 DEF Good, Reds
<1> QED
  BY <1>5, <1>6, <1>7 DEF u
----------------------------------------------------------------------------
(* The fix-up of an insertion.                                             *)

\* During the fix-up of an insertion: all is well, but the red node a may have a red
\* parent, or be the root.
Reddened(t, U, a) ==
  /\ Good(t, U) /\ Level(t, U, Null) /\ a \in U /\ a \in Reds(t)
  /\ Quiet(t, U, Reds(t) \ {a}) /\ t.left[a] \notin Reds(t) /\ t.right[a] \notin Reds(t)
  /\ t.root \notin Reds(t) \/ t.root = a

\* What is known of a good tree, seen from one side.
Plain(N, F, P, r, U) ==
  /\ U \subseteq Id /\ Nil \notin U /\ Null \notin U /\ Null \notin Node
  /\ \A n \in U : n \in Node /\ n # Nil /\ P[n] # n
  /\ \A n \in U :
       /\ N[n] \in U \cup {Nil} /\ F[n] \in U \cup {Nil} /\ N[n] # n /\ F[n] # n
       /\ (N[n] # Nil => N[n] # F[n] /\ P[N[n]] = n)
       /\ (F[n] # Nil => P[F[n]] = n)
  /\ \A n \in U : n # r => P[n] \in U /\ n \in {N[P[n]], F[P[n]]}
  /\ (r \in U /\ P[r] = Null) \/ (r = Nil /\ U = {})

\* A good tree is plain from both sides.
LEMMA GoodSeen ==
  ASSUME NEW t, NEW U, Good(t, U), NEW l \in BOOLEAN
  PROVE  /\ Plain(Near(t, l), Far(t, l), t.parent, t.root, U)
         /\ t \in Trees /\ t.black[Nil] = TRUE /\ Reds(t) \subseteq Id /\ Nil \notin Reds(t)
<1> USE SessionDbAssumption
<1>1. PICK lt, lo, hi : Sorted(lt, Near(t, l), Far(t, l), t.parent, t.root, U, lo, hi)
  BY ShapeSeen DEF Good
<1>2. t \in Trees /\ t.black[Nil] = TRUE
  BY DEF Good
<1>3. U \subseteq Id /\ Nil \notin U /\ Null \notin U /\ Null \notin Node /\ \A n \in U : n \in Node /\ n # Nil
  BY <1>1 DEF Sorted, Linked, Node
<1> DEFINE N == Near(t, l)
           F == Far(t, l)
           P == t.parent
           r == t.root
<1>s. Sorted(lt, N, F, P, r, U, lo, hi)
  BY <1>1
<1> HIDE DEF N, F, P, r
<1>4. \A n \in U : /\ N[n] \in U \cup {Nil} /\ F[n] \in U \cup {Nil} /\ N[n] # n /\ F[n] # n
                   /\ (N[n] # Nil => N[n] # F[n] /\ P[N[n]] = n)
                   /\ (F[n] # Nil => P[F[n]] = n)
  BY <1>s, Apart
<1>5. /\ \A n \in U : n # r => P[n] \in U /\ n \in {N[P[n]], F[P[n]]}
      /\ (r \in U /\ P[r] = Null) \/ (r = Nil /\ U = {})
  BY <1>s DEF Sorted, Linked
<1>6. \A n \in U : P[n] # n
  BY <1>3, <1>4, <1>5
<1>7. Reds(t) \subseteq Id /\ Nil \notin Reds(t)
  BY DEF Reds
<1>8. Plain(N, F, P, r, U)
  BY <1>3, <1>4, <1>5, <1>6 DEF Plain
<1> QED
  BY <1>2, <1>7, <1>8 DEF N, F, P, r

\* u is the good tree t with the red nodes of Red.
Repainted(t, u, U, Red) ==
  /\ Good(u, U) /\ u.left = t.left /\ u.right = t.right /\ u.parent = t.parent /\ u.root = t.root
  /\ \A l : Near(u, l) = Near(t, l) /\ Far(u, l) = Far(t, l)
  /\ Reds(u) = Red

\* What painting a good tree makes of it.
LEMMA PaintedBlack ==
  ASSUME NEW t, NEW U, Good(t, U), NEW n \in Node
  PROVE  Repainted(t, Paint(t, n, TRUE), U, Reds(t) \ {n})
<1> DEFINE u == Paint(t, n, TRUE)
<1>1. t \in Trees /\ t.black[Nil] = TRUE /\ Shaped(t, U)
  BY DEF Good
<1>2. /\ u \in Trees /\ u.black[Nil] = TRUE
      /\ u.left = t.left /\ u.right = t.right /\ u.parent = t.parent /\ u.root = t.root
      /\ Reds(u) = Reds(t) \ {n}
  BY <1>1, Painted, Zenon
<1> HIDE DEF u
<1>3. Shaped(u, U)
  BY <1>1, <1>2 DEF Shaped
<1>4. \A l : Near(u, l) = Near(t, l) /\ Far(u, l) = Far(t, l)
  BY <1>2, Zenon DEF Near, Far
<1>5. Repainted(t, u, U, Reds(t) \ {n})
  BY <1>2, <1>3, <1>4, Zenon DEF Good, Repainted
<1> QED
  BY <1>5 DEF u

LEMMA PaintedRed ==
  ASSUME NEW t, NEW U, Good(t, U), NEW n \in Node, n # Nil
  PROVE  Repainted(t, Paint(t, n, FALSE), U, Reds(t) \cup {n})
<1> DEFINE u == Paint(t, n, FALSE)
<1>1. t \in Trees /\ t.black[Nil] = TRUE /\ Shaped(t, U)
  BY DEF Good
<1>2. /\ u \in Trees /\ u.black[Nil] = TRUE
      /\ u.left = t.left /\ u.right = t.right /\ u.parent = t.parent /\ u.root = t.root
      /\ Reds(u) = Reds(t) \cup {n}
  BY <1>1, Painted, Zenon
<1> HIDE DEF u
<1>3. Shaped(u, U)
  BY <1>1, <1>2 DEF Shaped
<1>4. \A l : Near(u, l) = Near(t, l) /\ Far(u, l) = Far(t, l)
  BY <1>2, Zenon DEF Near, Far
<1>5. Repainted(t, u, U, Reds(t) \cup {n})
  BY <1>2, <1>3, <1>4, Zenon DEF Good, Repainted
<1> QED
  BY <1>5 DEF u

LEMMA RepaintedTwice ==
  ASSUME NEW t, NEW u, NEW v, NEW U, NEW R1, NEW R2, Repainted(t, u, U, R1), Repainted(u, v, U, R2)
  PROVE  Repainted(t, v, U, R2)
BY Zenon DEF Repainted

\* A repainted tree has the links it had.
LEMMA RepaintedIs ==
  ASSUME NEW t, NEW u, NEW U, NEW Red, Repainted(t, u, U, Red), NEW l
  PROVE  /\ Good(u, U) /\ u.left = t.left /\ u.right = t.right /\ u.parent = t.parent
         /\ u.root = t.root /\ Near(u, l) = Near(t, l) /\ Far(u, l) = Far(t, l) /\ Reds(u) = Red
BY Zenon DEF Repainted

\* The cases of InsertTurn: the last, with red nodes in line; a red uncle; and the
\* inner node, which goes out first.
LEMMA InsertOuter ==
  ASSUME NEW t, NEW U, NEW z, Reddened(t, U, z), NEW q, q = t.parent[z], q \in U, q \in Reds(t),
         NEW g \in U, g = t.parent[q], NEW l \in BOOLEAN,
         Far(t, l)[g] = q, Far(t, l)[q] = z, Near(t, l)[g] \notin Reds(t)
  PROVE  Reddened(Rotate(Paint(Paint(t, q, TRUE), g, FALSE), g, l), U, z)
<1> DEFINE t1 == Paint(t, q, TRUE)
           v == Paint(t1, g, FALSE)
           u == Rotate(v, g, l)
           N == Near(t, l)
           F == Far(t, l)
           P == t.parent
           Red == Reds(t)
           Red2 == (Red \ {q}) \cup {g}
<1> USE SessionDbAssumption
<1>0. Good(t, U) /\ z \in U /\ z \in Red /\ Quiet(t, U, Red \ {z}) /\ Level(t, U, Null)
      /\ t.left[z] \notin Red /\ t.right[z] \notin Red /\ (t.root \notin Red \/ t.root = z)
  BY DEF Reddened
<1>w. Plain(N, F, P, t.root, U) /\ Red \subseteq Id /\ Nil \notin Red
  BY <1>0, GoodSeen
<1>g. /\ U \subseteq Id /\ Nil \notin U /\ Null \notin U /\ Null \notin Node
      /\ \A n \in U : n \in Node /\ n # Nil /\ P[n] # n
      /\ \A n \in U :
              /\ N[n] \in U \cup {Nil} /\ F[n] \in U \cup {Nil} /\ N[n] # n /\ F[n] # n
              /\ (N[n] # Nil => N[n] # F[n] /\ P[N[n]] = n)
              /\ (F[n] # Nil => P[F[n]] = n)
      /\ (t.root \in U /\ P[t.root] = Null) \/ (t.root = Nil /\ U = {})
  BY <1>w DEF Plain
<1>n. q \in Node /\ g \in Node /\ g # Nil /\ q # Nil /\ q # g /\ z # q
  BY <1>g, <1>0
<1>1. Repainted(t, t1, U, Red \ {q})
  BY <1>0, <1>n, PaintedBlack
<1> HIDE DEF t1
<1>11. Good(t1, U) /\ Reds(t1) = Red \ {q}
  BY <1>1, Zenon DEF Repainted
<1>12. Repainted(t1, v, U, Red2)
  <2>1. Repainted(t1, v, U, Reds(t1) \cup {g})
    BY <1>11, <1>n, PaintedRed
  <2> QED
    BY <2>1, <1>11
<1> HIDE DEF v
<1>v. Repainted(t, v, U, Red2)
  BY <1>1, <1>12, RepaintedTwice
<1>2. /\ Good(v, U) /\ v.left = t.left /\ v.right = t.right /\ v.parent = P /\ v.root = t.root
      /\ Near(v, l) = N /\ Far(v, l) = F /\ Reds(v) = Red2
  BY <1>v, RepaintedIs
<1>x. F[g] = q /\ F[q] = z /\ N[g] \notin Red /\ q \in Red /\ P[q] = g
  OBVIOUS
<1>4. PICK h : Heights(N, F, P, U, Red, Null, h)
  BY <1>0, Seen
<1>5. RedRule(N, F, U, Red \ {z})
  BY <1>0, Seen
<1>6. N[z] \notin Red /\ F[z] \notin Red
  BY <1>0, ChildrenSeen
<1> HIDE DEF N, F, P, Red, Red2
<1>3. /\ Good(u, U) /\ Reds(u) = Red2
      /\ Swung(N, F, P, t.root, U, g, Near(u, l), Far(u, l), u.parent)
      /\ u.root = IF g = t.root THEN q ELSE t.root
  BY <1>2, <1>x, <1>n, Spun
<1>r. t.root \notin Red
  BY <1>0, <1>g, <1>n, <1>x DEF P
<1> HIDE DEF u
<1>7. g \notin Red
  <2>1. g # z
    BY <1>6, <1>x
  <2> QED
    BY <2>1, <1>5, <1>x, <1>n, <1>0 DEF RedRule
<1>8. N[q] \notin Red
  <2>1. N[q] \notin Red \ {z}
    BY <1>5, <1>x, <1>n, <1>0 DEF RedRule
  <2>2. N[q] # z
    BY <1>x, <1>g, <1>0
  <2> QED
    BY <2>1, <2>2
<1>s. Red2 = (Red \ {F[g]}) \cup {g}
  BY <1>x DEF Red2
<1>9. RedRule(Near(u, l), Far(u, l), U, Red2)
  BY <1>3, <1>5, <1>6, <1>7, <1>8, <1>x, <1>s, <1>w, SwungRedRule
<1>10. \E h2 : Heights(Near(u, l), Far(u, l), u.parent, U, Red2, Null, h2)
  <2>1. Owing(N, F, P, U, Null) /\ Null \notin Node
    BY <1>g DEF Owing
  <2>2. Red2 = IF g \in Red THEN Red ELSE (Red \ {F[g]}) \cup {g}
    BY <1>7, <1>s
  <2>3. F[g] \in Red /\ Null # g /\ Null # F[g]
    BY <1>x, <1>g
  <2> QED
    BY <1>3, <1>4, <2>1, <2>2, <2>3, SwungHeights
<1>lv. Level(u, U, Null) /\ Quiet(u, U, Red2)
  BY <1>3, <1>9, <1>10, Seen
<1>zr. z \in Red2
  BY <1>0, <1>n DEF Red2
<1>ch. u.left[z] \notin Red2 /\ u.right[z] \notin Red2
  BY <1>lv, <1>zr, <1>0 DEF Quiet, RedRule
<1>qu. Quiet(u, U, Red2 \ {z})
  BY <1>lv DEF Quiet, RedRule
<1>ro. u.root \notin Red2
  BY <1>3, <1>r, <1>n DEF Red2
<1> QED
  BY <1>0, <1>3, <1>lv, <1>zr, <1>ch, <1>qu, <1>ro DEF Reddened, u, v, t1

\* The node a of the fix-up after an insertion, its red parent and its grandparent.
LEMMA RedParent ==
  ASSUME NEW t, NEW U, NEW a, Reddened(t, U, a), a # t.root, t.parent[a] \in Reds(t)
  PROVE  LET p == t.parent[a]  g == t.parent[p]  l == IsLeft(t, p) IN
         /\ p \in U /\ p # a /\ p # t.root /\ g \in U /\ g # p /\ l \in BOOLEAN
         /\ Near(t, l)[g] = p /\ a \in {Near(t, l)[p], Far(t, l)[p]} /\ g \notin Reds(t) /\ g # a
         /\ t.root \notin Reds(t) /\ Far(t, l)[g] \in U \cup {Nil} /\ Far(t, l)[g] # p
<1> DEFINE p == t.parent[a]
           g == t.parent[p]
           l == IsLeft(t, p)
<1>0. Good(t, U) /\ a \in U /\ a \in Reds(t) /\ Quiet(t, U, Reds(t) \ {a})
      /\ t.left[a] \notin Reds(t) /\ t.right[a] \notin Reds(t) /\ (t.root \notin Reds(t) \/ t.root = a)
  BY DEF Reddened
<1>1. Near(t, TRUE) = t.left /\ Far(t, TRUE) = t.right
  BY NearFar
<1>2. Plain(t.left, t.right, t.parent, t.root, U)
  BY <1>0, <1>1, GoodSeen
<1>3. p \in U /\ a \in {t.left[p], t.right[p]} /\ p # a /\ p # t.root
  BY <1>0, <1>2 DEF Plain
<1>4. g \in U /\ p \in {t.left[g], t.right[g]} /\ g # p
  BY <1>3, <1>2 DEF Plain
<1>5. l \in BOOLEAN /\ Near(t, l)[g] = p
  BY <1>4, SideOf
<1> HIDE DEF l
<1>6. Plain(Near(t, l), Far(t, l), t.parent, t.root, U)
  BY <1>0, <1>5, GoodSeen
<1>7. a \in {Near(t, l)[p], Far(t, l)[p]}
  <2>1. CASE l = TRUE
    BY <2>1, <1>3, <1>1
  <2>2. CASE l = FALSE
    BY <2>2, <1>3, NearFar
  <2> QED
    BY <2>1, <2>2, <1>5
<1>8. g # a
  BY <1>0, <1>4
<1>9. g \notin Reds(t)
  BY <1>0, <1>4, <1>8 DEF Quiet, RedRule
<1>10. Far(t, l)[g] \in U \cup {Nil} /\ Far(t, l)[g] # p
  BY <1>6, <1>5, <1>4, <1>3 DEF Plain
<1>11. t.root \notin Reds(t)
  BY <1>0
<1> QED
  BY <1>3, <1>4, <1>5, <1>7, <1>8, <1>9, <1>10, <1>11 DEF l

LEMMA InsertUncle ==
  ASSUME NEW t, NEW U, NEW a, Reddened(t, U, a), NEW g \in U, NEW l \in BOOLEAN,
         NEW p, p = Near(t, l)[g], p = t.parent[a], p \in Reds(t), g \notin Reds(t),
         NEW y, y = Far(t, l)[g], y \in Reds(t), t.root \notin Reds(t)
  PROVE  Reddened(Paint(Paint(Paint(t, p, TRUE), y, TRUE), g, FALSE), U, g)
<1> DEFINE t1 == Paint(t, p, TRUE)
           t2 == Paint(t1, y, TRUE)
           u == Paint(t2, g, FALSE)
           N == Near(t, l)
           F == Far(t, l)
           P == t.parent
           Red == Reds(t)
           Red2 == (Red \ {N[g], F[g]}) \cup {g}
<1>0. Good(t, U) /\ a \in U /\ Quiet(t, U, Red \ {a}) /\ Level(t, U, Null)
      /\ t.left[a] \notin Red /\ t.right[a] \notin Red
  BY DEF Reddened
<1>g. Plain(N, F, P, t.root, U) /\ Red \subseteq Id /\ Nil \notin Red
  BY <1>0, GoodSeen
<1>n. p \in Node /\ y \in Node /\ g \in Node /\ g # Nil
  BY <1>g DEF Plain, Node
<1>1. Repainted(t, t1, U, Red \ {p})
  BY <1>0, <1>n, PaintedBlack
<1> HIDE DEF t1
<1>2. Good(t1, U) /\ Reds(t1) = Red \ {p}
  BY <1>1, Zenon DEF Repainted
<1>3. Repainted(t1, t2, U, Reds(t1) \ {y})
  BY <1>2, <1>n, PaintedBlack
<1> HIDE DEF t2
<1>4. Good(t2, U) /\ Reds(t2) = Reds(t1) \ {y}
  BY <1>3, Zenon DEF Repainted
<1>5. Repainted(t2, u, U, Reds(t2) \cup {g})
  BY <1>4, <1>n, PaintedRed
<1> HIDE DEF u
<1>6. Repainted(t, u, U, Reds(t2) \cup {g})
  <2>1. Repainted(t, t2, U, Reds(t1) \ {y})
    BY <1>1, <1>3, RepaintedTwice
  <2> QED
    BY <2>1, <1>5, RepaintedTwice
<1>s. Reds(t2) \cup {g} = Red2
  BY <1>2, <1>4
<1> HIDE DEF Red2
<1>7. Good(u, U) /\ Reds(u) = Red2 /\ Near(u, l) = N /\ Far(u, l) = F /\ u.parent = P /\ u.root = t.root
  BY <1>6, <1>s, Zenon DEF Repainted
<1>8. PICK h : Heights(N, F, P, U, Red, Null, h)
  BY <1>0, Seen
<1>9. RedRule(N, F, U, Red \ {a}) /\ N[a] \notin Red /\ F[a] \notin Red
  BY <1>0, Seen, ChildrenSeen
<1>10. PICK lt, lo, hi : Sorted(lt, N, F, P, t.root, U, lo, hi)
  BY <1>0, ShapeSeen DEF Good
<1>x. N[g] \in Red /\ F[g] \in Red /\ P[a] \in {N[g], F[g]} /\ g \notin Red /\ Red \subseteq Id
  BY <1>g
<1>r. Red2 = (Red \ {N[g], F[g]}) \cup {g}
  BY DEF Red2
<1> HIDE DEF N, F, P, Red
<1>11. (\E h2 : Heights(N, F, P, U, Red2, Null, h2)) /\ RedRule(N, F, U, Red2 \ {g})
       /\ N[g] \notin Red2 /\ F[g] \notin Red2
  <2>1. a \in U /\ g \in U
    BY <1>0
  <2> HIDE DEF u
  <2> QED
    BY ONLY <2>1, <1>8, <1>9, <1>10, <1>x, <1>r, RaisedRed
<1>12. Level(u, U, Null) /\ Quiet(u, U, Red2 \ {g})
  BY <1>7, <1>11, Seen
<1>13. u.left[g] \notin Red2 /\ u.right[g] \notin Red2
  BY <1>7, <1>11, ChildrenSeen
<1>14. g \in Red2 /\ (u.root \notin Red2 \/ u.root = g)
  BY <1>r, <1>7 DEF Red
<1> QED
  BY <1>7, <1>12, <1>13, <1>14 DEF Reddened, u, t2, t1

\* u is t after the rotation that brings the inner node a above p.
InnerTurned(t, u, U, a, p, g, l) ==
  /\ Reddened(u, U, p) /\ Reds(u) = Reds(t) /\ u.parent[p] = a /\ u.parent[a] = g
  /\ Near(u, l)[g] = a /\ Near(u, l)[a] = p /\ Far(u, l)[g] = Far(t, l)[g] /\ a # g

\* That rotation, at p.
LEMMA InsertInner ==
  ASSUME NEW t, NEW U, NEW a, Reddened(t, U, a), NEW l \in BOOLEAN,
         NEW p \in U, p \in Reds(t), p # t.root, NEW g \in U, g = t.parent[p],
         Near(t, l)[g] = p, a = Far(t, l)[p], t.root \notin Reds(t)
  PROVE  InnerTurned(t, Rotate(t, p, l), U, a, p, g, l)
<1> DEFINE u == Rotate(t, p, l)
           N == Near(t, l)
           F == Far(t, l)
           P == t.parent
           Red == Reds(t)
<1>0. Good(t, U) /\ a \in U /\ a \in Red /\ Quiet(t, U, Red \ {a}) /\ Level(t, U, Null)
      /\ t.left[a] \notin Red /\ t.right[a] \notin Red
  BY DEF Reddened
<1>g. Plain(N, F, P, t.root, U) /\ Red \subseteq Id /\ Nil \notin Red
  BY <1>0, GoodSeen
<1>x. F[p] = a /\ N[g] = p /\ P[p] = g /\ F[p] # Nil
  BY <1>0, <1>g
<1>3. /\ Good(u, U) /\ Reds(u) = Red
      /\ Swung(N, F, P, t.root, U, p, Near(u, l), Far(u, l), u.parent)
      /\ u.root = IF p = t.root THEN a ELSE t.root
  BY <1>0, <1>x, Spun
<1> HIDE DEF u
<1>4. PICK h : Heights(N, F, P, U, Red, Null, h)
  BY <1>0, Seen
<1>5. RedRule(N, F, U, Red \ {a}) /\ N[a] \notin Red /\ F[a] \notin Red
  BY <1>0, Seen, ChildrenSeen
<1>r. p \in Red /\ t.root \notin Red
  OBVIOUS
<1> HIDE DEF N, F, P, Red
<1>6. RedRule(Near(u, l), Far(u, l), U, Red \ {p}) /\ Near(u, l)[p] \notin Red /\ Far(u, l)[p] \notin Red
  BY <1>3, <1>5, <1>x, <1>g, <1>r, SwungInner
<1>7. \E h2 : Heights(Near(u, l), Far(u, l), u.parent, U, Red, Null, h2)
  <2>1. Owing(N, F, P, U, Null) /\ Null \notin Node
    BY <1>g DEF Owing, Plain
  <2>2. Red = IF p \in Red THEN Red ELSE (Red \ {F[p]}) \cup {p}
    BY <1>r
  <2>3. F[p] \in Red /\ Null # p /\ Null # F[p]
    BY <1>x, <1>0, <1>g DEF Plain, Red
  <2> QED
    BY <1>3, <1>4, <2>1, <2>2, <2>3, SwungHeights
<1>8. Level(u, U, Null) /\ Quiet(u, U, Red \ {p})
  BY <1>3, <1>6, <1>7, Seen
<1>9. u.left[p] \notin Red /\ u.right[p] \notin Red
  BY <1>6, ChildrenSeen
<1>10. u.root \notin Red
  BY <1>3, <1>r
<1>11. Reddened(u, U, p)
  BY <1>3, <1>8, <1>9, <1>10, <1>r DEF Reddened
<1>12. /\ u.parent[p] = a /\ u.parent[a] = g /\ a # g /\ Near(u, l)[a] = p
       /\ Near(u, l)[g] = IF N[g] = p THEN a ELSE N[g]
       /\ Far(u, l)[g] = IF F[g] = p THEN a ELSE F[g]
  BY <1>3, <1>x, <1>g DEF Swung, Plain
<1>13. F[g] # p
  BY <1>g, <1>x DEF Plain
<1>14. InnerTurned(t, u, U, a, p, g, l)
  BY <1>3, <1>11, <1>12, <1>13, <1>x DEF F, Red, InnerTurned
<1> QED
  BY <1>14 DEF u

\* A turn of a fix-up: the tree it leaves and where the loop goes on.
TurnIs(turn, v, x) == turn.t = v /\ turn.x = x

\* The turn of a record.
LEMMA TurnOf ==
  ASSUME NEW v, NEW x
  PROVE  TurnIs([t |-> v, x |-> x], v, x)
BY DEF TurnIs

\* Painting keeps the parents.
LEMMA PaintLinks ==
  ASSUME NEW t, NEW n
  PROVE  /\ Paint(t, n, TRUE).parent = t.parent /\ Paint(t, n, FALSE).parent = t.parent
BY DEF Paint

\* InsertTurn with a red uncle, and with a black one.
LEMMA InsertTurnUncle ==
  ASSUME NEW t, NEW x, NEW p, p = t.parent[x], NEW g, g = t.parent[p], NEW l \in BOOLEAN, l = IsLeft(t, p),
         NEW y, y = Far(t, l)[g], ~t.black[y]
  PROVE  TurnIs(InsertTurn(t, x), Paint(Paint(Paint(t, p, TRUE), y, TRUE), g, FALSE), g)
<1>1. Child(t, g, ~l) = y
  BY Sides
<1>2. InsertTurn(t, x) = [t |-> Paint(Paint(Paint(t, p, TRUE), y, TRUE), g, FALSE), x |-> g]
  BY <1>1, Zenon DEF InsertTurn
<1> QED
  BY <1>2, TurnOf, Zenon

LEMMA InsertTurnOuter ==
  ASSUME NEW t, NEW x, NEW p, p = t.parent[x], NEW g, g = t.parent[p], NEW l \in BOOLEAN, l = IsLeft(t, p),
         t.black[Far(t, l)[g]], x # Far(t, l)[p]
  PROVE  TurnIs(InsertTurn(t, x), Rotate(Paint(Paint(t, p, TRUE), g, FALSE), g, ~l), x)
<1>1. Child(t, g, ~l) = Far(t, l)[g] /\ Child(t, p, ~l) = Far(t, l)[p]
  BY Sides
<1>2. Paint(Paint(t, p, TRUE), g, FALSE).parent = t.parent
  BY PaintLinks, Zenon
<1>3. Paint(Paint(t, p, TRUE), g, FALSE).parent[p] = g
  BY <1>2, Zenon
<1>4. InsertTurn(t, x) = [t |-> Rotate(Paint(Paint(t, p, TRUE), g, FALSE), g, ~l), x |-> x]
  BY <1>1, <1>3, Zenon DEF InsertTurn
<1> QED
  BY <1>4, TurnOf, Zenon

\* A turn of the fix-up of an insertion: if a and its parent are red, what follows is a
\* good tree of the same ids, where only the new node at hand may have a red parent.
LEMMA InsertTurnKeeps ==
  ASSUME NEW t, NEW U, NEW a, Reddened(t, U, a), a # t.root, t.parent[a] \in Reds(t)
  PROVE  /\ Reddened(InsertTurn(t, a).t, U, InsertTurn(t, a).x)
<1> DEFINE p == t.parent[a]
           g == t.parent[p]
           l == IsLeft(t, p)
           y == Far(t, l)[g]
<1>1. /\ p \in U /\ p # a /\ p # t.root /\ g \in U /\ g # p /\ l \in BOOLEAN
      /\ Near(t, l)[g] = p /\ a \in {Near(t, l)[p], Far(t, l)[p]} /\ g \notin Reds(t) /\ g # a
      /\ t.root \notin Reds(t) /\ y \in U \cup {Nil} /\ y # p
  BY RedParent
<1>0. Good(t, U) /\ a \in U
  BY DEF Reddened
<1>c. t.black[y] <=> y \notin Reds(t)
  <2>1. U \subseteq Id /\ t \in Trees /\ t.black[Nil] = TRUE
    BY <1>0, <1>1, GoodSeen DEF Plain
  <2>2. y \in Node
    BY <2>1, <1>1 DEF Node
  <2> QED
    BY <2>1, <2>2, Coloured
<1>d. p \in Reds(t)
  OBVIOUS
<1>e. p = t.parent[a] /\ g = t.parent[p] /\ y = Far(t, l)[g] /\ l = IsLeft(t, p)
  OBVIOUS
<1> HIDE DEF p, g, l, y
<1>2. CASE y \in Reds(t)
  <2>1. Reddened(Paint(Paint(Paint(t, p, TRUE), y, TRUE), g, FALSE), U, g)
    BY <1>1, <1>2, <1>d, <1>e, InsertUncle
  <2>2. TurnIs(InsertTurn(t, a), Paint(Paint(Paint(t, p, TRUE), y, TRUE), g, FALSE), g)
    BY <1>1, <1>e, <1>2, <1>c, InsertTurnUncle
  <2> QED
    BY <2>1, <2>2, Zenon DEF TurnIs
<1> DEFINE m == ~l
<1>m. m \in BOOLEAN /\ \A v : Near(v, m) = Far(v, l) /\ Far(v, m) = Near(v, l)
  BY <1>1, Sides
<1>k. \A v, n : Child(v, n, ~l) = Far(v, l)[n]
  BY <1>1, Sides
<1>3. CASE y \notin Reds(t) /\ a # Far(t, l)[p]
  <2> HIDE DEF m
  <2>1. Far(t, m)[g] = p /\ Far(t, m)[p] = a /\ Near(t, m)[g] \notin Reds(t)
    BY <1>1, <1>3, <1>m, <1>e
  <2>2. Reddened(Rotate(Paint(Paint(t, p, TRUE), g, FALSE), g, m), U, a)
    BY <1>1, <1>d, <1>e, <1>m, <2>1, InsertOuter
  <2>3. TurnIs(InsertTurn(t, a), Rotate(Paint(Paint(t, p, TRUE), g, FALSE), g, ~l), a)
    BY <1>1, <1>e, <1>3, <1>c, InsertTurnOuter
  <2> QED
    BY <2>2, <2>3, Zenon DEF TurnIs, m
<1>4. CASE y \notin Reds(t) /\ a = Far(t, l)[p]
  <2> DEFINE u == Rotate(t, p, l)
  <2>0. InnerTurned(t, u, U, a, p, g, l)
    BY <1>1, <1>4, <1>d, <1>e, InsertInner, Zenon
  <2> HIDE DEF u
  <2>u. u = Rotate(t, p, l)
    BY DEF u
  <2>1. /\ Reddened(u, U, p) /\ Reds(u) = Reds(t) /\ u.parent[p] = a /\ u.parent[a] = g
        /\ Near(u, l)[g] = a /\ Near(u, l)[a] = p /\ Far(u, l)[g] = Far(t, l)[g] /\ a # g
    BY <2>0, Zenon DEF InnerTurned
  <2> HIDE DEF m
  <2>2. TurnIs(InsertTurn(t, a), Rotate(Paint(Paint(u, a, TRUE), g, FALSE), g, ~l), p)
    <3>1. /\ p = t.parent[a] /\ g = t.parent[p] /\ l \in BOOLEAN /\ l = IsLeft(t, p) /\ t.black[Far(t, l)[g]]
          /\ a = Far(t, l)[p] /\ u.parent[p] = a /\ u.parent[a] = g
      BY <1>1, <1>e, <1>4, <1>c, <2>1
    <3> QED
      <4> DEFINE w == Rotate(Paint(Paint(u, a, TRUE), g, FALSE), g, ~l)
      <4>1. Child(t, g, ~l) = Far(t, l)[g] /\ Child(t, p, ~l) = Far(t, l)[p]
        BY <1>k, Zenon
      <4>2. Paint(Paint(u, a, TRUE), g, FALSE).parent = u.parent
        BY ONLY PaintLinks, Zenon
      <4>3. Paint(Paint(u, a, TRUE), g, FALSE).parent[a] = g
        BY <4>2, <3>1, Zenon
      <4>4. InsertTurn(t, a) = [t |-> w, x |-> p]
        BY <4>1, <4>3, <3>1, <2>u, Zenon DEF InsertTurn
      <4> HIDE DEF w
      <4>5. TurnIs(InsertTurn(t, a), w, p)
        BY <4>4, TurnOf, Zenon
      <4> QED
        BY <4>5, Zenon DEF w
  <2>3. Far(u, m)[g] = a /\ Far(u, m)[a] = p /\ Near(u, m)[g] \notin Reds(u)
    BY <2>1, <1>4, <1>m, <1>e
  <2>4. a \in Reds(u)
    BY <2>1 DEF Reddened
  <2>5. Reddened(Rotate(Paint(Paint(u, a, TRUE), g, FALSE), g, m), U, p)
    BY <1>0, <1>1, <2>1, <2>3, <2>4, <1>m, InsertOuter
  <2> QED
    BY <2>2, <2>5, Zenon DEF TurnIs, m
<1> QED
  BY <1>2, <1>3, <1>4
----------------------------------------------------------------------------
(* The fix-up of a removal.                                                *)

\* During the fix-up of a removal: all is well, but the ways through d pass one black
\* node too few, and d, if red, may have a red parent.
Lacking(t, U, d) ==
  /\ Good(t, U) /\ Level(t, U, d) /\ Quiet(t, U, Reds(t) \ {d}) /\ Owing(t.left, t.right, t.parent, U, d)
  /\ d \in U \cup {Nil} /\ (t.root \notin Reds(t) \/ t.root = d)
  /\ IF d = t.root THEN t.parent[d] = Null ELSE t.parent[d] \in U

\* The black node d of the fix-up after a removal, on the side l of x.
Short(t, U, d, x, l) ==
  /\ Good(t, U) /\ Level(t, U, d) /\ Quiet(t, U, Reds(t)) /\ x \in U /\ l \in BOOLEAN
  /\ Near(t, l)[x] = d /\ t.parent[d] = x /\ d \notin Reds(t) /\ t.root \notin Reds(t)
  /\ d \in U \cup {Nil} /\ Far(t, l)[x] \in U

\* A good tree is plain.
LEMMA PlainOf ==
  ASSUME NEW t, NEW U, Good(t, U)
  PROVE  Plain(t.left, t.right, t.parent, t.root, U)
<1>1. Near(t, TRUE) = t.left /\ Far(t, TRUE) = t.right
  BY NearFar
<1>2. Plain(Near(t, TRUE), Far(t, TRUE), t.parent, t.root, U)
  BY GoodSeen
<1> QED
  BY <1>1, <1>2

\* In the loop d is black, and has a sibling.
LEMMA ShortOf ==
  ASSUME NEW t, NEW U, NEW d, Lacking(t, U, d), d # t.root, d \notin Reds(t)
  PROVE  Short(t, U, d, t.parent[d], IsLeft(t, d))
<1> DEFINE x == t.parent[d]
           l == IsLeft(t, d)
<1> USE SessionDbAssumption
<1>0. /\ Good(t, U) /\ Level(t, U, d) /\ Quiet(t, U, Reds(t) \ {d}) /\ d \in U \cup {Nil}
      /\ Owing(t.left, t.right, t.parent, U, d) /\ x \in U /\ t.root \notin Reds(t)
  BY DEF Lacking
<1>2. Plain(t.left, t.right, t.parent, t.root, U)
  BY <1>0, PlainOf
<1>3. d \in Node
  BY <1>0, <1>2 DEF Plain, Node
<1>4. d \in {t.left[x], t.right[x]}
  BY <1>0, <1>3 DEF Owing
<1>5. l \in BOOLEAN /\ Near(t, l)[x] = d
  BY <1>4, SideOf
<1>6. Quiet(t, U, Reds(t))
  <2>1. Reds(t) \ {d} = Reds(t)
    OBVIOUS
  <2> QED
    BY <2>1, <1>0
<1>p. x = t.parent[d]
  OBVIOUS
<1> HIDE DEF x, l
<1> DEFINE N == Near(t, l)
           F == Far(t, l)
           P == t.parent
           Red == Reds(t)
<1>7. PICK h : Heights(N, F, P, U, Red, d, h)
  BY <1>0, <1>5, Seen
<1>8. PICK lt, lo, hi : Sorted(lt, N, F, P, t.root, U, lo, hi)
  BY <1>0, <1>5, ShapeSeen DEF Good
<1>9. Owing(N, F, P, U, d)
  BY <1>0, <1>5, Seen
<1> HIDE DEF N, F, P, Red
<1>10. /\ h[Nil] = 0 /\ h[x] \in Nat /\ h[N[x]] \in Nat /\ h[F[x]] \in Nat /\ F[x] \in U \cup {Nil}
       /\ h[x] = Wt(Red, x) + h[N[x]] + Owed(P, d, x, N[x])
       /\ h[x] = Wt(Red, x) + h[F[x]] + Owed(P, d, x, F[x])
  BY <1>0, <1>7, <1>8, HeightsAt
<1>11. N[x] = d /\ N[x] # F[x] /\ P[d] = x
  BY <1>0, <1>3, <1>5, <1>9, <1>p DEF Owing, N, P
<1>12. Owed(P, d, x, N[x]) = 1 /\ Owed(P, d, x, F[x]) = 0
  BY <1>11 DEF Owed
<1>13. Wt(Red, x) \in Nat
  BY DEF Wt
<1>14. F[x] # Nil
  BY <1>10, <1>12, <1>13
<1> QED
  BY <1>0, <1>5, <1>6, <1>10, <1>11, <1>14, <1>p DEF Short, N, F, P, Red, x, l

\* What the cases of the fix-up know of a node that lacks one.
LEMMA ShortIs ==
  ASSUME NEW t, NEW U, NEW d, NEW x, NEW l, Short(t, U, d, x, l)
  PROVE  LET N == Near(t, l)  F == Far(t, l)  P == t.parent IN
         /\ Good(t, U) /\ l \in BOOLEAN /\ x \in U /\ F[x] \in U /\ N[x] = d /\ P[d] = x /\ P[F[x]] = x
         /\ Plain(N, F, P, t.root, U) /\ Reds(t) \subseteq Id /\ Nil \notin Reds(t) /\ RedRule(N, F, U, Reds(t))
         /\ \E h : Heights(N, F, P, U, Reds(t), d, h)
         /\ Owing(N, F, P, U, d) /\ d \in U \cup {Nil} /\ d \notin Reds(t) /\ t.root \notin Reds(t)
         /\ x # F[x] /\ d # F[x] /\ d # x /\ F[x] # t.root /\ F[x] # Nil
<1> DEFINE N == Near(t, l)
           F == Far(t, l)
           P == t.parent
<1> USE SessionDbAssumption
<1>0. /\ Good(t, U) /\ l \in BOOLEAN /\ x \in U /\ F[x] \in U /\ N[x] = d /\ P[d] = x
      /\ d \in U \cup {Nil} /\ d \notin Reds(t) /\ t.root \notin Reds(t)
      /\ Level(t, U, d) /\ Quiet(t, U, Reds(t))
  BY DEF Short
<1>1. Plain(N, F, P, t.root, U) /\ Reds(t) \subseteq Id /\ Nil \notin Reds(t)
  BY <1>0, GoodSeen
<1>2. RedRule(N, F, U, Reds(t)) /\ \E h : Heights(N, F, P, U, Reds(t), d, h)
  BY <1>0, Seen
<1>r. t.root = t.root
  OBVIOUS
<1> HIDE DEF N, F, P
<1>3. /\ U \subseteq Id /\ Nil \notin U /\ Null \notin U /\ F[x] # Nil /\ N[x] # x /\ F[x] # x /\ P[F[x]] = x
      /\ (N[x] # Nil => N[x] # F[x]) /\ ((t.root \in U /\ P[t.root] = Null) \/ t.root = Nil)
  BY <1>0, <1>1 DEF Plain
<1>4. d # F[x] /\ F[x] # t.root
  BY <1>0, <1>3
<1>5. Owing(N, F, P, U, d)
  BY <1>0, <1>4 DEF Owing
<1> QED
  BY <1>0, <1>1, <1>2, <1>3, <1>4, <1>5 DEF N, F, P

\* Two nodes exchange colours.
LEMMA BlackRed ==
  ASSUME NEW t, NEW U, Good(t, U), NEW n \in Node, NEW m \in Node, m # Nil
  PROVE  Repainted(t, Paint(Paint(t, n, TRUE), m, FALSE), U, (Reds(t) \ {n}) \cup {m})
<1> DEFINE t1 == Paint(t, n, TRUE)
           u == Paint(t1, m, FALSE)
<1>1. Repainted(t, t1, U, Reds(t) \ {n})
  BY PaintedBlack
<1> HIDE DEF t1
<1>2. Good(t1, U) /\ Reds(t1) = Reds(t) \ {n}
  BY <1>1, Zenon DEF Repainted
<1>3. Repainted(t1, u, U, Reds(t1) \cup {m})
  BY <1>2, PaintedRed
<1> HIDE DEF u
<1>4. Repainted(t, u, U, Reds(t1) \cup {m})
  BY <1>1, <1>3, RepaintedTwice
<1> QED
  BY <1>2, <1>4 DEF u, t1

\* The cases of RemoveTurn: a red sibling makes room for a black one.
LEMMA RemoveRedSibling ==
  ASSUME NEW t, NEW U, NEW d, NEW x, NEW l, Short(t, U, d, x, l), NEW s, s = Far(t, l)[x], s \in Reds(t)
  PROVE  LET u == Rotate(Paint(Paint(t, s, TRUE), x, FALSE), x, l) IN
         Short(u, U, d, x, l) /\ Far(u, l)[x] \notin Reds(u)
<1> DEFINE v == Paint(Paint(t, s, TRUE), x, FALSE)
           u == Rotate(v, x, l)
           N == Near(t, l)
           F == Far(t, l)
           P == t.parent
           Red == Reds(t)
           Red2 == (Red \ {s}) \cup {x}
<1> USE SessionDbAssumption
<1>0. /\ Good(t, U) /\ l \in BOOLEAN /\ x \in U /\ F[x] \in U /\ N[x] = d /\ P[d] = x /\ P[F[x]] = x
      /\ Plain(N, F, P, t.root, U) /\ Red \subseteq Id /\ Nil \notin Red /\ RedRule(N, F, U, Red)
      /\ (\E h : Heights(N, F, P, U, Red, d, h))
      /\ Owing(N, F, P, U, d) /\ d \in U \cup {Nil} /\ d \notin Red /\ t.root \notin Red
      /\ x # F[x] /\ d # F[x] /\ d # x /\ F[x] # t.root /\ F[x] # Nil
  BY ShortIs
<1>s. s = F[x] /\ s \in Red
  OBVIOUS
<1>n. s \in Node /\ x \in Node /\ x # Nil
  BY <1>0, <1>s DEF Plain
<1>v. Repainted(t, v, U, Red2)
  BY <1>0, <1>n, BlackRed
<1> HIDE DEF v
<1>2. Good(v, U) /\ Near(v, l) = N /\ Far(v, l) = F /\ v.parent = P /\ v.root = t.root /\ Reds(v) = Red2
  BY <1>v, RepaintedIs
<1> HIDE DEF N, F, P, Red, Red2
<1>3. /\ Good(u, U) /\ Reds(u) = Red2
      /\ Swung(N, F, P, t.root, U, x, Near(u, l), Far(u, l), u.parent)
      /\ u.root = IF x = t.root THEN F[x] ELSE t.root
  BY <1>2, <1>0, Spun
<1> HIDE DEF u
<1>r. Red2 = (Red \ {F[x]}) \cup {x} /\ F[x] \in Red
  BY <1>s DEF Red2
<1>4. x \notin Red /\ N[x] \notin Red /\ N[F[x]] \notin Red /\ F[F[x]] \notin Red
  BY <1>0, <1>s DEF RedRule
<1>5. RedRule(Near(u, l), Far(u, l), U, Red2)
  <2>1. RedRule(N, F, U, Red \ {Null}) /\ Null \notin U
    BY <1>0 DEF RedRule, Plain
  <2> QED
    BY <2>1, <1>0, <1>3, <1>4, <1>r, SwungRedRule
<1>6. PICK h : Heights(N, F, P, U, Red, d, h)
  BY <1>0
<1>7. \E h2 : Heights(Near(u, l), Far(u, l), u.parent, U, Red2, d, h2)
  <2>1. Red2 = IF x \in Red THEN Red ELSE (Red \ {F[x]}) \cup {x}
    BY <1>4, <1>r
  <2> QED
    BY <2>1, <1>0, <1>3, <1>6, <1>r, SwungHeights
<1> DEFINE b == N[F[x]]
<1>8. b # Nil
  <2>1. PICK lt, lo, hi : Sorted(lt, N, F, P, t.root, U, lo, hi)
    BY <1>0, ShapeSeen DEF Good, N, F, P
  <2>2. /\ h[Nil] = 0 /\ h[x] \in Nat /\ h[N[x]] \in Nat /\ h[F[x]] \in Nat
        /\ h[x] = Wt(Red, x) + h[N[x]] + Owed(P, d, x, N[x])
        /\ h[x] = Wt(Red, x) + h[F[x]] + Owed(P, d, x, F[x])
    BY <1>0, <1>6, <2>1, HeightsAt
  <2>3. h[F[x]] = Wt(Red, F[x]) + h[b] + Owed(P, d, F[x], b) /\ h[b] \in Nat
    BY <1>0, <1>6, <2>1, HeightsAt
  <2>4. Owed(P, d, x, N[x]) = 1 /\ Owed(P, d, x, F[x]) = 0 /\ Owed(P, d, F[x], b) = 0
    BY <1>0 DEF Owed
  <2>5. Wt(Red, x) = 1 /\ Wt(Red, F[x]) = 0
    BY <1>4, <1>r DEF Wt
  <2> QED
    BY <2>2, <2>3, <2>4, <2>5
<1>9. b \in U /\ b # x /\ b # F[x] /\ b # d
  <2>1. b \in U \cup {Nil} /\ b # x /\ b # F[x]
    BY <1>3 DEF Swung
  <2>2. P[b] = F[x]
    BY <1>8, <1>0 DEF Plain
  <2> QED
    BY <2>1, <2>2, <1>8, <1>0
<1>10. Near(u, l)[x] = d /\ Far(u, l)[x] = b
  BY <1>3, <1>0 DEF Swung
<1>11. u.parent[d] = x
  <2>1. CASE d = Nil
    BY <2>1, <1>3, <1>0 DEF Swung
  <2>2. CASE d # Nil
    BY <2>2, <1>3, <1>0 DEF Swung
  <2> QED
    BY <2>1, <2>2
<1>12. d \notin Red2 /\ u.root \notin Red2 /\ b \notin Red2
  BY <1>3, <1>0, <1>4, <1>9, <1>r
<1>13. Level(u, U, d) /\ Quiet(u, U, Red2)
  BY <1>0, <1>3, <1>5, <1>7, Seen
<1>14. Short(u, U, d, x, l) /\ Far(u, l)[x] \notin Reds(u)
  BY <1>0, <1>3, <1>9, <1>10, <1>11, <1>12, <1>13 DEF Short
<1> QED
  BY <1>14 DEF u, v

\* Its children are both black: it turns red, and the parent lacks one.
LEMMA RemoveBothBlack ==
  ASSUME NEW t, NEW U, NEW d, NEW x, NEW l, Short(t, U, d, x, l), NEW w, w = Far(t, l)[x],
         w \notin Reds(t), t.left[w] \notin Reds(t), t.right[w] \notin Reds(t)
  PROVE  Lacking(Paint(t, w, FALSE), U, x)
<1> DEFINE u == Paint(t, w, FALSE)
           N == Near(t, l)
           F == Far(t, l)
           P == t.parent
           Red == Reds(t)
           Red2 == Red \cup {w}
<1>0. /\ Good(t, U) /\ l \in BOOLEAN /\ x \in U /\ F[x] \in U /\ N[x] = d /\ P[d] = x /\ P[F[x]] = x
      /\ Plain(N, F, P, t.root, U) /\ Red \subseteq Id /\ Nil \notin Red /\ RedRule(N, F, U, Red)
      /\ (\E h : Heights(N, F, P, U, Red, d, h))
      /\ Owing(N, F, P, U, d) /\ d \in U \cup {Nil} /\ d \notin Red /\ t.root \notin Red
      /\ x # F[x] /\ d # F[x] /\ d # x /\ F[x] # t.root /\ F[x] # Nil
  BY ShortIs
<1>s. w = F[x] /\ w \notin Red
  OBVIOUS
<1>c. N[w] \notin Red /\ F[w] \notin Red
  BY <1>0, ChildrenSeen
<1>n. w \in Node /\ w # Nil
  BY <1>0, <1>s DEF Plain
<1>1. Repainted(t, u, U, Red2)
  BY <1>0, <1>n, PaintedRed
<1> HIDE DEF u, Red2
<1>2. Good(u, U) /\ Near(u, l) = N /\ Far(u, l) = F /\ u.parent = P /\ u.root = t.root /\ Reds(u) = Red2
  BY <1>1, RepaintedIs
<1>3. PICK lt, lo, hi : Sorted(lt, N, F, P, t.root, U, lo, hi)
  BY <1>0, ShapeSeen DEF Good
<1>r. Red2 = Red \cup {F[x]} /\ F[x] \notin Red /\ N[F[x]] \notin Red /\ F[F[x]] \notin Red
  BY <1>s, <1>c DEF Red2
<1>q. u.parent[x] = P[x]
  BY <1>2
<1> HIDE DEF N, F, P, Red
<1>4. PICK h : Heights(N, F, P, U, Red, d, h)
  BY <1>0
<1>5. RedRule(N, F, U, Red2 \ {x}) /\ \E h2 : Heights(N, F, P, U, Red2, x, h2)
  BY <1>0, <1>3, <1>4, <1>r, SiblingReddened
<1>6. Owing(N, F, P, U, x)
  BY <1>0, <1>3, OwingNode
<1>7. Level(u, U, x) /\ Quiet(u, U, Red2 \ {x}) /\ Owing(u.left, u.right, u.parent, U, x)
  BY <1>0, <1>2, <1>5, <1>6, Seen
<1>8. u.root \notin Red2
  BY <1>0, <1>2, <1>r
<1>9. IF x = t.root THEN P[x] = Null ELSE P[x] \in U
  BY <1>0 DEF Plain
<1>10. Lacking(u, U, x)
  BY <1>0, <1>2, <1>7, <1>8, <1>9, <1>q DEF Lacking
<1> QED
  BY <1>10 DEF u

\* The last case of the fix-up: the sibling is black, its far child red.
FarRed(u, U, d, x, l) ==
  Short(u, U, d, x, l) /\ Far(u, l)[x] \notin Reds(u) /\ Far(u, l)[Far(u, l)[x]] \in Reds(u)

\* Its near child is red, its far one is not: a rotation makes the far one red.
LEMMA RemoveNearRed ==
  ASSUME NEW t, NEW U, NEW d, NEW x, NEW l, Short(t, U, d, x, l), NEW w, w = Far(t, l)[x],
         w \notin Reds(t), Far(t, l)[w] \notin Reds(t), NEW n, n = Near(t, l)[w], n \in Reds(t),
         NEW m \in BOOLEAN, \A v : Near(v, m) = Far(v, l) /\ Far(v, m) = Near(v, l)
  PROVE  FarRed(Rotate(Paint(Paint(t, n, TRUE), w, FALSE), w, m), U, d, x, l)
<1> DEFINE v == Paint(Paint(t, n, TRUE), w, FALSE)
           u == Rotate(v, w, m)
           N == Near(t, l)
           F == Far(t, l)
           P == t.parent
           Red == Reds(t)
           Red2 == (Red \ {n}) \cup {w}
<1> USE SessionDbAssumption
<1>0. /\ Good(t, U) /\ l \in BOOLEAN /\ x \in U /\ F[x] \in U /\ N[x] = d /\ P[d] = x /\ P[F[x]] = x
      /\ Plain(N, F, P, t.root, U) /\ Red \subseteq Id /\ Nil \notin Red /\ RedRule(N, F, U, Red)
      /\ (\E h : Heights(N, F, P, U, Red, d, h))
      /\ Owing(N, F, P, U, d) /\ d \in U \cup {Nil} /\ d \notin Red /\ t.root \notin Red
      /\ x # F[x] /\ d # F[x] /\ d # x /\ F[x] # t.root /\ F[x] # Nil
  BY ShortIs
<1>s. w = F[x] /\ w \notin Red /\ n = N[w] /\ n \in Red /\ F[w] \notin Red
  OBVIOUS
<1>n. n \in Node /\ w \in Node /\ w # Nil /\ n # Nil /\ n \in U
  BY <1>0, <1>s DEF Plain
<1>v. Repainted(t, v, U, Red2)
  BY <1>0, <1>n, BlackRed
<1>m. m \in BOOLEAN
  OBVIOUS
<1> HIDE DEF v
<1>2. Good(v, U) /\ Near(v, l) = N /\ Far(v, l) = F /\ v.parent = P /\ v.root = t.root /\ Reds(v) = Red2
  BY <1>v, RepaintedIs
<1>3. Near(v, m) = F /\ Far(v, m) = N /\ Near(u, m) = Far(u, l) /\ Far(u, m) = Near(u, l)
      /\ Near(t, m) = F /\ Far(t, m) = N
  BY <1>2
<1> HIDE DEF N, F, P, Red, Red2
<1>w. w \in U /\ Far(v, m)[w] = n
  BY <1>0, <1>3, <1>s
<1>4. /\ Good(u, U) /\ Reds(u) = Red2
      /\ Swung(F, N, P, t.root, U, w, Far(u, l), Near(u, l), u.parent)
      /\ u.root = t.root
  <2>1. /\ Good(u, U) /\ Reds(u) = Red2
        /\ Swung(Near(v, m), Far(v, m), v.parent, v.root, U, w, Near(u, m), Far(u, m), u.parent)
        /\ u.root = IF w = v.root THEN Far(v, m)[w] ELSE v.root
    BY <1>2, <1>m, <1>w, <1>n, Spun
  <2> QED
    BY <2>1, <1>2, <1>3, <1>0, <1>s
<1> HIDE DEF u
<1>r. Red2 = (Red \ {N[w]}) \cup {w} /\ N[w] \in Red
  BY <1>s DEF Red2
<1>5. w \notin Red /\ F[w] \notin Red /\ F[n] \notin Red /\ N[n] \notin Red
  BY <1>0, <1>s, <1>n DEF RedRule
<1>y. RedRule(F, N, U, Red) /\ Owing(F, N, P, U, d) /\ Null \notin U
  BY <1>0 DEF RedRule, Owing, Plain
<1>6. RedRule(Far(u, l), Near(u, l), U, Red2)
  <2>1. RedRule(F, N, U, Red \ {Null})
    BY <1>y DEF RedRule
  <2> QED
    BY <2>1, <1>y, <1>0, <1>4, <1>5, <1>r, <1>s, SwungRedRule
<1>7. PICK h : Heights(F, N, P, U, Red, d, h)
  BY <1>0 DEF Heights
<1>z. P[w] = x /\ P[n] = w /\ x # n /\ x # w
  BY <1>0, <1>s, <1>4 DEF Swung
<1>8. \E h2 : Heights(Far(u, l), Near(u, l), u.parent, U, Red2, d, h2)
  <2>1. Red2 = IF w \in Red THEN Red ELSE (Red \ {N[w]}) \cup {w}
    BY <1>5, <1>r
  <2>2. d # w /\ d # N[w] /\ P[d] # N[w]
    BY <1>0, <1>s, <1>z
  <2> QED
    BY <2>1, <2>2, <1>y, <1>4, <1>7, <1>r, SwungHeights
<1>10. Near(u, l)[x] = d /\ Far(u, l)[x] = n /\ Far(u, l)[n] = w
  BY <1>4, <1>0, <1>s, <1>z DEF Swung
<1>11. u.parent[d] = x
  <2>1. CASE d = Nil
    BY <2>1, <1>4, <1>0 DEF Swung
  <2>2. CASE d # Nil
    <3>1. d # F[n]
      BY <2>2, <1>0, <1>n, <1>z DEF Plain
    <3> QED
      BY <3>1, <2>2, <1>4, <1>0, <1>s DEF Swung
  <2> QED
    BY <2>1, <2>2
<1>12. d \notin Red2 /\ u.root \notin Red2 /\ n \notin Red2 /\ w \in Red2
  BY <1>4, <1>0, <1>s, <1>z, <1>r
<1>13. Level(u, U, d) /\ Quiet(u, U, Red2)
  <2>1. RedRule(Near(u, l), Far(u, l), U, Red2)
    BY <1>6 DEF RedRule
  <2>2. \E h2 : Heights(Near(u, l), Far(u, l), u.parent, U, Red2, d, h2)
    BY <1>8 DEF Heights
  <2> QED
    BY <2>1, <2>2, <1>0, <1>4, Seen
<1>14. FarRed(u, U, d, x, l)
  BY <1>0, <1>n, <1>4, <1>10, <1>11, <1>12, <1>13 DEF Short, FarRed
<1> QED
  BY <1>14 DEF u, v

\* Painting in a colour given.
LEMMA PaintedAs ==
  ASSUME NEW t, NEW U, Good(t, U), NEW n \in Node, n # Nil, NEW b \in BOOLEAN
  PROVE  Repainted(t, Paint(t, n, b), U, (Reds(t) \ {n}) \cup (IF b THEN {} ELSE {n}))
<1>1. CASE b = TRUE
  <2>1. Repainted(t, Paint(t, n, TRUE), U, Reds(t) \ {n})
    BY PaintedBlack
  <2>2. (Reds(t) \ {n}) \cup (IF b THEN {} ELSE {n}) = Reds(t) \ {n}
    BY <1>1
  <2> QED
    BY <2>1, <2>2, <1>1, Zenon
<1>2. CASE b = FALSE
  <2>1. Repainted(t, Paint(t, n, FALSE), U, Reds(t) \cup {n})
    BY PaintedRed
  <2>2. (Reds(t) \ {n}) \cup (IF b THEN {} ELSE {n}) = Reds(t) \cup {n}
    BY <1>2
  <2> QED
    BY <2>1, <2>2, <1>2, Zenon
<1> QED
  BY <1>1, <1>2

\* A tree whose ways down all pass as many black nodes lacks none at its root.
LEMMA RootLacks ==
  ASSUME NEW u, NEW U, Good(u, U), Level(u, U, Null), Quiet(u, U, Reds(u)), u.root \notin Reds(u),
         u.root # Nil
  PROVE  Lacking(u, U, u.root)
<1> DEFINE N == u.left
           F == u.right
           P == u.parent
           r == u.root
           Red == Reds(u)
<1> USE SessionDbAssumption
<1>1. Plain(N, F, P, r, U)
  BY PlainOf
<1>2. PICK h : Heights(N, F, P, U, Red, Null, h)
  BY DEF Level
<1>q. Quiet(u, U, Red \ {r})
  BY DEF Quiet, RedRule
<1>l. r # Nil /\ r \notin Red /\ Good(u, U)
  OBVIOUS
<1>h. ASSUME Heights(N, F, P, U, Red, r, h) PROVE Level(u, U, r)
  BY <1>h DEF Level
<1> HIDE DEF N, F, P, r, Red
<1>3. r \in U /\ P[r] = Null /\ Null \notin U /\ Null # Nil /\ \A n \in U : N[n] # Null /\ F[n] # Null /\ n # Null
  BY <1>1, <1>l DEF Plain
<1>4. \A n \in U : /\ Owed(P, r, n, N[n]) = Owed(P, Null, n, N[n]) /\ Owed(P, r, n, F[n]) = Owed(P, Null, n, F[n])
  BY <1>3 DEF Owed
<1>5. Heights(N, F, P, U, Red, r, h)
  BY <1>2, <1>4 DEF Heights
<1>6. Owing(N, F, P, U, r)
  BY <1>3 DEF Owing
<1> QED
  BY <1>l, <1>q, <1>h, <1>5, <1>6, <1>3 DEF Lacking, N, F, P, r, Red

\* The far child of the sibling is red: the rotation at the parent ends the fix-up.
LEMMA RemoveFarRed ==
  ASSUME NEW t, NEW U, NEW d, NEW x, NEW l, Short(t, U, d, x, l), NEW w, w = Far(t, l)[x],
         w \notin Reds(t), NEW f, f = Far(t, l)[w], f \in Reds(t),
         NEW b \in BOOLEAN, b <=> x \notin Reds(t)
  PROVE  LET u == Rotate(Paint(Paint(Paint(t, w, b), x, TRUE), f, TRUE), x, l) IN
         Lacking(u, U, u.root)
<1> DEFINE t1 == Paint(t, w, b)
           t2 == Paint(t1, x, TRUE)
           v == Paint(t2, f, TRUE)
           u == Rotate(v, x, l)
           N == Near(t, l)
           F == Far(t, l)
           P == t.parent
           Red == Reds(t)
           R1 == (Red \ {w}) \cup (IF b THEN {} ELSE {w})
           Red2 == (R1 \ {x}) \ {f}
<1>0. /\ Good(t, U) /\ l \in BOOLEAN /\ x \in U /\ F[x] \in U /\ N[x] = d /\ P[d] = x /\ P[F[x]] = x
      /\ Plain(N, F, P, t.root, U) /\ Red \subseteq Id /\ Nil \notin Red /\ RedRule(N, F, U, Red)
      /\ (\E h : Heights(N, F, P, U, Red, d, h))
      /\ Owing(N, F, P, U, d) /\ d \in U \cup {Nil} /\ d \notin Red /\ t.root \notin Red
      /\ x # F[x] /\ d # F[x] /\ d # x /\ F[x] # t.root /\ F[x] # Nil
  BY ShortIs
<1>s. w = F[x] /\ w \notin Red /\ f = F[w] /\ f \in Red /\ b \in BOOLEAN /\ (b <=> x \notin Red)
  OBVIOUS
<1>n. w \in Node /\ w # Nil /\ x \in Node /\ x # Nil /\ f \in Node /\ f # w /\ f # Nil
  BY <1>0, <1>s DEF Plain
<1>1. Repainted(t, t1, U, R1)
  BY <1>0, <1>n, PaintedAs
<1> HIDE DEF t1
<1>2. Good(t1, U) /\ Reds(t1) = R1
  BY <1>1, Zenon DEF Repainted
<1> HIDE DEF R1
<1>3. Repainted(t1, t2, U, Reds(t1) \ {x})
  BY <1>2, <1>n, PaintedBlack
<1> HIDE DEF t2
<1>4. Good(t2, U) /\ Reds(t2) = R1 \ {x}
  BY <1>2, <1>3, Zenon DEF Repainted
<1>5. Repainted(t2, v, U, Reds(t2) \ {f})
  BY <1>4, <1>n, PaintedBlack
<1> HIDE DEF v
<1>6. Repainted(t, v, U, Red2)
  <2>1. Repainted(t, t2, U, Reds(t1) \ {x})
    BY <1>1, <1>3, RepaintedTwice
  <2>2. Repainted(t, v, U, Reds(t2) \ {f})
    BY <2>1, <1>5, RepaintedTwice
  <2> QED
    BY <2>2, <1>4
<1> HIDE DEF Red2
<1>7. Good(v, U) /\ Near(v, l) = N /\ Far(v, l) = F /\ v.parent = P /\ v.root = t.root /\ Reds(v) = Red2
  BY <1>6, RepaintedIs
<1> HIDE DEF N, F, P, Red
<1>8. /\ Good(u, U) /\ Reds(u) = Red2
      /\ Swung(N, F, P, t.root, U, x, Near(u, l), Far(u, l), u.parent)
      /\ u.root = IF x = t.root THEN F[x] ELSE t.root
  BY <1>7, <1>0, Spun
<1> HIDE DEF u
<1>x. x # f
  BY <1>8, <1>s DEF Swung
<1>r. Red2 = (Red \ {x, F[x], F[F[x]]}) \cup (IF x \in Red THEN {F[x]} ELSE {})
  <2>1. CASE b = TRUE
    BY <2>1, <1>s, <1>n, <1>0, <1>x DEF Red2, R1
  <2>2. CASE b = FALSE
    BY <2>2, <1>s, <1>n, <1>0, <1>x DEF Red2, R1
  <2> QED
    BY <2>1, <2>2, <1>s
<1>9. PICK h : Heights(N, F, P, U, Red, d, h)
  BY <1>0
<1>10. RedRule(Near(u, l), Far(u, l), U, Red2) /\ \E h2 : Heights(Near(u, l), Far(u, l), u.parent, U, Red2, Null, h2)
  BY <1>0, <1>8, <1>9, <1>s, <1>r, SwungLast
<1>11. Level(u, U, Null) /\ Quiet(u, U, Red2)
  BY <1>0, <1>8, <1>10, Seen
<1>12. u.root \notin Red2 /\ u.root # Nil
  <2>1. CASE x = t.root
    BY <2>1, <1>8, <1>r, <1>0
  <2>2. CASE x # t.root
    BY <2>2, <1>8, <1>r, <1>0 DEF Plain
  <2> QED
    BY <2>1, <2>2
<1>13. Lacking(u, U, u.root)
  BY <1>8, <1>11, <1>12, RootLacks
<1> QED
  BY <1>13 DEF u, v, t2, t1

\* The last case of RemoveTurn, and what it does once the sibling is black.
LastOf(v, x, l) ==
  LET z == Sibling(v, x, l)
      o == Paint(Paint(Paint(v, z, v.black[v.parent[x]]), v.parent[x], TRUE), Child(v, z, ~l), TRUE)
      r == Rotate(o, o.parent[x], l)
  IN [t |-> r, x |-> r.root]
RestOf(u, x, l) ==
  LET w == Sibling(u, x, l)
  IN IF u.black[u.left[w]] /\ u.black[u.right[w]]
     THEN [t |-> Paint(u, w, FALSE), x |-> u.parent[x]]
     ELSE LastOf(IF u.black[Child(u, w, ~l)]
                 THEN Rotate(Paint(Paint(u, Child(u, w, l), TRUE), w, FALSE), w, ~l) ELSE u, x, l)

\* RemoveTurn is a red sibling, if there is one, and the rest.
LEMMA RemoveTurnIs ==
  ASSUME NEW t, NEW x
  PROVE  LET l == IsLeft(t, x)  p == t.parent[x]  s == Sibling(t, x, l)
         IN RemoveTurn(t, x) =
              RestOf(IF t.black[s] THEN t ELSE Rotate(Paint(Paint(t, s, TRUE), p, FALSE), p, l), x, l)
BY Zenon DEF RemoveTurn, RestOf, LastOf

\* The sibling, seen from the side of x.
LEMMA SiblingIs ==
  ASSUME NEW l \in BOOLEAN, NEW t, NEW x, NEW p, p = t.parent[x]
  PROVE  Sibling(t, x, l) = Far(t, l)[p]
<1>1. Child(t, p, ~l) = Far(t, l)[p]
  BY Sides
<1> QED
  BY <1>1, Zenon DEF Sibling

\* Painting keeps the parents.
LEMMA PaintParent ==
  ASSUME NEW t, NEW n, NEW b
  PROVE  Paint(t, n, b).parent = t.parent
BY DEF Paint

\* The last case leaves a tree that lacks nothing below its root.
LEMMA LastKeeps ==
  ASSUME NEW t, NEW U, NEW d, NEW x, NEW l, Short(t, U, d, x, l), NEW w, w = Far(t, l)[x],
         w \notin Reds(t), Far(t, l)[w] \in Reds(t)
  PROVE  Lacking(LastOf(t, d, l).t, U, LastOf(t, d, l).x)
<1> DEFINE b == t.black[x]
           f == Far(t, l)[w]
           v == Paint(Paint(Paint(t, w, b), x, TRUE), f, TRUE)
           u == Rotate(v, x, l)
<1>0. l \in BOOLEAN /\ t.parent[d] = x /\ x \in U /\ Good(t, U)
  BY DEF Short
<1>1. b \in BOOLEAN /\ (b <=> x \notin Reds(t))
  <2>1. t \in Trees /\ t.black[Nil] = TRUE /\ x \in Node
    BY <1>0, PlainOf DEF Plain, Good
  <2> QED
    BY <2>1, Coloured
<1>2. Sibling(t, d, l) = w
  BY <1>0, SiblingIs
<1>3. Child(t, w, ~l) = f
  BY <1>0, Sides
<1>4. v.parent = t.parent
  <2>1. v.parent = Paint(Paint(t, w, b), x, TRUE).parent
    BY PaintLinks, Zenon
  <2>2. Paint(Paint(t, w, b), x, TRUE).parent = Paint(t, w, b).parent
    BY PaintLinks, Zenon
  <2>3. Paint(t, w, b).parent = t.parent
    BY PaintParent
  <2> QED
    BY <2>1, <2>2, <2>3, Zenon
<1>5. v.parent[d] = x
  BY <1>4, <1>0, Zenon
<1>6. LastOf(t, d, l) = [t |-> u, x |-> u.root]
  BY <1>0, <1>2, <1>3, <1>5, Zenon DEF LastOf
<1>f. f = Far(t, l)[w] /\ f \in Reds(t)
  OBVIOUS
<1> HIDE DEF b, f
<1>7. Lacking(u, U, u.root)
  BY <1>1, <1>f, RemoveFarRed
<1> HIDE DEF u
<1>8. TurnIs(LastOf(t, d, l), u, u.root)
  BY <1>6, TurnOf, Zenon
<1> QED
  BY <1>7, <1>8, Zenon DEF TurnIs

\* With a black sibling the turn leaves a tree that lacks a black node only where it
\* goes on.
LEMMA RestKeeps ==
  ASSUME NEW t, NEW U, NEW d, NEW x, NEW l, Short(t, U, d, x, l), Far(t, l)[x] \notin Reds(t)
  PROVE  Lacking(RestOf(t, d, l).t, U, RestOf(t, d, l).x)
<1> DEFINE w == Far(t, l)[x]
           f == Far(t, l)[w]
           n == Near(t, l)[w]
<1>0. l \in BOOLEAN /\ t.parent[d] = x /\ x \in U /\ Good(t, U) /\ w \in U
  BY DEF Short
<1>1. \A c \in Node : t.black[c] \in BOOLEAN /\ (t.black[c] <=> c \notin Reds(t))
  <2>1. t \in Trees /\ t.black[Nil] = TRUE
    BY <1>0, GoodSeen
  <2> QED
    BY <2>1, Coloured
<1>c. t.left[w] \in Node /\ t.right[w] \in Node /\ f \in Node /\ n \in Node
  <2>1. t.left \in [Node -> Node] /\ t.right \in [Node -> Node] /\ w \in Node
    BY <1>0, PlainOf DEF Trees, Plain, Good
  <2>2. CASE l = TRUE
    BY <2>1, <2>2, NearFar
  <2>3. CASE l = FALSE
    BY <2>1, <2>3, NearFar
  <2> QED
    BY <2>2, <2>3, <1>0
<1>2. Sibling(t, d, l) = w
  BY <1>0, SiblingIs
<1>3. Child(t, w, ~l) = f /\ Child(t, w, l) = n
  BY <1>0, Sides
<1>w. w = Far(t, l)[x] /\ w \notin Reds(t) /\ f = Far(t, l)[w] /\ n = Near(t, l)[w]
  OBVIOUS
<1> HIDE DEF w, f, n
<1>4. CASE t.left[w] \notin Reds(t) /\ t.right[w] \notin Reds(t)
  <2>1. RestOf(t, d, l) = [t |-> Paint(t, w, FALSE), x |-> x]
    BY <1>4, <1>1, <1>c, <1>2, <1>0, Zenon DEF RestOf
  <2>2. TurnIs(RestOf(t, d, l), Paint(t, w, FALSE), x)
    BY <2>1, TurnOf, Zenon
  <2>3. Lacking(Paint(t, w, FALSE), U, x)
    BY <1>4, <1>w, RemoveBothBlack
  <2> QED
    BY <2>2, <2>3, Zenon DEF TurnIs
<1>5. CASE ~(t.left[w] \notin Reds(t) /\ t.right[w] \notin Reds(t))
  <2>0. ~(t.black[t.left[w]] /\ t.black[t.right[w]])
    BY <1>5, <1>1, <1>c
  <2>1. CASE f \in Reds(t)
    <3>1. RestOf(t, d, l) = LastOf(t, d, l)
      BY <2>0, <2>1, <1>1, <1>c, <1>2, <1>3, Zenon DEF RestOf
    <3> QED
      BY <3>1, <2>1, <1>w, LastKeeps
  <2>2. CASE f \notin Reds(t)
    <3> DEFINE m == ~l
               u == Rotate(Paint(Paint(t, n, TRUE), w, FALSE), w, m)
    <3>m. m \in BOOLEAN /\ \A v : Near(v, m) = Far(v, l) /\ Far(v, m) = Near(v, l)
      BY <1>0, Sides
    <3>1. RestOf(t, d, l) = LastOf(u, d, l)
      BY <2>0, <2>2, <1>1, <1>c, <1>2, <1>3, Zenon DEF RestOf
    <3> HIDE DEF m
    <3>2. n \in Reds(t)
      BY <1>5, <2>2, <1>w, <1>0, ChildrenSeen
    <3>3. FarRed(u, U, d, x, l)
      <4>1. f \notin Reds(t) /\ Far(t, l)[w] \notin Reds(t)
        BY <2>2, <1>w
      <4> QED
        BY <3>2, <3>m, <1>w, <4>1, RemoveNearRed, Zenon
    <3> HIDE DEF u
    <3> QED
      BY <3>1, <3>3, LastKeeps DEF FarRed
  <2> QED
    BY <2>1, <2>2
<1> QED
  BY <1>4, <1>5

\* A turn of the fix-up of a removal: what follows is a good tree of the same ids, where
\* only the new node at hand lacks a black node.
LEMMA RemoveTurnKeeps ==
  ASSUME NEW t, NEW U, NEW d, Lacking(t, U, d), d # t.root, d \notin Reds(t)
  PROVE  Lacking(RemoveTurn(t, d).t, U, RemoveTurn(t, d).x)
<1> DEFINE x == t.parent[d]
           l == IsLeft(t, d)
           s == Far(t, l)[x]
           u == Rotate(Paint(Paint(t, s, TRUE), x, FALSE), x, l)
<1>1. Short(t, U, d, x, l)
  BY ShortOf
<1>2. l \in BOOLEAN /\ s \in U /\ Good(t, U)
  BY <1>1 DEF Short
<1>3. s = Sibling(t, d, l)
  BY <1>2, SiblingIs
<1>4. RemoveTurn(t, d) = RestOf(IF t.black[s] THEN t ELSE u, d, l)
  BY <1>3, RemoveTurnIs, Zenon
<1>s. s = Far(t, l)[x]
  OBVIOUS
<1> HIDE DEF x, l, s
<1>5. t.black[s] \in BOOLEAN /\ (t.black[s] <=> s \notin Reds(t))
  <2>1. t \in Trees /\ t.black[Nil] = TRUE /\ s \in Node
    BY <1>2, PlainOf DEF Plain, Good
  <2> QED
    BY <2>1, Coloured
<1>6. CASE s \notin Reds(t)
  <2>1. RemoveTurn(t, d) = RestOf(t, d, l)
    BY <1>4, <1>5, <1>6, Zenon
  <2> QED
    BY <2>1, <1>1, <1>6, <1>s, RestKeeps
<1>7. CASE s \in Reds(t)
  <2>1. RemoveTurn(t, d) = RestOf(u, d, l)
    BY <1>4, <1>5, <1>7, Zenon
  <2>2. Short(u, U, d, x, l) /\ Far(u, l)[x] \notin Reds(u)
    BY <1>1, <1>7, <1>s, RemoveRedSibling
  <2> HIDE DEF u
  <2> QED
    BY <2>1, <2>2, RestKeeps
<1> QED
  BY <1>6, <1>7
----------------------------------------------------------------------------
(* The ends of the fix-ups.                                                *)

\* A tree between operations.
Settled(t, U) == Good(t, U) /\ Level(t, U, Null) /\ Quiet(t, U, Reds(t)) /\ t.root \notin Reds(t)

\* Where the loops end, painting makes a tree as it is between operations.
LEMMA InsertEnds ==
  ASSUME NEW t, NEW U, NEW a, Reddened(t, U, a), a = t.root \/ t.parent[a] \notin Reds(t)
  PROVE  Settled(Paint(t, t.root, TRUE), U)
<1> DEFINE N == t.left
           F == t.right
           P == t.parent
           r == t.root
           Red == Reds(t)
           u == Paint(t, r, TRUE)
<1>0. Good(t, U) /\ a \in U /\ Quiet(t, U, Red \ {a}) /\ Level(t, U, Null) /\ a \in Red
      /\ N[a] \notin Red /\ F[a] \notin Red /\ (r \notin Red \/ r = a) /\ (a = r \/ P[a] \notin Red)
  BY DEF Reddened
<1>1. Plain(N, F, P, r, U)
  BY <1>0, PlainOf
<1>2. r \in Node /\ r \in U
  BY <1>0, <1>1 DEF Plain
<1>3. Repainted(t, u, U, Red \ {r})
  BY <1>0, <1>2, PaintedBlack
<1> HIDE DEF u
<1>4. Good(u, U) /\ u.left = N /\ u.right = F /\ u.parent = P /\ u.root = r /\ Reds(u) = Red \ {r}
  BY <1>3, Zenon DEF Repainted
<1>5. PICK h : Heights(N, F, P, U, Red, Null, h)
  BY <1>0 DEF Level
<1>6. RedRule(N, F, U, Red \ {a})
  BY <1>0 DEF Quiet
<1>7. PICK lo, hi : Sorted(LT, N, F, P, r, U, lo, hi)
  BY <1>0 DEF Good, Shaped
<1> SUFFICES (\E h2 : Heights(N, F, P, U, Red \ {r}, Null, h2)) /\ RedRule(N, F, U, Red \ {r})
  BY <1>4 DEF Settled, Level, Quiet, u
<1> HIDE DEF N, F, P, r, Red
<1>8. CASE a = r
  <2>1. \E h2 : Heights(N, F, P, U, Red \ {r}, Null, h2)
    BY <1>2, <1>5, <1>7, Blackened
  <2> QED
    BY <2>1, <1>6, <1>8
<1>9. CASE a # r
  <2>1. Red \ {r} = Red
    BY <1>9, <1>0
  <2>2. \A n \in U : n \in Red => N[n] # a /\ F[n] # a
    BY <1>0, <1>1, <1>9 DEF Plain
  <2>3. RedRule(N, F, U, Red)
    BY <2>2, <1>6, <1>0 DEF RedRule
  <2> QED
    BY <2>1, <2>3, <1>5
<1> QED
  BY <1>8, <1>9

LEMMA RemoveEnds ==
  ASSUME NEW t, NEW U, NEW d, Lacking(t, U, d), d = t.root \/ d \in Reds(t)
  PROVE  Settled(Paint(t, d, TRUE), U)
<1> DEFINE N == t.left
           F == t.right
           P == t.parent
           r == t.root
           Red == Reds(t)
           u == Paint(t, d, TRUE)
<1> USE SessionDbAssumption
<1>0. /\ Good(t, U) /\ Level(t, U, d) /\ Quiet(t, U, Red \ {d}) /\ d \in U \cup {Nil} /\ (r \notin Red \/ r = d)
      /\ (d = r \/ d \in Red)
  BY DEF Lacking
<1>1. Plain(N, F, P, r, U) /\ Nil \notin Red
  BY <1>0, PlainOf DEF Reds
<1>2. d \in Node
  BY <1>0, <1>1 DEF Plain, Node
<1>3. Repainted(t, u, U, Red \ {d})
  BY <1>0, <1>2, PaintedBlack
<1> HIDE DEF u
<1>4. Good(u, U) /\ u.left = N /\ u.right = F /\ u.parent = P /\ u.root = r /\ Reds(u) = Red \ {d}
  BY <1>3, Zenon DEF Repainted
<1>5. PICK h : Heights(N, F, P, U, Red, d, h)
  BY <1>0 DEF Level
<1>6. RedRule(N, F, U, Red \ {d})
  BY <1>0 DEF Quiet
<1>7. PICK lo, hi : Sorted(LT, N, F, P, r, U, lo, hi)
  BY <1>0 DEF Good, Shaped
<1>s. ASSUME \E h2 : Heights(N, F, P, U, Red \ {d}, Null, h2) PROVE Settled(u, U)
  BY <1>s, <1>4, <1>6, <1>0 DEF Settled, Level, Quiet
<1> HIDE DEF N, F, P, r, Red
<1>8. CASE d \in U
  <2>1. \E h2 : Heights(N, F, P, U, Red \ {d}, Null, h2)
    BY <1>0, <1>5, <1>7, <1>8, Blackened
  <2> QED
    BY <2>1, <1>s DEF u
<1>9. CASE d \notin U
  <2>1. U = {}
    BY <1>0, <1>1, <1>9 DEF Plain
  <2>2. Heights(N, F, P, U, Red \ {d}, Null, h)
    BY <2>1, <1>5 DEF Heights
  <2> QED
    BY <2>2, <1>s DEF u
<1> QED
  BY <1>8, <1>9

\* The order as seen from a side.
Lt(l) == IF l THEN LT ELSE Mirror(LT)

\* A search tree, seen from a side.
LEMMA ShapedSo ==
  ASSUME NEW t, NEW U, NEW l \in BOOLEAN
  PROVE  Shaped(t, U) <=> \E lo, hi : Sorted(Lt(l), Near(t, l), Far(t, l), t.parent, t.root, U, lo, hi)
<1>1. CASE l = TRUE
  <2>1. Lt(l) = LT /\ Near(t, l) = t.left /\ Far(t, l) = t.right
    BY <1>1, NearFar, Zenon DEF Lt
  <2> QED
    BY <2>1 DEF Shaped
<1>2. CASE l = FALSE
  <2>1. Lt(l) = Mirror(LT) /\ Near(t, l) = t.right /\ Far(t, l) = t.left
    BY <1>2, NearFar, Zenon DEF Lt
  <2>2. ASSUME Shaped(t, U)
        PROVE  \E lo, hi : Sorted(Lt(l), Near(t, l), Far(t, l), t.parent, t.root, U, lo, hi)
    BY <2>1, <2>2, MirrorSorted DEF Shaped
  <2>3. ASSUME NEW lo, NEW hi, Sorted(Mirror(LT), t.right, t.left, t.parent, t.root, U, lo, hi)
        PROVE  Shaped(t, U)
    <3>1. Sorted(Mirror(Mirror(LT)), t.left, t.right, t.parent, t.root, U, hi, lo)
      BY <2>3, MirrorSorted
    <3>2. Mirror(Mirror(LT)) = LT
      BY MirrorTwice
    <3> QED
      BY <3>1, <3>2 DEF Shaped
  <2> QED
    BY <2>1, <2>2, <2>3
<1> QED
  BY <1>1, <1>2
----------------------------------------------------------------------------
(* Insert: the walk, and the node attached.                                *)

\* The parts of a tree, changed one at a time.
LEMMA ExceptIs ==
  ASSUME NEW r, NEW L, NEW R, NEW P, NEW B, NEW k, NEW v
  PROVE  /\ [TreeOf(r, L, R, P, B) EXCEPT !.root = v] = TreeOf(v, L, R, P, B)
         /\ [TreeOf(r, L, R, P, B) EXCEPT !.left[k] = v] = TreeOf(r, With(L, k, v), R, P, B)
         /\ [TreeOf(r, L, R, P, B) EXCEPT !.right[k] = v] = TreeOf(r, L, With(R, k, v), P, B)
         /\ [TreeOf(r, L, R, P, B) EXCEPT !.parent[k] = v] = TreeOf(r, L, R, With(P, k, v), B)
         /\ [TreeOf(r, L, R, P, B) EXCEPT !.black[k] = v] = TreeOf(r, L, R, P, With(B, k, v))
BY DEF TreeOf, With

\* The colours B once k is red.
Marked(B, k) == With(B, k, FALSE)

\* u is the tree of r, L, R, P and B with the new node k below f.
AttachedSo(u, r, L, R, P, B, k, f) ==
  /\ f = Null => u = TreeOf(k, With(L, k, Nil), With(R, k, Nil), With(P, k, f), Marked(B, k))
  /\ f # Null /\ Less(k, f)
       => u = TreeOf(r, With(With(L, k, Nil), f, k), With(R, k, Nil), With(P, k, f), Marked(B, k))
  /\ f # Null /\ ~Less(k, f)
       => u = TreeOf(r, With(L, k, Nil), With(With(R, k, Nil), f, k), With(P, k, f), Marked(B, k))

\* Attached on a tree in parts.
LEMMA AttachedIs ==
  ASSUME NEW r, NEW L, NEW R, NEW P, NEW B, NEW k, NEW f
  PROVE  AttachedSo(Attached(TreeOf(r, L, R, P, B), k, f), r, L, R, P, B, k, f)
<1> DEFINE t == TreeOf(r, L, R, P, B)
           u == [t EXCEPT !.left[k] = Nil, !.right[k] = Nil, !.parent[k] = f, !.black[k] = FALSE]
<1>1. u = TreeOf(r, With(L, k, Nil), With(R, k, Nil), With(P, k, f), Marked(B, k))
  <2>1. u = [[[[t EXCEPT !.left[k] = Nil] EXCEPT !.right[k] = Nil] EXCEPT !.parent[k] = f] EXCEPT !.black[k] = FALSE]
    <3> HIDE DEF t
    <3> QED
      OBVIOUS
  <2>2. [t EXCEPT !.left[k] = Nil] = TreeOf(r, With(L, k, Nil), R, P, B)
    BY ExceptIs
  <2>3. [TreeOf(r, With(L, k, Nil), R, P, B) EXCEPT !.right[k] = Nil] = TreeOf(r, With(L, k, Nil), With(R, k, Nil), P, B)
    BY ExceptIs
  <2>4. [TreeOf(r, With(L, k, Nil), With(R, k, Nil), P, B) EXCEPT !.parent[k] = f] =
          TreeOf(r, With(L, k, Nil), With(R, k, Nil), With(P, k, f), B)
    BY ExceptIs
  <2>5. [TreeOf(r, With(L, k, Nil), With(R, k, Nil), With(P, k, f), B) EXCEPT !.black[k] = FALSE] =
          TreeOf(r, With(L, k, Nil), With(R, k, Nil), With(P, k, f), Marked(B, k))
    <3> DEFINE no == FALSE
    <3> HIDE DEF no
    <3>1. [TreeOf(r, With(L, k, Nil), With(R, k, Nil), With(P, k, f), B) EXCEPT !.black[k] = no] =
            TreeOf(r, With(L, k, Nil), With(R, k, Nil), With(P, k, f), With(B, k, no))
      BY ExceptIs
    <3> QED
      BY <3>1, Zenon DEF no, Marked
  <2> HIDE DEF u, t
  <2> QED
    BY <2>1, <2>2, <2>3, <2>4, <2>5
<1> HIDE DEF t
<1>2. /\ f = Null => Attached(t, k, f) = [u EXCEPT !.root = k]
      /\ f # Null /\ Less(k, f) => Attached(t, k, f) = [u EXCEPT !.left[f] = k]
      /\ f # Null /\ ~Less(k, f) => Attached(t, k, f) = [u EXCEPT !.right[f] = k]
  BY Zenon DEF Attached
<1> HIDE DEF u
<1>3. /\ [u EXCEPT !.root = k] = TreeOf(k, With(L, k, Nil), With(R, k, Nil), With(P, k, f), Marked(B, k))
      /\ [u EXCEPT !.left[f] = k] =
           TreeOf(r, With(With(L, k, Nil), f, k), With(R, k, Nil), With(P, k, f), Marked(B, k))
      /\ [u EXCEPT !.right[f] = k] =
           TreeOf(r, With(L, k, Nil), With(With(R, k, Nil), f, k), With(P, k, f), Marked(B, k))
  <2> DEFINE L1 == With(L, k, Nil)
             R1 == With(R, k, Nil)
             P1 == With(P, k, f)
             B1 == Marked(B, k)
  <2>1. u = TreeOf(r, L1, R1, P1, B1)
    BY <1>1
  <2> HIDE DEF L1, R1, P1, B1
  <2>2. /\ [u EXCEPT !.root = k] = TreeOf(k, L1, R1, P1, B1)
        /\ [u EXCEPT !.left[f] = k] = TreeOf(r, With(L1, f, k), R1, P1, B1)
        /\ [u EXCEPT !.right[f] = k] = TreeOf(r, L1, With(R1, f, k), P1, B1)
    BY <2>1 DEF TreeOf, With
  <2> QED
    BY <2>2 DEF L1, R1, P1, B1
<1> QED
  BY <1>2, <1>3 DEF t, AttachedSo

\* u has the links given and a red node k more than t.
HasNew(t, u, k, r, L, R, P) ==
  /\ u \in Trees /\ u.black[Nil] = TRUE /\ Reds(u) = Reds(t) \cup {k}
  /\ u.root = r /\ u.left = L /\ u.right = R /\ u.parent = P

\* A new red node, wherever it is linked.
LEMMA NewNode ==
  ASSUME NEW t \in Trees, t.black[Nil] = TRUE, NEW k \in Id,
         NEW r \in Node, NEW L \in [Node -> Node], NEW R \in [Node -> Node],
         NEW P \in [Node -> Id \cup {Null}], NEW u, u = TreeOf(r, L, R, P, Marked(t.black, k))
  PROVE  HasNew(t, u, k, r, L, R, P)
<1> DEFINE w == TreeOf(r, L, R, P, t.black)
<1> USE SessionDbAssumption
<1>1. w \in Trees
  <2>1. t.black \in [Node -> BOOLEAN]
    BY DEF Trees
  <2> QED
    BY <2>1, TreeTyped
<1>2. w.root = r /\ w.left = L /\ w.right = R /\ w.parent = P /\ w.black = t.black
  BY TreeFields
<1>3. u = Paint(w, k, FALSE)
  <2> DEFINE no == FALSE
  <2> HIDE DEF no
  <2>1. Paint(w, k, no) = TreeOf(r, L, R, P, With(t.black, k, no))
    BY PaintIs
  <2> QED
    BY <2>1, Zenon DEF no, Marked
<1> HIDE DEF w
<1>4. k \in Node /\ k # Nil
  BY DEF Node
<1>5. w.black[Nil] = TRUE
  BY <1>2, Zenon
<1> DEFINE v == Paint(w, k, FALSE)
<1>6. /\ v \in Trees /\ v.black[Nil] = TRUE
      /\ v.left = w.left /\ v.right = w.right /\ v.parent = w.parent /\ v.root = w.root
      /\ Reds(v) = Reds(w) \cup {k}
  BY ONLY <1>1, <1>4, <1>5, Painted, Zenon
<1> HIDE DEF v
<1>u. u = v
  BY <1>3 DEF v
<1>7. Reds(w) = Reds(t)
  BY <1>2, Zenon DEF Reds
<1> QED
  BY <1>2, <1>6, <1>7, <1>u, Zenon DEF HasNew

\* Linked where the walk ended, it may have a red parent and nothing else is wrong.
LEMMA GrownKeeps ==
  ASSUME NEW t, NEW U, Settled(t, U), NEW l \in BOOLEAN, NEW lo, NEW hi,
         Sorted(Lt(l), Near(t, l), Far(t, l), t.parent, t.root, U, lo, hi),
         NEW f \in U, Near(t, l)[f] = Nil, NEW k \in Id, k \in Lt(l)[f], InSpan(Lt(l), lo, hi, f, k),
         NEW u \in Trees, u.black[Nil] = TRUE, u.root = t.root, Reds(u) = Reds(t) \cup {k},
         Grown(Near(t, l), Far(t, l), t.parent, f, k, Near(u, l), Far(u, l), u.parent)
  PROVE  k \notin U /\ Reddened(u, U \cup {k}, k)
<1> DEFINE N == Near(t, l)
           F == Far(t, l)
           P == t.parent
           r == t.root
           Red == Reds(t)
           Red2 == Red \cup {k}
           N2 == Near(u, l)
           F2 == Far(u, l)
           P2 == u.parent
           V == U \cup {k}
           lt == Lt(l)
<1>0. Good(t, U) /\ Level(t, U, Null) /\ Quiet(t, U, Red) /\ r \notin Red
  BY DEF Settled
<1>1. PICK h : Heights(N, F, P, U, Red, Null, h)
  BY <1>0, Seen
<1>2. RedRule(N, F, U, Red)
  BY <1>0, Seen
<1>3. Sorted(lt, N, F, P, r, U, lo, hi) /\ Grown(N, F, P, f, k, N2, F2, P2) /\ N[f] = Nil /\ k \in lt[f]
      /\ InSpan(lt, lo, hi, f, k) /\ Reds(u) = Red2 /\ u.root = r /\ Red \subseteq Id
  BY DEF Reds
<1>r. Red2 = Red \cup {k}
  OBVIOUS
<1>g. ASSUME \E lo2, hi2 : Sorted(lt, N2, F2, P2, r, V, lo2, hi2) PROVE Good(u, V)
  <2>1. Shaped(u, V)
    BY <1>g, ShapedSo
  <2> QED
    BY <2>1 DEF Good
<1>h. ASSUME \E h2 : Heights(N2, F2, P2, V, Red2, Null, h2) PROVE Level(u, V, Null)
  BY <1>h, Seen
<1>q. ASSUME RedRule(N2, F2, V, Red2 \ {k}) PROVE Quiet(u, V, Red2 \ {k})
  BY <1>q, Seen
<1>c. ASSUME N2[k] \notin Red2 /\ F2[k] \notin Red2 PROVE u.left[k] \notin Red2 /\ u.right[k] \notin Red2
  BY <1>c, ChildrenSeen
<1>f. f \in U /\ k \in Id
  OBVIOUS
<1> HIDE DEF N, F, P, r, Red, Red2, N2, F2, P2, V, lt
<1>4. k \notin U /\ \E lo2, hi2 : Sorted(lt, N2, F2, P2, r, V, lo2, hi2)
  BY ONLY <1>3, <1>f, GrownSorted DEF V
<1>5. (\E h2 : Heights(N2, F2, P2, V, Red2, Null, h2)) /\ RedRule(N2, F2, V, Red2 \ {k})
      /\ N2[k] \notin Red2 /\ F2[k] \notin Red2
  <2>1. Sorted(lt, N, F, P, r, U, lo, hi) /\ f \in U /\ N[f] = Nil /\ k \in Id /\ k \notin U /\ Grown(N, F, P, f, k, N2, F2, P2)
    BY <1>3, <1>4
  <2>2. Red \subseteq Id
    BY <1>3
  <2> QED
    BY ONLY <1>1, <1>2, <2>1, <2>2, <1>r, GrownHeights DEF V
<1>6. r # k
  BY <1>3, <1>4 DEF Sorted, Linked
<1>7. Reddened(u, V, k)
  BY <1>0, <1>3, <1>4, <1>5, <1>6, <1>g, <1>h, <1>q, <1>c, <1>r DEF Reddened, V
<1> QED
  BY <1>4, <1>7 DEF V

\* The walk from the root towards the key k: at the node a, or past the node f.
Walking(t, U, k, a, f) ==
  \E lo, hi :
    /\ Sorted(LT, t.left, t.right, t.parent, t.root, U, lo, hi)
    /\ \/ a \in U /\ InSpan(LT, lo, hi, a, k)
       \/ a = Nil /\ f = Null /\ t.root = Nil
       \/ /\ a = Nil /\ f \in U /\ k # f /\ InSpan(LT, lo, hi, f, k)
          /\ IF Less(k, f) THEN t.left[f] = Nil ELSE t.right[f] = Nil

\* The comparisons, if the ids are in order.
LEMMA LessIs ==
  ASSUME Ordered, NEW a \in Id, NEW b \in Id
  PROVE  /\ Less(a, b) <=> a \in LT[b]
         /\ a # b /\ ~Less(a, b) => b \in LT[a] /\ a \in Mirror(LT)[b]
         /\ Same(a, b) <=> a = b
<1>1. a \in LT[b] <=> Less(a, b)
  BY DEF LT
<1>2. a \in Mirror(LT)[b] <=> b \in LT[a]
  BY DEF Mirror
<1> HIDE DEF LT
<1>3. a = b \/ a \in LT[b] \/ b \in LT[a]
  BY DEF Ordered, Order
<1>4. Same(a, b) <=> a = b
  BY DEF Ordered
<1> QED
  BY <1>1, <1>2, <1>3, <1>4

\* The links of Attached, below a node and at the root.
LEMMA GrownIs ==
  ASSUME NEW N \in [Node -> Node], NEW F \in [Node -> Node], NEW P \in [Node -> Id \cup {Null}],
         NEW f \in Id, NEW k \in Id, f # k,
         NEW N2, N2 = With(With(N, k, Nil), f, k), NEW F2, F2 = With(F, k, Nil), NEW P2, P2 = With(P, k, f)
  PROVE  /\ Grown(N, F, P, f, k, N2, F2, P2)
         /\ N2 \in [Node -> Node] /\ F2 \in [Node -> Node] /\ P2 \in [Node -> Id \cup {Null}]
<1>0. f \in Node /\ k \in Node /\ Nil \in Node
  BY DEF Node
<1>1. N2 = [n \in Node |-> IF n = k THEN Nil ELSE IF n = f THEN k ELSE N[n]]
  BY <1>0 DEF With
<1>2. F2 = [n \in Node |-> IF n = k THEN Nil ELSE F[n]]
  BY <1>0 DEF With
<1>3. P2 = [n \in Node |-> IF n = k THEN f ELSE P[n]]
  BY <1>0 DEF With
<1>4. N2 \in [Node -> Node] /\ F2 \in [Node -> Node] /\ P2 \in [Node -> Id \cup {Null}]
  BY <1>0, <1>1, <1>2, <1>3
<1> QED
  BY <1>1, <1>2, <1>3, <1>4 DEF Grown

LEMMA RootedIs ==
  ASSUME NEW N \in [Node -> Node], NEW F \in [Node -> Node], NEW P \in [Node -> Id \cup {Null}], NEW k \in Id,
         NEW N2, N2 = With(N, k, Nil), NEW F2, F2 = With(F, k, Nil), NEW P2, P2 = With(P, k, Null)
  PROVE  /\ Rooted(N, F, P, k, N2, F2, P2)
         /\ N2 \in [Node -> Node] /\ F2 \in [Node -> Node] /\ P2 \in [Node -> Id \cup {Null}]
<1>0. k \in Node /\ Nil \in Node
  BY DEF Node
<1>1. N2 = [n \in Node |-> IF n = k THEN Nil ELSE N[n]]
  BY <1>0 DEF With
<1>2. F2 = [n \in Node |-> IF n = k THEN Nil ELSE F[n]]
  BY <1>0 DEF With
<1>3. P2 = [n \in Node |-> IF n = k THEN Null ELSE P[n]]
  BY <1>0 DEF With
<1>4. N2 \in [Node -> Node] /\ F2 \in [Node -> Node] /\ P2 \in [Node -> Id \cup {Null}]
  BY <1>0, <1>1, <1>2, <1>3
<1> QED
  BY <1>1, <1>2, <1>3, <1>4 DEF Rooted

\* The two sides.
LEMMA OnLeft ==
  \E l \in BOOLEAN : Lt(l) = LT /\ \A t : Near(t, l) = t.left /\ Far(t, l) = t.right
<1>1. Lt(TRUE) = LT /\ \A t : Near(t, TRUE) = t.left /\ Far(t, TRUE) = t.right
  BY Zenon DEF Lt, Near, Far
<1> QED
  BY <1>1, Zenon

LEMMA OnRight ==
  \E l \in BOOLEAN : Lt(l) = Mirror(LT) /\ \A t : Near(t, l) = t.right /\ Far(t, l) = t.left
<1>1. Lt(FALSE) = Mirror(LT) /\ \A t : Near(t, FALSE) = t.right /\ Far(t, FALSE) = t.left
  BY Zenon DEF Lt, Near, Far
<1> QED
  BY <1>1, Zenon

\* A span, mirrored.
LEMMA SpanMirrored ==
  ASSUME NEW lo, NEW hi, NEW U, Bounded(LT, lo, hi, U), NEW n \in Id, NEW u \in Id, InSpan(LT, lo, hi, n, u)
  PROVE  InSpan(Mirror(LT), hi, lo, n, u)
<1>1. \A a, b \in Id : a \in Mirror(LT)[b] <=> b \in LT[a]
  BY DEF Mirror
<1>2. lo[n] \in Id \cup {Null} /\ hi[n] \in Id \cup {Null}
  BY DEF Bounded
<1> HIDE DEF LT
<1> QED
  BY <1>1, <1>2 DEF InSpan

\* The walk that ends at the sentinel shows the key is not in the tree, and the node
\* attached there leaves a tree the fix-up can start from.
LEMMA AttachKeeps ==
  ASSUME Ordered, NEW t, NEW U, Settled(t, U), NEW k \in Id, NEW f, Walking(t, U, k, Nil, f)
  PROVE  k \notin U /\ Reddened(Attached(t, k, f), U \cup {k}, k)
<1> DEFINE L == t.left
           R == t.right
           P == t.parent
           B == t.black
           r == t.root
           u == Attached(t, k, f)
<1> USE SessionDbAssumption
<1>0. Good(t, U) /\ t \in Trees /\ t.black[Nil] = TRUE
  BY DEF Settled, Good
<1>1. PICK lo, hi :
        /\ Sorted(LT, L, R, P, r, U, lo, hi)
        /\ \/ f = Null /\ r = Nil
           \/ /\ f \in U /\ k # f /\ InSpan(LT, lo, hi, f, k)
              /\ IF Less(k, f) THEN L[f] = Nil ELSE R[f] = Nil
  <2>1. Nil \notin U
    BY <1>0, PlainOf DEF Plain
  <2> QED
    BY <2>1 DEF Walking
<1>2. t = TreeOf(r, L, R, P, B)
  BY <1>0, TreeIs
<1>3. r \in Node /\ L \in [Node -> Node] /\ R \in [Node -> Node] /\ P \in [Node -> Id \cup {Null}]
  BY <1>0 DEF Trees
<1>4. k \in Node /\ Null \notin U /\ U \subseteq Id
  BY <1>1 DEF Node, Sorted, Linked
<1>b. B = t.black /\ L = t.left /\ R = t.right /\ P = t.parent /\ r = t.root
  OBVIOUS
<1> HIDE DEF L, R, P, B, r
<1> DEFINE B2 == Marked(B, k)
<1>5. /\ f = Null => u = TreeOf(k, With(L, k, Nil), With(R, k, Nil), With(P, k, f), B2)
      /\ f # Null /\ Less(k, f) => u = TreeOf(r, With(With(L, k, Nil), f, k), With(R, k, Nil), With(P, k, f), B2)
      /\ f # Null /\ ~Less(k, f) => u = TreeOf(r, With(L, k, Nil), With(With(R, k, Nil), f, k), With(P, k, f), B2)
  <2>1. u = Attached(TreeOf(r, L, R, P, B), k, f)
    BY <1>2
  <2>2. AttachedSo(u, r, L, R, P, B, k, f)
    BY <2>1, AttachedIs, Zenon
  <2> HIDE DEF u
  <2> QED
    BY <2>2, Zenon DEF AttachedSo
<1> HIDE DEF u, B2
<1>m. B2 = Marked(t.black, k)
  BY <1>b DEF B2
<1>6. CASE f = Null
  <2> DEFINE L2 == With(L, k, Nil)
             R2 == With(R, k, Nil)
             P2 == With(P, k, f)
  <2>1. /\ Rooted(L, R, P, k, L2, R2, P2)
        /\ L2 \in [Node -> Node] /\ R2 \in [Node -> Node] /\ P2 \in [Node -> Id \cup {Null}]
    BY <1>3, <1>6, RootedIs
  <2>2. u = TreeOf(k, L2, R2, P2, B2)
    BY <1>5, <1>6, Zenon
  <2> HIDE DEF L2, R2, P2
  <2>u. HasNew(t, u, k, k, L2, R2, P2)
    BY <1>0, <1>4, <1>b, <2>1, <2>2, <1>m, NewNode
  <2>3. /\ u \in Trees /\ u.black[Nil] = TRUE /\ Reds(u) = Reds(t) \cup {k}
        /\ u.root = k /\ u.left = L2 /\ u.right = R2 /\ u.parent = P2
    BY <2>u, Zenon DEF HasNew
  <2>4. r = Nil
    BY <1>1, <1>4, <1>6
  <2>5. U = {} /\ \E lo2, hi2 : Sorted(LT, L2, R2, P2, k, {k}, lo2, hi2)
    BY <1>1, <2>1, <2>4, RootedSorted
  <2> DEFINE Red == Reds(t)
             Red2 == Reds(u)
  <2>6. Red \subseteq Id /\ Red2 = Red \cup {k}
    BY <2>3 DEF Reds
  <2> HIDE DEF Red, Red2
  <2>7. Sprouted(L2, R2, P2, {k}, Red2, k)
    BY <2>1, <2>6, RootedHeights
  <2>8. Reddened(u, {k}, k)
    BY <2>3, <2>5, <2>6, <2>7 DEF Sprouted, Reddened, Good, Shaped, Level, Quiet, Red2
  <2>9. U \cup {k} = {k} /\ k \notin U
    BY <2>5
  <2> QED
    BY <2>8, <2>9 DEF u
<1>7. ASSUME f # Null
      PROVE  f \in U /\ f \in Id /\ k # f /\ InSpan(LT, lo, hi, f, k) /\ IF Less(k, f) THEN L[f] = Nil ELSE R[f] = Nil
  BY <1>1, <1>4, <1>7
<1>8. CASE f # Null /\ Less(k, f)
  <2> DEFINE L2 == With(With(L, k, Nil), f, k)
             R2 == With(R, k, Nil)
             P2 == With(P, k, f)
  <2>f. f \in U /\ f \in Id /\ k # f /\ InSpan(LT, lo, hi, f, k) /\ L[f] = Nil
    BY <1>7, <1>8
  <2>1. /\ Grown(L, R, P, f, k, L2, R2, P2)
        /\ L2 \in [Node -> Node] /\ R2 \in [Node -> Node] /\ P2 \in [Node -> Id \cup {Null}]
    BY <1>3, <2>f, GrownIs
  <2>2. u = TreeOf(r, L2, R2, P2, B2)
    BY <1>5, <1>8, Zenon
  <2> HIDE DEF L2, R2, P2
  <2>u. HasNew(t, u, k, r, L2, R2, P2)
    BY <1>0, <1>3, <1>b, <2>1, <2>2, <1>m, NewNode
  <2>3. /\ u \in Trees /\ u.black[Nil] = TRUE /\ Reds(u) = Reds(t) \cup {k}
        /\ u.root = r /\ u.left = L2 /\ u.right = R2 /\ u.parent = P2
    BY <2>u, Zenon DEF HasNew
  <2>4. PICK l \in BOOLEAN : Lt(l) = LT /\ \A v : Near(v, l) = v.left /\ Far(v, l) = v.right
    BY OnLeft
  <2>5. k \in LT[f]
    BY <1>8, <2>f, LessIs
  <2>6. /\ Sorted(Lt(l), Near(t, l), Far(t, l), t.parent, t.root, U, lo, hi)
        /\ Near(t, l)[f] = Nil /\ k \in Lt(l)[f] /\ InSpan(Lt(l), lo, hi, f, k)
        /\ Grown(Near(t, l), Far(t, l), t.parent, f, k, Near(u, l), Far(u, l), u.parent)
    <3> HIDE DEF LT
    <3> QED
      BY <1>1, <2>1, <2>3, <2>4, <2>5, <2>f, <1>b
  <2> QED
    BY <2>3, <2>6, <2>f, <1>b, GrownKeeps DEF u
<1>9. CASE f # Null /\ ~Less(k, f)
  <2> DEFINE L2 == With(L, k, Nil)
             R2 == With(With(R, k, Nil), f, k)
             P2 == With(P, k, f)
  <2>f. f \in U /\ f \in Id /\ k # f /\ InSpan(LT, lo, hi, f, k) /\ R[f] = Nil
    BY <1>7, <1>9
  <2>1. /\ Grown(R, L, P, f, k, R2, L2, P2)
        /\ L2 \in [Node -> Node] /\ R2 \in [Node -> Node] /\ P2 \in [Node -> Id \cup {Null}]
    BY <1>3, <2>f, GrownIs
  <2>2. u = TreeOf(r, L2, R2, P2, B2)
    BY <1>5, <1>9, Zenon
  <2> HIDE DEF L2, R2, P2
  <2>u. HasNew(t, u, k, r, L2, R2, P2)
    BY <1>0, <1>3, <1>b, <2>1, <2>2, <1>m, NewNode
  <2>3. /\ u \in Trees /\ u.black[Nil] = TRUE /\ Reds(u) = Reds(t) \cup {k}
        /\ u.root = r /\ u.left = L2 /\ u.right = R2 /\ u.parent = P2
    BY <2>u, Zenon DEF HasNew
  <2>4. PICK l \in BOOLEAN : Lt(l) = Mirror(LT) /\ \A v : Near(v, l) = v.right /\ Far(v, l) = v.left
    BY OnRight
  <2>5. k \in Mirror(LT)[f]
    BY <1>9, <2>f, LessIs
  <2>6. Sorted(Mirror(LT), R, L, P, r, U, hi, lo)
    BY <1>1, MirrorSorted
  <2>7. InSpan(Mirror(LT), hi, lo, f, k)
    BY <1>1, <2>f, SpanMirrored DEF Sorted
  <2>8. /\ Sorted(Lt(l), Near(t, l), Far(t, l), t.parent, t.root, U, hi, lo)
        /\ Near(t, l)[f] = Nil /\ k \in Lt(l)[f] /\ InSpan(Lt(l), hi, lo, f, k)
        /\ Grown(Near(t, l), Far(t, l), t.parent, f, k, Near(u, l), Far(u, l), u.parent)
    <3> HIDE DEF LT
    <3> QED
      BY <2>1, <2>3, <2>4, <2>5, <2>6, <2>7, <2>f, <1>b
  <2> QED
    BY <2>3, <2>8, <2>f, <1>b, GrownKeeps DEF u
<1> QED
  BY <1>6, <1>8, <1>9
----------------------------------------------------------------------------
(* Remove: the node unlinked.                                              *)

\* The child that takes the place of y.
Only(L, R, y) == IF L[y] # Nil THEN L[y] ELSE R[y]

\* Spliced on a tree in parts.
LEMMA SplicedIs ==
  ASSUME NEW r \in Node, NEW L, NEW R, NEW P, NEW B, Balls(L, R, P, B), NEW y \in Id,
         NEW c \in Node, c = Only(L, R, y), c # y, P[y] = Null <=> y = r,
         P[y] # Null => (y = L[P[y]] /\ y # R[P[y]]) \/ (y = R[P[y]] /\ y # L[P[y]])
  PROVE  \E L2, R2, P2, r2 :
           /\ SplicedOut(L, R, P, r, y, c, L2, R2, P2, r2)
           /\ Spliced(TreeOf(r, L, R, P, B), y) = TreeOf(r2, L2, R2, P2, B)
           /\ r2 \in Node /\ Balls(L2, R2, P2, B)
<1> USE SessionDbAssumption
<1> DEFINE t == TreeOf(r, L, R, P, B)
           p == P[y]
           P1 == With(P, c, p)
           Ll == IF p # Null /\ y = L[p] THEN With(L, p, c) ELSE L
           Rr == IF p # Null /\ y # L[p] THEN With(R, p, c) ELSE R
           rr == IF p = Null THEN c ELSE r
<1>1. t.left = L /\ t.right = R /\ t.parent = P
  BY TreeFields
<1>2. Spliced(t, y) = Replaced([t EXCEPT !.parent[c] = t.parent[y]], y, c)
  <2>1. c = IF t.left[y] # Nil THEN t.left[y] ELSE t.right[y]
    BY <1>1 DEF Only
  <2> HIDE DEF t
  <2> QED
    BY <2>1, Zenon DEF Spliced
<1>3. [t EXCEPT !.parent[c] = t.parent[y]] = TreeOf(r, L, R, P1, B)
  BY <1>1, ExceptIs
<1>b. /\ L \in [Node -> Node] /\ R \in [Node -> Node] /\ P \in [Node -> Id \cup {Null}] /\ B \in [Node -> BOOLEAN]
  BY DEF Balls
<1>n. y \in Node /\ Null \notin Node /\ p \in Id \cup {Null} /\ \A i \in Id : i \in Node
  BY <1>b DEF Node
<1>4. P1[y] = p
  BY <1>b, <1>n DEF With
<1>5. Spliced(t, y) = Replaced(TreeOf(r, L, R, P1, B), y, c)
  BY <1>2, <1>3
<1> HIDE DEF t
<1>6. Replaced(TreeOf(r, L, R, P1, B), y, c) = TreeOf(rr, Ll, Rr, P1, B)
  <2> HIDE DEF P1
  <2>1. CASE p = Null
    <3>1. Replaced(TreeOf(r, L, R, P1, B), y, c) = TreeOf(c, L, R, P1, B)
      BY <1>4, <2>1, ReplacedRoot
    <3> QED
      BY <3>1, <2>1
  <2>2. CASE p # Null /\ y = L[p]
    <3>1. Replaced(TreeOf(r, L, R, P1, B), y, c) = TreeOf(r, With(L, p, c), R, P1, B)
      BY <1>4, <2>2, ReplacedLeft
    <3> QED
      BY <3>1, <2>2
  <2>3. CASE p # Null /\ y # L[p]
    <3>1. Replaced(TreeOf(r, L, R, P1, B), y, c) = TreeOf(r, L, With(R, p, c), P1, B)
      BY <1>4, <2>3, ReplacedRight
    <3> QED
      BY <3>1, <2>3
  <2> QED
    BY <2>1, <2>2, <2>3
<1>7. P1 = [n \in Node |-> IF n = c THEN p ELSE P[n]]
  BY <1>b DEF With
<1>8. Ll = [n \in Node |-> IF n = p /\ L[n] = y THEN c ELSE L[n]]
  <2>1. CASE p = Null \/ y # L[p]
    BY <2>1, <1>b, <1>n
  <2>2. CASE p # Null /\ y = L[p]
    BY <2>2, <1>b, <1>n DEF With
  <2> QED
    BY <2>1, <2>2
<1>9. Rr = [n \in Node |-> IF n = p /\ R[n] = y THEN c ELSE R[n]]
  <2>1. CASE p = Null \/ y = L[p]
    BY <2>1, <1>b, <1>n
  <2>2. CASE p # Null /\ y # L[p]
    BY <2>2, <1>b, <1>n DEF With
  <2> QED
    BY <2>1, <2>2
<1>10. rr = IF y = r THEN c ELSE r
  BY <1>n
<1>p. p = P[y]
  OBVIOUS
<1> HIDE DEF P1, Ll, Rr, rr, p
<1>11. SplicedOut(L, R, P, r, y, c, Ll, Rr, P1, rr)
  BY <1>7, <1>8, <1>9, <1>10, <1>p DEF SplicedOut
<1>12. rr \in Node /\ Balls(Ll, Rr, P1, B)
  BY <1>7, <1>8, <1>9, <1>10, <1>b, <1>n DEF Balls
<1> QED
  BY <1>5, <1>6, <1>11, <1>12 DEF t

\* A tree that lost a node of which c was the only child.
Missing(t, U, e, c) ==
  /\ Good(t, U) /\ Level(t, U, e) /\ Quiet(t, U, Reds(t) \ {e}) /\ Owing(t.left, t.right, t.parent, U, e)
  /\ c \in U \cup {Nil} /\ e \in {c, Null} /\ (t.root \notin Reds(t) \/ (t.root = c /\ e = c))
  /\ IF c = t.root THEN t.parent[c] = Null ELSE t.parent[c] \in U

\* A tree that lost a black node is what the fix-up of a removal starts from; one that
\* lost a red node is settled.
LEMMA MissingIs ==
  ASSUME NEW t, NEW U, NEW e, NEW c, Missing(t, U, e, c)
  PROVE  /\ e = c => Lacking(t, U, c)
         /\ e = Null => Settled(t, U)
<1> USE SessionDbAssumption
<1>1. e = c => Lacking(t, U, c)
  BY DEF Missing, Lacking
<1>2. ASSUME e = Null PROVE Settled(t, U)
  <2>1. Good(t, U) /\ Level(t, U, Null) /\ Quiet(t, U, Reds(t) \ {Null}) /\ c \in U \cup {Nil}
        /\ (t.root \notin Reds(t) \/ (t.root = c /\ Null = c))
    BY <1>2 DEF Missing
  <2>2. Null \notin U
    BY <2>1, PlainOf DEF Plain
  <2>3. Quiet(t, U, Reds(t))
    <3>1. Null \notin Reds(t)
      BY DEF Reds
    <3>2. Reds(t) \ {Null} = Reds(t)
      BY <3>1
    <3> QED
      BY <2>1, <3>2
  <2> QED
    BY <2>1, <2>2, <2>3 DEF Settled
<1> QED
  BY <1>1, <1>2

\* Unlinking a node with one child at most from a settled tree.
LEMMA SpliceKeeps ==
  ASSUME NEW t, NEW U, Settled(t, U), NEW y \in U, NEW l \in BOOLEAN, Near(t, l)[y] = Nil,
         NEW c, c = Only(t.left, t.right, y)
  PROVE  /\ Missing(Spliced(t, y), U \ {y}, IF y \in Reds(t) THEN Null ELSE c, c)
         /\ Reds(Spliced(t, y)) = Reds(t)
<1> DEFINE L == t.left
           R == t.right
           P == t.parent
           B == t.black
           r == t.root
           V == U \ {y}
           Red == Reds(t)
           e == IF y \in Red THEN Null ELSE c
           u == Spliced(t, y)
<1> USE SessionDbAssumption
<1>0. Good(t, U) /\ t \in Trees /\ t.black[Nil] = TRUE /\ Level(t, U, Null) /\ Quiet(t, U, Red) /\ r \notin Red
  BY DEF Settled, Good
<1>1. Plain(L, R, P, r, U)
  BY <1>0, PlainOf
<1>2. Plain(Near(t, l), Far(t, l), P, r, U)
  BY <1>0, GoodSeen
<1>3. c = Far(t, l)[y]
  <2>1. CASE l = TRUE
    <3>1. L[y] = Nil /\ Far(t, l)[y] = R[y]
      BY <2>1, NearFar
    <3> QED
      BY <3>1 DEF Only
  <2>2. CASE l = FALSE
    <3>1. R[y] = Nil /\ Far(t, l)[y] = L[y]
      BY <2>2, NearFar
    <3> QED
      BY <3>1 DEF Only
  <2> QED
    BY <2>1, <2>2
<1>4. t = TreeOf(r, L, R, P, B)
  BY <1>0, TreeIs
<1>5. r \in Node /\ Balls(L, R, P, B)
  BY <1>0 DEF Trees, Balls
<1>c. c \in U \cup {Nil} /\ c # y /\ (c # Nil => P[c] = y) /\ y \in Id /\ c \in Node
  BY <1>2, <1>3 DEF Plain, Node
<1>p. /\ (P[y] = Null <=> y = r) /\ (y # r => P[y] \in V /\ P[y] # c)
      /\ (P[y] # Null => (y = L[P[y]] /\ y # R[P[y]]) \/ (y = R[P[y]] /\ y # L[P[y]]))
  <2>1. PICK lo, hi : Sorted(LT, L, R, P, r, U, lo, hi)
    BY <1>0 DEF Good, Shaped
  <2>2. PICK lo2, hi2 : Sorted(Lt(l), Near(t, l), Far(t, l), P, r, U, lo2, hi2)
    BY <1>0, ShapedSo DEF Good
  <2>3. c # Nil => P[y] # c
    <3>1. ASSUME c # Nil PROVE P[y] # Far(t, l)[y]
      <4>1. Far(t, l)[y] # Nil
        BY <1>3, <3>1
      <4> DEFINE N == Near(t, l)
                 F == Far(t, l)
                 lt == Lt(l)
      <4>s. Sorted(lt, N, F, P, r, U, lo2, hi2) /\ F[y] # Nil
        BY <2>2, <4>1
      <4> HIDE DEF N, F, lt, P, r
      <4>2. P[y] # F[y]
        BY <4>s, TurnedAround
      <4> QED
        BY <4>2 DEF F, P
    <3> QED
      BY <3>1, <1>3
  <2>4. Nil \notin U /\ Null \notin U
    BY <1>1 DEF Plain
  <2> HIDE DEF L, R, P, r
  <2>5. (y # r => P[y] \in U /\ y \in {L[P[y]], R[P[y]]}) /\ (y = r => P[y] = Null) /\ P[y] # y /\ y # Nil
    BY <1>1 DEF Plain
  <2>6. y # r => L[P[y]] # R[P[y]]
    BY <2>5, <1>1 DEF Plain
  <2> QED
    BY <2>3, <2>4, <2>5, <2>6
<1>r. c # r
  BY <1>c, <1>1 DEF Plain
<1>b. B = t.black /\ L = t.left /\ R = t.right /\ P = t.parent /\ r = t.root
  OBVIOUS
<1> HIDE DEF L, R, P, B, r
<1>6. PICK L2, R2, P2, r2 :
        /\ SplicedOut(L, R, P, r, y, c, L2, R2, P2, r2)
        /\ Spliced(TreeOf(r, L, R, P, B), y) = TreeOf(r2, L2, R2, P2, B)
        /\ r2 \in Node /\ Balls(L2, R2, P2, B)
  <2>1. c = Only(L, R, y)
    BY <1>b
  <2> QED
    BY <1>5, <1>c, <1>p, <2>1, SplicedIs
<1>7. u = TreeOf(r2, L2, R2, P2, B)
  BY <1>4, <1>6
<1> HIDE DEF u
<1>8. u.root = r2 /\ u.left = L2 /\ u.right = R2 /\ u.parent = P2 /\ u.black = B
  BY <1>7, TreeFields
<1>9. u \in Trees
  BY <1>6, <1>7, TreeTyped DEF Balls
<1>10. u.black[Nil] = TRUE /\ Reds(u) = Red
  BY <1>0, <1>8, <1>b, Zenon DEF Reds
<1> DEFINE N == Near(t, l)
           F == Far(t, l)
           N2 == Near(u, l)
           F2 == Far(u, l)
           lt == Lt(l)
<1>11. SplicedOut(N, F, P, r, y, c, N2, F2, P2, r2)
  <2>1. CASE l = TRUE
    BY <2>1, <1>6, <1>8, <1>b, NearFar
  <2>2. CASE l = FALSE
    <3>1. N = R /\ F = L /\ N2 = R2 /\ F2 = L2
      BY <2>2, <1>8, <1>b, NearFar
    <3> HIDE DEF N, F, N2, F2
    <3> QED
      BY <3>1, <1>6 DEF SplicedOut
  <2> QED
    BY <2>1, <2>2
<1>12. PICK lo, hi : Sorted(lt, N, F, P, r, U, lo, hi)
  BY <1>0, <1>b, ShapedSo DEF Good
<1>13. PICK h : Heights(N, F, P, U, Red, Null, h)
  BY <1>0, <1>b, Seen
<1>14. RedRule(N, F, U, Red) /\ Red \subseteq Id
  BY <1>0, Seen DEF Reds
<1>15. N[y] = Nil /\ c = F[y] /\ y \in U /\ e = IF y \in Red THEN Null ELSE F[y]
  BY <1>3
<1>e. e \in {c, Null} /\ (e = Null => y \in Red \/ c = Null) /\ (y \notin Red => e = c)
  OBVIOUS
<1>s. ASSUME \E lo2, hi2 : Sorted(lt, N2, F2, P2, r2, V, lo2, hi2) PROVE Good(u, V)
  <2>1. Shaped(u, V)
    BY <1>s, <1>8, ShapedSo
  <2> QED
    BY <2>1, <1>9, <1>10 DEF Good
<1>h. ASSUME Heights(N2, F2, P2, V, Red, e, h) PROVE Level(u, V, e)
  <2> HIDE DEF e
  <2>1. \E h2 : Heights(Near(u, l), Far(u, l), u.parent, V, Reds(u), e, h2)
    BY <1>h, <1>8, <1>10
  <2> QED
    BY <2>1, Seen
<1>q. ASSUME RedRule(N2, F2, V, Red \ {e}) PROVE Quiet(u, V, Red \ {e})
  <2> HIDE DEF e
  <2> QED
    BY <1>q, Seen
<1>o. ASSUME Owing(N2, F2, P2, V, e) PROVE Owing(u.left, u.right, u.parent, V, e)
  <2> HIDE DEF e
  <2>1. Owing(Near(u, l), Far(u, l), u.parent, V, e)
    BY <1>o, <1>8
  <2> QED
    BY <2>1, Seen
<1>v. V = U \ {y}
  OBVIOUS
<1> HIDE DEF N, F, N2, F2, lt, Red, e, V
<1>16. \E lo2, hi2 : Sorted(lt, N2, F2, P2, r2, U \ {y}, lo2, hi2)
  BY <1>11, <1>12, <1>15, SplicedSorted
<1>17. /\ Heights(N2, F2, P2, U \ {y}, Red, e, h) /\ RedRule(N2, F2, U \ {y}, Red \ {e})
       /\ Owing(N2, F2, P2, U \ {y}, e)
  BY ONLY <1>11, <1>12, <1>13, <1>14, <1>15, SplicedHeights
<1>18. P2[c] = P[y] /\ r2 = IF y = r THEN c ELSE r
  BY <1>11, <1>c DEF SplicedOut
<1>19. u.root \notin Red \/ (u.root = c /\ e = c)
  <2>1. CASE y = r
    <3>1. y \notin Red
      BY <1>0, <1>b, <2>1
    <3> QED
      BY <3>1, <1>8, <1>18, <2>1, <1>e
  <2>2. CASE y # r
    BY <2>2, <1>8, <1>18, <1>0, <1>b
  <2> QED
    BY <2>1, <2>2
<1>20. IF c = u.root THEN u.parent[c] = Null ELSE u.parent[c] \in V
  BY <1>8, <1>18, <1>p, <1>r
<1>21. c \in V \cup {Nil}
  BY <1>c, <1>v
<1>22. Missing(u, V, e, c)
  BY <1>10, <1>16, <1>17, <1>19, <1>20, <1>21, <1>s, <1>h, <1>q, <1>o, <1>e, <1>v DEF Missing
<1> QED
  BY <1>10, <1>22 DEF u, V, e, Red

\* The colours B once k is black.
Cleared(B, k) == With(B, k, TRUE)

\* Freed on a tree in parts.
LEMMA FreedIs ==
  ASSUME NEW r, NEW L, NEW R, NEW P, NEW B, NEW k
  PROVE  Freed(TreeOf(r, L, R, P, B), k)
           = TreeOf(r, With(L, k, Nil), With(R, k, Nil), With(P, k, Null), Cleared(B, k))
<1> DEFINE t == TreeOf(r, L, R, P, B)
           u == Freed(t, k)
<1>1. u = [[[[t EXCEPT !.left[k] = Nil] EXCEPT !.right[k] = Nil] EXCEPT !.parent[k] = Null] EXCEPT !.black[k] = TRUE]
  <2> HIDE DEF t
  <2> QED
    BY DEF Freed
<1>2. [t EXCEPT !.left[k] = Nil] = TreeOf(r, With(L, k, Nil), R, P, B)
  BY ExceptIs
<1>3. [TreeOf(r, With(L, k, Nil), R, P, B) EXCEPT !.right[k] = Nil] = TreeOf(r, With(L, k, Nil), With(R, k, Nil), P, B)
  BY ExceptIs
<1>4. [TreeOf(r, With(L, k, Nil), With(R, k, Nil), P, B) EXCEPT !.parent[k] = Null] =
        TreeOf(r, With(L, k, Nil), With(R, k, Nil), With(P, k, Null), B)
  BY ExceptIs
<1>5. [TreeOf(r, With(L, k, Nil), With(R, k, Nil), With(P, k, Null), B) EXCEPT !.black[k] = TRUE] =
        TreeOf(r, With(L, k, Nil), With(R, k, Nil), With(P, k, Null), Cleared(B, k))
  <2> DEFINE yes == TRUE
  <2> HIDE DEF yes
  <2>1. [TreeOf(r, With(L, k, Nil), With(R, k, Nil), With(P, k, Null), B) EXCEPT !.black[k] = yes] =
          TreeOf(r, With(L, k, Nil), With(R, k, Nil), With(P, k, Null), With(B, k, yes))
    BY ExceptIs
  <2> QED
    BY <2>1, Zenon DEF yes, Cleared
<1> HIDE DEF u, t
<1>6. u = TreeOf(r, With(L, k, Nil), With(R, k, Nil), With(P, k, Null), Cleared(B, k))
  BY <1>1, <1>2, <1>3, <1>4, <1>5
<1> QED
  BY <1>6 DEF u, t

\* u is t, but for what the nodes say that are not in U.
Alike(t, u, U) ==
  /\ u \in Trees /\ u.black[Nil] = TRUE /\ u.root = t.root
  /\ \A n \in U \cup {Nil} : u.left[n] = t.left[n] /\ u.right[n] = t.right[n] /\ u.parent[n] = t.parent[n]
  /\ \A n \in U : n \in Reds(u) <=> n \in Reds(t)

\* What is known of a tree does not depend on nodes that are free.
LEMMA AlikeKeeps ==
  ASSUME NEW t, NEW U, NEW e, NEW c, Missing(t, U, e, c), NEW u, Alike(t, u, U)
  PROVE  Missing(u, U, e, c)
<1> USE SessionDbAssumption
<1> DEFINE N == t.left
           F == t.right
           P == t.parent
           N2 == u.left
           F2 == u.right
           P2 == u.parent
           r == t.root
           Red == Reds(t)
           Red2 == Reds(u)
<1>0. /\ Good(t, U) /\ Level(t, U, e) /\ Quiet(t, U, Red \ {e}) /\ Owing(N, F, P, U, e)
      /\ c \in U \cup {Nil} /\ e \in {c, Null} /\ (r \notin Red \/ (r = c /\ e = c))
      /\ IF c = r THEN P[c] = Null ELSE P[c] \in U
  BY DEF Missing
<1>1. /\ u \in Trees /\ u.black[Nil] = TRUE /\ u.root = r
      /\ \A n \in U \cup {Nil} : N2[n] = N[n] /\ F2[n] = F[n] /\ P2[n] = P[n]
      /\ \A n \in U : n \in Red2 <=> n \in Red
  BY DEF Alike
<1>2. Plain(N, F, P, r, U)
  BY <1>0, PlainOf
<1>3. PICK lo, hi : Sorted(LT, N, F, P, r, U, lo, hi)
  BY <1>0 DEF Good, Shaped
<1>4. PICK h : Heights(N, F, P, U, Red, e, h)
  BY <1>0 DEF Level
<1>5. RedRule(N, F, U, Red \ {e})
  BY <1>0 DEF Quiet
<1>6. N2 \in [Node -> Node] /\ F2 \in [Node -> Node] /\ P2 \in [Node -> Id \cup {Null}]
  BY <1>1 DEF Trees
<1>7. Nil \notin Red /\ Nil \notin Red2
  BY DEF Reds
<1>g. ASSUME Sorted(LT, N2, F2, P2, r, U, lo, hi) PROVE Good(u, U)
  BY <1>g, <1>1 DEF Good, Shaped
<1>h. ASSUME Heights(N2, F2, P2, U, Red2, e, h) PROVE Level(u, U, e)
  BY <1>h DEF Level
<1>q. ASSUME RedRule(N2, F2, U, Red2 \ {e}) PROVE Quiet(u, U, Red2 \ {e})
  BY <1>q DEF Quiet
<1> HIDE DEF N, F, P, N2, F2, P2, r, Red, Red2
<1>8. \A n \in U : N[n] \in U \cup {Nil} /\ F[n] \in U \cup {Nil}
  BY <1>2 DEF Plain
<1>9. Sorted(LT, N2, F2, P2, r, U, lo, hi)
  <2>1. Linked(N2, F2, P2, r, U)
    BY <1>1, <1>3, <1>6, <1>8 DEF Sorted, Linked
  <2>2. Handed(N2, F2, r, U, lo, hi)
    BY <1>1, <1>3, <1>8 DEF Sorted, Handed
  <2>3. Reached(LT, N2, F2, U, lo, hi)
    BY <1>1, <1>3 DEF Sorted, Reached
  <2> QED
    BY <2>1, <2>2, <2>3, <1>3 DEF Sorted
<1>10. Heights(N2, F2, P2, U, Red2, e, h)
  <2>1. \A n \in U : Owed(P2, e, n, N2[n]) = Owed(P, e, n, N[n]) /\ Owed(P2, e, n, F2[n]) = Owed(P, e, n, F[n])
                     /\ Wt(Red2, n) = Wt(Red, n)
    BY <1>1, <1>8 DEF Owed, Wt
  <2> QED
    BY <2>1, <1>1, <1>4 DEF Heights
<1>11. RedRule(N2, F2, U, Red2 \ {e})
  BY <1>1, <1>5, <1>7, <1>8 DEF RedRule
<1>12. Owing(N2, F2, P2, U, e)
  <2>1. e = Null \/ P2[e] = P[e]
    BY <1>0, <1>1
  <2>2. Null \notin Node
    BY <1>2 DEF Plain
  <2> QED
    BY <2>1, <2>2, <1>0, <1>1 DEF Owing
<1>13. r \notin Red2 \/ (r = c /\ e = c)
  <2>1. r \in U \cup {Nil}
    BY <1>2 DEF Plain
  <2> QED
    BY <2>1, <1>0, <1>1, <1>7
<1>14. IF c = r THEN P2[c] = Null ELSE P2[c] \in U
  BY <1>0, <1>1
<1>15. Good(u, U) /\ Level(u, U, e) /\ Quiet(u, U, Red2 \ {e})
  BY <1>9, <1>10, <1>11, <1>g, <1>h, <1>q
<1> QED
  BY <1>0, <1>1, <1>12, <1>13, <1>14, <1>15 DEF Missing, N2, F2, P2, Red2

\* Freeing a node that is unlinked.
LEMMA FreedKeeps ==
  ASSUME NEW t, NEW U, NEW e, NEW c, Missing(t, U, e, c), NEW y \in Id, y \notin U
  PROVE  Missing(Freed(t, y), U, e, c)
<1> DEFINE u == Freed(t, y)
           L == t.left
           R == t.right
           P == t.parent
           B == t.black
           r == t.root
           L2 == With(L, y, Nil)
           R2 == With(R, y, Nil)
           P2 == With(P, y, Null)
           w == TreeOf(r, L2, R2, P2, B)
<1> USE SessionDbAssumption
<1>0. Good(t, U) /\ t \in Trees /\ t.black[Nil] = TRUE
  BY DEF Missing, Good
<1>1. /\ r \in Node /\ L \in [Node -> Node] /\ R \in [Node -> Node] /\ P \in [Node -> Id \cup {Null}]
      /\ B \in [Node -> BOOLEAN]
  BY <1>0 DEF Trees
<1>2. t = TreeOf(r, L, R, P, B)
  BY <1>0, TreeIs
<1>3. Freed(TreeOf(r, L, R, P, B), y) = TreeOf(r, L2, R2, P2, Cleared(B, y))
  BY FreedIs
<1>4. u = TreeOf(r, L2, R2, P2, Cleared(B, y))
  BY <1>2, <1>3
<1>5. u = Paint(w, y, TRUE)
  <2> DEFINE yes == TRUE
  <2> HIDE DEF yes, u
  <2>1. Paint(w, y, yes) = TreeOf(r, L2, R2, P2, With(B, y, yes))
    BY PaintIs
  <2> QED
    BY <2>1, <1>4, Zenon DEF yes, Cleared
<1> HIDE DEF L, R, P, B, r
<1>n. y \in Node /\ y # Nil /\ Nil \in Node /\ U \subseteq Node /\ U \subseteq Id
  BY <1>0, PlainOf DEF Plain, Node
<1>6. L2 \in [Node -> Node] /\ R2 \in [Node -> Node] /\ P2 \in [Node -> Id \cup {Null}]
      /\ \A n \in Node : n # y => L2[n] = L[n] /\ R2[n] = R[n] /\ P2[n] = P[n]
  BY <1>1, <1>n DEF With
<1> HIDE DEF L2, R2, P2
<1>7. w \in Trees
  BY <1>1, <1>6, TreeTyped
<1>8. w.root = r /\ w.left = L2 /\ w.right = R2 /\ w.parent = P2 /\ w.black = B
  BY TreeFields
<1>b. B = t.black
  BY DEF B
<1>9. w.black[Nil] = TRUE
  BY <1>8, <1>0, <1>b, Zenon
<1>10. Reds(w) = Reds(t)
  BY <1>8, <1>b, Zenon DEF Reds
<1> HIDE DEF w, u
<1>11. LET v == Paint(w, y, TRUE) IN
       /\ v \in Trees /\ v.black[Nil] = TRUE
       /\ v.left = w.left /\ v.right = w.right /\ v.parent = w.parent /\ v.root = w.root
       /\ Reds(v) = Reds(w) \ {y}
  BY ONLY <1>7, <1>9, <1>n, Painted, Zenon
<1>12. /\ u \in Trees /\ u.black[Nil] = TRUE
       /\ u.left = L2 /\ u.right = R2 /\ u.parent = P2 /\ u.root = r
       /\ Reds(u) = Reds(t) \ {y}
  BY <1>5, <1>8, <1>10, <1>11, Zenon
<1>13. \A n \in U \cup {Nil} : n \in Node /\ n # y
  BY <1>n
<1>14. Alike(t, u, U)
  BY <1>6, <1>12, <1>13 DEF Alike, L, R, P, r
<1> QED
  BY <1>14, AlikeKeeps DEF u

\* Renamed on a tree in parts.
LEMMA RenamedIs ==
  ASSUME NEW t, NEW z, NEW y
  PROVE  LET u == Renamed(t, z, y) IN
         /\ u = TreeOf(New(z, y, t.root), u.left, u.right, u.parent, u.black)
         /\ u.root = New(z, y, t.root)
         /\ RenamedAs(t.left, t.right, t.parent, z, y, u.left, u.right, u.parent)
         /\ u.black = [x \in Node |-> x = z \/ t.black[New(y, z, x)]]
<1> DEFINE L2 == [x \in Node |-> IF x = z THEN Nil ELSE New(z, y, t.left[New(y, z, x)])]
           R2 == [x \in Node |-> IF x = z THEN Nil ELSE New(z, y, t.right[New(y, z, x)])]
           P2 == [x \in Node |-> IF x = z THEN Null ELSE New(z, y, t.parent[New(y, z, x)])]
           B2 == [x \in Node |-> x = z \/ t.black[New(y, z, x)]]
           u == Renamed(t, z, y)
<1>1. u = TreeOf(New(z, y, t.root), L2, R2, P2, B2)
  BY Zenon DEF Renamed, TreeOf, New, Node
<1>2. RenamedAs(t.left, t.right, t.parent, z, y, L2, R2, P2)
  BY DEF RenamedAs
<1>b. B2 = [x \in Node |-> x = z \/ t.black[New(y, z, x)]]
  OBVIOUS
<1> HIDE DEF u, L2, R2, P2, B2
<1>3. u.root = New(z, y, t.root) /\ u.left = L2 /\ u.right = R2 /\ u.parent = P2 /\ u.black = B2
  BY <1>1, TreeFields
<1> QED
  BY <1>1, <1>2, <1>3, <1>b, Zenon DEF u

\* The red nodes of a tree renamed.
LEMMA RenamedReds ==
  ASSUME NEW t, t.black \in [Node -> BOOLEAN], t.black[Nil] = TRUE, NEW z \in Id, NEW y \in Id, NEW u,
         u.black = [x \in Node |-> x = z \/ t.black[New(y, z, x)]]
  PROVE  /\ \A x \in Id : x \in Reds(u) <=> x # z /\ New(y, z, x) \in Reds(t)
         /\ u.black[Nil] = TRUE /\ u.black \in [Node -> BOOLEAN]
<1> USE SessionDbAssumption
<1>1. \A x \in Id : x \in Node /\ New(y, z, x) \in Id /\ New(y, z, x) \in Node /\ x # Nil
  BY DEF New, Node
<1>2. \A x \in Id : u.black[x] <=> (x = z \/ t.black[New(y, z, x)])
  BY <1>1, Zenon
<1>3. New(y, z, Nil) = Nil /\ Nil \in Node
  BY DEF New, Node
<1>4. u.black[Nil] = TRUE
  <2>1. u.black[Nil] = (Nil = z \/ t.black[New(y, z, Nil)])
    BY <1>3, Zenon
  <2> QED
    BY <2>1, <1>3, Zenon
<1>5. u.black \in [Node -> BOOLEAN]
  <2>1. \A x \in Node : (x = z \/ t.black[New(y, z, x)]) \in BOOLEAN
    BY Zenon
  <2> QED
    BY <2>1, Zenon
<1>6. \A x \in Id : x \in Reds(u) <=> x # z /\ New(y, z, x) \in Reds(t)
  BY <1>1, <1>2, Zenon DEF Reds
<1> QED
  BY <1>4, <1>5, <1>6, Zenon

\* The node to remove takes the value of its successor, which is unlinked.
LEMMA RenamedKeeps ==
  ASSUME NEW t, NEW U, NEW e, NEW c, Missing(t, U, e, c), NEW z \in U, NEW y \in Id, y \notin U, z # c,
         z \in LT[y], \A m \in U : ~(z \in LT[m] /\ m \in LT[y])
  PROVE  Missing(Renamed(t, z, y), (U \ {z}) \cup {y}, e, c)
<1> USE SessionDbAssumption
<1> DEFINE u == Renamed(t, z, y)
           V == (U \ {z}) \cup {y}
           N == t.left
           F == t.right
           P == t.parent
           r == t.root
           Red == Reds(t)
           N2 == u.left
           F2 == u.right
           P2 == u.parent
           r2 == u.root
           Red2 == Reds(u)
<1>0. /\ Good(t, U) /\ Level(t, U, e) /\ Quiet(t, U, Red \ {e}) /\ Owing(N, F, P, U, e)
      /\ c \in U \cup {Nil} /\ e \in {c, Null} /\ (r \notin Red \/ (r = c /\ e = c))
      /\ IF c = r THEN P[c] = Null ELSE P[c] \in U
  BY DEF Missing
<1>t. /\ t \in Trees /\ t.black \in [Node -> BOOLEAN] /\ t.black[Nil] = TRUE /\ r \in Node
      /\ N \in [Node -> Node] /\ F \in [Node -> Node] /\ P \in [Node -> Id \cup {Null}]
  BY <1>0 DEF Good, Trees
<1>1. Plain(N, F, P, r, U)
  BY <1>0, PlainOf
<1>2. /\ u = TreeOf(New(z, y, r), N2, F2, P2, u.black) /\ r2 = New(z, y, r)
      /\ RenamedAs(N, F, P, z, y, N2, F2, P2)
      /\ u.black = [x \in Node |-> x = z \/ t.black[New(y, z, x)]]
  <2> HIDE DEF u
  <2>1. LET v == Renamed(t, z, y) IN
         /\ v = TreeOf(New(z, y, t.root), v.left, v.right, v.parent, v.black)
         /\ v.root = New(z, y, t.root)
         /\ RenamedAs(t.left, t.right, t.parent, z, y, v.left, v.right, v.parent)
         /\ v.black = [x \in Node |-> x = z \/ t.black[New(y, z, x)]]
    BY RenamedIs
  <2> QED
    BY <2>1, Zenon DEF u
<1>3. PICK lo, hi : Sorted(LT, N, F, P, r, U, lo, hi)
  BY <1>0 DEF Good, Shaped
<1>4. PICK h : Heights(N, F, P, U, Red, e, h)
  BY <1>0 DEF Level
<1>5. RedRule(N, F, U, Red \ {e})
  BY <1>0 DEF Quiet
<1>6. U \subseteq Id /\ z \in Id /\ Nil \notin U /\ Null \notin U
  BY <1>1 DEF Plain
<1>r. Red = {n \in Id : ~t.black[n]}
  BY DEF Reds
<1> HIDE DEF u
<1>7. /\ \A x \in Id : x \in Red2 <=> x # z /\ New(y, z, x) \in Red
      /\ u.black[Nil] = TRUE /\ u.black \in [Node -> BOOLEAN]
  <2>1. t.black \in [Node -> BOOLEAN] /\ t.black[Nil] = TRUE /\ z \in Id /\ y \in Id
        /\ u.black = [x \in Node |-> x = z \/ t.black[New(y, z, x)]]
    BY <1>t, <1>2, <1>6, Zenon
  <2>2. /\ \A x \in Id : x \in Reds(u) <=> x # z /\ New(y, z, x) \in Reds(t)
        /\ u.black[Nil] = TRUE /\ u.black \in [Node -> BOOLEAN]
    BY ONLY <2>1, RenamedReds, Zenon
  <2> QED
    BY <2>2, Zenon
<1>8. Relabels(U, z, y)
  BY <1>6, NewIs
<1>g. ASSUME \E lo2, hi2 : Sorted(LT, N2, F2, P2, r2, V, lo2, hi2), u \in Trees PROVE Good(u, V)
  BY <1>g, <1>7 DEF Good, Shaped
<1>h. ASSUME \E h2 : Heights(N2, F2, P2, V, Red2, e, h2) PROVE Level(u, V, e)
  BY <1>h DEF Level
<1>q. ASSUME RedRule(N2, F2, V, Red2 \ {e}) PROVE Quiet(u, V, Red2 \ {e})
  BY <1>q DEF Quiet
<1>i. Red \subseteq Id /\ Red2 \subseteq Id
  BY DEF Reds
<1>b. ASSUME r2 \in Node, N2 \in [Node -> Node], F2 \in [Node -> Node], P2 \in [Node -> Id \cup {Null}] PROVE u \in Trees
  <2> DEFINE B2 == u.black
  <2>1. u = TreeOf(r2, N2, F2, P2, B2) /\ B2 \in [Node -> BOOLEAN]
    BY <1>2, <1>7
  <2> HIDE DEF N2, F2, P2, r2, B2
  <2> QED
    BY <1>b, <2>1, TreeTyped
<1>v. V = (U \ {z}) \cup {y}
  OBVIOUS
<1>w. ASSUME Good(u, V), Level(u, V, e), Quiet(u, V, Red2 \ {e}), Owing(N2, F2, P2, V, e), c \in V \cup {Nil},
             r2 \notin Red2 \/ (r2 = c /\ e = c), IF c = r2 THEN P2[c] = Null ELSE P2[c] \in V
      PROVE  Missing(u, V, e, c)
  BY <1>w, <1>0 DEF Missing
<1> HIDE DEF N, F, P, r, Red, N2, F2, P2, r2, Red2, V
<1>9. \E lo2, hi2 : Sorted(LT, N2, F2, P2, r2, V, lo2, hi2)
  <2>1. \E lo2, hi2 : Sorted(LT, N2, F2, P2, New(z, y, r), (U \ {z}) \cup {y}, lo2, hi2)
    BY <1>2, <1>3, RenamedSorted
  <2> QED
    BY <2>1, <1>2, <1>v
<1>10. New(z, y, e) = e
  BY <1>0, <1>6 DEF New
<1>11. \E h2 : Heights(N2, F2, P2, V, Red2, e, h2)
       /\ RedRule(N2, F2, V, Red2 \ {e}) /\ Owing(N2, F2, P2, V, e)
  <2>1. e \in U \cup {Nil, Null} /\ (e \in Node => P[e] \in U \cup {Null})
    BY <1>0 DEF Node
  <2>2. RenamedAs(N, F, P, z, y, N2, F2, P2)
    BY <1>2
  <2>3. /\ \E h2 : Heights(N2, F2, P2, (U \ {z}) \cup {y}, Red2, New(z, y, e), h2)
        /\ RedRule(N2, F2, (U \ {z}) \cup {y}, Red2 \ {New(z, y, e)})
        /\ Owing(N2, F2, P2, (U \ {z}) \cup {y}, New(z, y, e))
    <3>1. \A x \in Id : x \in Red2 <=> x # z /\ New(y, z, x) \in Red
      BY <1>7
    <3>2. Owing(N, F, P, U, e)
      BY <1>0
    <3> QED
      BY ONLY <1>3, z \in U, y \in Id, y \notin U, <2>1, <2>2, <1>i, <1>4, <1>5, <3>1, <3>2, RenamedHeights
  <2> QED
    BY <2>3, <1>10, <1>v
<1>12. c \in V \cup {Nil} /\ c # y
  BY <1>0, <1>6, <1>v
<1>13. r \in U \cup {Nil}
  BY <1>1 DEF Plain
<1>14. r2 \in Node
  BY <1>2, <1>8, <1>t DEF Relabels
<1>15. r2 \notin Red2 \/ (r2 = c /\ e = c)
  <2>1. CASE r = c
    <3>1. r2 = c
      BY <2>1, <1>2 DEF New
    <3>2. New(y, z, c) = c
      BY <1>12 DEF New
    <3> QED
      BY <2>1, <3>1, <3>2, <1>7, <1>0, <1>i
  <2>2. CASE r # c
    <3>1. r \notin Red
      BY <2>2, <1>0
    <3>2. CASE r = Nil
      <4>1. r2 = Nil
        BY <3>2, <1>2, <1>8 DEF Relabels
      <4> QED
        BY <4>1, <1>i
    <3>3. CASE r \in U
      <4>1. New(y, z, r2) = r /\ r2 \in Id
        BY <3>3, <1>2, <1>8 DEF Relabels
      <4> QED
        BY <4>1, <3>1, <1>7
    <3> QED
      BY <3>2, <3>3, <1>13
  <2> QED
    BY <2>1, <2>2
<1>16. IF c = r2 THEN P2[c] = Null ELSE P2[c] \in V
  <2>1. c \in Node /\ New(y, z, c) = c
    BY <1>0, <1>6, <1>12 DEF New, Node
  <2>2. P2[c] = New(z, y, P[c])
    BY <2>1, <1>2 DEF RenamedAs
  <2>3. CASE c = r
    <3>1. r2 = c /\ P[c] = Null
      BY <2>3, <1>2, <1>0 DEF New
    <3> QED
      BY <3>1, <2>2, <1>6 DEF New
  <2>4. CASE c # r
    <3>1. P[c] \in U
      BY <2>4, <1>0
    <3>2. c # r2
      BY <2>4, <1>2, <1>12 DEF New
    <3>3. P2[c] \in V
      BY <3>1, <2>2, <1>v DEF New
    <3> QED
      BY <3>2, <3>3
  <2> QED
    BY <2>3, <2>4
<1>17. N2 \in [Node -> Node] /\ F2 \in [Node -> Node] /\ P2 \in [Node -> Id \cup {Null}]
  BY <1>9 DEF Sorted, Linked
<1> QED
  BY <1>9, <1>11, <1>12, <1>14, <1>15, <1>16, <1>17, <1>b, <1>g, <1>h, <1>q, <1>w DEF u, V

\* The node y is the one to unlink to remove z, or is below it: z is the last
\* before the ids below y.
Unlinking(t, U, z, y) ==
  \E lo, hi :
    /\ Sorted(LT, t.left, t.right, t.parent, t.root, U, lo, hi)
    /\ z \in U /\ y \in U
    /\ \/ y = z /\ (t.left[y] = Nil \/ t.right[y] = Nil)
       \/ y # z /\ lo[y] = z

\* If z is the bound of y and nothing is before y below it, no id is between the two.
LEMMA NoneBetween ==
  ASSUME NEW lt, NEW N, NEW F, NEW P, NEW r, NEW U, NEW lo, NEW hi,
         Sorted(lt, N, F, P, r, U, lo, hi), NEW y \in U, NEW z \in U, lo[y] = z, N[y] = Nil
  PROVE  /\ z \in lt[y] /\ z # F[y]
         /\ \A m \in U : ~(z \in lt[m] /\ m \in lt[y])
<1> USE SessionDbAssumption
<1>1. U \subseteq Id /\ Order(lt)
  BY DEF Sorted, Linked
<1>2. z \in Id /\ y \in Id /\ z # Null /\ z # Nil
  BY <1>1
<1>3. z \in lt[y]
  BY <1>2 DEF Sorted, Bounded
<1>4. z # F[y]
  <2>1. SUFFICES ASSUME z = F[y] PROVE FALSE
    OBVIOUS
  <2>2. lo[z] = y
    BY <2>1, <1>2 DEF Sorted, Handed
  <2>3. y # Null
    BY <1>2
  <2>4. y \in lt[z]
    BY <2>2, <2>3 DEF Sorted, Bounded
  <2> QED
    BY <2>4, <1>1, <1>2, <1>3 DEF Order
<1>5. ASSUME NEW m \in U, z \in lt[m], m \in lt[y] PROVE FALSE
  <2>1. hi[y] = Null \/ m \in lt[hi[y]]
    <3>1. hi[y] # Null => hi[y] \in U /\ y \in lt[hi[y]]
      BY DEF Sorted, Bounded
    <3> QED
      BY <3>1, <1>1, <1>2, <1>5 DEF Order
  <2>2. InSpan(lt, lo, hi, y, m)
    BY <2>1, <1>5 DEF InSpan
  <2> QED
    BY <2>2, <1>5 DEF Sorted, Reached
<1> QED
  BY <1>3, <1>4, <1>5

\* A removal unlinks the node of the key, or its successor, and the tree holds every id
\* but the key.
LEMMA UnlinkKeeps ==
  ASSUME NEW t, NEW U, Settled(t, U), NEW z, NEW y, Unlinking(t, U, z, y), y = z \/ t.left[y] = Nil,
         NEW c, c = Only(t.left, t.right, y), NEW u,
         u = IF y = z THEN Freed(Spliced(t, y), y) ELSE Renamed(Spliced(t, y), z, y)
  PROVE  Missing(u, U \ {z}, IF y \in Reds(t) THEN Null ELSE c, c)
<1> DEFINE e == IF y \in Reds(t) THEN Null ELSE c
           v == Spliced(t, y)
           V == U \ {y}
<1> USE SessionDbAssumption
<1>1. z \in U /\ y \in U /\ U \subseteq Id
  BY DEF Unlinking, Sorted, Linked
<1>2. \A l \in BOOLEAN : Near(t, l)[y] = Nil => Missing(v, V, e, c)
  BY <1>1, SpliceKeeps
<1>3. t.left[y] = Nil \/ t.right[y] = Nil
  BY DEF Unlinking
<1>4. Missing(v, V, e, c)
  <2>1. CASE t.left[y] = Nil
    <3>1. PICK l \in BOOLEAN : Near(t, l) = t.left
      BY OnLeft
    <3> QED
      BY <3>1, <2>1, <1>2
  <2>2. CASE t.right[y] = Nil
    <3>1. PICK l \in BOOLEAN : Near(t, l) = t.right
      BY OnRight
    <3> QED
      BY <3>1, <2>2, <1>2
  <2> QED
    BY <2>1, <2>2, <1>3
<1> HIDE DEF v, e
<1>5. CASE y = z
  <2>1. Missing(Freed(v, y), V, e, c)
    BY <1>1, <1>4, FreedKeeps
  <2>2. u = Freed(v, y)
    BY <1>5 DEF v
  <2> QED
    BY <2>1, <2>2, <1>5 DEF e
<1>6. CASE y # z
  <2>1. PICK lo, hi : Sorted(LT, t.left, t.right, t.parent, t.root, U, lo, hi) /\ lo[y] = z
    BY <1>6 DEF Unlinking
  <2>2. t.left[y] = Nil
    BY <1>6
  <2> DEFINE N == t.left
             F == t.right
             P == t.parent
             r == t.root
             lt == LT
  <2>3. Sorted(lt, N, F, P, r, U, lo, hi) /\ N[y] = Nil
    BY <2>1, <2>2
  <2> HIDE DEF N, F, P, r, lt
  <2>4. /\ z \in lt[y] /\ z # F[y]
        /\ \A m \in U : ~(z \in lt[m] /\ m \in lt[y])
    BY ONLY <1>1, <2>1, <2>3, NoneBetween
  <2>5. c = F[y]
    BY <2>2 DEF Only, F
  <2>6. /\ z \in V /\ y \in Id /\ y \notin V /\ z # c
        /\ z \in LT[y] /\ \A m \in V : ~(z \in LT[m] /\ m \in LT[y])
    BY <1>1, <1>6, <2>4, <2>5 DEF lt
  <2> HIDE DEF V
  <2>7. Missing(Renamed(v, z, y), (V \ {z}) \cup {y}, e, c)
    BY ONLY <1>4, <2>6, RenamedKeeps
  <2>8. (V \ {z}) \cup {y} = U \ {z}
    BY <1>1, <1>6 DEF V
  <2>9. u = Renamed(v, z, y)
    BY <1>6 DEF v
  <2> QED
    BY <2>7, <2>8, <2>9 DEF e
<1> QED
  BY <1>5, <1>6
----------------------------------------------------------------------------
(* The walks.                                                              *)

\* The walk starts at the root; each step goes to the side where the key belongs.
LEMMA WalkStarts ==
  ASSUME NEW t, NEW U, Settled(t, U), NEW k \in Id
  PROVE  Walking(t, U, k, t.root, Null)
<1>1. PICK lo, hi : Sorted(LT, t.left, t.right, t.parent, t.root, U, lo, hi)
  BY DEF Settled, Good, Shaped
<1>2. t.root \in U \/ t.root = Nil
  BY <1>1 DEF Sorted, Linked
<1>3. t.root \in U => InSpan(LT, lo, hi, t.root, k)
  BY <1>1 DEF Sorted, Handed, InSpan
<1> QED
  BY <1>1, <1>2, <1>3 DEF Walking

\* Either side of a node that is not the one looked for.
LEMMA SpanBelow ==
  ASSUME NEW lt, NEW N, NEW F, NEW P, NEW r, NEW U, NEW lo, NEW hi,
         Sorted(lt, N, F, P, r, U, lo, hi), NEW k \in Id, NEW a \in U, InSpan(lt, lo, hi, a, k)
  PROVE  /\ k \in lt[a] /\ N[a] # Nil => N[a] \in U /\ InSpan(lt, lo, hi, N[a], k)
         /\ a \in lt[k] /\ F[a] # Nil => F[a] \in U /\ InSpan(lt, lo, hi, F[a], k)
<1>1. N[a] # Nil => N[a] \in U /\ lo[N[a]] = lo[a] /\ hi[N[a]] = a
  BY DEF Sorted, Linked, Handed
<1>2. F[a] # Nil => F[a] \in U /\ lo[F[a]] = a /\ hi[F[a]] = hi[a]
  BY DEF Sorted, Linked, Handed
<1> QED
  BY <1>1, <1>2 DEF InSpan

LEMMA WalkDescends ==
  ASSUME Ordered, NEW t, NEW U, NEW k \in Id, NEW a, NEW f, Walking(t, U, k, a, f), a # Nil
  PROVE  /\ a \in U /\ a \in Id
         /\ a # k => Walking(t, U, k, IF Less(k, a) THEN t.left[a] ELSE t.right[a], a)
<1> DEFINE N == t.left
           F == t.right
           P == t.parent
           r == t.root
           b == IF Less(k, a) THEN N[a] ELSE F[a]
<1>1. PICK lo, hi : Sorted(LT, N, F, P, r, U, lo, hi) /\ a \in U /\ InSpan(LT, lo, hi, a, k)
  BY DEF Walking
<1>2. a \in Id
  BY <1>1 DEF Sorted, Linked
<1>3. ASSUME a # k PROVE Walking(t, U, k, b, a)
  <2>1. /\ Less(k, a) <=> k \in LT[a]
        /\ ~Less(k, a) => a \in LT[k]
    BY <1>2, <1>3, LessIs
  <2>2. ASSUME b # Nil PROVE b \in U /\ InSpan(LT, lo, hi, b, k)
    <3> HIDE DEF N, F, P, r
    <3>1. /\ k \in LT[a] /\ N[a] # Nil => N[a] \in U /\ InSpan(LT, lo, hi, N[a], k)
          /\ a \in LT[k] /\ F[a] # Nil => F[a] \in U /\ InSpan(LT, lo, hi, F[a], k)
      BY <1>1, SpanBelow
    <3> QED
      BY <2>1, <2>2, <3>1
  <2>3. b = Nil => IF Less(k, a) THEN N[a] = Nil ELSE F[a] = Nil
    OBVIOUS
  <2> HIDE DEF b
  <2>4. \/ b \in U /\ InSpan(LT, lo, hi, b, k)
        \/ /\ b = Nil /\ a \in U /\ k # a /\ InSpan(LT, lo, hi, a, k)
           /\ IF Less(k, a) THEN N[a] = Nil ELSE F[a] = Nil
    BY <1>1, <1>3, <2>2, <2>3
  <2> QED
    BY <1>1, <2>4 DEF Walking
<1> QED
  BY <1>1, <1>2, <1>3

\* The right child of the node found, and each left child from there, are above the
\* successor.
LEMMA SelectKeeps ==
  ASSUME NEW t, NEW U, Settled(t, U), NEW z \in U
  PROVE  Unlinking(t, U, z, IF t.left[z] = Nil \/ t.right[z] = Nil THEN z ELSE t.right[z])
<1> DEFINE N == t.left
           F == t.right
           P == t.parent
           r == t.root
           y == IF N[z] = Nil \/ F[z] = Nil THEN z ELSE F[z]
<1>1. PICK lo, hi : Sorted(LT, N, F, P, r, U, lo, hi)
  BY DEF Settled, Good, Shaped
<1>2. F[z] # Nil => F[z] \in U /\ F[z] # z /\ lo[F[z]] = z
  <2> HIDE DEF N, F, P, r
  <2>1. F[z] # Nil => F[z] \in U /\ lo[F[z]] = z
    BY <1>1 DEF Sorted, Linked, Handed
  <2>2. F[z] # z
    BY <1>1, Apart
  <2> QED
    BY <2>1, <2>2
<1>3. y \in U /\ ((y = z /\ (N[y] = Nil \/ F[y] = Nil)) \/ (y # z /\ lo[y] = z))
  BY <1>2
<1> HIDE DEF y
<1>4. Unlinking(t, U, z, y)
  BY <1>1, <1>3 DEF Unlinking
<1> QED
  BY <1>4 DEF y

LEMMA GoLeftKeeps ==
  ASSUME NEW t, NEW U, NEW z, NEW y, Unlinking(t, U, z, y), y # z, t.left[y] # Nil
  PROVE  Unlinking(t, U, z, t.left[y])
<1> USE SessionDbAssumption
<1> DEFINE N == t.left
           F == t.right
           P == t.parent
           r == t.root
<1>1. PICK lo, hi : Sorted(LT, N, F, P, r, U, lo, hi) /\ z \in U /\ y \in U /\ lo[y] = z
  BY DEF Unlinking
<1>2. N[y] \in U /\ lo[N[y]] = z
  BY <1>1 DEF Sorted, Linked, Handed
<1>3. z \in Id /\ z # Null
  BY <1>1 DEF Sorted, Linked
<1>4. z \in LT[N[y]] /\ z \notin LT[z]
  BY <1>1, <1>2, <1>3 DEF Sorted, Bounded, Order
<1>5. N[y] # z
  BY <1>4
<1> QED
  BY <1>1, <1>2, <1>5 DEF Unlinking
----------------------------------------------------------------------------
(* The invariant, action by action.                                        *)

\* Where the operation is, and what that says of the tree.
DbInv ==
  /\ pc \in {"idle", "walk", "insert", "unlink", "remove"}
  /\ op = "none" <=> pc = "idle"
  /\ op # "none" => op \in {"insert", "find", "remove"} /\ key \in Id
  /\ pc \in {"idle", "walk", "unlink"} => Settled(Tree, used)
  /\ pc = "walk" => Walking(Tree, used, key, at, from) /\ answer = NoAnswer
  /\ pc = "insert" => op = "insert" /\ answer = TRUE /\ Reddened(Tree, used, at)
  /\ pc = "unlink" => op = "remove" /\ answer = NoAnswer /\ from = key /\ Unlinking(Tree, used, key, at)
  /\ pc = "remove" => op = "remove" /\ answer = TRUE /\ Lacking(Tree, used, at)

\* A tree of no nodes.
LEMMA EmptySettled ==
  ASSUME Ordered, Init
  PROVE  Settled(Tree, {})
<1> USE SessionDbAssumption
<1> DEFINE L == [n \in Node |-> Nil]
           P == [n \in Node |-> Null]
           lo == [n \in Id |-> Null]
           t == Tree
<1>1. t.root = Nil /\ t.left = L /\ t.right = L /\ t.parent = P /\ t.black = [n \in Node |-> TRUE]
  BY Zenon DEF Init, Tree, Node
<1>2. t = TreeOf(Nil, t.left, t.right, t.parent, t.black)
  BY DEF Init, Tree, TreeOf
<1>3. Nil \in Node /\ L \in [Node -> Node] /\ P \in [Node -> Id \cup {Null}] /\ lo \in [Id -> Id \cup {Null}]
  BY DEF Node
<1>b. t.black \in [Node -> BOOLEAN] /\ t.black[Nil] = TRUE
  BY <1>1, <1>3, Zenon
<1> HIDE DEF t, L, P, lo
<1>4. t \in Trees
  <2> DEFINE tl == t.left
             tr == t.right
             tp == t.parent
             tb == t.black
  <2>1. tl \in [Node -> Node] /\ tr \in [Node -> Node] /\ tp \in [Node -> Id \cup {Null}] /\ tb \in [Node -> BOOLEAN]
        /\ t = TreeOf(Nil, tl, tr, tp, tb)
    BY <1>1, <1>2, <1>3, <1>b
  <2> HIDE DEF tl, tr, tp, tb
  <2> QED
    BY <2>1, <1>3, TreeTyped
<1>5. Sorted(LT, L, L, P, Nil, {}, lo, lo)
  BY <1>3 DEF Ordered, Sorted, Linked, Bounded, Handed, Reached, Nested
<1>6. Good(t, {})
  BY <1>1, <1>4, <1>5, <1>b DEF Good, Shaped
<1>7. Level(t, {}, Null) /\ Quiet(t, {}, Reds(t))
  <2> DEFINE h == [n \in Node |-> 0]
  <2>1. h \in [Node -> Nat] /\ h[Nil] = 0
    BY <1>3
  <2> HIDE DEF h
  <2> QED
    BY <2>1 DEF Level, Heights, Quiet, RedRule
<1>8. t.root \notin Reds(t)
  BY <1>1 DEF Reds
<1> QED
  BY <1>6, <1>7, <1>8 DEF Settled, t

\* The variables hold the tree they become.
LEMMA BecomesIs ==
  ASSUME NEW t, t \in Trees, Becomes(t)
  PROVE  Tree' = t
<1>1. t = TreeOf(t.root, t.left, t.right, t.parent, t.black)
  BY TreeIs
<1>2. Tree' = TreeOf(root', left', right', parent', black')
  BY DEF Tree, TreeOf
<1> QED
  BY <1>1, <1>2 DEF Becomes

\* The colour and the parent of the node at hand.
LEMMA AtHand ==
  ASSUME NEW U, Good(Tree, U)
  PROVE  /\ \A n \in Node : black[n] <=> n \notin Reds(Tree)
         /\ \A n : Tree.parent[n] = parent[n] /\ Tree.left[n] = left[n] /\ Tree.right[n] = right[n]
         /\ Tree.root = root /\ Tree.black = black
         /\ U \subseteq Node /\ Nil \in Node /\ root \in Node
<1>1. Tree.root = root /\ Tree.left = left /\ Tree.right = right /\ Tree.parent = parent /\ Tree.black = black
  BY DEF Tree
<1>2. \A n \in Node : Tree.black[n] <=> n \notin Reds(Tree)
  BY Coloured DEF Good
<1>3. U \subseteq Node /\ Nil \in Node /\ Tree.root \in Node
  BY PlainOf DEF Plain, Node
<1>4. \A n : Tree.parent[n] = parent[n] /\ Tree.left[n] = left[n] /\ Tree.right[n] = right[n]
  BY <1>1
<1> QED
  BY <1>1, <1>2, <1>3, <1>4

\* The same tree.
LEMMA SameTree ==
  ASSUME UNCHANGED links
  PROVE  Tree' = Tree
BY DEF links, Tree

\* The invariant is kept by each action, and what Attach and Unlink do to the set is
\* what was asked.
LEMMA CallKeeps ==
  ASSUME Ordered, DbInv, Call
  PROVE  DbInv'
<1>1. Tree' = Tree /\ used' = used
  BY SameTree DEF Call
<1>2. Settled(Tree, used) /\ pc' = "walk" /\ at' = root /\ from' = Null /\ answer' = NoAnswer
      /\ op' \in {"insert", "find", "remove"} /\ key' \in Id
  BY DEF Call, DbInv
<1>3. Walking(Tree, used, key', root, Null)
  <2>1. Tree.root = root
    BY DEF Tree
  <2> QED
    BY <2>1, <1>2, WalkStarts
<1>4. op' # "none"
  BY <1>2
<1> QED
  BY <1>1, <1>2, <1>3, <1>4 DEF DbInv

LEMMA DescendKeeps ==
  ASSUME Ordered, DbInv, Descend
  PROVE  DbInv'
<1>1. Tree' = Tree /\ used' = used
  BY SameTree DEF Descend
<1>2. /\ pc = "walk" /\ pc' = pc /\ op' = op /\ key' = key /\ answer' = answer /\ from' = at
      /\ at' = IF Less(key, at) THEN left[at] ELSE right[at]
      /\ at # Nil /\ ~Same(at, key)
  BY DEF Descend
<1>3. Walking(Tree, used, key, at, from) /\ Settled(Tree, used) /\ key \in Id /\ op # "none" /\ answer = NoAnswer
  BY <1>2 DEF DbInv
<1>4. at \in Id /\ at # key
  BY <1>2, <1>3, WalkDescends, LessIs
<1>5. Walking(Tree, used, key, IF Less(key, at) THEN Tree.left[at] ELSE Tree.right[at], at)
  BY <1>2, <1>3, <1>4, WalkDescends
<1>6. Tree.left = left /\ Tree.right = right
  BY DEF Tree
<1>7. Walking(Tree, used, key, at', at)
  BY <1>2, <1>5, <1>6, Zenon
<1> QED
  BY <1>1, <1>2, <1>3, <1>7 DEF DbInv

LEMMA AnswerKeeps ==
  ASSUME DbInv, Answer
  PROVE  DbInv'
<1>1. Tree' = Tree /\ used' = used
  BY SameTree DEF Answer
<1>2. pc = "walk" /\ op' = "none" /\ pc' = "idle"
  BY DEF Answer, Returns, Found, Missed
<1>3. Settled(Tree, used)
  BY <1>2 DEF DbInv
<1> QED
  BY <1>1, <1>2, <1>3 DEF DbInv

LEMMA AttachStep ==
  ASSUME Ordered, DbInv, Attach
  PROVE  key \notin used /\ DbInv'
<1>1. /\ pc = "walk" /\ at = Nil /\ op = "insert" /\ used' = used \cup {key} /\ at' = key
      /\ pc' = "insert" /\ answer' = TRUE /\ op' = op /\ key' = key
      /\ Becomes(Attached(Tree, key, from))
  BY DEF Attach, Missed
<1>2. key \in Id /\ Settled(Tree, used) /\ Walking(Tree, used, key, Nil, from)
  BY <1>1 DEF DbInv
<1>3. key \notin used /\ Reddened(Attached(Tree, key, from), used \cup {key}, key)
  BY <1>2, AttachKeeps
<1>4. Attached(Tree, key, from) \in Trees
  BY <1>3 DEF Reddened, Good
<1>5. Tree' = Attached(Tree, key, from)
  BY <1>1, <1>4, BecomesIs
<1>6. Reddened(Tree', used', at')
  BY <1>1, <1>3, <1>5
<1> QED
  BY <1>1, <1>2, <1>3, <1>6 DEF DbInv

LEMMA FixInsertKeeps ==
  ASSUME DbInv, FixInsert
  PROVE  DbInv'
<1> DEFINE u == Paint(Tree, root, TRUE)
           v == InsertTurn(Tree, at)
<1>1. /\ pc = "insert" /\ used' = used /\ answer' = answer
      /\ at # root /\ ~black[parent[at]] =>
           Becomes(v.t) /\ at' = v.x /\ op' = op /\ key' = key /\ pc' = pc
      /\ ~(at # root /\ ~black[parent[at]]) => Becomes(u) /\ op' = "none" /\ pc' = "idle"
  BY DEF FixInsert, Turns, Returns
<1>2. op = "insert" /\ answer = TRUE /\ Reddened(Tree, used, at) /\ key \in Id
  BY <1>1 DEF DbInv
<1>3. Good(Tree, used) /\ at \in used
  BY <1>2 DEF Reddened
<1>4. at # root => parent[at] \in used
  BY <1>3, PlainOf, AtHand DEF Plain
<1>5. /\ at # root => (black[parent[at]] <=> Tree.parent[at] \notin Reds(Tree))
      /\ Tree.root = root
  BY <1>3, <1>4, AtHand
<1>6. CASE at # root /\ ~black[parent[at]]
  <2>1. Reddened(v.t, used, v.x)
    BY <1>2, <1>5, <1>6, InsertTurnKeeps
  <2>2. v.t \in Trees
    BY <2>1 DEF Reddened, Good
  <2> HIDE DEF v
  <2>3. Tree' = v.t
    BY <1>1, <1>6, <2>2, BecomesIs
  <2>4. Reddened(Tree', used', at')
    BY <1>1, <1>6, <2>1, <2>3
  <2> QED
    BY <1>1, <1>2, <1>6, <2>4 DEF DbInv
<1>7. CASE ~(at # root /\ ~black[parent[at]])
  <2>1. at = Tree.root \/ Tree.parent[at] \notin Reds(Tree)
    BY <1>5, <1>7
  <2>2. Settled(Paint(Tree, Tree.root, TRUE), used)
    BY <1>2, <2>1, InsertEnds, Zenon
  <2>3. Settled(u, used)
    BY <2>2, <1>5, Zenon
  <2> HIDE DEF u
  <2>4. u \in Trees
    BY <2>3 DEF Settled, Good
  <2>5. Tree' = u
    BY <1>1, <1>7, <2>4, BecomesIs
  <2>6. Settled(Tree', used')
    BY <1>1, <2>3, <2>5
  <2> QED
    BY <1>1, <1>7, <2>6 DEF DbInv
<1> QED
  BY <1>6, <1>7

LEMMA SelectStep ==
  ASSUME Ordered, DbInv, Select
  PROVE  DbInv'
<1>1. Tree' = Tree /\ used' = used
  BY SameTree DEF Select
<1>2. /\ pc = "walk" /\ at # Nil /\ Same(at, key) /\ op = "remove" /\ from' = at /\ pc' = "unlink"
      /\ at' = IF left[at] = Nil \/ right[at] = Nil THEN at ELSE right[at]
      /\ op' = op /\ key' = key /\ answer' = answer
  BY DEF Select, Found
<1>3. Settled(Tree, used) /\ Walking(Tree, used, key, at, from) /\ key \in Id /\ answer = NoAnswer
  BY <1>2 DEF DbInv
<1>4. at \in used /\ at = key
  BY <1>2, <1>3, WalkDescends, LessIs
<1>5. Unlinking(Tree, used, key, IF Tree.left[at] = Nil \/ Tree.right[at] = Nil THEN at ELSE Tree.right[at])
  BY <1>3, <1>4, SelectKeeps
<1>6. Tree.left = left /\ Tree.right = right
  BY DEF Tree
<1>7. Unlinking(Tree, used, key, at')
  BY <1>2, <1>5, <1>6, Zenon
<1> QED
  BY <1>1, <1>2, <1>3, <1>4, <1>7 DEF DbInv

LEMMA GoLeftStep ==
  ASSUME DbInv, GoLeft
  PROVE  DbInv'
<1>1. Tree' = Tree /\ used' = used
  BY SameTree DEF GoLeft
<1>2. /\ pc = "unlink" /\ at # from /\ left[at] # Nil /\ at' = left[at]
      /\ pc' = pc /\ op' = op /\ key' = key /\ answer' = answer /\ from' = from
  BY DEF GoLeft
<1>3. Settled(Tree, used) /\ Unlinking(Tree, used, key, at) /\ key \in Id /\ answer = NoAnswer /\ op = "remove" /\ from = key
  BY <1>2 DEF DbInv
<1>4. Tree.left = left
  BY DEF Tree
<1>5. Unlinking(Tree, used, key, Tree.left[at])
  <2>1. Tree.left[at] # Nil
    BY <1>2, <1>4, Zenon
  <2> QED
    BY <2>1, <1>2, <1>3, GoLeftKeeps
<1>6. Unlinking(Tree, used, key, at')
  BY <1>2, <1>4, <1>5, Zenon
<1> QED
  BY <1>1, <1>2, <1>3, <1>6 DEF DbInv

LEMMA UnlinkStep ==
  ASSUME DbInv, Unlink
  PROVE  key \in used /\ used' = used \ {key} /\ DbInv'
<1> DEFINE u == IF at = from THEN Freed(Spliced(Tree, at), at) ELSE Renamed(Spliced(Tree, at), from, at)
           c == IF left[at] # Nil THEN left[at] ELSE right[at]
           e == IF at \in Reds(Tree) THEN Null ELSE c
           V == used \ {key}
<1>1. /\ pc = "unlink" /\ (at = from \/ left[at] = Nil) /\ Becomes(u)
      /\ used' = used \ {from} /\ answer' = TRUE
      /\ black[at] => pc' = "remove" /\ op' = op /\ key' = key /\ at' = c
      /\ ~black[at] => op' = "none" /\ pc' = "idle"
  BY DEF Unlink, Returns
<1>2. Settled(Tree, used) /\ Unlinking(Tree, used, key, at) /\ key \in Id /\ op = "remove" /\ from = key
  BY <1>1 DEF DbInv
<1>3. Good(Tree, used)
  BY <1>2 DEF Settled
<1>4. key \in used /\ at \in used
  BY <1>2 DEF Unlinking
<1>5. /\ black[at] <=> at \notin Reds(Tree)
      /\ Tree.left = left /\ Tree.right = right
  <2>1. black[at] <=> at \notin Reds(Tree)
    BY <1>3, <1>4, AtHand
  <2> QED
    BY <2>1 DEF Tree
<1>6. Missing(u, V, e, c)
  <2>1. c = Only(Tree.left, Tree.right, at)
    BY <1>5, Zenon DEF Only
  <2>2. at = key \/ Tree.left[at] = Nil
    BY <1>1, <1>2, <1>5, Zenon
  <2>3. u = IF at = key THEN Freed(Spliced(Tree, at), at) ELSE Renamed(Spliced(Tree, at), key, at)
    BY <1>2
  <2> HIDE DEF u, c
  <2>4. Missing(u, used \ {key}, IF at \in Reds(Tree) THEN Null ELSE c, c)
    BY <1>2, <2>1, <2>2, <2>3, UnlinkKeeps
  <2> QED
    BY <2>4
<1>7. used' = V
  BY <1>1, <1>2
<1>e. (at \in Reds(Tree) => e = Null) /\ (at \notin Reds(Tree) => e = c)
  OBVIOUS
<1> HIDE DEF u, c, e, V
<1>8. Tree' = u
  <2>1. u \in Trees
    BY <1>6 DEF Missing, Good
  <2> QED
    BY <2>1, <1>1, BecomesIs
<1>9. (e = c => Lacking(Tree', used', c)) /\ (e = Null => Settled(Tree', used'))
  BY <1>6, <1>7, <1>8, MissingIs
<1>10. CASE black[at]
  <2>1. Lacking(Tree', used', at')
    BY <1>10, <1>1, <1>5, <1>9, <1>e
  <2> QED
    BY <1>10, <1>1, <1>2, <1>4, <1>7, <2>1 DEF DbInv, V
<1>11. CASE ~black[at]
  <2>1. Settled(Tree', used')
    BY <1>11, <1>5, <1>9, <1>e
  <2> QED
    BY <1>11, <1>1, <1>4, <1>7, <2>1 DEF DbInv, V
<1> QED
  BY <1>10, <1>11

LEMMA FixRemoveKeeps ==
  ASSUME DbInv, FixRemove
  PROVE  DbInv'
<1> DEFINE u == Paint(Tree, at, TRUE)
           v == RemoveTurn(Tree, at)
<1>1. /\ pc = "remove" /\ used' = used /\ answer' = answer
      /\ at # root /\ black[at] =>
           Becomes(v.t) /\ at' = v.x /\ op' = op /\ key' = key /\ pc' = pc
      /\ ~(at # root /\ black[at]) => Becomes(u) /\ op' = "none" /\ pc' = "idle"
  BY DEF FixRemove, Turns, Returns
<1>2. op = "remove" /\ answer = TRUE /\ Lacking(Tree, used, at) /\ key \in Id
  BY <1>1 DEF DbInv
<1>3. Good(Tree, used) /\ at \in used \cup {Nil}
  BY <1>2 DEF Lacking
<1>4. (black[at] <=> at \notin Reds(Tree)) /\ Tree.root = root
  BY <1>3, AtHand
<1>6. CASE at # root /\ black[at]
  <2>1. Lacking(v.t, used, v.x)
    BY <1>2, <1>4, <1>6, RemoveTurnKeeps
  <2>2. v.t \in Trees
    BY <2>1 DEF Lacking, Good
  <2> HIDE DEF v
  <2>3. Tree' = v.t
    BY <1>1, <1>6, <2>2, BecomesIs
  <2>4. Lacking(Tree', used', at')
    BY <1>1, <1>6, <2>1, <2>3
  <2> QED
    BY <1>1, <1>2, <1>6, <2>4 DEF DbInv
<1>7. CASE ~(at # root /\ black[at])
  <2>1. at = Tree.root \/ at \in Reds(Tree)
    BY <1>4, <1>7
  <2>2. Settled(u, used)
    BY <1>2, <2>1, RemoveEnds, Zenon
  <2> HIDE DEF u
  <2>4. u \in Trees
    BY <2>2 DEF Settled, Good
  <2>5. Tree' = u
    BY <1>1, <1>7, <2>4, BecomesIs
  <2>6. Settled(Tree', used')
    BY <1>1, <2>2, <2>5
  <2> QED
    BY <1>1, <1>7, <2>6 DEF DbInv
<1> QED
  BY <1>6, <1>7

\* An empty tree, and the whole next-state relation.
LEMMA InitKeeps ==
  ASSUME Ordered, Init
  PROVE  DbInv
<1>1. Settled(Tree, used)
  BY EmptySettled DEF Init
<1>2. op = "none" /\ pc = "idle"
  BY DEF Init
<1> QED
  BY <1>1, <1>2 DEF DbInv

LEMMA NextKeeps ==
  ASSUME Ordered, DbInv, [Next]_vars
  PROVE  DbInv'
<1>1. CASE Call
  BY <1>1, CallKeeps
<1>2. CASE Descend
  BY <1>2, DescendKeeps
<1>3. CASE Answer
  BY <1>3, AnswerKeeps
<1>4. CASE Attach
  BY <1>4, AttachStep
<1>5. CASE FixInsert
  BY <1>5, FixInsertKeeps
<1>6. CASE Select
  BY <1>6, SelectStep
<1>7. CASE GoLeft
  BY <1>7, GoLeftStep
<1>8. CASE Unlink
  BY <1>8, UnlinkStep
<1>9. CASE FixRemove
  BY <1>9, FixRemoveKeeps
<1>10. CASE UNCHANGED vars
  <2>1. Tree' = Tree
    BY <1>10, SameTree DEF vars
  <2> QED
    BY <2>1, <1>10 DEF vars, DbInv
<1> QED
  BY <1>1, <1>2, <1>3, <1>4, <1>5, <1>6, <1>7, <1>8, <1>9, <1>10 DEF Next
----------------------------------------------------------------------------
(* The theorems.                                                           *)

\* Whatever Insert, Find and Remove are called with, in every step the tree is sorted,
\* its black heights agree but for what the fix-up at hand is about, and the walk is
\* on the way to the key.
THEOREM DbInvariant == Ordered => (Spec => []DbInv)
<1> SUFFICES ASSUME Ordered PROVE Spec => []DbInv
  OBVIOUS
<1>1. Init => DbInv
  BY InitKeeps
<1>2. DbInv /\ [Next]_vars => DbInv'
  BY NextKeeps
<1> QED
  BY <1>1, <1>2, PTL DEF Spec

\* Ids without an optional value are in order.
LEMMA PlainOrdered ==
  ASSUME \A i \in Id : i.opt = Empty
  PROVE  Ordered
<1> USE SessionDbAssumption
<1>1. \A a, b \in Id : (a.name = b.name) <=> (a = b)
  <2>1. \A a \in Id : a \in [name : Nat, opt : Nat] /\ a.opt = Empty
    OBVIOUS
  <2>2. \A a \in Id : a = [name |-> a.name, opt |-> Empty]
    BY <2>1
  <2> QED
    BY <2>2, Zenon
<1>2. \A a, b \in Id : Less(a, b) <=> a.name < b.name
  BY DEF Less
<1>3. \A a \in Id : a.name \in Nat
  OBVIOUS
<1>4. \A a, b \in Id : a \in LT[b] <=> a.name < b.name
  BY <1>2 DEF LT
<1>5. LT \in [Id -> SUBSET Id]
  BY DEF LT
<1>6. Order(LT)
  BY <1>1, <1>3, <1>4, <1>5 DEF Order
<1>7. \A a, b \in Id : Same(a, b) <=> a = b
  BY <1>1 DEF Same
<1> QED
  BY <1>6, <1>7 DEF Ordered

\* Settled trees are linked.
LEMMA LinksSeen ==
  ASSUME DbInv
  PROVE  Links
<1> SUFFICES ASSUME pc = "idle"
             PROVE  /\ root = Nil <=> used = {}
                    /\ \A n \in used :
                         /\ left[n] # Nil  => left[n] \in used /\ parent[left[n]] = n
                         /\ right[n] # Nil => right[n] \in used /\ parent[right[n]] = n
                         /\ IF n = root THEN parent[n] = Null
                            ELSE parent[n] \in used /\ n \in {left[parent[n]], right[parent[n]]}
  BY DEF Links
<1>1. Plain(left, right, parent, root, used)
  <2>1. Plain(Tree.left, Tree.right, Tree.parent, Tree.root, used)
    BY PlainOf DEF DbInv, Settled
  <2> QED
    BY <2>1 DEF Tree
<1> QED
  BY <1>1 DEF Plain

\* Between operations every node allocated is linked where its parent says: rotations,
\* the successor that replaces a node removed and the parent the sentinel gets lose
\* nobody.
THEOREM LinksHold == Ordered => (Spec => []Links)
BY DbInvariant, LinksSeen, PTL

\* The red-black rules, with a black height for every node.
RedBlack ==
  pc = "idle" =>
    /\ black[root]
    /\ \A n \in used : ~black[n] => black[left[n]] /\ black[right[n]]
    /\ \E h \in [Id \cup {Nil} -> Nat] :
         /\ h[Nil] = 0
         /\ \A n \in used : \A m \in {left[n], right[n]} : h[n] = h[m] + IF black[n] THEN 1 ELSE 0

\* Settled trees are red-black.
LEMMA RedBlackSeen ==
  ASSUME DbInv
  PROVE  RedBlack
<1> USE SessionDbAssumption
<1> SUFFICES ASSUME pc = "idle"
             PROVE  /\ black[root]
                    /\ \A n \in used : ~black[n] => black[left[n]] /\ black[right[n]]
                    /\ \E h \in [Id \cup {Nil} -> Nat] :
                         /\ h[Nil] = 0
                         /\ \A n \in used : \A m \in {left[n], right[n]} :
                              h[n] = h[m] + IF black[n] THEN 1 ELSE 0
  BY DEF RedBlack
<1>1. Good(Tree, used) /\ Level(Tree, used, Null) /\ Quiet(Tree, used, Reds(Tree)) /\ root \notin Reds(Tree)
  BY DEF DbInv, Settled, Tree
<1>2. Tree.left = left /\ Tree.right = right /\ Tree.parent = parent
  BY DEF Tree
<1>3. \A n \in Node : black[n] <=> n \notin Reds(Tree)
  BY <1>1, AtHand
<1>4. Plain(left, right, parent, root, used)
  BY <1>1, <1>2, PlainOf DEF Tree
<1>5. used \subseteq Node /\ root \in Node /\ \A n \in used : left[n] \in Node /\ right[n] \in Node
  BY <1>4 DEF Plain, Node
<1>6. black[root]
  BY <1>1, <1>3, <1>5
<1>7. \A n \in used : ~black[n] => black[left[n]] /\ black[right[n]]
  <2>1. RedRule(left, right, used, Reds(Tree))
    BY <1>1, <1>2 DEF Quiet
  <2> QED
    BY <2>1, <1>3, <1>5 DEF RedRule
<1>8. PICK h : Heights(left, right, parent, used, Reds(Tree), Null, h)
  BY <1>1, <1>2 DEF Level
<1>9. \A n \in used : Owed(parent, Null, n, left[n]) = 0 /\ Owed(parent, Null, n, right[n]) = 0
  BY <1>4, <1>5 DEF Owed, Plain
<1>10. \A n \in used : Wt(Reds(Tree), n) = IF black[n] THEN 1 ELSE 0
  BY <1>3, <1>5 DEF Wt
<1>11. h \in [Node -> Nat] /\ h[Nil] = 0
       /\ \A n \in used : \A m \in {left[n], right[n]} : h[n] = h[m] + IF black[n] THEN 1 ELSE 0
  <2>1. h \in [Node -> Nat] /\ h[Nil] = 0
    BY <1>8 DEF Heights
  <2>2. ASSUME NEW n \in used PROVE h[n] = h[left[n]] + Wt(Reds(Tree), n) /\ h[n] = h[right[n]] + Wt(Reds(Tree), n)
    <3>1. Wt(Reds(Tree), n) \in Nat
      BY DEF Wt
    <3>2. h[n] \in Nat /\ h[left[n]] \in Nat /\ h[right[n]] \in Nat
      BY <1>5, <2>1
    <3>3. h[n] = Wt(Reds(Tree), n) + h[left[n]] + 0 /\ h[n] = Wt(Reds(Tree), n) + h[right[n]] + 0
      BY <1>8, <1>9 DEF Heights
    <3> QED
      BY <3>1, <3>2, <3>3
  <2> QED
    BY <2>1, <2>2, <1>10
<1> QED
  BY <1>6, <1>7, <1>11 DEF Node

\* Between operations the tree is red-black: both fix-ups put right what the insertion or
\* the removal disturbed.
THEOREM RedBlackHolds == Ordered => (Spec => []RedBlack)
BY DbInvariant, RedBlackSeen, PTL

\* Each step is a step of the set, or none: Call calls; Answer, Attach and Unlink settle
\* the answer; the last turn of a fix-up returns.
LEMMA SetStep ==
  ASSUME Ordered, DbInv, DbInv', [Next]_vars
  PROVE  [Ids!Next]_<<used, IF op = "none" THEN Null ELSE [op |-> op, key |-> key], answer>>
<1> USE SessionDbAssumption
<1> DEFINE call == IF op = "none" THEN Null ELSE [op |-> op, key |-> key]
<1>c. op # "none" => call # Null /\ call.op = op /\ call.key = key
  <2>1. op # "none" => call \in [op : {"insert", "find", "remove"}, key : Id] /\ call.op = op /\ call.key = key
    BY DEF DbInv
  <2> QED
    BY <2>1
<1>n. NoAnswer # TRUE /\ NoAnswer # FALSE
  OBVIOUS
<1>1. CASE Call
  <2>1. op = "none" /\ op' # "none" /\ op' \in {"insert", "find", "remove"} /\ key' \in Id
        /\ answer' = NoAnswer /\ used' = used
    BY <1>1 DEF Call, DbInv
  <2> QED
    BY <2>1 DEF Ids!Next, Ids!Calls
<1>2. CASE Descend \/ Select \/ GoLeft \/ UNCHANGED vars
  <2>1. used' = used /\ op' = op /\ key' = key /\ answer' = answer
    BY <1>2 DEF Descend, Select, GoLeft, vars
  <2> QED
    BY <2>1
<1>3. CASE Answer
  <2>1. /\ pc = "walk" /\ op # "none" /\ answer = NoAnswer /\ op' = "none" /\ used' = used
        /\ answer' = (op = "find" /\ Found)
        /\ (Found /\ op \in {"insert", "find"}) \/ (Missed /\ op \in {"find", "remove"})
    BY <1>3 DEF Answer, Returns, Found, Missed, DbInv
  <2>2. Walking(Tree, used, key, at, from) /\ Settled(Tree, used) /\ key \in Id
    BY <2>1 DEF DbInv
  <2>3. Found => key \in used
    <3> SUFFICES ASSUME at # Nil, Same(at, key) PROVE key \in used
      BY DEF Found
    <3> QED
      BY <2>2, WalkDescends, LessIs
  <2>4. Missed => key \notin used
    <3> SUFFICES ASSUME at = Nil PROVE key \notin used
      BY DEF Missed
    <3> QED
      BY <2>2, AttachKeeps
  <2>5. Found => ~Missed
    BY DEF Found, Missed
  <2>6. answer' = IF op = "insert" THEN key \notin used ELSE key \in used
    BY <2>1, <2>3, <2>4, <2>5
  <2>7. used' = CASE op = "insert" -> used \cup {key} [] op = "remove" -> used \ {key} [] OTHER -> used
    BY <2>1, <2>3, <2>4, <2>5
  <2>8. Ids!Settles
    BY <2>1, <2>6, <2>7, <1>c DEF Ids!Settles
  <2> QED
    BY <2>8 DEF Ids!Next
<1>4. CASE Attach
  <2>1. op = "insert" /\ op' = op /\ key' = key /\ answer = NoAnswer /\ answer' = TRUE /\ used' = used \cup {key}
    BY <1>4 DEF Attach, Missed, DbInv
  <2>2. key \notin used
    BY <1>4, AttachStep
  <2>3. Ids!Settles
    BY <2>1, <2>2, <1>c DEF Ids!Settles
  <2> QED
    BY <2>3 DEF Ids!Next
<1>5. CASE FixInsert \/ FixRemove
  <2>1. op # "none" /\ answer = TRUE /\ answer' = answer /\ used' = used
        /\ ((op' = op /\ key' = key) \/ op' = "none")
    BY <1>5 DEF FixInsert, FixRemove, Returns, DbInv
  <2> QED
    BY <2>1, <1>c, <1>n DEF Ids!Next, Ids!Returns
<1>6. CASE Unlink
  <2>1. op = "remove" /\ answer = NoAnswer /\ answer' = TRUE /\ ((op' = op /\ key' = key) \/ op' = "none")
    BY <1>6 DEF Unlink, Returns, DbInv
  <2>2. key \in used /\ used' = used \ {key}
    BY <1>6, UnlinkStep
  <2>3. Ids!Settles
    BY <2>1, <2>2, <1>c DEF Ids!Settles
  <2> QED
    BY <2>3 DEF Ids!Next
<1> QED
  BY <1>1, <1>2, <1>3, <1>4, <1>5, <1>6 DEF Next

\* The database is a set of ids: Find finds what was inserted and not removed, and a
\* removal of a node with two children removes the key and keeps the successor.
THEOREM ImplementsIdSet == Ordered => (Spec => IsASet)
<1> SUFFICES ASSUME Ordered PROVE Spec => IsASet
  OBVIOUS
<1>1. Init => Ids!Init
  BY DEF Init, Ids!Init
<1>2. DbInv /\ DbInv' /\ [Next]_vars
        => [Ids!Next]_<<used, IF op = "none" THEN Null ELSE [op |-> op, key |-> key], answer>>
  BY SetStep
<1>3. Spec => []DbInv
  BY DbInvariant
<1> QED
  BY <1>1, <1>2, <1>3, PTL DEF Spec, IsASet, Ids!Spec
----------------------------------------------------------------------------
(* Black nodes on the way up, counted.                                     *)

\* A set of numbers that is not empty has a least one.
LEMMA Least ==
  ASSUME NEW T, T \subseteq Nat, T # {}
  PROVE  \E x \in T : \A y \in T : ~(y < x)
<1> DEFINE R == OpToRel(<, Nat)
<1>1. IsWellFoundedOn(R, Nat)
  BY NatLessThanWellFounded
<1>2. \A x, y \in Nat : y < x => <<y, x>> \in R
  BY DEF OpToRel
<1> HIDE DEF R
<1>3. PICK x \in T : \A y \in T : ~(<<y, x>> \in R)
  BY <1>1, WFMin
<1> QED
  BY <1>2, <1>3

\* Black nodes on the first i nodes of the way up, one way up longer than f.
Up(f, P, B, k) ==
  [i \in 0 .. k |->
     [m \in Id \cup {Null} |->
        IF m = Null \/ i = 0 THEN 0 ELSE f[i - 1][P[m]] + IF B[m] THEN 1 ELSE 0]]

\* The way up, a node at a time.
LEMMA UpAt ==
  ASSUME NEW f, NEW P, NEW B, NEW k \in Nat, NEW g, g = Up(f, P, B, k), NEW m \in Id \cup {Null}, NEW i \in 0 .. k
  PROVE  g[i][m] = IF m = Null \/ i = 0 THEN 0 ELSE f[i - 1][P[m]] + IF B[m] THEN 1 ELSE 0
BY Zenon DEF Up

\* It depends on the shorter way only.
LEMMA UpSame ==
  ASSUME NEW f, NEW g, NEW P, NEW B, NEW k \in Nat, \A i \in 0 .. k : i # 0 => f[i - 1] = g[i - 1]
  PROVE  Up(f, P, B, k) = Up(g, P, B, k)
<1>1. ASSUME NEW i \in 0 .. k
      PROVE  [m \in Id \cup {Null} |-> IF m = Null \/ i = 0 THEN 0 ELSE f[i - 1][P[m]] + IF B[m] THEN 1 ELSE 0]
           = [m \in Id \cup {Null} |-> IF m = Null \/ i = 0 THEN 0 ELSE g[i - 1][P[m]] + IF B[m] THEN 1 ELSE 0]
  <2>1. CASE i = 0
    BY <2>1
  <2>2. CASE i # 0
    <3>1. f[i - 1] = g[i - 1]
      BY <2>2
    <3> QED
      BY <3>1, Zenon
  <2> QED
    BY <2>1, <2>2
<1> QED
  BY <1>1, Zenon DEF Up

LEMMA UpPrefix ==
  ASSUME NEW f, NEW P, NEW B, NEW k \in Nat, NEW j \in 0 .. k, NEW i \in 0 .. j
  PROVE  Up(f, P, B, k)[i] = Up(f, P, B, j)[i]
<1>1. i \in 0 .. k
  OBVIOUS
<1> QED
  BY <1>1, Zenon DEF Up

\* The recursion has a solution.
LEMMA UpExists ==
  ASSUME NEW P, NEW B, NEW M \in Nat
  PROVE  \E f : f = Up(f, P, B, M)
<1> DEFINE T == {k \in Nat : ~\E f : f = Up(f, P, B, k)}
<1> SUFFICES ASSUME T # {} PROVE FALSE
  BY Zenon
<1>1. PICK k \in T : \A j \in T : ~(j < k)
  BY Least
<1>2. CASE k = 0
  <2> DEFINE f == Up(<<>>, P, B, 0)
  <2>1. Up(<<>>, P, B, 0) = Up(f, P, B, 0)
    <3> HIDE DEF f
    <3>1. \A i \in 0 .. 0 : i = 0
      OBVIOUS
    <3> QED
      BY <3>1, UpSame
  <2>2. f = Up(f, P, B, 0)
    BY <2>1
  <2> HIDE DEF f
  <2> QED
    BY <2>2, <1>1, <1>2
<1>3. CASE k # 0
  <2> DEFINE j == k - 1
  <2>1. j \in Nat /\ j < k /\ k \in Nat /\ j \in 0 .. k /\ \A i \in 0 .. k : i # 0 => i - 1 \in 0 .. j
    BY <1>1, <1>3
  <2> HIDE DEF j
  <2>2. PICK g : g = Up(g, P, B, j)
    BY <1>1, <2>1
  <2> DEFINE f == Up(g, P, B, k)
  <2>3. ASSUME NEW i \in 0 .. j PROVE f[i] = g[i]
    BY <2>1, <2>2, UpPrefix
  <2>4. Up(f, P, B, k) = Up(g, P, B, k)
    <3> HIDE DEF f
    <3>1. \A i \in 0 .. k : i # 0 => f[i - 1] = g[i - 1]
      BY <2>1, <2>3
    <3> QED
      BY <2>1, <3>1, UpSame
  <2>5. f = Up(f, P, B, k)
    BY <2>4
  <2> HIDE DEF f
  <2> QED
    BY <2>5, <1>1
<1> QED
  BY <1>2, <1>3

\* The ids of U that may be below n.
Span(lt, lo, hi, U, n) == {u \in U : InSpan(lt, lo, hi, n, u)}

\* The span of a parent is larger than that of its child, so a way up ends.
LEMMA SpanGrows ==
  ASSUME NEW lt, NEW N, NEW F, NEW P, NEW r, NEW U, NEW lo, NEW hi,
         Sorted(lt, N, F, P, r, U, lo, hi), NEW n \in U
  PROVE  /\ n \in Span(lt, lo, hi, U, n)
         /\ n # r => /\ Span(lt, lo, hi, U, n) \subseteq Span(lt, lo, hi, U, P[n])
                     /\ P[n] \in Span(lt, lo, hi, U, P[n]) /\ P[n] \notin Span(lt, lo, hi, U, n)
<1> USE SessionDbAssumption
<1>1. U \subseteq Id /\ Order(lt) /\ Nil \notin U /\ Null \notin U
  BY DEF Sorted, Linked
<1>2. \A m \in U : m \in Span(lt, lo, hi, U, m)
  BY DEF Sorted, Bounded, Span, InSpan
<1>3. ASSUME n # r
      PROVE  /\ Span(lt, lo, hi, U, n) \subseteq Span(lt, lo, hi, U, P[n])
             /\ P[n] \in U /\ P[n] \notin Span(lt, lo, hi, U, n)
  <2> DEFINE p == P[n]
  <2>1. p \in U /\ (n = N[p] \/ n = F[p]) /\ n # Nil
    BY <1>1, <1>3 DEF Sorted, Linked
  <2>2. CASE n = N[p]
    <3>1. lo[n] = lo[p] /\ hi[n] = p
      BY <2>1, <2>2 DEF Sorted, Handed
    <3>2. p \notin lt[p] /\ p # Null
      BY <1>1, <2>1 DEF Order
    <3>3. \A u \in U : u \in lt[p] => hi[p] = Null \/ u \in lt[hi[p]]
      <4>1. hi[p] # Null => hi[p] \in U /\ p \in lt[hi[p]]
        BY <2>1 DEF Sorted, Bounded
      <4> QED
        BY <4>1, <1>1, <2>1 DEF Order
    <3> HIDE DEF p
    <3> QED
      BY <3>1, <3>2, <3>3, <2>1 DEF Span, InSpan, p
  <2>3. CASE n = F[p]
    <3>1. lo[n] = p /\ hi[n] = hi[p]
      BY <2>1, <2>3 DEF Sorted, Handed
    <3>2. p \notin lt[p] /\ p # Null
      BY <1>1, <2>1 DEF Order
    <3>3. \A u \in U : p \in lt[u] => lo[p] = Null \/ lo[p] \in lt[u]
      <4>1. lo[p] # Null => lo[p] \in U /\ lo[p] \in lt[p]
        BY <2>1 DEF Sorted, Bounded
      <4> QED
        BY <4>1, <1>1, <2>1 DEF Order
    <3> HIDE DEF p
    <3> QED
      BY <3>1, <3>2, <3>3, <2>1 DEF Span, InSpan, p
  <2> QED
    BY <2>1, <2>2, <2>3
<1> QED
  BY <1>2, <1>3

LEMMA SpanSize ==
  ASSUME NEW lt, NEW N, NEW F, NEW P, NEW r, NEW U, NEW lo, NEW hi,
         Sorted(lt, N, F, P, r, U, lo, hi), NEW n \in U
  PROVE  LET s == Cardinality(Span(lt, lo, hi, U, n))  q == Cardinality(Span(lt, lo, hi, U, P[n])) IN
         /\ s \in Nat /\ 1 <= s /\ s <= Cardinality(Id)
         /\ n # r => q \in Nat /\ s + 1 <= q
<1> USE SessionDbAssumption
<1> DEFINE S == Span(lt, lo, hi, U, n)
           Q == Span(lt, lo, hi, U, P[n])
<1>1. S \subseteq Id /\ Q \subseteq Id /\ IsFiniteSet(Id)
  BY DEF Sorted, Linked, Span
<1>2. n \in S /\ (n # r => S \subseteq Q /\ P[n] \in Q /\ P[n] \notin S)
  BY SpanGrows
<1> HIDE DEF S, Q
<1>3. IsFiniteSet(S) /\ IsFiniteSet(Q) /\ Cardinality(S) <= Cardinality(Id)
  BY <1>1, FS_Subset
<1>4. Cardinality(S) \in Nat /\ Cardinality(Q) \in Nat
  BY <1>3, FS_CardinalityType
<1>5. Cardinality(S) # 0
  BY <1>2, <1>3, FS_EmptySet
<1>6. ASSUME n # r PROVE Cardinality(S) + 1 <= Cardinality(Q)
  <2>1. Cardinality(S) <= Cardinality(Q) /\ (Cardinality(S) = Cardinality(Q) => S = Q)
    BY <1>2, <1>3, <1>6, FS_Subset
  <2> QED
    BY <2>1, <1>2, <1>4, <1>6
<1> QED
  BY <1>3, <1>4, <1>5, <1>6 DEF S, Q

\* What a node adds to the black nodes above.
Bl(B, n) == IF B[n] THEN 1 ELSE 0

\* On the way up, black nodes and black height add up.
LEMMA WayUp ==
  ASSUME NEW lt, NEW N, NEW F, NEW P, NEW r, NEW U, NEW lo, NEW hi,
         Sorted(lt, N, F, P, r, U, lo, hi), NEW B, NEW h \in [Node -> Nat],
         \A n \in U : h[n] = h[N[n]] + Bl(B, n) /\ h[n] = h[F[n]] + Bl(B, n),
         NEW up, up = Up(up, P, B, Cardinality(Id))
  PROVE  \A n \in U : up[Cardinality(Id)][n] \in Int /\ up[Cardinality(Id)][n] + h[n] = h[r] + Bl(B, n)
<1> USE SessionDbAssumption
<1> DEFINE M == Cardinality(Id)
           s(n) == Cardinality(Span(lt, lo, hi, U, n))
           OK(i, n) == up[i][n] \in Int /\ up[i][n] + h[n] = h[r] + Bl(B, n)
           T == {i \in Nat : i <= M /\ \E n \in U : i + s(n) > M /\ ~OK(i, n)}
<1>1. M \in Nat
  BY FS_CardinalityType
<1>2. U \subseteq Id /\ U \subseteq Node /\ Nil \notin U /\ Null \notin U
      /\ \A n \in U : (n = r => P[n] = Null) /\ (n # r => P[n] \in U /\ (n = N[P[n]] \/ n = F[P[n]]))
      /\ (U # {} => r \in U)
  BY DEF Sorted, Linked, Node
<1>3. \A n \in U : s(n) \in Nat /\ 1 <= s(n) /\ s(n) <= M /\ (n # r => s(P[n]) \in Nat /\ s(n) + 1 <= s(P[n]))
  BY SpanSize
<1>4. \A n \in U : h[n] \in Nat /\ Bl(B, n) \in Nat
  BY <1>2 DEF Bl
<1>5. \A m \in Id \cup {Null} : \A i \in 0 .. M :
        up[i][m] = IF m = Null \/ i = 0 THEN 0 ELSE up[i - 1][P[m]] + Bl(B, m)
  BY <1>1, UpAt DEF Bl
<1> HIDE DEF M, s
<1>6. T = {}
  <2> SUFFICES ASSUME T # {} PROVE FALSE
    OBVIOUS
  <2>1. PICK i \in T : \A j \in T : ~(j < i)
    <3>1. T \subseteq Nat
      OBVIOUS
    <3> HIDE DEF T
    <3> QED
      BY <3>1, Least
  <2>2. PICK n \in U : i + s(n) > M /\ ~OK(i, n)
    BY <2>1
  <2>3. i \in Nat /\ i <= M /\ i # 0
    <3>1. i \in Nat /\ i <= M
      BY <2>1
    <3>2. s(n) \in Nat /\ s(n) <= M
      BY <1>3
    <3>3. i + s(n) > M
      BY <2>2
    <3> QED
      BY <1>1, <3>1, <3>2, <3>3
  <2>4. up[i][n] = up[i - 1][P[n]] + Bl(B, n) /\ i - 1 \in 0 .. M /\ i \in 0 .. M
    <3>1. i \in 0 .. M /\ i - 1 \in 0 .. M
      BY <1>1, <2>3
    <3>2. n \in Id \cup {Null} /\ n # Null
      BY <1>2
    <3> QED
      BY <3>1, <3>2, <2>3, <1>5
  <2>5. CASE n = r
    <3>1. up[i - 1][P[n]] = 0
      BY <2>4, <2>5, <1>2, <1>5
    <3> QED
      BY <3>1, <2>2, <2>4, <2>5, <1>4
  <2>6. CASE n # r
    <3> DEFINE p == P[n]
               j == i - 1
    <3>1. p \in U /\ h[p] = h[n] + Bl(B, p)
      BY <2>6, <1>2
    <3>2. j + s(p) > M
      BY <2>2, <2>3, <2>6, <1>1, <1>3
    <3>3. OK(j, p)
      <4>1. j \in Nat /\ j <= M /\ j < i
        BY <1>1, <2>3
      <4> HIDE DEF j, p, OK
      <4>2. j \notin T
        BY <2>1, <4>1
      <4> QED
        BY <4>1, <4>2, <3>1, <3>2
    <3>4. up[j][p] \in Int /\ up[j][p] + h[p] = h[r] + Bl(B, p) /\ up[i][n] = up[j][p] + Bl(B, n)
      BY <3>3, <2>4
    <3>5. h[p] \in Nat /\ h[n] \in Nat /\ h[r] \in Nat /\ Bl(B, p) \in Nat /\ Bl(B, n) \in Nat
      BY <1>2, <1>4, <3>1
    <3> HIDE DEF j, p
    <3>6. up[i][n] \in Int /\ up[i][n] + h[n] = h[r] + Bl(B, n)
      BY <3>1, <3>4, <3>5
    <3> QED
      BY <3>6, <2>2
  <2> QED
    BY <2>5, <2>6
<1>7. ASSUME NEW n \in U PROVE OK(M, n)
  <2>1. M + s(n) > M
    BY <1>1, <1>3
  <2> HIDE DEF OK
  <2> QED
    BY <2>1, <1>1, <1>6
<1> QED
  BY <1>7 DEF M

\* Blacks, as the way up.
LEMMA BlacksIs ==
  ASSUME NEW n
  PROVE  Blacks(n) = (CHOOSE f : f = Up(f, parent, black, Cardinality(Id)))[Cardinality(Id)][n]
BY Zenon DEF Blacks, Up

\* At most one value.
LEMMA OneValue ==
  ASSUME NEW S, NEW v, S \subseteq {v}
  PROVE  Cardinality(S) <= 1
<1>1. IsFiniteSet({v}) /\ Cardinality({v}) = 1
  BY FS_Singleton
<1> QED
  BY <1>1, FS_Subset

\* Settled trees are balanced.
LEMMA BalancedSeen ==
  ASSUME DbInv
  PROVE  Balanced
<1> USE SessionDbAssumption
<1> DEFINE ends == {n \in used : left[n] = Nil \/ right[n] = Nil}
<1> SUFFICES ASSUME pc = "idle"
             PROVE  /\ black[root]
                    /\ \A n \in used : ~black[n] => black[left[n]] /\ black[right[n]]
                    /\ Cardinality({Blacks(n) : n \in ends}) <= 1
  BY Zenon DEF Balanced
<1>1. /\ black[root]
      /\ \A n \in used : ~black[n] => black[left[n]] /\ black[right[n]]
  BY RedBlackSeen DEF RedBlack
<1>2. PICK h \in [Node -> Nat] :
         /\ h[Nil] = 0
         /\ \A n \in used : \A m \in {left[n], right[n]} : h[n] = h[m] + IF black[n] THEN 1 ELSE 0
  BY RedBlackSeen DEF RedBlack, Node
<1>3. PICK lo, hi : Sorted(LT, left, right, parent, root, used, lo, hi)
  <2>1. Shaped(Tree, used)
    BY DEF DbInv, Settled, Good
  <2> QED
    BY <2>1 DEF Shaped, Tree
<1> DEFINE up == CHOOSE f : f = Up(f, parent, black, Cardinality(Id))
<1>4. up = Up(up, parent, black, Cardinality(Id))
  <2>1. Cardinality(Id) \in Nat
    BY FS_CardinalityType
  <2>2. \E f : f = Up(f, parent, black, Cardinality(Id))
    BY <2>1, UpExists
  <2> QED
    BY <2>2, Zenon
<1>5. \A n : Blacks(n) = up[Cardinality(Id)][n]
  BY BlacksIs, Zenon
<1> HIDE DEF up
<1>6. \A n \in used : h[n] = h[left[n]] + Bl(black, n) /\ h[n] = h[right[n]] + Bl(black, n)
  BY <1>2 DEF Bl
<1>7. \A n \in used : up[Cardinality(Id)][n] \in Int /\ up[Cardinality(Id)][n] + h[n] = h[root] + Bl(black, n)
  BY ONLY <1>2, <1>3, <1>4, <1>6, WayUp
<1>8. ASSUME NEW n \in ends PROVE Blacks(n) = h[root]
  <2>1. h[n] = Bl(black, n) /\ Bl(black, n) \in Nat
    <3>1. Bl(black, n) \in Nat
      BY DEF Bl
    <3> QED
      BY <3>1, <1>2, <1>6
  <2>2. h[root] \in Nat
    <3>1. root \in Node
      BY <1>3 DEF Sorted, Linked, Node
    <3> QED
      BY <3>1, <1>2
  <2>3. up[Cardinality(Id)][n] \in Int /\ up[Cardinality(Id)][n] + h[n] = h[root] + Bl(black, n)
    BY <1>7
  <2> QED
    BY <2>1, <2>2, <2>3, <1>5
<1>9. {Blacks(n) : n \in ends} \subseteq {h[root]}
  BY <1>8, Zenon
<1>10. Cardinality({Blacks(n) : n \in ends}) <= 1
  <2> DEFINE S == {Blacks(n) : n \in ends}
  <2>1. S \subseteq {h[root]}
    BY <1>9
  <2> HIDE DEF S
  <2>2. Cardinality(S) <= 1
    BY <2>1, OneValue
  <2> QED
    BY <2>2 DEF S
<1> QED
  BY <1>1, <1>10

\* Between operations all ways from the root to the sentinel pass as many black nodes, and
\* no red node has a red child.
THEOREM BalancedHolds == Ordered => (Spec => []Balanced)
BY DbInvariant, BalancedSeen, PTL
============================================================================
