----------------------------- MODULE SessionDb -----------------------------
(***************************************************************************)
(* DiameterSessionDb: a red-black tree (OD_Utl_RbTreeTree of libodutl) of  *)
(* the ids of sessions, with the order DiameterSessionEntryNode gives it.  *)
(* The database holds its lock throughout an operation; one step here is   *)
(* one turn of a loop of the tree's.                                       *)
(*                                                                         *)
(* An id is its DiameterId, a number, and its optional value, or Empty.    *)
(* A node is named by the id it holds.  The list of counters that a node   *)
(* keeps is left out: one per id.                                          *)
(***************************************************************************)
EXTENDS Integers, FiniteSets

CONSTANTS Id,         \* the ids in use: [name, opt]
          Empty,      \* opt of an id without an optional value
          Nil, Null,  \* the tree's sentinel, and a null pointer
          NoAnswer

ASSUME SessionDbAssumption ==
  /\ IsFiniteSet(Id)
  /\ Id \subseteq [name : Nat, opt : Nat]
  /\ Empty = 0 /\ NoAnswer \notin BOOLEAN /\ Nil \notin Id
  /\ Null \notin Id \cup {Nil} \cup [op : {"insert", "find", "remove"}, key : Id]

\* DiameterSessionEntryNode::operator== and <, of the ids of two nodes.  The tree
\* asks a node whether it is the same as the one looked for, and the one looked
\* for whether it is less than a node.
Same(a, b) == a.name = b.name /\ (a.opt # Empty => a.opt = b.opt)
Less(a, b) == a.name < b.name /\ (a.opt # Empty => a.opt < b.opt)

VARIABLES
  root, left, right, parent, black,  \* the tree
  used,         \* nodes that are allocated
  op, key,      \* the operation in progress, or "none"
  pc, at, from, \* where it is: the node at hand and the one above it
  answer,       \* of the last operation, once it is settled
  turns         \* history: turns of loops in this operation

links == <<root, left, right, parent, black>>
vars  == <<links, used, op, key, pc, at, from, answer, turns>>

Init ==
  /\ root = Nil
  /\ left = [n \in Id \cup {Nil} |-> Nil] /\ right = left
  /\ parent = [n \in Id \cup {Nil} |-> Null]
  /\ black = [n \in Id \cup {Nil} |-> TRUE]
  /\ used = {}
  /\ op = "none" /\ key = Null /\ pc = "idle" /\ at = Null /\ from = Null
  /\ answer = NoAnswer /\ turns = 0
----------------------------------------------------------------------------
(* The tree as a value, which rotations and fix-ups transform.             *)

Tree == [root |-> root, left |-> left, right |-> right, parent |-> parent,
         black |-> black]
Becomes(t) == /\ root' = t.root /\ left' = t.left /\ right' = t.right
              /\ parent' = t.parent /\ black' = t.black

\* What was below its parent, x, is now y.
Replaced(t, x, y) ==
  LET p == t.parent[x] IN
  IF p = Null THEN [t EXCEPT !.root = y]
  ELSE IF x = t.left[p] THEN [t EXCEPT !.left[p] = y]
  ELSE [t EXCEPT !.right[p] = y]

\* b goes below x; y goes where x was.
HangLeft(t, x, b)  == [t EXCEPT !.left[x] = b,  !.parent[b] = IF b # Nil THEN x ELSE @]
HangRight(t, x, b) == [t EXCEPT !.right[x] = b, !.parent[b] = IF b # Nil THEN x ELSE @]
Raised(t, x, y) ==
  Replaced([t EXCEPT !.parent[y] = IF y # Nil THEN t.parent[x] ELSE @], x, y)

RotateLeft(t, x) ==
  LET y == t.right[x]
  IN HangLeft(Raised(HangRight(t, x, t.left[y]), x, y), y, x)
RotateRight(t, x) ==
  LET y == t.left[x]
  IN HangRight(Raised(HangLeft(t, x, t.right[y]), x, y), y, x)

\* The two sides of the fix-ups mirror each other.
Rotate(t, x, toLeft)  == IF toLeft THEN RotateLeft(t, x) ELSE RotateRight(t, x)
IsLeft(t, x)          == x = t.left[t.parent[x]]
Child(t, x, theLeft)  == IF theLeft THEN t.left[x] ELSE t.right[x]
Sibling(t, x, isLeft) == Child(t, t.parent[x], ~isLeft)
Paint(t, x, b)        == [t EXCEPT !.black[x] = b]

\* A new node x, red, below p.
Attached(t, x, p) ==
  LET u == [t EXCEPT !.left[x] = Nil, !.right[x] = Nil, !.parent[x] = p, !.black[x] = FALSE]
  IN IF p = Null THEN [u EXCEPT !.root = x]
     ELSE IF Less(x, p) THEN [u EXCEPT !.left[p] = x] ELSE [u EXCEPT !.right[p] = x]

\* Mutation: the uncle is not looked at.
InsertTurnRotates(t, x) ==
  LET p == t.parent[x]  l == IsLeft(t, p)
      inner == x = Child(t, p, ~l)
      u == IF inner THEN Rotate(t, p, l) ELSE t
      z == IF inner THEN p ELSE x
      q == u.parent[z]
      v == Paint(Paint(u, q, TRUE), u.parent[q], FALSE)
  IN [t |-> Rotate(v, v.parent[q], ~l), x |-> z]

\* One turn of FixupInsert at x: the tree, and where the loop goes on.
InsertTurn(t, x) ==
  LET p == t.parent[x]  g == t.parent[p]
      l == IsLeft(t, p)
      y == Child(t, g, ~l)                    \* the uncle
  IN IF ~t.black[y]
     THEN [t |-> Paint(Paint(Paint(t, p, TRUE), y, TRUE), g, FALSE), x |-> g]
     ELSE LET inner == x = Child(t, p, ~l)
              u == IF inner THEN Rotate(t, p, l) ELSE t
              z == IF inner THEN p ELSE x
              q == u.parent[z]
              v == Paint(Paint(u, q, TRUE), u.parent[q], FALSE)
          IN [t |-> Rotate(v, v.parent[q], ~l), x |-> z]

\* One turn of FixupRemove at x.
RemoveTurn(t, x) ==
  LET l == IsLeft(t, x)  p == t.parent[x]
      s == Sibling(t, x, l)
      u == IF t.black[s] THEN t
           ELSE Rotate(Paint(Paint(t, s, TRUE), p, FALSE), p, l)
      w == Sibling(u, x, l)
  IN IF u.black[u.left[w]] /\ u.black[u.right[w]]
     THEN [t |-> Paint(u, w, FALSE), x |-> u.parent[x]]
     ELSE LET far == Child(u, w, ~l)
              v == IF u.black[far]
                   THEN Rotate(Paint(Paint(u, Child(u, w, l), TRUE), w, FALSE), w, ~l)
                   ELSE u
              z == Sibling(v, x, l)
              o == Paint(Paint(Paint(v, z, v.black[v.parent[x]]), v.parent[x], TRUE),
                         Child(v, z, ~l), TRUE)
              r == Rotate(o, o.parent[x], l)
          IN [t |-> r, x |-> r.root]

\* Mutation: the child keeps its parent.
SplicedDown(t, y) == Replaced(t, y, IF t.left[y] # Nil THEN t.left[y] ELSE t.right[y])

\* y leaves the chain of parents, its only child takes its place: the sentinel
\* gets a parent too.
Spliced(t, y) ==
  LET x == IF t.left[y] # Nil THEN t.left[y] ELSE t.right[y]
  IN Replaced([t EXCEPT !.parent[x] = t.parent[y]], y, x)

Freed(t, y) == [t EXCEPT !.left[y] = Nil, !.right[y] = Nil, !.parent[y] = Null,
                         !.black[y] = TRUE]

\* The node z, which now holds y, is called y; what y was is free.
Renamed(t, z, y) ==
  LET n(x) == IF x = z THEN y ELSE x
      old(x) == IF x = y THEN z ELSE x
      all(f, free) == [x \in Id \cup {Nil} |->
                         IF x = z THEN free ELSE n(f[old(x)])]
  IN [root |-> n(t.root), left |-> all(t.left, Nil), right |-> all(t.right, Nil),
      parent |-> all(t.parent, Null),
      black |-> [x \in Id \cup {Nil} |-> x = z \/ t.black[old(x)]]]
----------------------------------------------------------------------------
(* Operations: Insert, Find, Remove.                                       *)

Returns == /\ op' = "none" /\ key' = Null /\ pc' = "idle" /\ at' = Null /\ from' = Null
           /\ UNCHANGED turns
Turns   == turns' = turns + 1

Call ==
  /\ pc = "idle"
  /\ \E o \in {"insert", "find", "remove"}, i \in Id : op' = o /\ key' = i
  /\ pc' = "walk" /\ at' = root /\ from' = Null /\ answer' = NoAnswer /\ turns' = 0
  /\ UNCHANGED <<links, used>>

Found == pc = "walk" /\ at # Nil /\ Same(at, key)
Missed == pc = "walk" /\ at = Nil

Descend ==
  /\ pc = "walk" /\ at # Nil /\ ~Same(at, key)
  /\ from' = at /\ Turns
  /\ at' = IF Less(key, at) THEN left[at] ELSE right[at]
  /\ UNCHANGED <<links, used, op, key, pc, answer>>

Answer ==
  /\ (Found /\ op \in {"insert", "find"}) \/ (Missed /\ op \in {"find", "remove"})
  /\ answer' = (op = "find" /\ Found) /\ Returns
  /\ UNCHANGED <<links, used>>

Attach ==
  /\ Missed /\ op = "insert"
  /\ Becomes(Attached(Tree, key, from))
  /\ used' = used \cup {key} /\ at' = key
  /\ pc' = "insert" /\ answer' = TRUE
  /\ UNCHANGED <<op, key, from, turns>>

FixInsert ==
  /\ pc = "insert"
  /\ IF at # root /\ ~black[parent[at]]
     THEN LET turn == InsertTurn(Tree, at)
          IN Becomes(turn.t) /\ at' = turn.x /\ Turns /\ UNCHANGED <<op, key, pc, from>>
     ELSE Becomes(Paint(Tree, root, TRUE)) /\ Returns
  /\ UNCHANGED <<used, answer>>

\* The node to unlink is the one found, or its successor; from keeps the one found.
Select ==
  /\ Found /\ op = "remove"
  /\ from' = at /\ pc' = "unlink"
  /\ at' = IF left[at] = Nil \/ right[at] = Nil THEN at ELSE right[at]
  /\ UNCHANGED <<links, used, op, key, answer, turns>>

GoLeft ==
  /\ pc = "unlink" /\ at # from /\ left[at] # Nil
  /\ at' = left[at] /\ Turns
  /\ UNCHANGED <<links, used, op, key, pc, from, answer>>

\* Mutations: no fix-up; what the successor held is lost.
UnlinkUnfixed ==
  /\ pc = "unlink" /\ (at = from \/ left[at] = Nil)
  /\ Becomes(IF at = from THEN Freed(Spliced(Tree, at), at)
             ELSE Renamed(Spliced(Tree, at), from, at))
  /\ used' = used \ {from} /\ answer' = TRUE
  /\ Returns
UnlinkSuccessor ==
  /\ pc = "unlink" /\ (at = from \/ left[at] = Nil)
  /\ Becomes(Freed(Spliced(Tree, at), at))
  /\ used' = used \ {at} /\ answer' = TRUE
  /\ IF black[at]
     THEN /\ pc' = "remove" /\ UNCHANGED <<op, key, from, turns>>
          /\ at' = IF left[at] # Nil THEN left[at] ELSE right[at]
     ELSE Returns

Unlink ==
  /\ pc = "unlink" /\ (at = from \/ left[at] = Nil)
  /\ Becomes(IF at = from THEN Freed(Spliced(Tree, at), at) ELSE Renamed(Spliced(Tree, at), from, at))
  /\ used' = used \ {from} /\ answer' = TRUE
  /\ IF black[at]
     THEN /\ pc' = "remove" /\ UNCHANGED <<op, key, from, turns>>
          /\ at' = IF left[at] # Nil THEN left[at] ELSE right[at]
     ELSE Returns

FixRemove ==
  /\ pc = "remove"
  /\ IF at # root /\ black[at]
     THEN LET turn == RemoveTurn(Tree, at)
          IN Becomes(turn.t) /\ at' = turn.x /\ Turns /\ UNCHANGED <<op, key, pc, from>>
     ELSE Becomes(Paint(Tree, at, TRUE)) /\ Returns
  /\ UNCHANGED <<used, answer>>

Next == \/ Call \/ Descend \/ Answer \/ Attach \/ FixInsert \/ Select \/ GoLeft \/ Unlink
        \/ FixRemove

Spec == Init /\ [][Next]_vars
----------------------------------------------------------------------------
\* Between operations every node that is allocated is linked where its parent
\* says, in both directions: a rotation or a removal loses nobody.
Links ==
  pc = "idle" =>
    /\ root = Nil <=> used = {}
    /\ \A n \in used :
         /\ left[n] # Nil  => left[n] \in used /\ parent[left[n]] = n
         /\ right[n] # Nil => right[n] \in used /\ parent[right[n]] = n
         /\ IF n = root THEN parent[n] = Null
            ELSE parent[n] \in used /\ n \in {left[parent[n]], right[parent[n]]}

\* Black nodes from n up to the root.
Blacks(n) ==
  LET up[i \in 0 .. Cardinality(Id)] ==
        [m \in Id \cup {Null} |->
           IF m = Null \/ i = 0 THEN 0 ELSE up[i - 1][parent[m]] + IF black[m] THEN 1 ELSE 0]
  IN up[Cardinality(Id)][n]

\* Red-black: no red node has a red child, and all ways from the root to the
\* sentinel pass as many black nodes.
Balanced ==
  pc = "idle" =>
    /\ black[root]
    /\ \A n \in used : ~black[n] => black[left[n]] /\ black[right[n]]
    /\ Cardinality({Blacks(n) : n \in {n \in used : left[n] = Nil \/ right[n] = Nil}}) <= 1

\* The time the lock is held grows by three turns for each doubling of the ids: two
\* nodes a black level on the way down, one turn of a fix-up on the way back.  An
\* operation of 3 * k turns needs eighteen ids for k = 3, thirty-eight for k = 4.
Brief ==
  \A k \in 1 .. Cardinality(Id) :
    2 * (Cardinality(used) + 2) < 5 * 2 ^ k => turns < 3 * k

\* The database is a set of ids: what has been added is found and removed, and
\* nothing else is, in the order given by the comparisons of the nodes.
Ids    == INSTANCE IdSet WITH Key <- Id, None <- NoAnswer, NoCall <- Null, set <- used,
                              call <- IF op = "none" THEN Null ELSE [op |-> op, key |-> key]
IsASet == Ids!Spec
============================================================================
