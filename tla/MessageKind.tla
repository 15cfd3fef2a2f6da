----------------------------- MODULE MessageKind ----------------------------
(***************************************************************************)
(* How the message parsers of the application libraries are built: a data  *)
(* class holds attributes, parseAppToRaw() makes containers of those that  *)
(* are set, parseRawToApp() fills them from the containers it finds.       *)
(*                                                                         *)
(* A kind of message, or of grouped AVP, is a record: the grammar of the   *)
(* dictionary; the rows written and read; what is read over again          *)
(* afterwards; the attributes that are vectors, those that Clear() leaves, *)
(* those written whenever they are not empty; whether the application id   *)
(* is compared.  The contents of a data object map each attribute that     *)
(* holds something to whether it is set and to its values; attributes go   *)
(* by the names of their AVPs in the dictionary.                           *)
(***************************************************************************)
EXTENDS AvpList, TLC

LOCAL INSTANCE FiniteSetsExt
LOCAL INSTANCE Functions

\* An attribute of C++ type cpp, written to entries of type type in container avp.
Row(field, avp, type, cpp) == [field |-> field, avp |-> avp, type |-> type, cpp |-> cpp]

\* Attributes written as the AVPs of the same name, in entries of their own type.
As(type, names) == {Row(n, n, type, type) : n \in names}

\* An attribute read from container avp.
From(field, avp) == [field |-> field, avp |-> avp]

\* What is read as it was written.
Back(rows) == {From(r.field, r.avp) : r \in rows}
Same(names) == {From(n, n) : n \in names}

\* A grouped AVP; Clear() of an attribute that is one, not a vector of them, leaves what
\* is in it.
Group(grammar, writes, reads, vectors, scalar) ==
  [grammar |-> grammar, writes |-> writes, reads |-> reads, misread |-> {}, early |-> {},
   vectors |-> vectors, kept |-> IF scalar THEN {r.field : r \in reads} ELSE {},
   bySize |-> {}, compares |-> FALSE]

Fields(kind) == {r.field : r \in kind.writes} \cup {r.field : r \in kind.reads}

\* The C++ type of an attribute.
FieldType(kind, f) ==
  LET rows == {r \in kind.writes : r.field = f}
  IN IF rows = {} THEN TypeOf(f) ELSE (CHOOSE r \in rows : TRUE).cpp
----------------------------------------------------------------------------
Holds(data, f) == f \in DOMAIN data

\* AAAScholarAttribute::operator=(), AAAVectorAttribute::operator=().
Assigned(vals) == [set |-> TRUE, vals |-> vals]

\* std::vector::push_back(), which the vector attributes make public, too.
Appended(vals) == [set |-> FALSE, vals |-> vals]

\* IsSet(), or size() > 0 where the parser asks for that instead.
Present(kind, data, f) ==
  /\ Holds(data, f)
  /\ data[f].set \/ (f \in kind.bySize /\ data[f].vals # <<>>)

\* CopyTo(): the entry's memory is written as the attribute's C++ type.
CopyTo(row, attribute) ==
  Container(row.avp, row.type,
            [i \in DOMAIN attribute.vals |->
               IF SameStorage(row.type, row.cpp) THEN attribute.vals[i] ELSE Undefined])

\* No type is registered under AAA_AVP_CUSTOM_TYPE: acquire() throws.
Custom == "Custom"

\* parseAppToRaw(), CopyTo() of a grouped AVP.
AppToRaw(kind, data) ==
  LET rows == {r \in kind.writes : Present(kind, data, r.field)}
  IN [err  |-> IF \E r \in rows : r.type = Custom
               THEN "AAA_PARSE_ERROR_INVALID_CONTAINER_PARAM" ELSE Success,
      list |-> FoldSet(LAMBDA r, list : Append(list, CopyTo(r, data[r.field])), <<>>, rows)]
----------------------------------------------------------------------------
\* Mutation: Clear() of no attribute.
ClearNothing(kind, data) == data

\* Clear().
Clear(kind, data) == Restrict(data, DOMAIN data \cap kind.kept)

\* Mutation: a vector takes the first entry only.
CopyFromFirst(kind, data, f, c) ==
  Assigned(<<IF SameStorage(FieldType(kind, f), c.type) THEN c.vals[1] ELSE Undefined>>)

\* CopyFrom(): a scalar takes the first entry; a vector that is longer keeps its tail.
CopyFrom(kind, data, f, c) ==
  LET Read(v) == IF SameStorage(FieldType(kind, f), c.type) THEN v ELSE Undefined
      old     == IF Holds(data, f) THEN data[f].vals ELSE <<>>
      new     == [i \in DOMAIN c.vals |-> Read(c.vals[i])]
  IN Assigned(IF f \notin kind.vectors THEN <<new[1]>>
              ELSE new \o SubSeq(old, Len(new) + 1, Len(old)))

\* The attributes that the rows find a container for.
Found(kind, data, rows, list) ==
  LET hits  == {r \in rows : Search(list, r.avp) # <<>>}
      Of(f) == (CHOOSE r \in hits : r.field = f).avp
  IN [f \in {r.field : r \in hits} |-> CopyFrom(kind, data, f, Search(list, Of(f))[1])]

\* The identifier of the library's own application.
Ours(v) == IsToken(v) /\ "i" \in DOMAIN v /\ v.i = 1

\* The parser compares the application's identifier and gives up on another one.
ForeignApplication(kind, list) ==
  LET c == Search(list, "Auth-Application-Id")
  IN kind.compares /\ c # <<>> /\ ~Ours(c[1].vals[1])

\* parseRawToApp(), CopyFrom() of a grouped AVP, into the object that data describes.
RawToApp(kind, list, data) ==
  LET clean == Clear(kind, data)
      read  == Found(kind, clean, kind.reads, list)
      again == Found(kind, clean, kind.misread, list)
  IN IF ForeignApplication(kind, list)
     THEN [err  |-> "DIAMETER_PAYLOAD_ERROR",
           data |-> Found(kind, clean, kind.early, list) @@ clean]
     ELSE [err |-> Success, data |-> again @@ read @@ clean]
=============================================================================
