-------------------------------- MODULE Cells --------------------------------
(***************************************************************************)
(* What one value of the graph becomes on its way to a table: the typed    *)
(* cell (records.rs) and, for a query, the JSON beside it                  *)
(* (query_cells.rs).  A value is the sequence of what a walk meets in it,  *)
(* each thing before what is in it; texts keep only their sizes.           *)
(***************************************************************************)
EXTENDS Lists

CONSTANTS
  MaxCell,     \* MAX_CELL_BYTES
  MaxItems,    \* MAX_COLLECTION_ITEMS
  MaxDepth,    \* MAX_VALUE_DEPTH
  Charge,      \* bytes charged for any value (32)
  NodeCharge,  \* for a node record besides (96)
  RelCharge,   \* for a relationship record besides (128)
  Tag          \* bytes the type of a typed value takes in JSON

\* A map of a node and of a relationship is small enough for a collection.
ASSUME CellAssumption ==
  /\ MaxItems \in Nat /\ MaxItems >= 5
  /\ {MaxCell, MaxDepth, Charge, NodeCharge, RelCharge, Tag} \subseteq Nat

-----------------------------------------------------------------------------
(* Values.  What is met has a depth it is shown at, d, and a depth it is   *)
(* visited at, at: a path adds none to that of its nodes, which are hops,  *)
(* and the properties of a record are of its own.                          *)

Deeper(v, d, at) == [i \in DOMAIN v |-> [v[i] EXCEPT !.d = @ + d, !.at = @ + at]]

Leaf(t) == <<[t |-> t, d |-> 0, at |-> 0]>>
\* Text of n bytes, w of them as JSON writes it.
Text(n, w) == <<[t |-> "text", d |-> 0, at |-> 0, n |-> n, w |-> w]>>
Ref(i)     == <<[t |-> "ref", d |-> 0, at |-> 0, id |-> i]>>

\* The key of a map, and of a property, is one byte; it is met before its value.
Key  == <<[t |-> "key", d |-> 0, at |-> 0, n |-> 1, w |-> 1]>>
Name == Text(1, 1)

Opening(t, n) == <<[t |-> t, d |-> 0, at |-> 0, n |-> n]>>
Item(v)       == Deeper(v, 1, 1)
Keyed(v)      == Key \o Item(v)

List(vs) == Opening("list", Len(vs)) \o Flat(vs, Item)
Map(vs)  == Opening("map", Len(vs)) \o Flat(vs, Keyed)

Properties(t, vs) == Deeper(<<[t |-> "props", d |-> 0, at |-> 0, n |-> Len(vs), of |-> t]>> \o Flat(vs, Keyed), 1, 0)
Node(i, vs) == <<[t |-> "node", d |-> 0, at |-> 0, id |-> i, hop |-> FALSE]>> \o Properties("node", vs)
Rel(i, a, b, vs) ==
  <<[t |-> "rel", d |-> 0, at |-> 0, id |-> i, from |-> a, to |-> b, hop |-> FALSE]>> \o Properties("rel", vs)

Hop(v)   == Deeper([v EXCEPT ![1].hop = TRUE], 1, 0)
HopList(vs) == Deeper(Opening("hops", Len(vs)) \o Flat(vs, Hop), 1, 0)
Path(ns, rs) == Opening("path", Len(ns) + Len(rs)) \o HopList(ns) \o HopList(rs)

\* What can be met; whoever reads a path is told how many nodes or relationships at least it has.
Met ==
  [t : {"int", "big", "digits", "bool", "null", "nan"}, d : Int, at : Int]
    \cup [t : {"ref"}, d : Int, at : Int, id : Nat]
    \cup [t : {"text", "key"}, d : Int, at : Int, n : Nat, w : Nat]
    \cup [t : {"list", "map", "path", "hops"}, d : Int, at : Int, n : Nat]
    \cup [t : {"props"}, d : Int, at : Int, n : Nat, of : {"node", "rel"}]
    \cup [t : {"node"}, d : Int, at : Int, id : Nat, hop : BOOLEAN]
    \cup [t : {"rel"}, d : Int, at : Int, id : Nat, from : Nat, to : Nat, hop : BOOLEAN]

IsValue(v) ==
  /\ v \in Seq(Met) /\ v # <<>>
  /\ \A i \in DOMAIN v : v[i].t = "hops" => \E j \in DOMAIN v : v[j].t = "path" /\ v[i].n <= v[j].n

Collections == {"list", "map"}
Composites == {"ref", "node", "rel", "path", "props", "hops"}
Kind(v) == v[1].t

\* The last of what is in the i-th thing met.
Extent(v, i) ==
  Max({j \in i..Len(v) : \A k \in i + 1..j : v[k].d > v[i].d \/ (v[k].d = v[i].d /\ v[k].t = "key")})

\* The items of a list or a map, each by itself.
ItemsOf(v) ==
  LET tops == Ordered(Len(v), {i \in DOMAIN v : v[i].d = 1 /\ v[i].t # "key"})
  IN  [k \in DOMAIN tops |-> Deeper(SubSeq(v, tops[k], Extent(v, tops[k])), -1, -1)]

\* What is met of a record as it is shown: maps, and lists of them.
ShownAs(x) ==
  LET As(v) == Deeper(v, x.d, x.d)
  IN  CASE x.t = "ref"   -> As(Leaf("int"))
        [] x.t = "node"  -> As(Opening("map", 3) \o Keyed(Leaf("int")) \o Keyed(List(<<Name>>)) \o Key)
        [] x.t = "rel"   -> As(Opening("map", 5) \o Keyed(Leaf("int")) \o Keyed(Leaf("int")) \o Keyed(Leaf("int"))
                                 \o Keyed(Name) \o Key)
        [] x.t = "props" -> As(Opening("map", x.n))
        [] x.t = "path"  -> As(Opening("map", 2))
        [] x.t = "hops"  -> As(Deeper(Key, -1, -1) \o Opening("list", x.n))
        [] OTHER         -> <<[x EXCEPT !.at = x.d]>>

\* A node, a relationship or a path as the map it is shown as.
AsMap(v) == Flat(v, ShownAs)

-----------------------------------------------------------------------------
(* Both conversions walk a value and stop at the first visit that is too   *)
(* deep, spends more than is left, or is refused in itself; what they      *)
(* would meet after that does not matter.                                  *)

Visit(x, cost, flaw) == [depth |-> x.at, cost |-> cost, flaw |-> flaw]
TooMany(n) == IF n > MaxItems THEN "items" ELSE "none"

\* Seeded fault: the items of a collection are not counted.
TypedVisit_Uncounted(x) ==
  CASE x.t = "text" -> Visit(x, Charge + x.n, IF x.n > MaxCell THEN "text" ELSE "none")
    [] x.t = "key"  -> Visit(x, x.n, "none")
    [] x.t \in {"nan"} \cup Composites -> Visit(x, Charge, "unreadable")
    [] OTHER -> Visit(x, Charge, "none")

\* typed_with_budget
TypedVisit(x) ==
  CASE x.t = "text" -> Visit(x, Charge + x.n, IF x.n > MaxCell THEN "text" ELSE "none")
    [] x.t = "key"  -> Visit(x, x.n, "none")
    [] x.t \in {"nan"} \cup Composites -> Visit(x, Charge, "unreadable")
    [] x.t \in Collections -> Visit(x, Charge, TooMany(x.n))
    [] OTHER -> Visit(x, Charge, "none")

TypedVisits(v) == [i \in DOMAIN v |-> TypedVisit(v[i])]

\* preflight and its records: the sizes are those JSON will write.
PreviewVisit(x) ==
  CASE x.t = "text" -> <<Visit(x, Charge + x.w + 2, "none")>>
    [] x.t = "key"  -> <<Visit(x, x.w + 2, "none")>>
    [] x.t = "nan"  -> <<Visit(x, Charge, "unreadable")>>
    [] x.t \in Collections \cup {"path"} -> <<Visit(x, Charge, TooMany(x.n))>>
    [] x.t \in {"node", "rel"} -> IF x.hop THEN <<>> ELSE <<Visit(x, Charge, "none")>>
    [] x.t = "props" ->
         <<Visit(x, (IF x.of = "node" THEN NodeCharge ELSE RelCharge) + Name[1].w + 2, TooMany(x.n))>>
    [] x.t = "hops" -> <<>>
    [] OTHER -> <<Visit(x, Charge, "none")>>

PreviewVisits(v) == Flat(v, PreviewVisit)

\* What stops a walk, or "none".
Stop(visits) ==
  LET spent == Sums([i \in DOMAIN visits |-> visits[i].cost])
      at == SelectInSubSeq(visits, 1, Len(visits), LAMBDA x : x.depth > MaxDepth \/ x.flaw # "none")
      out == {i \in DOMAIN visits : spent[i] > MaxCell}
  IN  IF at # 0 /\ \A i \in out : at < i
      THEN IF visits[at].depth > MaxDepth THEN "depth" ELSE visits[at].flaw
      ELSE IF out # {} THEN "bytes" ELSE "none"

-----------------------------------------------------------------------------
(* What is written. *)

Digits(x) == [x EXCEPT !.t = "digits"]

\* The typed value: every integer is a string of digits.
Typed(v) == [i \in DOMAIN v |-> IF v[i].t \in {"int", "big"} THEN Digits(v[i]) ELSE v[i]]

\* Seeded fault: only an integer by itself is kept whole.
Json_Shallow(v) == IF Kind(v) = "big" THEN Leaf("digits") ELSE AsMap(v)

\* value_to_json and preserve_integers: digits for what JavaScript would round.
Json(v) ==
  LET shown == AsMap(v)
  IN  [i \in DOMAIN shown |-> IF shown[i].t = "big" THEN Digits(shown[i]) ELSE shown[i]]

\* serialized_bytes, with the tag of a typed value or without; an item has its comma, a key its colon.
OwnBytes(x, tag) ==
  CASE x.t = "text" -> tag + x.w + 2
    [] x.t = "key"  -> x.w + 2
    [] x.t \in Collections -> tag + 2 + x.n
    [] OTHER -> tag + 1

Written(v, tag) == Sum(v, LAMBDA x : OwnBytes(x, tag))

Marked(why) == [state |-> IF why = "unreadable" THEN "unavailable" ELSE "truncated"]
Whole(v) == [state |-> "value", value |-> v]

\* records::cell
Cell(v) ==
  LET why == Stop(TypedVisits(v))
  IN  IF Kind(v) = "null" THEN [state |-> "null"]
      ELSE IF why # "none" THEN Marked(why)
      ELSE IF Written(Typed(v), Tag) > MaxCell THEN Marked("bytes")
      ELSE Whole(Typed(v))

\* records::read_cell of a stored value; a text is judged by its length first.
ReadCell(v) == IF Kind(v) = "text" /\ v[1].n > MaxCell - Charge THEN Marked("text") ELSE Cell(v)

\* legacy_cell_json
LegacyCell(v) ==
  IF Cell(v).state = "value" THEN Whole(Json(v)) ELSE Cell(v)

\* query_cells::preview: the JSON and the typed cell of a query's value.
Preview(v) ==
  LET why == Stop(PreviewVisits(v))
      cut == IF why # "none" THEN why ELSE IF Written(Json(v), 0) > MaxCell THEN "bytes" ELSE "none"
  IN  IF cut # "none" THEN [json |-> Marked(cut), cell |-> Marked(cut)]
      ELSE [json |-> Whole(Json(v)), cell |-> Cell(AsMap(v))]
=============================================================================
