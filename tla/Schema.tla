-------------------------------- MODULE Schema --------------------------------
(***************************************************************************)
(* What the session says of the graph as a whole: the meta-graph and its   *)
(* bounds (meta_graph.rs), what expanding a type or a node would find      *)
(* (expand.rs), and what a type's properties are good for (stats.rs).      *)
(* Types, relationship names and property names are numbers, in the order  *)
(* of their names.                                                         *)
(***************************************************************************)
EXTENDS QueryTable

CONSTANTS
  TopTypes, MetaLinks, MetaBytes,  \* TOP_TYPES_LIMIT, MAX_META_LINKS, MAX_META_BYTES
  TypeBytes, LinkBytes,            \* what a type and a link are charged
  MaxDistinct, SampleSize, Exact,  \* MAX_DISTINCT_VALUES, SAMPLE_SIZE, EXACT_PROPERTY_STATS_MAX_NODES
  CaptionChars                     \* MAX_CAPTION_SAMPLE_CHARS

ASSUME SchemaAssumption ==
  {TopTypes, MetaLinks, MetaBytes, TypeBytes, LinkBytes, MaxDistinct, SampleSize, Exact, CaptionChars} \subseteq Nat

\* The elements of a set, those that Before puts first in front.
InOrder(S, Before(_, _)) ==
  [k \in 1..Cardinality(S) |-> CHOOSE x \in S : Cardinality({y \in S : Before(y, x)}) = k - 1]

-----------------------------------------------------------------------------
(* The meta-graph of g: its types, and its triples of types with the       *)
(* number of relationships of each.                                        *)

TierBound(tier) ==
  CASE tier \in {"full", "compact"} -> 1000
    [] tier = "top-types" -> TopTypes
    [] tier = "summary"   -> 0

LargerType(a, b) == a.count > b.count \/ (a.count = b.count /\ a.name < b.name)
LargerLink(a, b) ==
  \/ a.count > b.count
  \/ a.count = b.count /\ a.name < b.name
  \/ a.count = b.count /\ a.name = b.name /\ a.src < b.src
  \/ a.count = b.count /\ a.name = b.name /\ a.src = b.src /\ a.tgt < b.tgt

\* Seeded fault: a link to a type that was left out is sent all the same.
Linked_Any(triples, kept) == triples

\* The triples both of whose types have a slot.
Linked(triples, kept) == {t \in triples : {t.src, t.tgt} \subseteq kept}

\* meta_graph::compute
MetaGraph(g) ==
  LET types == InOrder({t \in g.types : ~t.system}, LargerType)
      node_bound == Apply([i \in DOMAIN types |-> TypeBytes], TierBound(g.tier), MetaBytes)
      nodes == First(types, node_bound.returned)
      links == InOrder(Linked(g.triples, {nodes[i].name : i \in DOMAIN nodes}), LargerLink)
      edge_bound == Apply([i \in DOMAIN links |-> LinkBytes], MetaLinks, MetaBytes)
  IN  [state |-> "meta", nodes |-> nodes, edges |-> First(links, edge_bound.returned),
       node_bound |-> node_bound, edge_bound |-> edge_bound,
       stats |-> [types |-> node_bound.total, names |-> Cardinality({t.name : t \in g.triples}),
                  core |-> Cardinality({t \in g.types : ~t.system /\ ~t.supporting})]]

-----------------------------------------------------------------------------
(* What expanding would find.  A relationship of the graph has a name and  *)
(* two ends; typeof is the type of each node.                              *)

\* get_or_compute_type_connectivity
Triples(rels, typeof) ==
  LET kind(r) == [src |-> typeof[r.from], tgt |-> typeof[r.to], name |-> r.name]
  IN  {[src |-> k.src, tgt |-> k.tgt, name |-> k.name, count |-> Cardinality({r \in rels : kind(r) = k})] :
         k \in {kind(r) : r \in rels}}

Offer(t, direction) ==
  [name |-> t.name, direction |-> direction, other |-> IF direction = "out" THEN t.tgt ELSE t.src,
   count |-> t.count]

\* preview_for_type
PreviewForType(triples, type) ==
  {Offer(t, "out") : t \in {x \in triples : x.src = type /\ x.count > 0}}
    \cup {Offer(t, "in") : t \in {x \in triples : x.tgt = type /\ x.count > 0}}

\* count_edges_filtered
EdgesOf(rels, typeof, node, p) ==
  {r \in rels : r.name = p.name /\ IF p.direction = "out" THEN r.from = node /\ typeof[r.to] = p.other
                                                          ELSE r.to = node /\ typeof[r.from] = p.other}

\* Seeded fault: the other end is not looked at.
PreviewForNode_AnyEnd(rels, typeof, node) ==
  {p \in {[q EXCEPT !.count = Cardinality({r \in rels : r.name = q.name /\ node \in {r.from, r.to}})] :
            q \in PreviewForType(Triples(rels, typeof), typeof[node])} : p.count > 0}

\* preview_for_node
PreviewForNode(rels, typeof, node) ==
  {p \in {[q EXCEPT !.count = Cardinality(EdgesOf(rels, typeof, node, q))] :
            q \in PreviewForType(Triples(rels, typeof), typeof[node])} : p.count > 0}

-----------------------------------------------------------------------------
(* Properties.  A property is a column: for each node of the type a value  *)
(* or Absent.                                                              *)

Absent == 0

Column == [name : Nat, type : STRING, hinted : BOOLEAN, title : BOOLEAN, chars : Nat, canonical : BOOLEAN,
           values : Seq(Nat)]

\* compute_property_stats of the engine.
StatOf(c, sampled) ==
  LET read == IF sampled THEN First(c.values, SampleSize) ELSE c.values
      seen == Picked(read, {i \in DOMAIN read : read[i] # Absent})
      kinds == ToSet(seen)
      over == Cardinality(kinds) > MaxDistinct
  IN  [name |-> c.name, type |-> c.type, hinted |-> c.hinted, chars |-> c.chars, canonical |-> c.canonical,
       title |-> c.title, non_null |-> Len(seen), unique |-> Least(Cardinality(kinds), MaxDistinct),
       values |-> IF over THEN {} ELSE kinds, approx |-> sampled \/ over]

\* Seeded fault: a sample is taken for every value there is.
Classify_Sampled(s) ==
  IF s.canonical \/ s.non_null = 0 \/ s.unique <= 1 THEN "unsuitable"
  ELSE IF s.type = "number" THEN "numeric"
  ELSE IF s.unique <= MaxDistinct THEN "categorical" ELSE "unsuitable"

\* classify
Classify(s) ==
  IF s.canonical \/ s.non_null = 0 \/ s.unique <= 1 THEN "unsuitable"
  ELSE IF s.type = "number" THEN "numeric"
  ELSE IF ~s.approx /\ s.unique <= MaxDistinct THEN "categorical" ELSE "unsuitable"

Covers(s, node_count) == s.non_null * 10 >= node_count * 9
Distinguishes(s) == IF s.approx THEN s.unique >= MaxDistinct ELSE s.unique * 2 >= s.non_null

\* Seeded fault: a tie is left to the order the columns came in.
Better_Tie(a, b) ==
  \/ a.hinted /\ ~b.hinted
  \/ a.hinted = b.hinted /\ a.non_null >= b.non_null

\* The order of the candidates: the hint, the coverage, then the first name.
Better(a, b) ==
  \/ a.hinted /\ ~b.hinted
  \/ a.hinted = b.hinted /\ a.non_null > b.non_null
  \/ a.hinted = b.hinted /\ a.non_null = b.non_null /\ a.name < b.name

\* caption_candidate
CaptionCandidate(stats, node_count) ==
  LET named == {i \in DOMAIN stats : stats[i].title /\ Covers(stats[i], node_count) /\ Distinguishes(stats[i])}
      fit(s) == /\ ~s.canonical /\ s.type = "text" /\ s.chars <= CaptionChars
                /\ Covers(s, node_count) /\ Distinguishes(s)
      best == Carried(stats, <<>>, LAMBDA b, s : IF fit(s) /\ (b = <<>> \/ Better(s, b[1])) THEN <<s>> ELSE b)
  IN  IF node_count = 0 \/ named # {} \/ best = <<>> \/ ~best[1].hinted THEN Absent ELSE best[1].name

\* property_stats
PropertyStats(columns, node_count) ==
  LET stats == [i \in DOMAIN columns |-> StatOf(columns[i], node_count > Exact)]
  IN  [state |-> "stats", sampled |-> node_count > Exact,
       numeric |-> {stats[i].name : i \in {j \in DOMAIN stats : Classify(stats[j]) = "numeric"}},
       categorical |-> {stats[i] : i \in {j \in DOMAIN stats : Classify(stats[j]) = "categorical"}},
       caption |-> CaptionCandidate(stats, node_count)]

\* node_detail: the properties that are shown, of those there are.
NodeDetail(cells, title) ==
  LET shown == First(Picked(cells, {i \in DOMAIN cells : cells[i].key <= 256}), MaxFields)
  IN  [state |-> "node", properties |-> [i \in DOMAIN shown |-> LegacyCell(shown[i].value)],
       bound |-> BoundInfo(Len(shown), Len(cells)),
       title |-> Least(title, MaxCell), title_truncated |-> title > MaxCell]
=============================================================================
