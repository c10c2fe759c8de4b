----------------------------- MODULE QueryTable -----------------------------
(***************************************************************************)
(* What a query and a search answer (query.rs), the entities a row names   *)
(* (query_provenance.rs), and what an editor is told before it is run      *)
(* (validate.rs).  The engine is what it is asked to do: it keeps as many  *)
(* rows as its row limit and says how many there were.                     *)
(***************************************************************************)
EXTENDS Pages, FiniteSets

CONSTANTS
  QueryRows, QueryBytes, QueryHead, \* MAX_QUERY_ROWS, MAX_QUERY_BYTES, and the part kept for the head
  MaxColumns, ColumnBytes,          \* 256 columns, 64 KiB of names
  MaxWork, MaxNesting,              \* MAX_REFERENCE_WORK, MAX_REFERENCE_DEPTH
  MaxReferences,                    \* MAX_ROW_REFERENCES
  LoadedNodes, LoadedEdges,         \* MAX_LOADED_NODES, MAX_LOADED_EDGES
  SearchHits, LabelChars            \* MAX_SEARCH_HITS, 256

ASSUME QueryAssumption ==
  {QueryRows, QueryBytes, QueryHead, MaxColumns, ColumnBytes, MaxWork, MaxNesting, MaxReferences,
   LoadedNodes, LoadedEdges, SearchHits, LabelChars} \subseteq Nat

First(s, n) == SubSeq(s, 1, Least(Len(s), n))
\* The first of each element.
Distinct(s) == Picked(s, {i \in DOMAIN s : \A j \in 1..i - 1 : s[j] # s[i]})

-----------------------------------------------------------------------------
(* The nodes and relationships of a row, in the order they are met. *)

\* What is in a node or a relationship is not looked at.
Entities(v) ==
  LET Within(i) == \E j \in 1..i - 1 : v[j].t \in {"node", "rel"} /\ i <= Extent(v, j)
  IN  Picked(v, {i \in DOMAIN v : v[i].t \notin {"key", "props", "hops"} /\ ~Within(i)})

\* RawReferences::node; the ceiling lets one more in.
AddNode(acc, id) ==
  IF id \in ToSet(acc.nodes) THEN acc
  ELSE IF Len(acc.nodes) > LoadedNodes THEN [acc EXCEPT !.incomplete = TRUE]
  ELSE [acc EXCEPT !.nodes = Append(@, id)]

\* Seeded fault: a relationship does not name its ends.
AddRel_Alone(acc, r) ==
  IF \E x \in ToSet(acc.rels) : x.id = r.id THEN acc
  ELSE [acc EXCEPT !.rels = Append(@, [id |-> r.id, from |-> r.from, to |-> r.to])]

\* RawReferences::relation: its ends, then itself.
AddRel(acc, r) ==
  LET ends == AddNode(AddNode(acc, r.from), r.to)
  IN  IF \E x \in ToSet(ends.rels) : x.id = r.id THEN ends
      ELSE IF Len(ends.rels) > LoadedEdges THEN [ends EXCEPT !.incomplete = TRUE]
      ELSE [ends EXCEPT !.rels = Append(@, [id |-> r.id, from |-> r.from, to |-> r.to])]

\* RawReferences::visit, until the work is spent.
Meet(acc, m) ==
  LET more == [acc EXCEPT !.work = @ + 1]
  IN  IF acc.incomplete THEN acc
      ELSE IF more.work > MaxWork \/ m.at > MaxNesting THEN [more EXCEPT !.incomplete = TRUE]
      ELSE CASE m.t \in {"ref", "node"} -> AddNode(more, m.id)
             [] m.t = "rel"             -> AddRel(more, m)
             [] OTHER                   -> more

\* RawReferences::row
References(row) ==
  Carried(Flat(row, Entities), [nodes |-> <<>>, rels |-> <<>>, work |-> 0, incomplete |-> FALSE], Meet)

\* RawReferences::scoped: what the row offers to be opened.
Scoped(raw) ==
  [nodes |-> First(raw.nodes, MaxReferences), rels |-> First(raw.rels, MaxReferences),
   truncated |-> raw.incomplete \/ Len(raw.nodes) > MaxReferences \/ Len(raw.rels) > MaxReferences]

-----------------------------------------------------------------------------
(***************************************************************************)
(* The engine's answer: the first rows, the exact number when some were    *)
(* dropped, and its warnings.  EXPLAIN is not limited.                     *)
(***************************************************************************)
Engine(q, limit) ==
  LET cut == ~q.explain /\ Len(q.rows) > limit
  IN  [rows |-> IF cut THEN First(q.rows, limit) ELSE q.rows,
       total |-> IF cut THEN Len(q.rows) ELSE NoOffset,
       warnings |-> q.warnings \cup (IF cut THEN {"row_limit"} ELSE {})]

\* Seeded fault: once a row limit fired no warning crosses the wire.
Warnings_None(warnings, cut) == IF cut THEN {} ELSE warnings

\* forwarded_warnings: all but the one the bound says already.
ForwardedWarnings(warnings, cut) == IF cut THEN warnings \ {"row_limit"} ELSE warnings

TableRow(row) ==
  [cells |-> [i \in DOMAIN row |-> Preview(row[i])], raw |-> References(row),
   references |-> Scoped(References(row))]

TableRowSize(r) ==
  Sum(r.cells, LAMBDA p : CellSize(p.cell) + (IF p.json.state = "value" THEN Written(p.json.value, 0) ELSE 1))
    + Len(r.raw.nodes) + Len(r.raw.rels)

\* The rows under the row ceiling that fit the answer.
FittingRows(all) ==
  SubSeq(all, 1, Fitting([i \in DOMAIN all |-> TableRowSize(all[i])], QueryBytes - QueryHead))

KeptRows(rows, max_items) ==
  FittingRows([i \in DOMAIN First(rows, max_items) |-> TableRow(rows[i])])

\* Seeded fault: the rows in hand are taken for the whole answer.
Total_InHand(found, engine_total) == found

Total(found, engine_total) == IF engine_total = NoOffset THEN found ELSE engine_total

\* The ceilings on what the rows name let one more in.
TableOf(kept, nodes, rels, total) ==
  [state |-> "table", rows |-> kept, bound |-> BoundInfo(Len(kept), total),
   node_ids |-> First(nodes, LoadedNodes + 1), relationships |-> First(rels, LoadedEdges + 1),
   graph_references_truncated |->
     \/ \E i \in DOMAIN kept : kept[i].raw.incomplete
     \/ Len(nodes) > LoadedNodes + 1 \/ Len(rels) > LoadedEdges + 1,
   warnings |-> {}, explain |-> FALSE]

Tabled(kept, total) ==
  TableOf(kept, Distinct(Flat(kept, LAMBDA r : r.raw.nodes)),
          Distinct(Flat(kept, LAMBDA r : r.raw.rels)), total)

\* to_table_context: the rows that fit, and what they name.
ToTable(rows, max_items, engine_total) ==
  Tabled(KeptRows(rows, max_items), Total(Len(rows), engine_total))

\* A query that does not parse, or writes, is the engine's error.
Checked(q, outcome, table) ==
  IF ~q.parses \/ q.writes \/ q.columns > MaxColumns \/ q.names > ColumnBytes
     \/ q.names + Sum(table.rows, TableRowSize) > QueryBytes
  THEN Refused
  ELSE [table EXCEPT !.warnings = ForwardedWarnings(outcome.warnings, outcome.total # NoOffset),
                     !.explain = q.explain]

Shaped(q, max_items, outcome) ==
  Checked(q, outcome, ToTable(outcome.rows, max_items, outcome.total))

\* run_cypher_context
RunCypher(q, limit) ==
  LET max_items == Least(limit, QueryRows)
  IN  Shaped(q, max_items, Engine(q, max_items))

\* Session::cypher, into the view: the entities the kept rows name, or a refusal.
Drawn(table) ==
  IF table.state = "refused" \/ table.graph_references_truncated THEN Refused
  ELSE [state |-> "slice", nodes |-> table.node_ids, links |-> table.relationships,
        bound |-> BoundInfo(Len(table.node_ids), Len(table.node_ids))]

AsGraph(q, limit) == Drawn(RunCypher(q, limit))

\* validate_query
Validate(q) ==
  IF q.blank THEN {}
  ELSE IF ~q.parses THEN {"error"}
  ELSE (IF q.writes THEN {"error"} ELSE {}) \cup {"warning" : w \in q.warnings}

-----------------------------------------------------------------------------
(* Search. *)

\* clipped_label and search_label: a label, and whether it was clipped.
SearchLabel(v) ==
  LET c == Cell(v)
  IN  CASE Kind(v) = "text" -> [chars |-> Least(v[1].n, LabelChars), truncated |-> v[1].n > LabelChars]
        [] Kind(v) = "null" -> [chars |-> 0, truncated |-> FALSE]
        [] Kind(v) # "text" /\ c.state = "value" ->
             [chars |-> Least(Written(v, 0), LabelChars), truncated |-> Written(v, 0) > LabelChars]
        [] OTHER -> [chars |-> 1, truncated |-> TRUE]

\* query::search over the matches of a needle; one more than the limit is asked for.
Search(matches, limit) ==
  LET most == Least(limit, SearchHits)
      rows == First(matches, most + 1)
      asked == First(rows, most)
      hits == Picked(asked, {i \in DOMAIN asked : Kind(asked[i].node) = "node"})
  IN  [state |-> "search",
       hits |-> [i \in DOMAIN hits |-> [id |-> hits[i].node[1].id, label |-> SearchLabel(hits[i].matched)]],
       bound |-> BoundInfo(Len(hits), Len(rows))]
=============================================================================
