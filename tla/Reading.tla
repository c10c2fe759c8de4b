------------------------------- MODULE Reading -------------------------------
(***************************************************************************)
(* Someone reads the graph: a cell, a table page by page, one value page   *)
(* by page, the answer of a query, a search, the schema, a picture.  The   *)
(* view a picture is of is an input, and the graph does not change (its    *)
(* handle is read-only), so one reader alone is every reader.              *)
(***************************************************************************)
EXTENDS Pictures, Wire, Filters

CONSTANTS
  Values,     \* the values a field of the graph, or of a query, can hold
  Tables,     \* the rows that handles can name, of one field each
  Texts,      \* texts, as the widths of their characters
  Queries,    \* the queries
  Schemas,    \* graphs, as their types and triples
  Graphs,     \* graphs, as the types of their nodes and their relationships
  Columns,    \* the properties of a type, in any order
  Talks,      \* the responses that follow each other on one socket
  Targets,    \* the sizes of a chunk
  Shapes,     \* the links of pictures, and their number of nodes
  Sources,    \* what pictures are of
  Requests,   \* what is asked of them
  Names,      \* names that want a place in a picture
  Views,      \* what is on screen
  Fields,     \* the cells of a property
  Predicates, \* what they are filtered by
  Limits      \* the page sizes and row limits a caller asks for

\* No character is longer than a page of text, or takes no byte.
ASSUME ReadingAssumption ==
  /\ \A v \in Values : IsValue(v)
  /\ \A rows \in Tables : rows \in Seq(ToSet(rows)) /\ \A v \in ToSet(rows) : IsValue(v)
  /\ Texts \subseteq Seq(1..TextBytes)
  /\ Limits \subseteq Nat

\* A type has each property once.
ASSUME ColumnsAssumption ==
  \A columns \in Columns : /\ columns \in Seq(Column)
                           /\ \A i, j \in DOMAIN columns : columns[i].name = columns[j].name => i = j

\* A socket carries one response at least.
ASSUME TalksAssumption ==
  /\ \A s \in Talks : s \in Seq(Response) /\ s # <<>>
  /\ Targets \subseteq Nat

\* A type has one name, and a triple one count.
ASSUME SchemasAssumption ==
  /\ \A g \in Schemas :
       /\ g.types \subseteq [name : Nat, count : Nat, supporting : BOOLEAN, system : BOOLEAN]
       /\ g.triples \subseteq [src : Nat, tgt : Nat, name : Nat, count : Nat]
       /\ g.tier \in {"full", "compact", "top-types", "summary"}
       /\ IsFiniteSet(g.types) /\ IsFiniteSet(g.triples)
       /\ \A a, b \in g.types : a.name = b.name => a = b
       /\ \A a, b \in g.triples : a.src = b.src /\ a.tgt = b.tgt /\ a.name = b.name => a = b
  /\ \A g \in Graphs : IsFiniteSet(g.rels)

\* Rows are rows of values.
ASSUME QueriesAssumption ==
  \A q \in Queries :
    /\ q.rows \in Seq(ToSet(q.rows))
    /\ \A row \in ToSet(q.rows) : row \in Seq(ToSet(row)) /\ \A v \in ToSet(row) : IsValue(v)

\* A predicate can ask for the cells without a value, and for those of two kinds only.
ASSUME FieldsAssumption ==
  /\ \A cells \in Fields :
       /\ cells \in Seq(ToSet(cells))
       /\ \A c \in ToSet(cells) : /\ c.state \in {"value", "null", "missing", "unavailable", "truncated"}
                                  /\ c.state = "value" => IsOfWidth(c.value)
  /\ \A p \in Predicates :
       /\ p.kind \in {"category", "range", "missing"} /\ p.include \subseteq {"null", "missing"}
       /\ p.kind = "range" => IsOfWidth(p.min) /\ IsOfWidth(p.max)

VARIABLES
  inquiry,    \* what is being read
  read,       \* the pages it has so far: where each began and ended
  answer,     \* the last answer
  offset      \* of the page to ask for next; NoOffset, there is none

readVars == <<inquiry, read, answer, offset>>

None == [kind |-> "none"]

\* LayoutKernel
Kernels == {"auto", "geo", "radial", "islands", "force", "simulation"}

\* What a client hears: the frames of each response, those of the first in any order.
Journeys ==
  UNION {LET rest == FlattenSeq([i \in 1..Len(s) - 1 |-> ResponseFrames(s[i + 1], t)])
         IN  {[kind |-> "wire", sent |-> s, target |-> t, frames |-> d \o rest] :
                d \in Deliveries(ResponseFrames(s[1], t))} : s \in Talks, t \in Targets}

Strays ==
  UNION {{[kind |-> "frame", was |-> f, frame |-> g] : g \in Damaged(f) \cup {f}} :
           f \in UNION {ToSet(ResponseFrames(s[1], t)) : s \in Talks, t \in Targets}}

Inquiries ==
  [kind : {"cell"}, value : Values]
    \cup [kind : {"records"}, rows : Tables, limit : Limits]
    \cup [kind : {"text"}, widths : Texts]
    \cup [kind : {"items"}, value : {v \in Values : Kind(v) \in Collections}, limit : Limits]
    \cup [kind : {"path"}, value : Values, path : BoundedSeq(1..2, 2)]
    \cup [kind : {"query", "graph"}, query : Queries, limit : Limits]
    \cup [kind : {"search"}, rows : Tables, limit : Limits]
    \cup [kind : {"draft"}, query : Queries]
    \cup [kind : {"schema"}, schema : Schemas]
    \cup [kind : {"preview"}, graph : Graphs]
    \cup [kind : {"stats"}, columns : Columns]
    \cup [kind : {"node"}, rows : Tables]
    \cup Journeys \cup Strays
    \cup [kind : {"shape"}, shape : Shapes]
    \cup [kind : {"picture"}, source : Sources, request : Requests]
    \cup [kind : {"names"}, specs : Names, all : BOOLEAN, budget : 1..2]
    \cup [kind : {"view"}, view : Views, kernel : Kernels, hint : 0..2]
    \cup [kind : {"filter"}, cells : Fields, predicate : Predicates]
    \cup [kind : {"cells"}, from : 0..3, count : 1..9]

ReadInit ==
  /\ inquiry = None
  /\ read = <<>>
  /\ answer = None
  /\ offset = NoOffset

\* A new question: the panel is cleared.
Ask(i) ==
  /\ inquiry' = i
  /\ read' = <<>>
  /\ answer' = None
  /\ offset' = 0

\* One page arrives; the next one is asked for where it says.
Arrives(page) ==
  /\ answer' = page
  /\ IF page.state = "page"
     THEN /\ read' = Append(read, <<page.from, page.to>>)
          /\ offset' = page.next
     ELSE /\ UNCHANGED read
          /\ offset' = NoOffset
  /\ UNCHANGED inquiry

Answered(a) ==
  /\ answer' = a
  /\ offset' = NoOffset
  /\ UNCHANGED <<inquiry, read>>

ReadRecords ==
  /\ inquiry.kind = "records"
  /\ LET cells == [i \in DOMAIN inquiry.rows |-> <<ReadCell(inquiry.rows[i])>>]
     IN  Arrives(Records(cells, offset, inquiry.limit, 0))

ReadText ==
  /\ inquiry.kind = "text"
  /\ Arrives(TextPage(inquiry.widths, offset))

ReadItems ==
  /\ inquiry.kind = "items"
  /\ Arrives(FieldDetail(inquiry.value, <<>>, offset, inquiry.limit))

ReadPath ==
  /\ inquiry.kind = "path"
  /\ Answered(FieldDetail(inquiry.value, inquiry.path, 0, 1))

ReadCellOnce ==
  /\ inquiry.kind = "cell"
  /\ Answered([state |-> "cells", stored |-> ReadCell(inquiry.value), legacy |-> LegacyCell(inquiry.value),
               asked |-> Preview(inquiry.value)])

RunQuery ==
  \/ inquiry.kind = "query" /\ Answered(RunCypher(inquiry.query, inquiry.limit))
  \/ inquiry.kind = "graph" /\ Answered(AsGraph(inquiry.query, inquiry.limit))

RunSearch ==
  /\ inquiry.kind = "search"
  /\ Answered(Search([i \in DOMAIN inquiry.rows |-> [node |-> Node(i, <<>>), matched |-> inquiry.rows[i]]],
                     inquiry.limit))

\* The query is not run.
ValidateQuery ==
  /\ inquiry.kind = "draft"
  /\ Answered([state |-> "draft", found |-> Validate(inquiry.query)])

ReadSchema ==
  /\ inquiry.kind = "schema"
  /\ Answered(MetaGraph(inquiry.schema))

PreviewNode ==
  /\ inquiry.kind = "preview"
  /\ \E n \in DOMAIN inquiry.graph.typeof :
       Answered([state |-> "preview", node |-> n,
                 offers |-> PreviewForNode(inquiry.graph.rels, inquiry.graph.typeof, n)])

ReadStats ==
  /\ inquiry.kind = "stats"
  /\ Answered(PropertyStats(inquiry.columns, Len(inquiry.columns[1].values)))

ReadNode ==
  /\ inquiry.kind = "node"
  /\ Answered(NodeDetail([i \in DOMAIN inquiry.rows |-> [key |-> 256 + (i % 2), value |-> inquiry.rows[i]]],
                         MaxCell + Len(inquiry.rows) - 2))

\* A frame of the answer reaches the client's assembler.
HearFrame ==
  /\ inquiry.kind = "wire"
  /\ LET frame == inquiry.frames[offset + 1]
         a == Assemble(IF answer = None THEN NewAssembler ELSE answer, frame)
     IN  IF frame.flags = Terminal
         THEN /\ answer' = AfterTerminal(a)
              /\ read' = Append(read, Complete(a))
         ELSE /\ answer' = a
              /\ UNCHANGED read
  /\ offset' = IF offset + 1 = Len(inquiry.frames) THEN NoOffset ELSE offset + 1
  /\ UNCHANGED inquiry

CheckFrame ==
  /\ inquiry.kind = "frame"
  /\ Answered([state |-> DecodeFrame(inquiry.frame)])

\* The links are read a second time turned and from the last.
PlanShape ==
  /\ inquiry.kind = "shape"
  /\ LET n == inquiry.shape.nodes
         links == inquiry.shape.links
     IN  Answered([state |-> "shape", plan |-> Plan(n, links, <<>>),
                   turned |-> Plan(n, Reverse([k \in DOMAIN links |-> Reverse(links[k])]), <<>>),
                   walk |-> Hops(n, links, 1), sides |-> Bipartition(n, links)])

DrawPicture ==
  /\ inquiry.kind = "picture"
  /\ Answered(Draw(inquiry.source, inquiry.request))

\* The names are placed a second time, given from the last.
NameNodes ==
  /\ inquiry.kind = "names"
  /\ Answered([state |-> "names", placed |-> Choose(inquiry.specs, inquiry.all, inquiry.budget),
               turned |-> Choose(Reverse(inquiry.specs), inquiry.all, inquiry.budget)])

ArrangeView ==
  /\ inquiry.kind = "view"
  /\ Answered(LayoutLiveView(inquiry.view, inquiry.kernel, inquiry.hint))

FirstPositions ==
  /\ inquiry.kind = "cells"
  /\ Answered([state |-> "cells", lattice |-> PositionsRange(inquiry.from, inquiry.count),
               spiral |-> [i \in 1..inquiry.count |-> SpiralCell(i - 1)]])

FilterField ==
  /\ inquiry.kind = "filter"
  /\ Answered(Filtered(inquiry.cells, inquiry.predicate))

Receive ==
  /\ offset # NoOffset
  /\ \/ ReadRecords \/ ReadText \/ ReadItems \/ ReadPath
     \/ ReadCellOnce \/ RunQuery \/ RunSearch \/ ValidateQuery
     \/ ReadSchema \/ PreviewNode \/ ReadStats \/ ReadNode
     \/ HearFrame \/ CheckFrame
     \/ PlanShape \/ DrawPicture \/ NameNodes \/ ArrangeView \/ FirstPositions
     \/ FilterField

ReadNext ==
  \/ inquiry = None /\ \E i \in Inquiries : Ask(i)
  \/ Receive

ReadSpec == ReadInit /\ [][ReadNext]_readVars /\ WF_readVars(Receive)

-----------------------------------------------------------------------------
(* Properties. *)

ShownHonestly(c) ==
  c.state = "value" =>
    /\ Written(c.value, 0) <= MaxCell
    /\ \A part \in ToSet(c.value) :
         /\ part.t \notin {"big"} \cup Composites
         /\ part.t \in Collections => part.n <= MaxItems

(***************************************************************************)
(* A cell is the whole value or says that it is not (records.rs,           *)
(* query_cells.rs): what is shown fits, has every item, and has no integer *)
(* that JavaScript would round.  A query's typed cell is never shown       *)
(* without the JSON that the text panel reads.                             *)
(***************************************************************************)
CellsAreWholeOrMarked ==
  inquiry.kind = "cell" /\ answer # None =>
    /\ \A c \in {answer.stored, answer.legacy, answer.asked.json, answer.asked.cell} :
         ShownHonestly(c)
    /\ answer.asked.cell.state = "value" => answer.asked.json.state = "value"
    /\ answer.stored.state = "value" => answer.stored.value = Typed(inquiry.value)

Everything ==
  CASE inquiry.kind = "records" -> Len(inquiry.rows)
    [] inquiry.kind = "text"    -> Sums(inquiry.widths)[Len(inquiry.widths)]
    [] inquiry.kind = "items"   -> Len(ItemsOf(inquiry.value))

(***************************************************************************)
(* Following next_offset reads every row, byte or item once and in order,  *)
(* never the same page twice; a reading that ends before the last of them  *)
(* is refused or says that it is truncated.                                *)
(***************************************************************************)
PagesMeet ==
  inquiry.kind \in {"records", "text", "items"} =>
    /\ \A i \in DOMAIN read : read[i][1] = (IF i = 1 THEN 0 ELSE read[i - 1][2])
    /\ offset # NoOffset /\ read # <<>> => offset > Last(read)[1]
    /\ answer # None /\ answer.state = "page" /\ offset = NoOffset =>
         \/ Last(read)[2] = Everything
         \/ inquiry.kind = "records" /\ answer.bound.truncated

\* The nodes and relationships in a value.
Outermost(v) ==
  {v[i] : i \in {i \in DOMAIN v : \A j \in 1..i - 1 : v[j].t \in {"node", "rel"} => Extent(v, j) < i}}
NodesIn(v) ==
  {x.id : x \in {x \in Outermost(v) : x.t \in {"ref", "node"}}}
    \cup UNION {{x.from, x.to} : x \in {x \in Outermost(v) : x.t = "rel"}}
RelsIn(v) == {x.id : x \in {x \in Outermost(v) : x.t = "rel"}}

InRows(q, n, f(_)) == UNION {f(x) : x \in UNION {ToSet(q.rows[i]) : i \in 1..n}}

(* "Show in graph" loads exactly the nodes and relationships of the rows   *)
(* the same query shows, and both ends of every relationship, or refuses;  *)
(* and a row that offers fewer than it names says so (query_provenance.rs).*)
GraphIsTheTable ==
  inquiry.kind = "graph" /\ answer # None /\ answer.state = "slice" =>
    LET q == inquiry.query
        rows == RunCypher(q, inquiry.limit).rows
    IN  /\ ToSet(answer.nodes) = InRows(q, Len(rows), NodesIn)
        /\ {r.id : r \in ToSet(answer.links)} = InRows(q, Len(rows), RelsIn)
        /\ \A r \in ToSet(answer.links) : {r.from, r.to} \subseteq ToSet(answer.nodes)
        /\ \A i \in DOMAIN rows :
             rows[i].references.truncated
               \/ ToSet(rows[i].references.nodes) = UNION {NodesIn(x) : x \in ToSet(q.rows[i])}

(* A range keeps exactly the numbers within it, compared as the numbers    *)
(* they are ("integer_float_comparison_never_rounds_the_integer",          *)
(* subset.rs), the counts of a distribution are those of its cells, and    *)
(* the range it shows holds every number it was shown for.                 *)
FiltersAreExact ==
  inquiry.kind = "filter" /\ answer # None /\ answer # Refused =>
    LET cells == inquiry.cells
        found == answer.found
        Halves(v) == IF v.t = "int" THEN 2 * v.n ELSE v.n
        Within(v, min, max) == /\ min = Unbounded \/ Halves(min) <= Halves(v)
                               /\ max = Unbounded \/ Halves(v) <= Halves(max)
        numbers == {i \in DOMAIN cells : cells[i].state = "value" /\ IsNumber(cells[i].value)}
    IN  /\ inquiry.predicate.kind = "range" =>
             \A i \in numbers : i \in answer.kept
               <=> Within(cells[i].value, inquiry.predicate.min, inquiry.predicate.max)
        /\ \A i \in numbers : Within(cells[i].value, found.min, found.max)
        /\ found.null + found.missing + found.unavailable + found.other
             + Sum(found.categories, LAMBDA c : c.count) = Len(cells)
        /\ \A c \in ToSet(found.categories) :
             c.count = Cardinality({i \in DOMAIN cells : cells[i].state = "value" /\ cells[i].value = c.value})

(***************************************************************************)
(* A table is the first rows of the answer, in order, with the exact       *)
(* number of rows there were and every warning of the engine but the one   *)
(* the bound already gives ("`BoundInfo` is on every response whether the  *)
(* bound fired or not", query.rs).  Search hits are the first matches, and *)
(* the bound says whether there are more.  What the editor marks as an     *)
(* error would be refused, and a node that has more properties than its    *)
(* answer shows says so.  The graph of a query is its table, and a filter  *)
(* keeps what is in its range.                                             *)
(***************************************************************************)
AnswersArePrefixes ==
  /\ inquiry.kind = "query" /\ answer # None /\ answer.state = "table" =>
       LET q == inquiry.query
       IN  /\ answer.bound = BoundInfo(Len(answer.rows), Len(q.rows))
           /\ \A i \in DOMAIN answer.rows : answer.rows[i] = TableRow(q.rows[i])
           /\ q.warnings \ {"row_limit"} \subseteq answer.warnings
  /\ inquiry.kind = "search" /\ answer # None =>
       /\ \A i \in DOMAIN answer.hits : answer.hits[i].id = i
       /\ answer.bound.truncated <=> Len(answer.hits) < Len(inquiry.rows)
  /\ inquiry.kind = "draft" /\ answer # None /\ "error" \in answer.found =>
       \A n \in Limits : RunCypher(inquiry.query, n) = Refused
  /\ inquiry.kind = "node" /\ answer # None =>
       answer.bound.truncated <=> Len(answer.properties) < Len(inquiry.rows)
  /\ GraphIsTheTable
  /\ FiltersAreExact

(***************************************************************************)
(* The picture of the schema is sound and says what it leaves out          *)
(* (meta_graph.rs): every link it draws is between two types it draws, no  *)
(* type or link it leaves out is larger than one it keeps, and it counts   *)
(* the types it leaves out.  What the expansion menu of a node offers is   *)
(* what expanding finds (expand.rs): each relationship of the node once    *)
(* for each end it has there, and nothing else.                            *)
(***************************************************************************)
SchemaIsSound ==
  /\ inquiry.kind = "schema" /\ answer # None =>
       LET g == inquiry.schema
           drawn == {answer.nodes[i].name : i \in DOMAIN answer.nodes}
           between == {t \in g.triples : {t.src, t.tgt} \subseteq drawn}
       IN  /\ ToSet(answer.edges) \subseteq between
           /\ \A n \in ToSet(answer.nodes), t \in g.types :
                 t.name \in drawn \/ t.system \/ t.count <= n.count
           /\ \A e \in ToSet(answer.edges), t \in between : t \in ToSet(answer.edges) \/ t.count <= e.count
           /\ answer.node_bound.truncated <=> \E t \in g.types : ~t.system /\ t.name \notin drawn
           /\ answer.edge_bound.truncated <=> ToSet(answer.edges) # between
  /\ inquiry.kind = "preview" /\ answer # None =>
       LET rels == inquiry.graph.rels
           typeof == inquiry.graph.typeof
           Here(r, direction)  == answer.node = IF direction = "out" THEN r.from ELSE r.to
           There(r, direction) == typeof[IF direction = "out" THEN r.to ELSE r.from]
           Finds(o) == {r \in rels : Here(r, o.direction) /\ r.name = o.name /\ There(r, o.direction) = o.other}
       IN  /\ \A o \in answer.offers : Finds(o) # {} /\ o.count = Cardinality(Finds(o))
           /\ \A r \in rels, direction \in {"out", "in"} :
                Here(r, direction) =>
                  \E o \in answer.offers :
                    \A p \in answer.offers : p.direction = direction /\ r \in Finds(p) <=> p = o

(***************************************************************************)
(* A property offered for colour has every one of its values in the list   *)
(* ("Colouring by a property whose value set is a lower bound gives some   *)
(* nodes no colour at all, silently", stats.rs), and the caption does not  *)
(* depend on the order the properties came in.                             *)
(***************************************************************************)
ColoursCoverTheType ==
  inquiry.kind = "stats" /\ answer # None =>
    /\ \A s \in answer.categorical : \A c \in ToSet(inquiry.columns) :
         c.name = s.name => ToSet(c.values) \ {Absent} \subseteq s.values
    /\ answer.caption = PropertyStats(Reverse(inquiry.columns), Len(inquiry.columns[1].values)).caption

(***************************************************************************)
(* A response arrives as it was sent, in whatever order and however often  *)
(* the frames before its last one come ("an out-of-order or retried frame  *)
(* cannot silently concatenate wrong", protocol.rs), with nothing of the   *)
(* response before it; no chunk is larger than asked or splits a record,   *)
(* every array has a frame, and a frame the server's decoder accepts is    *)
(* the one that was sent.                                                  *)
(***************************************************************************)
ResponsesArriveWhole ==
  /\ inquiry.kind = "wire" =>
       LET heard == inquiry.frames
       IN  /\ \A i \in DOMAIN read : read[i] = Received(inquiry.sent[i])
           /\ offset = NoOffset => Len(read) = Len(inquiry.sent)
           /\ \A i \in DOMAIN heard : MessageTypes[heard[i].code] \in {"Points", "Links"} =>
                /\ heard[i].offset % ArrayRecord = 0
                /\ heard[i].length <= Max({inquiry.target, ArrayRecord})
  /\ inquiry.kind = "frame" /\ answer # None =>
       /\ inquiry.frame = inquiry.was => answer.state = "decoded"
       /\ answer.state = "decoded" =>
            [inquiry.frame EXCEPT !.body = SubSeq(@, 1, inquiry.frame.length)]
              = [inquiry.was EXCEPT !.body = SubSeq(@, 1, inquiry.was.length)]

(* An arrangement is read off the picture and not off the order its links  *)
(* come in: hops are distances, two sides are told apart by every link,    *)
(* and groups are connected and better than none (structure.rs).           *)
PlansAreReadOff ==
  inquiry.kind = "shape" /\ answer # None =>
    LET n == inquiry.shape.nodes
        links == inquiry.shape.links
    IN  /\ answer.turned = answer.plan
        /\ HopsAreDistances(n, links, 1, answer.walk)
        /\ SidesAreExact(n, links, answer.sides)
        /\ answer.plan.kernel = "islands" => IslandsAreGroups(n, links, answer.plan.community)

(* A picture stands for every node of what it is of: those that are not    *)
(* drawn are leaves, counted by a wedge that hangs off one named node; no  *)
(* link is lost with them, and what was asked for is never folded.         *)
FoldsAreCounted(picture, built) ==
  LET nodes == picture.scene.nodes
      wedges == Indices(nodes, LAMBDA v : v.aggregate > 0)
      StandsFor(i) == Indices(nodes, LAMBDA v :
                       \/ v.slot = built.nodes[i].slot
                       \/ v.aggregate > 0 /\ v.type = built.nodes[i].type /\ Degree(built.links, i) = 1)
  IN  /\ Sum(nodes, LAMBDA v : IF v.aggregate > 0 THEN v.aggregate ELSE 1) = Len(built.nodes)
      /\ picture.folded = Len(built.nodes) - Len(nodes) + Cardinality(wedges)
      /\ \A w \in wedges : /\ nodes[w].aggregate > FanThreshold
                           /\ \E p \in DOMAIN nodes \ wedges : Near(picture.scene.links, w) = {p} /\ nodes[p].pinned
      /\ \A i \in built.seeds : \E j \in DOMAIN nodes : nodes[j].slot = built.nodes[i].slot
      /\ \A l \in Range(built.links) : l[1] # l[2] =>
           \E k \in Range(picture.scene.links) : k[1] \in StandsFor(l[1]) /\ k[2] \in StandsFor(l[2])
      /\ picture.kernel = "geo" => wedges = {}
      /\ wedges # {} <=> "folded" \in picture.status

(* No two names that found room overlap, a node that must be named is, and *)
(* the names do not depend on the order the nodes come in (labels.rs).     *)
NamesHaveRoom(specs, placed, budget) ==
  LET Half(p) == (CHOOSE s \in Range(specs) : s.slot = p.slot).half
      pinned == {s.slot : s \in {s \in Range(specs) : s.pinned}}
  IN  /\ pinned \subseteq {p.slot : p \in placed}
      /\ \A p \in placed : p.overlaps => p.slot \in pinned
      /\ \A p, q \in placed :
            p = q \/ p.overlaps \/ q.overlaps
              \/ Max({p.x - q.x, q.x - p.x}) > Half(p) + Half(q)
              \/ Max({p.y - q.y, q.y - p.y}) >= ChipHeight
      /\ Cardinality({p \in placed : p.slot \notin pinned}) <= budget

(* The picture says what it leaves out (render/mod.rs, D5): the types the  *)
(* canvas has no room for, which are never larger than one it draws; the   *)
(* names; and whatever its source or its legend had clipped.               *)
PicturesSayWhatTheyLeaveOut(picture, source, request) ==
  LET nodes == picture.scene.nodes
      left == IF source.kind = "meta"
              THEN {v \in Range(source.nodes) : \A i \in DOMAIN nodes : nodes[i].slot # v.slot} ELSE {}
  IN  /\ \A v \in left, i \in DOMAIN nodes : v.count <= nodes[i].weight
      /\ picture.types = IF left = {} THEN <<>> ELSE <<Len(nodes), Len(source.nodes)>>
      /\ left # {} <=> "tier" \in picture.status
      /\ picture.truncated <=> source.clipped # {} \/ picture.legend < request.legend
      /\ "names" \in picture.status
           <=> picture.scene.all_names /\ \E i \in DOMAIN nodes : nodes[i].slot \notin {p.slot : p \in picture.placed}
      /\ picture.kernel \in Kernels \ {"auto", "simulation"}

(* An arrangement has a point for exactly the slots that are on screen,    *)
(* one node each, and a centre only if it is radial (live_layout.rs).      *)
ViewsAreArranged ==
  inquiry.kind = "view" /\ answer # None /\ answer # Refused /\ inquiry.kernel # "simulation" =>
    LET entries == inquiry.view.entries
        live == {s \in DOMAIN entries : entries[s].kind # "hole"}
    IN  /\ DOMAIN answer.points = DOMAIN entries
        /\ {s \in DOMAIN entries : answer.points[s] # NoPoint} = live
        /\ IsInjective(Restrict(answer.points, live))
        /\ answer.seed # <<>> <=> answer.chosen = "radial"
        /\ answer.seed # <<>> => answer.seed[1] \in live
        /\ inquiry.hint \in live /\ answer.chosen = "radial" => answer.seed = <<inquiry.hint>>

(* Two first positions are never one, and a batch continues the one before *)
(* it; nodes at one place are spread over the squares around it.           *)
CellsAreDistinct ==
  inquiry.kind = "cells" /\ answer # None =>
    LET Square(cells) == Len(cells) = 9 => Range(cells) = (-1..1) \X (-1..1)
    IN  /\ IsInjective(answer.lattice) /\ IsInjective(answer.spiral)
        /\ Square(answer.spiral)
        /\ inquiry.from = 0 => Square(answer.lattice)
        /\ \A i \in 1..inquiry.count - 1 :
             \E s \in Range(Steps) : answer.lattice[i + 1] = <<answer.lattice[i][1] + s[1], answer.lattice[i][2] + s[2]>>

(***************************************************************************)
(* A picture is of what was asked, and says where it is not: the plan, the *)
(* folds, the names, the status and the arrangement of the view on screen. *)
(***************************************************************************)
PicturesAreHonest ==
  /\ PlansAreReadOff
  /\ inquiry.kind = "picture" /\ answer # None /\ answer # Refused =>
       LET built == BuildScene(inquiry.source, inquiry.request.width, inquiry.request.height)
       IN  /\ FoldsAreCounted(answer, built)
           /\ NamesHaveRoom(NameSpecs(answer.scene, inquiry.request.apart), answer.placed, Len(built.nodes))
           /\ PicturesSayWhatTheyLeaveOut(answer, inquiry.source, inquiry.request)
  /\ inquiry.kind = "names" /\ answer # None =>
       answer.turned = answer.placed /\ NamesHaveRoom(inquiry.specs, answer.placed, inquiry.budget)
  /\ ViewsAreArranged
  /\ CellsAreDistinct
=============================================================================
