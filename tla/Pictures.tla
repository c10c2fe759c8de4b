------------------------------- MODULE Pictures -------------------------------
(***************************************************************************)
(* A picture: the scene it is drawn from, the fans that are folded, the    *)
(* plan, the names that are placed and what the answer says of it          *)
(* (render/mod.rs, labels.rs, the choices of geo.rs), and the arrangement  *)
(* of the view on screen (live_layout.rs).  Where a node comes to lie,     *)
(* how large it is and its colour are left out.                            *)
(***************************************************************************)
EXTENDS Schema, Shape

CONSTANTS
  FanThreshold,                        \* FAN_THRESHOLD
  FoldAbove,                           \* FOLD_ABOVE_PX_PER_NODE
  PlacedPercent, MinPlaces,            \* AUTO_PLACEABLE_SHARE, AUTO_MIN_DISTINCT
  CellWidth, CellHeight, ChipHeight,   \* of the grid of names
  CellsPerName, StatusRows,            \* CELLS_PER_LABEL, STATUS_ROWS
  LegendLine,                          \* the height of a line of the legend
  MinDimension, MaxDimension

NoPlace == 0

\* u32::MAX, as the model writes it: no entry has a slot as high.
LastSlot == 1000

\* A place is a coordinate, as it is compared; an aggregate stands for that many nodes.
SceneNode(slot, type, weight, place) ==
  [slot |-> slot, type |-> type, weight |-> weight, place |-> place, pinned |-> FALSE, aggregate |-> 0]

IndexOf(seq, Test(_)) == CHOOSE i \in DOMAIN seq : Test(seq[i])
Indices(seq, Test(_)) == {i \in DOMAIN seq : Test(seq[i])}
Ascending(S) == SelectSeq([i \in 1..Max(S \cup {0}) |-> i], LAMBDA i : i \in S)

-----------------------------------------------------------------------------
(* Scenes.  Ends are slots, links pairs of places in the sequence of nodes.*)

LinksAmong(nodes, ends) ==
  LET slots == {nodes[i].slot : i \in DOMAIN nodes}
      Place(s) == IndexOf(nodes, LAMBDA v : v.slot = s)
      inside == SelectSeq(ends, LAMBDA e : {e.from, e.to} \subseteq slots)
  IN  [k \in DOMAIN inside |-> <<Place(inside[k].from), Place(inside[k].to)>>]

\* labels::budget
NameBudget(width, height) ==
  LET columns == Max({width \div CellWidth, 1})
      rows    == Max({Max({height \div CellHeight, 1}) - StatusRows, 0})
  IN  Max({(columns * rows) \div CellsPerName, 1})

\* Seeded fault: the canvas keeps the types that come first.
CanvasTier_First(nodes, names) == {nodes[i].slot : i \in 1..Least(Len(nodes), names)}

\* The canvas keeps the largest types.
CanvasTier(nodes, names) ==
  LET larger == SortSeq(nodes, LargerType)
  IN  {larger[i].slot : i \in 1..Least(Len(nodes), names)}

MetaScene(meta, names) ==
  LET kept  == CanvasTier(meta.nodes, names)
      drawn == SelectSeq(meta.nodes, LAMBDA v : v.slot \in kept)
      nodes == [i \in DOMAIN drawn |-> SceneNode(drawn[i].slot, drawn[i].name, drawn[i].count, NoPlace)]
  IN  [nodes |-> nodes, links |-> LinksAmong(nodes, meta.edges), seeds |-> {}, all_names |-> TRUE,
       banners |-> meta.clipped, tier |-> IF Len(nodes) < Len(meta.nodes) THEN Len(meta.nodes) ELSE 0]

\* Instances only; the origin of an expansion is every node of its type.
SliceScene(slice) ==
  LET nodes == [i \in DOMAIN slice.nodes |->
                  SceneNode(slice.nodes[i].slot, slice.nodes[i].name, 1, slice.nodes[i].place)]
  IN  [nodes |-> nodes, links |-> LinksAmong(nodes, SelectSeq(slice.edges, LAMBDA e : ~e.meta)),
       seeds |-> Indices(nodes, LAMBDA v : v.type = slice.seed_type), all_names |-> FALSE,
       banners |-> slice.clipped, tier |-> 0]

\* Types and instances, whatever is on screen, under the banner that is on screen.
LiveScene(view) ==
  LET live == SelectSeq(view.entries, LAMBDA v : v.kind # "hole")
      nodes == [i \in DOMAIN live |->
                  SceneNode(live[i].slot, live[i].name, live[i].count,
                            IF live[i].kind = "type" THEN NoPlace ELSE live[i].place)]
  IN  [nodes |-> nodes, links |-> LinksAmong(nodes, view.edges), seeds |-> {},
       all_names |-> Indices(live, LAMBDA v : v.kind = "node") = {}, banners |-> view.clipped, tier |-> 0]

BuildScene(source, width, height) ==
  CASE source.kind = "meta"  -> MetaScene(source, NameBudget(width, height))
    [] source.kind = "slice" -> SliceScene(source)
    [] source.kind = "live"  -> LiveScene(source)

-----------------------------------------------------------------------------
(* A map. *)

Places(nodes) == {nodes[i].place : i \in Indices(nodes, LAMBDA v : v.place # NoPlace)}

AutoEligible(nodes) ==
  /\ nodes # <<>>
  /\ 100 * Cardinality(Indices(nodes, LAMBDA v : v.place # NoPlace)) >= PlacedPercent * Len(nodes)
  /\ Cardinality(Places(nodes)) >= MinPlaces

\* The n-th cell of a square spiral, in closed form.
Ring(n) == CHOOSE r \in 0..n : /\ n < (2 * r + 1) * (2 * r + 1)
                               /\ r = 0 \/ n >= (2 * r - 1) * (2 * r - 1)
\* Seeded fault: the third side of a ring begins one cell early.
SpiralCell_Short(n) ==
  LET r == Ring(n)
      at == n - (2 * r - 1) * (2 * r - 1)
  IN  CASE n = 0 -> <<0, 0>>
        [] n > 0 /\ at < 2 * r -> <<r, at - r>>
        [] n > 0 /\ 2 * r <= at /\ at < 4 * r -> <<3 * r - at, r>>
        [] n > 0 /\ 4 * r <= at /\ at < 6 * r -> <<-r, 5 * r - at + 1>>
        [] n > 0 /\ 6 * r <= at -> <<at - 7 * r, -r>>

SpiralCell(n) ==
  LET r == Ring(n)
      at == n - (2 * r - 1) * (2 * r - 1)
  IN  CASE n = 0 -> <<0, 0>>
        [] n > 0 /\ at < 2 * r -> <<r, at - r>>
        [] n > 0 /\ 2 * r <= at /\ at < 4 * r -> <<3 * r - at, r>>
        [] n > 0 /\ 4 * r <= at /\ at < 6 * r -> <<-r, 5 * r - at>>
        [] n > 0 /\ 6 * r <= at -> <<at - 7 * r, -r>>

\* Nodes at one place are spread over the cells of a spiral.
Spread(nodes, i) == SpiralCell(Cardinality({j \in 1..i - 1 : nodes[j].place = nodes[i].place}))

\* The lattice of the first positions is walked: runs of 1, 1, 2, 2, 3, 3, ... cells.
Steps == <<<<1, 0>>, <<0, 1>>, <<-1, 0>>, <<0, -1>>>>

\* Seeded fault: a run is one longer after every turn.
NextCell_Longer(w) ==
  LET to == <<w.at[1] + Steps[w.dir][1], w.at[2] + Steps[w.dir][2]>>
  IN  IF w.left > 1 THEN [w EXCEPT !.at = to, !.left = @ - 1]
      ELSE [at |-> to, dir |-> (w.dir % 4) + 1, run |-> w.run + 1, left |-> w.run, second |-> ~w.second]

NextCell(w) ==
  LET to  == <<w.at[1] + Steps[w.dir][1], w.at[2] + Steps[w.dir][2]>>
      run == IF w.second THEN w.run + 1 ELSE w.run
  IN  IF w.left > 1 THEN [w EXCEPT !.at = to, !.left = @ - 1]
      ELSE [at |-> to, dir |-> (w.dir % 4) + 1, run |-> run, left |-> run, second |-> ~w.second]

Walked ==
  LET cell[n \in Nat] == IF n = 0 THEN [at |-> <<0, 0>>, dir |-> 1, run |-> 1, left |-> 1, second |-> FALSE]
                         ELSE NextCell(cell[n - 1])
  IN  cell

\* layout::positions_range
PositionsRange(from, count) == [i \in 1..count |-> Walked[from + i - 1].at]

-----------------------------------------------------------------------------
(* Folding.  A leaf has one link in this picture; the leaves of one type   *)
(* that a node has are a fan, and a large one becomes a wedge.             *)

Leaves(scene, p) ==
  {i \in DOMAIN scene.nodes : /\ Degree(scene.links, i) = 1 /\ Near(scene.links, i) = {p}
                              /\ scene.nodes[i].aggregate = 0}

\* Seeded fault: what the request named is folded like any other leaf.
Foldable_All(scene, leaves) == leaves

Foldable(scene, leaves) == leaves \ scene.seeds

FirstLink(scene, i) == Min({k \in DOMAIN scene.links : {scene.links[k][1], scene.links[k][2]} \ {i} = Near(scene.links, i)})

Fans(scene) ==
  UNION {LET leaves == Foldable(scene, Leaves(scene, p))
         IN  {[parent |-> p, type |-> t, kids |-> {i \in leaves : scene.nodes[i].type = t},
               met |-> Min({FirstLink(scene, i) : i \in {i \in leaves : scene.nodes[i].type = t}})] :
                t \in {scene.nodes[i].type : i \in leaves}} :
           p \in {p \in DOMAIN scene.nodes : Degree(scene.links, p) > 1}}

FirstFan(f, g) == f.parent < g.parent \/ (f.parent = g.parent /\ f.met < g.met)

Wedge(fan, k) ==
  [SceneNode(LastSlot - k, fan.type, Cardinality(fan.kids), NoPlace) EXCEPT !.pinned = TRUE, !.aggregate = Cardinality(fan.kids)]

\* Seeded fault: the node a fan hangs off keeps its own pin.
Pin_Kept(v, parent) == v

Pin(v, parent) == [v EXCEPT !.pinned = @ \/ parent]

\* The nodes that stay, in order, and the wedges; each link to where its ends went, once.
Refold(scene, fans, kept) ==
  LET Gone(i) == \E k \in DOMAIN fans : i \in fans[k].kids
      Went(i) == IF Gone(i) THEN Len(kept) + IndexOf(fans, LAMBDA f : i \in f.kids)
                            ELSE IndexOf(kept, LAMBDA j : j = i)
      moved == [k \in DOMAIN scene.links |-> <<Went(scene.links[k][1]), Went(scene.links[k][2])>>]
  IN  [scene EXCEPT
         !.nodes = [j \in DOMAIN kept |-> Pin(scene.nodes[kept[j]], \E k \in DOMAIN fans : fans[k].parent = kept[j])]
                     \o [k \in DOMAIN fans |-> Wedge(fans[k], k)],
         !.links = Distinct(SelectSeq(moved, LAMBDA l : l[1] # l[2])),
         !.seeds = {Went(i) : i \in {i \in @ : ~Gone(i)}}]

\* fold_leaf_fans: only where the picture is too full.
FoldLeafFans(scene, area) ==
  LET fans == SetToSortSeq({f \in Fans(scene) : Cardinality(f.kids) > FanThreshold}, FirstFan)
  IN  IF Len(scene.nodes) * FoldAbove <= area \/ fans = <<>> THEN scene
      ELSE Refold(scene, fans, Ascending(DOMAIN scene.nodes \ UNION {f.kids : f \in Range(fans)}))

-----------------------------------------------------------------------------
(* Names.  A name has a chip of a width, at a point; it takes the cells    *)
(* the chip covers.                                                        *)

CellsOf(x, half, y) ==
  (((x - half) \div CellWidth)..((x + half) \div CellWidth))
    \X ((y \div CellHeight)..((y + ChipHeight - 1) \div CellHeight))

Nudges == <<<<0, -1>>, <<0, 1>>, <<0, -2>>, <<0, 2>>, <<-1, 0>>, <<1, 0>>, <<-1, -1>>, <<1, -1>>, <<-1, 1>>, <<1, 1>>>>

NameFirst(a, b) ==
  \/ a.pinned /\ ~b.pinned
  \/ a.pinned = b.pinned /\ a.weight > b.weight
  \/ a.pinned = b.pinned /\ a.weight = b.weight /\ a.degree > b.degree
  \/ a.pinned = b.pinned /\ a.weight = b.weight /\ a.degree = b.degree /\ a.slot < b.slot

\* Seeded fault: a chip takes the row it begins in.
Claimed_Row(x, half, y) == (((x - half) \div CellWidth)..((x + half) \div CellWidth)) \X {y \div CellHeight}

Claimed(x, half, y) == CellsOf(x, half, y)

\* The places a name can take, its own first; other places only for a pinned one or where every name is wanted.
Tries(spec, all) ==
  <<<<spec.x, spec.y>>>>
    \o (IF all \/ spec.pinned
        THEN [k \in DOMAIN Nudges |-> <<spec.x + Nudges[k][1] * CellWidth, spec.y + Nudges[k][2] * CellHeight>>]
        ELSE <<>>)

Free(taken, spec, tries) == {k \in DOMAIN tries : CellsOf(tries[k][1], spec.half, tries[k][2]) \cap taken = {}}

\* Seeded fault: a pinned name that finds no room is dropped like any other.
Unplaced_Dropped(spec) == <<>>

Unplaced(spec) == IF spec.pinned THEN <<[slot |-> spec.slot, x |-> spec.x, y |-> spec.y, overlaps |-> TRUE]>> ELSE <<>>

\* Past the budget only a pinned name is placed; those come first.
PlaceName(so_far, spec, all, budget) ==
  LET tries == Tries(spec, all)
      free  == Free(so_far.taken, spec, tries)
      at    == tries[Min(free)]
  IN  IF Len(so_far.placed) >= budget /\ ~spec.pinned THEN so_far
      ELSE IF free = {} THEN [so_far EXCEPT !.placed = @ \o Unplaced(spec)]
      ELSE [taken |-> so_far.taken \cup Claimed(at[1], spec.half, at[2]),
            placed |-> Append(so_far.placed, [slot |-> spec.slot, x |-> at[1], y |-> at[2], overlaps |-> FALSE])]

\* labels::choose
Choose(specs, all, budget) ==
  Range(FoldLeft(LAMBDA so_far, spec : PlaceName(so_far, spec, all, budget), [taken |-> {}, placed |-> <<>>],
                 SortSeq(specs, NameFirst)).placed)

\* place_labels_presented: of the names that are not pinned, the first few.
ChoosePresented(specs, all, budget, density) ==
  IF density = 100 \/ all THEN Choose(specs, all, budget)
  ELSE LET ordered  == SortSeq(specs, NameFirst)
           pinned   == SelectSeq(ordered, LAMBDA s : s.pinned)
           ordinary == SelectSeq(ordered, LAMBDA s : ~s.pinned)
       IN  Choose(pinned \o First(ordinary, (Len(ordinary) * density) \div 100), FALSE, budget)

\* svg::label_specs: a link counts at both its ends; nodes lie apart, or all at one point.
NameSpecs(scene, apart) ==
  [i \in DOMAIN scene.nodes |->
     [slot |-> scene.nodes[i].slot, weight |-> scene.nodes[i].weight, half |-> 1, x |-> apart * i, y |-> 0,
      pinned |-> scene.nodes[i].pinned \/ scene.nodes[i].aggregate > 0,
      degree |-> Sum(scene.links, LAMBDA l : Cardinality({e \in 1..2 : l[e] = i}))]]

-----------------------------------------------------------------------------
(* The picture. *)

\* emphasise_centres: the centre of a radial plan, and of every island that is a star.
IslandCentre(members, links) ==
  LET Local(i) == IndexOf(members, LAMBDA j : j = i)
      inside == SelectSeq(links, LAMBDA l : {l[1], l[2]} \subseteq Range(members))
      centres == EgoCentres(Len(members), [k \in DOMAIN inside |-> <<Local(inside[k][1]), Local(inside[k][2])>>])
  IN  {members[c] : c \in centres}

Centres(scene, plan) ==
  LET Members(c) == {i \in DOMAIN plan.community : plan.community[i] = c}
  IN  {i \in CASE plan.kernel = "radial"  -> {plan.seed}
               [] plan.kernel = "islands" ->
                    UNION {IslandCentre(Ascending(Members(c)), scene.links) :
                             c \in {c \in Range(plan.community) : Cardinality(Members(c)) > 1}}
               [] plan.kernel = "force"   -> {} :
         scene.nodes[i].aggregate = 0}

\* What the status block says besides the name, the tier and the counts.
StatusOf(scene, folded, loops, map) ==
  {s \in {"tier", "folded", "loops", "tray"} :
     CASE s = "tier"   -> scene.tier > 0
       [] s = "folded" -> folded > 0
       [] s = "loops"  -> loops > 0
       [] s = "tray"   -> map /\ Indices(scene.nodes, LAMBDA v : v.place = NoPlace) # {}}

\* fit_legend
LegendRoom(height, lines) == Max({(height * 2) \div (5 * LegendLine) - lines, 0})

\* A map is drawn when it is asked for, or when no kernel is and the picture is of places.
UseMap(kernel, nodes) == kernel = "geo" \/ (kernel = "none" /\ AutoEligible(nodes))

Arranged(scene, map, kernel) ==
  ChoosePlan(IF kernel = "none" THEN "auto" ELSE kernel, Len(scene.nodes), scene.links, Ascending(scene.seeds))

\* draw_checked, from the plan on.
PictureOf(built, scene, map, plan, request) ==
  LET loops  == Cardinality({k \in DOMAIN built.links : built.links[k][1] = built.links[k][2]})
      folded == Len(built.nodes) - Cardinality(Indices(scene.nodes, LAMBDA v : v.aggregate = 0))
      status == StatusOf(scene, folded, loops, map)
      shown  == Least(request.legend, LegendRoom(request.height, 3 + Cardinality(status) + Cardinality(scene.banners) + 2))
      banners == scene.banners \cup (IF shown < request.legend THEN {"legend"} ELSE {})
      centres == IF map THEN {} ELSE Centres(scene, plan)
      drawn  == [scene EXCEPT !.nodes = [i \in DOMAIN @ |-> Pin(@[i], i \in centres)]]
      placed == ChoosePresented(NameSpecs(drawn, request.apart), drawn.all_names,
                                NameBudget(request.width, request.height), request.density)
      named  == drawn.all_names /\ Cardinality(placed) < Len(drawn.nodes)
  IN  [state |-> "picture", scene |-> drawn, centres |-> centres, placed |-> placed, legend |-> shown,
       nodes |-> Len(built.nodes), links |-> Len(built.links) - loops, folded |-> folded,
       kernel |-> IF map THEN "geo" ELSE plan.kernel, plan |-> plan,
       types |-> IF drawn.tier > 0 THEN <<Len(drawn.nodes), drawn.tier>> ELSE <<>>,
       names |-> IF named THEN <<Cardinality(placed)>> ELSE <<>>,
       status |-> status \cup (IF named THEN {"names"} ELSE {}),
       truncated |-> banners # {}, banners |-> banners]

\* A map is never folded: what a wedge stands for is in many places.
Folded(scene, map, request) ==
  IF map THEN scene ELSE FoldLeafFans(scene, request.width * request.height)

DrawScene(built, request) ==
  LET map   == UseMap(request.kernel, built.nodes)
      scene == Folded(built, map, request)
  IN  IF map /\ Places(built.nodes) = {} THEN Refused
      ELSE PictureOf(built, scene, map, Arranged(scene, map, request.kernel), request)

\* render_for; a canvas out of range, and a picture of nothing, are refused.
Draw(source, request) ==
  LET built == BuildScene(source, request.width, request.height)
  IN  IF {request.width, request.height} \subseteq MinDimension..MaxDimension /\ built.nodes # <<>>
      THEN DrawScene(built, request) ELSE Refused

-----------------------------------------------------------------------------
(* The arrangement of what is on screen. *)

NoPoint == <<>>

Arrangement(scene, map, plan, view, kernel) ==
  [state |-> "arrangement", requested |-> kernel, chosen |-> IF map THEN "geo" ELSE plan.kernel,
   seed |-> IF plan.kernel = "radial" /\ ~map THEN <<scene.nodes[plan.seed].slot>> ELSE <<>>,
   points |-> [s \in 1..Len(view.entries) |->
                 IF \E i \in DOMAIN scene.nodes : scene.nodes[i].slot = s
                 THEN <<IndexOf(scene.nodes, LAMBDA v : v.slot = s)>> ELSE NoPoint],
   live |-> Len(scene.nodes)]

\* layout_live_view; a hint that names a slot that is not on screen is no hint.
LayoutLiveView(view, kernel, hint) ==
  LET scene == LiveScene(view)
      map   == kernel = "geo" \/ (kernel = "auto" /\ AutoEligible(scene.nodes))
      hints == Ascending(Indices(scene.nodes, LAMBDA v : v.slot = hint))
  IN  IF kernel = "simulation"
      THEN [state |-> "arrangement", requested |-> kernel, chosen |-> kernel, seed |-> <<>>, points |-> <<>>, live |-> 0]
      ELSE IF map /\ Places(scene.nodes) = {} THEN Refused
      ELSE Arrangement(scene, map, ChoosePlan(kernel, Len(scene.nodes), scene.links, hints), view, kernel)
=============================================================================
