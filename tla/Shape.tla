-------------------------------- MODULE Shape --------------------------------
(***************************************************************************)
(* What an arrangement reads of a picture before it places anything        *)
(* (structure.rs) and the plan it chooses (live_layout.rs).  A picture has *)
(* nodes 1..n and links, a sequence of pairs of them; links have no        *)
(* direction here and a link from a node to itself is not drawn.           *)
(***************************************************************************)
EXTENDS Integers, SequencesExt

CONSTANTS
  MinIslands,       \* MIN_NODES_FOR_ISLANDS
  DominantPercent,  \* DOMINANT_COMMUNITY_SHARE
  MinEgo,           \* MIN_EGO_DEGREE
  EgoPercent,       \* EGO_COVERAGE
  MinShells,        \* MIN_NODES_FOR_SHELLS
  MinSide           \* MIN_SHELL_CLASS

\* Parallel links count one each.
Degree(links, i) == Cardinality({k \in DOMAIN links : links[k][1] # links[k][2] /\ i \in {links[k][1], links[k][2]}})

Near(links, i) == UNION {{links[k][1], links[k][2]} : k \in {k \in DOMAIN links : i \in {links[k][1], links[k][2]}}} \ {i}

-----------------------------------------------------------------------------
(* Distances. *)

\* The rings of a walk: what is linked to the last of them, and has not been met.
NextRing(links, rings) ==
  LET ring == UNION {Near(links, i) : i \in Last(rings)} \ UNION Range(rings)
  IN  IF ring = {} THEN rings ELSE Append(rings, ring)

\* Every ring after the first takes a link to get to.
Rings(links, seed) ==
  LET upto[k \in 0..Len(links)] == IF k = 0 THEN <<{seed}>> ELSE NextRing(links, upto[k - 1])
  IN  upto[Len(links)]
Reached(rings) == UNION Range(rings)
RingOf(rings, i) == CHOOSE k \in DOMAIN rings : i \in rings[k]

\* Seeded fault: what the walk does not reach joins the deepest ring.
HopOf_Deepest(rings, i) == IF i \in Reached(rings) THEN RingOf(rings, i) - 1 ELSE Len(rings) - 1

\* What the walk does not reach is drawn one ring further out.
HopOf(rings, i) == IF i \in Reached(rings) THEN RingOf(rings, i) - 1 ELSE Len(rings)

\* A node is reached from the first node of the ring before it that it is linked to.
ParentOf(links, rings, i) ==
  IF i \in Reached(rings) \ rings[1] THEN Min(Near(links, i) \cap rings[RingOf(rings, i) - 1]) ELSE 0

\* structure::hops
Hops(n, links, seed) ==
  LET rings == Rings(links, seed)
  IN  [i \in 1..n |-> [hop |-> HopOf(rings, i), parent |-> ParentOf(links, rings, i)]]

-----------------------------------------------------------------------------
(* Two sides. *)

\* Each part of the picture is coloured from its first node, by the parity of the distance.
FirstSide(n, links) ==
  LET Colour(so_far, i) ==
        LET rings == Rings(links, i)
        IN  IF i \in so_far.met THEN so_far
            ELSE [side |-> so_far.side \cup UNION {rings[k] : k \in {k \in DOMAIN rings : k % 2 = 1}},
                  met |-> so_far.met \cup Reached(rings)]
  IN  FoldLeft(Colour, [side |-> {}, met |-> {}], [i \in 1..n |-> i]).side

\* Seeded fault: one link within a side is let pass.
Crosses_Mostly(links, side) ==
  Cardinality({k \in DOMAIN links : links[k][1] # links[k][2] /\ (links[k][1] \in side <=> links[k][2] \in side)}) <= 1

Crosses(links, side) ==
  \A k \in DOMAIN links : links[k][1] # links[k][2] => (links[k][1] \in side <=> links[k][2] \notin side)

NoSides == [inner |-> {}, outer |-> {}]

Pairs(links) == {{links[k][1], links[k][2]} : k \in {k \in DOMAIN links : links[k][1] # links[k][2]}}

Sides(first, second) ==
  IF Cardinality(second) < Cardinality(first) THEN [inner |-> second, outer |-> first]
                                              ELSE [inner |-> first, outer |-> second]

\* structure::bipartition
Bipartition(n, links) ==
  LET first == FirstSide(n, links)
  IN  IF /\ n >= MinShells
         /\ Cardinality(Pairs(links)) >= n
         /\ \A i \in 1..n : Near(links, i) # {}
         /\ Crosses(links, first)
         /\ MinSide <= Cardinality(first) /\ Cardinality(first) <= n - MinSide
      THEN Sides(first, 1..n \ first)
      ELSE NoSides

-----------------------------------------------------------------------------
(* Communities.  An edge is between two vertices, or within one; there is *)
(* one for each link, where the code adds up those between the same two.   *)
(* A gain is scaled by the number of them so that it is whole.             *)

Edges(links) == [k \in {k \in DOMAIN links : links[k][1] # links[k][2]} |-> {links[k][1], links[k][2]}]

\* The ends that edges have in S: a vertex's degree, a community's total.
Attached(edges, S) ==
  Cardinality({k \in DOMAIN edges : edges[k] \cap S # {}}) + Cardinality({k \in DOMAIN edges : edges[k] \subseteq S})

Gain(edges, v, others) ==
  2 * Cardinality(DOMAIN edges) * Cardinality({k \in DOMAIN edges : v \in edges[k] /\ edges[k] \cap others # {}})
    - Attached(edges, {v}) * Attached(edges, others)

\* Where v would be, and what that would gain.
Offers(edges, part, v, candidates) ==
  {<<c, Gain(edges, v, {i \in DOMAIN part : part[i] = c /\ i # v})>> : c \in candidates}

\* The first of the best, if it is better than where the vertex is.
BestOf(own, offers) ==
  LET stay == CHOOSE x \in offers : x[1] = own
      better == {x \in offers : x[2] > stay[2] /\ \A y \in offers : y[2] <= x[2]}
  IN  IF better = {} THEN own ELSE Min({x[1] : x \in better})

\* A vertex goes to a community that it has an edge to, or stays.
Move(edges, part, v) ==
  LET met == {part[v]} \cup {part[i] : i \in UNION {edges[k] : k \in {k \in DOMAIN edges : v \in edges[k]}}}
  IN  [part EXCEPT ![v] = BestOf(@, Offers(edges, part, v, met))]

Pass(edges, part) ==
  LET upto[v \in 0..Len(part)] == IF v = 0 THEN part ELSE Move(edges, upto[v - 1], v) IN upto[Len(part)]

\* At most 24 passes over the vertices, until none moves.
OneLevel(edges, n) ==
  LET after[k \in 0..24] ==
        IF k = 0 THEN [part |-> [v \in 1..n |-> v], moves |-> TRUE]
        ELSE LET before == after[k - 1]
                 part == Pass(edges, before.part)
             IN  IF before.moves THEN [part |-> part, moves |-> part # before.part] ELSE before
  IN  after[24].part

\* Communities are numbered as they first appear.
Firsts(part) == {i \in DOMAIN part : \A j \in 1..i - 1 : part[j] # part[i]}
Renumber(part) ==
  [i \in DOMAIN part |-> Cardinality({f \in Firsts(part) : \E g \in Firsts(part) : part[g] = part[i] /\ f <= g})]

Aggregate(edges, part) == [k \in DOMAIN edges |-> {part[i] : i \in edges[k]}]

\* At most four levels, each on the communities of the one before.
Level(at) ==
  LET part == Renumber(OneLevel(at.edges, at.n))
      groups == Cardinality(Range(part))
  IN  IF groups = at.n THEN at
      ELSE [edges |-> Aggregate(at.edges, part), n |-> groups,
            mapping |-> [i \in DOMAIN at.mapping |-> part[at.mapping[i]]]]

\* structure::louvain
Louvain(n, links) ==
  LET upto[k \in 0..4] == IF k = 0 THEN [edges |-> Edges(links), n |-> n, mapping |-> [i \in 1..n |-> i]]
                          ELSE Level(upto[k - 1])
  IN  Renumber(upto[4].mapping)

-----------------------------------------------------------------------------
(* The plan. *)

ForcePlan == [kernel |-> "force"]
RadialPlan(seed) == [kernel |-> "radial", seed |-> seed]
IslandsPlan(community) == [kernel |-> "islands", community |-> community]

\* The one node that is busiest, if it is busy enough and nearly everything hangs off it.
EgoCentres(n, links) ==
  {i \in 1..n : /\ n > MinEgo /\ Degree(links, i) >= MinEgo
                /\ \A j \in 1..n \ {i} : Degree(links, j) < Degree(links, i)
                /\ 100 * Cardinality(Near(links, i)) >= EgoPercent * (n - 1)}

Dominant(n, community) ==
  \E c \in Range(community) :
    100 * Cardinality({i \in 1..n : community[i] = c}) >= DominantPercent * n

GroupPlan(n, community) ==
  IF Cardinality(Range(community)) < 2 THEN ForcePlan ELSE IslandsPlan(community)

\* structure::plan; hints are the nodes that the request named as its origin.
Plan(n, links, hints) ==
  LET centres == EgoCentres(n, links)
      community == Louvain(n, links)
  IN  CASE n = 0 -> ForcePlan
        [] n > 0 /\ Len(hints) = 1 /\ hints[1] <= n -> RadialPlan(hints[1])
        [] OTHER -> IF centres # {} THEN RadialPlan(Min(centres))
                    ELSE IF n < MinIslands \/ Dominant(n, community) THEN ForcePlan
                    ELSE GroupPlan(n, community)

Busiest(n, links) == Min({i \in 1..n : \A j \in 1..n : Degree(links, j) <= Degree(links, i)})

RadialSeed(n, links, hints) ==
  IF Len(hints) = 1 THEN hints[1]
  ELSE LET plan == Plan(n, links, <<>>)
       IN  IF plan.kernel = "radial" THEN plan.seed ELSE Busiest(n, links)

\* live_layout::choose_plan: a kernel that has nothing to work with falls back.
ChoosePlan(kernel, n, links, hints) ==
  CASE kernel \in {"auto", "geo", "simulation"} -> Plan(n, links, hints)
    [] kernel = "force" \/ n = 0 -> ForcePlan
    [] kernel = "radial" /\ n > 0 -> RadialPlan(RadialSeed(n, links, hints))
    [] kernel = "islands" /\ n > 0 -> GroupPlan(n, Louvain(n, links))

-----------------------------------------------------------------------------
(* What the operators are measured against. *)

\* How much closer a partition's groups are than chance would have it, scaled by the square of the total.
Modularity(edges, part) ==
  LET Group(c) == {i \in DOMAIN part : part[i] = c}
  IN  MapThenSumSet(LAMBDA c : 4 * Cardinality(DOMAIN edges) * Cardinality({k \in DOMAIN edges : edges[k] \subseteq Group(c)})
                                 - Attached(edges, Group(c)) * Attached(edges, Group(c)),
                    Range(part))

HopsAreDistances(n, links, seed, walk) ==
  LET Met(i) == i = seed \/ walk[i].parent # 0
  IN  \A i \in 1..n :
        /\ walk[i].hop = 0 <=> i = seed
        /\ Met(i) => \A j \in Near(links, i) : Met(j) /\ walk[j].hop <= walk[i].hop + 1
        /\ Met(i) /\ i # seed =>
             /\ walk[walk[i].parent].hop = walk[i].hop - 1
             /\ walk[i].parent = Min({j \in Near(links, i) : walk[j].hop < walk[i].hop})
        /\ ~Met(i) => /\ \A j \in 1..n : Met(j) => walk[j].hop < walk[i].hop
                      /\ \E j \in 1..n : Met(j) /\ walk[j].hop = walk[i].hop - 1

\* Told apart by every link, if the picture is one part; or no such sides exist.
SidesAreExact(n, links, sides) ==
  LET Separates(S) == \A p \in Pairs(links) : Cardinality(p \cap S) = 1
  IN  IF sides = NoSides
      THEN ~\E S \in SUBSET (1..n) :
              /\ Separates(S) /\ MinSide <= Cardinality(S) /\ Cardinality(S) <= n - MinSide
              /\ n >= MinShells /\ Cardinality(Pairs(links)) >= n
              /\ Reached(Rings(links, 1)) = 1..n
      ELSE /\ sides.inner \cup sides.outer = 1..n /\ sides.inner \cap sides.outer = {}
           /\ Cardinality(sides.inner) <= Cardinality(sides.outer)
           /\ Separates(sides.inner)

IslandsAreGroups(n, links, community) ==
  /\ \A i \in 1..n : community[i] <= Max({0} \cup {community[j] : j \in 1..i - 1}) + 1
  /\ \A i, j \in 1..n : community[i] = community[j] => j \in Reached(Rings(links, i))
  /\ Modularity(Edges(links), community) >= Modularity(Edges(links), [i \in 1..n |-> i])
=============================================================================
