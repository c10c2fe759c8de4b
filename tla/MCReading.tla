----------------------------- MODULE MCReading -----------------------------
(***************************************************************************)
(* Values on both sides of every ceiling.                                  *)
(***************************************************************************)
EXTENDS Reading

One == Leaf("int")
Big == Leaf("big")
Short == Text(2, 2)
N(i) == Node(i, <<One>>)
R1 == Rel(1, 1, 2, <<>>)
R2 == Rel(2, 2, 3, <<Big>>)

MCValues ==
  {One, Big, Leaf("null"), Leaf("nan"), Ref(1), Short,
   Text(28, 28), Text(22, 30), Text(29, 29), Text(40, 40),
   List(<<>>), List(<<One, Big>>), List(<<One, One, One>>), List(<<One, One, One, One, One, One>>),
   List(<<Short, Text(19, 19)>>), List(<<Short, Text(25, 25)>>), List(<<List(<<Big>>)>>), List(<<List(<<List(<<One>>)>>)>>),
   Map(<<Big>>), Map(<<One, Short>>), Map(<<List(<<>>), Leaf("nan")>>),
   N(1), R1, R2, Path(<<N(1), N(2)>>, <<R1>>), List(<<N(1)>>)}

MCTables ==
  BoundedSeq({Short, Text(28, 28), Leaf("null")}, 4)

MCTexts == BoundedSeq(1..3, 4)

MCQueries ==
  LET Q(rows) == [rows |-> rows, explain |-> FALSE, warnings |-> {}, parses |-> TRUE,
                  writes |-> FALSE, blank |-> FALSE, columns |-> 1, names |-> 1]
      some == {<<One>>, <<N(1)>>, <<R2, N(3)>>, <<List(<<N(1), N(2)>>), R1>>,
               <<Path(<<N(1), N(2)>>, <<R1>>)>>, <<Text(28, 28)>>}
      plain == {Q(rows) : rows \in BoundedSeq(some, 3)}
      long == Q([i \in 1..5 |-> <<N(i)>>])
  IN  plain \cup {[long EXCEPT !.warnings = {"deprecated"}], [long EXCEPT !.explain = TRUE],
                  [long EXCEPT !.parses = FALSE, !.rows = <<>>], [long EXCEPT !.writes = TRUE],
                  [long EXCEPT !.columns = 3]}

\* Three types, one of the system's own, and a supporting one.
MCSchemas ==
  LET types(a, b) == {[name |-> 1, count |-> a, supporting |-> FALSE, system |-> FALSE],
                      [name |-> 2, count |-> b, supporting |-> TRUE, system |-> FALSE],
                      [name |-> 3, count |-> 2, supporting |-> FALSE, system |-> FALSE],
                      [name |-> 4, count |-> 9, supporting |-> FALSE, system |-> TRUE]}
      triple(s, t, n, c) == [src |-> s, tgt |-> t, name |-> n, count |-> c]
      all == {triple(1, 2, 1, 3), triple(2, 1, 1, 3), triple(2, 3, 2, 5), triple(3, 3, 1, 1)}
  IN  {[types |-> types(a, b), triples |-> ts, tier |-> tier] :
         a \in 1..2, b \in 2..3, ts \in SUBSET all, tier \in {"full", "top-types", "summary"}}

\* Three nodes of two types: parallel relationships, a self-loop, both directions.
MCGraphs ==
  LET r(i, a, b, n) == [id |-> i, from |-> a, to |-> b, name |-> n]
  IN  {[typeof |-> <<1, 1, 2>>, rels |-> rs] :
         rs \in SUBSET {r(1, 1, 2, 1), r(2, 2, 1, 1), r(3, 1, 1, 1), r(4, 1, 3, 1), r(5, 3, 1, 2), r(6, 1, 3, 1)}}

\* Types of four nodes, one more than are counted exactly, or of two.
MCColumns ==
  LET column(n, type, hinted, title, vs) ==
        [name |-> n, type |-> type, hinted |-> hinted, title |-> title, chars |-> 1, canonical |-> title,
         values |-> vs]
      some(n) == {column(n, type, hinted, FALSE, vs) : type \in {"text", "number"}, hinted \in BOOLEAN,
                  vs \in {<<1, 2, 3, 1>>, <<1, 1, 2, 2>>, <<1, 0, 2, 3>>, <<1, 2, 1, 1>>}}
      two(n) == {column(n, "text", TRUE, FALSE, vs) : vs \in {<<1, 2>>, <<1, 1>>, <<1, 0>>, <<0, 0>>}}
  IN  {<<t, a, b>> : t \in {column(3, "text", FALSE, TRUE, <<1, 1, 1, 1>>)}, a \in some(1), b \in some(2)}
        \cup {<<t, a, b>> : t \in {column(3, "text", FALSE, TRUE, vs) : vs \in {<<1, 1>>, <<1, 2>>, <<0, 0>>}}, a \in two(1), b \in two(2)}

\* Each shape of response, after and before one of another shape.
MCTalks ==
  LET r(type, json, compaction, points, links, request) ==
        [type |-> type, json |-> json, compaction |-> compaction, points |-> points, links |-> links,
         request |-> request]
      ten == <<1, 2, 3, 4, 5, 6, 7, 8, 9, 10>>
      first == {r("GraphSlice", <<91, 92, 93, 94, 95>>, <<81>>, SubSeq(ten, 1, 4), SubSeq(ten, 5, 8), <<>>),
                r("SharedUpdate", <<91, 92>>, <<>>, <<>>, SubSeq(ten, 1, 2), <<>>),
                r("Layout", <<93>>, <<>>, SubSeq(ten, 3, 10), <<>>, <<>>),
                r("MetaGraphMeta", <<91, 92, 93>>, <<>>, SubSeq(ten, 1, 4), <<>>, <<>>),
                r("QueryTable", <<91, 92, 93, 94>>, <<>>, <<>>, <<>>, <<71>>),
                r("Error", <<91>>, <<>>, <<>>, <<>>, <<71, 72>>)}
      short == r("SharedUpdate", <<95>>, <<>>, <<7, 7>>, <<>>, <<>>)
  IN  {<<a, short, r("SessionInfo", <<91>>, <<>>, <<>>, <<>>, <<>>)>> : a \in first}

\* Links among the nodes of two triangles that touch, stars, and a link that comes twice.
MCShapes ==
  LET pairs == <<<<1, 1>>, <<1, 2>>, <<1, 3>>, <<2, 3>>, <<3, 4>>, <<4, 5>>, <<4, 6>>, <<5, 6>>>>
      star  == <<<<2, 1>>, <<2, 3>>, <<2, 4>>, <<2, 5>>, <<2, 6>>, <<3, 4>>>>
      Some(all) == {SelectSeq(all, LAMBDA p : p \in S) : S \in SUBSET Range(all)}
      picture(links) == [nodes |-> 6, links |-> links]
  IN  {picture(l) : l \in {l \in Some(pairs) : Len(l) > 3} \cup Some(star) \cup {<<<<2, 1>>>> \o l : l \in Some(Tail(pairs))}}

\* Fans of one and of two types, a link both ways, a loop, places for all or for some.
MCSources ==
  LET edge(a, b) == [from |-> a, to |-> b, meta |-> FALSE, count |-> 1]
      node(s, t, p) == [kind |-> "node", slot |-> s, name |-> t, count |-> 1, place |-> p]
      fan == <<edge(2, 5), edge(4, 2), edge(2, 3), edge(6, 2), edge(2, 6), edge(5, 5), edge(7, 3)>>
      instances(place) == [i \in 1..6 |-> node(i + 1, IF i < 4 THEN 1 ELSE 2, place[i])]
      type(i, c) == [kind |-> "type", slot |-> i, name |-> i, count |-> c, place |-> NoPlace]
  IN  {[kind |-> "slice", nodes |-> instances(place), edges |-> SelectSeq(fan, LAMBDA e : e \in es \cup {fan[3]}),
        seed_type |-> seed, clipped |-> clipped] :
          place \in {<<0, 0, 0, 0, 0, 0>>, <<1, 2, 2, 3, 0, 1>>, <<1, 1, 1, 1, 1, 1>>},
          es \in SUBSET (Range(fan) \ {fan[3]}), seed \in {0, 2}, clipped \in {{}, {"links"}}}
        \cup {[kind |-> "meta", nodes |-> <<type(1, a), type(2, b), type(3, 2), type(4, 2)>>,
               edges |-> <<edge(1, 2), edge(2, 1), edge(3, 1)>>, clipped |-> clipped] :
                 a \in 1..3, b \in 1..3, clipped \in {{}, {"nodes"}}}
        \cup {[kind |-> "live", entries |-> <<type(1, 3), hole, third, type(4, 1), last>>,
               edges |-> <<edge(1, 3), edge(3, 5)>>, clipped |-> {}] :
                 hole \in {[kind |-> "hole"]}, third \in {node(3, 1, 1), type(3, 2)}, last \in {node(5, 1, 2), type(5, 1)}}

\* Too small, full and roomy canvases.
MCRequests ==
  LET ask(w, k, legend, apart, density) ==
        [width |-> w, height |-> 10, kernel |-> k, legend |-> legend, apart |-> apart, density |-> density]
  IN  {ask(8, "none", 0, 6, 100), ask(10, "none", 0, 0, 100), ask(10, "radial", 2, 6, 50), ask(10, "islands", 0, 6, 100),
       ask(10, "geo", 0, 6, 100), ask(10, "auto", 0, 6, 100), ask(40, "none", 2, 6, 50), ask(40, "force", 0, 0, 100)}

\* Three names that meet, and more at one point than there is room for around it.
MCNames ==
  LET spec(i, w, half, p, x, y) == [slot |-> i, weight |-> w, half |-> half, x |-> x, y |-> y, pinned |-> p, degree |-> 1]
  IN  {<<spec(1, 1, 2, FALSE, 0, 0), spec(2, w, 1, p, x, y), spec(3, 2, 2, q, 2, y + 1)>> :
         w \in 1..2, p \in BOOLEAN, q \in BOOLEAN, x \in {-3, 1, 5}, y \in {0, 2}}
        \cup {[i \in 1..7 |-> spec(i, 1, 12, i # 4, 0, 0)]}

\* With and without holes, and with nothing.
MCViews ==
  LET node(s, p) == [kind |-> "node", slot |-> s, name |-> 1, count |-> 1, place |-> p]
      hole == [kind |-> "hole"]
      edge(a, b) == [from |-> a, to |-> b]
  IN  {[entries |-> <<first, node(2, p), third, node(4, 2)>>, edges |-> es, clipped |-> {}] :
         first \in {hole, node(1, 0)}, third \in {hole, node(3, 1)}, p \in {0, 1},
         es \in {<<>>, <<edge(2, 4)>>, <<edge(4, 2), edge(2, 2)>>}}
        \cup {[entries |-> <<hole>>, edges |-> <<>>, clipped |-> {}], [entries |-> <<>>, edges |-> <<>>, clipped |-> {}]}

\* Integers and floats around the limits of both.
MCFields ==
  LET value(v) == [state |-> "value", value |-> v]
      numbers == {Integer(n) : n \in {-8, -2, -1, 0, 5, 7}} \cup {Float(h) : h \in {-17, -16, -3, 0, 1, 8, 16}}
      others == {value([t |-> "text", n |-> 1]), [state |-> "null"], [state |-> "missing"], [state |-> "truncated"]}
  IN  {<<value(a), value(b)>> : a \in numbers, b \in numbers} \cup {<<x, y, value(Integer(5)), value(Integer(5))>> : x \in others, y \in others}
        \cup {<<value(Integer(1)), value(Integer(2)), value(Float(2)), value(Integer(3)), value(Integer(1))>>}

MCPredicates ==
  LET range(min, max) == [kind |-> "range", min |-> min, max |-> max, include |-> {"null"}]
  IN  {range(a, b) : a \in {Unbounded, Float(-3), Float(8), Integer(-8)}, b \in {Unbounded, Float(8), Integer(7), Float(16)}}
        \cup {[kind |-> "category", values |-> {Integer(5)}, include |-> {}], [kind |-> "missing", include |-> {"missing"}],
              [kind |-> "category", values |-> {[t |-> "list"]}, include |-> {}]}
=============================================================================
