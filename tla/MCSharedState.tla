--------------------------- MODULE MCSharedState ---------------------------
(***************************************************************************)
(* A source of one type, two nodes and the relationship between them.      *)
(***************************************************************************)
EXTENDS SharedState

CONSTANTS ta, n1, n2, r1, fancy, geo

MCTypeOrder == <<ta>>
MCNodes == {n1, n2}
MCTypeOf == [n \in MCNodes |-> ta]
MCRelations == {r1}
MCSource == [r \in MCRelations |-> n1]
MCTarget == [r \in MCRelations |-> n2]
MCMetaLinks == {}

\* Everything; the first node only; no relations; no isolated nodes.
MCPredicateSets ==
  LET all == [admits |-> MCNodes, keeps |-> MCRelations, isolated |-> FALSE, by_calc |-> {}]
  IN  {all, [all EXCEPT !.keeps = {}], [all EXCEPT !.isolated = TRUE]}

MCKinds == {"degree"}
=============================================================================
