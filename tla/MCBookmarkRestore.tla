------------------------- MODULE MCBookmarkRestore -------------------------
(***************************************************************************)
(* A source of one type, two nodes and the relationship between them, and  *)
(* payloads of another session: one of both nodes in the other order,      *)
(* filtered by a degree, under a subset revision this session also comes   *)
(* to; one that names its only node twice, and one that highlights a node  *)
(* it does not hold.                                                       *)
(***************************************************************************)
EXTENDS BookmarkRestore

CONSTANTS ta, n1, n2, r1, geo

MCTypeOrder == <<ta>>
MCNodes == {n1, n2}
MCTypeOf == [n \in MCNodes |-> ta]
MCRelations == {r1}
MCSource == [r \in MCRelations |-> n1]
MCTarget == [r \in MCRelations |-> n2]
MCMetaLinks == {}

MCPredicateSets ==
  LET all == [admits |-> MCNodes, keeps |-> MCRelations, isolated |-> FALSE, by_calc |-> {}]
  IN  {all, [all EXCEPT !.isolated = TRUE]}

MCKinds == {"degree"}

MCElsewhere == {"there"}

MCForeign ==
  LET id == <<"there", 3>>
      degree(stamp, subset, edges) ==
        [id |-> id, kind |-> "degree", generation |-> "there", stamp |-> stamp,
         subset_revision |-> subset, nodes |-> MCNodes, edges |-> edges]
      payload(calculation) ==
        [members |-> <<n2, n1>>, relations |-> {r1},
         predicates |-> [admits |-> MCNodes, keeps |-> MCRelations,
                         isolated |-> FALSE, by_calc |-> {id}],
         appearance |-> Plain, caption |-> NoCaption,
         highlighted |-> {}, selected |-> {n1},
         kernel |-> geo, positions |-> {<<ta, ta>>, <<n1, n1>>, <<n2, n2>>},
         calculations |-> {calculation}]
      sound == payload(degree(5, 2, {}))
      alone == [sound EXCEPT !.members = <<n1>>, !.relations = {}, !.kernel = Simulation,
                             !.positions = {}]
  IN  {sound, [alone EXCEPT !.members = <<n1, n1>>], [alone EXCEPT !.highlighted = {n2}]}
=============================================================================
