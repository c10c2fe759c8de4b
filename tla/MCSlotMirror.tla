---------------------------- MODULE MCSlotMirror ---------------------------
(***************************************************************************)
(* A source of two types and four nodes: three relationships, one of them  *)
(* a self-loop and two of them parallel, and one link of the meta-graph.   *)
(***************************************************************************)
EXTENDS SlotMirror

CONSTANTS ta, tb, n1, n2, n3, n4, r1, r2, r3

MCTypeOrder == <<ta, tb>>
MCNodes == {n1, n2, n3, n4}
MCTypeOf == [n \in MCNodes |-> IF n \in {n1, n2, n3} THEN ta ELSE tb]
MCRelations == {r1, r2, r3}
MCSource == [r \in MCRelations |-> CASE r = r1 -> n1 [] r = r2 -> n1 [] r = r3 -> n2]
MCTarget == [r \in MCRelations |-> CASE r = r1 -> n4 [] r = r2 -> n4 [] r = r3 -> n2]
MCMetaLinks == {<<1, 2>>}
=============================================================================
