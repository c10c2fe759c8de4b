------------------------------ MODULE MCDoors ------------------------------
(***************************************************************************)
(* A source of one type, two nodes and a relationship.            *)
(***************************************************************************)
EXTENDS Doors, TLC

CONSTANTS ta, n1, n2, r1

MCTypeOrder == <<ta>>
MCNodes == {n1, n2}
MCTypeOf == [n \in MCNodes |-> ta]
MCRelations == {r1}
MCSource == (r1 :> n1)
MCTarget == (r1 :> n2)
MCMetaLinks == {}

\* Everything; without the relationship.
MCPredicateSets ==
  LET all == [admits |-> MCNodes, keeps |-> MCRelations, isolated |-> FALSE, by_calc |-> {}]
  IN  {all, [all EXCEPT !.keeps = {}]}

MCPlain == [color |-> NoField, size |-> NoField, look |-> "dim"]
MCAppearances == [color : {NoField, "f"}, size : {NoField}, look : {"dim", "bright"}]
MCStyleArgs ==
  LET channel(b, f, l) == [color_by |-> b, color_field |-> f, size_by |-> Absent,
                           size_field |-> Absent, look |-> l]
  IN  {channel(Absent, "f", Absent), channel("f", NoField, Absent),
       channel(Absent, NoField, "bright"), channel("f", Absent, "bright"),
       channel(Absent, Absent, "bright")}

MCNeedles == {{n1}, {n1, n2}}
MCWeighs == [n \in MCNodes |-> 1]
MCChoices == {"json", "svg"}
MCImages == {"svg"}
MCKinds == {"degree"}
=============================================================================
