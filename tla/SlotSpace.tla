----------------------------- MODULE SlotSpace -----------------------------
(***************************************************************************)
(* The requests that move the slot space (session.rs): browse, load, query,*)
(* expand, collapse and reset.  Each walks the source, admits or buries    *)
(* entries on a copy of the view, and ends in finish_slice, which compacts *)
(* a view gone sparse and answers with one slice describing the change.    *)
(*                                                                         *)
(* A refused request leaves the view as it was, so a refusal is a stutter; *)
(* the byte ceilings are refusals nobody counts here.                      *)
(***************************************************************************)
EXTENDS SlotView

CONSTANTS
  MaxLoadedNodes,   \* records::MAX_LOADED_NODES
  MaxLoadedEdges    \* records::MAX_LOADED_EDGES

ASSUME LimitsAssumption ==
  /\ MaxLoadedNodes \in Nat
  /\ MaxLoadedEdges \in Nat

VARIABLES
  view,    \* the session's view
  slice    \* the answer to the last request that changed it

vars == <<view, slice>>

NoCompaction == [old_to_new |-> [s \in {} |-> 0], done |-> FALSE]

Opening ==
  [first_slot |-> 1, nodes |-> {}, tombstones |-> {}, edges |-> EntryScreen.edges,
   slot_count |-> TypeCount, compaction |-> NoCompaction]

Init ==
  /\ view = EntryScreen
  /\ slice = Opening

-----------------------------------------------------------------------------
\* Seeded fault: slot_count is taken before the compaction.
FinishSlice_CountsBefore(changed, added, doomed) ==
  /\ view' = CompactIfSparse(changed)
  /\ slice' =
       [first_slot |-> IF ShouldCompact(changed) THEN 1
                       ELSE Len(changed.entries) - Cardinality(added) + 1,
        nodes      |-> {[slot |-> changed.node_slot[n], node |-> n] : n \in added},
        tombstones |-> doomed,
        edges      |-> view'.edges,
        slot_count |-> Len(changed.entries),
        compaction |-> IF ShouldCompact(changed)
                       THEN [old_to_new |-> OldToNew(changed), done |-> TRUE]
                       ELSE NoCompaction]

(***************************************************************************)
(* finish_slice: `changed` is the view with the request applied and not yet*)
(* compacted; added nodes and tombstones are described in ITS slots, links *)
(* and counts in those of the view that is committed.                      *)
(***************************************************************************)
FinishSlice(changed, added, doomed) ==
  /\ view' = CompactIfSparse(changed)
  /\ slice' =
       [first_slot |-> IF ShouldCompact(changed) THEN 1
                       ELSE Len(changed.entries) - Cardinality(added) + 1,
        nodes      |-> {[slot |-> changed.node_slot[n], node |-> n] : n \in added},
        tombstones |-> doomed,
        edges      |-> view'.edges,
        slot_count |-> Len(view'.entries),
        compaction |-> IF ShouldCompact(changed)
                       THEN [old_to_new |-> OldToNew(changed), done |-> TRUE]
                       ELSE NoCompaction]

Ends(rels) == {Source[r] : r \in rels} \cup {Target[r] : r \in rels}

Within(rels, nodes) == {r \in rels : Source[r] \in nodes /\ Target[r] \in nodes}

\* Every order a request can name the nodes of S in, repetitions dropped.
Orders(S) ==
  {f \in [1..Cardinality(S) -> S] :
     \A i, j \in 1..Cardinality(S) : f[i] = f[j] => i = j}

Admissible(nodes, rels) ==
  /\ Cardinality(Loaded(view) \cup nodes) <= MaxLoadedNodes
  /\ Cardinality(RelationsOf(view) \cup Within(rels, Loaded(view) \cup nodes))
       <= MaxLoadedEdges

(***************************************************************************)
(* absorb: all of the nodes or none; a relationship one of whose ends is   *)
(* not on screen is dropped.                                               *)
(***************************************************************************)
Absorb(nodes, rels) ==
  /\ Admissible(nodes, rels)
  /\ LET fresh == nodes \ Loaded(view)
     IN  \E added \in Orders(fresh) :
           FinishSlice(AddEdges(InternNodes(view, added), rels), fresh, {})

\* A bounded page of the members of one type, without links.
BrowseType ==
  \E t \in Types : \E page \in SUBSET {n \in Nodes : TypeOf[n] = t} :
    Absorb(page, {})

\* Nodes a search or a records table named.
LoadNodes == \E nodes \in SUBSET Nodes : Absorb(nodes, {})

\* Nodes and relationships by handle: both ends of a relationship come along.
LoadEntities ==
  \E nodes \in SUBSET Nodes, rels \in SUBSET Relations :
    Absorb(nodes \cup Ends(rels), rels)

\* A query shown as a graph: its relationships may leave the nodes it returned.
Cypher ==
  \E nodes \in SUBSET Nodes, rels \in SUBSET Relations : Absorb(nodes, rels)

(***************************************************************************)
(* Expand a live slot: seeds and their peers until the bound, and links    *)
(* whose two ends the walk admitted.                                       *)
(***************************************************************************)
Seeds(s) ==
  IF view.entries[s] \in Types
  THEN {n \in Nodes : TypeOf[n] = view.entries[s]}
  ELSE {view.entries[s]}

Incident(seeds) == {r \in Relations : Source[r] \in seeds \/ Target[r] \in seeds}

Expand ==
  \E s \in LiveSlots(view) :
    \E rels \in SUBSET Incident(Seeds(s)) :
      \E nodes \in SUBSET Ends(Incident(Seeds(s))) :
        /\ Ends(rels) \subseteq nodes
        /\ Absorb(nodes, rels)

\* Collapse an instance, every instance of a type, or nothing at a hole.
Collapse ==
  \E s \in Slots(view) :
    LET doomed == CASE view.entries[s] \in Types -> InstancesOf(view, view.entries[s])
                    [] view.entries[s] \in Nodes -> {s}
                    [] OTHER -> {}
    IN  FinishSlice(TombstoneSlots(view, doomed), {}, doomed)

\* Back to the entry screen, in one slice.
Reset == FinishSlice(TombstoneSlots(view, NodeSlots(view)), {}, NodeSlots(view))

Next ==
  \/ BrowseType
  \/ LoadNodes
  \/ LoadEntities
  \/ Cypher
  \/ Expand
  \/ Collapse
  \/ Reset

Spec == Init /\ [][Next]_vars

-----------------------------------------------------------------------------
(* What holds of every view the session commits. *)

\* The records have the shape the code declares.
TypeOK ==
  /\ view \in ViewRecords
  /\ slice.slot_count = Len(view.entries)

(***************************************************************************)
(* Slots, nodes and types find one another: node_slot and type_slot invert *)
(* the entries, the types are still the first slots, and the allocator and *)
(* the tombstone count agree with what is there.  Three structures kept in *)
(* step by hand in intern_node, tombstone and compact (view.rs).           *)
(***************************************************************************)
SlotsAgree ==
  /\ MapsInvertEntries(view)
  /\ TypesLead(view)
  /\ CountsExact(view)

(***************************************************************************)
(* A link on screen joins the two nodes its relationship joins in the      *)
(* graph, and no relationship is drawn twice: through every collapse that  *)
(* drops links and every compaction that renumbers them.                   *)
(***************************************************************************)
LinksFaithful == LinksNameTheirEnds(view)

(***************************************************************************)
(* The loaded view stays within its ceilings and the slot space within a   *)
(* constant factor of them, however often content is loaded and collapsed: *)
(* the reason the 2^24 assertion in SlotAllocator::alloc cannot fire.      *)
(***************************************************************************)
SpaceBounded ==
  /\ Cardinality(Loaded(view)) <= MaxLoadedNodes
  /\ Cardinality(RelationsOf(view)) <= MaxLoadedEdges
  /\ \/ Len(view.entries) < MinSlots
     \/ Len(view.entries) * (RatioDen - RatioNum)
          < (TypeCount + MaxLoadedNodes) * RatioDen

(***************************************************************************)
(* Between compactions a slot is append-only: what it names it names until *)
(* it is a hole, and a hole stays one (view.rs: "a client that still holds *)
(* a reference to slot 42 is never handed a different node").              *)
(***************************************************************************)
SlotKeepsItsEntry ==
  [][~slice'.compaction.done =>
       /\ Len(view'.entries) >= Len(view.entries)
       /\ \A s \in Slots(view) : view'.entries[s] \in {view.entries[s], Tombstone}]_vars
=============================================================================
