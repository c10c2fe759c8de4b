------------------------------ MODULE SlotView ------------------------------
(***************************************************************************)
(* The slot space of one exploration: view.rs, with its allocator slots.rs.*)
(*                                                                         *)
(* A view is a record.  Its entries are a sequence, so slot s of the code  *)
(* is index s + 1 here.  An entry is a type name, a graph node, or a       *)
(* Tombstone.  The two hash maps are functions, NoSlot where the code has  *)
(* no key, and `next` is the allocator's counter.  Links are a set: nothing*)
(* here depends on the order the code keeps them in.                       *)
(***************************************************************************)
EXTENDS Integers, Sequences, FiniteSets

CONSTANTS
  TypeOrder,    \* the types of the meta-graph, in the order it interns them
  Nodes,        \* the instance nodes of the source graph
  TypeOf,       \* the type of every node
  Relations,    \* the relationships of the source graph (edge_id)
  Source,       \* the node each relationship leaves
  Target,       \* the node each relationship enters
  MetaLinks,    \* pairs of positions in TypeOrder the meta-graph joins
  Tombstone,    \* the entry of a collapsed slot
  NoRelation,   \* the edge_id of a meta-graph link: None
  MinSlots,     \* COMPACTION_MIN_SLOTS
  RatioNum,     \* COMPACTION_TOMBSTONE_RATIO, as a fraction
  RatioDen

TypeCount == Len(TypeOrder)
Types == {TypeOrder[i] : i \in 1..TypeCount}

ASSUME TypeOrderAssumption ==
  /\ TypeOrder \in Seq(Types)
  /\ \A i, j \in 1..TypeCount : TypeOrder[i] = TypeOrder[j] => i = j

ASSUME EntriesAssumption ==
  /\ Nodes \cap Types = {}
  /\ Tombstone \notin Nodes \cup Types
  /\ NoRelation \notin Relations

ASSUME GraphAssumption ==
  /\ IsFiniteSet(Nodes)
  /\ IsFiniteSet(Relations)
  /\ TypeOf \in [Nodes -> Types]
  /\ Source \in [Relations -> Nodes]
  /\ Target \in [Relations -> Nodes]
  /\ MetaLinks \subseteq (1..TypeCount) \X (1..TypeCount)

ASSUME RatioAssumption ==
  /\ MinSlots \in Nat \ {0}
  /\ RatioNum \in Nat \ {0}
  /\ RatioDen \in Nat \ {0}
  /\ RatioNum < RatioDen

NoSlot == 0

Entry == Types \cup Nodes \cup {Tombstone}

Link == [id : Relations \cup {NoRelation}, src : Nat, dst : Nat]

-----------------------------------------------------------------------------
(* What is on screen. *)

Slots(v) == 1..Len(v.entries)
LiveSlots(v) == {s \in Slots(v) : v.entries[s] # Tombstone}
NodeSlots(v) == {s \in Slots(v) : v.entries[s] \in Nodes}
Loaded(v) == {n \in Nodes : v.node_slot[n] # NoSlot}
RelationsOf(v) == {l.id : l \in v.edges} \ {NoRelation}

(***************************************************************************)
(* The entry screen of a new session: the type nodes in slots 1..n and the *)
(* meta-graph's links among them.                                          *)
(***************************************************************************)
PositionOf(t) == CHOOSE i \in 1..TypeCount : TypeOrder[i] = t

EntryScreen ==
  [entries    |-> TypeOrder,
   node_slot  |-> [n \in Nodes |-> NoSlot],
   type_slot  |-> [t \in Types |-> PositionOf(t)],
   edges      |-> {[id |-> NoRelation, src |-> p[1], dst |-> p[2]] : p \in MetaLinks},
   tombstones |-> 0,
   next       |-> TypeCount + 1]

-----------------------------------------------------------------------------
(* The operations. *)

IndexIn(seq, x) == CHOOSE i \in 1..Len(seq) : seq[i] = x

\* Seeded fault: the first node of a batch takes the last hole, if there is one.
InternNodes_ReusesHole(v, added) ==
  LET holes == Slots(v) \ LiveSlots(v)
      last == CHOOSE s \in holes : \A t \in holes : s >= t
      reuse == holes # {} /\ added # <<>>
      entries == IF reuse
                 THEN [v.entries EXCEPT ![last] = added[1]] \o Tail(added)
                 ELSE v.entries \o added
      fresh == {added[i] : i \in 1..Len(added)}
  IN  [v EXCEPT !.entries = entries,
                !.node_slot = [n \in Nodes |->
                                 IF n \in fresh THEN IndexIn(entries, n) ELSE @[n]],
                !.tombstones = IF reuse THEN @ - 1 ELSE @,
                !.next = Len(entries) + 1]

(***************************************************************************)
(* Intern a sequence of nodes, each absent from the view: one slot each,   *)
(* in order, from the allocator.                                           *)
(***************************************************************************)
InternNodes(v, added) ==
  LET fresh == {added[i] : i \in 1..Len(added)}
  IN  [v EXCEPT !.entries = @ \o added,
                !.node_slot = [n \in Nodes |->
                                 IF n \in fresh THEN v.next + IndexIn(added, n) - 1
                                 ELSE @[n]],
                !.next = @ + Len(added)]

(***************************************************************************)
(* Link every named relationship whose two ends are in the view, skipping  *)
(* one already drawn.  The ends are resolved through node_slot.            *)
(***************************************************************************)
Resolvable(v, rels) ==
  {r \in rels : Source[r] \in Loaded(v) /\ Target[r] \in Loaded(v)}

LinkOf(v, r) ==
  [id |-> r, src |-> v.node_slot[Source[r]], dst |-> v.node_slot[Target[r]]]

AddEdges(v, rels) ==
  [v EXCEPT !.edges =
     @ \cup {LinkOf(v, r) : r \in Resolvable(v, rels) \ RelationsOf(v)}]

\* Seeded fault: only the links that leave a buried slot are dropped.
TombstoneSlots_KeepsIncoming(v, doomed) ==
  LET hit == doomed \cap NodeSlots(v)
  IN  [v EXCEPT !.entries = [s \in Slots(v) |->
                               IF s \in hit THEN Tombstone ELSE v.entries[s]],
                !.node_slot = [n \in Nodes |->
                                 IF \E s \in hit : v.entries[s] = n THEN NoSlot
                                 ELSE @[n]],
                !.edges = {l \in @ : l.src \notin hit},
                !.tombstones = @ + Cardinality(hit)]

(***************************************************************************)
(* Tombstone the instance slots among `doomed`; type slots, holes and      *)
(* indices past the end are left alone.  Incident links go with them.      *)
(***************************************************************************)
TombstoneSlots(v, doomed) ==
  LET hit == doomed \cap NodeSlots(v)
  IN  [v EXCEPT !.entries = [s \in Slots(v) |->
                               IF s \in hit THEN Tombstone ELSE v.entries[s]],
                !.node_slot = [n \in Nodes |->
                                 IF \E s \in hit : v.entries[s] = n THEN NoSlot
                                 ELSE @[n]],
                !.edges = {l \in @ : l.src \notin hit /\ l.dst \notin hit},
                !.tombstones = @ + Cardinality(hit)]

InstancesOf(v, t) == {s \in NodeSlots(v) : TypeOf[v.entries[s]] = t}

-----------------------------------------------------------------------------
(* Compaction. *)

\* Seeded fault: the ratio is taken over the live slots, not over all of them.
ShouldCompact_OfLive(v) ==
  /\ Len(v.entries) >= MinSlots
  /\ v.tombstones * RatioNum >= Cardinality(LiveSlots(v)) * RatioDen

ShouldCompact(v) ==
  /\ Len(v.entries) >= MinSlots
  /\ v.tombstones * RatioDen >= Len(v.entries) * RatioNum

\* old_to_new: how many live slots there are up to and including this one.
UpTo(v, s) == {t \in LiveSlots(v) : t <= s}
NewSlot(v, s) == Cardinality(UpTo(v, s))

OldToNew(v) == [s \in LiveSlots(v) |-> NewSlot(v, s)]

Kept(v) ==
  [i \in 1..Cardinality(LiveSlots(v)) |->
     v.entries[CHOOSE s \in LiveSlots(v) : NewSlot(v, s) = i]]

\* Seeded fault: the maps are not rebuilt from the kept entries.
Compact_StaleMaps(v) ==
  [v EXCEPT !.entries = Kept(v),
            !.edges = {[l EXCEPT !.src = NewSlot(v, @), !.dst = NewSlot(v, @)]
                         : l \in @},
            !.tombstones = 0,
            !.next = Cardinality(LiveSlots(v)) + 1]

Compact(v) ==
  LET kept == Kept(v)
      at(x) == IF \E i \in 1..Len(kept) : kept[i] = x THEN IndexIn(kept, x)
               ELSE NoSlot
  IN  [entries    |-> kept,
       node_slot  |-> [n \in Nodes |-> at(n)],
       type_slot  |-> [t \in Types |-> at(t)],
       edges      |-> {[l EXCEPT !.src = NewSlot(v, @), !.dst = NewSlot(v, @)]
                         : l \in v.edges},
       tombstones |-> 0,
       next       |-> Len(kept) + 1]

CompactIfSparse(v) == IF ShouldCompact(v) THEN Compact(v) ELSE v

-----------------------------------------------------------------------------
(***************************************************************************)
(* What every view the session commits must satisfy.                       *)
(***************************************************************************)
ViewRecords ==
  [entries    : Seq(Entry),
   node_slot  : [Nodes -> Nat],
   type_slot  : [Types -> Nat],
   edges      : SUBSET Link,
   tombstones : Nat,
   next       : Nat]

\* The maps invert the entries: a slot is found by what is in it, and only so.
MapsInvertEntries(v) ==
  /\ \A s \in NodeSlots(v) : v.node_slot[v.entries[s]] = s
  /\ \A n \in Loaded(v) : v.node_slot[n] \in Slots(v) /\ v.entries[v.node_slot[n]] = n

\* The type nodes are the fixed prefix, whatever was loaded, collapsed or compacted.
TypesLead(v) ==
  /\ Len(v.entries) >= TypeCount
  /\ \A s \in Slots(v) : v.entries[s] \in Types <=> s <= TypeCount
  /\ \A i \in 1..TypeCount : v.entries[i] = TypeOrder[i]
  /\ v.type_slot = [t \in Types |-> PositionOf(t)]

\* The counters describe the entries.
CountsExact(v) ==
  /\ v.next = Len(v.entries) + 1
  /\ v.tombstones = Cardinality(Slots(v) \ LiveSlots(v))

\* A link carries its relationship's own end nodes, and no relationship is drawn twice.
LinksNameTheirEnds(v) ==
  /\ \A l \in v.edges :
       IF l.id = NoRelation
       THEN <<l.src, l.dst>> \in MetaLinks
       ELSE /\ l.src \in NodeSlots(v) /\ v.entries[l.src] = Source[l.id]
            /\ l.dst \in NodeSlots(v) /\ v.entries[l.dst] = Target[l.id]
  /\ \A l, m \in v.edges : l.id = m.id /\ l.id # NoRelation => l = m

Coherent(v) ==
  /\ MapsInvertEntries(v)
  /\ TypesLead(v)
  /\ CountsExact(v)
  /\ LinksNameTheirEnds(v)
=============================================================================
