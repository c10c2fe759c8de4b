-------------------------- MODULE SlotSpace_proofs --------------------------
(***************************************************************************)
(* SlotSpace's invariants for every source graph and every limit, and a    *)
(* client's copy of the slot space.                                        *)
(*                                                                         *)
(* IInv says that the committed view is a coherent one within its limits   *)
(* and not sparse enough to compact.  One lemma per operation of SlotView  *)
(* shows that it takes coherent views to coherent views; compaction is the *)
(* hard one, and rests on NewSlot being an increasing enumeration of the   *)
(* live slots.                                                             *)
(*                                                                         *)
(* Of the client: having applied what is on its way, it holds exactly the  *)
(* session's view.  The invariant remembers the views the client lags      *)
(* behind by: it holds the screen of the first, each slice on the wire     *)
(* takes the screen of one to that of the next, and the last is the        *)
(* session's.  That a slice takes the old screen to the new one is the     *)
(* heart of the matter; it needs the coherence of both views, since slices *)
(* name slots and the client indexes nodes, and of a compaction the order  *)
(* of names and remap.                                                     *)
(***************************************************************************)
EXTENDS SlotMirror, FiniteSetTheorems, SequenceTheorems, WellFoundedInduction, TLAPS

-----------------------------------------------------------------------------
(* Sequences and counts. *)

\* What is said of every number is said of no least exception.
LEMMA LeastOf ==
  ASSUME NEW P \in SUBSET Nat, P # {}
  PROVE  \E n \in P : \A m \in P : n <= m
<1> DEFINE R == {ss \in Nat \X Nat : ss[1] < ss[2]}
<1>1. IsWellFoundedOn(R, Nat)
  BY NatLessThanWellFounded DEF OpToRel
<1>2. \A m, n \in Nat : <<m, n>> \notin R => n <= m
  OBVIOUS
<1> HIDE DEF R
<1>3. PICK n \in P : \A m \in P : <<m, n>> \notin R
  BY <1>1, WFMin
<1>4. \A m \in P : n <= m
  BY <1>2, <1>3
<1> QED
  BY <1>4

LEMMA FunctionIsSeq ==
  ASSUME NEW S, NEW n \in Nat, NEW f \in [1..n -> S]
  PROVE  f \in Seq(S) /\ Len(f) = n
<1>1. f \in Seq(S)
  BY SeqDef
<1>2. DOMAIN f = 1..Len(f) /\ Len(f) \in Nat /\ DOMAIN f = 1..n
  BY <1>1, LenProperties
<1> QED
  BY <1>1, <1>2

LEMMA TypeFacts ==
  /\ TypeCount \in Nat
  /\ TypeOrder \in Seq(Types)
  /\ \A t \in Types : PositionOf(t) \in 1..TypeCount /\ TypeOrder[PositionOf(t)] = t
  /\ \A i \in 1..TypeCount : TypeOrder[i] \in Types /\ PositionOf(TypeOrder[i]) = i
<1>1. TypeCount \in Nat /\ TypeOrder \in Seq(Types)
  BY TypeOrderAssumption, LenProperties DEF TypeCount
<1> QED
  BY <1>1, TypeOrderAssumption DEF Types, PositionOf

LEMMA ViewFacts ==
  ASSUME NEW v \in ViewRecords
  PROVE  /\ v.entries \in Seq(Entry)
         /\ Len(v.entries) \in Nat
         /\ v.entries \in [Slots(v) -> Entry]
         /\ v.node_slot \in [Nodes -> Nat]
         /\ v.type_slot \in [Types -> Nat]
         /\ v.edges \subseteq Link
         /\ v.tombstones \in Nat
         /\ v.next \in Nat
         /\ LiveSlots(v) \subseteq Slots(v)
         /\ NodeSlots(v) \subseteq LiveSlots(v)
         /\ Slots(v) \subseteq Nat \ {0}
         /\ Loaded(v) \subseteq Nodes
         /\ IsFiniteSet(Slots(v))
         /\ IsFiniteSet(LiveSlots(v))
         /\ IsFiniteSet(NodeSlots(v))
         /\ IsFiniteSet(Loaded(v))
<1>1. /\ v.entries \in Seq(Entry) /\ v.edges \subseteq Link /\ v.tombstones \in Nat
      /\ v.next \in Nat /\ v.node_slot \in [Nodes -> Nat]
      /\ v.type_slot \in [Types -> Nat]
  BY DEF ViewRecords
<1>2. Len(v.entries) \in Nat /\ v.entries \in [Slots(v) -> Entry]
  BY <1>1, LenProperties DEF Slots
<1>3. Loaded(v) \subseteq Nodes
  BY DEF Loaded
<1>4. LiveSlots(v) \subseteq Slots(v) /\ NodeSlots(v) \subseteq LiveSlots(v)
  BY EntriesAssumption DEF LiveSlots, NodeSlots
<1>5. IsFiniteSet(Slots(v)) /\ Slots(v) \subseteq Nat \ {0}
  <2>1. \A b \in Nat : IsFiniteSet(1..b)
    BY FS_Interval
  <2> QED
    BY <1>2, <2>1 DEF Slots
<1>6. IsFiniteSet(LiveSlots(v)) /\ IsFiniteSet(NodeSlots(v))
  BY <1>4, <1>5, FS_Subset
<1>7. IsFiniteSet(Loaded(v))
  BY <1>3, GraphAssumption, FS_Subset
<1> QED
  BY <1>1, <1>2, <1>3, <1>4, <1>5, <1>6, <1>7

(***************************************************************************)
(* The entry screen of a new session is a coherent view.                   *)
(***************************************************************************)
LEMMA EntryScreenCoherent ==
  EntryScreen \in ViewRecords /\ Coherent(EntryScreen)
<1> DEFINE v == EntryScreen
<1>1. /\ v.entries = TypeOrder /\ v.node_slot = [n \in Nodes |-> NoSlot]
      /\ v.type_slot = [t \in Types |-> PositionOf(t)]
      /\ v.edges = {[id |-> NoRelation, src |-> p[1], dst |-> p[2]] : p \in MetaLinks}
      /\ v.tombstones = 0 /\ v.next = TypeCount + 1
  BY DEF EntryScreen
<1>2. TypeOrder \in Seq(Entry)
  BY TypeFacts, SeqMonotonic DEF Entry
<1>3. v.edges \subseteq Link
  BY <1>1, GraphAssumption, TypeFacts DEF Link
<1>4. v \in ViewRecords
  BY <1>2, <1>3, TypeFacts DEF ViewRecords, EntryScreen, NoSlot
<1>5. Slots(v) = 1..TypeCount /\ NodeSlots(v) = {} /\ LiveSlots(v) = Slots(v)
  BY <1>1, TypeFacts, EntriesAssumption DEF Slots, NodeSlots, LiveSlots, TypeCount
<1>6. MapsInvertEntries(v)
  BY <1>1, <1>5 DEF MapsInvertEntries, Loaded
<1>7. TypesLead(v)
  BY <1>1, <1>5, TypeFacts DEF TypesLead, TypeCount
<1>8. CountsExact(v)
  BY <1>1, <1>5, FS_EmptySet DEF CountsExact, TypeCount
<1>9. LinksNameTheirEnds(v)
  BY <1>1, GraphAssumption DEF LinksNameTheirEnds
<1> QED
  BY <1>4, <1>6, <1>7, <1>8, <1>9 DEF Coherent

(***************************************************************************)
(* What InternNodes changes, field by field: the entries past the end, and *)
(* node_slot at the new nodes.  L and k are the lengths of the sequences.  *)
(***************************************************************************)
Interned(v, w, S, added, L, k) ==
  /\ L \in Nat /\ k \in Nat /\ added \in [1..k -> S]
  /\ \A n \in S : \E i \in 1..k : added[i] = n
  /\ Len(v.entries) = L /\ Len(w.entries) = L + k
  /\ Slots(v) = 1..L /\ Slots(w) = 1..(L + k)
  /\ w.type_slot = v.type_slot /\ w.edges = v.edges
  /\ w.tombstones = v.tombstones /\ w.next = Len(w.entries) + 1
  /\ \A s \in 1..L : w.entries[s] = v.entries[s]
  /\ \A i \in 1..k : w.entries[L + i] = added[i] /\ w.node_slot[added[i]] = L + i
  /\ \A n \in Nodes : (\A i \in 1..k : added[i] # n) =>
                        w.node_slot[n] = v.node_slot[n]

LEMMA InternNodesFields ==
  ASSUME NEW v \in ViewRecords, v.next = Len(v.entries) + 1,
         NEW S \in SUBSET Nodes, NEW added \in Orders(S),
         \A n \in S : \E i \in 1..Len(added) : added[i] = n,
         NEW w, w = InternNodes(v, added)
  PROVE  /\ w \in ViewRecords
         /\ Interned(v, w, S, added, Len(v.entries), Len(added))
<1>1. Len(v.entries) \in Nat
  BY ViewFacts
<1>2. /\ added \in Seq(S) /\ Len(added) \in Nat /\ added \in [1..Len(added) -> S]
      /\ \A i, j \in 1..Len(added) : added[i] = added[j] => i = j
  <2>1. IsFiniteSet(S) /\ Cardinality(S) \in Nat
    BY GraphAssumption, FS_Subset, FS_CardinalityType
  <2> QED
    BY <2>1, FunctionIsSeq DEF Orders
<1>3. added \in Seq(Entry)
  BY <1>2, SeqMonotonic DEF Entry
<1>4. /\ w.entries = v.entries \o added
      /\ w.node_slot = [n \in Nodes |->
                          IF n \in {added[i] : i \in 1..Len(added)}
                          THEN v.next + IndexIn(added, n) - 1 ELSE v.node_slot[n]]
      /\ w.type_slot = v.type_slot /\ w.edges = v.edges
      /\ w.tombstones = v.tombstones /\ w.next = v.next + Len(added)
  BY ViewFacts DEF InternNodes, ViewRecords
<1>5. /\ w.entries \in Seq(Entry) /\ Len(w.entries) = Len(v.entries) + Len(added)
      /\ \A i \in 1..(Len(v.entries) + Len(added)) :
           w.entries[i] = IF i <= Len(v.entries) THEN v.entries[i]
                          ELSE added[i - Len(v.entries)]
  BY <1>3, <1>4, ViewFacts, ConcatProperties
<1>6. \A i \in 1..Len(added) : IndexIn(added, added[i]) = i
  BY <1>2 DEF IndexIn
<1>7. \A i \in 1..Len(added) : w.node_slot[added[i]] = Len(v.entries) + i
  BY <1>1, <1>2, <1>4, <1>6, SMTT(60)
<1>8. \A n \in Nodes : (\A i \in 1..Len(added) : added[i] # n) =>
                         w.node_slot[n] = v.node_slot[n]
  BY <1>4
<1>9. w.node_slot \in [Nodes -> Nat]
  <2>1. \A n \in Nodes : w.node_slot[n] \in Nat
    <3> TAKE n \in Nodes
    <3>1. CASE \E i \in 1..Len(added) : added[i] = n
      BY <3>1, <1>1, <1>2, <1>7
    <3>2. CASE \A i \in 1..Len(added) : added[i] # n
      BY <3>2, <1>8, ViewFacts
    <3> QED
      BY <3>1, <3>2
  <2> QED
    BY <2>1, <1>4
<1>10. w \in ViewRecords
  <2>1. w = [entries |-> w.entries, node_slot |-> w.node_slot, type_slot |-> w.type_slot,
             edges |-> w.edges, tombstones |-> w.tombstones, next |-> w.next]
    BY DEF ViewRecords, InternNodes
  <2>2. w.next \in Nat
    BY <1>1, <1>2, <1>4
  <2> QED
    BY <2>1, <2>2, <1>4, <1>5, <1>9, ViewFacts DEF ViewRecords
<1>11. \A s \in 1..Len(v.entries) : w.entries[s] = v.entries[s]
  BY <1>1, <1>2, <1>5, SMTT(60)
<1>12. \A i \in 1..Len(added) : w.entries[Len(v.entries) + i] = added[i]
  <2> TAKE i \in 1..Len(added)
  <2>1. /\ Len(v.entries) + i \in 1..(Len(v.entries) + Len(added))
        /\ ~(Len(v.entries) + i <= Len(v.entries))
        /\ Len(v.entries) + i - Len(v.entries) = i
    BY <1>1, <1>2
  <2> QED
    BY <2>1, <1>5, SMTT(60)
<1>13. w.next = Len(w.entries) + 1
  BY <1>1, <1>2, <1>4, <1>5
<1>14. Slots(v) = 1..Len(v.entries) /\ Slots(w) = 1..(Len(v.entries) + Len(added))
  BY <1>5 DEF Slots
<1> QED
  BY <1>1, <1>2, <1>4, <1>5, <1>7, <1>8, <1>10, <1>11, <1>12, <1>13, <1>14 DEF Interned

(***************************************************************************)
(* Interning nodes none of which is on screen keeps the view coherent, and *)
(* loads exactly them.                                                     *)
(***************************************************************************)
LEMMA InternedSlots ==
  ASSUME NEW v, NEW w, NEW S \in SUBSET Nodes, NEW added, NEW L, NEW k,
         Interned(v, w, S, added, L, k)
  PROVE  /\ \A s \in 1..L : s \in Slots(w) /\ (s \in NodeSlots(w) <=> s \in NodeSlots(v))
         /\ \A i \in 1..k : L + i \in NodeSlots(w) /\ L + i \notin 1..L
         /\ \A s \in Slots(w) : s \in 1..L \/ \E i \in 1..k : s = L + i
         /\ Slots(w) \ LiveSlots(w) = Slots(v) \ LiveSlots(v)
<1>1. L \in Nat /\ k \in Nat /\ Slots(v) = 1..L /\ Slots(w) = 1..(L + k)
  BY DEF Interned
<1>2. \A s \in Slots(w) : s \in 1..L \/ \E i \in 1..k : s = L + i
  <2>1. \A s \in 1..(L + k) : s \notin 1..L => s - L \in 1..k /\ s = L + (s - L)
    BY <1>1
  <2> QED
    BY <1>1, <2>1
<1>3. \A i \in 1..k : L + i \in Slots(w) /\ L + i \notin 1..L
  BY <1>1
<1>4. \A s \in 1..L : s \in Slots(w) /\ w.entries[s] = v.entries[s]
  BY <1>1 DEF Interned
<1>5. \A s \in 1..L : s \in NodeSlots(w) <=> s \in NodeSlots(v)
  BY <1>1, <1>4 DEF NodeSlots
<1>6. \A i \in 1..k : w.entries[L + i] \in Nodes
  <2>1. added \in [1..k -> S] /\ \A i \in 1..k : w.entries[L + i] = added[i]
    BY Zenon DEF Interned
  <2> QED
    BY <2>1
<1>7. \A i \in 1..k : L + i \in NodeSlots(w) /\ L + i \in LiveSlots(w)
  BY <1>3, <1>6, EntriesAssumption DEF NodeSlots, LiveSlots
<1>8. \A s \in 1..L : s \in LiveSlots(w) <=> s \in LiveSlots(v)
  BY <1>1, <1>4 DEF LiveSlots
<1>9. ASSUME NEW s
      PROVE  s \in Slots(w) \ LiveSlots(w) <=> s \in Slots(v) \ LiveSlots(v)
  <2>1. CASE s \in 1..L
    BY <2>1, <1>1, <1>4, <1>8
  <2>2. CASE s \notin 1..L
    BY <2>2, <1>1, <1>2, <1>7
  <2> QED
    BY <2>1, <2>2
<1> QED
  BY <1>2, <1>3, <1>4, <1>5, <1>7, <1>9

LEMMA InternedLoaded ==
  ASSUME NEW v, NEW w, NEW S \in SUBSET Nodes, NEW added, NEW L, NEW k,
         Interned(v, w, S, added, L, k)
  PROVE  Loaded(w) = Loaded(v) \cup S
<1>1. \A i \in 1..k : L + i # 0
  BY DEF Interned
<1>2. \A n \in S : w.node_slot[n] # 0
  BY <1>1 DEF Interned
<1>3. \A n \in Nodes \ S : w.node_slot[n] = v.node_slot[n]
  BY DEF Interned
<1> QED
  BY <1>2, <1>3 DEF Loaded, NoSlot

LEMMA InternedMaps ==
  ASSUME NEW v, NEW w, NEW S \in SUBSET Nodes, NEW added, NEW L, NEW k,
         Interned(v, w, S, added, L, k),
         S \cap Loaded(v) = {}, MapsInvertEntries(v)
  PROVE  MapsInvertEntries(w)
<1>0. /\ \A s \in 1..L : s \in Slots(w) /\ (s \in NodeSlots(w) <=> s \in NodeSlots(v))
      /\ \A i \in 1..k : L + i \in NodeSlots(w) /\ L + i \notin 1..L
      /\ \A s \in Slots(w) : s \in 1..L \/ \E i \in 1..k : s = L + i
      /\ Slots(w) \ LiveSlots(w) = Slots(v) \ LiveSlots(v)
  BY InternedSlots, Zenon
<1>1. /\ \A s \in 1..L : s \in Slots(w) /\ (s \in NodeSlots(w) <=> s \in NodeSlots(v))
      /\ \A i \in 1..k : L + i \in NodeSlots(w)
      /\ \A s \in Slots(w) : s \in 1..L \/ \E i \in 1..k : s = L + i
      /\ Loaded(w) = Loaded(v) \cup S
  BY <1>0, InternedLoaded, Zenon
<1>2. /\ \A s \in 1..L : w.entries[s] = v.entries[s]
      /\ \A i \in 1..k : w.entries[L + i] = added[i] /\ w.node_slot[added[i]] = L + i
      /\ \A n \in Nodes \ S : w.node_slot[n] = v.node_slot[n]
      /\ \A n \in S : \E i \in 1..k : added[i] = n
      /\ Slots(v) = 1..L
  BY DEF Interned
<1>3. \A s \in NodeSlots(w) : w.node_slot[w.entries[s]] = s
  <2> TAKE s \in NodeSlots(w)
  <2>1. CASE s \in 1..L
    <3>1. s \in NodeSlots(v) /\ w.entries[s] = v.entries[s] /\ s # 0
      BY <2>1, <1>1, <1>2
    <3>2. v.entries[s] \in Nodes /\ v.node_slot[v.entries[s]] = s
      BY <3>1 DEF MapsInvertEntries, NodeSlots
    <3>3. v.entries[s] \in Loaded(v)
      BY <3>1, <3>2 DEF Loaded, NoSlot
    <3>4. w.node_slot[v.entries[s]] = v.node_slot[v.entries[s]]
      BY <3>2, <3>3, <1>2
    <3> QED
      BY <3>1, <3>2, <3>4
  <2>2. CASE \E i \in 1..k : s = L + i
    BY <2>2, <1>2
  <2>3. s \in Slots(w)
    BY DEF NodeSlots
  <2> QED
    BY <2>1, <2>2, <2>3, <1>1
<1>4. ASSUME NEW n \in Loaded(v)
      PROVE  w.node_slot[n] \in Slots(w) /\ w.entries[w.node_slot[n]] = n
  <2>1. v.node_slot[n] \in 1..L /\ v.entries[v.node_slot[n]] = n
    BY <1>2 DEF MapsInvertEntries
  <2>2. w.node_slot[n] = v.node_slot[n]
    BY <1>2 DEF Loaded
  <2> QED
    BY <2>1, <2>2, <1>1, <1>2
<1>5. ASSUME NEW n \in S
      PROVE  w.node_slot[n] \in Slots(w) /\ w.entries[w.node_slot[n]] = n
  <2>1. PICK i \in 1..k : added[i] = n
    BY <1>2
  <2>2. L + i \in Slots(w)
    BY <1>1 DEF NodeSlots
  <2> QED
    BY <2>1, <2>2, <1>2
<1> QED
  BY <1>1, <1>3, <1>4, <1>5 DEF MapsInvertEntries

LEMMA InternedTypes ==
  ASSUME NEW v, NEW w, NEW S \in SUBSET Nodes, NEW added, NEW L, NEW k,
         Interned(v, w, S, added, L, k), TypesLead(v)
  PROVE  TypesLead(w)
<1>1. /\ TypeCount \in Nat /\ L >= TypeCount /\ L \in Nat /\ k \in Nat
      /\ Slots(v) = 1..L /\ Len(w.entries) = L + k
      /\ w.type_slot = v.type_slot
  BY TypeFacts DEF TypesLead, Interned
<1>2. \A s \in 1..L : w.entries[s] = v.entries[s]
  BY DEF Interned
<1>3. \A s \in 1..L : w.entries[s] \in Types <=> s <= TypeCount
  BY <1>1, <1>2 DEF TypesLead
<1>4. \A i \in 1..k : w.entries[L + i] \notin Types
  <2>1. \A i \in 1..k : w.entries[L + i] = added[i]
    BY Zenon DEF Interned
  <2>2. added \in [1..k -> S]
    BY Zenon DEF Interned
  <2> QED
    BY <2>1, <2>2, EntriesAssumption
<1>5. \A i \in 1..k : ~(L + i <= TypeCount)
  BY <1>1
<1>6. /\ \A s \in 1..L : s \in Slots(w) /\ (s \in NodeSlots(w) <=> s \in NodeSlots(v))
      /\ \A i \in 1..k : L + i \in NodeSlots(w) /\ L + i \notin 1..L
      /\ \A s \in Slots(w) : s \in 1..L \/ \E i \in 1..k : s = L + i
      /\ Slots(w) \ LiveSlots(w) = Slots(v) \ LiveSlots(v)
  BY InternedSlots, Zenon
<1>7. \A s \in Slots(w) : w.entries[s] \in Types <=> s <= TypeCount
  BY <1>3, <1>4, <1>5, <1>6
<1>8. \A i \in 1..TypeCount : i \in 1..L
  BY <1>1
<1>9. \A i \in 1..TypeCount : w.entries[i] = TypeOrder[i]
  BY <1>2, <1>8 DEF TypesLead
<1>10. Len(w.entries) >= TypeCount
  BY <1>1
<1> QED
  BY <1>1, <1>7, <1>9, <1>10 DEF TypesLead

LEMMA InternNodesCoherent ==
  ASSUME NEW v \in ViewRecords, Coherent(v),
         NEW S \in SUBSET Nodes, S \cap Loaded(v) = {}, NEW added \in Orders(S),
         \A n \in S : \E i \in 1..Len(added) : added[i] = n,
         NEW w, w = InternNodes(v, added)
  PROVE  /\ w \in ViewRecords
         /\ Coherent(w)
         /\ Loaded(w) = Loaded(v) \cup S
         /\ w.edges = v.edges
<1>1. v.next = Len(v.entries) + 1
  BY DEF Coherent, CountsExact
<1>2. w \in ViewRecords /\ Interned(v, w, S, added, Len(v.entries), Len(added))
  BY <1>1, InternNodesFields
<1>3. PICK L, k : Interned(v, w, S, added, L, k)
  BY <1>2
<1>4. Loaded(w) = Loaded(v) \cup S
  BY <1>3, InternedLoaded
<1>5. MapsInvertEntries(w)
  BY <1>3, InternedMaps DEF Coherent
<1>6. TypesLead(w)
  BY <1>3, InternedTypes DEF Coherent
<1>7. CountsExact(w)
  <2>1. Slots(w) \ LiveSlots(w) = Slots(v) \ LiveSlots(v)
    BY <1>3, InternedSlots
  <2> QED
    BY <1>3, <2>1 DEF CountsExact, Coherent, Interned
<1>8. LinksNameTheirEnds(w)
  <2>1. \A s \in NodeSlots(v) : s \in 1..L
    BY <1>3 DEF Interned, NodeSlots
  <2>2. \A s \in NodeSlots(v) : s \in NodeSlots(w) /\ w.entries[s] = v.entries[s]
    <3>1. \A s \in 1..L : s \in NodeSlots(w) <=> s \in NodeSlots(v)
      BY <1>3, InternedSlots, Zenon
    <3>2. \A s \in 1..L : w.entries[s] = v.entries[s]
      BY <1>3, Zenon DEF Interned
    <3> QED
      BY <2>1, <3>1, <3>2
  <2>3. w.edges = v.edges
    BY <1>3 DEF Interned
  <2> QED
    BY <2>2, <2>3 DEF LinksNameTheirEnds, Coherent
<1> QED
  BY <1>2, <1>3, <1>4, <1>5, <1>6, <1>7, <1>8 DEF Coherent, Interned
(***************************************************************************)
(* Linking relationships draws each of them once, between its own ends.    *)
(***************************************************************************)
LEMMA SameEntries ==
  ASSUME NEW v, NEW w, w.entries = v.entries, w.node_slot = v.node_slot
  PROVE  /\ Slots(w) = Slots(v) /\ LiveSlots(w) = LiveSlots(v)
         /\ NodeSlots(w) = NodeSlots(v) /\ Loaded(w) = Loaded(v)
         /\ MapsInvertEntries(v) => MapsInvertEntries(w)
BY DEF Slots, LiveSlots, NodeSlots, Loaded, MapsInvertEntries

LEMMA AddEdgesCoherent ==
  ASSUME NEW v \in ViewRecords, Coherent(v), NEW rels \in SUBSET Relations,
         NEW w, w = AddEdges(v, rels)
  PROVE  /\ w \in ViewRecords
         /\ Coherent(w)
         /\ Loaded(w) = Loaded(v) /\ NodeSlots(w) = NodeSlots(v)
         /\ w.entries = v.entries
         /\ RelationsOf(w) = RelationsOf(v) \cup Resolvable(v, rels)
<1> DEFINE drawn == Resolvable(v, rels) \ RelationsOf(v)
<1>1. /\ w.entries = v.entries /\ w.node_slot = v.node_slot
      /\ w.type_slot = v.type_slot /\ w.tombstones = v.tombstones
      /\ w.next = v.next
      /\ w.edges = v.edges \cup {LinkOf(v, r) : r \in drawn}
  BY DEF AddEdges, ViewRecords
<1>2. /\ Slots(w) = Slots(v) /\ LiveSlots(w) = LiveSlots(v)
      /\ NodeSlots(w) = NodeSlots(v) /\ Loaded(w) = Loaded(v)
      /\ MapsInvertEntries(w)
  BY <1>1, SameEntries DEF Coherent
<1>3. ASSUME NEW r \in drawn
      PROVE  /\ r \in Relations /\ r \notin RelationsOf(v) /\ r # NoRelation
             /\ Source[r] \in Loaded(v) /\ Target[r] \in Loaded(v)
  BY EntriesAssumption DEF Resolvable
<1>4. ASSUME NEW r \in drawn, NEW l, l = LinkOf(v, r)
      PROVE  /\ l.id = r /\ l.src \in Slots(v) /\ l.dst \in Slots(v)
             /\ v.entries[l.src] = Source[r] /\ v.entries[l.dst] = Target[r]
  BY <1>3, <1>4 DEF LinkOf, Coherent, MapsInvertEntries
<1>5. ASSUME NEW r \in drawn, NEW l, l = LinkOf(v, r)
      PROVE  l.src \in NodeSlots(v) /\ l.dst \in NodeSlots(v)
  BY <1>3, <1>4, <1>5 DEF NodeSlots, Loaded
<1>6. w \in ViewRecords
  <2>1. \A r \in drawn : LinkOf(v, r) \in Link
    BY <1>3, ViewFacts DEF LinkOf, Link, Loaded
  <2>2. w.edges \subseteq Link
    BY <1>1, <2>1, ViewFacts
  <2>3. w = [entries |-> w.entries, node_slot |-> w.node_slot, type_slot |-> w.type_slot,
             edges |-> w.edges, tombstones |-> w.tombstones, next |-> w.next]
    BY DEF ViewRecords, AddEdges
  <2> QED
    BY <1>1, <2>2, <2>3, ViewFacts DEF ViewRecords
<1>7. TypesLead(w)
  BY <1>1, <1>2 DEF TypesLead, Coherent
<1>8. CountsExact(w)
  BY <1>1, <1>2 DEF CountsExact, Coherent
<1>9. LinksNameTheirEnds(w)
  <2>1. ASSUME NEW l \in w.edges
        PROVE  l \in v.edges \/ \E r \in drawn : l = LinkOf(v, r)
    BY <1>1
  <2>2. ASSUME NEW l \in v.edges, l.id # NoRelation
        PROVE  l.id \in RelationsOf(v)
    BY <2>2 DEF RelationsOf
  <2>3. ASSUME NEW l \in w.edges
        PROVE  IF l.id = NoRelation
               THEN <<l.src, l.dst>> \in MetaLinks
               ELSE /\ l.src \in NodeSlots(w) /\ w.entries[l.src] = Source[l.id]
                    /\ l.dst \in NodeSlots(w) /\ w.entries[l.dst] = Target[l.id]
    <3>1. CASE l \in v.edges
      BY <3>1, <1>1, <1>2 DEF Coherent, LinksNameTheirEnds
    <3>2. CASE \E r \in drawn : l = LinkOf(v, r)
      <4>1. PICK r \in drawn : l = LinkOf(v, r)
        BY <3>2
      <4>2. l.id = r /\ v.entries[l.src] = Source[r] /\ v.entries[l.dst] = Target[r]
        BY <4>1, <1>4
      <4>3. l.src \in NodeSlots(v) /\ l.dst \in NodeSlots(v) /\ r # NoRelation
        BY <4>1, <1>3, <1>5
      <4> QED
        BY <4>2, <4>3, <1>1, <1>2
    <3> QED
      BY <2>1, <3>1, <3>2
  <2>4. ASSUME NEW l \in w.edges, NEW m \in w.edges, l.id = m.id, l.id # NoRelation
        PROVE  l = m
    <3>1. CASE l \in v.edges /\ m \in v.edges
      BY <3>1, <2>4 DEF Coherent, LinksNameTheirEnds
    <3>2. CASE l \in v.edges /\ \E r \in drawn : m = LinkOf(v, r)
      BY <3>2, <2>2, <2>4, <1>3, <1>4
    <3>3. CASE m \in v.edges /\ \E r \in drawn : l = LinkOf(v, r)
      BY <3>3, <2>2, <2>4, <1>3, <1>4
    <3>4. CASE (\E r \in drawn : l = LinkOf(v, r)) /\ (\E r \in drawn : m = LinkOf(v, r))
      BY <3>4, <2>4, <1>4
    <3> QED
      BY <2>1, <3>1, <3>2, <3>3, <3>4
  <2> QED
    BY <2>3, <2>4 DEF LinksNameTheirEnds
<1>10. RelationsOf(w) = RelationsOf(v) \cup Resolvable(v, rels)
  <2>1. {l.id : l \in w.edges} = {l.id : l \in v.edges} \cup drawn
    BY <1>1, <1>4
  <2> QED
    BY <2>1, <1>3 DEF RelationsOf
<1> QED
  BY <1>1, <1>2, <1>6, <1>7, <1>8, <1>9, <1>10 DEF Coherent
(***************************************************************************)
(* Burying slots leaves holes where the nodes were, and drops every link   *)
(* that touched one.                                                       *)
(***************************************************************************)
LEMMA TombstoneSlotsCoherent ==
  ASSUME NEW v \in ViewRecords, Coherent(v), NEW doomed,
         NEW w, w = TombstoneSlots(v, doomed)
  PROVE  /\ w \in ViewRecords
         /\ Coherent(w)
         /\ Len(w.entries) = Len(v.entries)
         /\ \A s \in Slots(v) : w.entries[s] \in {v.entries[s], Tombstone}
         /\ Loaded(w) \subseteq Loaded(v)
         /\ RelationsOf(w) \subseteq RelationsOf(v)
<1> DEFINE hit == doomed \cap NodeSlots(v)
<1>1. /\ w.entries = [s \in Slots(v) |-> IF s \in hit THEN Tombstone ELSE v.entries[s]]
      /\ w.node_slot = [n \in Nodes |-> IF \E s \in hit : v.entries[s] = n THEN NoSlot
                                        ELSE v.node_slot[n]]
      /\ w.type_slot = v.type_slot /\ w.next = v.next
      /\ w.edges = {l \in v.edges : l.src \notin hit /\ l.dst \notin hit}
      /\ w.tombstones = v.tombstones + Cardinality(hit)
  BY ViewFacts DEF TombstoneSlots, ViewRecords
<1>2. /\ w.entries \in [1..Len(v.entries) -> Entry] /\ Len(v.entries) \in Nat
      /\ Slots(v) = 1..Len(v.entries)
  BY <1>1, ViewFacts DEF Slots, Entry
<1>3. w.entries \in Seq(Entry) /\ Len(w.entries) = Len(v.entries)
  BY <1>2, FunctionIsSeq
<1>4. Slots(w) = Slots(v)
  BY <1>3 DEF Slots
<1>5. \A s \in hit : s \in Slots(v) /\ w.entries[s] = Tombstone
                     /\ v.entries[s] \in Nodes /\ v.entries[s] # Tombstone
  BY <1>1, EntriesAssumption DEF NodeSlots
<1>6. \A s \in Slots(v) \ hit : w.entries[s] = v.entries[s]
  BY <1>1
<1>7. IsFiniteSet(hit) /\ Cardinality(hit) \in Nat
  <2>1. IsFiniteSet(NodeSlots(v)) /\ hit \subseteq NodeSlots(v)
    BY ViewFacts
  <2> QED
    BY <2>1, FS_Subset, FS_CardinalityType
<1>8. \A n \in Nodes : w.node_slot[n] = IF \E s \in hit : v.entries[s] = n THEN NoSlot
                                        ELSE v.node_slot[n]
  BY <1>1
<1>9. w \in ViewRecords
  <2>1. w = [entries |-> w.entries, node_slot |-> w.node_slot, type_slot |-> w.type_slot,
             edges |-> w.edges, tombstones |-> w.tombstones, next |-> w.next]
    BY DEF ViewRecords, TombstoneSlots
  <2>2. w.node_slot \in [Nodes -> Nat]
    BY <1>1, ViewFacts DEF NoSlot
  <2>3. w.tombstones \in Nat
    BY <1>1, <1>7, ViewFacts
  <2> QED
    BY <1>1, <1>3, <2>1, <2>2, <2>3, ViewFacts DEF ViewRecords
<1>10. NodeSlots(w) = NodeSlots(v) \ hit
  BY <1>4, <1>5, <1>6, EntriesAssumption DEF NodeSlots
<1>11. Slots(w) \ LiveSlots(w) = (Slots(v) \ LiveSlots(v)) \cup hit
  BY <1>4, <1>5, <1>6 DEF LiveSlots
<1>12. MapsInvertEntries(w)
  <2>1. ASSUME NEW s \in NodeSlots(w)
        PROVE  w.node_slot[w.entries[s]] = s
    <3>1. s \in NodeSlots(v) /\ s \notin hit /\ w.entries[s] = v.entries[s]
      BY <1>6, <1>10 DEF NodeSlots
    <3>2. v.entries[s] \in Nodes /\ v.node_slot[v.entries[s]] = s
      BY <3>1 DEF NodeSlots, Coherent, MapsInvertEntries
    <3>3. \A t \in hit : v.entries[t] # v.entries[s]
      BY <3>1, <3>2 DEF Coherent, MapsInvertEntries
    <3> QED
      BY <3>1, <3>2, <3>3, <1>8
  <2>2. ASSUME NEW n \in Loaded(w)
        PROVE  w.node_slot[n] \in Slots(w) /\ w.entries[w.node_slot[n]] = n
    <3>1. /\ n \in Nodes /\ w.node_slot[n] = v.node_slot[n]
          /\ n \in Loaded(v) /\ \A s \in hit : v.entries[s] # n
      BY <1>8 DEF Loaded, NoSlot
    <3>2. v.node_slot[n] \in Slots(v) /\ v.entries[v.node_slot[n]] = n
      BY <3>1 DEF Coherent, MapsInvertEntries
    <3> QED
      BY <3>1, <3>2, <1>4, <1>6
  <2> QED
    BY <2>1, <2>2 DEF MapsInvertEntries
<1>13. TypesLead(w)
  <2>1. \A s \in Slots(w) : w.entries[s] \in Types <=> v.entries[s] \in Types
    BY <1>4, <1>5, <1>6, EntriesAssumption
  <2>2. \A i \in 1..TypeCount : i \in Slots(v) /\ v.entries[i] \in Types
    BY <1>2, TypeFacts DEF Coherent, TypesLead
  <2>3. \A i \in 1..TypeCount : w.entries[i] = v.entries[i]
    BY <2>2, <1>5, <1>6, EntriesAssumption
  <2> QED
    BY <1>1, <1>3, <1>4, <2>1, <2>3 DEF Coherent, TypesLead
<1>14. CountsExact(w)
  <2>1. (Slots(v) \ LiveSlots(v)) \cap hit = {}
    BY <1>5 DEF LiveSlots
  <2>2. IsFiniteSet(Slots(v) \ LiveSlots(v))
    BY ViewFacts, FS_Subset
  <2>3. Cardinality((Slots(v) \ LiveSlots(v)) \cup hit)
          = Cardinality(Slots(v) \ LiveSlots(v)) + Cardinality(hit)
    <3>1. Cardinality((Slots(v) \ LiveSlots(v)) \cup hit)
            = Cardinality(Slots(v) \ LiveSlots(v)) + Cardinality(hit)
              - Cardinality((Slots(v) \ LiveSlots(v)) \cap hit)
      BY <1>7, <2>2, FS_Union
    <3>2. Cardinality((Slots(v) \ LiveSlots(v)) \cap hit) = 0
      BY <2>1, FS_EmptySet
    <3>3. Cardinality(Slots(v) \ LiveSlots(v)) \in Nat
      BY <2>2, FS_CardinalityType
    <3> QED
      BY <3>1, <3>2, <3>3, <1>7
  <2> QED
    BY <1>1, <1>3, <1>11, <2>3 DEF Coherent, CountsExact
<1>15. LinksNameTheirEnds(w)
  BY <1>1, <1>6, <1>10, SMTT(60) DEF Coherent, LinksNameTheirEnds, NodeSlots
<1>16. RelationsOf(w) \subseteq RelationsOf(v)
  BY <1>1 DEF RelationsOf
<1>17. Loaded(w) \subseteq Loaded(v)
  BY <1>8 DEF Loaded, NoSlot
<1>18. \A s \in Slots(v) : w.entries[s] \in {v.entries[s], Tombstone}
  BY <1>1
<1> QED
  BY <1>3, <1>9, <1>12, <1>13, <1>14, <1>15, <1>16, <1>17, <1>18 DEF Coherent
(***************************************************************************)
(* NewSlot enumerates the live slots in order: it is increasing, it takes  *)
(* every value from 1 to their number once, and it leaves a live prefix    *)
(* where it is.                                                            *)
(***************************************************************************)
LEMMA NewSlotRange ==
  ASSUME NEW v \in ViewRecords, NEW s \in LiveSlots(v)
  PROVE  NewSlot(v, s) \in 1..Cardinality(LiveSlots(v))
<1>1. IsFiniteSet(LiveSlots(v)) /\ UpTo(v, s) \subseteq LiveSlots(v)
  BY ViewFacts DEF UpTo
<1>2. /\ IsFiniteSet(UpTo(v, s))
      /\ Cardinality(UpTo(v, s)) <= Cardinality(LiveSlots(v))
  BY <1>1, FS_Subset
<1>3. s \in UpTo(v, s)
  BY ViewFacts DEF UpTo
<1>4. Cardinality(UpTo(v, s)) # 0
  BY <1>2, <1>3, FS_EmptySet
<1>5. Cardinality(UpTo(v, s)) \in Nat /\ Cardinality(LiveSlots(v)) \in Nat
  BY <1>1, <1>2, FS_CardinalityType
<1> QED
  BY <1>2, <1>4, <1>5 DEF NewSlot

LEMMA NewSlotIncreases ==
  ASSUME NEW v \in ViewRecords, NEW s \in LiveSlots(v), NEW t \in LiveSlots(v), s < t
  PROVE  NewSlot(v, s) < NewSlot(v, t)
<1>1. s \in Nat /\ t \in Nat
  BY ViewFacts
<1>2. \A x \in LiveSlots(v) : x \in Nat
  BY ViewFacts
<1>3. UpTo(v, s) \subseteq UpTo(v, t)
  <2>1. ASSUME NEW x \in Nat, x <= s
        PROVE  x <= t
    BY <1>1, <2>1
  <2> QED
    BY <1>2, <2>1 DEF UpTo
<1>4. t \in UpTo(v, t) /\ t \notin UpTo(v, s)
  BY <1>1 DEF UpTo
<1>5. IsFiniteSet(UpTo(v, t))
  <2>1. IsFiniteSet(LiveSlots(v)) /\ UpTo(v, t) \subseteq LiveSlots(v)
    BY ViewFacts DEF UpTo
  <2> QED
    BY <2>1, FS_Subset
<1>6. /\ Cardinality(UpTo(v, s)) <= Cardinality(UpTo(v, t))
      /\ Cardinality(UpTo(v, t)) = Cardinality(UpTo(v, s)) => UpTo(v, t) = UpTo(v, s)
      /\ IsFiniteSet(UpTo(v, s))
  BY <1>3, <1>5, FS_Subset
<1>7. Cardinality(UpTo(v, s)) \in Nat /\ Cardinality(UpTo(v, t)) \in Nat
  BY <1>5, <1>6, FS_CardinalityType
<1> QED
  BY <1>4, <1>6, <1>7 DEF NewSlot

LEMMA NewSlotInjective ==
  ASSUME NEW v \in ViewRecords
  PROVE  \A s, t \in LiveSlots(v) : NewSlot(v, s) = NewSlot(v, t) => s = t
<1> SUFFICES ASSUME NEW s \in LiveSlots(v), NEW t \in LiveSlots(v),
                    NewSlot(v, s) = NewSlot(v, t)
             PROVE  s = t
  OBVIOUS
<1>1. s \in Nat /\ t \in Nat
  BY ViewFacts
<1>2. NewSlot(v, s) \in Int
  BY NewSlotRange
<1>3. ~(s < t)
  BY <1>2, NewSlotIncreases
<1>4. ~(t < s)
  BY <1>2, NewSlotIncreases
<1> QED
  BY <1>1, <1>3, <1>4

LEMMA NewSlotOnto ==
  ASSUME NEW v \in ViewRecords, NEW i \in 1..Cardinality(LiveSlots(v))
  PROVE  \E s \in LiveSlots(v) : NewSlot(v, s) = i
<1> DEFINE C == Cardinality(LiveSlots(v))
           f == [s \in LiveSlots(v) |-> NewSlot(v, s)]
<1>1. IsFiniteSet(LiveSlots(v)) /\ C \in Nat
  BY ViewFacts, FS_CardinalityType
<1>2. f \in [LiveSlots(v) -> 1..C]
  BY NewSlotRange
<1>3. \A s, t \in LiveSlots(v) : f[s] = f[t] => s = t
  BY NewSlotInjective
<1>4. f \in Injection(LiveSlots(v), 1..C)
  BY <1>2, <1>3 DEF Injection, IsInjective
<1>5. IsFiniteSet(1..C) /\ Cardinality(1..C) = C
  BY <1>1, FS_Interval
<1>6. f \in Surjection(LiveSlots(v), 1..C)
  BY <1>4, <1>5, FS_Injection
<1> QED
  BY <1>6 DEF Surjection

LEMMA NewSlotOfPrefix ==
  ASSUME NEW v \in ViewRecords, NEW n \in Nat, 1..n \subseteq LiveSlots(v),
         NEW s \in 1..n
  PROVE  NewSlot(v, s) = s
<1>1. \A x \in LiveSlots(v) : x \in Nat /\ x >= 1
  BY ViewFacts
<1>2. UpTo(v, s) = 1..s
  BY <1>1 DEF UpTo
<1>3. Cardinality(1..s) = s
  BY FS_Interval
<1> QED
  BY <1>2, <1>3 DEF NewSlot
(***************************************************************************)
(* What Compact makes of a coherent view, in terms of NewSlot.             *)
(***************************************************************************)
Compacted(v, w, C) ==
  /\ C \in Nat /\ C = Cardinality(LiveSlots(v))
  /\ Len(w.entries) = C /\ Slots(w) = 1..C
  /\ \A s \in LiveSlots(v) : NewSlot(v, s) \in 1..C /\ w.entries[NewSlot(v, s)] = v.entries[s]
  /\ \A i \in 1..C : \E s \in LiveSlots(v) : NewSlot(v, s) = i
  /\ \A n \in Loaded(v) : w.node_slot[n] = NewSlot(v, v.node_slot[n])
  /\ \A n \in Nodes \ Loaded(v) : w.node_slot[n] = NoSlot
  /\ w.type_slot = v.type_slot
  /\ w.edges = {[l EXCEPT !.src = NewSlot(v, @), !.dst = NewSlot(v, @)] : l \in v.edges}
  /\ w.tombstones = 0 /\ w.next = C + 1

LEMMA KeptFields ==
  ASSUME NEW v \in ViewRecords, NEW kept, kept = Kept(v),
         NEW C, C = Cardinality(LiveSlots(v))
  PROVE  /\ C \in Nat /\ kept \in Seq(Entry) /\ Len(kept) = C
         /\ \A s \in LiveSlots(v) : NewSlot(v, s) \in 1..C /\ kept[NewSlot(v, s)] = v.entries[s]
         /\ \A i \in 1..C : \E s \in LiveSlots(v) : NewSlot(v, s) = i
<1>1. C \in Nat
  BY ViewFacts, FS_CardinalityType
<1>2. kept = [i \in 1..C |-> v.entries[CHOOSE s \in LiveSlots(v) : NewSlot(v, s) = i]]
  BY DEF Kept
<1>3. \A i \in 1..C : \E s \in LiveSlots(v) : NewSlot(v, s) = i
  BY NewSlotOnto
<1>4. \A s \in LiveSlots(v) : NewSlot(v, s) \in 1..C
  BY NewSlotRange
<1>5. \A s \in LiveSlots(v) : kept[NewSlot(v, s)] = v.entries[s]
  <2> TAKE s \in LiveSlots(v)
  <2>1. (CHOOSE t \in LiveSlots(v) : NewSlot(v, t) = NewSlot(v, s)) = s
    BY NewSlotInjective
  <2> QED
    BY <1>2, <1>4, <2>1
<1>6. \A s \in LiveSlots(v) : v.entries[s] \in Entry
  BY ViewFacts
<1>7. kept \in [1..C -> Entry]
  <2>1. \A i \in 1..C : kept[i] \in Entry
    BY <1>3, <1>5, <1>6
  <2> QED
    BY <1>2, <2>1
<1> QED
  BY <1>1, <1>3, <1>4, <1>5, <1>7, FunctionIsSeq

\* Where a value of the view is found again, if it was in one live slot only.
LEMMA KeptIndex ==
  ASSUME NEW v \in ViewRecords, NEW kept, NEW C, Len(kept) = C,
         \A s \in LiveSlots(v) : NewSlot(v, s) \in 1..C /\ kept[NewSlot(v, s)] = v.entries[s],
         \A i \in 1..C : \E s \in LiveSlots(v) : NewSlot(v, s) = i,
         NEW x, NEW s \in LiveSlots(v),
         \A t \in LiveSlots(v) : v.entries[t] = x <=> t = s
  PROVE  /\ \E i \in 1..Len(kept) : kept[i] = x
         /\ IndexIn(kept, x) = NewSlot(v, s)
<1>1. NewSlot(v, s) \in 1..C /\ kept[NewSlot(v, s)] = x
  OBVIOUS
<1>2. \A i \in 1..C : kept[i] = x => i = NewSlot(v, s)
  OBVIOUS
<1> QED
  BY <1>1, <1>2 DEF IndexIn

LEMMA LiveTypeSlots ==
  ASSUME NEW v \in ViewRecords, Coherent(v)
  PROVE  /\ 1..TypeCount \subseteq LiveSlots(v)
         /\ \A s \in 1..TypeCount : NewSlot(v, s) = s
         /\ \A s \in LiveSlots(v) : NewSlot(v, s) <= TypeCount <=> s <= TypeCount
<1>1. /\ TypeCount \in Nat /\ Len(v.entries) \in Nat /\ Len(v.entries) >= TypeCount
      /\ Slots(v) = 1..Len(v.entries)
      /\ \A s \in Slots(v) : v.entries[s] \in Types <=> s <= TypeCount
  BY TypeFacts, ViewFacts DEF Coherent, TypesLead, Slots
<1>2. 1..TypeCount \subseteq LiveSlots(v)
  <2>1. \A s \in 1..TypeCount : s \in Slots(v) /\ s <= TypeCount
    BY <1>1
  <2>2. \A s \in 1..TypeCount : s \in Slots(v) /\ v.entries[s] # Tombstone
    BY <1>1, <2>1, EntriesAssumption
  <2> QED
    BY <2>2 DEF LiveSlots
<1>3. \A s \in 1..TypeCount : NewSlot(v, s) = s
  BY <1>1, <1>2, NewSlotOfPrefix
<1>4. ASSUME NEW s \in LiveSlots(v)
      PROVE  NewSlot(v, s) <= TypeCount <=> s <= TypeCount
  <2>1. s \in Nat /\ s >= 1 /\ NewSlot(v, s) \in Nat /\ NewSlot(v, s) >= 1
    BY ViewFacts, NewSlotRange
  <2>2. CASE s <= TypeCount
    BY <1>1, <1>3, <2>1, <2>2
  <2>3. CASE NewSlot(v, s) <= TypeCount
    <3>1. NewSlot(v, s) \in 1..TypeCount
      BY <1>1, <2>1, <2>3
    <3>2. NewSlot(v, s) \in LiveSlots(v) /\ NewSlot(v, NewSlot(v, s)) = NewSlot(v, s)
      BY <1>2, <1>3, <3>1
    <3>3. NewSlot(v, s) = s
      BY <3>2, NewSlotInjective
    <3> QED
      BY <2>3, <3>3
  <2> QED
    BY <2>2, <2>3
<1> QED
  BY <1>2, <1>3, <1>4
LEMMA CompactFields ==
  ASSUME NEW v \in ViewRecords, Coherent(v), NEW w, w = Compact(v)
  PROVE  /\ w \in ViewRecords
         /\ Compacted(v, w, Cardinality(LiveSlots(v)))
<1> DEFINE C == Cardinality(LiveSlots(v))
<1>1. PICK kept : kept = Kept(v)
  OBVIOUS
<1>2. /\ C \in Nat /\ kept \in Seq(Entry) /\ Len(kept) = C
      /\ \A s \in LiveSlots(v) : NewSlot(v, s) \in 1..C /\ kept[NewSlot(v, s)] = v.entries[s]
      /\ \A i \in 1..C : \E s \in LiveSlots(v) : NewSlot(v, s) = i
  BY <1>1, KeptFields
<1>3. /\ w.entries = kept
      /\ w.node_slot = [n \in Nodes |-> IF \E i \in 1..Len(kept) : kept[i] = n
                                        THEN IndexIn(kept, n) ELSE NoSlot]
      /\ w.type_slot = [t \in Types |-> IF \E i \in 1..Len(kept) : kept[i] = t
                                        THEN IndexIn(kept, t) ELSE NoSlot]
      /\ w.edges = {[l EXCEPT !.src = NewSlot(v, @), !.dst = NewSlot(v, @)] : l \in v.edges}
      /\ w.tombstones = 0 /\ w.next = Len(kept) + 1
      /\ w = [entries |-> w.entries, node_slot |-> w.node_slot, type_slot |-> w.type_slot,
              edges |-> w.edges, tombstones |-> w.tombstones, next |-> w.next]
  BY <1>1 DEF Compact
<1>4. \A n \in Loaded(v) : w.node_slot[n] = NewSlot(v, v.node_slot[n])
  <2> TAKE n \in Loaded(v)
  <2>1. n \in Nodes /\ v.node_slot[n] \in Slots(v) /\ v.entries[v.node_slot[n]] = n
    BY DEF Loaded, Coherent, MapsInvertEntries
  <2>2. v.node_slot[n] \in LiveSlots(v)
    BY <2>1, EntriesAssumption DEF LiveSlots
  <2>3. \A t \in LiveSlots(v) : v.entries[t] = n => t \in NodeSlots(v)
    BY <2>1 DEF LiveSlots, NodeSlots
  <2>4. \A t \in LiveSlots(v) : v.entries[t] = n <=> t = v.node_slot[n]
    BY <2>1, <2>3 DEF Coherent, MapsInvertEntries
  <2>5. /\ \E i \in 1..Len(kept) : kept[i] = n
        /\ IndexIn(kept, n) = NewSlot(v, v.node_slot[n])
    BY <1>2, <2>2, <2>4, KeptIndex
  <2> QED
    BY <1>3, <2>1, <2>5
<1>5. \A n \in Nodes \ Loaded(v) : w.node_slot[n] = NoSlot
  <2> TAKE n \in Nodes \ Loaded(v)
  <2>1. \A s \in LiveSlots(v) : v.entries[s] # n
    <3>1. ASSUME NEW s \in LiveSlots(v), v.entries[s] = n
          PROVE  s \in NodeSlots(v) /\ s # 0
      BY <3>1, ViewFacts DEF LiveSlots, NodeSlots
    <3> QED
      BY <3>1 DEF Loaded, NoSlot, Coherent, MapsInvertEntries
  <2>2. ~ \E i \in 1..Len(kept) : kept[i] = n
    BY <1>2, <2>1
  <2> QED
    BY <1>3, <2>2
<1>6. w.type_slot = v.type_slot
  <2>1. \A t \in Types : PositionOf(t) \in LiveSlots(v) /\ NewSlot(v, PositionOf(t)) = PositionOf(t)
    BY LiveTypeSlots, TypeFacts
  <2>2. ASSUME NEW t \in Types, NEW s \in LiveSlots(v)
        PROVE  v.entries[s] = t <=> s = PositionOf(t)
    <3>1. PositionOf(t) \in 1..TypeCount /\ v.entries[PositionOf(t)] = t
      BY TypeFacts DEF Coherent, TypesLead
    <3>2. CASE v.entries[s] = t
      <4>1. s \in Slots(v) /\ s <= TypeCount /\ s \in Nat /\ s >= 1
        BY <3>2, ViewFacts DEF Coherent, TypesLead
      <4>2. s \in 1..TypeCount
        BY <4>1, TypeFacts
      <4>3. TypeOrder[s] = t
        BY <3>2, <4>2 DEF Coherent, TypesLead
      <4> QED
        BY <3>2, <4>2, <4>3, TypeFacts
    <3> QED
      BY <3>1, <3>2
  <2>3. ASSUME NEW t \in Types
        PROVE  (\E i \in 1..Len(kept) : kept[i] = t) /\ IndexIn(kept, t) = PositionOf(t)
    <3>1. /\ \E i \in 1..Len(kept) : kept[i] = t
          /\ IndexIn(kept, t) = NewSlot(v, PositionOf(t))
      BY <1>2, <2>1, <2>2, KeptIndex
    <3> QED
      BY <3>1, <2>1
  <2>4. \A t \in Types : w.type_slot[t] = IF \E i \in 1..Len(kept) : kept[i] = t
                                            THEN IndexIn(kept, t) ELSE NoSlot
    BY <1>3, Zenon
  <2>5. \A t \in Types : w.type_slot[t] = PositionOf(t)
    BY <2>3, <2>4, Zenon
  <2>6. w.type_slot = [t \in Types |-> w.type_slot[t]]
    BY <1>3, Zenon
  <2>7. w.type_slot = [t \in Types |-> PositionOf(t)]
    BY <2>5, <2>6, Zenon
  <2> QED
    BY <2>7 DEF Coherent, TypesLead
<1>7. w.node_slot \in [Nodes -> Nat]
  <2>1. \A n \in Loaded(v) : NewSlot(v, v.node_slot[n]) \in Nat
    <3> TAKE n \in Loaded(v)
    <3>1. v.node_slot[n] \in Slots(v) /\ v.entries[v.node_slot[n]] \in Nodes
      BY DEF Coherent, MapsInvertEntries, Loaded
    <3>2. v.node_slot[n] \in LiveSlots(v)
      BY <3>1, EntriesAssumption DEF LiveSlots
    <3> QED
      BY <3>2, NewSlotRange
  <2>2. \A n \in Nodes : w.node_slot[n] \in Nat
    BY <1>4, <1>5, <2>1 DEF NoSlot
  <2> QED
    BY <1>3, <2>2
<1>8. w.edges \subseteq Link
  <2>1. ASSUME NEW l \in v.edges
        PROVE  l.src \in LiveSlots(v) /\ l.dst \in LiveSlots(v) /\ l \in Link
    <3>1. CASE l.id = NoRelation
      BY <3>1, LiveTypeSlots, GraphAssumption, ViewFacts DEF Coherent, LinksNameTheirEnds
    <3>2. CASE l.id # NoRelation
      BY <3>2, ViewFacts DEF Coherent, LinksNameTheirEnds
    <3> QED
      BY <3>1, <3>2
  <2>2. ASSUME NEW l \in v.edges
        PROVE  [l EXCEPT !.src = NewSlot(v, @), !.dst = NewSlot(v, @)] \in Link
    <3>1. NewSlot(v, l.src) \in Nat /\ NewSlot(v, l.dst) \in Nat
      BY <2>1, NewSlotRange
    <3> QED
      BY <2>1, <3>1 DEF Link
  <2>3. w.edges = {[l EXCEPT !.src = NewSlot(v, @), !.dst = NewSlot(v, @)] : l \in v.edges}
    BY <1>3, Zenon
  <2> QED
    BY <2>2, <2>3
<1>9. w \in ViewRecords
  <2>0. w.entries = kept /\ w.tombstones = 0 /\ w.next = Len(kept) + 1
    BY <1>3, Zenon
  <2>1. /\ w.entries \in Seq(Entry) /\ w.tombstones \in Nat /\ w.next \in Nat
        /\ w.type_slot \in [Types -> Nat]
    BY <1>2, <2>0, <1>6, ViewFacts
  <2>2. w = [entries |-> w.entries, node_slot |-> w.node_slot, type_slot |-> w.type_slot,
             edges |-> w.edges, tombstones |-> w.tombstones, next |-> w.next]
    BY <1>3, Zenon
  <2> QED
    BY <1>7, <1>8, <2>1, <2>2 DEF ViewRecords
<1>10. Slots(w) = 1..C
  BY <1>2, <1>3 DEF Slots
<1> QED
  BY <1>2, <1>3, <1>4, <1>5, <1>6, <1>9, <1>10 DEF Compacted

(***************************************************************************)
(* Compaction keeps the view coherent and changes nothing a reader sees:   *)
(* the same nodes and relationships stay on screen.                        *)
(***************************************************************************)
LEMMA CompactedSlots ==
  ASSUME NEW v, NEW w, NEW C, Compacted(v, w, C), NodeSlots(v) \subseteq LiveSlots(v)
  PROVE  /\ \A s \in LiveSlots(v) : NewSlot(v, s) \in Slots(w)
         /\ \A i \in Slots(w) : \E s \in LiveSlots(v) :
              NewSlot(v, s) = i /\ w.entries[i] = v.entries[s]
         /\ LiveSlots(w) = Slots(w)
         /\ \A s \in NodeSlots(v) : NewSlot(v, s) \in NodeSlots(w)
<1>1. \A s \in LiveSlots(v) : NewSlot(v, s) \in Slots(w)
                               /\ w.entries[NewSlot(v, s)] = v.entries[s]
  BY DEF Compacted
<1>2. \A i \in Slots(w) : \E s \in LiveSlots(v) : NewSlot(v, s) = i
  BY DEF Compacted
<1>3. LiveSlots(w) = Slots(w)
  BY <1>1, <1>2 DEF LiveSlots
<1>4. \A s \in NodeSlots(v) : NewSlot(v, s) \in NodeSlots(w)
  BY <1>1 DEF NodeSlots
<1> QED
  BY <1>1, <1>2, <1>3, <1>4
LEMMA CompactedMaps ==
  ASSUME NEW v \in ViewRecords, Coherent(v), NEW w, NEW C, Compacted(v, w, C)
  PROVE  MapsInvertEntries(w) /\ Loaded(w) = Loaded(v)
<1>1. \A n \in Loaded(v) : v.node_slot[n] \in NodeSlots(v) /\ v.entries[v.node_slot[n]] = n
  BY DEF Coherent, MapsInvertEntries, NodeSlots, Loaded
<1>2. \A s \in NodeSlots(v) : v.entries[s] \in Loaded(v) /\ v.node_slot[v.entries[s]] = s
  <2>1. \A s \in NodeSlots(v) : s # 0 /\ v.entries[s] \in Nodes
    BY ViewFacts DEF NodeSlots
  <2> QED
    BY <2>1 DEF Coherent, MapsInvertEntries, Loaded, NoSlot
<1>3. NodeSlots(v) \subseteq LiveSlots(v)
  BY ViewFacts
<1>4. /\ \A n \in Loaded(v) : w.node_slot[n] = NewSlot(v, v.node_slot[n])
      /\ \A n \in Nodes \ Loaded(v) : w.node_slot[n] = NoSlot
      /\ \A s \in LiveSlots(v) : w.entries[NewSlot(v, s)] = v.entries[s]
  BY Zenon DEF Compacted
<1>5. /\ \A s \in LiveSlots(v) : NewSlot(v, s) \in Slots(w)
      /\ \A i \in Slots(w) : \E s \in LiveSlots(v) :
           NewSlot(v, s) = i /\ w.entries[i] = v.entries[s]
  BY <1>3, CompactedSlots
<1>6. \A n \in Loaded(v) : w.node_slot[n] \in Slots(w) /\ w.entries[w.node_slot[n]] = n
  BY <1>1, <1>3, <1>4, <1>5
<1>7. Loaded(w) = Loaded(v)
  <2>1. \A s \in LiveSlots(v) : NewSlot(v, s) # 0
    BY NewSlotRange
  <2>2. \A n \in Loaded(v) : w.node_slot[n] # 0
    BY <1>1, <1>3, <1>4, <2>1
  <2> QED
    BY <1>4, <2>2 DEF Loaded, NoSlot
<1>8. ASSUME NEW i \in NodeSlots(w)
      PROVE  w.node_slot[w.entries[i]] = i
  <2>1. i \in Slots(w) /\ w.entries[i] \in Nodes
    BY DEF NodeSlots
  <2>2. PICK s \in LiveSlots(v) : NewSlot(v, s) = i /\ w.entries[i] = v.entries[s]
    BY <1>5, <2>1
  <2>3. s \in NodeSlots(v)
    BY <2>1, <2>2 DEF LiveSlots, NodeSlots
  <2> QED
    BY <1>2, <1>4, <2>2, <2>3
<1> QED
  BY <1>6, <1>7, <1>8 DEF MapsInvertEntries

LEMMA CompactedTypes ==
  ASSUME NEW v \in ViewRecords, Coherent(v), NEW w, NEW C, Compacted(v, w, C)
  PROVE  TypesLead(w)
<1>1. /\ 1..TypeCount \subseteq LiveSlots(v)
      /\ \A s \in 1..TypeCount : NewSlot(v, s) = s
      /\ \A s \in LiveSlots(v) : NewSlot(v, s) <= TypeCount <=> s <= TypeCount
  BY LiveTypeSlots
<1>2. C \in Nat /\ Len(w.entries) = C /\ w.type_slot = v.type_slot
  BY Zenon DEF Compacted
<1>3. \A s \in LiveSlots(v) : NewSlot(v, s) \in 1..C /\ w.entries[NewSlot(v, s)] = v.entries[s]
  BY Zenon DEF Compacted
<1>4. Len(w.entries) >= TypeCount
  <2>1. CASE TypeCount = 0
    BY <1>2, <2>1
  <2>2. CASE TypeCount # 0
    <3>1. TypeCount \in 1..TypeCount
      BY <2>2, TypeFacts
    <3>2. TypeCount \in LiveSlots(v) /\ NewSlot(v, TypeCount) = TypeCount
      BY <1>1, <3>1
    <3> QED
      BY <1>2, <1>3, <3>2
  <2> QED
    BY <2>1, <2>2
<1>5. ASSUME NEW i \in Slots(w)
      PROVE  w.entries[i] \in Types <=> i <= TypeCount
  <2>1. NodeSlots(v) \subseteq LiveSlots(v)
    BY ViewFacts
  <2>2. PICK s \in LiveSlots(v) : NewSlot(v, s) = i /\ w.entries[i] = v.entries[s]
    BY <2>1, CompactedSlots
  <2>3. v.entries[s] \in Types <=> s <= TypeCount
    BY DEF Coherent, TypesLead, LiveSlots
  <2> QED
    BY <1>1, <2>2, <2>3
<1>6. ASSUME NEW i \in 1..TypeCount
      PROVE  w.entries[i] = TypeOrder[i]
  BY <1>1, <1>3 DEF Coherent, TypesLead
<1>7. v.type_slot = [t \in Types |-> PositionOf(t)]
  BY DEF Coherent, TypesLead
<1> QED
  BY <1>2, <1>4, <1>5, <1>6, <1>7 DEF TypesLead

LEMMA CompactedLinks ==
  ASSUME NEW v \in ViewRecords, Coherent(v), NEW w, NEW C, Compacted(v, w, C)
  PROVE  LinksNameTheirEnds(w) /\ RelationsOf(w) = RelationsOf(v)
<1> DEFINE moved(l) == [l EXCEPT !.src = NewSlot(v, @), !.dst = NewSlot(v, @)]
<1>1. w.edges = {moved(l) : l \in v.edges}
  BY Zenon DEF Compacted
<1>2. \A l \in v.edges : /\ moved(l).id = l.id
                         /\ moved(l).src = NewSlot(v, l.src)
                         /\ moved(l).dst = NewSlot(v, l.dst)
  BY ViewFacts DEF Link
<1> HIDE DEF moved
<1>3. NodeSlots(v) \subseteq LiveSlots(v)
  BY ViewFacts
<1>4. /\ \A s \in NodeSlots(v) : NewSlot(v, s) \in NodeSlots(w)
      /\ \A s \in LiveSlots(v) : w.entries[NewSlot(v, s)] = v.entries[s]
  BY <1>3, CompactedSlots DEF Compacted
<1>5. ASSUME NEW l \in v.edges, l.id = NoRelation
      PROVE  <<moved(l).src, moved(l).dst>> \in MetaLinks
  <2>1. <<l.src, l.dst>> \in MetaLinks
    BY <1>5 DEF Coherent, LinksNameTheirEnds
  <2>2. l.src \in 1..TypeCount /\ l.dst \in 1..TypeCount
    BY <2>1, GraphAssumption
  <2>3. moved(l).src = l.src /\ moved(l).dst = l.dst
    BY <1>2, <2>2, LiveTypeSlots
  <2> QED
    BY <2>1, <2>3
<1>6. ASSUME NEW l \in v.edges, l.id # NoRelation
      PROVE  /\ moved(l).src \in NodeSlots(w) /\ w.entries[moved(l).src] = Source[l.id]
             /\ moved(l).dst \in NodeSlots(w) /\ w.entries[moved(l).dst] = Target[l.id]
  <2>1. /\ l.src \in NodeSlots(v) /\ v.entries[l.src] = Source[l.id]
        /\ l.dst \in NodeSlots(v) /\ v.entries[l.dst] = Target[l.id]
    BY <1>6 DEF Coherent, LinksNameTheirEnds
  <2> QED
    BY <1>2, <1>3, <1>4, <2>1
<1>7. \A l, m \in v.edges : l.id = m.id /\ l.id # NoRelation => l = m
  BY DEF Coherent, LinksNameTheirEnds
<1>8. LinksNameTheirEnds(w)
  BY <1>1, <1>2, <1>5, <1>6, <1>7 DEF LinksNameTheirEnds
<1>9. RelationsOf(w) = RelationsOf(v)
  BY <1>1, <1>2 DEF RelationsOf
<1> QED
  BY <1>8, <1>9

LEMMA CompactCoherent ==
  ASSUME NEW v \in ViewRecords, Coherent(v), NEW w, w = Compact(v)
  PROVE  /\ w \in ViewRecords
         /\ Coherent(w)
         /\ Loaded(w) = Loaded(v)
         /\ RelationsOf(w) = RelationsOf(v)
         /\ w.tombstones = 0
<1>1. w \in ViewRecords /\ Compacted(v, w, Cardinality(LiveSlots(v)))
  BY CompactFields
<1>2. MapsInvertEntries(w) /\ Loaded(w) = Loaded(v)
  BY <1>1, CompactedMaps
<1>3. TypesLead(w)
  BY <1>1, CompactedTypes
<1>4. LinksNameTheirEnds(w) /\ RelationsOf(w) = RelationsOf(v)
  BY <1>1, CompactedLinks
<1>5. w.tombstones = 0 /\ w.next = Len(w.entries) + 1
  BY <1>1 DEF Compacted
<1>6. CountsExact(w)
  <2>1. NodeSlots(v) \subseteq LiveSlots(v)
    BY ViewFacts
  <2>2. LiveSlots(w) = Slots(w)
    BY <1>1, <2>1, CompactedSlots
  <2>3. Slots(w) \ LiveSlots(w) = {}
    BY <2>2
  <2> QED
    BY <1>5, <2>3, FS_EmptySet DEF CountsExact
<1> QED
  BY <1>1, <1>2, <1>3, <1>4, <1>5, <1>6 DEF Coherent
-----------------------------------------------------------------------------
(***************************************************************************)
(* The inductive invariant.                                                *)
(***************************************************************************)
WithinLimits(v) ==
  /\ Cardinality(Loaded(v)) <= MaxLoadedNodes
  /\ Cardinality(RelationsOf(v)) <= MaxLoadedEdges

\* What every committed view is, one brought back from the history included.
Sound(v) ==
  /\ v \in ViewRecords
  /\ Coherent(v)
  /\ WithinLimits(v)
  /\ ~ShouldCompact(v)

IInv ==
  /\ Sound(view)
  /\ slice.slot_count = Len(view.entries)

\* What a request makes of the slots before the view is compacted: it appends the
\* nodes it added or buries the doomed slots, and touches no other slot.
Changes(v, w, added, doomed) ==
  /\ added \in SUBSET Nodes /\ doomed \in SUBSET NodeSlots(v)
  /\ added = {} \/ doomed = {}
  /\ Len(w.entries) = Len(v.entries) + Cardinality(added)
  /\ \A s \in Slots(v) : w.entries[s] = IF s \in doomed THEN Tombstone ELSE v.entries[s]
  /\ \A s \in Slots(w) \ Slots(v) : w.entries[s] \in added
  /\ \A n \in added : w.node_slot[n] \in Slots(w) \ Slots(v)

LEMMA ChangesFacts ==
  ASSUME NEW v \in ViewRecords, NEW w, NEW added, NEW doomed, Changes(v, w, added, doomed)
  PROVE  /\ Cardinality(added) \in Nat
         /\ Len(w.entries) >= Len(v.entries)
         /\ \A s \in Slots(v) : w.entries[s] \in {v.entries[s], Tombstone}
<1>1. Cardinality(added) \in Nat
  BY GraphAssumption, FS_Subset, FS_CardinalityType DEF Changes
<1>2. Len(v.entries) \in Nat /\ Len(w.entries) = Len(v.entries) + Cardinality(added)
  BY ViewFacts DEF Changes
<1>3. \A s \in Slots(v) : w.entries[s] \in {v.entries[s], Tombstone}
  BY DEF Changes
<1> QED
  BY <1>1, <1>2, <1>3

LEMMA RelationsOfFacts ==
  ASSUME NEW v \in ViewRecords
  PROVE  /\ RelationsOf(v) \subseteq Relations
         /\ IsFiniteSet(RelationsOf(v))
<1>1. RelationsOf(v) \subseteq Relations
  BY ViewFacts DEF RelationsOf, Link
<1> QED
  BY <1>1, GraphAssumption, FS_Subset

LEMMA FullViewStays ==
  ASSUME NEW v, v.tombstones = 0, Len(v.entries) \in Nat
  PROVE  ~ShouldCompact(v)
<1> SUFFICES ASSUME Len(v.entries) >= MinSlots
             PROVE  ~(0 * RatioDen >= Len(v.entries) * RatioNum)
  BY DEF ShouldCompact
<1>1. Len(v.entries) >= 1 /\ RatioNum >= 1 /\ RatioNum \in Nat /\ RatioDen \in Nat
  BY RatioAssumption
<1>2. \A a, b \in Nat : a >= 1 /\ b >= 1 => a * b >= 1
  OBVIOUS
<1> QED
  BY <1>1, <1>2

(***************************************************************************)
(* finish_slice commits a coherent view, compacted if it was sparse.       *)
(***************************************************************************)
LEMMA FinishSliceIInv ==
  ASSUME NEW c \in ViewRecords, Coherent(c), WithinLimits(c),
         NEW added, NEW doomed, FinishSlice(c, added, doomed)
  PROVE  IInv'
<1>1. view' = CompactIfSparse(c) /\ slice'.slot_count = Len(view'.entries)
  BY DEF FinishSlice
<1>2. CASE ShouldCompact(c)
  <2>1. view' = Compact(c)
    BY <1>1, <1>2 DEF CompactIfSparse
  <2>2. /\ view' \in ViewRecords /\ Coherent(view')
        /\ Loaded(view') = Loaded(c) /\ RelationsOf(view') = RelationsOf(c)
        /\ view'.tombstones = 0
    BY <2>1, CompactCoherent
  <2>3. Len(view'.entries) \in Nat
    BY <2>2, ViewFacts
  <2>4. ~ShouldCompact(view')
    BY <2>2, <2>3, FullViewStays
  <2>5. WithinLimits(view')
    BY <2>2 DEF WithinLimits
  <2> QED
    BY <1>1, <2>2, <2>4, <2>5 DEF IInv, Sound
<1>3. CASE ~ShouldCompact(c)
  <2>1. view' = c
    BY <1>1, <1>3 DEF CompactIfSparse
  <2> QED
    BY <1>1, <1>3, <2>1 DEF IInv, Sound
<1> QED
  BY <1>2, <1>3

LEMMA InitIInv == Init => IInv
<1> SUFFICES ASSUME Init PROVE IInv
  OBVIOUS
<1>1. view = EntryScreen /\ slice.slot_count = TypeCount
  BY DEF Init, Opening
<1>2. view \in ViewRecords /\ Coherent(view)
  BY <1>1, EntryScreenCoherent
<1>3. /\ view.entries = TypeOrder /\ view.tombstones = 0
      /\ view.node_slot = [n \in Nodes |-> NoSlot]
      /\ view.edges = {[id |-> NoRelation, src |-> p[1], dst |-> p[2]] : p \in MetaLinks}
  BY <1>1 DEF EntryScreen
<1>4. Loaded(view) = {} /\ RelationsOf(view) = {}
  BY <1>3 DEF Loaded, RelationsOf
<1>5. WithinLimits(view)
  BY <1>4, FS_EmptySet, LimitsAssumption DEF WithinLimits
<1>6. ~ShouldCompact(view)
  BY <1>2, <1>3, ViewFacts, FullViewStays
<1> QED
  BY <1>1, <1>2, <1>3, <1>5, <1>6 DEF IInv, Sound, TypeCount

(***************************************************************************)
(* Every request is a coherent change of the slots, handed to finish_slice.*)
(***************************************************************************)
LEMMA OrdersNameAll ==
  ASSUME NEW S \in SUBSET Nodes, NEW added \in Orders(S)
  PROVE  \A n \in S : \E i \in 1..Len(added) : added[i] = n
<1>1. IsFiniteSet(S) /\ Cardinality(S) \in Nat
  BY GraphAssumption, FS_Subset, FS_CardinalityType
<1>2. Len(added) = Cardinality(S)
  BY <1>1, FunctionIsSeq DEF Orders
<1>3. added \in Injection(1..Cardinality(S), S)
  BY DEF Orders, Injection, IsInjective
<1>4. Cardinality(1..Cardinality(S)) = Cardinality(S)
  BY <1>1, FS_Interval
<1>5. added \in Surjection(1..Cardinality(S), S)
  BY <1>1, <1>3, <1>4, FS_Injection
<1> QED
  BY <1>2, <1>5 DEF Surjection

LEMMA InternNodesChanges ==
  ASSUME NEW v \in ViewRecords, Coherent(v),
         NEW S \in SUBSET Nodes, NEW added \in Orders(S)
  PROVE  Changes(v, InternNodes(v, added), S, {})
<1>1. v.next = Len(v.entries) + 1
  BY DEF Coherent, CountsExact
<1>2. \A n \in S : \E i \in 1..Len(added) : added[i] = n
  BY OrdersNameAll
<1>3. Interned(v, InternNodes(v, added), S, added, Len(v.entries), Len(added))
  BY <1>1, <1>2, InternNodesFields
<1>4. Len(added) = Cardinality(S)
  <2>1. IsFiniteSet(S) /\ Cardinality(S) \in Nat
    BY GraphAssumption, FS_Subset, FS_CardinalityType
  <2> QED
    BY <2>1, FunctionIsSeq DEF Orders
<1>5. PICK w, L, k : /\ w = InternNodes(v, added) /\ k = Cardinality(S)
                     /\ Interned(v, w, S, added, L, k)
  BY <1>3, <1>4
<1>6. /\ L \in Nat /\ k \in Nat /\ added \in [1..k -> S]
      /\ Len(v.entries) = L /\ Len(w.entries) = L + k
      /\ Slots(v) = 1..L /\ Slots(w) = 1..(L + k)
  BY <1>5, Zenon DEF Interned
<1>7. /\ \A s \in 1..L : w.entries[s] = v.entries[s]
      /\ \A i \in 1..k : w.entries[L + i] = added[i] /\ w.node_slot[added[i]] = L + i
      /\ \A n \in S : \E i \in 1..k : added[i] = n
  BY <1>5, Zenon DEF Interned
<1>8. ASSUME NEW s \in Slots(w) \ Slots(v) PROVE w.entries[s] \in S
  <2>1. s - L \in 1..k /\ s = L + (s - L)
    BY <1>6
  <2>2. w.entries[L + (s - L)] = added[s - L]
    BY <1>7, <2>1
  <2> QED
    BY <1>6, <2>1, <2>2
<1>9. ASSUME NEW n \in S PROVE w.node_slot[n] \in Slots(w) \ Slots(v)
  <2>1. PICK i \in 1..k : added[i] = n
    BY <1>7
  <2> QED
    BY <1>6, <1>7, <2>1
<1> QED
  BY <1>5, <1>6, <1>7, <1>8, <1>9 DEF Changes

LEMMA AbsorbStep ==
  ASSUME Sound(view), NEW nodes \in SUBSET Nodes, NEW rels \in SUBSET Relations,
         Absorb(nodes, rels)
  PROVE  \E c, added, doomed :
           /\ c \in ViewRecords /\ Coherent(c) /\ WithinLimits(c)
           /\ Changes(view, c, added, doomed) /\ FinishSlice(c, added, doomed)
<1> DEFINE fresh == nodes \ Loaded(view)
<1>1. PICK added \in Orders(fresh) :
        FinishSlice(AddEdges(InternNodes(view, added), rels), fresh, {})
  BY DEF Absorb
<1>2. PICK w : w = InternNodes(view, added)
  OBVIOUS
<1>3. PICK c : c = AddEdges(w, rels)
  OBVIOUS
<1>4. fresh \in SUBSET Nodes /\ fresh \cap Loaded(view) = {}
  OBVIOUS
<1>5. /\ w \in ViewRecords /\ Coherent(w)
      /\ Loaded(w) = Loaded(view) \cup fresh /\ w.edges = view.edges
  BY <1>2, <1>4, OrdersNameAll, InternNodesCoherent DEF Sound
<1>6. /\ c \in ViewRecords /\ Coherent(c)
      /\ Loaded(c) = Loaded(w) /\ c.entries = w.entries
      /\ RelationsOf(c) = RelationsOf(w) \cup Resolvable(w, rels)
  BY <1>3, <1>5, AddEdgesCoherent
<1>7. Loaded(c) = Loaded(view) \cup nodes
  BY <1>5, <1>6
<1>8. RelationsOf(w) = RelationsOf(view)
  BY <1>5 DEF RelationsOf
<1>9. Resolvable(w, rels) = Within(rels, Loaded(view) \cup nodes)
  BY <1>5 DEF Resolvable, Within
<1>10. WithinLimits(c)
  BY <1>6, <1>7, <1>8, <1>9 DEF WithinLimits, Absorb, Admissible
<1>11. Changes(view, c, fresh, {})
  <2>1. Changes(view, w, fresh, {})
    BY <1>2, <1>4, InternNodesChanges DEF Sound
  <2>2. c.node_slot = w.node_slot
    BY <1>3 DEF AddEdges
  <2> QED
    BY <1>6, <2>1, <2>2 DEF Changes, Slots
<1> QED
  BY <1>1, <1>2, <1>3, <1>6, <1>10, <1>11

LEMMA BuryStep ==
  ASSUME Sound(view), NEW doomed \in SUBSET NodeSlots(view),
         FinishSlice(TombstoneSlots(view, doomed), {}, doomed)
  PROVE  \E c, added, gone :
           /\ c \in ViewRecords /\ Coherent(c) /\ WithinLimits(c)
           /\ Changes(view, c, added, gone) /\ FinishSlice(c, added, gone)
<1>1. PICK c : c = TombstoneSlots(view, doomed)
  OBVIOUS
<1>2. /\ c \in ViewRecords /\ Coherent(c) /\ Len(c.entries) = Len(view.entries)
      /\ \A s \in Slots(view) : c.entries[s] \in {view.entries[s], Tombstone}
      /\ Loaded(c) \subseteq Loaded(view)
      /\ RelationsOf(c) \subseteq RelationsOf(view)
  BY <1>1, TombstoneSlotsCoherent DEF Sound
<1>3. Len(view.entries) \in Nat
  BY ViewFacts DEF Sound
<1>4. /\ Cardinality(Loaded(c)) <= Cardinality(Loaded(view))
      /\ Cardinality(Loaded(c)) \in Nat /\ Cardinality(Loaded(view)) \in Nat
  <2>1. IsFiniteSet(Loaded(view))
    BY ViewFacts DEF Sound
  <2> QED
    BY <1>2, <2>1, FS_Subset, FS_CardinalityType
<1>5. /\ Cardinality(RelationsOf(c)) <= Cardinality(RelationsOf(view))
      /\ Cardinality(RelationsOf(c)) \in Nat /\ Cardinality(RelationsOf(view)) \in Nat
  <2>1. IsFiniteSet(RelationsOf(view))
    BY RelationsOfFacts DEF Sound
  <2> QED
    BY <1>2, <2>1, FS_Subset, FS_CardinalityType
<1>6. WithinLimits(c)
  BY <1>4, <1>5, LimitsAssumption DEF Sound, WithinLimits
<1>7. Changes(view, c, {}, doomed)
  <2>1. \A s \in Slots(view) : c.entries[s] = IF s \in doomed THEN Tombstone ELSE view.entries[s]
    BY <1>1 DEF TombstoneSlots
  <2>2. Cardinality({}) = 0
    BY FS_EmptySet
  <2> QED
    BY <1>2, <1>3, <2>1, <2>2 DEF Changes, Slots
<1> QED
  BY <1>1, <1>2, <1>6, <1>7

LEMMA EveryStep ==
  ASSUME Sound(view), Next
  PROVE  \E c, added, doomed :
           /\ c \in ViewRecords /\ Coherent(c) /\ WithinLimits(c)
           /\ Changes(view, c, added, doomed) /\ FinishSlice(c, added, doomed)
<1>1. CASE BrowseType
  <2>1. PICK page \in SUBSET Nodes : Absorb(page, {})
    BY <1>1 DEF BrowseType
  <2>2. page \in SUBSET Nodes /\ {} \in SUBSET Relations
    OBVIOUS
  <2> QED
    BY <2>1, <2>2, AbsorbStep
<1>2. CASE LoadNodes
  <2>1. PICK nodes \in SUBSET Nodes : Absorb(nodes, {})
    BY <1>2 DEF LoadNodes
  <2>2. {} \in SUBSET Relations
    OBVIOUS
  <2> QED
    BY <2>1, <2>2, AbsorbStep
<1>3. CASE LoadEntities
  <2>1. PICK nodes \in SUBSET Nodes, rels \in SUBSET Relations :
          Absorb(nodes \cup Ends(rels), rels)
    BY <1>3 DEF LoadEntities
  <2>2. nodes \cup Ends(rels) \in SUBSET Nodes
    BY GraphAssumption DEF Ends
  <2> QED
    BY <2>1, <2>2, AbsorbStep
<1>4. CASE Cypher
  BY <1>4, AbsorbStep DEF Cypher
<1>5. CASE Expand
  <2>1. \A seeds : Incident(seeds) \subseteq Relations
    BY DEF Incident
  <2>2. \A rels \in SUBSET Relations : Ends(rels) \subseteq Nodes
    BY GraphAssumption DEF Ends
  <2>3. PICK s \in LiveSlots(view) :
          \E rels \in SUBSET Incident(Seeds(s)) :
            \E nodes \in SUBSET Ends(Incident(Seeds(s))) : Absorb(nodes, rels)
    BY <1>5 DEF Expand
  <2>4. PICK rels \in SUBSET Relations, nodes \in SUBSET Nodes : Absorb(nodes, rels)
    BY <2>1, <2>2, <2>3
  <2> QED
    BY <2>4, AbsorbStep
<1>6. CASE Collapse
  <2>1. \E doomed \in SUBSET NodeSlots(view) :
          FinishSlice(TombstoneSlots(view, doomed), {}, doomed)
    BY <1>6 DEF Collapse, InstancesOf, NodeSlots
  <2> QED
    BY <2>1, BuryStep
<1>7. CASE Reset
  BY <1>7, BuryStep DEF Reset
<1> QED
  BY <1>1, <1>2, <1>3, <1>4, <1>5, <1>6, <1>7 DEF Next

LEMMA NextIInv == IInv /\ [Next]_vars => IInv'
<1>1. CASE IInv /\ Next
  <2>1. PICK c, added, doomed :
          /\ c \in ViewRecords /\ Coherent(c) /\ WithinLimits(c)
          /\ Changes(view, c, added, doomed) /\ FinishSlice(c, added, doomed)
    BY <1>1, EveryStep DEF IInv
  <2> QED
    BY <2>1, FinishSliceIInv
<1>2. CASE IInv /\ UNCHANGED vars
  BY <1>2 DEF IInv, Sound, vars
<1> QED
  BY <1>1, <1>2

-----------------------------------------------------------------------------
(***************************************************************************)
(* The invariants of the run, for every graph and every limit.             *)
(***************************************************************************)

\* A committed view is coherent, within its limits and not worth compacting.
THEOREM SlotSpaceInvariant == Spec => []IInv
<1>1. Init => IInv
  BY InitIInv
<1>2. IInv /\ [Next]_vars => IInv'
  BY NextIInv
<1> QED
  BY <1>1, <1>2, PTL DEF Spec

\* The records always have the shape the code declares.
THEOREM SlotSpaceTypeOK == Spec => []TypeOK
<1>1. IInv => TypeOK
  BY DEF IInv, Sound, TypeOK
<1> QED
  BY <1>1, SlotSpaceInvariant, PTL

\* node_slot, type_slot and the counters never disagree with the entries.
THEOREM SlotSpaceSlotsAgree == Spec => []SlotsAgree
<1>1. IInv => SlotsAgree
  BY DEF IInv, Sound, Coherent, SlotsAgree
<1> QED
  BY <1>1, SlotSpaceInvariant, PTL

\* A link on screen never joins anything but its relationship's own ends.
THEOREM SlotSpaceLinksFaithful == Spec => []LinksFaithful
<1>1. IInv => LinksFaithful
  BY DEF IInv, Sound, Coherent, LinksFaithful
<1> QED
  BY <1>1, SlotSpaceInvariant, PTL

LEMMA LiveSlotsCount ==
  ASSUME NEW v \in ViewRecords, Coherent(v), WithinLimits(v)
  PROVE  /\ Cardinality(LiveSlots(v)) \in Nat
         /\ Cardinality(LiveSlots(v)) <= TypeCount + MaxLoadedNodes
<1>1. LiveSlots(v) \subseteq (1..TypeCount) \cup NodeSlots(v)
  <2>1. ASSUME NEW s \in LiveSlots(v), s \notin NodeSlots(v)
        PROVE  s \in 1..TypeCount
    <3>1. s \in Slots(v) /\ v.entries[s] # Tombstone /\ v.entries[s] \notin Nodes
      BY <2>1 DEF LiveSlots, NodeSlots
    <3>2. v.entries[s] \in Entry /\ s \in Nat /\ s >= 1
      BY <3>1, ViewFacts
    <3>3. v.entries[s] \in Types
      BY <3>1, <3>2 DEF Entry
    <3>4. s <= TypeCount
      BY <3>1, <3>3 DEF Coherent, TypesLead
    <3> QED
      BY <3>2, <3>4, TypeFacts
  <2> QED
    BY <2>1
<1>2. IsFiniteSet(1..TypeCount) /\ Cardinality(1..TypeCount) = TypeCount
  BY TypeFacts, FS_Interval
<1>3. /\ IsFiniteSet(NodeSlots(v)) /\ IsFiniteSet(LiveSlots(v)) /\ IsFiniteSet(Loaded(v))
  BY ViewFacts
<1>4. Cardinality(NodeSlots(v)) <= Cardinality(Loaded(v))
  <2> DEFINE f == [s \in NodeSlots(v) |-> v.entries[s]]
  <2>1. \A s \in NodeSlots(v) : v.entries[s] \in Loaded(v)
    <3>1. \A s \in NodeSlots(v) : s # 0 /\ v.entries[s] \in Nodes
      BY ViewFacts DEF NodeSlots
    <3> QED
      BY <3>1 DEF Coherent, MapsInvertEntries, Loaded, NoSlot
  <2>2. \A s, t \in NodeSlots(v) : v.entries[s] = v.entries[t] => s = t
    <3>1. \A s \in NodeSlots(v) : v.node_slot[v.entries[s]] = s
      BY DEF Coherent, MapsInvertEntries
    <3> QED
      BY <3>1
  <2>3. f \in Injection(NodeSlots(v), Loaded(v))
    BY <2>1, <2>2 DEF Injection, IsInjective
  <2> QED
    BY <1>3, <2>3, FS_Injection
<1>5. /\ IsFiniteSet((1..TypeCount) \cup NodeSlots(v))
      /\ Cardinality((1..TypeCount) \cup NodeSlots(v))
           = TypeCount + Cardinality(NodeSlots(v))
             - Cardinality((1..TypeCount) \cap NodeSlots(v))
  BY <1>2, <1>3, FS_Union
<1>6. Cardinality(LiveSlots(v)) <= Cardinality((1..TypeCount) \cup NodeSlots(v))
  BY <1>1, <1>5, FS_Subset
<1>7. Cardinality((1..TypeCount) \cap NodeSlots(v)) \in Nat
  BY <1>2, FS_Intersection, FS_CardinalityType
<1>8. /\ Cardinality(LiveSlots(v)) \in Nat /\ Cardinality(NodeSlots(v)) \in Nat
      /\ Cardinality(Loaded(v)) \in Nat
  BY <1>3, FS_CardinalityType
<1>9. Cardinality(Loaded(v)) <= MaxLoadedNodes
  BY DEF WithinLimits
<1> QED
  BY <1>4, <1>5, <1>6, <1>7, <1>8, <1>9, TypeFacts, LimitsAssumption

LEMMA SlotsCount ==
  ASSUME NEW v \in ViewRecords, Coherent(v)
  PROVE  Len(v.entries) = v.tombstones + Cardinality(LiveSlots(v))
<1>1. IsFiniteSet(Slots(v)) /\ IsFiniteSet(LiveSlots(v)) /\ LiveSlots(v) \subseteq Slots(v)
  BY ViewFacts
<1>2. Cardinality(Slots(v) \ LiveSlots(v))
        = Cardinality(Slots(v)) - Cardinality(Slots(v) \cap LiveSlots(v))
  BY <1>1, FS_Difference
<1>3. Slots(v) \cap LiveSlots(v) = LiveSlots(v)
  BY <1>1
<1>4. Cardinality(Slots(v)) = Len(v.entries)
  <2>1. Len(v.entries) \in Nat
    BY ViewFacts
  <2>2. \A n \in Nat : Cardinality(1..n) = n
    BY FS_Interval
  <2> QED
    BY <2>1, <2>2 DEF Slots
<1>5. v.tombstones = Cardinality(Slots(v) \ LiveSlots(v))
  BY DEF Coherent, CountsExact
<1>6. Cardinality(Slots(v)) \in Nat /\ Cardinality(LiveSlots(v)) \in Nat
  BY <1>1, FS_CardinalityType
<1>7. \A l, n, m \in Nat : \A d : d = n - m /\ n = l => l = d + m
  OBVIOUS
<1>8. v.tombstones = Cardinality(Slots(v)) - Cardinality(LiveSlots(v))
  BY <1>2, <1>3, <1>5
<1>9. Len(v.entries) \in Nat
  BY ViewFacts
<1> QED
  BY <1>4, <1>6, <1>7, <1>8, <1>9

LEMMA SoundIsBounded == Sound(view) => SpaceBounded
<1> SUFFICES ASSUME Sound(view) PROVE SpaceBounded
  OBVIOUS
<1> DEFINE len == Len(view.entries)
           live == Cardinality(LiveSlots(view))
           limit == TypeCount + MaxLoadedNodes
<1>1. CASE len >= MinSlots
  <2>1. len \in Nat /\ view.tombstones \in Nat /\ limit \in Nat
    BY ViewFacts, TypeFacts, LimitsAssumption DEF Sound
  <2>2. live \in Nat /\ live <= limit
    BY LiveSlotsCount DEF Sound
  <2>3. view.tombstones * RatioDen < len * RatioNum
    BY <1>1, <2>1, RatioAssumption DEF Sound, ShouldCompact
  <2>4. len = view.tombstones + live
    BY SlotsCount DEF Sound
  <2>5. len * (RatioDen - RatioNum) < limit * RatioDen
    <3>1. RatioDen \in Nat /\ RatioNum \in Nat
      BY RatioAssumption
    <3>2. \A a, b, c, d, e \in Nat :
            a * d < (a + b) * e /\ b <= c => (a + b) * (d - e) < c * d
      <4> TAKE a, b, c, d, e \in Nat
      <4>1. (a + b) * (d - e) = a * d + b * d - (a + b) * e
        OBVIOUS
      <4>2. b <= c => b * d <= c * d
        OBVIOUS
      <4>3. a * d \in Nat /\ b * d \in Nat /\ c * d \in Nat /\ (a + b) * e \in Nat
        OBVIOUS
      <4> QED
        BY <4>1, <4>2, <4>3
    <3> QED
      BY <2>1, <2>2, <2>3, <2>4, <3>1, <3>2
  <2> QED
    BY <2>5 DEF SpaceBounded, Sound, WithinLimits
<1>2. CASE ~(len >= MinSlots)
  <2>1. len < MinSlots
    BY <1>2, ViewFacts, RatioAssumption DEF Sound
  <2> QED
    BY <2>1 DEF SpaceBounded, Sound, WithinLimits
<1> QED
  BY <1>1, <1>2

(***************************************************************************)
(* A view that is not sparse enough to compact is at most a constant factor*)
(* longer than what is live in it, and what is live is within the limits.  *)
(***************************************************************************)
THEOREM SlotSpaceBounded == Spec => []SpaceBounded
<1>1. IInv => SpaceBounded
  BY SoundIsBounded DEF IInv
<1> QED
  BY <1>1, SlotSpaceInvariant, PTL

(***************************************************************************)
(* No step but a compaction gives a slot another entry, or takes a slot    *)
(* away: a slot number held across requests goes stale but never wrong.    *)
(***************************************************************************)
THEOREM SlotSpaceKeepsEntries == Spec => SlotKeepsItsEntry
<1> DEFINE A == ~slice'.compaction.done =>
                  /\ Len(view'.entries) >= Len(view.entries)
                  /\ \A s \in Slots(view) : view'.entries[s] \in {view.entries[s], Tombstone}
<1>1. IInv /\ [Next]_vars => [A]_vars
  <2>1. CASE IInv /\ Next
    <3>1. PICK c, added, doomed :
            /\ c \in ViewRecords /\ Coherent(c) /\ WithinLimits(c)
            /\ Changes(view, c, added, doomed) /\ FinishSlice(c, added, doomed)
      BY <2>1, EveryStep DEF IInv
    <3>2. CASE ShouldCompact(c)
      <4>1. slice'.compaction.done
        BY <3>1, <3>2 DEF FinishSlice
      <4> QED
        BY <4>1
    <3>3. CASE ~ShouldCompact(c)
      <4>1. view' = c
        BY <3>1, <3>3 DEF FinishSlice, CompactIfSparse
      <4> QED
        BY <2>1, <3>1, <4>1, ChangesFacts DEF IInv, Sound
    <3> QED
      BY <3>2, <3>3
  <2>2. CASE UNCHANGED vars
    BY <2>2
  <2> QED
    BY <2>1, <2>2
<1> QED
  BY <1>1, SlotSpaceInvariant, PTL DEF Spec, SlotKeepsItsEntry
-----------------------------------------------------------------------------
(* A client's copy, field by field. *)

IsReplica(r) ==
  r = [labels     |-> r.labels,
       slotOfNode |-> r.slotOfNode,
       tombstones |-> r.tombstones,
       blank      |-> r.blank,
       slot_count |-> r.slot_count,
       edges      |-> r.edges]

LEMMA ScreenFields ==
  ASSUME NEW v
  PROVE  /\ IsReplica(Screen(v))
         /\ Screen(v).labels = [s \in LiveSlots(v) |-> v.entries[s]]
         /\ Screen(v).slotOfNode = [n \in Loaded(v) |-> v.node_slot[n]]
         /\ Screen(v).tombstones = Slots(v) \ LiveSlots(v)
         /\ Screen(v).blank = Slots(v) \ LiveSlots(v)
         /\ Screen(v).slot_count = Len(v.entries)
         /\ Screen(v).edges = v.edges
BY DEF Screen, IsReplica

LEMMA IsScreen ==
  ASSUME NEW v, NEW r, IsReplica(r),
         r.labels = [s \in LiveSlots(v) |-> v.entries[s]],
         r.slotOfNode = [n \in Loaded(v) |-> v.node_slot[n]],
         r.tombstones = Slots(v) \ LiveSlots(v),
         r.blank = Slots(v) \ LiveSlots(v),
         r.slot_count = Len(v.entries),
         r.edges = v.edges
  PROVE  r = Screen(v)
BY DEF Screen, IsReplica

Alters(r, a, b, c, q) == q = [r EXCEPT !.labels = a, !.slotOfNode = b, !.tombstones = c]

LEMMA StillReplica ==
  ASSUME NEW r, IsReplica(r), NEW a, NEW b, NEW c,
         NEW q, Alters(r, a, b, c, q)
  PROVE  /\ IsReplica(q) /\ q.labels = a /\ q.slotOfNode = b /\ q.tombstones = c
         /\ q.blank = r.blank /\ q.slot_count = r.slot_count /\ q.edges = r.edges
<1>1. PICK d, e, f, g, h, i :
        r = [labels |-> g, slotOfNode |-> h, tombstones |-> i,
             blank |-> d, slot_count |-> e, edges |-> f]
  BY DEF IsReplica
<1>2. q = [labels |-> a, slotOfNode |-> b, tombstones |-> c,
           blank |-> d, slot_count |-> e, edges |-> f]
  BY <1>1 DEF Alters
<1> QED
  BY <1>1, <1>2 DEF IsReplica

\* Learning and forgetting touch the names, the index and the holes.
Learned(r, sl, l) ==
  /\ IsReplica(l)
  /\ l.labels = [s \in DOMAIN r.labels \cup {x.slot : x \in sl.nodes} |->
                   IF s \in {x.slot : x \in sl.nodes}
                   THEN (CHOOSE x \in sl.nodes : x.slot = s).node
                   ELSE r.labels[s]]
  /\ l.slotOfNode = [n \in DOMAIN r.slotOfNode \cup {x.node : x \in sl.nodes} |->
                       IF n \in {x.node : x \in sl.nodes}
                       THEN (CHOOSE x \in sl.nodes : x.node = n).slot
                       ELSE r.slotOfNode[n]]
  /\ l.tombstones = r.tombstones \ {x.slot : x \in sl.nodes}
  /\ l.blank = r.blank /\ l.slot_count = r.slot_count

LEMMA LearnFields ==
  ASSUME NEW r, IsReplica(r), NEW sl
  PROVE  Learned(r, sl, Learn(r, sl))
<1> DEFINE l == Learn(r, sl)
<1>1. IsReplica(l) /\ l.blank = r.blank /\ l.slot_count = r.slot_count
  <2>1. PICK a, b, c : Alters(r, a, b, c, l)
    BY Zenon DEF Learn, Alters
  <2> HIDE DEF l
  <2> QED
    BY <2>1, StillReplica
<1>2. l.labels = [s \in DOMAIN r.labels \cup {x.slot : x \in sl.nodes} |->
                    IF s \in {x.slot : x \in sl.nodes}
                    THEN (CHOOSE x \in sl.nodes : x.slot = s).node
                    ELSE r.labels[s]]
  BY DEF IsReplica, Learn
<1>3. l.slotOfNode = [n \in DOMAIN r.slotOfNode \cup {x.node : x \in sl.nodes} |->
                        IF n \in {x.node : x \in sl.nodes}
                        THEN (CHOOSE x \in sl.nodes : x.node = n).slot
                        ELSE r.slotOfNode[n]]
  BY DEF IsReplica, Learn
<1>4. l.tombstones = r.tombstones \ {x.slot : x \in sl.nodes}
  BY DEF IsReplica, Learn
<1> QED
  BY <1>1, <1>2, <1>3, <1>4 DEF Learned

Forgotten(r, doomed, f) ==
  /\ IsReplica(f)
  /\ f.labels = [s \in DOMAIN r.labels \ doomed |-> r.labels[s]]
  /\ f.slotOfNode =
       [n \in DOMAIN r.slotOfNode \ {r.labels[s] : s \in doomed \cap DOMAIN r.labels} |->
          r.slotOfNode[n]]
  /\ f.tombstones = r.tombstones \cup doomed
  /\ f.blank = r.blank /\ f.slot_count = r.slot_count

LEMMA ForgetFields ==
  ASSUME NEW r, IsReplica(r), NEW doomed
  PROVE  Forgotten(r, doomed, Forget(r, doomed))
<1> DEFINE f == Forget(r, doomed)
<1>1. IsReplica(f) /\ f.blank = r.blank /\ f.slot_count = r.slot_count
  <2>1. PICK a, b, c : Alters(r, a, b, c, f)
    BY Zenon DEF Forget, Alters
  <2> HIDE DEF f
  <2> QED
    BY <2>1, StillReplica
<1>2. f.labels = [s \in DOMAIN r.labels \ doomed |-> r.labels[s]]
  BY DEF IsReplica, Forget, Cut
<1>3. f.slotOfNode =
        [n \in DOMAIN r.slotOfNode \ {r.labels[s] : s \in doomed \cap DOMAIN r.labels} |->
           r.slotOfNode[n]]
  BY DEF IsReplica, Forget, Cut
<1>4. f.tombstones = r.tombstones \cup doomed
  BY DEF IsReplica, Forget
<1> QED
  BY <1>1, <1>2, <1>3, <1>4 DEF Forgotten

-----------------------------------------------------------------------------
(* What a request told. *)

LEMMA ShapeFacts ==
  ASSUME NEW v \in ViewRecords, Coherent(v)
  PROVE  /\ Len(v.entries) \in Nat /\ Slots(v) = 1..Len(v.entries)
         /\ NodeSlots(v) \subseteq LiveSlots(v) /\ LiveSlots(v) \subseteq Slots(v)
         /\ \A s \in Slots(v) : v.entries[s] \in Nodes => s \in NodeSlots(v)
         /\ \A s \in NodeSlots(v) : v.entries[s] \in Loaded(v) /\ v.node_slot[v.entries[s]] = s
         /\ \A n \in Loaded(v) : v.node_slot[n] \in NodeSlots(v) /\ v.entries[v.node_slot[n]] = n
         /\ \A n \in Nodes : v.node_slot[n] \in Slots(v) => n \in Loaded(v)
<1>1. Len(v.entries) \in Nat /\ Slots(v) = 1..Len(v.entries) /\ 0 \notin Slots(v)
  BY ViewFacts DEF Slots
<1>2. NodeSlots(v) \subseteq LiveSlots(v) /\ LiveSlots(v) \subseteq Slots(v)
  BY EntriesAssumption DEF NodeSlots, LiveSlots
<1>3. \A n \in Nodes : v.node_slot[n] \in Slots(v) => n \in Loaded(v)
  BY <1>1 DEF Loaded, NoSlot
<1>4. MapsInvertEntries(v)
  BY DEF Coherent
<1>5. \A s \in NodeSlots(v) : v.entries[s] \in Loaded(v) /\ v.node_slot[v.entries[s]] = s
  BY <1>3, <1>4 DEF MapsInvertEntries, NodeSlots
<1>6. \A n \in Loaded(v) : v.node_slot[n] \in NodeSlots(v) /\ v.entries[v.node_slot[n]] = n
  BY <1>4 DEF MapsInvertEntries, NodeSlots, Loaded
<1> QED
  BY <1>1, <1>2, <1>3, <1>5, <1>6 DEF NodeSlots

\* New is where the added nodes are, Gone what was in the doomed slots.
New(v, w) == Slots(w) \ Slots(v)
Gone(v, doomed) == {v.entries[s] : s \in doomed}

LEMMA ChangedSlots ==
  ASSUME NEW v \in ViewRecords, NEW w \in ViewRecords, Coherent(v), Coherent(w),
         NEW added, NEW doomed, Changes(v, w, added, doomed)
  PROVE  /\ Slots(v) \subseteq Slots(w) /\ doomed \subseteq LiveSlots(v)
         /\ New(v, w) = {w.node_slot[n] : n \in added}
         /\ LiveSlots(w) = (LiveSlots(v) \ doomed) \cup New(v, w)
         /\ Slots(w) \ LiveSlots(w) = (Slots(v) \ LiveSlots(v)) \cup doomed
         /\ \A s \in LiveSlots(v) \ doomed : w.entries[s] = v.entries[s]
<1>1. /\ Len(v.entries) \in Nat /\ Slots(v) = 1..Len(v.entries)
      /\ Len(w.entries) \in Nat /\ Slots(w) = 1..Len(w.entries)
      /\ Len(w.entries) >= Len(v.entries)
  BY ShapeFacts, ChangesFacts
<1>2. Slots(v) \subseteq Slots(w)
  BY <1>1
<1>3. doomed \subseteq LiveSlots(v) /\ LiveSlots(v) \subseteq Slots(v)
  BY ShapeFacts DEF Changes
<1>4. \A s \in Slots(v) : w.entries[s] = IF s \in doomed THEN Tombstone ELSE v.entries[s]
  BY DEF Changes
<1>5. \A s \in New(v, w) : /\ w.entries[s] \in added /\ w.entries[s] \in Nodes
                           /\ w.entries[s] # Tombstone /\ w.node_slot[w.entries[s]] = s
  <2> TAKE s \in New(v, w)
  <2>1. w.entries[s] \in added /\ w.entries[s] \in Nodes /\ s \in Slots(w)
    BY DEF Changes, New
  <2>2. s \in NodeSlots(w)
    BY <2>1 DEF NodeSlots
  <2>3. w.node_slot[w.entries[s]] = s
    BY <2>2, ShapeFacts
  <2> QED
    BY <2>1, <2>3, EntriesAssumption
<1>6. New(v, w) = {w.node_slot[n] : n \in added}
  <2>1. \A n \in added : w.node_slot[n] \in New(v, w)
    BY DEF Changes, New
  <2> QED
    BY <1>5, <2>1
<1>7. LiveSlots(w) = (LiveSlots(v) \ doomed) \cup New(v, w)
  BY <1>2, <1>4, <1>5 DEF LiveSlots, New
<1>8. Slots(w) \ LiveSlots(w) = (Slots(v) \ LiveSlots(v)) \cup doomed
  BY <1>2, <1>3, <1>7 DEF New
<1> QED
  BY <1>2, <1>3, <1>4, <1>6, <1>7, <1>8

LEMMA ChangedNodes ==
  ASSUME NEW v \in ViewRecords, NEW w \in ViewRecords, Coherent(v), Coherent(w),
         NEW added, NEW doomed, Changes(v, w, added, doomed)
  PROVE  /\ added \subseteq Nodes /\ added \cap Gone(v, doomed) = {}
         /\ Loaded(w) = (Loaded(v) \ Gone(v, doomed)) \cup added
         /\ \A n \in Loaded(w) \ added : w.node_slot[n] = v.node_slot[n]
         /\ \A n \in added : w.node_slot[n] \in NodeSlots(w) /\ w.entries[w.node_slot[n]] = n
<1>1. added \subseteq Nodes /\ (added = {} \/ doomed = {}) /\ doomed \subseteq NodeSlots(v)
  BY DEF Changes
<1>2. added \cap Gone(v, doomed) = {}
  BY <1>1 DEF Gone
<1>3. \A n \in added : n \in Loaded(w) /\ w.node_slot[n] \in NodeSlots(w)
                       /\ w.entries[w.node_slot[n]] = n
  <2>1. \A n \in added : w.node_slot[n] \in Slots(w)
    BY DEF Changes
  <2> QED
    BY <1>1, <2>1, ShapeFacts
<1>4. ASSUME NEW n \in Loaded(v) \ Gone(v, doomed)
      PROVE  n \in Loaded(w) /\ w.node_slot[n] = v.node_slot[n]
  <2>1. PICK s \in NodeSlots(v) : s = v.node_slot[n] /\ v.entries[s] = n
    BY ShapeFacts
  <2>2. s \notin doomed /\ s \in LiveSlots(v) /\ n \in Nodes
    BY <2>1, ShapeFacts DEF Gone, Loaded
  <2>3. s \in Slots(w) /\ w.entries[s] = n
    BY <2>1, <2>2, ChangedSlots DEF LiveSlots
  <2>4. s \in NodeSlots(w)
    BY <2>2, <2>3 DEF NodeSlots
  <2> QED
    BY <2>1, <2>3, <2>4, ShapeFacts
<1>5. ASSUME NEW n \in Loaded(w), n \notin added
      PROVE  n \in Loaded(v) \ Gone(v, doomed)
  <2>1. PICK s \in NodeSlots(w) : s = w.node_slot[n] /\ w.entries[s] = n
    BY ShapeFacts
  <2>2. s \in Slots(v)
    <3>1. s \in Slots(w)
      BY DEF NodeSlots
    <3> QED
      BY <1>5, <2>1, <3>1 DEF Changes
  <2>3. n \in Nodes /\ n # Tombstone
    BY EntriesAssumption DEF Loaded
  <2>4. s \notin doomed /\ v.entries[s] = n
    BY <2>1, <2>2, <2>3 DEF Changes
  <2>5. s \in NodeSlots(v)
    BY <2>2, <2>3, <2>4 DEF NodeSlots
  <2>6. n \in Loaded(v) /\ v.node_slot[n] = s
    BY <2>4, <2>5, ShapeFacts
  <2>7. n \notin Gone(v, doomed)
    <3>1. SUFFICES ASSUME NEW t \in doomed, v.entries[t] = n PROVE FALSE
      BY DEF Gone
    <3>2. t \in NodeSlots(v)
      BY <1>1
    <3>3. v.node_slot[n] = t
      BY <3>1, <3>2, ShapeFacts
    <3> QED
      BY <2>4, <2>6, <3>3
  <2> QED
    BY <2>6, <2>7
<1>6. \A n \in Loaded(w) \ added : w.node_slot[n] = v.node_slot[n]
  BY <1>4, <1>5
<1> QED
  BY <1>1, <1>2, <1>3, <1>4, <1>5, <1>6

\* What a slice says of the nodes that came.
Names(w, added) == {[slot |-> w.node_slot[n], node |-> n] : n \in added}

LEMMA NamedSlots ==
  ASSUME NEW v \in ViewRecords, NEW w \in ViewRecords, Coherent(v), Coherent(w),
         NEW added, NEW doomed, Changes(v, w, added, doomed),
         NEW N, N = Names(w, added)
  PROVE  /\ {x.slot : x \in N} = New(v, w)
         /\ {x.node : x \in N} = added
         /\ \A s \in New(v, w) : (CHOOSE x \in N : x.slot = s).node = w.entries[s]
         /\ \A n \in added : (CHOOSE x \in N : x.node = n).slot = w.node_slot[n]
<1>1. /\ \A n \in added : [slot |-> w.node_slot[n], node |-> n] \in N
      /\ \A x \in N : x.node \in added /\ x.slot = w.node_slot[x.node]
  BY DEF Names
<1>2. New(v, w) = {w.node_slot[n] : n \in added}
  BY ChangedSlots
<1>3. {x.slot : x \in N} = New(v, w)
  BY <1>1, <1>2
<1>4. {x.node : x \in N} = added
  <2>1. \A n \in added : \E x \in N : x.node = n
    <3> TAKE n \in added
    <3>1. [slot |-> w.node_slot[n], node |-> n] \in N
      BY <1>1
    <3> QED
      BY <3>1
  <2> QED
    BY <1>1, <2>1
<1>5. \A n \in added : w.entries[w.node_slot[n]] = n
  BY ChangedNodes
<1>6. ASSUME NEW s \in New(v, w) PROVE (CHOOSE x \in N : x.slot = s).node = w.entries[s]
  <2>1. \E x \in N : x.slot = s
    BY <1>3
  <2>2. PICK x \in N : x = (CHOOSE y \in N : y.slot = s) /\ x.slot = s
    BY <2>1
  <2>3. x.node \in added /\ w.node_slot[x.node] = s
    BY <1>1, <2>2
  <2>4. w.entries[s] = x.node
    BY <1>5, <2>3
  <2> QED
    BY <2>2, <2>4
<1>7. ASSUME NEW n \in added PROVE (CHOOSE x \in N : x.node = n).slot = w.node_slot[n]
  <2>1. \E x \in N : x.node = n
    BY <1>4
  <2>2. PICK x \in N : x = (CHOOSE y \in N : y.node = n) /\ x.node = n
    BY <2>1
  <2> QED
    BY <1>1, <2>2
<1> QED
  BY <1>3, <1>4, <1>6, <1>7

\* Named and forgotten, the old screen has the names of the new view, and not yet its size.
LEMMA ToldScreen ==
  ASSUME NEW v \in ViewRecords, NEW w \in ViewRecords, Coherent(v), Coherent(w),
         NEW added, NEW doomed, Changes(v, w, added, doomed),
         NEW sl, sl.nodes = Names(w, added),
         NEW t, t = Forget(Learn(Screen(v), sl), doomed)
  PROVE  /\ IsReplica(t)
         /\ t.labels = [s \in LiveSlots(w) |-> w.entries[s]]
         /\ t.slotOfNode = [n \in Loaded(w) |-> w.node_slot[n]]
         /\ t.tombstones = Slots(w) \ LiveSlots(w)
         /\ t.blank = Slots(v) \ LiveSlots(v)
         /\ t.slot_count = Len(v.entries)
<1> DEFINE new == New(v, w)
           gone == Gone(v, doomed)
<1>1. PICK r :
      /\ r = Screen(v) /\ IsReplica(r)
      /\ r.labels = [s \in LiveSlots(v) |-> v.entries[s]]
      /\ r.slotOfNode = [n \in Loaded(v) |-> v.node_slot[n]]
      /\ r.tombstones = Slots(v) \ LiveSlots(v)
      /\ r.blank = Slots(v) \ LiveSlots(v)
      /\ r.slot_count = Len(v.entries)
  BY ScreenFields
<1>2. PICK N : N = sl.nodes
  OBVIOUS
<1>3. /\ {x.slot : x \in N} = new /\ {x.node : x \in N} = added
      /\ \A s \in new : (CHOOSE x \in N : x.slot = s).node = w.entries[s]
      /\ \A n \in added : (CHOOSE x \in N : x.node = n).slot = w.node_slot[n]
  BY <1>2, NamedSlots
<1>4. /\ Slots(v) \subseteq Slots(w) /\ doomed \subseteq LiveSlots(v)
      /\ new \cap Slots(v) = {} /\ LiveSlots(v) \subseteq Slots(v)
      /\ LiveSlots(w) = (LiveSlots(v) \ doomed) \cup new
      /\ Slots(w) \ LiveSlots(w) = (Slots(v) \ LiveSlots(v)) \cup doomed
      /\ \A s \in LiveSlots(v) \ doomed : w.entries[s] = v.entries[s]
  BY ChangedSlots, ShapeFacts DEF New
<1>5. /\ added \cap gone = {} /\ Loaded(w) = (Loaded(v) \ gone) \cup added
      /\ \A n \in Loaded(w) \ added : w.node_slot[n] = v.node_slot[n]
  BY ChangedNodes
<1>6. PICK l : l = Learn(r, sl) /\ Learned(r, sl, l)
  BY <1>1, LearnFields
<1>7. l.labels = [s \in LiveSlots(v) \cup new |-> IF s \in new THEN w.entries[s] ELSE v.entries[s]]
  BY <1>1, <1>2, <1>3, <1>6 DEF Learned
<1>8. l.slotOfNode = [n \in Loaded(v) \cup added |->
                        IF n \in added THEN w.node_slot[n] ELSE v.node_slot[n]]
  BY <1>1, <1>2, <1>3, <1>6 DEF Learned
<1>9. /\ l.tombstones = Slots(v) \ LiveSlots(v) /\ IsReplica(l)
      /\ l.blank = r.blank /\ l.slot_count = r.slot_count
  BY <1>1, <1>2, <1>3, <1>4, <1>6 DEF Learned
<1> HIDE DEF new, gone
<1>10. Forgotten(l, doomed, t)
  BY <1>1, <1>6, <1>9, ForgetFields
<1>11. {l.labels[s] : s \in doomed \cap DOMAIN l.labels} = gone
  <2>1. doomed \cap DOMAIN l.labels = doomed
    BY <1>4, <1>7
  <2>2. \A s \in doomed : l.labels[s] = v.entries[s]
    BY <1>4, <1>7
  <2> QED
    BY <2>1, <2>2 DEF gone, Gone
<1>12. t.labels = [s \in LiveSlots(w) |-> w.entries[s]]
  <2>1. DOMAIN l.labels \ doomed = LiveSlots(w)
    BY <1>4, <1>7
  <2>2. \A s \in LiveSlots(w) : l.labels[s] = w.entries[s]
    BY <1>4, <1>7
  <2> QED
    BY <1>10, <2>1, <2>2 DEF Forgotten
<1>13. t.slotOfNode = [n \in Loaded(w) |-> w.node_slot[n]]
  <2>1. DOMAIN l.slotOfNode \ gone = Loaded(w)
    BY <1>5, <1>8
  <2>2. \A n \in Loaded(w) : l.slotOfNode[n] = w.node_slot[n]
    BY <1>5, <1>8
  <2> QED
    BY <1>10, <1>11, <2>1, <2>2 DEF Forgotten
<1> QED
  BY <1>1, <1>4, <1>9, <1>10, <1>12, <1>13 DEF Forgotten

-----------------------------------------------------------------------------
(* What a slice makes of the old screen. *)

Sized(t, c, b, q) == q = [t EXCEPT !.slot_count = c, !.blank = b]
Linked(t, e, q) == q = [t EXCEPT !.edges = e]
Settled(t, c, b, e, q) == q = [t EXCEPT !.slot_count = c, !.blank = b, !.edges = e]

LEMMA SettledFields ==
  ASSUME NEW t, IsReplica(t), NEW c, NEW b, NEW e, NEW q, Settled(t, c, b, e, q)
  PROVE  /\ IsReplica(q)
         /\ q.labels = t.labels /\ q.slotOfNode = t.slotOfNode /\ q.tombstones = t.tombstones
         /\ q.slot_count = c /\ q.blank = b /\ q.edges = e
<1>1. PICK d, f, g, h, i, j :
        t = [labels |-> g, slotOfNode |-> h, tombstones |-> i,
             blank |-> d, slot_count |-> j, edges |-> f]
  BY DEF IsReplica
<1>2. q = [labels |-> g, slotOfNode |-> h, tombstones |-> i,
           blank |-> b, slot_count |-> c, edges |-> e]
  BY <1>1 DEF Settled
<1> QED
  BY <1>1, <1>2 DEF IsReplica

LEMMA SizedAndLinked ==
  ASSUME NEW t, IsReplica(t), NEW c, NEW b, NEW e, NEW p, Sized(t, c, b, p),
         NEW q, Linked(p, e, q)
  PROVE  Settled(t, c, b, e, q)
<1>1. PICK d, f, g, h, i, j :
        t = [labels |-> g, slotOfNode |-> h, tombstones |-> i,
             blank |-> d, slot_count |-> j, edges |-> f]
  BY DEF IsReplica
<1>2. p = [labels |-> g, slotOfNode |-> h, tombstones |-> i,
           blank |-> b, slot_count |-> c, edges |-> f]
  BY <1>1 DEF Sized
<1>3. q = [labels |-> g, slotOfNode |-> h, tombstones |-> i,
           blank |-> b, slot_count |-> c, edges |-> e]
  BY <1>2 DEF Linked
<1>4. PICK s : Settled(t, c, b, e, s)
  BY DEF Settled
<1>5. s = [labels |-> g, slotOfNode |-> h, tombstones |-> i,
           blank |-> b, slot_count |-> c, edges |-> e]
  BY <1>1, <1>4 DEF Settled
<1> QED
  BY <1>3, <1>4, <1>5

\* What every slice of a request says, the view before it is compacted being w.
Describes(sl, w, added, doomed) ==
  /\ sl.nodes = Names(w, added)
  /\ sl.tombstones = doomed

LEMMA PlainSlice ==
  ASSUME NEW v \in ViewRecords, NEW w \in ViewRecords, Coherent(v), Coherent(w),
         NEW added, NEW doomed, Changes(v, w, added, doomed),
         NEW sl, Describes(sl, w, added, doomed), ~sl.compaction.done,
         sl.first_slot = Len(w.entries) - Cardinality(added) + 1,
         sl.slot_count = Len(w.entries), sl.edges = w.edges
  PROVE  ApplySlice(Screen(v), sl) = Screen(w)
<1>1. PICK t : /\ t = Forget(Learn(Screen(v), sl), sl.tombstones)
               /\ t = Forget(Learn(Screen(v), sl), doomed)
  BY DEF Describes
<1>2. /\ IsReplica(t)
      /\ t.labels = [s \in LiveSlots(w) |-> w.entries[s]]
      /\ t.slotOfNode = [n \in Loaded(w) |-> w.node_slot[n]]
      /\ t.tombstones = Slots(w) \ LiveSlots(w)
      /\ t.blank = Slots(v) \ LiveSlots(v)
      /\ t.slot_count = Len(v.entries)
  BY <1>1, ToldScreen DEF Describes
<1>3. PICK count : count = IF sl.slot_count > t.slot_count THEN sl.slot_count ELSE t.slot_count
  OBVIOUS
<1>4. PICK blank : blank = (t.blank \ (sl.first_slot..sl.slot_count)) \cup sl.tombstones
  OBVIOUS
<1>5. PICK p, q : /\ p = Splice(t, sl) /\ Sized(t, count, blank, p)
                  /\ Linked(p, sl.edges, q) /\ q = ApplySlice(Screen(v), sl)
  <2>1. Sized(t, count, blank, Splice(t, sl))
    BY <1>3, <1>4, Zenon DEF Splice, Sized
  <2>2. ApplySlice(Screen(v), sl) = [Splice(t, sl) EXCEPT !.edges = sl.edges]
    BY <1>1, Zenon DEF ApplySlice
  <2>3. Linked(Splice(t, sl), sl.edges, ApplySlice(Screen(v), sl))
    BY <2>2, Zenon DEF Linked
  <2> QED
    BY <2>1, <2>3
<1>6. /\ IsReplica(q) /\ q.labels = t.labels /\ q.slotOfNode = t.slotOfNode
      /\ q.tombstones = t.tombstones
      /\ q.slot_count = count /\ q.blank = blank /\ q.edges = sl.edges
  <2>1. Settled(t, count, blank, sl.edges, q)
    BY <1>2, <1>5, SizedAndLinked
  <2> QED
    BY <1>2, <2>1, SettledFields
<1>7. /\ Len(v.entries) \in Nat /\ Len(w.entries) \in Nat /\ Cardinality(added) \in Nat
      /\ Len(w.entries) = Len(v.entries) + Cardinality(added)
      /\ Slots(v) = 1..Len(v.entries)
  BY ShapeFacts, ChangesFacts DEF Changes
<1>8. count = Len(w.entries)
  BY <1>2, <1>3, <1>7
<1>9. blank = Slots(w) \ LiveSlots(w)
  <2>1. sl.first_slot = Len(v.entries) + 1
    BY <1>7
  <2>2. t.blank \ (sl.first_slot..sl.slot_count) = Slots(v) \ LiveSlots(v)
    BY <1>2, <1>7, <2>1
  <2>3. Slots(w) \ LiveSlots(w) = (Slots(v) \ LiveSlots(v)) \cup doomed
    BY ChangedSlots
  <2> QED
    BY <1>4, <2>2, <2>3 DEF Describes
<1>10. q = Screen(w)
  BY <1>2, <1>6, <1>8, <1>9, IsScreen
<1> QED
  BY <1>5, <1>10

-----------------------------------------------------------------------------
(* Compaction: names first, then the remap. *)

LEMMA CompactShape ==
  ASSUME NEW w \in ViewRecords, Coherent(w), NEW c, c = Compact(w)
  PROVE  /\ c \in ViewRecords /\ Coherent(c)
         /\ LiveSlots(c) = Slots(c)
         /\ LiveSlots(c) = {NewSlot(w, s) : s \in LiveSlots(w)}
         /\ \A s \in LiveSlots(w) : c.entries[NewSlot(w, s)] = w.entries[s]
<1>1. c \in ViewRecords /\ Coherent(c)
  BY CompactCoherent
<1>2. PICK C : Compacted(w, c, C)
  BY CompactFields
<1>3. NodeSlots(w) \subseteq LiveSlots(w)
  BY ShapeFacts
<1>4. /\ \A s \in LiveSlots(w) : NewSlot(w, s) \in Slots(c)
      /\ \A i \in Slots(c) : \E s \in LiveSlots(w) :
           NewSlot(w, s) = i /\ c.entries[i] = w.entries[s]
      /\ LiveSlots(c) = Slots(c)
  BY <1>2, <1>3, CompactedSlots
<1>5. \A s \in LiveSlots(w) : c.entries[NewSlot(w, s)] = w.entries[s]
  BY <1>2, Zenon DEF Compacted
<1> QED
  BY <1>1, <1>4, <1>5

LEMMA RemapScreen ==
  ASSUME NEW w \in ViewRecords, Coherent(w), NEW c, c = Compact(w),
         NEW t, IsReplica(t),
         t.labels = [s \in LiveSlots(w) |-> w.entries[s]],
         NEW q, q = ApplyRemap(t, OldToNew(w))
  PROVE  /\ IsReplica(q)
         /\ q.labels = [s \in LiveSlots(c) |-> c.entries[s]]
         /\ q.slotOfNode = [n \in Loaded(c) |-> c.node_slot[n]]
         /\ q.tombstones = {}
<1> DEFINE o == OldToNew(w)
           moved == DOMAIN t.labels \cap DOMAIN o
           labels == [new \in {o[old] : old \in moved} |->
                        t.labels[CHOOSE old \in moved : o[old] = new]]
           nodes == {labels[s] : s \in DOMAIN labels} \cap Nodes
           index == [n \in nodes |-> CHOOSE s \in DOMAIN labels : labels[s] = n]
<1>1. Alters(t, labels, index, {}, q)
  BY Zenon DEF ApplyRemap, Alters
<1>2. /\ c \in ViewRecords /\ Coherent(c) /\ LiveSlots(c) = Slots(c)
      /\ LiveSlots(c) = {NewSlot(w, s) : s \in LiveSlots(w)}
      /\ \A s \in LiveSlots(w) : c.entries[NewSlot(w, s)] = w.entries[s]
  BY CompactShape
<1>3. moved = LiveSlots(w) /\ \A s \in LiveSlots(w) : o[s] = NewSlot(w, s)
  BY DEF OldToNew
<1>4. {o[old] : old \in moved} = LiveSlots(c)
  BY <1>2, <1>3
<1>5. ASSUME NEW new \in LiveSlots(c)
      PROVE  t.labels[CHOOSE old \in moved : o[old] = new] = c.entries[new]
  <2>1. \E old \in moved : o[old] = new
    BY <1>4
  <2>2. PICK old \in moved : old = (CHOOSE s \in moved : o[s] = new) /\ o[old] = new
    BY <2>1
  <2>3. old \in LiveSlots(w) /\ NewSlot(w, old) = new
    BY <1>3, <2>2
  <2>4. c.entries[new] = w.entries[old] /\ t.labels[old] = w.entries[old]
    BY <1>2, <2>3
  <2> QED
    BY <2>2, <2>4
<1>6. labels = [s \in LiveSlots(c) |-> c.entries[s]]
  <2>1. labels = [new \in LiveSlots(c) |-> t.labels[CHOOSE old \in moved : o[old] = new]]
    BY <1>4
  <2> QED
    BY <1>5, <2>1
<1> HIDE DEF labels
<1>7. nodes = Loaded(c)
  <2>1. nodes = {c.entries[s] : s \in LiveSlots(c)} \cap Nodes
    BY <1>6
  <2>2. \A s \in LiveSlots(c) : c.entries[s] \in Nodes => c.entries[s] \in Loaded(c)
    BY <1>2, ShapeFacts
  <2>3. \A n \in Loaded(c) : n \in Nodes /\ c.node_slot[n] \in LiveSlots(c)
                             /\ c.entries[c.node_slot[n]] = n
    BY <1>2, ShapeFacts DEF Loaded
  <2> QED
    BY <2>1, <2>2, <2>3
<1>8. ASSUME NEW n \in Loaded(c)
      PROVE  (CHOOSE s \in DOMAIN labels : labels[s] = n) = c.node_slot[n]
  <2>1. /\ c.node_slot[n] \in LiveSlots(c) /\ c.entries[c.node_slot[n]] = n /\ n \in Nodes
    BY <1>2, ShapeFacts DEF Loaded
  <2>2. \E s \in DOMAIN labels : labels[s] = n
    BY <1>6, <2>1
  <2>3. PICK s \in DOMAIN labels : s = (CHOOSE x \in DOMAIN labels : labels[x] = n)
                                   /\ labels[s] = n
    BY <2>2
  <2>4. s \in Slots(c) /\ c.entries[s] = n
    BY <1>2, <1>6, <2>3
  <2>5. c.node_slot[n] = s
    BY <1>2, <2>1, <2>4, ShapeFacts
  <2> QED
    BY <2>3, <2>5
<1>9. index = [n \in Loaded(c) |-> c.node_slot[n]]
  <2>1. index = [n \in Loaded(c) |-> CHOOSE s \in DOMAIN labels : labels[s] = n]
    BY <1>7
  <2> QED
    BY <1>8, <2>1
<1> HIDE DEF index
<1>10. /\ IsReplica(q) /\ q.labels = labels /\ q.slotOfNode = index /\ q.tombstones = {}
  BY <1>1, StillReplica
<1> QED
  BY <1>6, <1>9, <1>10

LEMMA CompactingSlice ==
  ASSUME NEW v \in ViewRecords, NEW w \in ViewRecords, Coherent(v), Coherent(w),
         NEW added, NEW doomed, Changes(v, w, added, doomed),
         NEW c, c = Compact(w),
         NEW sl, Describes(sl, w, added, doomed), sl.compaction.done,
         sl.compaction.old_to_new = OldToNew(w),
         sl.slot_count = Len(c.entries), sl.edges = c.edges
  PROVE  ApplySlice(Screen(v), sl) = Screen(c)
<1>1. PICK t : /\ t = Forget(Learn(Screen(v), sl), sl.tombstones)
               /\ t = Forget(Learn(Screen(v), sl), doomed)
  BY DEF Describes
<1>2. IsReplica(t) /\ t.labels = [s \in LiveSlots(w) |-> w.entries[s]]
  <2>1. sl.nodes = Names(w, added) /\ t = Forget(Learn(Screen(v), sl), doomed)
    BY <1>1 DEF Describes
  <2>2. /\ IsReplica(t)
        /\ t.labels = [s \in LiveSlots(w) |-> w.entries[s]]
        /\ t.slotOfNode = [n \in Loaded(w) |-> w.node_slot[n]]
        /\ t.tombstones = Slots(w) \ LiveSlots(w)
        /\ t.blank = Slots(v) \ LiveSlots(v)
        /\ t.slot_count = Len(v.entries)
    BY <2>1, ToldScreen
  <2> QED
    BY <2>2
<1>3. PICK m : m = ApplyRemap(t, OldToNew(w)) /\ m = ApplyRemap(t, sl.compaction.old_to_new)
  OBVIOUS
<1>4. /\ IsReplica(m)
      /\ m.labels = [s \in LiveSlots(c) |-> c.entries[s]]
      /\ m.slotOfNode = [n \in Loaded(c) |-> c.node_slot[n]]
      /\ m.tombstones = {}
  BY <1>2, <1>3, RemapScreen
<1>5. PICK q : q = ApplySlice(Screen(v), sl) /\ Settled(m, sl.slot_count, {}, sl.edges, q)
  <2>1. ApplySlice(Screen(v), sl) =
          [m EXCEPT !.slot_count = sl.slot_count, !.blank = {}, !.edges = sl.edges]
    BY <1>1, <1>3, Zenon DEF ApplySlice
  <2> QED
    BY <2>1, Zenon DEF Settled
<1>6. /\ IsReplica(q) /\ q.labels = m.labels /\ q.slotOfNode = m.slotOfNode
      /\ q.tombstones = m.tombstones
      /\ q.slot_count = sl.slot_count /\ q.blank = {} /\ q.edges = sl.edges
  BY <1>4, <1>5, SettledFields
<1>7. Slots(c) \ LiveSlots(c) = {}
  BY CompactShape
<1>8. q = Screen(c)
  BY <1>4, <1>6, <1>7, IsScreen
<1> QED
  BY <1>5, <1>8

-----------------------------------------------------------------------------
(* A slice takes the old screen to the new one. *)

Follows(v, sl, w) ==
  /\ ApplySlice(Screen(v), sl) = Screen(w)
  /\ ~sl.compaction.done =>
       /\ Slots(v) \subseteq Slots(w)
       /\ \A s \in Slots(v) : w.entries[s] \in {v.entries[s], Tombstone}

LEMMA NextSlice ==
  ASSUME Sound(view), Next
  PROVE  Follows(view, slice', view')
<1>1. PICK w, added, doomed :
        /\ w \in ViewRecords /\ Coherent(w) /\ WithinLimits(w)
        /\ Changes(view, w, added, doomed) /\ FinishSlice(w, added, doomed)
  BY EveryStep
<1>2. PICK v, u, sl : v = view /\ u = view' /\ sl = slice'
  OBVIOUS
<1>3. /\ v \in ViewRecords /\ Coherent(v) /\ Changes(v, w, added, doomed)
  BY <1>1, <1>2 DEF Sound
<1>4. /\ u = CompactIfSparse(w)
      /\ sl = [first_slot |-> IF ShouldCompact(w) THEN 1
                              ELSE Len(w.entries) - Cardinality(added) + 1,
               nodes      |-> {[slot |-> w.node_slot[n], node |-> n] : n \in added},
               tombstones |-> doomed,
               edges      |-> u.edges,
               slot_count |-> Len(u.entries),
               compaction |-> IF ShouldCompact(w)
                              THEN [old_to_new |-> OldToNew(w), done |-> TRUE]
                              ELSE NoCompaction]
  BY <1>1, <1>2 DEF FinishSlice
<1>5. Describes(sl, w, added, doomed) /\ sl.edges = u.edges /\ sl.slot_count = Len(u.entries)
  BY <1>4 DEF Describes, Names
<1>6. CASE ShouldCompact(w)
  <2>1. /\ sl.compaction.done /\ sl.compaction.old_to_new = OldToNew(w)
        /\ u = Compact(w)
    BY <1>4, <1>6 DEF CompactIfSparse
  <2>2. ApplySlice(Screen(v), sl) = Screen(u)
    BY <1>1, <1>3, <1>5, <2>1, CompactingSlice
  <2> QED
    BY <1>2, <2>1, <2>2 DEF Follows
<1>7. CASE ~ShouldCompact(w)
  <2>1. u = w /\ sl.compaction = NoCompaction
    BY <1>4, <1>7 DEF CompactIfSparse
  <2>2. ~sl.compaction.done
    BY <2>1 DEF NoCompaction
  <2>3. sl.first_slot = Len(w.entries) - Cardinality(added) + 1
    BY <1>4, <1>7
  <2>4. ApplySlice(Screen(v), sl) = Screen(w)
    BY <1>1, <1>3, <1>5, <2>1, <2>2, <2>3, PlainSlice
  <2>5. Slots(v) \subseteq Slots(w)
    BY <1>1, <1>3, ChangedSlots
  <2>6. \A s \in Slots(v) : w.entries[s] \in {v.entries[s], Tombstone}
    BY <1>3, ChangesFacts
  <2> QED
    BY <1>2, <2>1, <2>2, <2>4, <2>5, <2>6 DEF Follows
<1> QED
  BY <1>6, <1>7

LEMMA TypesInSlots ==
  ASSUME NEW v \in ViewRecords, Coherent(v)
  PROVE  /\ 1..TypeCount \subseteq LiveSlots(v) \ NodeSlots(v)
         /\ LiveSlots(v) = (1..TypeCount) \cup NodeSlots(v)
         /\ \A s \in 1..TypeCount : v.entries[s] = TypeOrder[s]
<1>1. /\ TypeCount \in Nat /\ Len(v.entries) \in Nat /\ Len(v.entries) >= TypeCount
      /\ Slots(v) = 1..Len(v.entries) /\ v.entries \in [Slots(v) -> Entry]
      /\ \A s \in Slots(v) : v.entries[s] \in Types <=> s <= TypeCount
      /\ \A s \in 1..TypeCount : v.entries[s] = TypeOrder[s]
  BY TypeFacts, ViewFacts DEF Coherent, TypesLead, Slots
<1>2. \A s \in Slots(v) : v.entries[s] \in Types \/ v.entries[s] \in Nodes
                          \/ v.entries[s] = Tombstone
  BY <1>1 DEF Entry
<1>3. \A s \in 1..TypeCount : s \in Slots(v) /\ v.entries[s] \in Types
  BY <1>1
<1>4. \A s \in Slots(v) : v.entries[s] \in Types => s \in 1..TypeCount
  BY <1>1
<1> QED
  BY <1>1, <1>2, <1>3, <1>4, EntriesAssumption DEF LiveSlots, NodeSlots

LEMMA EmptyCopy ==
  ASSUME NEW count, NEW edges
  PROVE  \E r : /\ r = SetMetaGraph(count, edges) /\ IsReplica(r)
                /\ r.labels = TypeOrder /\ DOMAIN r.slotOfNode = {}
                /\ r.tombstones = {} /\ r.blank = {}
                /\ r.slot_count = count /\ r.edges = edges
<1>1. PICK r : r = SetMetaGraph(count, edges)
  OBVIOUS
<1>2. PICK e : e = [n \in {} |-> 0] /\ DOMAIN e = {}
  OBVIOUS
<1>3. r = [labels |-> TypeOrder, slotOfNode |-> e, tombstones |-> {}, blank |-> {},
           slot_count |-> count, edges |-> edges]
  BY <1>1, <1>2, Zenon DEF SetMetaGraph
<1>4. IsReplica(r)
  BY <1>3 DEF IsReplica
<1> QED
  BY <1>1, <1>2, <1>3, <1>4

\* The whole view in one slice, on a fresh copy.
LEMMA SnapshotScreen ==
  ASSUME NEW v \in ViewRecords, Coherent(v)
  PROVE  ReplaceSnapshot(SyncSlice(v)) = Screen(v)
<1>1. PICK sl : sl = SyncSlice(v)
  OBVIOUS
<1>2. PICK r : /\ r = SetMetaGraph(sl.slot_count, sl.edges) /\ IsReplica(r)
               /\ r.labels = TypeOrder /\ DOMAIN r.slotOfNode = {}
               /\ r.tombstones = {} /\ r.blank = {}
               /\ r.slot_count = sl.slot_count
  BY EmptyCopy
<1>3. /\ sl.first_slot = 1 /\ sl.tombstones = Slots(v) \ LiveSlots(v)
      /\ sl.edges = v.edges /\ sl.slot_count = Len(v.entries) /\ ~sl.compaction.done
  BY <1>1 DEF SyncSlice, NoCompaction
<1>4. PICK N : N = sl.nodes /\ N = {[slot |-> s, node |-> v.entries[s]] : s \in NodeSlots(v)}
  BY <1>1 DEF SyncSlice
<1>5. /\ Len(v.entries) \in Nat /\ Slots(v) = 1..Len(v.entries)
      /\ LiveSlots(v) \subseteq Slots(v) /\ NodeSlots(v) \subseteq Slots(v)
      /\ \A s \in NodeSlots(v) : v.entries[s] \in Loaded(v) /\ v.node_slot[v.entries[s]] = s
      /\ \A n \in Loaded(v) : v.node_slot[n] \in NodeSlots(v) /\ v.entries[v.node_slot[n]] = n
  BY ShapeFacts
<1>6. /\ \A s \in NodeSlots(v) : [slot |-> s, node |-> v.entries[s]] \in N
      /\ \A x \in N : x.slot \in NodeSlots(v) /\ x.node = v.entries[x.slot]
  BY <1>4
<1>7. {x.slot : x \in N} = NodeSlots(v)
  <2>1. \A s \in NodeSlots(v) : \E x \in N : x.slot = s
    <3> TAKE s \in NodeSlots(v)
    <3>1. [slot |-> s, node |-> v.entries[s]] \in N
      BY <1>6
    <3> QED
      BY <3>1
  <2> QED
    BY <1>6, <2>1
<1>8. {x.node : x \in N} = Loaded(v)
  <2>1. \A n \in Loaded(v) : \E x \in N : x.node = n
    <3> TAKE n \in Loaded(v)
    <3>1. PICK s \in NodeSlots(v) : v.entries[s] = n
      BY <1>5
    <3>2. [slot |-> s, node |-> v.entries[s]] \in N
      BY <1>6
    <3> QED
      BY <3>1, <3>2
  <2>2. \A x \in N : x.node \in Loaded(v)
    BY <1>5, <1>6
  <2> QED
    BY <2>1, <2>2
<1>9. ASSUME NEW s \in NodeSlots(v) PROVE (CHOOSE x \in N : x.slot = s).node = v.entries[s]
  <2>1. \E x \in N : x.slot = s
    BY <1>7
  <2>2. PICK x \in N : x = (CHOOSE y \in N : y.slot = s) /\ x.slot = s
    BY <2>1
  <2> QED
    BY <1>6, <2>2
<1>10. ASSUME NEW n \in Loaded(v) PROVE (CHOOSE x \in N : x.node = n).slot = v.node_slot[n]
  <2>1. \E x \in N : x.node = n
    BY <1>8
  <2>2. PICK x \in N : x = (CHOOSE y \in N : y.node = n) /\ x.node = n
    BY <2>1
  <2>3. x.slot \in NodeSlots(v) /\ v.entries[x.slot] = n
    BY <1>6, <2>2
  <2> QED
    BY <1>5, <2>2, <2>3
<1>11. /\ LiveSlots(v) = (1..TypeCount) \cup NodeSlots(v)
       /\ 1..TypeCount \subseteq LiveSlots(v) \ NodeSlots(v)
       /\ \A s \in 1..TypeCount : v.entries[s] = TypeOrder[s]
       /\ DOMAIN TypeOrder = 1..TypeCount
  <2>1. DOMAIN TypeOrder = 1..TypeCount
    BY TypeFacts, LenProperties DEF TypeCount
  <2> QED
    BY <2>1, TypesInSlots
<1>12. PICK l : l = Learn(r, sl) /\ Learned(r, sl, l)
  BY <1>2, LearnFields
<1>13. l.labels = [s \in LiveSlots(v) |-> v.entries[s]]
  <2>1. l.labels = [s \in LiveSlots(v) |->
                      IF s \in NodeSlots(v) THEN (CHOOSE x \in N : x.slot = s).node
                      ELSE TypeOrder[s]]
    <3>1. DOMAIN r.labels \cup {x.slot : x \in sl.nodes} = LiveSlots(v)
      BY <1>2, <1>4, <1>7, <1>11
    <3>2. /\ {x.slot : x \in sl.nodes} = NodeSlots(v) /\ r.labels = TypeOrder
          /\ sl.nodes = N
      BY <1>2, <1>4, <1>7
    <3>3. DOMAIN l.labels = LiveSlots(v)
      BY <1>12, <3>1 DEF Learned
    <3>4. \A s \in LiveSlots(v) :
            l.labels[s] = IF s \in {x.slot : x \in sl.nodes}
                          THEN (CHOOSE x \in sl.nodes : x.slot = s).node ELSE r.labels[s]
      BY <1>12, <3>1 DEF Learned
    <3>5. l.labels = [s \in DOMAIN l.labels |-> l.labels[s]]
      BY <1>12 DEF Learned
    <3> QED
      BY <3>2, <3>3, <3>4, <3>5
  <2>2. \A s \in LiveSlots(v) : v.entries[s] =
          IF s \in NodeSlots(v) THEN (CHOOSE x \in N : x.slot = s).node ELSE TypeOrder[s]
    BY <1>9, <1>11
  <2> QED
    BY <2>1, <2>2
<1>14. l.slotOfNode = [n \in Loaded(v) |-> v.node_slot[n]]
  <2>1. l.slotOfNode = [n \in Loaded(v) |-> (CHOOSE x \in N : x.node = n).slot]
    <3>1. DOMAIN r.slotOfNode \cup {x.node : x \in sl.nodes} = Loaded(v)
      BY <1>2, <1>4, <1>8
    <3>2. {x.node : x \in sl.nodes} = Loaded(v) /\ sl.nodes = N
      BY <1>4, <1>8
    <3>3. l.slotOfNode = [n \in Loaded(v) |->
                            IF n \in Loaded(v) THEN (CHOOSE x \in N : x.node = n).slot
                            ELSE r.slotOfNode[n]]
      <4>1. \A n \in Loaded(v) :
              l.slotOfNode[n] = IF n \in {x.node : x \in sl.nodes}
                                THEN (CHOOSE x \in sl.nodes : x.node = n).slot
                                ELSE r.slotOfNode[n]
        BY <1>12, <3>1 DEF Learned
      <4>2. DOMAIN l.slotOfNode = Loaded(v)
        BY <1>12, <3>1 DEF Learned
      <4>3. l.slotOfNode = [n \in DOMAIN l.slotOfNode |-> l.slotOfNode[n]]
        BY <1>12 DEF Learned
      <4> QED
        BY <3>2, <4>1, <4>2, <4>3
    <3> QED
      BY <3>3
  <2> QED
    BY <1>10, <2>1
<1>15. /\ IsReplica(l) /\ l.tombstones = {} /\ l.blank = {}
       /\ l.slot_count = Len(v.entries)
  BY <1>2, <1>3, <1>12 DEF Learned
<1>16. PICK t : /\ t = Forget(Learn(r, sl), sl.tombstones)
                /\ Forgotten(l, sl.tombstones, t)
  BY <1>12, <1>15, ForgetFields
<1>17. /\ IsReplica(t)
       /\ t.labels = [s \in LiveSlots(v) |-> v.entries[s]]
       /\ t.slotOfNode = [n \in Loaded(v) |-> v.node_slot[n]]
       /\ t.tombstones = Slots(v) \ LiveSlots(v)
       /\ t.blank = {} /\ t.slot_count = Len(v.entries)
  <2>1. sl.tombstones \cap DOMAIN l.labels = {} /\ DOMAIN l.labels = LiveSlots(v)
    BY <1>3, <1>13
  <2>2. DOMAIN l.labels \ sl.tombstones = LiveSlots(v)
    BY <2>1
  <2>3. t.labels = [s \in LiveSlots(v) |-> l.labels[s]]
    BY <1>16, <2>2 DEF Forgotten
  <2>4. t.slotOfNode = [n \in Loaded(v) |-> l.slotOfNode[n]]
    BY <1>14, <1>16, <2>1 DEF Forgotten
  <2> QED
    BY <1>3, <1>13, <1>14, <1>15, <1>16, <2>3, <2>4 DEF Forgotten
<1>18. PICK count : count = IF sl.slot_count > t.slot_count THEN sl.slot_count ELSE t.slot_count
  OBVIOUS
<1>19. PICK blank : blank = (t.blank \ (sl.first_slot..sl.slot_count)) \cup sl.tombstones
  OBVIOUS
<1>20. PICK p, q : /\ Sized(t, count, blank, p) /\ Linked(p, sl.edges, q)
                   /\ q = ApplySlice(r, sl)
  <2>1. Sized(t, count, blank, Splice(t, sl))
    BY <1>18, <1>19, Zenon DEF Splice, Sized
  <2>2. ApplySlice(r, sl) = [Splice(t, sl) EXCEPT !.edges = sl.edges]
    BY <1>3, <1>16, Zenon DEF ApplySlice
  <2>3. Linked(Splice(t, sl), sl.edges, ApplySlice(r, sl))
    BY <2>2, Zenon DEF Linked
  <2> QED
    BY <2>1, <2>3
<1>21. /\ IsReplica(q) /\ q.labels = t.labels /\ q.slotOfNode = t.slotOfNode
       /\ q.tombstones = t.tombstones
       /\ q.slot_count = count /\ q.blank = blank /\ q.edges = sl.edges
  <2>1. Settled(t, count, blank, sl.edges, q)
    BY <1>17, <1>20, SizedAndLinked
  <2> QED
    BY <1>17, <2>1, SettledFields
<1>22. count = Len(v.entries) /\ blank = Slots(v) \ LiveSlots(v)
  BY <1>3, <1>5, <1>17, <1>18, <1>19
<1>23. q = Screen(v)
  BY <1>3, <1>17, <1>21, <1>22, IsScreen
<1> QED
  BY <1>1, <1>2, <1>20, <1>23 DEF ReplaceSnapshot

-----------------------------------------------------------------------------
(* The views the client lags behind by. *)

\* From the view the client shows to the session's, one slice on the wire each.
Trail(vs, rep, sent, v) ==
  /\ rep = Screen(vs[1])
  /\ vs[Len(sent) + 1] = v
  /\ \A i \in 1..Len(sent) : Follows(vs[i], sent[i], vs[i + 1])

MirrorIInv ==
  /\ IInv
  /\ \E S : wire \in Seq(S)
  /\ \E vs : Trail(vs, replica, wire, view)

LEMMA TrailReplays ==
  ASSUME NEW vs, NEW rep, NEW sent, NEW v, Len(sent) \in Nat, Trail(vs, rep, sent, v)
  PROVE  Replay(rep, sent) = Screen(v)
<1> DEFINE n == Len(sent)
           R(g) == g = [i \in 0..n |-> IF i = 0 THEN rep ELSE ApplySlice(g[i - 1], sent[i])]
           f == [i \in 0..n |-> Screen(vs[i + 1])]
<1>1. /\ rep = Screen(vs[1]) /\ vs[n + 1] = v
      /\ \A i \in 1..n : ApplySlice(Screen(vs[i]), sent[i]) = Screen(vs[i + 1])
  BY DEF Trail, Follows
<1>2. R(f)
  <2>1. \A i \in 0..n : f[i] = IF i = 0 THEN rep ELSE ApplySlice(f[i - 1], sent[i])
    <3> TAKE i \in 0..n
    <3>1. CASE i = 0
      BY <1>1, <3>1
    <3>2. CASE i # 0
      <4>1. i \in 1..n /\ i - 1 \in 0..n /\ (i - 1) + 1 = i
        BY <3>2
      <4>2. f[i - 1] = Screen(vs[i]) /\ f[i] = Screen(vs[i + 1])
        BY <4>1
      <4>3. f[i] = ApplySlice(f[i - 1], sent[i])
        BY <1>1, <4>1, <4>2
      <4> QED
        BY <3>2, <4>3
    <3> QED
      BY <3>1, <3>2
  <2>2. f = [i \in 0..n |-> f[i]]
    OBVIOUS
  <2> HIDE DEF f
  <2> QED
    BY <2>1, <2>2
<1>3. ASSUME NEW g, R(g) PROVE g[n] = Screen(vs[n + 1])
  <2>1. /\ g[0] = Screen(vs[1])
        /\ \A i \in 1..n : g[i] = ApplySlice(g[i - 1], sent[i])
    BY <1>1, <1>3
  <2> DEFINE P == {i \in 0..n : g[i] # Screen(vs[i + 1])}
  <2>2. P = {}
    <3> SUFFICES ASSUME P # {} PROVE FALSE
      OBVIOUS
    <3>1. PICK i \in P : \A j \in P : i <= j
      <4>1. P \in SUBSET Nat
        OBVIOUS
      <4> HIDE DEF P
      <4> QED
        BY <4>1, LeastOf
    <3>2. i # 0 /\ i \in 1..n
      BY <2>1
    <3>3. i - 1 \in 0..n /\ i - 1 \notin P /\ (i - 1) + 1 = i
      BY <3>1, <3>2
    <3>4. g[i - 1] = Screen(vs[i])
      BY <3>3
    <3>5. g[i] = Screen(vs[i + 1])
      BY <1>1, <2>1, <3>2, <3>4
    <3> QED
      BY <3>5
  <2> QED
    BY <2>2
<1>4. Replay(rep, sent) = (CHOOSE g : R(g))[n]
  BY DEF Replay
<1>5. R(CHOOSE g : R(g))
  <2> HIDE DEF R, f
  <2> QED
    BY <1>2
<1>6. (CHOOSE g : R(g))[n] = Screen(vs[n + 1])
  <2> HIDE DEF R
  <2> QED
    BY <1>3, <1>5
<1> QED
  BY <1>1, <1>4, <1>6

\* Without a compaction on the wire, the session's entries are those on screen, or holes.
LEMMA TrailKeepsEntries ==
  ASSUME NEW vs, NEW rep, NEW sent, NEW v, Len(sent) \in Nat, Trail(vs, rep, sent, v),
         \A i \in 1..Len(sent) : ~sent[i].compaction.done
  PROVE  \A s \in DOMAIN rep.labels : v.entries[s] \in {rep.labels[s], Tombstone}
<1> SUFFICES ASSUME NEW s \in DOMAIN rep.labels
             PROVE  v.entries[s] \in {rep.labels[s], Tombstone}
  OBVIOUS
<1> DEFINE n == Len(sent)
           e == vs[1].entries[s]
           Kept_at(i) == s \in Slots(vs[i + 1]) /\ vs[i + 1].entries[s] \in {e, Tombstone}
<1>1. /\ rep = Screen(vs[1]) /\ vs[n + 1] = v
      /\ \A i \in 1..n : /\ Slots(vs[i]) \subseteq Slots(vs[i + 1])
                         /\ \A x \in Slots(vs[i]) :
                              vs[i + 1].entries[x] \in {vs[i].entries[x], Tombstone}
  BY DEF Trail, Follows
<1>2. s \in LiveSlots(vs[1]) /\ rep.labels[s] = e
  <2>1. rep.labels = [x \in LiveSlots(vs[1]) |-> vs[1].entries[x]]
    BY <1>1, ScreenFields
  <2> QED
    BY <2>1
<1>3. Kept_at(0)
  BY <1>2 DEF LiveSlots
<1>4. \A i \in 1..n : Kept_at(i - 1) => Kept_at(i)
  <2> TAKE i \in 1..n
  <2>1. (i - 1) + 1 = i
    OBVIOUS
  <2> QED
    BY <1>1, <2>1
<1> DEFINE P == {i \in 0..n : ~Kept_at(i)}
<1>5. P = {}
  <2> SUFFICES ASSUME P # {} PROVE FALSE
    OBVIOUS
  <2> HIDE DEF Kept_at
  <2>1. PICK i \in P : \A j \in P : i <= j
    <3>1. P \in SUBSET Nat
      OBVIOUS
    <3> HIDE DEF P
    <3> QED
      BY <3>1, LeastOf
  <2>2. i # 0 /\ i \in 1..n
    BY <1>3
  <2>3. i - 1 \in 0..n /\ i - 1 \notin P
    BY <2>1, <2>2
  <2>4. Kept_at(i - 1)
    BY <2>3
  <2>5. Kept_at(i)
    BY <1>4, <2>2, <2>4
  <2> QED
    BY <2>5
<1>6. Kept_at(n)
  <2>1. n \in 0..n
    OBVIOUS
  <2> HIDE DEF Kept_at
  <2> QED
    BY <1>5, <2>1
<1> QED
  BY <1>1, <1>2, <1>6

LEMMA MirrorIInvAgrees == MirrorIInv => ReplayAgrees
<1> SUFFICES ASSUME MirrorIInv PROVE ReplayAgrees
  OBVIOUS
<1>1. PICK S : wire \in Seq(S)
  BY DEF MirrorIInv
<1>2. Len(wire) \in Nat
  BY <1>1, LenProperties
<1>3. PICK vs : Trail(vs, replica, wire, view)
  BY DEF MirrorIInv
<1>4. Replay(replica, wire) = Screen(view)
  BY <1>2, <1>3, TrailReplays
<1>5. StaleSlotsAreHoles
  BY <1>2, <1>3, TrailKeepsEntries DEF StaleSlotsAreHoles
<1> QED
  BY <1>4, <1>5 DEF ReplayAgrees

LEMMA MirrorInitIInv == MirrorInit => MirrorIInv
<1> SUFFICES ASSUME MirrorInit PROVE MirrorIInv
  OBVIOUS
<1>1. IInv
  BY InitIInv DEF MirrorInit
<1>2. view = EntryScreen /\ wire = <<>> /\ replica = SetMetaGraph(TypeCount, EntryScreen.edges)
  BY DEF MirrorInit, Init
<1>3. wire \in Seq({}) /\ Len(wire) = 0
  BY <1>2, EmptySeq
<1>4. PICK v : v = EntryScreen
  OBVIOUS
<1>5. v \in ViewRecords /\ Coherent(v) /\ v.entries = TypeOrder
      /\ v.node_slot = [n \in Nodes |-> NoSlot]
  BY <1>4, EntryScreenCoherent DEF EntryScreen
<1>6. /\ Loaded(v) = {} /\ Slots(v) = 1..TypeCount /\ LiveSlots(v) = 1..TypeCount
  <2>1. Loaded(v) = {} /\ Slots(v) = 1..TypeCount
    BY <1>5 DEF Loaded, Slots, TypeCount
  <2>2. 1..TypeCount \subseteq LiveSlots(v) /\ LiveSlots(v) \subseteq Slots(v)
    BY <1>5, TypesInSlots, ShapeFacts
  <2> QED
    BY <2>1, <2>2
<1>7. PICK r : /\ r = SetMetaGraph(TypeCount, v.edges) /\ IsReplica(r)
               /\ r.labels = TypeOrder /\ DOMAIN r.slotOfNode = {}
               /\ r.slotOfNode = [n \in {} |-> 0]
               /\ r.tombstones = {} /\ r.blank = {}
               /\ r.slot_count = TypeCount /\ r.edges = v.edges
  <2>1. \A r : r = SetMetaGraph(TypeCount, v.edges) => r.slotOfNode = [n \in {} |-> 0]
    BY DEF SetMetaGraph
  <2> QED
    BY <2>1, EmptyCopy
<1>8. r.labels = [s \in LiveSlots(v) |-> v.entries[s]]
  <2>1. TypeOrder = [s \in 1..TypeCount |-> TypeOrder[s]]
    BY TypeFacts, LenProperties DEF TypeCount
  <2> QED
    BY <1>5, <1>6, <1>7, <2>1
<1>9. r.slotOfNode = [n \in Loaded(v) |-> v.node_slot[n]]
  BY <1>6, <1>7
<1>10. r = Screen(v)
  <2>1. r.slot_count = Len(v.entries)
    BY <1>5, <1>7 DEF TypeCount
  <2>2. Slots(v) \ LiveSlots(v) = {}
    BY <1>6
  <2> QED
    BY <1>7, <1>8, <1>9, <2>1, <2>2, IsScreen
<1>11. \E vs : Trail(vs, replica, wire, view)
  <2>1. PICK vs : vs = [i \in 1..1 |-> v]
    OBVIOUS
  <2>2. vs[1] = v
    BY <2>1
  <2>3. Trail(vs, replica, wire, view)
    BY <1>2, <1>3, <1>4, <1>7, <1>10, <2>2 DEF Trail
  <2> QED
    BY <2>3
<1> QED
  BY <1>1, <1>3, <1>11 DEF MirrorIInv

LEMMA PublishKeepsMirror ==
  ASSUME MirrorIInv, Publish
  PROVE  MirrorIInv'
<1>1. PICK S : wire \in Seq(S)
  BY DEF MirrorIInv
<1>2. PICK vs : Trail(vs, replica, wire, view)
  BY DEF MirrorIInv
<1>3. IInv /\ Sound(view) /\ Next /\ wire' = Append(wire, slice') /\ replica' = replica
  BY DEF MirrorIInv, IInv, Publish
<1>4. IInv'
  BY <1>3, NextIInv
<1>5. Follows(view, slice', view')
  BY <1>3, NextSlice
<1>6. PICK n, old, now, sl, T :
        /\ n = Len(wire) /\ old = view /\ now = view' /\ sl = slice' /\ T = S \cup {sl}
  OBVIOUS
<1>7. wire \in Seq(T) /\ sl \in T
  BY <1>1, <1>6, SeqMonotonic
<1>8. /\ n \in Nat /\ wire' \in Seq(T) /\ Len(wire') = n + 1
      /\ \A i \in 1..n : wire'[i] = wire[i]
      /\ wire'[n + 1] = sl
  BY <1>3, <1>6, <1>7, LenProperties, AppendProperties
<1>9. PICK ws : ws = [i \in 1..(n + 2) |-> IF i = n + 2 THEN now ELSE vs[i]]
  OBVIOUS
<1>10. /\ ws[n + 2] = now /\ \A i \in 1..(n + 1) : ws[i] = vs[i]
  BY <1>8, <1>9
<1>11. ws[n + 1] = old /\ replica' = Screen(ws[1])
  BY <1>2, <1>3, <1>6, <1>8, <1>10 DEF Trail
<1>12. ASSUME NEW i \in 1..(n + 1) PROVE Follows(ws[i], wire'[i], ws[i + 1])
  <2>1. CASE i = n + 1
    <3>1. ws[i] = old /\ wire'[i] = sl /\ ws[i + 1] = now
      BY <1>8, <1>10, <1>11, <2>1
    <3> QED
      BY <1>5, <1>6, <3>1
  <2>2. CASE i # n + 1
    <3>1. i \in 1..n /\ i + 1 \in 1..(n + 1)
      BY <1>8, <2>2
    <3>2. ws[i] = vs[i] /\ wire'[i] = wire[i] /\ ws[i + 1] = vs[i + 1]
      BY <1>8, <1>10, <3>1
    <3>3. Follows(vs[i], wire[i], vs[i + 1])
      BY <1>2, <1>6, <3>1 DEF Trail
    <3> QED
      BY <3>2, <3>3
  <2> QED
    BY <2>1, <2>2
<1>13. Trail(ws, replica', wire', view')
  <2>1. ws[Len(wire') + 1] = view'
    BY <1>6, <1>8, <1>10
  <2>2. \A i \in 1..Len(wire') : Follows(ws[i], wire'[i], ws[i + 1])
    BY <1>8, <1>12
  <2> QED
    BY <1>11, <2>1, <2>2 DEF Trail
<1> QED
  BY <1>4, <1>8, <1>13 DEF MirrorIInv

LEMMA ReceiveKeepsMirror ==
  ASSUME MirrorIInv, Receive
  PROVE  MirrorIInv'
<1>1. PICK S : wire \in Seq(S)
  BY DEF MirrorIInv
<1>2. PICK vs : Trail(vs, replica, wire, view)
  BY DEF MirrorIInv
<1>3. /\ wire # <<>> /\ replica' = ApplySlice(replica, Head(wire))
      /\ wire' = Tail(wire) /\ view' = view /\ slice' = slice
  BY DEF Receive, vars
<1>4. IInv'
  BY <1>3 DEF MirrorIInv, IInv, Sound
<1>5. PICK n : n = Len(wire)
  OBVIOUS
<1>6. /\ n \in Nat /\ n >= 1 /\ wire' \in Seq(S) /\ Len(wire') = n - 1
      /\ Head(wire) = wire[1]
      /\ \A i \in 1..(n - 1) : wire'[i] = wire[i + 1]
  BY <1>1, <1>3, <1>5, LenProperties, EmptySeq, HeadTailProperties
<1>7. PICK ws : ws = [i \in 1..n |-> vs[i + 1]]
  OBVIOUS
<1>8. /\ replica = Screen(vs[1]) /\ vs[n + 1] = view
      /\ \A i \in 1..n : Follows(vs[i], wire[i], vs[i + 1])
  BY <1>2, <1>5 DEF Trail
<1>9. replica' = Screen(ws[1])
  <2>1. ApplySlice(Screen(vs[1]), wire[1]) = Screen(vs[1 + 1])
    BY <1>6, <1>8 DEF Follows
  <2>2. ws[1] = vs[1 + 1]
    BY <1>6, <1>7
  <2> QED
    BY <1>3, <1>6, <1>8, <2>1, <2>2
<1>10. ws[Len(wire') + 1] = view'
  BY <1>3, <1>6, <1>7, <1>8
<1>11. ASSUME NEW i \in 1..Len(wire') PROVE Follows(ws[i], wire'[i], ws[i + 1])
  <2>1. i \in 1..n /\ i + 1 \in 1..n /\ wire'[i] = wire[i + 1]
    BY <1>6
  <2>2. ws[i] = vs[i + 1] /\ ws[i + 1] = vs[(i + 1) + 1]
    BY <1>7, <2>1
  <2>3. Follows(vs[i + 1], wire[i + 1], vs[(i + 1) + 1])
    BY <1>8, <2>1
  <2> QED
    BY <2>1, <2>2, <2>3
<1>12. Trail(ws, replica', wire', view')
  BY <1>9, <1>10, <1>11 DEF Trail
<1> QED
  BY <1>4, <1>6, <1>12 DEF MirrorIInv

LEMMA RejoinKeepsMirror ==
  ASSUME MirrorIInv, Rejoin
  PROVE  MirrorIInv'
<1>1. /\ replica' = ReplaceSnapshot(SyncSlice(view)) /\ wire' = <<>>
      /\ view' = view /\ slice' = slice
  BY DEF Rejoin, vars
<1>2. IInv'
  BY <1>1 DEF MirrorIInv, IInv, Sound
<1>3. wire' \in Seq({}) /\ Len(wire') = 0
  BY <1>1, EmptySeq
<1>4. PICK v : v = view
  OBVIOUS
<1>5. v \in ViewRecords /\ Coherent(v)
  BY <1>4 DEF MirrorIInv, IInv, Sound
<1>6. replica' = Screen(v)
  BY <1>1, <1>4, <1>5, SnapshotScreen
<1>7. PICK vs : vs = [i \in 1..1 |-> v]
  OBVIOUS
<1>8. vs[1] = v
  BY <1>7
<1>9. Trail(vs, replica', wire', view')
  BY <1>1, <1>3, <1>4, <1>6, <1>8 DEF Trail
<1> QED
  BY <1>2, <1>3, <1>9 DEF MirrorIInv

LEMMA MirrorNextIInv == MirrorIInv /\ [MirrorNext]_mirror_vars => MirrorIInv'
<1>1. CASE MirrorIInv /\ UNCHANGED mirror_vars
  <2>1. view' = view /\ slice' = slice /\ wire' = wire /\ replica' = replica
    BY <1>1 DEF mirror_vars, vars
  <2> QED
    BY <1>1, <2>1 DEF MirrorIInv, IInv, Sound
<1> QED
  BY <1>1, PublishKeepsMirror, ReceiveKeepsMirror, RejoinKeepsMirror DEF MirrorNext

(***************************************************************************)
(* The inductive invariant: between the view a client shows and the        *)
(* session's lie as many views as there are slices on the wire, and each   *)
(* slice leads from one to the next (finish_slice and applySlice).         *)
(***************************************************************************)
THEOREM SlotMirrorInvariant == MirrorSpec => []MirrorIInv
BY MirrorInitIInv, MirrorNextIInv, PTL DEF MirrorSpec

(***************************************************************************)
(* A client that applies the slices on their way to it ends with exactly   *)
(* the session's view, names, index, holes, blanks and links, whether it   *)
(* saw every slice or joined in the middle; and while it lags, a slot      *)
(* number it sends names what it shows, or nothing (view.ts, applySlice).  *)
(***************************************************************************)
THEOREM SlotMirrorReplayAgrees == MirrorSpec => []ReplayAgrees
BY SlotMirrorInvariant, MirrorIInvAgrees, PTL

(***************************************************************************)
(* The channel adds nothing to the session: with a client that lags or     *)
(* rejoins, the slot space moves by its own requests only, so what is      *)
(* proved of it holds here, too.                                           *)
(***************************************************************************)
THEOREM SlotMirrorIsSlotSpace == MirrorSpec => Spec
<1>1. MirrorInit => Init
  BY DEF MirrorInit
<1>2. [MirrorNext]_mirror_vars => [Next]_vars
  BY DEF MirrorNext, Publish, Receive, Rejoin, mirror_vars, vars
<1> QED
  BY <1>1, <1>2, PTL DEF MirrorSpec, Spec
=============================================================================
