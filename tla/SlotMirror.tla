---------------------------- MODULE SlotMirror -----------------------------
(***************************************************************************)
(* A client's copy of the slot space (frontend/src/view.ts, SlotView).     *)
(* Slices reach it in order over one channel, and it applies each to its   *)
(* own labels, node index, holes and links without ever seeing the         *)
(* session's view; a client that joins late is given one whole slice.      *)
(***************************************************************************)
EXTENDS SlotSpace

CONSTANT MaxInFlight   \* slices sent and not yet applied, at most

VARIABLES
  wire,      \* slices on their way to the client
  replica    \* the client's SlotView

mirror_vars == <<vars, wire, replica>>

-----------------------------------------------------------------------------
(* What the client keeps: names by slot, slots by node, the holes it was   *)
(* told of, the slots whose position is NaN, and the links.                *)

SetMetaGraph(slot_count, edges) ==
  [labels      |-> TypeOrder,
   slotOfNode  |-> [n \in {} |-> 0],
   tombstones  |-> {},
   blank       |-> {},
   slot_count  |-> slot_count,
   edges       |-> edges]

\* Labels are functions from slots; the entry screen's is one from 1..n.
Cut(f, S) == [x \in DOMAIN f \ S |-> f[x]]

(***************************************************************************)
(* applyRemap: labels move, the node index is rebuilt from the labels, and *)
(* what has no new slot is forgotten.                                      *)
(***************************************************************************)
ApplyRemap(rep, old_to_new) ==
  LET moved == DOMAIN rep.labels \cap DOMAIN old_to_new
      at(new) == CHOOSE old \in moved : old_to_new[old] = new
      labels == [new \in {old_to_new[old] : old \in moved} |-> rep.labels[at(new)]]
      nodes == {labels[s] : s \in DOMAIN labels} \cap Nodes
  IN  [rep EXCEPT !.labels = labels,
                  !.slotOfNode = [n \in nodes |->
                                    CHOOSE s \in DOMAIN labels : labels[s] = n],
                  !.tombstones = {}]

\* The names a slice carries, and the ones it takes away.
Learn(rep, sl) ==
  LET slotFor(n) == (CHOOSE x \in sl.nodes : x.node = n).slot
      named == {x.node : x \in sl.nodes}
      slots == {x.slot : x \in sl.nodes}
  IN  [rep EXCEPT
         !.labels = [s \in DOMAIN @ \cup slots |->
                       IF s \in slots THEN (CHOOSE x \in sl.nodes : x.slot = s).node
                       ELSE @[s]],
         !.slotOfNode = [n \in DOMAIN @ \cup named |->
                           IF n \in named THEN slotFor(n) ELSE @[n]],
         !.tombstones = @ \ slots]

Forget(rep, doomed) ==
  [rep EXCEPT
     !.labels = Cut(@, doomed),
     !.slotOfNode = Cut(@, {rep.labels[s] : s \in doomed \cap DOMAIN rep.labels}),
     !.tombstones = @ \cup doomed]

\* splicePositions, then NaN at every slot this slice tombstoned.
Splice(rep, sl) ==
  LET reach == sl.slot_count
  IN  [rep EXCEPT !.slot_count = IF reach > @ THEN reach ELSE @,
                  !.blank = (@ \ (sl.first_slot..reach)) \cup sl.tombstones]

\* Seeded fault: the remap first.
ApplySlice_RemapFirst(rep, sl) ==
  IF sl.compaction.done
  THEN [Forget(Learn(ApplyRemap(rep, sl.compaction.old_to_new), sl), sl.tombstones)
          EXCEPT !.slot_count = sl.slot_count, !.blank = {}, !.edges = sl.edges]
  ELSE [Splice(Forget(Learn(rep, sl), sl.tombstones), sl) EXCEPT !.edges = sl.edges]

(***************************************************************************)
(* applySlice: splice positions, append, tombstone, and only then remap.   *)
(***************************************************************************)
ApplySlice(rep, sl) ==
  LET told == Forget(Learn(rep, sl), sl.tombstones)
  IN  IF sl.compaction.done
      THEN [ApplyRemap(told, sl.compaction.old_to_new)
              EXCEPT !.slot_count = sl.slot_count, !.blank = {}, !.edges = sl.edges]
      ELSE [Splice(told, sl) EXCEPT !.edges = sl.edges]

-----------------------------------------------------------------------------
(***************************************************************************)
(* sync_slice: the whole view, from slot zero, for a client that joins;    *)
(* the client seeds the meta-graph and applies it (replaceSnapshot).       *)
(***************************************************************************)
SyncSlice(v) ==
  [first_slot |-> 1,
   nodes      |-> {[slot |-> s, node |-> v.entries[s]] : s \in NodeSlots(v)},
   tombstones |-> Slots(v) \ LiveSlots(v),
   edges      |-> v.edges,
   slot_count |-> Len(v.entries),
   compaction |-> NoCompaction]

ReplaceSnapshot(sl) == ApplySlice(SetMetaGraph(sl.slot_count, sl.edges), sl)

-----------------------------------------------------------------------------
MirrorInit ==
  /\ Init
  /\ wire = <<>>
  /\ replica = SetMetaGraph(TypeCount, EntryScreen.edges)

\* The session answers a request; its slice is sent to the client.
Publish ==
  /\ Len(wire) < MaxInFlight
  /\ Next
  /\ wire' = Append(wire, slice')
  /\ UNCHANGED replica

Receive ==
  /\ wire # <<>>
  /\ replica' = ApplySlice(replica, Head(wire))
  /\ wire' = Tail(wire)
  /\ UNCHANGED vars

\* The client reconnects: what was on the way is lost, the view comes whole.
Rejoin ==
  /\ replica' = ReplaceSnapshot(SyncSlice(view))
  /\ wire' = <<>>
  /\ UNCHANGED vars

MirrorNext == Publish \/ Receive \/ Rejoin

MirrorSpec == MirrorInit /\ [][MirrorNext]_mirror_vars

-----------------------------------------------------------------------------
\* The view, as a client with nothing outstanding must hold it.
Screen(v) ==
  [labels     |-> [s \in LiveSlots(v) |-> v.entries[s]],
   slotOfNode |-> [n \in Loaded(v) |-> v.node_slot[n]],
   tombstones |-> Slots(v) \ LiveSlots(v),
   blank      |-> Slots(v) \ LiveSlots(v),
   slot_count |-> Len(v.entries),
   edges      |-> v.edges]

\* What the client will hold when it has applied these slices in their order.
Replay(rep, slices) ==
  LET after[i \in 0..Len(slices)] ==
        IF i = 0 THEN rep ELSE ApplySlice(after[i - 1], slices[i])
  IN  after[Len(slices)]

\* A slot number the client sends names in the session what the client sees
\* there, or a hole, unless a compaction is on its way: "compaction is the one
\* event that invalidates a slot" (protocol.md).
StaleSlotsAreHoles ==
  (\A i \in 1..Len(wire) : ~wire[i].compaction.done) =>
    \A s \in DOMAIN replica.labels :
      view.entries[s] \in {replica.labels[s], Tombstone}

(***************************************************************************)
(* A client that has applied the slices on their way to it holds exactly   *)
(* the session's view: nothing unnamed, mislabelled, blanked by a remap or *)
(* left over; whether it saw every slice or joined in the middle.  While   *)
(* it lags, what it names by slot is what it sees, or gone.                *)
(***************************************************************************)
ReplayAgrees ==
  /\ Replay(replica, wire) = Screen(view)
  /\ StaleSlotsAreHoles
=============================================================================
