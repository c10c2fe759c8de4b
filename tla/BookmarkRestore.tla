-------------------------- MODULE BookmarkRestore --------------------------
(***************************************************************************)
(* Capturing an exploration in a payload and restoring it                  *)
(* (bookmark_capture.rs, bookmark_restore.rs), among all the other shared  *)
(* requests.                                                               *)
(*                                                                         *)
(* A payload names nodes and types, never slots: capture translates slots  *)
(* to members in slot order, restore builds a fresh view from the members  *)
(* and translates back.  Calculations travel frozen, under the generation  *)
(* and the subset revision they were run on, which in another session      *)
(* number other things.  A payload of another source, or for this session  *)
(* only and of another one, is refused and is not among the payloads; one  *)
(* that does not hang together is, and is refused when it is restored.     *)
(***************************************************************************)
EXTENDS SharedState

CONSTANTS
  Elsewhere,    \* the generations of other sessions
  Foreign,      \* payloads saved there, of this source
  MaxCaptures   \* bound: the captures of a behaviour

(***************************************************************************)
(* A payload, by what the deserializer gives.  A position is an entry with *)
(* its place, and a place is named by the entry it was computed for.       *)
(***************************************************************************)
PayloadsFrom(generations) ==
  [members      : Seq(Nodes),
   relations    : SUBSET Relations,
   predicates   : [admits : SUBSET Nodes, keeps : SUBSET Relations, isolated : BOOLEAN,
                   by_calc : SUBSET (generations \X Nat)],
   appearance   : Appearances,
   caption      : Captions,
   highlighted  : SUBSET (Types \cup Nodes),
   selected     : SUBSET (Types \cup Nodes),
   kernel       : StaticKernels \cup {Simulation},
   positions    : SUBSET ((Types \cup Nodes) \X (Types \cup Nodes)),
   calculations : SUBSET [id : generations \X Nat, kind : CalculationKinds,
                          generation : generations, stamp : Nat, subset_revision : Nat,
                          nodes : SUBSET Nodes, edges : SUBSET Relations]]

ASSUME BookmarkAssumption ==
  /\ Here \notin Elsewhere
  /\ Foreign \subseteq PayloadsFrom(Elsewhere)
  /\ \A p \in Foreign : \A q \in p.positions : q[1] = q[2]
  /\ MaxCaptures \in Nat

VARIABLES
  payloads,   \* those captured in this session
  brought     \* not in the code: the payload the last commit restored

bookmarkVars == <<sharedVars, payloads, brought>>

-----------------------------------------------------------------------------
(* Capture. *)

\* session_members, durable_members: the nodes among the live entries, in slot order.
NodesUpTo(v, s) == {t \in NodeSlots(v) : t <= s}

Members(v) ==
  [i \in 1..Cardinality(NodeSlots(v)) |->
     v.entries[CHOOSE s \in NodeSlots(v) : Cardinality(NodesUpTo(v, s)) = i]]

\* Where each live entry stands: at the place the arrangement gives its slot.
Positions(v, l) == {<<v.entries[s], l.placed[s]>> : s \in LiveSlots(v)}

\* capture_content
PayloadOf(v, s, selected) ==
  [members |-> Members(v), relations |-> RelationsOf(v),
   predicates |-> s.predicates, appearance |-> s.appearance,
   caption |-> s.caption, highlighted |-> s.highlighted, selected |-> selected,
   kernel |-> s.kernel,
   positions |-> UNION {Positions(v, l) : l \in s.layout},
   calculations |-> s.calculations]

\* capture_bookmark_with: the request can bring a selection; nothing is committed.
CaptureBookmark ==
  /\ Cardinality(payloads) < MaxCaptures
  /\ \E chosen \in Picks \cup {settings.selected} :
       payloads' = payloads \cup {PayloadOf(view, settings, chosen)}
  /\ UNCHANGED <<sharedVars, brought>>

(***************************************************************************)
(* Another session that restored a payload of this one passes its results  *)
(* on with what it saves: as they were, or run again under their identity  *)
(* (capture_derived there).                                                *)
(***************************************************************************)
PassedOn ==
  UNION {{[f EXCEPT !.calculations = f.calculations \cup q.calculations],
          [f EXCEPT !.calculations = {[c EXCEPT !.id = d.id] :
                                        c \in f.calculations, d \in q.calculations}]} :
         f \in Foreign, q \in payloads}

-----------------------------------------------------------------------------
(* Restore. *)

\* A new view, then LoadEntities with the members and the saved relations.
RestoredView(p) == AddEdges(InternNodes(EntryScreen, p.members), p.relations)

PlacedAt(p, entry) == (CHOOSE q \in p.positions : q[1] = entry)[2]

\* restore_layout: the coordinates by slot of the new view, measured in no time.
RestoredLayout(p, v) ==
  IF p.kernel = Simulation THEN {}
  ELSE {[kernel |-> p.kernel,
         placed |-> [s \in Slots(v) |-> PlacedAt(p, v.entries[s])],
         ms |-> 0]}

\* Seeded fault: the calculations of the live exploration stay.
RestoredSettings_KeepsCalculations(p, v) ==
  [predicates |-> p.predicates, appearance |-> p.appearance, caption |-> p.caption,
   highlighted |-> p.highlighted, selected |-> p.selected, kernel |-> p.kernel,
   layout |-> RestoredLayout(p, v), calculations |-> settings.calculations]

RestoredSettings(p, v) ==
  [predicates |-> p.predicates, appearance |-> p.appearance, caption |-> p.caption,
   highlighted |-> p.highlighted, selected |-> p.selected, kernel |-> p.kernel,
   layout |-> RestoredLayout(p, v), calculations |-> p.calculations]

NamedBy(p) == {p.members[i] : i \in 1..Len(p.members)}

\* validate_bookmark and validate_results
WithinBounds(p) ==
  /\ Len(p.members) <= MaxLoadedNodes
  /\ Cardinality(p.relations) <= MaxLoadedEdges
  /\ Cardinality(p.calculations) <= MaxCalculations
  /\ \A c, d \in p.calculations : c.id = d.id => c = d

\* resolve_members and restore_relations
MembersResolve(p) ==
  /\ \A i, j \in 1..Len(p.members) : p.members[i] = p.members[j] => i = j
  /\ \A r \in p.relations : Source[r] \in NamedBy(p) /\ Target[r] \in NamedBy(p)

\* restore_layout: no coordinate under the simulation, otherwise one of every entry.
PositionsCover(p) ==
  IF p.kernel = Simulation THEN p.positions = {}
  ELSE /\ {q[1] : q \in p.positions} = Types \cup NamedBy(p)
       /\ \A q, r \in p.positions : q[1] = r[1] => q = r

\* Seeded fault: a reference to nothing in the payload passes.
Valid_AnyReference(p) == WithinBounds(p) /\ MembersResolve(p) /\ PositionsCover(p)

\* What a restore refuses a payload for, restore_references last.
Valid(p) ==
  /\ WithinBounds(p)
  /\ MembersResolve(p)
  /\ PositionsCover(p)
  /\ p.highlighted \cup p.selected \subseteq Types \cup NamedBy(p)

(***************************************************************************)
(* prepare_bookmark_restore, committed.  The server always gives a name;   *)
(* without one the exploration comes back without a marker.                *)
(***************************************************************************)
RestoreBookmark(p, name) ==
  /\ Valid(p)
  /\ view' = RestoredView(p)
  /\ UNCHANGED <<slice, payloads>>
  /\ Prepare(RestoredSettings(p, view'), TRUE)
  /\ Recover(TRUE)
  /\ saved' = IF name = NoMarker THEN NoMarker
              ELSE [bookmark |-> name, content |-> revs'.content, dirty |-> FALSE,
                    selected |-> settings'.selected, was |-> Content(view', settings')]
  /\ Committed({}, FALSE)
  /\ brought' = {p}

BookmarkInit == SharedInit /\ payloads = {} /\ brought = {}

BookmarkNext ==
  \/ SharedNext /\ UNCHANGED payloads /\ brought' = {}
  \/ CaptureBookmark
  \/ \E p \in payloads \cup Foreign \cup PassedOn, name \in Bookmarks \cup {NoMarker} :
       RestoreBookmark(p, name)

BookmarkSpec == BookmarkInit /\ [][BookmarkNext]_bookmarkVars

-----------------------------------------------------------------------------
(***************************************************************************)
(* An exploration restored is the one that was captured: capturing it      *)
(* again gives the same payload, whatever was on screen before the restore,*)
(* in whatever slots, with whatever holes.                                 *)
(***************************************************************************)
RestoresWhatWasSaved ==
  \A p \in brought : PayloadOf(view, settings, settings.selected) = p
=============================================================================
