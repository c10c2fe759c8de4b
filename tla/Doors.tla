------------------------------- MODULE Doors -------------------------------
(***************************************************************************)
(* One caller of a session's HTTP routes (api.rs), MCP tools (mcp.rs) or   *)
(* output routes (output_api.rs, mcp_output.rs), and every change its peers*)
(* make between its calls: what it is told of the shared state, what it    *)
(* does with what it was told, and the files and images it takes away.     *)
(*                                                                         *)
(* A route and the tool of the same name run one function of the session,  *)
(* so they are one action here.  A refusal changes nothing and is a        *)
(* stutter, except where it ends a call of several steps.                  *)
(***************************************************************************)
EXTENDS SharedState

CONSTANTS
  There,        \* the generation of a session that has ended
  Needles,      \* sets of nodes: those a text matches, or a caller has handles of
  Choices,      \* output settings: a format, or an image's format and size
  Images,       \* those of an image
  JsonFile,     \* the format that writes relations as flat objects
  Colliding,    \* relations with a property named source, target or type
  Weighs,       \* what copying a node's properties costs, and
  MaxCopied,    \*   MAX_OUTPUT_PROPERTY_BYTES
  NoField,      \* a cleared channel: an explicit null
  Absent,       \* an argument that is not sent
  StyleArgs     \* the calls of set_appearance

ASSUME DoorsAssumption ==
  /\ There # Here
  /\ Needles \subseteq SUBSET Nodes
  /\ Images \subseteq Choices
  /\ JsonFile \in Choices \ Images
  /\ Colliding \subseteq Relations
  /\ Weighs \in [Nodes -> Nat]
  /\ MaxCopied \in Nat
  /\ NoField # Absent

VARIABLES
  held,   \* the answer the caller looks at
  call    \* the call it makes, while it has steps left, and what came of it

doorVars == <<held, call>>
allVars == <<sharedVars, doorVars>>

Nothing == [kind |-> "none"]
Idle == [step |-> "idle"]

-----------------------------------------------------------------------------
(* What a read says. *)

\* shared_stamp: a revision of this session, and of no other.
SharedStamp == [generation |-> Here, revision |-> revs.revision]

\* Seeded fault: a stamp of another session is as good.
CheckStamp_RevisionOnly(expected) == expected.revision = revs.revision

CheckStamp(expected) == expected = SharedStamp

\* The slots of some nodes, as the view has them now.
SlotsOf(nodes) ==
  {[slot |-> view.node_slot[n], node |-> n] : n \in nodes \cap Loaded(view)}

\* The counts of view_state, by type and in all.
CountsOf ==
  [on_screen |-> [t \in Types |-> Cardinality(InstancesOf(view, t))],
   live      |-> Len(view.entries) - view.tombstones,
   links     |-> Cardinality(view.edges)]

\* view_state, and session_info with it: everything under one lock.
ViewState ==
  /\ call = Idle
  /\ held' = [kind |-> "state", stamp |-> SharedStamp, subset_revision |-> revs.subset,
              slots |-> SlotsOf(Nodes), visible |-> cache.subset, counts |-> CountsOf,
              kernel |-> settings.kernel]
  /\ UNCHANGED <<sharedVars, call>>

\* records: stamp, slots and visibility of the handles asked for, under one lock.
Records ==
  /\ call = Idle
  /\ \E handles \in Needles :
       held' = [kind |-> "records", stamp |-> SharedStamp, subset_revision |-> revs.subset,
                slots |-> SlotsOf(handles), of |-> handles,
                visible |-> handles \cap cache.subset.nodes]
  /\ UNCHANGED <<sharedVars, call>>

(***************************************************************************)
(* search: the engine's hits, then the stamp and the slots under one lock. *)
(* `already` is not in the code: the slots as they were when the engine    *)
(* began, for the seeded fault.                                            *)
(***************************************************************************)
Hits(needle) == [kind |-> "search", of |-> needle, stamp |-> SharedStamp,
                 slots |-> SlotsOf(needle)]

\* Seeded fault: the slots are read before the search, and the stamp after it.
SearchAnswer_SlotsFirst(c) == [Hits(c.needle) EXCEPT !.slots = c.already]

SearchAnswer(c) == Hits(c.needle)

BeginSearch ==
  /\ call = Idle
  /\ \E needle \in Needles :
       call' = [step |-> "searching", needle |-> needle, already |-> SlotsOf(needle)]
  /\ held' = Nothing
  /\ UNCHANGED sharedVars

EndSearch ==
  /\ call.step = "searching"
  /\ held' = SearchAnswer(call)
  /\ call' = Idle
  /\ UNCHANGED sharedVars

-----------------------------------------------------------------------------
(***************************************************************************)
(* Acting on what was read.  A call with `expected` is applied to exactly  *)
(* that revision; `meant` and `done` are not in the code: what the caller  *)
(* was told it is acting on, and what the call acted on.                   *)
(***************************************************************************)
NodesAt(slots) == {view.entries[s] : s \in slots}

\* check_live_slots
CheckLiveSlots(slots) ==
  /\ slots \subseteq LiveSlots(view)
  /\ Cardinality(slots) <= MaxLoadedNodes + TypeCount

Done(meant, did) ==
  /\ call' = [step |-> "done", meant |-> meant, did |-> did]
  /\ held' = Nothing

\* highlight with slots: the concept's marks become what the slots name.
Mark(slots) ==
  /\ CheckLiveSlots(slots)
  /\ \/ Finish([settings EXCEPT !.highlighted = NodesAt(slots)], FALSE)
     \/ Finish([settings EXCEPT !.selected = NodesAt(slots)], FALSE)

HighlightSlots ==
  /\ call = Idle
  /\ held.kind \in {"state", "records", "search"}
  /\ CheckStamp(held.stamp)
  /\ \E picked \in SUBSET held.slots \ {{}} :
       /\ Mark({p.slot : p \in picked})
       /\ Done({p.node : p \in picked}, NodesAt({p.slot : p \in picked}))

(***************************************************************************)
(* calculate and set_subset with the stamp of a view_state: the input is   *)
(* the visible subset it showed.                                           *)
(***************************************************************************)
CalculateHeld ==
  /\ call = Idle
  /\ held.kind = "state"
  /\ CheckStamp(held.stamp)
  /\ Calculate
  /\ LET result == CHOOSE c \in settings'.calculations \ settings.calculations : TRUE
     IN  Done(held.visible, [nodes |-> result.nodes, edges |-> result.edges])

(***************************************************************************)
(* highlight with a search text, in the tool: a stamp of before the search *)
(* when the caller sent none, the search, and the marking of the hits that *)
(* are on screen, expected at that stamp.                                  *)
(***************************************************************************)
\* Seeded fault: the tool marks whatever the slots have come to name.
Stamped_Not(c) == TRUE

Stamped(c) == CheckStamp(c.expected)

ToolSearch ==
  /\ call = Idle
  /\ \E needle \in Needles :
       call' = [step |-> "tool", needle |-> needle, expected |-> SharedStamp]
  /\ held' = Nothing
  /\ UNCHANGED sharedVars

ToolFound ==
  /\ call.step = "tool"
  /\ call' = [step |-> "found", expected |-> call.expected, hits |-> SlotsOf(call.needle)]
  /\ UNCHANGED <<sharedVars, held>>

ToolMark ==
  /\ call.step = "found"
  /\ Stamped(call)
  /\ Mark({h.slot : h \in call.hits})
  /\ Done({h.node : h \in call.hits}, NodesAt({h.slot : h \in call.hits}))

ToolRefused ==
  /\ call.step = "found"
  /\ ~(Stamped(call) /\ CheckLiveSlots({h.slot : h \in call.hits}))
  /\ call' = Idle
  /\ UNCHANGED <<sharedVars, held>>

-----------------------------------------------------------------------------
(***************************************************************************)
(* set_appearance: a channel has a source-property name of old and a field *)
(* reference, each absent, null or given, and two that disagree are        *)
(* refused.  No channel and a presentation leaves both channels; any       *)
(* channel clears the ones that are not named.                             *)
(***************************************************************************)
Contradictory(args) ==
  \/ args.color_by # Absent /\ args.color_field # Absent /\ args.color_by # args.color_field
  \/ args.size_by # Absent /\ args.size_field # Absent /\ args.size_by # args.size_field

Resolve(by, field) ==
  IF field # Absent THEN field ELSE IF by # Absent THEN by ELSE NoField

\* Seeded fault: a null is taken for an argument that was not sent.
HasChannels_NotNull(args) ==
  {args.color_by, args.size_by, args.color_field, args.size_field} \ {Absent, NoField} # {}

HasChannels(args) ==
  {args.color_by, args.size_by, args.color_field, args.size_field} # {Absent}

Styled(appearance, args) ==
  LET channels == [appearance EXCEPT !.color = Resolve(args.color_by, args.color_field),
                                     !.size = Resolve(args.size_by, args.size_field)]
  IN  IF args.look = Absent THEN channels
      ELSE IF HasChannels(args) THEN [channels EXCEPT !.look = args.look]
      ELSE [appearance EXCEPT !.look = args.look]

ASSUME StyleAssumption ==
  \A a \in Appearances :
    /\ a = [color |-> a.color, size |-> a.size, look |-> a.look]
    /\ \A args \in StyleArgs : Styled(a, args) \in Appearances

\* What the arguments name, and what became of it.
Named(args, appearance) ==
  [color |-> IF {args.color_by, args.color_field} = {Absent} THEN Absent ELSE appearance.color,
   look  |-> IF args.look = Absent THEN Absent ELSE appearance.look]

SetAppearance ==
  /\ call = Idle
  /\ \E args \in StyleArgs :
       /\ ~Contradictory(args)
       /\ Finish([settings EXCEPT !.appearance = Styled(@, args)], TRUE)
       /\ Done([color |-> IF args.color_field # Absent THEN args.color_field ELSE args.color_by,
                 look  |-> args.look],
                Named(args, settings'.appearance))

-----------------------------------------------------------------------------
(* Outputs: output_capture.rs, output.rs, output_render.rs. *)

Scopes == {"visible", "loaded-induced"}

CapturedNodes(scope) ==
  IF scope = "visible" THEN cache.subset.nodes ELSE Loaded(view)

\* Seeded fault: the retained relations with a visible end, hidden ones too.
CapturedEdges_Retained(scope) ==
  IF scope = "visible" THEN RelationsOf(view)
  ELSE Within(Relations, CapturedNodes(scope))

\* What is drawn and visible, or whatever the source holds between the nodes.
CapturedEdges(scope) ==
  IF scope = "visible" THEN RelationsOf(view) \cap cache.subset.edges
  ELSE Within(Relations, CapturedNodes(scope))

\* capture_scene: what an image shows of the nodes beside their places.
Scene(nodes) ==
  [caption |-> settings.caption, mapping |-> cache.mapping,
   highlighted |-> settings.highlighted \cap nodes,
   pinned |-> settings.selected \cap nodes,
   inputs |-> {[stamp |-> c.stamp, nodes |-> Cardinality(c.nodes)] : c \in settings.calculations}]

Capture(scope) ==
  [scope |-> scope, stamp |-> SharedStamp, subset_revision |-> revs.subset,
   nodes |-> CapturedNodes(scope), edges |-> CapturedEdges(scope),
   scene |-> Scene(CapturedNodes(scope)), presentation |-> settings.appearance.look]

\* PropertyBudget: every entity is copied or none is.
CopyCost(nodes) ==
  LET cost[S \in SUBSET nodes] ==
        IF S = {} THEN 0 ELSE LET n == CHOOSE m \in S : TRUE IN Weighs[n] + cost[S \ {n}]
  IN  cost[nodes]

\* capture_output, for a request that expects a stamp and a subset.
Capturable(scope, expected, subset_revision) ==
  /\ CheckStamp(expected)
  /\ subset_revision = revs.subset
  /\ CapturedNodes(scope) # {}
  /\ Cardinality(CapturedNodes(scope)) <= MaxLoadedNodes
  /\ Cardinality(CapturedEdges(scope)) <= MaxLoadedEdges
  /\ Ends(CapturedEdges(scope)) \subseteq CapturedNodes(scope)
  /\ CopyCost(CapturedNodes(scope)) <= MaxCopied

\* validate_d3_topology_keys: D3's flat objects have no room for these properties.
KeepsTopology(choice, edges) == choice = JsonFile => edges \cap Colliding = {}

\* preview, preview_render: the settings this capture cannot be written in are refused.
Previewable(captured, choice) == KeepsTopology(choice, captured.edges)

\* Seeded fault: the digest leaves out the settings.
Digest_NoSettings(captured, choice) ==
  <<captured.scope, captured.stamp, captured.subset_revision, captured.presentation>>

\* preview_base: SHA-256 of what determines the output.
Digest(captured, choice) ==
  <<captured.scope, captured.stamp, captured.subset_revision, choice, captured.presentation>>

CheckDigest(captured, choice, digest) == Digest(captured, choice) = digest

\* An image is drawn from the capture, a file written from it.
Prepared(captured, choice) ==
  [choice |-> choice, scope |-> captured.scope, nodes |-> captured.nodes, edges |-> captured.edges,
   look |-> IF choice \in Images THEN <<captured.scene, captured.presentation>> ELSE <<>>]

\* Preview in the explicit scope the caller asks for, with the stamps of its view_state.
Preview ==
  /\ call = Idle
  /\ held.kind = "state"
  /\ \E scope \in Scopes, choice \in Choices :
       /\ Capturable(scope, held.stamp, held.subset_revision)
       /\ Previewable(Capture(scope), choice)
       /\ held' = [kind |-> "preview", stamp |-> held.stamp,
                   subset_revision |-> held.subset_revision,
                   digest |-> Digest(Capture(scope), choice),
                   shown |-> Prepared(Capture(scope), choice)]
  /\ UNCHANGED <<sharedVars, call>>

\* The final output: a digest is required, the scope and settings are what the form holds now.
Download ==
  /\ held.kind = "preview"
  /\ call = Idle
  /\ \E scope \in Scopes, choice \in Choices :
       /\ Capturable(scope, held.stamp, held.subset_revision)
       /\ Previewable(Capture(scope), choice)
       /\ CheckDigest(Capture(scope), choice, held.digest)
       /\ call' = [step |-> "saved", meant |-> held.shown,
                   did |-> Prepared(Capture(scope), choice)]
  /\ held' = Nothing
  /\ UNCHANGED sharedVars

\* The caller has its answer, and takes up something else.
Leave ==
  /\ call.step \in {"done", "saved"}
  /\ call' = Idle
  /\ held' = Nothing
  /\ UNCHANGED sharedVars

\* export_nodes: a mandatory selection, and every relation the source has between.
Exported(choice, nodes) ==
  [kind |-> "file", choice |-> choice, nodes |-> nodes, edges |-> Within(Relations, nodes)]

\* export_view without a scope: what is loaded, hidden or not.
ExportView ==
  /\ call = Idle
  /\ Loaded(view) # {}
  /\ \E choice \in Choices \ Images :
       /\ KeepsTopology(choice, Within(Relations, Loaded(view)))
       /\ held' = Exported(choice, Loaded(view))
  /\ UNCHANGED <<sharedVars, call>>

-----------------------------------------------------------------------------
\* A caller that comes fresh, or with what a session that has ended told it.
Remembered(n) ==
  [kind |-> "state", stamp |-> [generation |-> There, revision |-> 1], subset_revision |-> 1,
   slots |-> {[slot |-> TypeCount + 1, node |-> n]},
   visible |-> [nodes |-> {n}, edges |-> {}], counts |-> CountsOf, kernel |-> Simulation]

DoorsInit ==
  /\ SharedInit
  /\ held \in {Nothing} \cup {Remembered(n) : n \in Nodes}
  /\ call = Idle

Peer == SharedNext /\ UNCHANGED doorVars

DoorsNext ==
  \/ Peer
  \/ ViewState
  \/ Records
  \/ BeginSearch
  \/ EndSearch
  \/ HighlightSlots
  \/ CalculateHeld
  \/ ToolSearch
  \/ ToolFound
  \/ ToolMark
  \/ ToolRefused
  \/ SetAppearance
  \/ Preview
  \/ Download
  \/ Leave
  \/ ExportView

DoorsSpec == DoorsInit /\ [][DoorsNext]_allVars

-----------------------------------------------------------------------------
(***************************************************************************)
(* An answer whose stamp is the current one still describes the session,   *)
(* although it was put together from a search outside the lock, from       *)
(* counters and from caches: each slot holds its node and no node is       *)
(* missing, the counts are those of the slots, the visible part is what    *)
(* the filters keep (for as long as the subset revision stands), and an    *)
(* output holds the relations visible between its nodes, or all there are. *)
(***************************************************************************)
CurrentAnswersHold ==
  LET stands(of) ==
        /\ \A p \in held.slots : p.slot \in Slots(view) /\ view.entries[p.slot] = p.node
        /\ {p.node : p \in held.slots} = of \cap Loaded(view)
      kept == Evaluate(view, settings.predicates, settings.calculations)
  IN  /\ held.kind = "state" /\ held.stamp = SharedStamp =>
            /\ stands(Nodes)
            /\ held.counts.live = Cardinality(LiveSlots(view))
            /\ \A t \in Types : held.counts.on_screen[t] =
                                   Cardinality({n \in Loaded(view) : TypeOf[n] = t})
      /\ held.kind = "state" /\ held.stamp.generation = Here
            /\ held.subset_revision = revs.subset => held.visible = kept
      /\ held.kind \in {"records", "search"} /\ held.stamp = SharedStamp => stands(held.of)
      /\ held.kind = "records" /\ held.stamp.generation = Here
            /\ held.subset_revision = revs.subset => held.visible = held.of \cap kept.nodes
      /\ held.kind = "preview" /\ held.stamp = SharedStamp =>
            LET out == held.shown
            IN  IF out.scope = "visible"
                THEN out.nodes = kept.nodes /\ out.edges = kept.edges
                ELSE /\ out.nodes = Loaded(view)
                     /\ \A r \in Relations : r \in out.edges <=>
                                               {Source[r], Target[r]} \subseteq out.nodes

(***************************************************************************)
(* A change made with the stamp of an answer, or by the tool that searches *)
(* and marks, acts on exactly what the answer named, and not on what a     *)
(* slot has come to hold or the filters have come to show since; and what  *)
(* set_appearance is told, a null included, is what it does.               *)
(***************************************************************************)
ActsOnWhatItRead == call.step = "done" => call.meant = call.did

(***************************************************************************)
(* A file or an image is the one its preview showed, in scope, settings,   *)
(* contents and look, or it is refused: nothing that happened in between,  *)
(* and no change of the form, slips into it (output_api.rs: "downloads     *)
(* never reuse a newer live subset behind an older preview").              *)
(***************************************************************************)
FinalIsItsPreview == call.step = "saved" => call.meant = call.did
=============================================================================
