---------------------------- MODULE SharedState ----------------------------
(***************************************************************************)
(* The shared exploration of one session: shared.rs, with the rolling      *)
(* recovery of recovery.rs and history.rs.                                 *)
(*                                                                         *)
(* Every shared request runs on a fork of the state and then passes        *)
(* through finish_preparation, which refreshes what is derived from the    *)
(* state and numbers what changed, and finish_recovery, which checkpoints  *)
(* the state left behind.  prepare and commit are one step here: a commit  *)
(* whose base is no longer the current stamp is refused and changes        *)
(* nothing.                                                                *)
(***************************************************************************)
EXTENDS SlotSpace

CONSTANTS
  PredicateSets,   \* the predicate lists a subset request can send
  Appearances,     \* appearance and presentation together
  Plain,           \* the one that maps no field to colour or size
  Captions,        \* caption_by, and
  NoCaption,       \*   None
  Simulation,      \* the live kernel
  StaticKernels,   \* the kernels that arrange the view on the server
  Timings,         \* what layout_ms can measure
  CalculationKinds,
  Here,            \* the generation of this session
  MaxCalculations, \* MAX_CALCULATIONS
  MaxCheckpoints,  \* MAX_HISTORY_ENTRIES
  MaxWeight,       \* MAX_HISTORY_BYTES
  Bookmarks,       \* the names of saved views
  NoMarker,        \* no saved-view marker
  MaxPicked,       \* bound: the references one request names
  MaxRevision      \* bound: the revisions of a behaviour

ASSUME SharedAssumption ==
  /\ Plain \in Appearances
  /\ NoCaption \in Captions
  /\ Simulation \notin StaticKernels
  /\ PredicateSets \subseteq [admits  : SUBSET Nodes,
                              keeps   : SUBSET Relations,
                              isolated : BOOLEAN,
                              by_calc : {{}}]
  /\ MaxCalculations \in Nat
  /\ MaxCheckpoints \in Nat \ {0}
  /\ MaxWeight \in Nat
  /\ MaxPicked \in Nat
  /\ MaxRevision \in Nat

VARIABLES
  settings,   \* what the requests set, beside the view
  cache,      \* what is computed from view and settings: subset, mapping
  revs,       \* revision, and those of topology, subset and content
  saved,      \* the saved-view marker
  history,    \* the checkpoints, oldest first
  event       \* of the last commit: the checkpoint it restored, and `compacted`

sharedVars == <<view, slice, settings, cache, revs, saved, history, event>>

-----------------------------------------------------------------------------
(***************************************************************************)
(* What is derived.  A predicate list is the nodes its property filters    *)
(* admit, the relations its relation filter keeps, whether isolated nodes  *)
(* are hidden, and the calculations whose value it wants positive.         *)
(***************************************************************************)
NoPredicates ==
  [admits |-> Nodes, keeps |-> Relations, isolated |-> FALSE, by_calc |-> {}]

\* The value a calculation froze for a node; no value outside its input.
Positive(c, n) ==
  /\ n \in c.nodes
  /\ c.kind = "degree" => \E r \in c.edges : n \in {Source[r], Target[r]}

\* A field of an absent calculation is unavailable, and matches nothing.
Matches(p, calculations, n) ==
  /\ n \in p.admits
  /\ \A id \in p.by_calc : \E c \in calculations : c.id = id /\ Positive(c, n)

\* subset::evaluate and project
Evaluate(v, p, calculations) ==
  LET visible == {n \in Loaded(v) : Matches(p, calculations, n)}
      retained == {l \in v.edges : /\ l.id # NoRelation
                                   /\ l.id \in p.keeps
                                   /\ v.entries[l.src] \in visible
                                   /\ v.entries[l.dst] \in visible}
      incident == {v.entries[l.src] : l \in retained}
                    \cup {v.entries[l.dst] : l \in retained}
  IN  [nodes |-> IF p.isolated THEN visible \cap incident ELSE visible,
       edges |-> {l.id : l \in retained}]

\* The frozen values, without the stamp and the timing of the run.
Derived(calculations) ==
  {[id |-> c.id, kind |-> c.kind, subset_revision |-> c.subset_revision,
    nodes |-> c.nodes, edges |-> c.edges] : c \in calculations}

\* appearance_mapping::compute, by what it reads.
MappingOf(v, s) ==
  IF s.appearance = Plain THEN <<>>
  ELSE <<Loaded(v), s.appearance, Derived(s.calculations)>>

SameTopology(v, w) == v.entries = w.entries /\ v.edges = w.edges

\* Seeded fault: a new static arrangement is not compared.
Content_NoLayout(v, s) ==
  [entries |-> v.entries, edges |-> v.edges, predicates |-> s.predicates,
   appearance |-> s.appearance, caption |-> s.caption,
   highlighted |-> s.highlighted, selected |-> s.selected,
   kernel |-> s.kernel, calculations |-> s.calculations]

\* What same_content compares.
Content(v, s) ==
  [entries |-> v.entries, edges |-> v.edges, predicates |-> s.predicates,
   appearance |-> s.appearance, caption |-> s.caption,
   highlighted |-> s.highlighted, selected |-> s.selected,
   kernel |-> s.kernel, layout |-> s.layout, calculations |-> s.calculations]

Referable(v) == Types \cup Loaded(v)

SharedInit ==
  /\ Init
  /\ settings = [predicates |-> NoPredicates, appearance |-> Plain,
                 caption |-> NoCaption, highlighted |-> {}, selected |-> {},
                 kernel |-> Simulation, layout |-> {}, calculations |-> {}]
  /\ cache = [subset |-> [nodes |-> {}, edges |-> {}], mapping |-> <<>>]
  /\ revs = [revision |-> 0, topology |-> 0, subset |-> 0, content |-> 0]
  /\ saved = NoMarker
  /\ history = [checkpoints |-> <<>>, evicted |-> 0]
  /\ event = [restored |-> {}, compacted |-> FALSE]

-----------------------------------------------------------------------------
(* finish_preparation, from the settings `asked` and the view left by the request. *)

Moved == ~SameTopology(view', view)

\* Seeded fault: a calculation does not refresh what reads its values.
Refresh_NotByDerived(asked) ==
  cache' =
    [mapping |-> IF Moved \/ asked.appearance # settings.appearance
                 THEN MappingOf(view', asked) ELSE cache.mapping,
     subset  |-> IF Moved \/ asked.predicates # settings.predicates
                 THEN Evaluate(view', asked.predicates, asked.calculations)
                 ELSE cache.subset]

Refresh(asked) ==
  LET recalculated == Derived(asked.calculations) # Derived(settings.calculations)
  IN  cache' =
        [mapping |-> IF Moved \/ asked.appearance # settings.appearance \/ recalculated
                     THEN MappingOf(view', asked) ELSE cache.mapping,
         subset  |-> IF Moved \/ asked.predicates # settings.predicates \/ recalculated
                     THEN Evaluate(view', asked.predicates, asked.calculations)
                     ELSE cache.subset]

\* Seeded fault: the arrangement outlives the view it was computed for.
Settle_KeepsLayout(asked, preserve_layout) ==
  settings' = [asked EXCEPT !.highlighted = @ \cap Referable(view'),
                            !.selected = @ \cap Referable(view')]

\* Seeded fault: only the highlighted references are filtered.
Settle_KeepsSelected(asked, preserve_layout) ==
  LET stale == Moved /\ ~preserve_layout
  IN  settings' = [asked EXCEPT !.kernel = IF stale THEN Simulation ELSE @,
                                !.layout = IF stale THEN {} ELSE @,
                                !.highlighted = @ \cap Referable(view')]

\* A view that moved drops its arrangement; references that left are forgotten.
Settle(asked, preserve_layout) ==
  LET stale == Moved /\ ~preserve_layout
  IN  settings' = [asked EXCEPT !.kernel = IF stale THEN Simulation ELSE @,
                                !.layout = IF stale THEN {} ELSE @,
                                !.highlighted = @ \cap Referable(view'),
                                !.selected = @ \cap Referable(view')]

Advance(number, changed) == IF changed THEN number + 1 ELSE number

\* Seeded fault: a filter that only drops relations is not a new subset.
Renumber_NodesOnly ==
  revs' = [revision |-> revs.revision + 1,
           topology |-> Advance(revs.topology, Moved),
           subset   |-> Advance(revs.subset,
                                Moved \/ cache'.subset.nodes # cache.subset.nodes),
           content  |-> Advance(revs.content,
                                Content(view', settings') # Content(view, settings))]

Renumber ==
  revs' = [revision |-> revs.revision + 1,
           topology |-> Advance(revs.topology, Moved),
           subset   |-> Advance(revs.subset, Moved \/ cache'.subset # cache.subset),
           content  |-> Advance(revs.content,
                                Content(view', settings') # Content(view, settings))]

-----------------------------------------------------------------------------
(* finish_recovery. *)

\* The size of a checkpoint: its slot space, holes included.
Weight(checkpoint) == Len(checkpoint.state.view.entries)

TotalWeight(checkpoints) ==
  LET upto[i \in 0..Len(checkpoints)] ==
        IF i = 0 THEN 0 ELSE upto[i - 1] + Weight(checkpoints[i])
  IN  upto[Len(checkpoints)]

\* Seeded fault: a full history turns the newest checkpoint away.
Push_KeepsOldest(h, checkpoint) ==
  IF Len(h.checkpoints) >= MaxCheckpoints
  THEN [h EXCEPT !.evicted = @ + 1]
  ELSE [h EXCEPT !.checkpoints = Append(@, checkpoint)]

\* Evict from the oldest, as few as leave room for the new one.
Push(h, checkpoint) ==
  LET n == Len(h.checkpoints)
      fits(k) == \/ k = n
                 \/ /\ n - k < MaxCheckpoints
                    /\ TotalWeight(SubSeq(h.checkpoints, k + 1, n))
                         + Weight(checkpoint) <= MaxWeight
      drop == CHOOSE k \in 0..n : fits(k) /\ \A j \in 0..n : fits(j) => k <= j
  IN  [checkpoints |-> Append(SubSeq(h.checkpoints, drop + 1, n), checkpoint),
       evicted     |-> h.evicted + drop]

\* Seeded fault: RecoveryState::capture misses the calculations.
RecoveryState_NoCalculations ==
  [view |-> view, settings |-> [settings EXCEPT !.calculations = {}]]

RecoveryState == [view |-> view, settings |-> settings]

(***************************************************************************)
(* `was` is not in the code: the content the checkpoint stands for.        *)
(* A state too heavy to checkpoint refuses the whole request.              *)
(***************************************************************************)
Recover(recorded) ==
  LET checkpoint == [id |-> revs.revision, state |-> RecoveryState,
                     was |-> Content(view, settings)]
  IN  IF recorded /\ revs'.content # revs.content
      THEN /\ Weight(checkpoint) <= MaxWeight
           /\ history' = Push(history, checkpoint)
      ELSE history' = history

\* Seeded fault: the marker is left as it was.
Remark_NeverDirty(marker) == saved' = marker

\* The marker is dirty once the content is not the one it was placed on.
Remark(marker) ==
  saved' = IF marker = NoMarker THEN NoMarker
           ELSE [marker EXCEPT !.dirty = marker.content # revs'.content]

\* finish_preparation
Prepare(asked, preserve_layout) ==
  /\ revs.revision < MaxRevision
  /\ Refresh(asked)
  /\ Settle(asked, preserve_layout)
  /\ Renumber

Committed(restored, compacted) ==
  event' = [restored |-> restored, compacted |-> compacted]

\* The way of a request that is not a slice: the view stays.
Finish(asked, recorded) ==
  /\ UNCHANGED <<view, slice>>
  /\ Prepare(asked, FALSE)
  /\ Recover(recorded)
  /\ Remark(saved)
  /\ Committed({}, FALSE)

-----------------------------------------------------------------------------
(* The requests. *)

\* Browse, load, query, expand, collapse, reset.
MoveSlots ==
  /\ Next
  /\ Prepare(settings, FALSE)
  /\ Recover(TRUE)
  /\ Remark(saved)
  /\ Committed({}, slice'.compaction.done)

\* Presentation, Style and Appearance.
Style ==
  \E a \in Appearances : Finish([settings EXCEPT !.appearance = a], TRUE)

Caption ==
  \E c \in Captions : Finish([settings EXCEPT !.caption = c], TRUE)

\* A predicate on a derived field names a calculation.
Subset ==
  \E p \in PredicateSets :
    \E ids \in SUBSET {c.id : c \in settings.calculations} :
      Finish([settings EXCEPT !.predicates = [p EXCEPT !.by_calc = ids]], TRUE)

\* Slots that are live, at most MaxPicked; what is kept is what they name.
Picks ==
  {{view.entries[s] : s \in picked} :
     picked \in {p \in SUBSET LiveSlots(view) : Cardinality(p) <= MaxPicked}}

Focus == Finish(settings, FALSE)

Highlight ==
  \E refs \in Picks :
    \/ Finish([settings EXCEPT !.highlighted = refs], FALSE)
    \/ Finish([settings EXCEPT !.selected = refs], FALSE)

\* Handing back to the simulation sends no arrangement.
Layout ==
  \/ Finish([settings EXCEPT !.kernel = Simulation, !.layout = {}], TRUE)
  \/ \E k \in StaticKernels, ms \in Timings :
       Finish([settings EXCEPT
                 !.kernel = k,
                 !.layout = {[kernel |-> k, placed |-> view.entries, ms |-> ms]}],
              TRUE)

(***************************************************************************)
(* Calculate over the visible subset, under a new identity or, to          *)
(* recompute, under that of a calculation of the same kind.                *)
(***************************************************************************)
Calculate ==
  \E kind \in CalculationKinds :
    \E old \in SUBSET {c \in settings.calculations : c.kind = kind} :
      /\ Cardinality(old) <= 1
      /\ old = {} => Cardinality(settings.calculations) < MaxCalculations
      /\ LET id == IF old = {} THEN <<Here, revs.revision + 1>>
                   ELSE (CHOOSE c \in old : TRUE).id
             result == [id |-> id, kind |-> kind,
                        generation |-> Here, stamp |-> revs.revision,
                        subset_revision |-> revs.subset,
                        nodes |-> cache.subset.nodes, edges |-> cache.subset.edges]
         IN  Finish([settings EXCEPT !.calculations = (@ \ old) \cup {result}], TRUE)

\* prepare_history_restore: the exploration comes back, the saved marker does not.
RestoreHistory ==
  \E i \in 1..Len(history.checkpoints) :
    LET checkpoint == history.checkpoints[i]
    IN  /\ view' = checkpoint.state.view
        /\ UNCHANGED slice
        /\ Prepare(checkpoint.state.settings, TRUE)
        /\ Recover(TRUE)
        /\ Remark(NoMarker)
        /\ Committed({checkpoint.id}, FALSE)

(***************************************************************************)
(* prepare_bookmark_saved: the selection the capture took becomes the      *)
(* shared one.  A capture of other content is refused, so the captured     *)
(* selection names what the view still holds.                              *)
(***************************************************************************)
MarkSaved ==
  \E name \in Bookmarks, chosen \in Picks \cup {settings.selected} :
    /\ UNCHANGED <<view, slice, history>>
    /\ Prepare([settings EXCEPT !.selected = chosen], TRUE)
    /\ saved' = [bookmark |-> name, content |-> revs'.content, dirty |-> FALSE,
                 selected |-> settings'.selected,
                 was |-> Content(view', settings')]
    /\ Committed({}, FALSE)

\* prepare_bookmark_deleted
ClearMarker ==
  \E name \in Bookmarks :
    LET cleared == saved # NoMarker /\ saved.bookmark = name
    IN  /\ UNCHANGED <<view, slice, history>>
        /\ Prepare(settings, TRUE)
        /\ Remark(IF cleared THEN NoMarker ELSE saved)
        /\ Committed({}, FALSE)

SharedNext ==
  \/ MoveSlots
  \/ Style
  \/ Caption
  \/ Subset
  \/ Focus
  \/ Highlight
  \/ Layout
  \/ Calculate
  \/ RestoreHistory
  \/ MarkSaved
  \/ ClearMarker

SharedSpec == SharedInit /\ [][SharedNext]_sharedVars

-----------------------------------------------------------------------------
\* The whole exploration, and the part of it the history is for.
Whole == [entries |-> view.entries, edges |-> view.edges, settings |-> settings]
Work(v, s) == Content(v, [s EXCEPT !.highlighted = {}, !.selected = {}])

(***************************************************************************)
(* The visible subset and the appearance mapping are those of the current  *)
(* view, predicates, appearance and calculations, although the code        *)
(* recomputes each of them only when it believes an input of it changed    *)
(* (finish_preparation), restores included.                                *)
(***************************************************************************)
CachesFresh ==
  /\ cache.subset = Evaluate(view, settings.predicates, settings.calculations)
  /\ cache.mapping = MappingOf(view, settings)

(***************************************************************************)
(* An arrangement is kept exactly under a static kernel, and is one of the *)
(* slots that are on screen now: a position is never drawn for a slot that *)
(* has since come to name something else.                                  *)
(***************************************************************************)
LayoutFitsView ==
  /\ settings.kernel = Simulation <=> settings.layout = {}
  /\ \A l \in settings.layout : l.kernel = settings.kernel /\ l.placed = view.entries

\* Nothing highlighted or selected is off screen, through collapses and restores.
ReferencesOnScreen ==
  settings.highlighted \cup settings.selected \subseteq Referable(view)

\* What is derived from the view, or points into it, never outlives it.
NothingStale == CachesFresh /\ LayoutFitsView /\ ReferencesOnScreen

(***************************************************************************)
(* A calculation of this session whose input_subset_revision is the current*)
(* one was run on the nodes and relations visible now: the test a client   *)
(* makes to call a result current (calculationMatchesSubset, fields.ts).   *)
(* Identities are never shared, restores included.                         *)
(***************************************************************************)
CalculationsHonest ==
  \A c \in settings.calculations :
    /\ c.generation = Here /\ c.subset_revision = revs.subset =>
         c.nodes = cache.subset.nodes /\ c.edges = cache.subset.edges
    /\ \A d \in settings.calculations : c.id = d.id => c = d

(***************************************************************************)
(* The marker says "saved" only of the content it was placed on, however   *)
(* many changes and restores came between.                                 *)
(***************************************************************************)
MarkerHonest ==
  saved # NoMarker /\ ~saved.dirty => saved.was = Content(view, settings)

(***************************************************************************)
(* A revision number names its part: every commit has a new revision, and  *)
(* the topology, subset and content revisions move exactly when what they  *)
(* number does, so that a client that compares two numbers compares two    *)
(* states.                                                                 *)
(***************************************************************************)
RevisionsNameTheirParts ==
  [][/\ revs'.revision = revs.revision + 1
     /\ revs'.topology # revs.topology <=> ~SameTopology(view', view)
     /\ revs'.content # revs.content <=> Whole' # Whole
     /\ Evaluate(view', settings'.predicates, settings'.calculations)
          # Evaluate(view, settings.predicates, settings.calculations)
          => revs'.subset > revs.subset]_sharedVars

(***************************************************************************)
(* Restoring a checkpoint brings back exactly the content there was when   *)
(* its revision was left, and what the restore replaced can be restored in *)
(* its turn (docs/viewer/saved-views.md, Shared history).                  *)
(***************************************************************************)
RestoreExact ==
  [][\A id \in event'.restored :
       \E i \in 1..Len(history.checkpoints) :
         /\ history.checkpoints[i].id = id
         /\ Content(view', settings') = history.checkpoints[i].was]_sharedVars

(***************************************************************************)
(* A commit that changes more than what is highlighted or selected leaves  *)
(* the state before it on top of the history, under its own revision,      *)
(* within both of the history's ceilings.                                  *)
(***************************************************************************)
ChangesRecoverable ==
  [][LET kept == history'.checkpoints
     IN  /\ Len(kept) <= MaxCheckpoints
         /\ TotalWeight(kept) <= MaxWeight
         /\ Work(view', settings') # Work(view, settings) =>
              /\ kept # <<>>
              /\ kept[Len(kept)].id = revs.revision
              /\ kept[Len(kept)].was = Content(view, settings)]_sharedVars
=============================================================================
