------------------------- MODULE SharedState_proofs -------------------------
(***************************************************************************)
(* The shared exploration for any source graph, any limits and any number  *)
(* of revisions: what is derived from it is never stale, its numbers name  *)
(* their parts, and its history gives back what it took.                   *)
(*                                                                         *)
(* SharedIInv carries the slot space's own invariant (Sound) through every *)
(* commit and every checkpoint: the caches are recomputed when the entries *)
(* or the links moved, and that is enough only because in a sound view the *)
(* entries determine which nodes are loaded.  What holds of the settings   *)
(* now held of those in every checkpoint when it was taken, and holds of   *)
(* them still, because revisions only grow: so a restore needs no check.   *)
(***************************************************************************)
EXTENDS Doors, BookmarkRestore, SlotSpace_proofs

\* A calculation of another session comes with a saved view, and keeps its identity
\* when it is run again here.
Generations == {Here} \cup Elsewhere

Identities == Generations \X Nat

PredicateLists == [admits : SUBSET Nodes, keeps : SUBSET Relations,
                   isolated : BOOLEAN, by_calc : SUBSET Identities]

Results == [id : Identities, kind : CalculationKinds, generation : Generations,
            stamp : Nat, subset_revision : Nat,
            nodes : SUBSET Nodes, edges : SUBSET Relations]

Arrangements == [kernel : StaticKernels, placed : Seq(Entry), ms : Timings \cup {0}]

Refs == Types \cup Nodes

Kernels == StaticKernels \cup {Simulation}

SettingsRecords ==
  [predicates : PredicateLists, appearance : Appearances, caption : Captions,
   highlighted : SUBSET Refs, selected : SUBSET Refs,
   kernel : Kernels, layout : SUBSET Arrangements, calculations : SUBSET Results]

Contents ==
  [entries : Seq(Entry), edges : SUBSET Link, predicates : PredicateLists,
   appearance : Appearances, caption : Captions,
   highlighted : SUBSET Refs, selected : SUBSET Refs,
   kernel : Kernels, layout : SUBSET Arrangements, calculations : SUBSET Results]

CheckpointRecords ==
  [id : Nat, state : [view : ViewRecords, settings : SettingsRecords], was : Contents]

Revisions == [revision : Nat, topology : Nat, subset : Nat, content : Nat]

TypesHold ==
  /\ settings \in SettingsRecords
  /\ revs \in Revisions
  /\ history \in [checkpoints : Seq(CheckpointRecords), evicted : Nat]

\* An arrangement belongs to its kernel, and is one of these entries.
LayoutFits(s, entries) ==
  /\ s.kernel = Simulation <=> s.layout = {}
  /\ \A l \in s.layout : l.kernel = s.kernel /\ l.placed = entries

SettingsFit(v, s) ==
  /\ LayoutFits(s, v.entries)
  /\ s.highlighted \cup s.selected \subseteq Referable(v)

\* The calculations of this session ran before this revision, on no later subset than
\* this one, and on this one if they say so; one of another session says nothing here.
CalculationsFit(cs, revision, number, subset) ==
  /\ \A c \in cs :
       /\ c.id[1] = Here => c.id[2] <= revision
       /\ c.generation = Here =>
            /\ c.stamp < revision /\ c.subset_revision <= number
            /\ c.subset_revision = number => c.nodes = subset.nodes /\ c.edges = subset.edges
  /\ \A c, d \in cs : c.id = d.id => c = d

StateFits(v, s) ==
  /\ Sound(v)
  /\ SettingsFit(v, s)
  /\ CalculationsFit(s.calculations, revs.revision, revs.subset, cache.subset)

\* Every checkpoint could be the state.
HistoryHolds ==
  \A i \in 1..Len(history.checkpoints) :
    LET k == history.checkpoints[i]
    IN  /\ StateFits(k.state.view, k.state.settings)
        /\ k.was = Content(k.state.view, k.state.settings)

HistoryBounded ==
  /\ Len(history.checkpoints) <= MaxCheckpoints
  /\ TotalWeight(history.checkpoints) <= MaxWeight

IsMarker(m) ==
  m = [bookmark |-> m.bookmark, content |-> m.content, dirty |-> m.dirty,
       selected |-> m.selected, was |-> m.was]

MarkerHolds ==
  saved # NoMarker =>
    /\ IsMarker(saved)
    /\ saved.content \in Nat /\ saved.content <= revs.content
    /\ saved.content = revs.content => saved.was = Content(view, settings)
    /\ ~saved.dirty => saved.content = revs.content

SharedIInv ==
  /\ TypesHold
  /\ StateFits(view, settings)
  /\ CachesFresh
  /\ MarkerHolds
  /\ HistoryHolds
  /\ HistoryBounded

-----------------------------------------------------------------------------
(* The weight of a history. *)

\* f adds up the first n weights of s.
AddsUp(s, n, f) ==
  /\ f \in [0..n -> Nat]
  /\ f[0] = 0
  /\ \A i \in 1..n : f[i] = f[i - 1] + Weight(s[i])

Weighed(s) == \A i \in 1..Len(s) : Weight(s[i]) \in Nat

LEMMA SumExists ==
  ASSUME NEW s, Len(s) \in Nat, Weighed(s)
  PROVE  \A n \in 0..Len(s) : \E f : AddsUp(s, n, f)
<1> DEFINE P == {n \in 0..Len(s) : ~\E f : AddsUp(s, n, f)}
<1>1. SUFFICES ASSUME P # {} PROVE FALSE
  OBVIOUS
<1>2. PICK n \in P : \A m \in P : n <= m
  <2>1. P \in SUBSET Nat
    OBVIOUS
  <2> HIDE DEF P
  <2> QED
    BY <1>1, <2>1, LeastOf
<1>3. n \in Nat /\ n <= Len(s)
  OBVIOUS
<1>4. CASE n = 0
  <2>1. AddsUp(s, n, [i \in 0..0 |-> 0])
    BY <1>4 DEF AddsUp
  <2> QED
    BY <2>1
<1>5. CASE n # 0
  <2>1. n - 1 \in 0..Len(s) /\ n - 1 \notin P
    BY <1>2, <1>3, <1>5
  <2>2. PICK f : AddsUp(s, n - 1, f)
    BY <2>1
  <2> DEFINE g == [i \in 0..n |-> IF i = n THEN f[n - 1] + Weight(s[n]) ELSE f[i]]
  <2>3. Weight(s[n]) \in Nat /\ f[n - 1] \in Nat
    BY <1>3, <1>5, <2>2 DEF Weighed, AddsUp
  <2>4. g \in [0..n -> Nat] /\ g[0] = 0
    BY <1>3, <1>5, <2>2, <2>3 DEF AddsUp
  <2>5. ASSUME NEW i \in 1..n PROVE g[i] = g[i - 1] + Weight(s[i])
    <3>1. CASE i = n
      BY <1>3, <1>5, <3>1
    <3>2. CASE i # n
      <4>1. i \in 1..(n - 1) /\ g[i] = f[i] /\ g[i - 1] = f[i - 1]
        BY <1>3, <3>2
      <4> QED
        BY <2>2, <4>1 DEF AddsUp
    <3> QED
      BY <3>1, <3>2
  <2>6. AddsUp(s, n, g)
    BY <2>4, <2>5 DEF AddsUp
  <2> QED
    BY <2>6
<1> QED
  BY <1>4, <1>5

LEMMA SumUnique ==
  ASSUME NEW s, NEW n \in Nat, NEW f, AddsUp(s, n, f), NEW g, AddsUp(s, n, g)
  PROVE  f = g
<1> DEFINE P == {i \in 0..n : f[i] # g[i]}
<1>1. SUFFICES ASSUME P # {} PROVE FALSE
  <2>1. ASSUME P = {} PROVE f = g
    <3>1. f \in [0..n -> Nat] /\ g \in [0..n -> Nat] /\ \A i \in 0..n : f[i] = g[i]
      BY <2>1 DEF AddsUp
    <3> QED
      BY <3>1
  <2> QED
    BY <2>1
<1>2. PICK i \in P : \A j \in P : i <= j
  <2>1. P \in SUBSET Nat
    OBVIOUS
  <2> HIDE DEF P
  <2> QED
    BY <1>1, <2>1, LeastOf
<1>3. CASE i = 0
  BY <1>3 DEF AddsUp
<1>4. CASE i # 0
  <2>1. i \in 1..n /\ i - 1 \in 0..n /\ i - 1 \notin P
    BY <1>2, <1>4
  <2>2. f[i - 1] = g[i - 1]
    BY <2>1
  <2> QED
    BY <2>1, <2>2 DEF AddsUp
<1> QED
  BY <1>3, <1>4

\* TotalWeight is the sum.
LEMMA TotalWeightIsSum ==
  ASSUME NEW s, Len(s) \in Nat, Weighed(s), NEW f, AddsUp(s, Len(s), f)
  PROVE  TotalWeight(s) = f[Len(s)]
<1> DEFINE R(g) == g = [i \in 0..Len(s) |-> IF i = 0 THEN 0 ELSE g[i - 1] + Weight(s[i])]
<1>1. R(f)
  BY DEF AddsUp
<1>2. \A g : R(g) => AddsUp(s, Len(s), g)
  <2> SUFFICES ASSUME NEW g, R(g) PROVE AddsUp(s, Len(s), g)
    OBVIOUS
  <2>1. /\ DOMAIN g = 0..Len(s) /\ g[0] = 0
        /\ \A i \in 1..Len(s) : g[i] = g[i - 1] + Weight(s[i])
    OBVIOUS
  <2> DEFINE P == {i \in 0..Len(s) : g[i] \notin Nat}
  <2>2. P = {}
    <3> SUFFICES ASSUME P # {} PROVE FALSE
      OBVIOUS
    <3>1. PICK i \in P : \A j \in P : i <= j
      <4>1. P \in SUBSET Nat
        OBVIOUS
      <4> HIDE DEF P
      <4> QED
        BY <4>1, LeastOf
    <3>2. i # 0 /\ i \in 1..Len(s)
      BY <2>1
    <3>3. i - 1 \in 0..Len(s) /\ i - 1 \in Nat /\ ~(i <= i - 1)
      BY <3>2
    <3>4. i - 1 \notin P
      BY <3>1, <3>3
    <3>5. g[i - 1] \in Nat /\ Weight(s[i]) \in Nat
      BY <3>2, <3>3, <3>4 DEF Weighed
    <3>6. g[i] = g[i - 1] + Weight(s[i])
      BY <2>1, <3>2
    <3>7. g[i] \in Nat
      BY <3>5, <3>6
    <3> QED
      BY <3>7
  <2>3. g = [i \in 0..Len(s) |-> g[i]]
    OBVIOUS
  <2>4. g \in [0..Len(s) -> Nat]
    BY <2>2, <2>3
  <2> QED
    BY <2>1, <2>4 DEF AddsUp
<1>3. (CHOOSE g : R(g)) = f
  <2>1. R(CHOOSE g : R(g))
    BY <1>1
  <2> QED
    BY <1>2, <2>1, SumUnique
<1>4. TotalWeight(s) = (CHOOSE g : R(g))[Len(s)]
  BY DEF TotalWeight
<1> QED
  BY <1>3, <1>4

LEMMA WeightIsNat ==
  ASSUME NEW c \in CheckpointRecords
  PROVE  Weight(c) \in Nat
<1>1. c.state.view \in ViewRecords
  BY DEF CheckpointRecords
<1> QED
  BY <1>1, ViewFacts DEF Weight

LEMMA TotalWeightFacts ==
  ASSUME NEW s \in Seq(CheckpointRecords)
  PROVE  /\ TotalWeight(s) \in Nat
         /\ s = <<>> => TotalWeight(s) = 0
<1>1. Len(s) \in Nat /\ \A i \in 1..Len(s) : s[i] \in CheckpointRecords
  BY LenProperties, ElementOfSeq
<1>2. Weighed(s)
  BY <1>1, WeightIsNat DEF Weighed
<1>3. PICK f : AddsUp(s, Len(s), f)
  BY <1>1, <1>2, SumExists
<1>4. TotalWeight(s) = f[Len(s)]
  BY <1>1, <1>2, <1>3, TotalWeightIsSum
<1> QED
  BY <1>1, <1>3, <1>4 DEF AddsUp

LEMMA TotalWeightOfAppend ==
  ASSUME NEW s \in Seq(CheckpointRecords), NEW c \in CheckpointRecords
  PROVE  TotalWeight(Append(s, c)) = TotalWeight(s) + Weight(c)
<1>1. Len(s) \in Nat /\ \A i \in 1..Len(s) : s[i] \in CheckpointRecords
  BY LenProperties, ElementOfSeq
<1>2. PICK t : t = Append(s, c)
  OBVIOUS
<1>3. /\ t \in Seq(CheckpointRecords) /\ Len(t) = Len(s) + 1 /\ t[Len(s) + 1] = c
      /\ \A i \in 1..Len(s) : t[i] = s[i]
  BY <1>2, AppendProperties
<1>4. Weighed(s) /\ Weighed(t)
  <2>1. \A i \in 1..Len(t) : t[i] \in CheckpointRecords
    BY <1>3, ElementOfSeq
  <2> QED
    BY <1>1, <2>1, WeightIsNat DEF Weighed
<1>5. PICK f : AddsUp(t, Len(t), f)
  BY <1>1, <1>3, <1>4, SumExists
<1>6. f[Len(t)] = f[Len(s)] + Weight(c)
  <2>1. Len(t) \in 1..Len(t) /\ Len(t) - 1 = Len(s)
    BY <1>1, <1>3
  <2> QED
    BY <1>3, <1>5, <2>1 DEF AddsUp
<1> DEFINE g == [i \in 0..Len(s) |-> f[i]]
<1>7. AddsUp(s, Len(s), g)
  <2>1. g \in [0..Len(s) -> Nat] /\ g[0] = 0
    BY <1>1, <1>3, <1>5 DEF AddsUp
  <2>2. ASSUME NEW i \in 1..Len(s) PROVE g[i] = g[i - 1] + Weight(s[i])
    <3>1. i \in 1..Len(t) /\ i \in 0..Len(s) /\ i - 1 \in 0..Len(s)
      BY <1>1, <1>3
    <3>2. f[i] = f[i - 1] + Weight(t[i])
      BY <1>5, <3>1 DEF AddsUp
    <3> QED
      BY <1>3, <3>1, <3>2
  <2> QED
    BY <2>1, <2>2 DEF AddsUp
<1>8. TotalWeight(s) = g[Len(s)]
  BY <1>1, <1>4, <1>7, TotalWeightIsSum
<1>9. TotalWeight(t) = f[Len(t)]
  BY <1>1, <1>3, <1>4, <1>5, TotalWeightIsSum
<1> QED
  BY <1>1, <1>2, <1>6, <1>8, <1>9

\* What a push leaves: the new checkpoint on top, some of the newest below, within bounds.
\* p is h with c on top, within the ceilings.
Pushed(h, c, p) ==
  /\ p \in [checkpoints : Seq(CheckpointRecords), evicted : Nat]
  /\ Len(p.checkpoints) \in 1..MaxCheckpoints
  /\ p.checkpoints[Len(p.checkpoints)] = c
  /\ TotalWeight(p.checkpoints) <= MaxWeight
  /\ \A i \in 1..Len(p.checkpoints) :
       \/ p.checkpoints[i] = c
       \/ \E j \in 1..Len(h.checkpoints) : p.checkpoints[i] = h.checkpoints[j]

LEMMA PushFacts ==
  ASSUME NEW h \in [checkpoints : Seq(CheckpointRecords), evicted : Nat],
         NEW c \in CheckpointRecords, Weight(c) <= MaxWeight,
         NEW p, p = Push(h, c)
  PROVE  Pushed(h, c, p)
<1> DEFINE s == h.checkpoints
           n == Len(s)
           fits(k) == \/ k = n
                      \/ /\ n - k < MaxCheckpoints
                         /\ TotalWeight(SubSeq(s, k + 1, n)) + Weight(c) <= MaxWeight
           K == {k \in 0..n : fits(k)}
<1>1. s \in Seq(CheckpointRecords) /\ n \in Nat /\ h.evicted \in Nat
  BY LenProperties
<1>2. K \in SUBSET Nat /\ n \in K
  BY <1>1
<1>3. \E k \in K : \A j \in K : k <= j
  <2> HIDE DEF K
  <2> QED
    BY <1>2, LeastOf
<1>4. \E k \in 0..n : fits(k) /\ \A j \in 0..n : fits(j) => k <= j
  BY <1>3
<1> DEFINE drop == CHOOSE k \in 0..n : fits(k) /\ \A j \in 0..n : fits(j) => k <= j
<1>5. drop \in 0..n /\ fits(drop)
  <2> HIDE DEF fits
  <2> QED
    BY <1>4
<1>6. p = [checkpoints |-> Append(SubSeq(s, drop + 1, n), c), evicted |-> h.evicted + drop]
  BY DEF Push
<1> HIDE DEF drop, K
<1>7. PICK r : r = SubSeq(s, drop + 1, n)
  OBVIOUS
<1>8. /\ r \in Seq(CheckpointRecords) /\ Len(r) = n - drop
      /\ \A i \in 1..Len(r) : r[i] = s[drop + i]
  <2>1. \A i \in (drop + 1)..n : s[i] \in CheckpointRecords
    BY <1>1, <1>5, ElementOfSeq
  <2>2. /\ r \in Seq(CheckpointRecords)
        /\ Len(r) = IF drop + 1 <= n THEN n - (drop + 1) + 1 ELSE 0
        /\ \A i \in 1..(n - (drop + 1) + 1) : r[i] = s[drop + 1 + i - 1]
    BY <1>1, <1>5, <1>7, <2>1, SubSeqProperties
  <2> QED
    BY <1>1, <1>5, <2>2
<1>9. PICK t : t = Append(r, c)
  OBVIOUS
<1>10. /\ t \in Seq(CheckpointRecords) /\ Len(t) = n - drop + 1 /\ t[Len(t)] = c
       /\ \A i \in 1..Len(r) : t[i] = r[i]
  BY <1>8, <1>9, AppendProperties
<1>11. TotalWeight(t) = TotalWeight(r) + Weight(c)
  BY <1>8, <1>9, TotalWeightOfAppend
<1>12. /\ Weight(c) \in Nat /\ TotalWeight(r) \in Nat
       /\ MaxCheckpoints \in Nat \ {0} /\ MaxWeight \in Nat
  BY <1>8, WeightIsNat, TotalWeightFacts, SharedAssumption
<1>13. Len(t) \in 1..MaxCheckpoints /\ TotalWeight(t) <= MaxWeight
  <2>1. CASE drop = n
    <3>1. Len(r) = 0 /\ Len(t) = 1
      BY <1>1, <1>8, <1>10, <2>1
    <3>2. r = <<>>
      BY <1>8, <3>1, EmptySeq
    <3>3. TotalWeight(r) = 0
      BY <1>8, <3>2, TotalWeightFacts
    <3>4. TotalWeight(t) = Weight(c)
      BY <1>11, <1>12, <3>3
    <3> QED
      BY <1>12, <3>1, <3>4
  <2>2. CASE drop # n
    <3>1. n - drop < MaxCheckpoints /\ TotalWeight(r) + Weight(c) <= MaxWeight
      BY <1>5, <1>7, <2>2
    <3>2. TotalWeight(t) <= MaxWeight
      BY <1>11, <3>1
    <3>3. Len(t) \in 1..MaxCheckpoints
      BY <1>1, <1>5, <1>10, <1>12, <3>1
    <3> QED
      BY <3>2, <3>3
  <2> QED
    BY <2>1, <2>2
<1>14. \A i \in 1..Len(t) : t[i] = c \/ \E j \in 1..n : t[i] = s[j]
  <2> SUFFICES ASSUME NEW i \in 1..Len(t), t[i] # c PROVE \E j \in 1..n : t[i] = s[j]
    OBVIOUS
  <2>1. i \in 1..Len(r) /\ drop + i \in 1..n
    BY <1>1, <1>5, <1>8, <1>10
  <2> QED
    BY <1>8, <1>10, <2>1
<1>15. p = [checkpoints |-> t, evicted |-> h.evicted + drop] /\ h.evicted + drop \in Nat
  BY <1>1, <1>5, <1>6, <1>7, <1>9
<1> QED
  BY <1>10, <1>13, <1>14, <1>15 DEF Pushed

-----------------------------------------------------------------------------
(* What the caches depend on. *)

\* In a sound view the entries say which nodes are loaded.
LEMMA EntriesTellLoaded ==
  ASSUME NEW v, NEW w, Sound(v), Sound(w), v.entries = w.entries
  PROVE  Loaded(v) = Loaded(w)
<1>1. ASSUME NEW x, NEW y, Sound(x), Sound(y), x.entries = y.entries, NEW n \in Loaded(x)
      PROVE  n \in Loaded(y)
  <2>1. MapsInvertEntries(x) /\ MapsInvertEntries(y) /\ x \in ViewRecords
    BY <1>1 DEF Sound, Coherent
  <2> DEFINE s == x.node_slot[n]
  <2>2. n \in Nodes /\ s \in Slots(x) /\ x.entries[s] = n
    BY <1>1, <2>1 DEF MapsInvertEntries, Loaded
  <2>3. s \in NodeSlots(y) /\ y.entries[s] = n
    BY <1>1, <2>2 DEF NodeSlots, Slots
  <2>4. y.node_slot[n] = s
    BY <2>1, <2>3 DEF MapsInvertEntries
  <2>5. s # 0
    BY <2>1, <2>2, ViewFacts DEF Slots
  <2> QED
    BY <2>2, <2>4, <2>5 DEF Loaded, NoSlot
<1> QED
  BY <1>1

\* A calculation is read through what Derived keeps of it.
LEMMA DerivedTells ==
  ASSUME NEW cs, NEW ds, Derived(cs) = Derived(ds), NEW p, NEW n, Matches(p, cs, n)
  PROVE  Matches(p, ds, n)
<1> DEFINE d(c) == [id |-> c.id, kind |-> c.kind, subset_revision |-> c.subset_revision,
                    nodes |-> c.nodes, edges |-> c.edges]
<1>1. \A c \in cs : \E e \in ds : d(e) = d(c)
  BY DEF Derived
<1>2. \A c, e : d(e) = d(c) =>
        e.id = c.id /\ e.kind = c.kind /\ e.nodes = c.nodes /\ e.edges = c.edges
  OBVIOUS
<1>3. \A c, e : d(e) = d(c) => (Positive(c, n) => Positive(e, n))
  BY <1>2 DEF Positive
<1> HIDE DEF d
<1>4. ASSUME NEW id \in p.by_calc PROVE \E e \in ds : e.id = id /\ Positive(e, n)
  <2>1. PICK c \in cs : c.id = id /\ Positive(c, n)
    BY <1>4 DEF Matches
  <2>2. PICK e \in ds : d(e) = d(c)
    BY <1>1
  <2> QED
    BY <1>2, <1>3, <2>1, <2>2
<1> QED
  BY <1>4 DEF Matches

LEMMA EvaluateSame ==
  ASSUME NEW v, NEW w, Sound(v), Sound(w), SameTopology(v, w),
         NEW cs, NEW ds, Derived(cs) = Derived(ds), NEW p
  PROVE  Evaluate(v, p, cs) = Evaluate(w, p, ds)
<1>1. \A n : Matches(p, cs, n) <=> Matches(p, ds, n)
  BY DerivedTells
<1>2. v.entries = w.entries /\ v.edges = w.edges
  BY DEF SameTopology
<1>3. Loaded(v) = Loaded(w)
  BY <1>2, EntriesTellLoaded
<1>4. {n \in Loaded(v) : Matches(p, cs, n)} = {n \in Loaded(w) : Matches(p, ds, n)}
  BY <1>1, <1>3
<1> QED
  BY <1>2, <1>4 DEF Evaluate

LEMMA MappingSame ==
  ASSUME NEW v, NEW w, Sound(v), Sound(w), SameTopology(v, w),
         NEW s, NEW t, s.appearance = t.appearance,
         Derived(s.calculations) = Derived(t.calculations)
  PROVE  MappingOf(v, s) = MappingOf(w, t)
<1>1. Loaded(v) = Loaded(w)
  BY EntriesTellLoaded DEF SameTopology
<1> QED
  BY <1>1 DEF MappingOf

LEMMA EvaluateType ==
  ASSUME NEW v, Sound(v), NEW p, NEW cs
  PROVE  Evaluate(v, p, cs) \in [nodes : SUBSET Nodes, edges : SUBSET Relations]
<1>1. v.edges \subseteq Link
  BY DEF Sound, ViewRecords
<1>2. \A l \in v.edges : l.id # NoRelation => l.id \in Relations
  BY <1>1 DEF Link
<1> DEFINE visible == {n \in Loaded(v) : Matches(p, cs, n)}
           retained == {l \in v.edges : /\ l.id # NoRelation
                                        /\ l.id \in p.keeps
                                        /\ v.entries[l.src] \in visible
                                        /\ v.entries[l.dst] \in visible}
           incident == {v.entries[l.src] : l \in retained}
                         \cup {v.entries[l.dst] : l \in retained}
           nodes == IF p.isolated THEN visible \cap incident ELSE visible
           edges == {l.id : l \in retained}
<1>3. Evaluate(v, p, cs) = [nodes |-> nodes, edges |-> edges]
  BY DEF Evaluate
<1>4. nodes \subseteq Nodes
  BY DEF Loaded
<1>5. edges \subseteq Relations
  BY <1>2
<1> QED
  BY <1>3, <1>4, <1>5

-----------------------------------------------------------------------------
(* The types of what requests ask for. *)

LEMMA ContentType ==
  ASSUME NEW v \in ViewRecords, NEW s \in SettingsRecords
  PROVE  Content(v, s) \in Contents
BY DEF Content, Contents, ViewRecords, SettingsRecords

\* Content compares all of the settings, and what the topology is.
LEMMA ContentTells ==
  ASSUME NEW v, NEW w, NEW s \in SettingsRecords, NEW t \in SettingsRecords
  PROVE  Content(v, s) = Content(w, t) <=> SameTopology(v, w) /\ s = t
<1>1. Content(v, s) = Content(w, t) =>
        /\ v.entries = w.entries /\ v.edges = w.edges
        /\ s.predicates = t.predicates /\ s.appearance = t.appearance
        /\ s.caption = t.caption /\ s.highlighted = t.highlighted
        /\ s.selected = t.selected /\ s.kernel = t.kernel /\ s.layout = t.layout
        /\ s.calculations = t.calculations
  BY DEF Content
<1>2. /\ s.predicates = t.predicates /\ s.appearance = t.appearance
      /\ s.caption = t.caption /\ s.highlighted = t.highlighted
      /\ s.selected = t.selected /\ s.kernel = t.kernel /\ s.layout = t.layout
      /\ s.calculations = t.calculations
      => s = t
  BY DEF SettingsRecords
<1>3. SameTopology(v, w) /\ s = t => Content(v, s) = Content(w, t)
  BY DEF Content, SameTopology
<1> QED
  BY <1>1, <1>2, <1>3 DEF SameTopology

-----------------------------------------------------------------------------
(* finish_preparation. *)

\* What every request makes sure of before it ends in finish_preparation.
Asks(asked, preserve_layout) ==
  /\ asked \in SettingsRecords
  /\ asked.kernel = Simulation <=> asked.layout = {}
  /\ \A l \in asked.layout :
       /\ l.kernel = asked.kernel
       /\ l.placed = view'.entries \/ (Moved /\ ~preserve_layout)
  /\ CalculationsFit(asked.calculations, revs.revision + 1, revs.subset, cache.subset)

LEMMA SettleFacts ==
  ASSUME NEW asked \in SettingsRecords, NEW preserve_layout \in BOOLEAN,
         Settle(asked, preserve_layout)
  PROVE  /\ settings' \in SettingsRecords
         /\ settings'.predicates = asked.predicates
         /\ settings'.appearance = asked.appearance
         /\ settings'.caption = asked.caption
         /\ settings'.calculations = asked.calculations
         /\ settings'.highlighted = asked.highlighted \cap Referable(view')
         /\ settings'.selected = asked.selected \cap Referable(view')
         /\ Moved /\ ~preserve_layout => settings'.kernel = Simulation /\ settings'.layout = {}
         /\ ~(Moved /\ ~preserve_layout) =>
              settings'.kernel = asked.kernel /\ settings'.layout = asked.layout
<1> DEFINE stale == Moved /\ ~preserve_layout
           kernel == IF stale THEN Simulation ELSE asked.kernel
           layout == IF stale THEN {} ELSE asked.layout
           highlighted == asked.highlighted \cap Referable(view')
           selected == asked.selected \cap Referable(view')
<1>1. settings' = [asked EXCEPT !.kernel = kernel, !.layout = layout,
                                !.highlighted = highlighted, !.selected = selected]
  BY DEF Settle
<1>2. /\ kernel \in Kernels /\ layout \subseteq Arrangements
      /\ highlighted \subseteq Refs /\ selected \subseteq Refs
  BY DEF SettingsRecords, Kernels
<1>3. /\ stale => kernel = Simulation /\ layout = {}
      /\ ~stale => kernel = asked.kernel /\ layout = asked.layout
  OBVIOUS
<1> HIDE DEF kernel, layout, highlighted, selected
<1>4. /\ settings' \in SettingsRecords
      /\ settings'.predicates = asked.predicates
      /\ settings'.appearance = asked.appearance
      /\ settings'.caption = asked.caption
      /\ settings'.calculations = asked.calculations
      /\ settings'.highlighted = highlighted /\ settings'.selected = selected
      /\ settings'.kernel = kernel /\ settings'.layout = layout
  BY <1>1, <1>2 DEF SettingsRecords
<1> QED
  BY <1>3, <1>4 DEF highlighted, selected

LEMMA SettleFits ==
  ASSUME NEW asked, NEW preserve_layout \in BOOLEAN,
         Asks(asked, preserve_layout), Settle(asked, preserve_layout)
  PROVE  SettingsFit(view, settings)'
<1>1. asked \in SettingsRecords
  BY DEF Asks
<1>2. LayoutFits(settings', view'.entries)
  BY <1>1, SettleFacts DEF Asks, LayoutFits
<1>3. settings'.highlighted \cup settings'.selected \subseteq Referable(view')
  BY <1>1, SettleFacts
<1> QED
  BY <1>2, <1>3 DEF SettingsFit

\* The caches are fresh, whether they were recomputed or kept.
LEMMA RefreshFacts ==
  ASSUME SharedIInv, NEW asked \in SettingsRecords, NEW preserve_layout \in BOOLEAN,
         Sound(view'), Refresh(asked), Settle(asked, preserve_layout)
  PROVE  CachesFresh'
<1>1. /\ settings'.predicates = asked.predicates
      /\ settings'.appearance = asked.appearance
      /\ settings'.calculations = asked.calculations
  BY SettleFacts
<1>2. /\ Sound(view)
      /\ cache.subset = Evaluate(view, settings.predicates, settings.calculations)
      /\ cache.mapping = MappingOf(view, settings)
  BY DEF SharedIInv, StateFits, CachesFresh
<1>3. SameTopology(view', view')
  BY DEF SameTopology
<1>4. MappingOf(view', asked) = MappingOf(view', settings')
  BY <1>1, <1>3, MappingSame
<1> DEFINE recalculated == Derived(asked.calculations) # Derived(settings.calculations)
<1>5. cache'.mapping = MappingOf(view', settings')
  <2>1. CASE Moved \/ asked.appearance # settings.appearance \/ recalculated
    BY <1>4, <2>1 DEF Refresh
  <2>2. CASE ~(Moved \/ asked.appearance # settings.appearance \/ recalculated)
    <3>1. cache'.mapping = cache.mapping
      BY <2>2 DEF Refresh
    <3>2. SameTopology(view', view)
      BY <2>2 DEF Moved
    <3>3. MappingOf(view', asked) = MappingOf(view, settings)
      BY <1>2, <2>2, <3>2, MappingSame
    <3> QED
      BY <1>2, <1>4, <3>1, <3>3
  <2> QED
    BY <2>1, <2>2
<1>6. cache'.subset = Evaluate(view', settings'.predicates, settings'.calculations)
  <2>1. CASE Moved \/ asked.predicates # settings.predicates \/ recalculated
    BY <1>1, <2>1 DEF Refresh
  <2>2. CASE ~(Moved \/ asked.predicates # settings.predicates \/ recalculated)
    <3>1. cache'.subset = cache.subset
      BY <2>2 DEF Refresh
    <3>2. SameTopology(view', view)
      BY <2>2 DEF Moved
    <3>3. Evaluate(view', asked.predicates, asked.calculations)
            = Evaluate(view, settings.predicates, settings.calculations)
      BY <1>2, <2>2, <3>2, EvaluateSame
    <3> QED
      BY <1>1, <1>2, <3>1, <3>3
  <2> QED
    BY <2>1, <2>2
<1> QED
  BY <1>5, <1>6 DEF CachesFresh

\* Each number moves exactly with its part.
LEMMA RenumberFacts ==
  ASSUME revs \in Revisions, Renumber
  PROVE  /\ revs' \in Revisions
         /\ revs'.revision = revs.revision + 1
         /\ revs.content <= revs'.content
         /\ revs'.content = revs.content <=> Content(view', settings') = Content(view, settings)
         /\ revs'.topology = revs.topology <=> SameTopology(view', view)
         /\ revs.subset <= revs'.subset
         /\ cache'.subset # cache.subset => revs.subset < revs'.subset
<1>1. /\ revs.revision \in Nat /\ revs.topology \in Nat /\ revs.subset \in Nat
      /\ revs.content \in Nat
  BY DEF Revisions
<1>2. \A b \in BOOLEAN, n \in Nat :
        /\ Advance(n, b) \in Nat /\ n <= Advance(n, b)
        /\ Advance(n, b) = n <=> ~b
  BY DEF Advance
<1> DEFINE moved == ~SameTopology(view', view)
           filtered == moved \/ cache'.subset # cache.subset
           changed == Content(view', settings') # Content(view, settings)
<1>3. revs' = [revision |-> revs.revision + 1,
               topology |-> Advance(revs.topology, moved),
               subset   |-> Advance(revs.subset, filtered),
               content  |-> Advance(revs.content, changed)]
  BY DEF Renumber, Moved
<1>4. moved \in BOOLEAN /\ filtered \in BOOLEAN /\ changed \in BOOLEAN
  BY DEF SameTopology
<1>5. /\ Advance(revs.topology, moved) \in Nat
      /\ Advance(revs.topology, moved) = revs.topology <=> SameTopology(view', view)
  BY <1>1, <1>2, <1>4
<1>6. /\ Advance(revs.subset, filtered) \in Nat /\ revs.subset <= Advance(revs.subset, filtered)
      /\ cache'.subset # cache.subset => revs.subset < Advance(revs.subset, filtered)
  BY <1>1 DEF Advance
<1>7. /\ Advance(revs.content, changed) \in Nat /\ revs.content <= Advance(revs.content, changed)
      /\ Advance(revs.content, changed) = revs.content <=>
           Content(view', settings') = Content(view, settings)
  BY <1>1, <1>2, <1>4
<1> HIDE DEF moved, filtered, changed
<1> QED
  BY <1>1, <1>3, <1>5, <1>6, <1>7 DEF Revisions

\* What fitted the numbers before a commit fits them after it.
LEMMA CalculationsStillFit ==
  ASSUME revs \in Revisions, Renumber, NEW cs \in SUBSET Results,
         CalculationsFit(cs, revs.revision + 1, revs.subset, cache.subset)
  PROVE  CalculationsFit(cs, revs'.revision, revs'.subset, cache'.subset)
<1>1. /\ revs.subset \in Nat /\ revs'.subset \in Nat /\ revs'.revision = revs.revision + 1
      /\ revs.subset <= revs'.subset
      /\ cache'.subset # cache.subset => revs.subset < revs'.subset
  BY RenumberFacts DEF Revisions
<1>2. \A c \in cs : c.subset_revision \in Nat
  BY DEF Results
<1>3. ASSUME NEW c \in cs
      PROVE  /\ c.id[1] = Here => c.id[2] <= revs'.revision
             /\ c.generation = Here =>
                  /\ c.stamp < revs'.revision /\ c.subset_revision <= revs'.subset
                  /\ c.subset_revision = revs'.subset =>
                       c.nodes = cache'.subset.nodes /\ c.edges = cache'.subset.edges
  <2>1. /\ c.id[1] = Here => c.id[2] <= revs.revision + 1
        /\ c.generation = Here =>
             /\ c.stamp < revs.revision + 1 /\ c.subset_revision <= revs.subset
             /\ c.subset_revision = revs.subset =>
                  c.nodes = cache.subset.nodes /\ c.edges = cache.subset.edges
    BY <1>3 DEF CalculationsFit
  <2> QED
    BY <1>1, <1>2, <1>3, <2>1
<1> QED
  BY <1>3 DEF CalculationsFit

LEMMA NextRevision ==
  ASSUME revs \in Revisions, NEW cs \in SUBSET Results,
         CalculationsFit(cs, revs.revision, revs.subset, cache.subset)
  PROVE  CalculationsFit(cs, revs.revision + 1, revs.subset, cache.subset)
<1>1. revs.revision \in Nat
  BY DEF Revisions
<1>2. \A c \in cs : c.id[2] \in Nat /\ c.stamp \in Nat
  BY DEF Results, Identities
<1> QED
  BY <1>1, <1>2 DEF CalculationsFit

LEMMA PrepareFacts ==
  ASSUME SharedIInv, NEW asked, NEW preserve_layout \in BOOLEAN,
         Asks(asked, preserve_layout), Sound(view'), Prepare(asked, preserve_layout)
  PROVE  /\ settings' \in SettingsRecords
         /\ revs' \in Revisions
         /\ StateFits(view, settings)'
         /\ CachesFresh'
<1>1. /\ asked \in SettingsRecords /\ revs \in Revisions
      /\ Refresh(asked) /\ Settle(asked, preserve_layout) /\ Renumber
  BY DEF Asks, SharedIInv, TypesHold, Prepare
<1>2. settings' \in SettingsRecords /\ settings'.calculations = asked.calculations
  BY <1>1, SettleFacts
<1>3. SettingsFit(view, settings)'
  BY <1>1, SettleFits
<1>4. CalculationsFit(settings'.calculations, revs'.revision, revs'.subset, cache'.subset)
  <2>1. asked.calculations \in SUBSET Results
    BY <1>1 DEF SettingsRecords
  <2> QED
    BY <1>1, <1>2, <2>1, CalculationsStillFit DEF Asks
<1>5. CachesFresh'
  BY <1>1, RefreshFacts
<1>6. revs' \in Revisions
  BY <1>1, RenumberFacts
<1> QED
  BY <1>2, <1>3, <1>4, <1>5, <1>6 DEF StateFits

-----------------------------------------------------------------------------
(* finish_recovery. *)

\* Whatever could be the state before a commit could be it after.
LEMMA StateStillFits ==
  ASSUME revs \in Revisions, Renumber, NEW v, NEW s \in SettingsRecords, StateFits(v, s)
  PROVE  /\ Sound(v) /\ SettingsFit(v, s)
         /\ CalculationsFit(s.calculations, revs'.revision, revs'.subset, cache'.subset)
<1>1. s.calculations \in SUBSET Results
  BY DEF SettingsRecords
<1> QED
  BY <1>1, NextRevision, CalculationsStillFit DEF StateFits

\* What one checkpoint holds, at these numbers.
CheckpointHolds(k, revision, number, subset) ==
  /\ Sound(k.state.view)
  /\ SettingsFit(k.state.view, k.state.settings)
  /\ CalculationsFit(k.state.settings.calculations, revision, number, subset)
  /\ k.was = Content(k.state.view, k.state.settings)

LEMMA RecoverFacts ==
  ASSUME SharedIInv, Renumber, NEW recorded \in BOOLEAN, Recover(recorded)
  PROVE  /\ history' \in [checkpoints : Seq(CheckpointRecords), evicted : Nat]
         /\ HistoryHolds'
         /\ HistoryBounded'
         /\ recorded /\ revs'.content # revs.content =>
              LET kept == history'.checkpoints
              IN  /\ kept # <<>>
                  /\ kept[Len(kept)].id = revs.revision
                  /\ kept[Len(kept)].was = Content(view, settings)
<1>1. /\ revs \in Revisions /\ revs.revision \in Nat
      /\ settings \in SettingsRecords /\ view \in ViewRecords
      /\ history \in [checkpoints : Seq(CheckpointRecords), evicted : Nat]
      /\ StateFits(view, settings)
  BY DEF SharedIInv, TypesHold, StateFits, Sound, Revisions
<1> DEFINE Holds(k) == CheckpointHolds(k, revs'.revision, revs'.subset, cache'.subset)
<1>2. \A j \in 1..Len(history.checkpoints) : Holds(history.checkpoints[j])
  <2> SUFFICES ASSUME NEW j \in 1..Len(history.checkpoints)
               PROVE  Holds(history.checkpoints[j])
    OBVIOUS
  <2>1. history.checkpoints[j] \in CheckpointRecords
    BY <1>1, ElementOfSeq
  <2> DEFINE k == history.checkpoints[j]
  <2>2. k.state.settings \in SettingsRecords
    BY <2>1 DEF CheckpointRecords
  <2>3. /\ StateFits(k.state.view, k.state.settings)
        /\ k.was = Content(k.state.view, k.state.settings)
    BY DEF SharedIInv, HistoryHolds
  <2> HIDE DEF k
  <2> QED
    BY <1>1, <2>2, <2>3, StateStillFits DEF CheckpointHolds, k
<1>3. ASSUME \A i \in 1..Len(history'.checkpoints) : Holds(history'.checkpoints[i])
      PROVE  HistoryHolds'
  BY <1>3 DEF HistoryHolds, StateFits, CheckpointHolds
<1>4. CASE ~(recorded /\ revs'.content # revs.content)
  <2>1. history' = history
    BY <1>4 DEF Recover
  <2>2. HistoryBounded'
    BY <2>1 DEF SharedIInv, HistoryBounded
  <2>3. HistoryHolds'
    BY <1>2, <1>3, <2>1
  <2> QED
    BY <1>1, <1>4, <2>1, <2>2, <2>3
<1>5. CASE recorded /\ revs'.content # revs.content
  <2> DEFINE c == [id |-> revs.revision, state |-> [view |-> view, settings |-> settings],
                   was |-> Content(view, settings)]
  <2>1. c \in CheckpointRecords
    BY <1>1, ContentType DEF CheckpointRecords
  <2>2. /\ c.id = revs.revision /\ c.was = Content(view, settings)
        /\ c.state.view = view /\ c.state.settings = settings
    OBVIOUS
  <2>3. Weight(c) <= MaxWeight /\ history' = Push(history, c)
    BY <1>5 DEF Recover, RecoveryState
  <2> HIDE DEF c
  <2>4. Holds(c)
    BY <1>1, <2>2, StateStillFits DEF CheckpointHolds
  <2>5. PICK p : p = Push(history, c)
    OBVIOUS
  <2> HIDE DEF Holds
  <2>6. Pushed(history, c, p)
    BY <1>1, <2>1, <2>3, <2>5, PushFacts
  <2>7. p = history'
    BY <2>3, <2>5
  <2>8. HistoryBounded'
    BY <2>6, <2>7, SharedAssumption DEF HistoryBounded, Pushed
  <2>9. \A i \in 1..Len(p.checkpoints) : Holds(p.checkpoints[i])
    BY <1>2, <2>4, <2>6 DEF Pushed
  <2>10. HistoryHolds'
    BY <1>3, <2>7, <2>9
  <2>11. p.checkpoints # <<>>
    BY <2>6, EmptySeq DEF Pushed
  <2> QED
    BY <2>2, <2>6, <2>7, <2>8, <2>10, <2>11 DEF Pushed
<1> QED
  BY <1>4, <1>5

-----------------------------------------------------------------------------
(* The marker. *)

LEMMA RemarkFacts ==
  ASSUME SharedIInv, Renumber, NEW marker \in {saved, NoMarker}, Remark(marker)
  PROVE  MarkerHolds'
<1>1. /\ revs \in Revisions /\ revs.content \in Nat
      /\ revs'.content \in Nat /\ revs.content <= revs'.content
      /\ revs'.content = revs.content <=> Content(view', settings') = Content(view, settings)
  BY RenumberFacts DEF SharedIInv, TypesHold, Revisions
<1>2. CASE marker = NoMarker
  BY <1>2 DEF Remark, MarkerHolds
<1>3. CASE marker # NoMarker
  <2>1. /\ marker = saved /\ IsMarker(saved)
        /\ saved.content \in Nat /\ saved.content <= revs.content
        /\ saved.content = revs.content => saved.was = Content(view, settings)
    BY <1>3 DEF SharedIInv, MarkerHolds
  <2>2. saved' = [saved EXCEPT !.dirty = saved.content # revs'.content]
    BY <1>3, <2>1 DEF Remark
  <2>3. /\ IsMarker(saved') /\ saved'.content = saved.content /\ saved'.was = saved.was
        /\ saved'.dirty = (saved.content # revs'.content)
    BY <2>1, <2>2 DEF IsMarker
  <2>4. saved'.content <= revs'.content
    BY <1>1, <2>1, <2>3
  <2>5. saved'.content = revs'.content => saved'.was = Content(view', settings')
    BY <1>1, <2>1, <2>3
  <2>6. ~saved'.dirty => saved'.content = revs'.content
    BY <2>3
  <2> QED
    BY <2>1, <2>3, <2>4, <2>5, <2>6 DEF MarkerHolds
<1> QED
  BY <1>2, <1>3

-----------------------------------------------------------------------------
(* A commit, whatever it was asked for. *)

\* What a request sees of the state it runs on.
LEMMA StateFacts ==
  ASSUME SharedIInv
  PROVE  /\ settings \in SettingsRecords
         /\ revs \in Revisions
         /\ Sound(view)
         /\ SettingsFit(view, settings)
         /\ settings.calculations \in SUBSET Results
         /\ CalculationsFit(settings.calculations, revs.revision + 1, revs.subset, cache.subset)
<1>1. settings \in SettingsRecords /\ revs \in Revisions /\ StateFits(view, settings)
  BY DEF SharedIInv, TypesHold
<1>2. settings.calculations \in SUBSET Results
  BY <1>1 DEF SettingsRecords
<1> QED
  BY <1>1, <1>2, NextRevision DEF StateFits

\* Of a request that leaves the view alone.
LEMMA StayAsks ==
  ASSUME SharedIInv, view' = view, NEW asked \in SettingsRecords,
         LayoutFits(asked, view.entries),
         CalculationsFit(asked.calculations, revs.revision + 1, revs.subset, cache.subset),
         NEW preserve_layout \in BOOLEAN
  PROVE  Asks(asked, preserve_layout) /\ Sound(view')
BY StateFacts DEF Asks, LayoutFits

\* Of a request that asks for nothing but other references.
LEMMA ReferenceAsks ==
  ASSUME SharedIInv, view' = view, NEW highlighted \in SUBSET Refs, NEW selected \in SUBSET Refs,
         NEW asked, asked = [settings EXCEPT !.highlighted = highlighted, !.selected = selected],
         NEW preserve_layout \in BOOLEAN
  PROVE  Asks(asked, preserve_layout) /\ Sound(view')
<1>1. /\ settings \in SettingsRecords /\ LayoutFits(settings, view.entries)
      /\ CalculationsFit(settings.calculations, revs.revision + 1, revs.subset, cache.subset)
  BY StateFacts DEF SettingsFit
<1>2. /\ asked \in SettingsRecords /\ asked.kernel = settings.kernel
      /\ asked.layout = settings.layout /\ asked.calculations = settings.calculations
  BY <1>1 DEF SettingsRecords
<1>3. LayoutFits(asked, view.entries)
  BY <1>1, <1>2 DEF LayoutFits
<1> QED
  BY <1>1, <1>2, <1>3, StayAsks

LEMMA SettingsEqual ==
  ASSUME NEW s \in SettingsRecords, NEW t \in SettingsRecords,
         s.predicates = t.predicates, s.appearance = t.appearance, s.caption = t.caption,
         s.highlighted = t.highlighted, s.selected = t.selected, s.kernel = t.kernel,
         s.layout = t.layout, s.calculations = t.calculations
  PROVE  s = t
BY DEF SettingsRecords

LEMMA ReferenceKeepsWork ==
  ASSUME SharedIInv, view' = view, NEW highlighted \in SUBSET Refs, NEW selected \in SUBSET Refs,
         NEW asked, asked = [settings EXCEPT !.highlighted = highlighted, !.selected = selected],
         NEW preserve_layout \in BOOLEAN, Settle(asked, preserve_layout)
  PROVE  Work(view', settings') = Work(view, settings)
<1>1. settings \in SettingsRecords
  BY StateFacts
<1>2. /\ asked \in SettingsRecords /\ asked.predicates = settings.predicates
      /\ asked.appearance = settings.appearance /\ asked.caption = settings.caption
      /\ asked.kernel = settings.kernel
      /\ asked.layout = settings.layout /\ asked.calculations = settings.calculations
  BY <1>1 DEF SettingsRecords
<1>3. ~Moved
  BY DEF Moved, SameTopology
<1>4. PICK t : t = settings'
  OBVIOUS
<1>5. /\ t \in SettingsRecords /\ t.predicates = settings.predicates
      /\ t.appearance = settings.appearance /\ t.caption = settings.caption
      /\ t.kernel = settings.kernel
      /\ t.layout = settings.layout /\ t.calculations = settings.calculations
  BY <1>2, <1>3, <1>4, SettleFacts
<1> DEFINE Bare(s) == [s EXCEPT !.highlighted = {}, !.selected = {}]
<1>6. \A s \in SettingsRecords :
        /\ Bare(s).predicates = s.predicates /\ Bare(s).appearance = s.appearance
        /\ Bare(s).caption = s.caption /\ Bare(s).highlighted = {} /\ Bare(s).selected = {}
        /\ Bare(s).kernel = s.kernel /\ Bare(s).layout = s.layout
        /\ Bare(s).calculations = s.calculations
  BY DEF SettingsRecords
<1>7. Work(view, t) = Content(view, Bare(t)) /\ Work(view, settings) = Content(view, Bare(settings))
  BY DEF Work
<1> HIDE DEF Bare
<1>8. Content(view, Bare(t)) = Content(view, Bare(settings))
  BY <1>1, <1>5, <1>6 DEF Content
<1> QED
  BY <1>4, <1>7, <1>8

LEMMA PicksAreRefs ==
  ASSUME SharedIInv, NEW refs \in Picks
  PROVE  refs \in SUBSET Refs
<1>1. view.entries \in [Slots(view) -> Entry]
  BY ViewFacts DEF SharedIInv, StateFits, Sound
<1>2. PICK picked \in SUBSET LiveSlots(view) : refs = {view.entries[s] : s \in picked}
  BY DEF Picks
<1>3. \A s \in picked : view.entries[s] \in Refs
  BY <1>1, <1>2 DEF LiveSlots, Entry, Refs
<1> QED
  BY <1>2, <1>3

\* finish_preparation and finish_recovery on a request that made sure of what it asks.
Commits(asked, preserve_layout, recorded) ==
  /\ preserve_layout \in BOOLEAN /\ recorded \in BOOLEAN
  /\ Asks(asked, preserve_layout)
  /\ Sound(view')
  /\ Prepare(asked, preserve_layout)
  /\ Recover(recorded)
  /\ MarkerHolds'
  /\ recorded \/ Work(view', settings') = Work(view, settings)
  /\ \A id \in event'.restored :
       \E i \in 1..Len(history.checkpoints) :
         /\ history.checkpoints[i].id = id
         /\ Content(view', settings') = history.checkpoints[i].was

LEMMA FinishCommits ==
  ASSUME SharedIInv, NEW asked, NEW recorded \in BOOLEAN, Asks(asked, FALSE), Sound(view'),
         Finish(asked, recorded), recorded \/ Work(view', settings') = Work(view, settings)
  PROVE  \E a, p, r : Commits(a, p, r)
<1>1. /\ Prepare(asked, FALSE) /\ Recover(recorded) /\ Remark(saved) /\ Renumber
      /\ event'.restored = {}
  BY DEF Finish, Committed, Prepare
<1>2. MarkerHolds'
  BY <1>1, RemarkFacts
<1>3. Commits(asked, FALSE, recorded)
  BY <1>1, <1>2 DEF Commits
<1> QED
  BY <1>3

\* A recorded request that leaves the view, the arrangement and the calculations alone.
LEMMA SettingCommits ==
  ASSUME SharedIInv, NEW asked \in SettingsRecords, asked.kernel = settings.kernel,
         asked.layout = settings.layout, asked.calculations = settings.calculations,
         Finish(asked, TRUE)
  PROVE  \E a, p, r : Commits(a, p, r)
<1>1. view' = view
  BY DEF Finish
<1>2. LayoutFits(asked, view.entries)
  BY StateFacts DEF SettingsFit, LayoutFits
<1>3. Asks(asked, FALSE) /\ Sound(view')
  BY <1>1, <1>2, StateFacts, StayAsks
<1> QED
  BY <1>3, FinishCommits

\* A request that changes at most what is highlighted or selected.
LEMMA ReferenceCommits ==
  ASSUME SharedIInv, NEW highlighted \in SUBSET Refs, NEW selected \in SUBSET Refs,
         Finish([settings EXCEPT !.highlighted = highlighted, !.selected = selected], FALSE)
  PROVE  \E a, p, r : Commits(a, p, r)
<1>1. PICK asked : asked = [settings EXCEPT !.highlighted = highlighted, !.selected = selected]
  OBVIOUS
<1>2. view' = view /\ Settle(asked, FALSE) /\ Finish(asked, FALSE)
  BY <1>1 DEF Finish, Prepare
<1>3. Asks(asked, FALSE) /\ Sound(view')
  BY <1>1, <1>2, ReferenceAsks
<1>4. Work(view', settings') = Work(view, settings)
  BY <1>1, <1>2, ReferenceKeepsWork
<1> QED
  BY <1>2, <1>3, <1>4, FinishCommits

-----------------------------------------------------------------------------
(* Request by request. *)

LEMMA MoveSlotsCommits ==
  ASSUME SharedIInv, MoveSlots
  PROVE  \E a, p, r : Commits(a, p, r)
<1>1. /\ Next /\ Prepare(settings, FALSE) /\ Recover(TRUE) /\ Remark(saved) /\ Renumber
      /\ event'.restored = {}
  BY DEF MoveSlots, Prepare, Committed
<1>2. PICK c, added, doomed :
        /\ c \in ViewRecords /\ Coherent(c) /\ WithinLimits(c)
        /\ Changes(view, c, added, doomed) /\ FinishSlice(c, added, doomed)
  BY <1>1, StateFacts, EveryStep
<1>3. Sound(view')
  <2>1. IInv'
    BY <1>2, FinishSliceIInv
  <2> QED
    BY <2>1 DEF IInv
<1>4. Asks(settings, FALSE)
  <2>1. ~Moved => view.entries = view'.entries
    BY DEF Moved, SameTopology
  <2> QED
    BY <2>1, StateFacts DEF Asks, SettingsFit, LayoutFits
<1>5. MarkerHolds'
  BY <1>1, RemarkFacts
<1>6. Commits(settings, FALSE, TRUE)
  BY <1>1, <1>3, <1>4, <1>5 DEF Commits
<1> QED
  BY <1>6

LEMMA StyleCommits ==
  ASSUME SharedIInv, Style
  PROVE  \E a, p, r : Commits(a, p, r)
<1>1. PICK x \in Appearances : Finish([settings EXCEPT !.appearance = x], TRUE)
  BY DEF Style
<1>2. PICK asked : asked = [settings EXCEPT !.appearance = x]
  OBVIOUS
<1>3. /\ asked \in SettingsRecords /\ asked.kernel = settings.kernel
      /\ asked.layout = settings.layout /\ asked.calculations = settings.calculations
  BY <1>2, StateFacts DEF SettingsRecords
<1> QED
  BY <1>1, <1>2, <1>3, SettingCommits

LEMMA CaptionCommits ==
  ASSUME SharedIInv, Caption
  PROVE  \E a, p, r : Commits(a, p, r)
<1>1. PICK x \in Captions : Finish([settings EXCEPT !.caption = x], TRUE)
  BY DEF Caption
<1>2. PICK asked : asked = [settings EXCEPT !.caption = x]
  OBVIOUS
<1>3. /\ asked \in SettingsRecords /\ asked.kernel = settings.kernel
      /\ asked.layout = settings.layout /\ asked.calculations = settings.calculations
  BY <1>2, StateFacts DEF SettingsRecords
<1> QED
  BY <1>1, <1>2, <1>3, SettingCommits

LEMMA SubsetCommits ==
  ASSUME SharedIInv, Subset
  PROVE  \E a, p, r : Commits(a, p, r)
<1>1. PICK q \in PredicateSets, ids \in SUBSET {c.id : c \in settings.calculations} :
        Finish([settings EXCEPT !.predicates = [q EXCEPT !.by_calc = ids]], TRUE)
  BY DEF Subset
<1>2. PICK x : x = [q EXCEPT !.by_calc = ids]
  OBVIOUS
<1>3. x \in PredicateLists
  <2>1. ids \in SUBSET Identities
    BY StateFacts DEF Results
  <2>2. q \in [admits : SUBSET Nodes, keeps : SUBSET Relations, isolated : BOOLEAN,
               by_calc : {{}}]
    BY SharedAssumption
  <2> QED
    BY <1>2, <2>1, <2>2 DEF PredicateLists
<1>4. PICK asked : asked = [settings EXCEPT !.predicates = x]
  OBVIOUS
<1>5. /\ asked \in SettingsRecords /\ asked.kernel = settings.kernel
      /\ asked.layout = settings.layout /\ asked.calculations = settings.calculations
  BY <1>3, <1>4, StateFacts DEF SettingsRecords
<1> QED
  BY <1>1, <1>2, <1>4, <1>5, SettingCommits

LEMMA FocusCommits ==
  ASSUME SharedIInv, Focus
  PROVE  \E a, p, r : Commits(a, p, r)
<1>1. /\ settings.highlighted \in SUBSET Refs /\ settings.selected \in SUBSET Refs
      /\ settings = [settings EXCEPT !.highlighted = settings.highlighted,
                                     !.selected = settings.selected]
  BY StateFacts DEF SettingsRecords
<1> QED
  BY <1>1, ReferenceCommits DEF Focus

LEMMA HighlightCommits ==
  ASSUME SharedIInv, Highlight
  PROVE  \E a, p, r : Commits(a, p, r)
<1>1. PICK refs \in Picks :
        \/ Finish([settings EXCEPT !.highlighted = refs], FALSE)
        \/ Finish([settings EXCEPT !.selected = refs], FALSE)
  BY DEF Highlight
<1>2. /\ refs \in SUBSET Refs
      /\ settings.highlighted \in SUBSET Refs /\ settings.selected \in SUBSET Refs
  BY PicksAreRefs, StateFacts DEF SettingsRecords
<1>3. /\ [settings EXCEPT !.highlighted = refs]
           = [settings EXCEPT !.highlighted = refs, !.selected = settings.selected]
      /\ [settings EXCEPT !.selected = refs]
           = [settings EXCEPT !.highlighted = settings.highlighted, !.selected = refs]
  BY StateFacts DEF SettingsRecords
<1> QED
  BY <1>1, <1>2, <1>3, ReferenceCommits

LEMMA LayoutCommits ==
  ASSUME SharedIInv, Layout
  PROVE  \E a, p, r : Commits(a, p, r)
<1>1. ASSUME NEW asked \in SettingsRecords, LayoutFits(asked, view.entries),
             asked.calculations = settings.calculations, Finish(asked, TRUE)
      PROVE  \E a, p, r : Commits(a, p, r)
  <2>1. Asks(asked, FALSE) /\ Sound(view')
    BY <1>1, StateFacts, StayAsks DEF Finish
  <2> QED
    BY <1>1, <2>1, FinishCommits
<1>2. CASE Finish([settings EXCEPT !.kernel = Simulation, !.layout = {}], TRUE)
  <2>1. PICK asked : asked = [settings EXCEPT !.kernel = Simulation, !.layout = {}]
    OBVIOUS
  <2>2. /\ asked \in SettingsRecords /\ asked.kernel = Simulation /\ asked.layout = {}
        /\ asked.calculations = settings.calculations
    BY <2>1, StateFacts DEF SettingsRecords, Kernels
  <2> QED
    BY <1>1, <1>2, <2>1, <2>2 DEF LayoutFits
<1>3. ASSUME NEW k \in StaticKernels, NEW ms \in Timings,
             Finish([settings EXCEPT
                       !.kernel = k,
                       !.layout = {[kernel |-> k, placed |-> view.entries, ms |-> ms]}], TRUE)
      PROVE  \E a, p, r : Commits(a, p, r)
  <2>1. PICK l : l = [kernel |-> k, placed |-> view.entries, ms |-> ms]
    OBVIOUS
  <2>2. l \in Arrangements /\ l.kernel = k /\ l.placed = view.entries
    <3>1. view.entries \in Seq(Entry)
      BY StateFacts, ViewFacts DEF Sound
    <3> QED
      BY <2>1, <3>1 DEF Arrangements
  <2>3. PICK asked : asked = [settings EXCEPT !.kernel = k, !.layout = {l}]
    OBVIOUS
  <2>4. /\ asked \in SettingsRecords /\ asked.kernel = k /\ asked.layout = {l}
        /\ asked.calculations = settings.calculations
    BY <2>2, <2>3, StateFacts DEF SettingsRecords, Kernels
  <2>5. LayoutFits(asked, view.entries)
    BY <2>2, <2>4, SharedAssumption DEF LayoutFits
  <2> QED
    BY <1>1, <1>3, <2>1, <2>3, <2>4, <2>5
<1> QED
  BY <1>2, <1>3 DEF Layout

\* A new result is of the subset there is; its identity is new, or that of what it replaces.
LEMMA CalculateFacts ==
  ASSUME SharedIInv, Calculate
  PROVE  \E asked, result :
           /\ Finish(asked, TRUE) /\ Asks(asked, FALSE) /\ Sound(view')
           /\ asked \in SettingsRecords
           /\ asked.calculations \ settings.calculations = {result}
           /\ result.nodes = cache.subset.nodes /\ result.edges = cache.subset.edges
<1>0. PICK kind \in CalculationKinds :
        \E old \in SUBSET {c \in settings.calculations : c.kind = kind} :
          LET id == IF old = {} THEN <<Here, revs.revision + 1>>
                    ELSE (CHOOSE c \in old : TRUE).id
              result == [id |-> id, kind |-> kind,
                         generation |-> Here, stamp |-> revs.revision,
                         subset_revision |-> revs.subset,
                         nodes |-> cache.subset.nodes, edges |-> cache.subset.edges]
          IN  Finish([settings EXCEPT !.calculations = (@ \ old) \cup {result}], TRUE)
  BY DEF Calculate
<1>1. PICK old \in SUBSET {c \in settings.calculations : c.kind = kind} :
        LET id == IF old = {} THEN <<Here, revs.revision + 1>>
                  ELSE (CHOOSE c \in old : TRUE).id
            result == [id |-> id, kind |-> kind,
                       generation |-> Here, stamp |-> revs.revision,
                       subset_revision |-> revs.subset,
                       nodes |-> cache.subset.nodes, edges |-> cache.subset.edges]
        IN  Finish([settings EXCEPT !.calculations = (@ \ old) \cup {result}], TRUE)
  BY <1>0
<1>2. PICK id : id = IF old = {} THEN <<Here, revs.revision + 1>>
                     ELSE (CHOOSE c \in old : TRUE).id
  OBVIOUS
<1>3. PICK result : result = [id |-> id, kind |-> kind,
                              generation |-> Here, stamp |-> revs.revision,
                              subset_revision |-> revs.subset,
                              nodes |-> cache.subset.nodes, edges |-> cache.subset.edges]
  OBVIOUS
<1>4. PICK cs : cs = (settings.calculations \ old) \cup {result}
  OBVIOUS
<1>5. PICK asked : asked = [settings EXCEPT !.calculations = cs]
  OBVIOUS
<1>6. Finish(asked, TRUE)
  <2>1. asked = [settings EXCEPT !.calculations = (@ \ old) \cup {result}]
    BY <1>4, <1>5
  <2> QED
    BY <1>1, <1>2, <1>3, <2>1
<1>7. /\ revs.revision \in Nat /\ revs.subset \in Nat
      /\ settings \in SettingsRecords /\ settings.calculations \in SUBSET Results
  BY StateFacts DEF Revisions
<1>8. CalculationsFit(settings.calculations, revs.revision, revs.subset, cache.subset)
  BY DEF SharedIInv, StateFits
<1>9. cache.subset.nodes \in SUBSET Nodes /\ cache.subset.edges \in SUBSET Relations
  <2>1. cache.subset \in [nodes : SUBSET Nodes, edges : SUBSET Relations]
    BY StateFacts, EvaluateType DEF SharedIInv, CachesFresh
  <2> QED
    BY <2>1
<1>10. /\ id \in Identities /\ (id[1] = Here => id[2] <= revs.revision + 1)
       /\ \A c \in settings.calculations \ old : c.id # id
  <2>1. CASE old = {}
    <3>1. id = <<Here, revs.revision + 1>>
      BY <1>2, <2>1
    <3>2. id \in Identities /\ id[1] = Here /\ id[2] = revs.revision + 1
      BY <1>7, <3>1 DEF Identities, Generations
    <3>3. \A c \in settings.calculations :
            c.id[2] \in Nat /\ (c.id[1] = Here => c.id[2] <= revs.revision)
      BY <1>7, <1>8 DEF CalculationsFit, Results, Identities
    <3> QED
      BY <1>7, <3>2, <3>3
  <2>2. CASE old # {}
    <3>1. PICK o \in old : o = CHOOSE c \in old : TRUE
      BY <2>2
    <3>2. id = o.id /\ o \in settings.calculations
      BY <1>2, <2>2, <3>1
    <3>3. id \in Identities /\ id[2] \in Nat
      BY <1>7, <3>2 DEF Results, Identities
    <3>4. id[1] = Here => id[2] <= revs.revision
      BY <1>8, <3>2 DEF CalculationsFit
    <3>5. \A c \in settings.calculations : c.id = id => c = o
      BY <1>8, <3>2 DEF CalculationsFit
    <3> QED
      BY <1>7, <3>1, <3>3, <3>4, <3>5
  <2> QED
    BY <2>1, <2>2
<1>11. /\ result \in Results /\ result.id = id /\ result.subset_revision = revs.subset
       /\ result.nodes = cache.subset.nodes /\ result.edges = cache.subset.edges
       /\ result.stamp = revs.revision /\ result.generation = Here
  BY <1>3, <1>7, <1>9, <1>10 DEF Results, Generations
<1>12. cs \in SUBSET Results
  BY <1>4, <1>7, <1>11
<1>13. CalculationsFit(cs, revs.revision + 1, revs.subset, cache.subset)
  <2>1. \A c \in cs : c = result \/ c \in settings.calculations \ old
    BY <1>4
  <2>2. \A c, d \in cs : c.id = d.id => c = d
    BY <1>8, <1>10, <1>11, <2>1 DEF CalculationsFit
  <2>3. CalculationsFit(settings.calculations, revs.revision + 1, revs.subset, cache.subset)
    BY StateFacts
  <2>4. \A c \in cs :
          /\ c.id[1] = Here => c.id[2] <= revs.revision + 1
          /\ c.generation = Here =>
               /\ c.stamp < revs.revision + 1 /\ c.subset_revision <= revs.subset
               /\ c.subset_revision = revs.subset =>
                    c.nodes = cache.subset.nodes /\ c.edges = cache.subset.edges
    BY <1>7, <1>10, <1>11, <2>1, <2>3 DEF CalculationsFit
  <2> QED
    BY <2>2, <2>4 DEF CalculationsFit
<1>14. /\ asked \in SettingsRecords /\ asked.kernel = settings.kernel
       /\ asked.layout = settings.layout /\ asked.calculations = cs
  BY <1>5, <1>7, <1>12 DEF SettingsRecords
<1>15. Asks(asked, FALSE) /\ Sound(view')
  <2>1. LayoutFits(asked, view.entries)
    BY <1>14, StateFacts DEF SettingsFit, LayoutFits
  <2> QED
    BY <1>6, <1>13, <1>14, <2>1, StayAsks DEF Finish
<1>16. result \notin settings.calculations
  <2>1. \A c \in settings.calculations :
          c.stamp \in Nat /\ (c.generation = Here => c.stamp < revs.revision)
    BY <1>7, <1>8 DEF CalculationsFit, Results
  <2> QED
    BY <1>7, <1>11, <2>1
<1>17. asked.calculations \ settings.calculations = {result}
  BY <1>4, <1>14, <1>16
<1> QED
  BY <1>6, <1>11, <1>14, <1>15, <1>17

LEMMA CalculateCommits ==
  ASSUME SharedIInv, Calculate
  PROVE  \E a, p, r : Commits(a, p, r)
BY CalculateFacts, FinishCommits

\* A restored state is put back whole: nothing in it is dropped as off screen or moved.
LEMMA RestoreCommits ==
  ASSUME SharedIInv, RestoreHistory
  PROVE  \E a, p, r : Commits(a, p, r)
<1>1. PICK i \in 1..Len(history.checkpoints) :
        LET checkpoint == history.checkpoints[i]
        IN  /\ view' = checkpoint.state.view
            /\ Prepare(checkpoint.state.settings, TRUE)
            /\ Recover(TRUE)
            /\ Remark(NoMarker)
            /\ Committed({checkpoint.id}, FALSE)
  BY DEF RestoreHistory
<1>2. PICK k : k = history.checkpoints[i]
  OBVIOUS
<1>3. PICK asked : asked = k.state.settings
  OBVIOUS
<1>4. /\ view' = k.state.view /\ Prepare(asked, TRUE) /\ Recover(TRUE) /\ Remark(NoMarker)
      /\ event'.restored = {k.id} /\ Renumber /\ Settle(asked, TRUE)
  BY <1>1, <1>2, <1>3 DEF Prepare, Committed
<1>5. k \in CheckpointRecords
  BY <1>2, ElementOfSeq DEF SharedIInv, TypesHold
<1>6. asked \in SettingsRecords /\ asked.calculations \in SUBSET Results
  BY <1>3, <1>5 DEF CheckpointRecords, SettingsRecords
<1>7. StateFits(view', asked) /\ k.was = Content(view', asked)
  BY <1>2, <1>3, <1>4 DEF SharedIInv, HistoryHolds
<1>8. Sound(view') /\ SettingsFit(view', asked)
  BY <1>7 DEF StateFits
<1>9. Asks(asked, TRUE)
  <2>1. CalculationsFit(asked.calculations, revs.revision + 1, revs.subset, cache.subset)
    BY <1>6, <1>7, StateFacts, NextRevision DEF StateFits
  <2> QED
    BY <1>6, <1>8, <2>1 DEF Asks, SettingsFit, LayoutFits
<1>10. settings' = asked
  <2>1. PICK t : t = settings'
    OBVIOUS
  <2>2. /\ t \in SettingsRecords
        /\ t.predicates = asked.predicates /\ t.appearance = asked.appearance
        /\ t.caption = asked.caption /\ t.calculations = asked.calculations
        /\ t.highlighted = asked.highlighted \cap Referable(view')
        /\ t.selected = asked.selected \cap Referable(view')
        /\ t.kernel = asked.kernel /\ t.layout = asked.layout
    BY <1>4, <1>6, <2>1, SettleFacts
  <2>3. t.highlighted = asked.highlighted /\ t.selected = asked.selected
    BY <1>8, <2>2 DEF SettingsFit
  <2> QED
    BY <1>6, <2>1, <2>2, <2>3, SettingsEqual
<1>11. MarkerHolds'
  BY <1>4, RemarkFacts
<1>12. \A id \in event'.restored :
         \E j \in 1..Len(history.checkpoints) :
           /\ history.checkpoints[j].id = id
           /\ Content(view', settings') = history.checkpoints[j].was
  BY <1>1, <1>2, <1>4, <1>7, <1>10
<1>13. Commits(asked, TRUE, TRUE)
  BY <1>4, <1>8, <1>9, <1>11, <1>12 DEF Commits
<1> QED
  BY <1>13

LEMMA MarkSavedCommits ==
  ASSUME SharedIInv, MarkSaved
  PROVE  \E a, p, r : Commits(a, p, r)
<1>1. PICK name \in Bookmarks, chosen \in Picks \cup {settings.selected} :
        /\ UNCHANGED <<view, slice, history>>
        /\ Prepare([settings EXCEPT !.selected = chosen], TRUE)
        /\ saved' = [bookmark |-> name, content |-> revs'.content, dirty |-> FALSE,
                     selected |-> settings'.selected,
                     was |-> Content(view', settings')]
        /\ Committed({}, FALSE)
  BY DEF MarkSaved
<1>2. chosen \in SUBSET Refs /\ settings.highlighted \in SUBSET Refs
  BY PicksAreRefs, StateFacts DEF SettingsRecords
<1>3. PICK asked : asked = [settings EXCEPT !.highlighted = settings.highlighted,
                                            !.selected = chosen]
  OBVIOUS
<1>4. asked = [settings EXCEPT !.selected = chosen]
  BY <1>3, StateFacts DEF SettingsRecords
<1>5. /\ view' = view /\ history' = history /\ Prepare(asked, TRUE) /\ Settle(asked, TRUE)
      /\ Renumber /\ event'.restored = {}
  BY <1>1, <1>4 DEF Prepare, Committed
<1>6. Asks(asked, TRUE) /\ Sound(view')
  BY <1>2, <1>3, <1>5, ReferenceAsks
<1>7. Work(view', settings') = Work(view, settings)
  BY <1>2, <1>3, <1>5, ReferenceKeepsWork
<1>8. Recover(FALSE)
  BY <1>5 DEF Recover
<1>9. MarkerHolds'
  <2>1. revs'.content \in Nat
    BY <1>5, StateFacts, RenumberFacts DEF Revisions
  <2>2. /\ saved'.content = revs'.content /\ saved'.was = Content(view', settings')
        /\ saved'.bookmark = name /\ saved'.dirty = FALSE
        /\ saved'.selected = settings'.selected
    BY <1>1
  <2>3. IsMarker(saved')
    BY <1>1, <2>2 DEF IsMarker
  <2> QED
    BY <2>1, <2>2, <2>3 DEF MarkerHolds
<1>10. Commits(asked, TRUE, FALSE)
  BY <1>5, <1>6, <1>7, <1>8, <1>9 DEF Commits
<1> QED
  BY <1>10

LEMMA ClearMarkerCommits ==
  ASSUME SharedIInv, ClearMarker
  PROVE  \E a, p, r : Commits(a, p, r)
<1>1. PICK marker \in {saved, NoMarker} :
        /\ UNCHANGED <<view, slice, history>>
        /\ Prepare(settings, TRUE)
        /\ Remark(marker)
        /\ Committed({}, FALSE)
  BY DEF ClearMarker
<1>2. /\ settings.highlighted \in SUBSET Refs /\ settings.selected \in SUBSET Refs
      /\ settings = [settings EXCEPT !.highlighted = settings.highlighted,
                                     !.selected = settings.selected]
  BY StateFacts DEF SettingsRecords
<1>3. /\ view' = view /\ history' = history /\ Settle(settings, TRUE)
      /\ Renumber /\ event'.restored = {}
  BY <1>1 DEF Prepare, Committed
<1>4. Asks(settings, TRUE) /\ Sound(view')
  BY <1>2, <1>3, ReferenceAsks
<1>5. Work(view', settings') = Work(view, settings)
  BY <1>2, <1>3, ReferenceKeepsWork
<1>6. Recover(FALSE)
  BY <1>3 DEF Recover
<1>7. MarkerHolds'
  BY <1>1, <1>3, RemarkFacts
<1>8. Commits(settings, TRUE, FALSE)
  BY <1>1, <1>3, <1>4, <1>5, <1>6, <1>7 DEF Commits
<1> QED
  BY <1>8

LEMMA EveryCommit ==
  ASSUME SharedIInv, SharedNext
  PROVE  \E a, p, r : Commits(a, p, r)
BY MoveSlotsCommits, StyleCommits, CaptionCommits, SubsetCommits, FocusCommits,
   HighlightCommits, LayoutCommits, CalculateCommits, RestoreCommits, MarkSavedCommits,
   ClearMarkerCommits DEF SharedNext

-----------------------------------------------------------------------------
(* The invariant. *)

LEMMA CommitKeepsSharedIInv ==
  ASSUME SharedIInv, NEW asked, NEW preserve_layout, NEW recorded,
         Commits(asked, preserve_layout, recorded)
  PROVE  SharedIInv'
<1>1. /\ preserve_layout \in BOOLEAN /\ recorded \in BOOLEAN
      /\ Asks(asked, preserve_layout) /\ Sound(view')
      /\ Prepare(asked, preserve_layout) /\ Renumber /\ Recover(recorded) /\ MarkerHolds'
  BY DEF Commits, Prepare
<1>2. /\ settings' \in SettingsRecords /\ revs' \in Revisions
      /\ StateFits(view, settings)' /\ CachesFresh'
  BY <1>1, PrepareFacts
<1>3. /\ history' \in [checkpoints : Seq(CheckpointRecords), evicted : Nat]
      /\ HistoryHolds' /\ HistoryBounded'
  BY <1>1, RecoverFacts
<1> QED
  BY <1>1, <1>2, <1>3 DEF SharedIInv, TypesHold

LEMMA SharedInitIInv == SharedInit => SharedIInv
<1> SUFFICES ASSUME SharedInit PROVE SharedIInv
  OBVIOUS
<1>1. Sound(view) /\ view = EntryScreen
  <2>1. IInv
    BY InitIInv DEF SharedInit
  <2> QED
    BY <2>1 DEF IInv, SharedInit, Init
<1>2. /\ settings = [predicates |-> NoPredicates, appearance |-> Plain,
                     caption |-> NoCaption, highlighted |-> {}, selected |-> {},
                     kernel |-> Simulation, layout |-> {}, calculations |-> {}]
      /\ cache = [subset |-> [nodes |-> {}, edges |-> {}], mapping |-> <<>>]
      /\ revs = [revision |-> 0, topology |-> 0, subset |-> 0, content |-> 0]
      /\ saved = NoMarker
      /\ history = [checkpoints |-> <<>>, evicted |-> 0]
  BY DEF SharedInit
<1>3. NoPredicates \in PredicateLists
  BY DEF NoPredicates, PredicateLists
<1>4. /\ settings \in SettingsRecords /\ settings.predicates = NoPredicates
      /\ settings.appearance = Plain /\ settings.highlighted = {} /\ settings.selected = {}
      /\ settings.kernel = Simulation /\ settings.layout = {} /\ settings.calculations = {}
  BY <1>2, <1>3, SharedAssumption DEF SettingsRecords, Kernels
<1>5. /\ history.checkpoints = <<>> /\ <<>> \in Seq(CheckpointRecords)
      /\ Len(history.checkpoints) = 0 /\ history.evicted = 0
      /\ history \in [checkpoints : Seq(CheckpointRecords), evicted : Nat]
  BY <1>2
<1>6. TypesHold
  BY <1>2, <1>4, <1>5 DEF TypesHold, Revisions
<1>7. StateFits(view, settings)
  BY <1>1, <1>4 DEF StateFits, SettingsFit, LayoutFits, CalculationsFit
<1>8. CachesFresh
  <2>1. Loaded(view) = {}
    BY <1>1 DEF EntryScreen, Loaded
  <2> DEFINE p == NoPredicates
             visible == {n \in Loaded(view) : Matches(p, {}, n)}
             retained == {l \in view.edges : /\ l.id # NoRelation
                                             /\ l.id \in p.keeps
                                             /\ view.entries[l.src] \in visible
                                             /\ view.entries[l.dst] \in visible}
  <2>2. visible = {} /\ retained = {}
    BY <2>1
  <2>3. ~p.isolated
    BY DEF NoPredicates
  <2>4. Evaluate(view, p, {}) = [nodes |-> visible, edges |-> {l.id : l \in retained}]
    BY <2>3 DEF Evaluate
  <2>5. Evaluate(view, NoPredicates, {}) = [nodes |-> {}, edges |-> {}]
    BY <2>2, <2>4
  <2>6. MappingOf(view, settings) = <<>>
    BY <1>4 DEF MappingOf
  <2> QED
    BY <1>2, <1>4, <2>5, <2>6 DEF CachesFresh
<1>9. MarkerHolds
  BY <1>2 DEF MarkerHolds
<1>10. HistoryHolds
  BY <1>5 DEF HistoryHolds
<1>11. HistoryBounded
  BY <1>5, TotalWeightFacts, SharedAssumption DEF HistoryBounded
<1> QED
  BY <1>6, <1>7, <1>8, <1>9, <1>10, <1>11 DEF SharedIInv

LEMMA SharedNextIInv == SharedIInv /\ [SharedNext]_sharedVars => SharedIInv'
<1>1. ASSUME SharedIInv, SharedNext PROVE SharedIInv'
  BY <1>1, EveryCommit, CommitKeepsSharedIInv
<1>2. ASSUME SharedIInv, UNCHANGED sharedVars PROVE SharedIInv'
  <2>1. /\ view' = view /\ settings' = settings /\ cache' = cache /\ revs' = revs
        /\ saved' = saved /\ history' = history
    BY <1>2 DEF sharedVars
  <2>2. TypesHold' /\ CachesFresh' /\ MarkerHolds'
    BY <1>2, <2>1 DEF SharedIInv, TypesHold, CachesFresh, MarkerHolds
  <2>3. StateFits(view, settings)' /\ HistoryHolds'
    BY <1>2, <2>1 DEF SharedIInv, StateFits, HistoryHolds
  <2>4. HistoryBounded'
    BY <1>2, <2>1 DEF SharedIInv, HistoryBounded
  <2> QED
    BY <2>2, <2>3, <2>4 DEF SharedIInv
<1> QED
  BY <1>1, <1>2

(***************************************************************************)
(* The exploration's inductive invariant holds through every request,      *)
(* restore and saved-view marking.                                         *)
(***************************************************************************)
THEOREM SharedStateInvariant == SharedSpec => []SharedIInv
BY SharedInitIInv, SharedNextIInv, PTL DEF SharedSpec

(***************************************************************************)
(* The caches finish_preparation keeps are those of the current view and   *)
(* settings, an arrangement is one of the slots on screen, and no reference*)
(* is off screen, restores included.                                       *)
(***************************************************************************)
THEOREM SharedStateNothingStale == SharedSpec => []NothingStale
<1>1. SharedIInv => NothingStale
  BY DEF SharedIInv, StateFits, SettingsFit, LayoutFits, NothingStale, LayoutFitsView,
         ReferencesOnScreen
<1> QED
  BY <1>1, SharedStateInvariant, PTL

(***************************************************************************)
(* A calculation that carries the current subset revision ran on the nodes *)
(* and relations visible now, and identities are never shared.             *)
(***************************************************************************)
THEOREM SharedStateCalculationsHonest == SharedSpec => []CalculationsHonest
<1>1. SharedIInv => CalculationsHonest
  BY DEF SharedIInv, StateFits, CalculationsFit, CalculationsHonest
<1> QED
  BY <1>1, SharedStateInvariant, PTL

(***************************************************************************)
(* A marker that says "saved" stands on the content it was placed on.      *)
(***************************************************************************)
THEOREM SharedStateMarkerHonest == SharedSpec => []MarkerHonest
<1>1. SharedIInv => MarkerHonest
  BY DEF SharedIInv, MarkerHolds, MarkerHonest
<1> QED
  BY <1>1, SharedStateInvariant, PTL

(***************************************************************************)
(* A commit bumps the revision, and moves the topology, content and subset *)
(* revisions when, and the first two only when, what they number changed.  *)
(***************************************************************************)
THEOREM SharedStateRevisionsName == SharedSpec => RevisionsNameTheirParts
<1> DEFINE A == /\ revs'.revision = revs.revision + 1
                /\ revs'.topology # revs.topology <=> ~SameTopology(view', view)
                /\ revs'.content # revs.content <=> Whole' # Whole
                /\ Evaluate(view', settings'.predicates, settings'.calculations)
                     # Evaluate(view, settings.predicates, settings.calculations)
                     => revs'.subset > revs.subset
<1>1. ASSUME SharedIInv, SharedNext PROVE A
  <2>1. SharedIInv'
    BY <1>1, SharedNextIInv
  <2>2. Renumber
    BY <1>1, EveryCommit DEF Commits, Prepare
  <2>3. /\ revs \in Revisions /\ settings \in SettingsRecords /\ settings' \in SettingsRecords
        /\ CachesFresh /\ CachesFresh'
    BY <1>1, <2>1 DEF SharedIInv, TypesHold
  <2>4. /\ revs'.revision = revs.revision + 1
        /\ revs'.content = revs.content <=> Content(view', settings') = Content(view, settings)
        /\ revs'.topology = revs.topology <=> SameTopology(view', view)
        /\ cache'.subset # cache.subset => revs.subset < revs'.subset
    BY <2>2, <2>3, RenumberFacts
  <2>5. Content(view', settings') = Content(view, settings)
          <=> SameTopology(view', view) /\ settings' = settings
    BY <2>3, ContentTells
  <2>6. Whole' = Whole <=> SameTopology(view', view) /\ settings' = settings
    BY DEF Whole, SameTopology
  <2>7. /\ cache.subset = Evaluate(view, settings.predicates, settings.calculations)
        /\ cache'.subset = Evaluate(view', settings'.predicates, settings'.calculations)
    BY <2>3 DEF CachesFresh
  <2>8. revs.subset \in Nat /\ revs'.subset \in Nat
    BY <2>2, <2>3, RenumberFacts DEF Revisions
  <2> QED
    BY <2>4, <2>5, <2>6, <2>7, <2>8
<1>2. SharedIInv /\ [SharedNext]_sharedVars => [A]_sharedVars
  BY <1>1
<1> QED
  BY <1>2, SharedStateInvariant, PTL DEF SharedSpec, RevisionsNameTheirParts

(***************************************************************************)
(* A restore brings back exactly the content its checkpoint was taken of.  *)
(***************************************************************************)
THEOREM SharedStateRestoreExact == SharedSpec => RestoreExact
<1> DEFINE A == \A id \in event'.restored :
                  \E i \in 1..Len(history.checkpoints) :
                    /\ history.checkpoints[i].id = id
                    /\ Content(view', settings') = history.checkpoints[i].was
<1>1. ASSUME SharedIInv, SharedNext PROVE A
  BY <1>1, EveryCommit DEF Commits
<1>2. SharedIInv /\ [SharedNext]_sharedVars => [A]_sharedVars
  BY <1>1
<1> QED
  BY <1>2, SharedStateInvariant, PTL DEF SharedSpec, RestoreExact

(***************************************************************************)
(* What a commit replaced, highlights and selection aside, is on top of the*)
(* history, and the history never passes its two ceilings.                 *)
(***************************************************************************)
THEOREM SharedStateChangesRecoverable == SharedSpec => ChangesRecoverable
<1> DEFINE A == LET kept == history'.checkpoints
                IN  /\ Len(kept) <= MaxCheckpoints
                    /\ TotalWeight(kept) <= MaxWeight
                    /\ Work(view', settings') # Work(view, settings) =>
                         /\ kept # <<>>
                         /\ kept[Len(kept)].id = revs.revision
                         /\ kept[Len(kept)].was = Content(view, settings)
<1>1. ASSUME SharedIInv, SharedNext PROVE A
  <2>1. PICK asked, p, recorded : Commits(asked, p, recorded)
    BY <1>1, EveryCommit
  <2>2. /\ recorded \in BOOLEAN /\ Renumber /\ Recover(recorded)
        /\ recorded \/ Work(view', settings') = Work(view, settings)
    BY <2>1 DEF Commits, Prepare
  <2>3. SharedIInv'
    BY <1>1, SharedNextIInv
  <2>4. Len(history'.checkpoints) <= MaxCheckpoints /\ TotalWeight(history'.checkpoints) <= MaxWeight
    BY <2>3 DEF SharedIInv, HistoryBounded
  <2>5. ASSUME Work(view', settings') # Work(view, settings)
        PROVE  recorded /\ revs'.content # revs.content
    <3>1. Content(view', settings') # Content(view, settings)
      <4>1. settings \in SettingsRecords /\ settings' \in SettingsRecords
        BY <1>1, <2>3 DEF SharedIInv, TypesHold
      <4>2. SameTopology(view', view) /\ settings' = settings =>
              Work(view', settings') = Work(view, settings)
        BY DEF SameTopology, Work, Content
      <4> QED
        BY <2>5, <4>1, <4>2, ContentTells
    <3>2. revs \in Revisions
      BY <1>1 DEF SharedIInv, TypesHold
    <3> QED
      BY <2>2, <2>5, <3>1, <3>2, RenumberFacts
  <2>6. recorded /\ revs'.content # revs.content =>
          /\ history'.checkpoints # <<>>
          /\ history'.checkpoints[Len(history'.checkpoints)].id = revs.revision
          /\ history'.checkpoints[Len(history'.checkpoints)].was = Content(view, settings)
    BY <1>1, <2>2, RecoverFacts
  <2> QED
    BY <2>4, <2>5, <2>6
<1>2. SharedIInv /\ [SharedNext]_sharedVars => [A]_sharedVars
  <2>1. SharedIInv /\ SharedNext => A
    BY <1>1
  <2> HIDE DEF A
  <2> QED
    BY <2>1
<1> QED
  BY <1>2, SharedStateInvariant, PTL DEF SharedSpec, ChangesRecoverable

(***************************************************************************)
(* The slot space keeps its promises under the shared requests too, which  *)
(* also put back the views of old checkpoints.                             *)
(***************************************************************************)
THEOREM SharedStateKeepsSlots == SharedSpec => [](SlotsAgree /\ LinksFaithful /\ SpaceBounded)
<1>1. SharedIInv => SlotsAgree /\ LinksFaithful /\ SpaceBounded
  BY SoundIsBounded DEF SharedIInv, StateFits, Sound, Coherent, SlotsAgree, LinksFaithful
<1> QED
  BY <1>1, SharedStateInvariant, PTL

-----------------------------------------------------------------------------
(***************************************************************************)
(* One caller among any number of commits of its peers: an answer that     *)
(* carries the current stamp still describes the session, what is done     *)
(* with a stamp is done to what the answer named, and a file is the one    *)
(* its preview showed.                                                     *)
(*                                                                         *)
(* A stamp is enough because every commit has a new revision: DoorsIInv    *)
(* says that no stamp of this session is from the future, and that what was*)
(* told under the current one is what would be told now.  The same holds of*)
(* the subset revision and the visible subset, which outlive a commit that *)
(* moves neither.                                                          *)
(***************************************************************************)

Stamped_by(h) == h.kind \in {"state", "records", "search", "preview"}

HeldHolds ==
  /\ Stamped_by(held) /\ held.stamp.generation = Here =>
       held.stamp.revision \in Nat /\ held.stamp.revision <= revs.revision
  /\ held.kind \in {"state", "records"} /\ held.stamp.generation = Here =>
       /\ held.subset_revision \in Nat /\ held.subset_revision <= revs.subset
       /\ held.subset_revision = revs.subset =>
            /\ held.kind = "state" => held.visible = cache.subset
            /\ held.kind = "records" => held.visible = held.of \cap cache.subset.nodes
  /\ held.kind = "state" /\ held.stamp = SharedStamp =>
       /\ held.slots = SlotsOf(Nodes)
       /\ held.counts = CountsOf
       /\ held.subset_revision = revs.subset
  /\ held.kind \in {"records", "search"} /\ held.stamp = SharedStamp =>
       held.slots = SlotsOf(held.of)
  /\ held.kind = "preview" /\ held.stamp = SharedStamp =>
       \E scope \in Scopes, choice \in Choices :
         /\ held.digest = Digest(Capture(scope), choice)
         /\ held.shown = Prepared(Capture(scope), choice)

CallHolds ==
  /\ call.step \in {"tool", "found"} =>
       call.expected.revision \in Nat /\ call.expected.revision <= revs.revision
  /\ call.step = "found" /\ call.expected = SharedStamp => call.hits \subseteq SlotsOf(Nodes)
  /\ call.step \in {"done", "saved"} => call.meant = call.did

DoorsIInv == SharedIInv /\ HeldHolds /\ CallHolds

-----------------------------------------------------------------------------
(* A commit makes every stamp stale. *)

\* What the caller holds on to sees of a commit.
Moves ==
  /\ revs.revision \in Nat /\ revs'.revision = revs.revision + 1
  /\ revs.subset \in Nat /\ revs'.subset \in Nat /\ revs.subset <= revs'.subset
  /\ revs'.subset = revs.subset => cache'.subset = cache.subset

LEMMA CommitMoves ==
  ASSUME SharedIInv, NEW a, NEW p, NEW r, Commits(a, p, r)
  PROVE  SharedIInv' /\ Moves
<1>1. SharedIInv'
  BY CommitKeepsSharedIInv
<1>2. Renumber
  BY DEF Commits, Prepare
<1>3. revs \in Revisions /\ revs' \in Revisions
  BY <1>1 DEF SharedIInv, TypesHold
<1>4. /\ revs'.revision = revs.revision + 1 /\ revs.subset <= revs'.subset
      /\ cache'.subset # cache.subset => revs.subset < revs'.subset
  BY <1>2, <1>3, RenumberFacts
<1>5. /\ revs.revision \in Nat /\ revs.subset \in Nat /\ revs'.subset \in Nat
  BY <1>3 DEF Revisions
<1> QED
  BY <1>1, <1>4, <1>5 DEF Moves

LEMMA StaleStamps ==
  ASSUME Moves, NEW s, s.revision \in Nat, s.revision <= revs.revision
  PROVE  s # SharedStamp' /\ s.revision <= revs'.revision
<1>1. s.revision # revs'.revision /\ s.revision <= revs'.revision
  BY DEF Moves
<1>2. SharedStamp'.revision = revs'.revision
  BY DEF SharedStamp
<1> QED
  BY <1>1, <1>2

LEMMA StampParts ==
  /\ SharedStamp.generation = Here /\ SharedStamp.revision = revs.revision
  /\ SharedStamp'.generation = Here /\ SharedStamp'.revision = revs'.revision
BY DEF SharedStamp

\* What the caller was told of before a commit it may go on holding.
LEMMA HeldThroughMove ==
  ASSUME HeldHolds, Moves, held' = held
  PROVE  HeldHolds'
<1>1. Stamped_by(held) /\ held.stamp.generation = Here =>
        /\ held.stamp.revision \in Nat
        /\ held.stamp # SharedStamp' /\ held.stamp.revision <= revs'.revision
  BY StaleStamps DEF HeldHolds
<1>2. Stamped_by(held) => held.stamp # SharedStamp'
  BY <1>1, StampParts
<1>3. held.kind \in {"state", "records"} /\ held.stamp.generation = Here =>
        /\ held.subset_revision \in Nat /\ held.subset_revision <= revs'.subset
        /\ held.subset_revision = revs'.subset =>
             /\ held.kind = "state" => held.visible = cache'.subset
             /\ held.kind = "records" => held.visible = held.of \cap cache'.subset.nodes
  <2> SUFFICES ASSUME held.kind \in {"state", "records"}, held.stamp.generation = Here
               PROVE  /\ held.subset_revision \in Nat /\ held.subset_revision <= revs'.subset
                      /\ held.subset_revision = revs'.subset =>
                           /\ held.kind = "state" => held.visible = cache'.subset
                           /\ held.kind = "records" =>
                                held.visible = held.of \cap cache'.subset.nodes
    OBVIOUS
  <2>1. /\ held.subset_revision \in Nat /\ held.subset_revision <= revs.subset
        /\ held.subset_revision = revs.subset =>
             /\ held.kind = "state" => held.visible = cache.subset
             /\ held.kind = "records" => held.visible = held.of \cap cache.subset.nodes
    BY DEF HeldHolds
  <2>2. held.subset_revision <= revs'.subset
    BY <2>1 DEF Moves
  <2>3. held.subset_revision = revs'.subset => revs'.subset = revs.subset
    BY <2>1 DEF Moves
  <2> QED
    BY <2>1, <2>2, <2>3 DEF Moves
<1> QED
  BY <1>1, <1>2, <1>3 DEF HeldHolds, Stamped_by

LEMMA CallThroughMove ==
  ASSUME CallHolds, Moves, call' = call
  PROVE  CallHolds'
<1>1. call.step \in {"tool", "found"} =>
        /\ call.expected.revision \in Nat /\ call.expected # SharedStamp'
        /\ call.expected.revision <= revs'.revision
  BY StaleStamps DEF CallHolds
<1> QED
  BY <1>1 DEF CallHolds

\* An answer that stands through a step of the caller's own that leaves the session alone.
LEMMA HeldThroughRead ==
  ASSUME HeldHolds, UNCHANGED <<sharedVars, held>>
  PROVE  HeldHolds'
<1>1. /\ view' = view /\ settings' = settings /\ cache' = cache /\ revs' = revs /\ held' = held
  BY DEF sharedVars
<1>2. SharedStamp' = SharedStamp /\ SlotsOf(Nodes)' = SlotsOf(Nodes) /\ CountsOf' = CountsOf
  BY <1>1 DEF SharedStamp, SlotsOf, CountsOf
<1>3. SlotsOf(held.of)' = SlotsOf(held.of)
  BY <1>1 DEF SlotsOf
<1>4. \A scope : Capture(scope)' = Capture(scope)
  BY <1>1 DEF Capture, CapturedNodes, CapturedEdges, Scene, SharedStamp
<1>5. \A c, choice : Digest(c, choice)' = Digest(c, choice) /\ Prepared(c, choice)' = Prepared(c, choice)
  BY DEF Digest, Prepared
<1> QED
  BY <1>1, <1>2, <1>3, <1>4, <1>5 DEF HeldHolds, Stamped_by

LEMMA CallThroughRead ==
  ASSUME CallHolds, UNCHANGED <<sharedVars, call>>
  PROVE  CallHolds'
<1>1. view' = view /\ revs' = revs /\ call' = call
  BY DEF sharedVars
<1>2. SharedStamp' = SharedStamp /\ SlotsOf(Nodes)' = SlotsOf(Nodes)
  BY <1>1 DEF SharedStamp, SlotsOf
<1> QED
  BY <1>1, <1>2 DEF CallHolds

LEMMA NothingHeld == ASSUME held' = Nothing PROVE HeldHolds'
BY DEF HeldHolds, Nothing, Stamped_by

LEMMA NothingAsked == ASSUME call' = Idle PROVE CallHolds'
BY DEF CallHolds, Idle

-----------------------------------------------------------------------------
(* The reads. *)

LEMMA SharedStays ==
  ASSUME SharedIInv, UNCHANGED sharedVars
  PROVE  SharedIInv'
BY SharedNextIInv

LEMMA SlotsOfSome == \A S : SlotsOf(S \cap Nodes) = SlotsOf(S) /\ SlotsOf(S) \subseteq SlotsOf(Nodes)
BY DEF SlotsOf, Loaded

LEMMA ViewStateHolds ==
  ASSUME DoorsIInv, ViewState
  PROVE  DoorsIInv'
<1>1. SharedIInv' /\ CallHolds'
  BY SharedStays, CallThroughRead DEF DoorsIInv, ViewState
<1>2. /\ view' = view /\ cache' = cache /\ revs' = revs
      /\ revs.revision \in Nat /\ revs.subset \in Nat
  BY DEF ViewState, sharedVars, DoorsIInv, SharedIInv, TypesHold, Revisions
<1>3. /\ held'.kind = "state" /\ held'.stamp = SharedStamp /\ held'.subset_revision = revs.subset
      /\ held'.slots = SlotsOf(Nodes) /\ held'.visible = cache.subset /\ held'.counts = CountsOf
  BY DEF ViewState
<1>4. SharedStamp' = SharedStamp /\ SlotsOf(Nodes)' = SlotsOf(Nodes) /\ CountsOf' = CountsOf
  BY <1>2 DEF SharedStamp, SlotsOf, CountsOf
<1>5. HeldHolds'
  BY <1>2, <1>3, <1>4, StampParts DEF HeldHolds, Stamped_by
<1> QED
  BY <1>1, <1>5 DEF DoorsIInv

LEMMA RecordsHolds ==
  ASSUME DoorsIInv, Records
  PROVE  DoorsIInv'
<1>1. SharedIInv' /\ CallHolds'
  BY SharedStays, CallThroughRead DEF DoorsIInv, Records
<1>2. /\ view' = view /\ cache' = cache /\ revs' = revs
      /\ revs.revision \in Nat /\ revs.subset \in Nat
  BY DEF Records, sharedVars, DoorsIInv, SharedIInv, TypesHold, Revisions
<1>3. PICK handles \in Needles :
        held' = [kind |-> "records", stamp |-> SharedStamp, subset_revision |-> revs.subset,
                 slots |-> SlotsOf(handles), of |-> handles,
                 visible |-> handles \cap cache.subset.nodes]
  BY DEF Records
<1>4. SharedStamp' = SharedStamp /\ SlotsOf(handles)' = SlotsOf(handles)
  BY <1>2 DEF SharedStamp, SlotsOf
<1>5. /\ held'.kind = "records" /\ held'.stamp = SharedStamp /\ held'.of = handles
      /\ held'.subset_revision = revs.subset /\ held'.slots = SlotsOf(handles)
      /\ held'.visible = handles \cap cache.subset.nodes
  BY <1>3
<1>6. HeldHolds'
  BY <1>2, <1>4, <1>5, StampParts DEF HeldHolds, Stamped_by
<1> QED
  BY <1>1, <1>6 DEF DoorsIInv

LEMMA EndSearchHolds ==
  ASSUME DoorsIInv, EndSearch
  PROVE  DoorsIInv'
<1>1. SharedIInv' /\ CallHolds'
  BY SharedStays, NothingAsked DEF DoorsIInv, EndSearch
<1>2. view' = view /\ revs' = revs /\ revs.revision \in Nat
  BY DEF EndSearch, sharedVars, DoorsIInv, SharedIInv, TypesHold, Revisions
<1>3. PICK n : n = call.needle
  OBVIOUS
<1>4. held' = [kind |-> "search", of |-> n, stamp |-> SharedStamp, slots |-> SlotsOf(n)]
  BY <1>3 DEF EndSearch, SearchAnswer, Hits
<1>5. SharedStamp' = SharedStamp /\ SlotsOf(n)' = SlotsOf(n)
  BY <1>2 DEF SharedStamp, SlotsOf
<1>6. held'.kind = "search" /\ held'.of = n /\ held'.stamp = SharedStamp /\ held'.slots = SlotsOf(n)
  BY <1>4
<1>7. HeldHolds'
  BY <1>2, <1>5, <1>6, StampParts DEF HeldHolds, Stamped_by
<1> QED
  BY <1>1, <1>7 DEF DoorsIInv

LEMMA ToolFoundHolds ==
  ASSUME DoorsIInv, ToolFound
  PROVE  DoorsIInv'
<1>1. SharedIInv' /\ HeldHolds'
  BY SharedStays, HeldThroughRead DEF DoorsIInv, ToolFound
<1>2. view' = view /\ revs' = revs /\ call.step = "tool"
  BY DEF ToolFound, sharedVars
<1>3. SlotsOf(Nodes)' = SlotsOf(Nodes)
  BY <1>2 DEF SlotsOf
<1>4. /\ call'.step = "found" /\ call'.expected = call.expected
      /\ call'.hits \subseteq SlotsOf(Nodes)
  BY SlotsOfSome DEF ToolFound
<1>5. CallHolds'
  BY <1>2, <1>3, <1>4 DEF CallHolds, DoorsIInv
<1> QED
  BY <1>1, <1>5 DEF DoorsIInv

LEMMA ToolSearchHolds ==
  ASSUME DoorsIInv, ToolSearch
  PROVE  DoorsIInv'
<1>1. SharedIInv' /\ HeldHolds'
  BY SharedStays, NothingHeld DEF DoorsIInv, ToolSearch
<1>2. revs' = revs /\ revs.revision \in Nat
  BY DEF ToolSearch, sharedVars, DoorsIInv, SharedIInv, TypesHold, Revisions
<1>3. call'.step = "tool" /\ call'.expected = SharedStamp
  BY DEF ToolSearch
<1>4. CallHolds'
  BY <1>2, <1>3, StampParts DEF CallHolds
<1> QED
  BY <1>1, <1>4 DEF DoorsIInv

LEMMA PreviewHolds ==
  ASSUME DoorsIInv, Preview
  PROVE  DoorsIInv'
<1>1. SharedIInv' /\ CallHolds'
  BY SharedStays, CallThroughRead DEF DoorsIInv, Preview
<1>2. /\ view' = view /\ settings' = settings /\ cache' = cache /\ revs' = revs
      /\ revs.revision \in Nat
  BY DEF Preview, sharedVars, DoorsIInv, SharedIInv, TypesHold, Revisions
<1>3. PICK scope \in Scopes, choice \in Choices :
        /\ Capturable(scope, held.stamp, held.subset_revision)
        /\ held' = [kind |-> "preview", stamp |-> held.stamp,
                    subset_revision |-> held.subset_revision,
                    digest |-> Digest(Capture(scope), choice),
                    shown |-> Prepared(Capture(scope), choice)]
  BY DEF Preview
<1>4. held.stamp = SharedStamp /\ SharedStamp' = SharedStamp
  BY <1>2, <1>3 DEF Capturable, CheckStamp, SharedStamp
<1>5. /\ held'.kind = "preview" /\ held'.stamp = SharedStamp
      /\ held'.digest = Digest(Capture(scope), choice)
      /\ held'.shown = Prepared(Capture(scope), choice)
  BY <1>3, <1>4
<1>6. Capture(scope)' = Capture(scope)
  BY <1>2 DEF Capture, CapturedNodes, CapturedEdges, Scene, SharedStamp
<1>7. \A c, x : Digest(c, x)' = Digest(c, x) /\ Prepared(c, x)' = Prepared(c, x)
  BY DEF Digest, Prepared
<1>8. held'.kind = "preview" =>
        \E s \in Scopes, x \in Choices :
          /\ held'.digest = Digest(Capture(s), x)'
          /\ held'.shown = Prepared(Capture(s), x)'
  BY <1>3, <1>5, <1>6, <1>7
<1>9. HeldHolds'
  BY <1>2, <1>4, <1>5, <1>8, StampParts DEF HeldHolds, Stamped_by
<1> QED
  BY <1>1, <1>9 DEF DoorsIInv

\* The digest names the scope and the settings, and the stamp the rest.
LEMMA DownloadHolds ==
  ASSUME DoorsIInv, Download
  PROVE  DoorsIInv'
<1>1. SharedIInv' /\ HeldHolds'
  BY SharedStays, NothingHeld DEF DoorsIInv, Download
<1>2. PICK scope \in Scopes, choice \in Choices :
        /\ Capturable(scope, held.stamp, held.subset_revision)
        /\ CheckDigest(Capture(scope), choice, held.digest)
        /\ call' = [step |-> "saved", meant |-> held.shown,
                    did |-> Prepared(Capture(scope), choice)]
  BY DEF Download
<1>3. held.kind = "preview" /\ held.stamp = SharedStamp
  BY <1>2 DEF Download, Capturable, CheckStamp
<1>4. PICK s \in Scopes, x \in Choices :
        /\ held.digest = Digest(Capture(s), x)
        /\ held.shown = Prepared(Capture(s), x)
  BY <1>3 DEF DoorsIInv, HeldHolds
<1>5. Digest(Capture(scope), choice) = Digest(Capture(s), x)
  BY <1>2, <1>4 DEF CheckDigest
<1>6. \A y : Capture(y).scope = y
  BY DEF Capture
<1>7. scope = s /\ choice = x
  BY <1>5, <1>6 DEF Digest
<1>8. call'.step = "saved" /\ call'.meant = call'.did
  BY <1>2, <1>4, <1>7
<1>9. CallHolds'
  BY <1>8 DEF CallHolds
<1> QED
  BY <1>1, <1>9 DEF DoorsIInv

LEMMA ExportViewHolds ==
  ASSUME DoorsIInv, ExportView
  PROVE  DoorsIInv'
<1>1. SharedIInv' /\ CallHolds'
  BY SharedStays, CallThroughRead DEF DoorsIInv, ExportView
<1>2. held'.kind = "file"
  BY DEF ExportView, Exported
<1>3. HeldHolds'
  BY <1>2 DEF HeldHolds, Stamped_by
<1> QED
  BY <1>1, <1>3 DEF DoorsIInv

-----------------------------------------------------------------------------
(* The changes. *)

LEMMA MarkMoves ==
  ASSUME SharedIInv, NEW slots, Mark(slots)
  PROVE  SharedIInv' /\ Moves
<1>1. PICK refs : refs = NodesAt(slots)
  OBVIOUS
<1>2. refs \in SUBSET Refs
  <2>1. view.entries \in [Slots(view) -> Entry]
    BY StateFacts, ViewFacts DEF Sound
  <2>2. \A s \in slots : view.entries[s] \in Refs
    BY <2>1 DEF Mark, CheckLiveSlots, LiveSlots, Entry, Refs
  <2> QED
    BY <1>1, <2>2 DEF NodesAt
<1>3. /\ settings.highlighted \in SUBSET Refs /\ settings.selected \in SUBSET Refs
      /\ [settings EXCEPT !.highlighted = refs]
           = [settings EXCEPT !.highlighted = refs, !.selected = settings.selected]
      /\ [settings EXCEPT !.selected = refs]
           = [settings EXCEPT !.highlighted = settings.highlighted, !.selected = refs]
  BY StateFacts DEF SettingsRecords
<1>4. \/ Finish([settings EXCEPT !.highlighted = refs], FALSE)
      \/ Finish([settings EXCEPT !.selected = refs], FALSE)
  BY <1>1 DEF Mark
<1> QED
  BY <1>2, <1>3, <1>4, ReferenceCommits, CommitMoves

\* In a sound view a slot that was told holds the node it was told with.
LEMMA SlotsNameNodes ==
  ASSUME SharedIInv, NEW hits, hits \subseteq SlotsOf(Nodes)
  PROVE  {h.node : h \in hits} = NodesAt({h.slot : h \in hits})
<1>1. \A n \in Loaded(view) : view.entries[view.node_slot[n]] = n
  BY StateFacts DEF Sound, Coherent, MapsInvertEntries
<1>2. \A h \in hits : view.entries[h.slot] = h.node
  <2> SUFFICES ASSUME NEW h \in hits PROVE view.entries[h.slot] = h.node
    OBVIOUS
  <2>1. PICK n \in Nodes \cap Loaded(view) : h = [slot |-> view.node_slot[n], node |-> n]
    BY DEF SlotsOf
  <2> QED
    BY <1>1, <2>1
<1>3. {h.node : h \in hits} = {view.entries[h.slot] : h \in hits}
  BY <1>2
<1> QED
  BY <1>3 DEF NodesAt

LEMMA DoneHolds ==
  ASSUME SharedIInv', NEW meant, NEW did, meant = did, Done(meant, did)
  PROVE  DoorsIInv'
<1>1. call'.step = "done" /\ call'.meant = call'.did /\ held' = Nothing
  BY DEF Done
<1>2. CallHolds'
  BY <1>1 DEF CallHolds
<1> QED
  BY <1>1, <1>2, NothingHeld DEF DoorsIInv

LEMMA HighlightSlotsHolds ==
  ASSUME DoorsIInv, HighlightSlots
  PROVE  DoorsIInv'
<1>1. PICK picked \in SUBSET held.slots :
        /\ Mark({p.slot : p \in picked})
        /\ Done({p.node : p \in picked}, NodesAt({p.slot : p \in picked}))
  BY DEF HighlightSlots
<1>2. held.kind \in {"state", "records", "search"} /\ held.stamp = SharedStamp
  BY DEF HighlightSlots, CheckStamp
<1>3. held.slots = SlotsOf(Nodes) \/ held.slots = SlotsOf(held.of)
  BY <1>2 DEF DoorsIInv, HeldHolds
<1>4. picked \subseteq SlotsOf(Nodes)
  BY <1>3, SlotsOfSome
<1>5. {p.node : p \in picked} = NodesAt({p.slot : p \in picked})
  BY <1>4, SlotsNameNodes DEF DoorsIInv
<1>6. SharedIInv'
  BY <1>1, MarkMoves DEF DoorsIInv
<1> QED
  BY <1>1, <1>5, <1>6, DoneHolds

LEMMA ToolMarkHolds ==
  ASSUME DoorsIInv, ToolMark
  PROVE  DoorsIInv'
<1>1. /\ call.step = "found" /\ call.expected = SharedStamp
      /\ Mark({h.slot : h \in call.hits})
      /\ Done({h.node : h \in call.hits}, NodesAt({h.slot : h \in call.hits}))
  BY DEF ToolMark, Stamped, CheckStamp
<1>2. call.hits \subseteq SlotsOf(Nodes)
  BY <1>1 DEF DoorsIInv, CallHolds
<1>3. {h.node : h \in call.hits} = NodesAt({h.slot : h \in call.hits})
  BY <1>2, SlotsNameNodes DEF DoorsIInv
<1>4. SharedIInv'
  BY <1>1, MarkMoves DEF DoorsIInv
<1> QED
  BY <1>1, <1>3, <1>4, DoneHolds

\* The subset the answer showed is the one the calculation reads.
LEMMA CalculateHeldHolds ==
  ASSUME DoorsIInv, CalculateHeld
  PROVE  DoorsIInv'
<1>1. /\ Calculate /\ held.kind = "state" /\ held.stamp = SharedStamp
  BY DEF CalculateHeld, CheckStamp
<1>2. PICK asked, result :
        /\ Finish(asked, TRUE) /\ Asks(asked, FALSE) /\ Sound(view')
        /\ asked \in SettingsRecords
        /\ asked.calculations \ settings.calculations = {result}
        /\ result.nodes = cache.subset.nodes /\ result.edges = cache.subset.edges
  BY <1>1, CalculateFacts DEF DoorsIInv
<1>3. Settle(asked, FALSE)
  BY <1>2 DEF Finish, Prepare
<1>4. settings'.calculations \ settings.calculations = {result}
  BY <1>2, <1>3, SettleFacts
<1>5. (CHOOSE c \in settings'.calculations \ settings.calculations : TRUE) = result
  BY <1>4
<1>6. Done(held.visible, [nodes |-> result.nodes, edges |-> result.edges])
  BY <1>5 DEF CalculateHeld
<1>7. held.visible = cache.subset
  <2>1. held.stamp.generation = Here
    BY <1>1, StampParts
  <2> QED
    BY <1>1, <2>1 DEF DoorsIInv, HeldHolds
<1>8. cache.subset = [nodes |-> result.nodes, edges |-> result.edges]
  <2>1. cache.subset \in [nodes : SUBSET Nodes, edges : SUBSET Relations]
    BY StateFacts, EvaluateType DEF DoorsIInv, SharedIInv, CachesFresh
  <2> QED
    BY <1>2, <2>1
<1>9. SharedIInv'
  BY <1>2, FinishCommits, CommitMoves DEF DoorsIInv
<1> QED
  BY <1>6, <1>7, <1>8, <1>9, DoneHolds

\* Whichever of the forms names a channel, what it names is what the channel becomes.
LEMMA SetAppearanceHolds ==
  ASSUME DoorsIInv, SetAppearance
  PROVE  DoorsIInv'
<1>1. PICK args \in StyleArgs :
        /\ Finish([settings EXCEPT !.appearance = Styled(@, args)], TRUE)
        /\ Done([color |-> IF args.color_field # Absent THEN args.color_field ELSE args.color_by,
                 look  |-> args.look],
                Named(args, settings'.appearance))
  BY DEF SetAppearance
<1>2. PICK a : a = settings.appearance
  OBVIOUS
<1>3. PICK b : b = Styled(a, args)
  OBVIOUS
<1>4. settings \in SettingsRecords /\ a \in Appearances
  BY <1>2, StateFacts DEF DoorsIInv, SettingsRecords
<1>5. b \in Appearances /\ a = [color |-> a.color, size |-> a.size, look |-> a.look]
  BY <1>3, <1>4, StyleAssumption
<1>6. PICK asked : asked = [settings EXCEPT !.appearance = b]
  OBVIOUS
<1>7. /\ asked \in SettingsRecords /\ asked.appearance = b /\ asked.kernel = settings.kernel
      /\ asked.layout = settings.layout /\ asked.calculations = settings.calculations
  BY <1>4, <1>5, <1>6 DEF SettingsRecords
<1>8. Finish(asked, TRUE)
  BY <1>1, <1>2, <1>3, <1>6
<1>9. SharedIInv'
  BY <1>7, <1>8, SettingCommits, CommitMoves DEF DoorsIInv
<1>10. settings'.appearance = b
  BY <1>7, <1>8, SettleFacts DEF Finish, Prepare
<1> DEFINE named == IF args.color_field # Absent THEN args.color_field ELSE args.color_by
           channels == [a EXCEPT !.color = Resolve(args.color_by, args.color_field),
                                 !.size = Resolve(args.size_by, args.size_field)]
<1>11. /\ channels.color = Resolve(args.color_by, args.color_field)
       /\ [channels EXCEPT !.look = args.look].color = channels.color
       /\ [channels EXCEPT !.look = args.look].look = args.look
       /\ [a EXCEPT !.look = args.look].look = args.look
  BY <1>5
<1>12. {args.color_by, args.color_field} # {Absent} =>
         HasChannels(args) /\ Resolve(args.color_by, args.color_field) = named
  BY DEF HasChannels, Resolve
<1>13. b = IF args.look = Absent THEN channels
           ELSE IF HasChannels(args) THEN [channels EXCEPT !.look = args.look]
           ELSE [a EXCEPT !.look = args.look]
  BY <1>3 DEF Styled
<1> HIDE DEF channels
<1>14. {args.color_by, args.color_field} # {Absent} => b.color = named
  BY <1>11, <1>12, <1>13
<1>15. args.look # Absent => b.look = args.look
  BY <1>11, <1>13
<1>16. {args.color_by, args.color_field} = {Absent} => named = Absent
  OBVIOUS
<1>17. Named(args, b) = [color |-> named, look |-> args.look]
  BY <1>14, <1>15, <1>16 DEF Named
<1> QED
  BY <1>1, <1>9, <1>10, <1>17, DoneHolds

-----------------------------------------------------------------------------
(* The invariant. *)

LEMMA DoorsInitIInv == DoorsInit => DoorsIInv
<1> SUFFICES ASSUME DoorsInit PROVE DoorsIInv
  OBVIOUS
<1>1. SharedIInv
  BY SharedInitIInv DEF DoorsInit
<1>2. CallHolds
  BY DEF DoorsInit, CallHolds, Idle
<1>3. held = Nothing \/ (held.kind = "state" /\ held.stamp.generation = There)
  BY DEF DoorsInit, Remembered
<1>4. held.kind = "none" \/ (held.kind = "state" /\ held.stamp.generation # Here)
  BY <1>3, DoorsAssumption DEF Nothing
<1>5. HeldHolds
  BY <1>4, StampParts DEF HeldHolds, Stamped_by
<1> QED
  BY <1>1, <1>2, <1>5 DEF DoorsIInv

LEMMA DoorsNextIInv == DoorsIInv /\ [DoorsNext]_allVars => DoorsIInv'
<1> SUFFICES ASSUME DoorsIInv, [DoorsNext]_allVars PROVE DoorsIInv'
  OBVIOUS
<1>1. CASE Peer
  <2>1. SharedIInv' /\ Moves
    BY <1>1, EveryCommit, CommitMoves DEF Peer, DoorsIInv
  <2>2. held' = held /\ call' = call
    BY <1>1 DEF Peer, doorVars
  <2> QED
    BY <2>1, <2>2, HeldThroughMove, CallThroughMove DEF DoorsIInv
<1>2. CASE BeginSearch
  <2>1. SharedIInv' /\ HeldHolds'
    BY <1>2, SharedStays, NothingHeld DEF BeginSearch, DoorsIInv
  <2>2. call'.step = "searching"
    BY <1>2 DEF BeginSearch
  <2>3. CallHolds'
    BY <2>2 DEF CallHolds
  <2> QED
    BY <2>1, <2>3 DEF DoorsIInv
<1>3. CASE ToolRefused
  BY <1>3, SharedStays, HeldThroughRead, NothingAsked DEF ToolRefused, DoorsIInv
<1>4. CASE Leave
  BY <1>4, SharedStays, NothingHeld, NothingAsked DEF Leave, DoorsIInv
<1>5. CASE UNCHANGED allVars
  BY <1>5, SharedStays, HeldThroughRead, CallThroughRead DEF allVars, doorVars, DoorsIInv
<1> QED
  BY <1>1, <1>2, <1>3, <1>4, <1>5, ViewStateHolds, RecordsHolds, EndSearchHolds,
     HighlightSlotsHolds, CalculateHeldHolds, ToolSearchHolds, ToolFoundHolds, ToolMarkHolds,
     SetAppearanceHolds, PreviewHolds, DownloadHolds, ExportViewHolds DEF DoorsNext

(***************************************************************************)
(* No stamp is from the future, and what was told under the current one is *)
(* what would be told now, through every read, change and commit of a peer.*)
(***************************************************************************)
THEOREM DoorsInvariant == DoorsSpec => []DoorsIInv
BY DoorsInitIInv, DoorsNextIInv, PTL DEF DoorsSpec

\* In a sound view the instances of a type are its loaded nodes, by slot.
LEMMA InstancesCount ==
  ASSUME NEW v, Sound(v), NEW t
  PROVE  Cardinality(InstancesOf(v, t)) = Cardinality({n \in Loaded(v) : TypeOf[n] = t})
<1> DEFINE I == InstancesOf(v, t)
           N == {n \in Loaded(v) : TypeOf[n] = t}
           f == [s \in I |-> v.entries[s]]
<1>1. v \in ViewRecords /\ MapsInvertEntries(v)
  BY DEF Sound, Coherent
<1>2. IsFiniteSet(I) /\ IsFiniteSet(N)
  BY <1>1, ViewFacts, FS_Subset DEF InstancesOf
<1>3. \A s \in NodeSlots(v) :
        /\ v.entries[s] \in Loaded(v) /\ v.node_slot[v.entries[s]] = s
  <2>1. \A s \in NodeSlots(v) : s # 0 /\ v.entries[s] \in Nodes
    BY <1>1, ViewFacts DEF NodeSlots
  <2> QED
    BY <1>1, <2>1 DEF MapsInvertEntries, Loaded, NoSlot
<1>4. \A s \in I : f[s] \in N
  BY <1>3 DEF InstancesOf
<1>5. \A r, s \in I : f[r] = f[s] => r = s
  <2>1. \A s \in I : v.node_slot[f[s]] = s
    BY <1>3 DEF InstancesOf
  <2> QED
    BY <2>1
<1>6. \A n \in N : \E s \in I : f[s] = n
  <2> SUFFICES ASSUME NEW n \in N PROVE \E s \in I : f[s] = n
    OBVIOUS
  <2>1. v.node_slot[n] \in Slots(v) /\ v.entries[v.node_slot[n]] = n /\ n \in Nodes
    BY <1>1 DEF MapsInvertEntries, Loaded
  <2>2. v.node_slot[n] \in I
    BY <2>1 DEF InstancesOf, NodeSlots
  <2> QED
    BY <2>1, <2>2
<1>7. f \in Bijection(I, N)
  <2>1. f \in [I -> N]
    BY <1>4
  <2> QED
    BY <1>5, <1>6, <2>1 DEF Bijection, Injection, Surjection, IsInjective
<1>8. ExistsBijection(I, N)
  BY <1>7 DEF ExistsBijection
<1> HIDE DEF I, N
<1>9. Cardinality(N) = Cardinality(I)
  BY <1>2, <1>8, FS_Bijection
<1> QED
  BY <1>9 DEF I, N

LEMMA TotalsCount ==
  ASSUME NEW v, Sound(v)
  PROVE  Len(v.entries) - v.tombstones = Cardinality(LiveSlots(v))
<1>1. /\ Len(v.entries) = v.tombstones + Cardinality(LiveSlots(v))
      /\ v.tombstones \in Nat /\ IsFiniteSet(LiveSlots(v))
  BY SlotsCount, ViewFacts DEF Sound
<1>2. Cardinality(LiveSlots(v)) \in Nat
  BY <1>1, FS_CardinalityType
<1> QED
  BY <1>1, <1>2

\* What the slots of some nodes say of the view.
LEMMA SlotsStand ==
  ASSUME Sound(view), NEW of
  PROVE  /\ \A p \in SlotsOf(of) : p.slot \in Slots(view) /\ view.entries[p.slot] = p.node
         /\ {p.node : p \in SlotsOf(of)} = of \cap Loaded(view)
<1>1. \A n \in Loaded(view) : view.node_slot[n] \in Slots(view) /\ view.entries[view.node_slot[n]] = n
  BY DEF Sound, Coherent, MapsInvertEntries
<1>2. ASSUME NEW p \in SlotsOf(of)
      PROVE  p.slot \in Slots(view) /\ view.entries[p.slot] = p.node /\ p.node \in of \cap Loaded(view)
  <2>1. PICK n \in of \cap Loaded(view) : p = [slot |-> view.node_slot[n], node |-> n]
    BY <1>2 DEF SlotsOf
  <2> QED
    BY <1>1, <2>1
<1>3. ASSUME NEW n \in of \cap Loaded(view) PROVE \E p \in SlotsOf(of) : p.node = n
  <2>1. [slot |-> view.node_slot[n], node |-> n] \in SlotsOf(of)
    BY <1>3 DEF SlotsOf
  <2> QED
    BY <2>1
<1> QED
  BY <1>2, <1>3

\* The relations an output holds, by its scope.
LEMMA OutputHolds ==
  ASSUME SharedIInv, NEW scope \in Scopes, NEW choice
  PROVE  LET out == Prepared(Capture(scope), choice)
         IN  IF out.scope = "visible"
             THEN out.nodes = cache.subset.nodes /\ out.edges = cache.subset.edges
             ELSE /\ out.nodes = Loaded(view)
                  /\ \A r \in Relations : r \in out.edges <=>
                                            {Source[r], Target[r]} \subseteq out.nodes
<1>1. PICK out : out = Prepared(Capture(scope), choice)
  OBVIOUS
<1>2. out.scope = scope /\ out.nodes = CapturedNodes(scope) /\ out.edges = CapturedEdges(scope)
  BY <1>1 DEF Prepared, Capture
<1>3. CASE scope = "visible"
  <2>1. cache.subset.edges \subseteq RelationsOf(view)
    <3>1. cache.subset = Evaluate(view, settings.predicates, settings.calculations)
      BY DEF SharedIInv, CachesFresh
    <3>2. \A p, cs : Evaluate(view, p, cs).edges \subseteq RelationsOf(view)
      BY DEF Evaluate, RelationsOf
    <3> QED
      BY <3>1, <3>2
  <2>2. out.edges = cache.subset.edges
    BY <1>2, <1>3, <2>1 DEF CapturedEdges
  <2> QED
    BY <1>1, <1>2, <1>3, <2>2 DEF CapturedNodes
<1>4. CASE scope # "visible"
  <2>1. out.nodes = Loaded(view) /\ out.edges = Within(Relations, Loaded(view))
    BY <1>2, <1>4 DEF CapturedNodes, CapturedEdges
  <2>2. \A r \in Relations : r \in out.edges <=> {Source[r], Target[r]} \subseteq out.nodes
    BY <2>1 DEF Within
  <2> QED
    BY <1>1, <1>2, <1>4, <2>1, <2>2
<1> QED
  BY <1>3, <1>4

(***************************************************************************)
(* An answer that carries the current stamp describes the session as it is:*)
(* its slots, its counts, its visible part and its preview.                *)
(***************************************************************************)
THEOREM DoorsCurrentAnswersHold == DoorsSpec => []CurrentAnswersHold
<1>1. ASSUME DoorsIInv PROVE CurrentAnswersHold
  <2> DEFINE stands(of) ==
               /\ \A p \in held.slots : p.slot \in Slots(view) /\ view.entries[p.slot] = p.node
               /\ {p.node : p \in held.slots} = of \cap Loaded(view)
             kept == Evaluate(view, settings.predicates, settings.calculations)
  <2>1. SharedIInv /\ HeldHolds /\ Sound(view) /\ kept = cache.subset
    BY <1>1, StateFacts DEF DoorsIInv, SharedIInv, CachesFresh
  <2>2. ASSUME held.kind = "state", held.stamp = SharedStamp
        PROVE  /\ stands(Nodes)
               /\ held.counts.live = Cardinality(LiveSlots(view))
               /\ \A t \in Types : held.counts.on_screen[t] =
                                      Cardinality({n \in Loaded(view) : TypeOf[n] = t})
    <3>1. held.slots = SlotsOf(Nodes) /\ held.counts = CountsOf
      BY <2>1, <2>2 DEF HeldHolds
    <3>2. stands(Nodes)
      BY <2>1, <3>1, SlotsStand
    <3>3. held.counts.live = Cardinality(LiveSlots(view))
      BY <2>1, <3>1, TotalsCount DEF CountsOf
    <3>4. \A t \in Types : held.counts.on_screen[t] = Cardinality(InstancesOf(view, t))
      BY <3>1 DEF CountsOf
    <3> QED
      BY <2>1, <3>2, <3>3, <3>4, InstancesCount
  <2>3. held.kind = "state" /\ held.stamp.generation = Here
          /\ held.subset_revision = revs.subset => held.visible = kept
    BY <2>1 DEF HeldHolds
  <2>4. held.kind \in {"records", "search"} /\ held.stamp = SharedStamp => stands(held.of)
    <3>1. held.kind \in {"records", "search"} /\ held.stamp = SharedStamp =>
            held.slots = SlotsOf(held.of)
      BY <2>1 DEF HeldHolds
    <3> QED
      BY <2>1, <3>1, SlotsStand
  <2>5. held.kind = "records" /\ held.stamp.generation = Here
          /\ held.subset_revision = revs.subset => held.visible = held.of \cap kept.nodes
    BY <2>1 DEF HeldHolds
  <2>6. ASSUME held.kind = "preview", held.stamp = SharedStamp
        PROVE  LET out == held.shown
               IN  IF out.scope = "visible"
                   THEN out.nodes = kept.nodes /\ out.edges = kept.edges
                   ELSE /\ out.nodes = Loaded(view)
                        /\ \A r \in Relations : r \in out.edges <=>
                                                  {Source[r], Target[r]} \subseteq out.nodes
    <3>1. PICK scope \in Scopes, choice \in Choices :
            held.shown = Prepared(Capture(scope), choice)
      BY <2>1, <2>6 DEF HeldHolds
    <3> QED
      BY <2>1, <3>1, OutputHolds
  <2> HIDE DEF kept
  <2> QED
    BY <2>2, <2>3, <2>4, <2>5, <2>6 DEF CurrentAnswersHold, kept
<1> QED
  BY <1>1, DoorsInvariant, PTL

(***************************************************************************)
(* What is done with the stamp of an answer is done to what the answer     *)
(* named, and set_appearance does what it is told.                         *)
(***************************************************************************)
THEOREM DoorsActsOnWhatItRead == DoorsSpec => []ActsOnWhatItRead
<1>1. DoorsIInv => ActsOnWhatItRead
  BY DEF DoorsIInv, CallHolds, ActsOnWhatItRead
<1> QED
  BY <1>1, DoorsInvariant, PTL

(***************************************************************************)
(* A file or an image is the one its preview showed.                       *)
(***************************************************************************)
THEOREM DoorsFinalIsItsPreview == DoorsSpec => []FinalIsItsPreview
<1>1. DoorsIInv => FinalIsItsPreview
  BY DEF DoorsIInv, CallHolds, FinalIsItsPreview
<1> QED
  BY <1>1, DoorsInvariant, PTL

-----------------------------------------------------------------------------
(***************************************************************************)
(* A saved exploration, brought back over any other.                       *)
(*                                                                         *)
(* What Valid refuses is enough: the members are nodes of a new view, in   *)
(* their order, and nothing the payload names is outside it, so nothing of *)
(* it is dropped by finish_preparation.  A payload holds no slot, so what  *)
(* it says of itself goes on holding whatever becomes of the view.         *)
(***************************************************************************)

\* Each of its calculations could be one of the session, then and ever since.
PayloadHolds(p) ==
  /\ p \in PayloadsFrom(Generations)
  /\ \A q \in p.positions : q[1] = q[2]
  /\ \A c \in p.calculations :
       CalculationsFit({c}, revs.revision, revs.subset, cache.subset)

BookmarkIInv ==
  /\ SharedIInv
  /\ \A p \in payloads \cup Foreign : PayloadHolds(p)
  /\ RestoresWhatWasSaved

-----------------------------------------------------------------------------
(* Members are the nodes on screen, each once. *)

LEMMA NodesUpToFacts ==
  ASSUME NEW v \in ViewRecords, NEW s \in NodeSlots(v)
  PROVE  /\ s \in NodesUpTo(v, s) /\ NodesUpTo(v, s) \subseteq NodeSlots(v)
         /\ IsFiniteSet(NodesUpTo(v, s))
         /\ Cardinality(NodesUpTo(v, s)) \in 1..Cardinality(NodeSlots(v))
<1>1. s \in Nat /\ IsFiniteSet(NodeSlots(v)) /\ NodesUpTo(v, s) \subseteq NodeSlots(v)
  BY ViewFacts DEF NodesUpTo
<1>2. s \in NodesUpTo(v, s)
  BY <1>1 DEF NodesUpTo
<1>3. /\ IsFiniteSet(NodesUpTo(v, s))
      /\ Cardinality(NodesUpTo(v, s)) <= Cardinality(NodeSlots(v))
  BY <1>1, FS_Subset
<1>4. Cardinality(NodesUpTo(v, s)) # 0
  BY <1>2, <1>3, FS_EmptySet
<1>5. Cardinality(NodesUpTo(v, s)) \in Nat /\ Cardinality(NodeSlots(v)) \in Nat
  BY <1>1, <1>3, FS_CardinalityType
<1> QED
  BY <1>1, <1>2, <1>3, <1>4, <1>5

LEMMA NodesUpToTells ==
  ASSUME NEW v \in ViewRecords, NEW s \in NodeSlots(v), NEW t \in NodeSlots(v), s < t
  PROVE  Cardinality(NodesUpTo(v, s)) # Cardinality(NodesUpTo(v, t))
<1>1. s \in Nat /\ t \in Nat /\ \A x \in NodeSlots(v) : x \in Nat
  BY ViewFacts
<1>2. NodesUpTo(v, s) \subseteq NodesUpTo(v, t)
  <2>1. \A x \in Nat : x <= s => x <= t
    BY <1>1
  <2> QED
    BY <1>1, <2>1 DEF NodesUpTo
<1>3. t \in NodesUpTo(v, t) /\ t \notin NodesUpTo(v, s)
  BY <1>1 DEF NodesUpTo
<1>4. IsFiniteSet(NodesUpTo(v, t))
  BY NodesUpToFacts
<1> QED
  BY <1>2, <1>3, <1>4, FS_Subset

LEMMA NodesUpToOnto ==
  ASSUME NEW v \in ViewRecords, NEW i \in 1..Cardinality(NodeSlots(v))
  PROVE  \E s \in NodeSlots(v) : Cardinality(NodesUpTo(v, s)) = i
<1> DEFINE C == Cardinality(NodeSlots(v))
           f == [s \in NodeSlots(v) |-> Cardinality(NodesUpTo(v, s))]
<1>1. IsFiniteSet(NodeSlots(v)) /\ C \in Nat
  BY ViewFacts, FS_CardinalityType
<1>2. f \in [NodeSlots(v) -> 1..C]
  BY NodesUpToFacts
<1>3. \A s, t \in NodeSlots(v) : f[s] = f[t] => s = t
  <2>1. \A s, t \in NodeSlots(v) : s = t \/ s < t \/ t < s
    BY ViewFacts
  <2> QED
    BY <2>1, NodesUpToTells
<1>4. f \in Injection(NodeSlots(v), 1..C)
  BY <1>2, <1>3 DEF Injection, IsInjective
<1>5. IsFiniteSet(1..C) /\ Cardinality(1..C) = C
  BY <1>1, FS_Interval
<1>6. f \in Surjection(NodeSlots(v), 1..C)
  BY <1>4, <1>5, FS_Injection
<1> QED
  BY <1>6 DEF Surjection

LEMMA MembersAreNodes ==
  ASSUME NEW v \in ViewRecords
  PROVE  Members(v) \in Seq(Nodes)
<1> DEFINE C == Cardinality(NodeSlots(v))
           at(i) == CHOOSE s \in NodeSlots(v) : Cardinality(NodesUpTo(v, s)) = i
<1>1. C \in Nat
  BY ViewFacts, FS_CardinalityType
<1>2. \A i \in 1..C : at(i) \in NodeSlots(v)
  BY NodesUpToOnto
<1>3. \A i \in 1..C : v.entries[at(i)] \in Nodes
  BY <1>2 DEF NodeSlots
<1>4. Members(v) = [i \in 1..C |-> v.entries[at(i)]]
  BY DEF Members
<1> HIDE DEF at
<1>5. Members(v) \in [1..C -> Nodes]
  BY <1>3, <1>4
<1> QED
  BY <1>1, <1>5, FunctionIsSeq

-----------------------------------------------------------------------------
(* What is captured holds. *)

LEMMA CaptureHolds ==
  ASSUME SharedIInv, NEW selected \in SUBSET Refs
  PROVE  PayloadHolds(PayloadOf(view, settings, selected))
<1>1. /\ settings \in SettingsRecords /\ view \in ViewRecords
      /\ LayoutFits(settings, view.entries)
      /\ CalculationsFit(settings.calculations, revs.revision, revs.subset, cache.subset)
  BY DEF SharedIInv, TypesHold, StateFits, SettingsFit, Sound
<1>2. PICK positions : positions = UNION {Positions(view, l) : l \in settings.layout}
  OBVIOUS
<1>3. ASSUME NEW q \in positions
      PROVE  q \in Refs \X Refs /\ q[1] = q[2]
  <2>1. PICK l \in settings.layout : q \in Positions(view, l)
    BY <1>2, <1>3
  <2>2. PICK s \in LiveSlots(view) : q = <<view.entries[s], l.placed[s]>>
    BY <2>1 DEF Positions
  <2>3. l.placed = view.entries
    BY <1>1, <2>1 DEF LayoutFits
  <2>4. view.entries[s] \in Refs
    BY <1>1, <2>2, ViewFacts DEF LiveSlots, Entry, Refs
  <2> QED
    BY <2>2, <2>3, <2>4
<1>4. PICK p : p = PayloadOf(view, settings, selected)
  OBVIOUS
<1>5. p = [members |-> Members(view), relations |-> RelationsOf(view),
           predicates |-> settings.predicates, appearance |-> settings.appearance,
           caption |-> settings.caption, highlighted |-> settings.highlighted,
           selected |-> selected, kernel |-> settings.kernel, positions |-> positions,
           calculations |-> settings.calculations]
  BY <1>2, <1>4 DEF PayloadOf
<1>6. Members(view) \in Seq(Nodes) /\ RelationsOf(view) \in SUBSET Relations
  BY <1>1, MembersAreNodes, RelationsOfFacts
<1>7. positions \in SUBSET (Refs \X Refs)
  BY <1>3
<1>8. p \in PayloadsFrom(Generations)
  BY <1>1, <1>5, <1>6, <1>7
     DEF PayloadsFrom, SettingsRecords, PredicateLists, Results, Identities, Refs, Kernels
<1>9. \A c \in p.calculations : CalculationsFit({c}, revs.revision, revs.subset, cache.subset)
  BY <1>1, <1>5 DEF CalculationsFit
<1>10. \A q \in p.positions : q[1] = q[2]
  BY <1>3, <1>5
<1> QED
  BY <1>4, <1>8, <1>9, <1>10 DEF PayloadHolds

\* A payload of another session claims nothing of this one.
LEMMA ForeignHolds ==
  ASSUME NEW p \in Foreign
  PROVE  PayloadHolds(p)
<1>1. /\ p \in PayloadsFrom(Elsewhere) /\ Here \notin Elsewhere
      /\ \A q \in p.positions : q[1] = q[2]
  BY BookmarkAssumption
<1>2. p \in PayloadsFrom(Generations)
  BY <1>1 DEF PayloadsFrom, Generations
<1>3. \A c \in p.calculations : c.id[1] # Here /\ c.generation # Here
  BY <1>1 DEF PayloadsFrom
<1>4. \A c \in p.calculations : CalculationsFit({c}, revs.revision, revs.subset, cache.subset)
  BY <1>3 DEF CalculationsFit
<1> QED
  BY <1>1, <1>2, <1>4 DEF PayloadHolds

\* Nor does one that passes on what it had of this session.
LEMMA PassedOnHolds ==
  ASSUME \A q \in payloads \cup Foreign : PayloadHolds(q), NEW p \in PassedOn
  PROVE  PayloadHolds(p)
<1>1. PICK f \in Foreign, q \in payloads :
        p \in {[f EXCEPT !.calculations = f.calculations \cup q.calculations],
              [f EXCEPT !.calculations = {[c EXCEPT !.id = d.id] :
                                            c \in f.calculations, d \in q.calculations}]}
  BY DEF PassedOn
<1>2. f \in PayloadsFrom(Generations) /\ q \in PayloadsFrom(Generations)
  BY DEF PayloadHolds
<1> DEFINE again == {[c EXCEPT !.id = d.id] : c \in f.calculations, d \in q.calculations}
<1>3. PICK cs : cs = p.calculations
  OBVIOUS
<1>4. /\ p = [f EXCEPT !.calculations = cs]
      /\ cs = f.calculations \cup q.calculations \/ cs = again
  <2>1. ASSUME NEW ds, p = [f EXCEPT !.calculations = ds]
        PROVE  p = [f EXCEPT !.calculations = cs] /\ cs = ds
    BY <1>2, <1>3, <2>1 DEF PayloadsFrom
  <2>2. CASE p = [f EXCEPT !.calculations = f.calculations \cup q.calculations]
    BY <2>1, <2>2
  <2>3. CASE p = [f EXCEPT !.calculations = again]
    <3> HIDE DEF again
    <3> QED
      BY <2>1, <2>3
  <2> QED
    BY <1>1, <2>2, <2>3
<1>5. f.calculations \in SUBSET Results /\ q.calculations \in SUBSET Results
  BY <1>2 DEF PayloadsFrom, Results, Identities
<1>6. \A c \in f.calculations \cup q.calculations :
        CalculationsFit({c}, revs.revision, revs.subset, cache.subset)
  BY DEF PayloadHolds
<1>7. \A c \in f.calculations : c.generation # Here
  BY BookmarkAssumption DEF PayloadsFrom
<1>8. ASSUME NEW e \in cs
      PROVE  e \in Results /\ CalculationsFit({e}, revs.revision, revs.subset, cache.subset)
  <2>1. CASE e \in f.calculations \cup q.calculations
    BY <1>5, <1>6, <2>1
  <2>2. ASSUME NEW c \in f.calculations, NEW d \in q.calculations, e = [c EXCEPT !.id = d.id]
        PROVE  e \in Results /\ CalculationsFit({e}, revs.revision, revs.subset, cache.subset)
    <3>1. e \in Results /\ e.id = d.id /\ e.generation # Here
      BY <1>5, <1>7, <2>2 DEF Results
    <3>2. d.id[1] = Here => d.id[2] <= revs.revision
      BY <1>6 DEF CalculationsFit
    <3> QED
      BY <3>1, <3>2 DEF CalculationsFit
  <2>3. CASE cs = f.calculations \cup q.calculations
    BY <1>8, <2>1, <2>3
  <2>4. CASE cs = again
    <3>1. PICK c \in f.calculations, d \in q.calculations : e = [c EXCEPT !.id = d.id]
      BY <1>8, <2>4
    <3> QED
      BY <2>2, <3>1
  <2> QED
    BY <1>4, <2>3, <2>4
<1>9. p \in PayloadsFrom(Generations) /\ p.calculations = cs /\ p.positions = f.positions
  <2>1. cs \in SUBSET Results
    BY <1>8
  <2> QED
    BY <1>2, <1>4, <2>1 DEF PayloadsFrom, Results, Identities
<1> QED
  BY <1>8, <1>9 DEF PayloadHolds

\* What a payload says of itself it says of every later state.
LEMMA PayloadsStillHold ==
  ASSUME revs \in Revisions, Renumber, NEW p, PayloadHolds(p)
  PROVE  PayloadHolds(p)'
<1>1. ASSUME NEW c \in p.calculations
      PROVE  CalculationsFit({c}, revs'.revision, revs'.subset, cache'.subset)
  <2>1. {c} \in SUBSET Results
    BY DEF PayloadHolds, PayloadsFrom, Results, Identities
  <2>2. CalculationsFit({c}, revs.revision, revs.subset, cache.subset)
    BY DEF PayloadHolds
  <2> QED
    BY <2>1, <2>2, NextRevision, CalculationsStillFit
<1> QED
  BY <1>1 DEF PayloadHolds

\* Together they fit, once validate_results has seen that no identity is there twice.
LEMMA PayloadCalculationsFit ==
  ASSUME revs \in Revisions, NEW p, PayloadHolds(p), WithinBounds(p)
  PROVE  /\ p.calculations \in SUBSET Results
         /\ CalculationsFit(p.calculations, revs.revision + 1, revs.subset, cache.subset)
<1>1. p.calculations \in SUBSET Results
  BY DEF PayloadHolds, PayloadsFrom, Results, Identities
<1>2. \A c \in p.calculations : CalculationsFit({c}, revs.revision, revs.subset, cache.subset)
  BY DEF PayloadHolds
<1>3. CalculationsFit(p.calculations, revs.revision, revs.subset, cache.subset)
  BY <1>2 DEF CalculationsFit, WithinBounds
<1> QED
  BY <1>1, <1>3, NextRevision

-----------------------------------------------------------------------------
(* The restored view: the types, then the members in their order. *)

LEMMA EntryScreenFacts ==
  /\ EntryScreen \in ViewRecords /\ Coherent(EntryScreen)
  /\ Loaded(EntryScreen) = {} /\ RelationsOf(EntryScreen) = {}
  /\ EntryScreen.entries = TypeOrder /\ EntryScreen.tombstones = 0
  /\ EntryScreen.next = Len(EntryScreen.entries) + 1
<1>1. /\ EntryScreen.entries = TypeOrder /\ EntryScreen.tombstones = 0
      /\ EntryScreen.next = TypeCount + 1
      /\ EntryScreen.node_slot = [n \in Nodes |-> NoSlot]
      /\ EntryScreen.edges = {[id |-> NoRelation, src |-> q[1], dst |-> q[2]] : q \in MetaLinks}
  BY DEF EntryScreen
<1>2. Loaded(EntryScreen) = {}
  BY <1>1 DEF Loaded
<1>3. RelationsOf(EntryScreen) = {}
  BY <1>1 DEF RelationsOf
<1> QED
  BY <1>1, <1>2, <1>3, EntryScreenCoherent DEF TypeCount

LEMMA MembersOrder ==
  ASSUME NEW p, p.members \in Seq(Nodes), MembersResolve(p)
  PROVE  /\ NamedBy(p) \in SUBSET Nodes
         /\ p.members \in Orders(NamedBy(p))
         /\ Cardinality(NamedBy(p)) = Len(p.members)
<1> DEFINE n == Len(p.members)
           S == NamedBy(p)
<1>1. n \in Nat /\ p.members \in [1..n -> Nodes]
  BY LenProperties
<1>2. S \in SUBSET Nodes
  BY <1>1 DEF NamedBy
<1>3. p.members \in [1..n -> S] /\ \A x \in S : \E i \in 1..n : p.members[i] = x
  BY <1>1 DEF NamedBy
<1>4. \A i, j \in 1..n : p.members[i] = p.members[j] => i = j
  BY DEF MembersResolve
<1>5. p.members \in Surjection(1..n, S) /\ p.members \in Injection(1..n, S)
  BY <1>3, <1>4 DEF Surjection, Injection, IsInjective
<1>6. IsFiniteSet(1..n) /\ Cardinality(1..n) = n
  <2>1. \A k \in Nat : IsFiniteSet(1..k) /\ Cardinality(1..k) = k
    BY FS_Interval
  <2> QED
    BY <1>1, <2>1
<1>7. Cardinality(S) = n
  BY <1>5, <1>6, FS_Surjection
<1>8. p.members \in Orders(S)
  BY <1>3, <1>4, <1>7 DEF Orders
<1> QED
  BY <1>2, <1>7, <1>8

\* v is the view of this payload.
Restored(p, v) ==
  /\ Sound(v)
  /\ Slots(v) = 1..(TypeCount + Len(p.members))
  /\ \A i \in 1..TypeCount : v.entries[i] = TypeOrder[i]
  /\ \A i \in 1..Len(p.members) : v.entries[TypeCount + i] = p.members[i]
  /\ RelationsOf(v) = p.relations
  /\ Loaded(v) = NamedBy(p)

LEMMA FreshView ==
  ASSUME NEW S \in SUBSET Nodes, NEW added \in Orders(S),
         NEW w, w = InternNodes(EntryScreen, added)
  PROVE  /\ w \in ViewRecords /\ Coherent(w) /\ Loaded(w) = S
         /\ w.edges = EntryScreen.edges
<1>1. PICK e : e = EntryScreen
  OBVIOUS
<1>2. e \in ViewRecords /\ Coherent(e) /\ Loaded(e) = {}
  BY <1>1, EntryScreenFacts
<1>3. S \cap Loaded(e) = {} /\ w = InternNodes(e, added)
  BY <1>1, <1>2
<1>4. w \in ViewRecords /\ Coherent(w) /\ w.edges = e.edges
  BY <1>2, <1>3, OrdersNameAll, InternNodesCoherent
<1>5. Loaded(w) = Loaded(e) \cup S
  BY <1>2, <1>3, OrdersNameAll, InternNodesCoherent
<1>6. Loaded(w) = S
  BY <1>2, <1>5
<1> QED
  BY <1>1, <1>4, <1>6

LEMMA RestoredViewHolds ==
  ASSUME NEW p \in PayloadsFrom(Generations), Valid(p), NEW v, v = RestoredView(p)
  PROVE  Restored(p, v)
<1> DEFINE n == Len(p.members)
<1>1. p.members \in Seq(Nodes) /\ p.relations \in SUBSET Relations /\ n \in Nat
  BY LenProperties DEF PayloadsFrom
<1>2. /\ n <= MaxLoadedNodes /\ Cardinality(p.relations) <= MaxLoadedEdges
      /\ MembersResolve(p)
  BY DEF Valid, WithinBounds
<1>3. PICK S \in SUBSET Nodes :
        S = NamedBy(p) /\ p.members \in Orders(S) /\ Cardinality(S) = n
  BY <1>1, <1>2, MembersOrder
<1>4. \A x \in S : \E i \in 1..n : p.members[i] = x
  BY <1>3 DEF NamedBy
<1>5. PICK w : w = InternNodes(EntryScreen, p.members)
  OBVIOUS
<1>6. /\ w \in ViewRecords /\ Coherent(w) /\ Loaded(w) = S
      /\ w.edges = EntryScreen.edges
  BY <1>3, <1>5, FreshView
<1>7. Interned(EntryScreen, w, S, p.members, Len(EntryScreen.entries), n)
  BY <1>3, <1>4, <1>5, EntryScreenFacts, InternNodesFields
<1>8. v = AddEdges(w, p.relations)
  BY <1>5 DEF RestoredView
<1>9. /\ v \in ViewRecords /\ Coherent(v) /\ Loaded(v) = S /\ v.entries = w.entries
      /\ RelationsOf(v) = RelationsOf(w) \cup Resolvable(w, p.relations)
  BY <1>1, <1>6, <1>8, AddEdgesCoherent
<1>10. v.tombstones = 0
  <2>1. w.tombstones = 0
    BY <1>7, EntryScreenFacts DEF Interned
  <2> QED
    BY <1>6, <1>8, <2>1 DEF AddEdges, ViewRecords
<1>11. RelationsOf(v) = p.relations
  <2>1. RelationsOf(w) = {}
    BY <1>6, EntryScreenFacts DEF RelationsOf
  <2>2. Resolvable(w, p.relations) = p.relations
    BY <1>2, <1>3, <1>6 DEF Resolvable, MembersResolve
  <2> QED
    BY <1>9, <2>1, <2>2
<1>12. Len(EntryScreen.entries) = TypeCount
  BY EntryScreenFacts DEF TypeCount
<1>13. /\ Slots(w) = 1..(TypeCount + n)
       /\ \A s \in 1..TypeCount : w.entries[s] = TypeOrder[s]
       /\ \A i \in 1..n : w.entries[TypeCount + i] = p.members[i]
  BY <1>7, <1>12, EntryScreenFacts DEF Interned
<1>14. Sound(v)
  <2>1. WithinLimits(v)
    BY <1>2, <1>3, <1>9, <1>11 DEF WithinLimits
  <2>2. ~ShouldCompact(v)
    BY <1>9, <1>10, ViewFacts, FullViewStays
  <2> QED
    BY <1>9, <2>1, <2>2 DEF Sound
<1> QED
  BY <1>3, <1>9, <1>11, <1>13, <1>14 DEF Restored, Slots

\* What is on screen after a restore is what the payload names, and the types.
LEMMA RestoredScreen ==
  ASSUME NEW p \in PayloadsFrom(Generations), NEW v, Restored(p, v)
  PROVE  /\ v \in ViewRecords /\ v.entries \in [Slots(v) -> Entry]
         /\ LiveSlots(v) = Slots(v)
         /\ Referable(v) = Types \cup NamedBy(p)
         /\ \A s \in Slots(v) : v.entries[s] \in Types \cup NamedBy(p)
         /\ \A x \in Types \cup NamedBy(p) : \E s \in Slots(v) : v.entries[s] = x
<1> DEFINE n == Len(p.members)
<1>1. /\ v \in ViewRecords /\ v.entries \in [Slots(v) -> Entry]
      /\ Referable(v) = Types \cup NamedBy(p)
  BY ViewFacts DEF Restored, Sound, Referable
<1>2. /\ n \in Nat /\ TypeCount \in Nat /\ p.members \in [1..n -> Nodes]
      /\ Slots(v) = 1..(TypeCount + n)
      /\ \A i \in 1..TypeCount : v.entries[i] = TypeOrder[i]
      /\ \A i \in 1..n : v.entries[TypeCount + i] = p.members[i]
  BY LenProperties, TypeFacts DEF PayloadsFrom, Restored
<1>3. ASSUME NEW s \in Slots(v) PROVE v.entries[s] \in Types \cup NamedBy(p)
  <2>1. CASE s <= TypeCount
    <3>1. s \in 1..TypeCount /\ v.entries[s] = TypeOrder[s]
      BY <1>2, <2>1
    <3> QED
      BY <3>1, TypeFacts
  <2>2. CASE ~(s <= TypeCount)
    <3>1. s - TypeCount \in 1..n /\ TypeCount + (s - TypeCount) = s
      BY <1>2, <2>2
    <3>2. v.entries[s] = p.members[s - TypeCount]
      BY <1>2, <3>1
    <3> QED
      BY <3>1, <3>2 DEF NamedBy
  <2> QED
    BY <2>1, <2>2
<1>4. ASSUME NEW x \in Types \cup NamedBy(p) PROVE \E s \in Slots(v) : v.entries[s] = x
  <2>1. CASE x \in Types
    <3>1. PICK i \in 1..TypeCount : TypeOrder[i] = x
      BY <2>1 DEF Types
    <3> QED
      BY <1>2, <3>1
  <2>2. CASE x \in NamedBy(p)
    <3>1. PICK i \in 1..n : p.members[i] = x
      BY <2>2 DEF NamedBy
    <3>2. TypeCount + i \in Slots(v)
      BY <1>2, <3>1
    <3> QED
      BY <1>2, <3>1, <3>2
  <2> QED
    BY <2>1, <2>2
<1>5. LiveSlots(v) = Slots(v)
  <2>1. Tombstone \notin Types \cup NamedBy(p)
    BY <1>2, EntriesAssumption DEF NamedBy
  <2> QED
    BY <1>3, <2>1 DEF LiveSlots
<1> QED
  BY <1>1, <1>3, <1>4, <1>5

LEMMA RestoredMembers ==
  ASSUME NEW p \in PayloadsFrom(Generations), NEW v, Restored(p, v)
  PROVE  Members(v) = p.members
<1>1. PICK n, k : n = Len(p.members) /\ k = TypeCount
  OBVIOUS
<1>2. /\ n \in Nat /\ k \in Nat /\ p.members \in [1..n -> Nodes]
      /\ Slots(v) = 1..(k + n)
      /\ \A i \in 1..k : v.entries[i] \in Types
      /\ \A i \in 1..n : v.entries[k + i] = p.members[i]
  BY <1>1, LenProperties, TypeFacts DEF PayloadsFrom, Restored
<1>3. NodeSlots(v) = (k + 1)..(k + n)
  <2>1. ASSUME NEW s \in Slots(v) PROVE v.entries[s] \in Nodes <=> s \in (k + 1)..(k + n)
    <3>1. CASE s <= k
      <4>1. v.entries[s] \in Types /\ s \notin (k + 1)..(k + n)
        BY <1>2, <3>1
      <4> QED
        BY <4>1, EntriesAssumption
    <3>2. CASE ~(s <= k)
      <4>1. s - k \in 1..n /\ k + (s - k) = s /\ s \in (k + 1)..(k + n)
        BY <1>2, <3>2
      <4>2. v.entries[s] = p.members[s - k]
        BY <1>2, <4>1
      <4> QED
        BY <1>2, <4>1, <4>2
    <3> QED
      BY <3>1, <3>2
  <2>2. \A s \in (k + 1)..(k + n) : s \in Slots(v)
    BY <1>2
  <2> QED
    BY <2>1, <2>2 DEF NodeSlots
<1>4. Cardinality(NodeSlots(v)) = n
  <2>1. \A a, b \in Int : Cardinality(a..b) = IF a > b THEN 0 ELSE b - a + 1
    BY FS_Interval
  <2>2. Cardinality((k + 1)..(k + n)) = IF k + 1 > k + n THEN 0 ELSE (k + n) - (k + 1) + 1
    <3>1. k + 1 \in Int /\ k + n \in Int
      BY <1>2
    <3> QED
      BY <2>1, <3>1
  <2> QED
    BY <1>2, <1>3, <2>2
<1>5. ASSUME NEW s \in NodeSlots(v) PROVE Cardinality(NodesUpTo(v, s)) = s - k
  <2>1. NodesUpTo(v, s) = (k + 1)..s /\ s \in Nat /\ k + 1 <= s
    BY <1>2, <1>3 DEF NodesUpTo
  <2>2. \A a, b \in Int : Cardinality(a..b) = IF a > b THEN 0 ELSE b - a + 1
    BY FS_Interval
  <2>3. Cardinality((k + 1)..s) = IF k + 1 > s THEN 0 ELSE s - (k + 1) + 1
    BY <1>2, <2>1, <2>2
  <2> QED
    BY <1>2, <2>1, <2>3
<1> DEFINE at(i) == CHOOSE s \in NodeSlots(v) : Cardinality(NodesUpTo(v, s)) = i
<1>6. ASSUME NEW i \in 1..n PROVE at(i) = k + i
  <2>1. k + i \in NodeSlots(v) /\ Cardinality(NodesUpTo(v, k + i)) = i
    BY <1>2, <1>3, <1>5
  <2>2. ASSUME NEW s \in NodeSlots(v), Cardinality(NodesUpTo(v, s)) = i
        PROVE  s = k + i
    <3>1. s \in Int /\ s - k = i
      BY <1>2, <1>3, <1>5, <2>2
    <3> QED
      BY <1>2, <3>1
  <2> QED
    BY <2>1, <2>2
<1>7. Members(v) = [i \in 1..n |-> v.entries[at(i)]]
  BY <1>4 DEF Members
<1> HIDE DEF at
<1>8. \A i \in 1..n : v.entries[at(i)] = p.members[i]
  BY <1>2, <1>6
<1> QED
  BY <1>2, <1>7, <1>8

\* The arrangement is the saved one, laid down by slot.
LEMMA RestoredArrangement ==
  ASSUME NEW p, PayloadHolds(p), Valid(p), NEW v, Restored(p, v)
  PROVE  /\ p.kernel = Simulation => RestoredLayout(p, v) = {} /\ p.positions = {}
         /\ p.kernel # Simulation =>
              /\ RestoredLayout(p, v) = {[kernel |-> p.kernel, placed |-> v.entries, ms |-> 0]}
              /\ \A q : q \in p.positions <=>
                   \E s \in Slots(v) : q = <<v.entries[s], v.entries[s]>>
<1>1. /\ p \in PayloadsFrom(Generations) /\ \A q \in p.positions : q[1] = q[2]
      /\ PositionsCover(p)
  BY DEF PayloadHolds, Valid
<1>2. CASE p.kernel = Simulation
  BY <1>1, <1>2 DEF RestoredLayout, PositionsCover
<1>3. CASE p.kernel # Simulation
  <2>1. /\ v.entries \in [Slots(v) -> Entry]
        /\ \A s \in Slots(v) : v.entries[s] \in Types \cup NamedBy(p)
        /\ \A x \in Types \cup NamedBy(p) : \E s \in Slots(v) : v.entries[s] = x
    BY <1>1, RestoredScreen
  <2>2. {q[1] : q \in p.positions} = Types \cup NamedBy(p)
    BY <1>1, <1>3 DEF PositionsCover
  <2>3. ASSUME NEW s \in Slots(v) PROVE PlacedAt(p, v.entries[s]) = v.entries[s]
    <3>1. \E q \in p.positions : q[1] = v.entries[s]
      BY <2>1, <2>2
    <3> QED
      BY <1>1, <3>1 DEF PlacedAt
  <2>4. [s \in Slots(v) |-> PlacedAt(p, v.entries[s])] = v.entries
    BY <2>1, <2>3
  <2>5. \A q \in p.positions : q = <<q[1], q[2]>>
    BY <1>1 DEF PayloadsFrom
  <2>6. ASSUME NEW q
        PROVE  q \in p.positions <=> \E s \in Slots(v) : q = <<v.entries[s], v.entries[s]>>
    <3>1. ASSUME q \in p.positions
          PROVE  \E s \in Slots(v) : q = <<v.entries[s], v.entries[s]>>
      <4>1. q = <<q[1], q[1]>> /\ q[1] \in Types \cup NamedBy(p)
        BY <1>1, <2>2, <2>5, <3>1
      <4> QED
        BY <2>1, <4>1
    <3>2. ASSUME NEW s \in Slots(v), q = <<v.entries[s], v.entries[s]>>
          PROVE  q \in p.positions
      <4>1. PICK r \in p.positions : r[1] = v.entries[s]
        BY <2>1, <2>2
      <4>2. r = <<v.entries[s], v.entries[s]>>
        BY <1>1, <2>5, <4>1
      <4> QED
        BY <3>2, <4>1, <4>2
    <3> QED
      BY <3>1, <3>2
  <2> QED
    BY <1>3, <2>4, <2>6 DEF RestoredLayout
<1> QED
  BY <1>2, <1>3

-----------------------------------------------------------------------------
(* The restore is a commit like another, and gives the payload back. *)

\* What the restore asks finish_preparation for: nothing of it can be dropped.
LEMMA RestoreAsks ==
  ASSUME SharedIInv, NEW p, PayloadHolds(p), Valid(p), Restored(p, view'),
         NEW asked, asked = RestoredSettings(p, view')
  PROVE  /\ Asks(asked, TRUE) /\ Sound(view')
         /\ asked.highlighted \cup asked.selected \subseteq Referable(view')
         /\ asked.predicates = p.predicates /\ asked.appearance = p.appearance
         /\ asked.caption = p.caption /\ asked.highlighted = p.highlighted
         /\ asked.selected = p.selected /\ asked.kernel = p.kernel
         /\ asked.layout = RestoredLayout(p, view') /\ asked.calculations = p.calculations
<1>1. PICK layout : layout = RestoredLayout(p, view')
  OBVIOUS
<1>2. asked = [predicates |-> p.predicates, appearance |-> p.appearance,
               caption |-> p.caption, highlighted |-> p.highlighted,
               selected |-> p.selected, kernel |-> p.kernel,
               layout |-> layout, calculations |-> p.calculations]
  BY <1>1 DEF RestoredSettings
<1>3. p \in PayloadsFrom(Generations) /\ WithinBounds(p) /\ Sound(view')
  BY DEF PayloadHolds, Valid, Restored
<1>4. /\ p.calculations \in SUBSET Results
      /\ CalculationsFit(p.calculations, revs.revision + 1, revs.subset, cache.subset)
  BY <1>3, StateFacts, PayloadCalculationsFit
<1>5. /\ p.kernel = Simulation => layout = {}
      /\ p.kernel # Simulation =>
           layout = {[kernel |-> p.kernel, placed |-> view'.entries, ms |-> 0]}
  BY <1>1, RestoredArrangement
<1>6. /\ p.predicates \in PredicateLists /\ p.appearance \in Appearances
      /\ p.caption \in Captions /\ p.highlighted \in SUBSET Refs
      /\ p.selected \in SUBSET Refs /\ p.kernel \in Kernels
  BY <1>3 DEF PayloadsFrom, PredicateLists, Identities, Refs, Kernels
<1>7. /\ layout \in SUBSET Arrangements
      /\ p.kernel = Simulation <=> layout = {}
      /\ \A l \in layout : l.kernel = p.kernel /\ l.placed = view'.entries
  <2>1. view'.entries \in Seq(Entry)
    BY <1>3, ViewFacts DEF Sound
  <2>2. CASE p.kernel = Simulation
    BY <1>5, <2>2
  <2>3. CASE p.kernel # Simulation
    <3>1. PICK l : l = [kernel |-> p.kernel, placed |-> view'.entries, ms |-> 0]
      OBVIOUS
    <3>2. l \in Arrangements /\ l.kernel = p.kernel /\ l.placed = view'.entries
      BY <1>6, <2>1, <2>3, <3>1 DEF Arrangements, Kernels
    <3>3. layout = {l}
      BY <1>5, <2>3, <3>1
    <3> QED
      BY <2>3, <3>2, <3>3
  <2> QED
    BY <2>2, <2>3
<1>8. /\ asked \in SettingsRecords
      /\ asked.predicates = p.predicates /\ asked.appearance = p.appearance
      /\ asked.caption = p.caption /\ asked.highlighted = p.highlighted
      /\ asked.selected = p.selected /\ asked.kernel = p.kernel
      /\ asked.layout = layout /\ asked.calculations = p.calculations
  BY <1>2, <1>4, <1>6, <1>7 DEF SettingsRecords
<1>9. Asks(asked, TRUE)
  BY <1>4, <1>7, <1>8 DEF Asks
<1>10. p.highlighted \cup p.selected \subseteq Referable(view')
  BY <1>3, RestoredScreen DEF Valid
<1> QED
  BY <1>1, <1>3, <1>8, <1>9, <1>10

LEMMA RestoreBookmarkCommits ==
  ASSUME SharedIInv, NEW p, PayloadHolds(p), NEW name, RestoreBookmark(p, name)
  PROVE  /\ \E a, l, r : Commits(a, l, r)
         /\ PayloadOf(view', settings', settings'.selected) = p
<1>1. PICK asked : asked = RestoredSettings(p, view')
  OBVIOUS
<1>2. /\ Valid(p) /\ view' = RestoredView(p) /\ Prepare(asked, TRUE) /\ Recover(TRUE)
      /\ Renumber /\ Settle(asked, TRUE) /\ event'.restored = {}
  BY <1>1 DEF RestoreBookmark, Prepare, Committed
<1>3. p \in PayloadsFrom(Generations)
  BY DEF PayloadHolds
<1>4. Restored(p, view')
  BY <1>2, <1>3, RestoredViewHolds
<1>5. /\ Asks(asked, TRUE) /\ Sound(view')
      /\ asked.highlighted \cup asked.selected \subseteq Referable(view')
      /\ asked.predicates = p.predicates /\ asked.appearance = p.appearance
      /\ asked.caption = p.caption /\ asked.highlighted = p.highlighted
      /\ asked.selected = p.selected /\ asked.kernel = p.kernel
      /\ asked.layout = RestoredLayout(p, view') /\ asked.calculations = p.calculations
  BY <1>1, <1>2, <1>4, RestoreAsks
<1>6. MarkerHolds'
  <2>1. revs'.content \in Nat
    BY <1>2, StateFacts, RenumberFacts DEF Revisions
  <2>2. CASE name = NoMarker
    BY <2>2 DEF RestoreBookmark, MarkerHolds
  <2>3. CASE name # NoMarker
    <3>1. saved' = [bookmark |-> name, content |-> revs'.content, dirty |-> FALSE,
                    selected |-> settings'.selected, was |-> Content(view', settings')]
      BY <2>3 DEF RestoreBookmark
    <3>2. /\ saved'.content = revs'.content /\ saved'.was = Content(view', settings')
          /\ saved'.bookmark = name /\ saved'.dirty = FALSE
          /\ saved'.selected = settings'.selected
      BY <3>1
    <3>3. IsMarker(saved')
      BY <3>1, <3>2 DEF IsMarker
    <3> QED
      BY <2>1, <3>2, <3>3 DEF MarkerHolds
  <2> QED
    BY <2>2, <2>3
<1>7. Commits(asked, TRUE, TRUE)
  BY <1>2, <1>5, <1>6 DEF Commits
<1>8. PICK t : t = settings'
  OBVIOUS
<1>9. /\ t.predicates = p.predicates /\ t.appearance = p.appearance
      /\ t.caption = p.caption /\ t.calculations = p.calculations
      /\ t.highlighted = p.highlighted /\ t.selected = p.selected
      /\ t.kernel = p.kernel /\ t.layout = RestoredLayout(p, view')
  <2>1. asked \in SettingsRecords
    BY <1>5 DEF Asks
  <2>2. /\ t.predicates = asked.predicates /\ t.appearance = asked.appearance
        /\ t.caption = asked.caption /\ t.calculations = asked.calculations
        /\ t.highlighted = asked.highlighted \cap Referable(view')
        /\ t.selected = asked.selected \cap Referable(view')
        /\ t.kernel = asked.kernel /\ t.layout = asked.layout
    BY <1>2, <1>8, <2>1, SettleFacts
  <2> QED
    BY <1>5, <2>2
<1>10. Members(view') = p.members /\ RelationsOf(view') = p.relations
  BY <1>3, <1>4, RestoredMembers DEF Restored
<1>11. UNION {Positions(view', l) : l \in t.layout} = p.positions
  <2>1. /\ p.kernel = Simulation => t.layout = {} /\ p.positions = {}
        /\ p.kernel # Simulation =>
             /\ t.layout = {[kernel |-> p.kernel, placed |-> view'.entries, ms |-> 0]}
             /\ \A q : q \in p.positions <=>
                  \E s \in Slots(view') : q = <<view'.entries[s], view'.entries[s]>>
    BY <1>2, <1>4, <1>9, RestoredArrangement
  <2>2. CASE p.kernel = Simulation
    BY <2>1, <2>2
  <2>3. CASE p.kernel # Simulation
    <3>1. PICK l : l = [kernel |-> p.kernel, placed |-> view'.entries, ms |-> 0]
      OBVIOUS
    <3>2. UNION {Positions(view', m) : m \in t.layout} = Positions(view', l)
      BY <2>1, <2>3, <3>1
    <3>3. LiveSlots(view') = Slots(view') /\ l.placed = view'.entries
      BY <1>3, <1>4, <3>1, RestoredScreen
    <3>4. Positions(view', l) = p.positions
      BY <2>1, <2>3, <3>3 DEF Positions
    <3> QED
      BY <3>2, <3>4
  <2> QED
    BY <2>2, <2>3
<1>12. PICK positions : positions = UNION {Positions(view', l) : l \in t.layout}
  OBVIOUS
<1>13. PayloadOf(view', t, t.selected)
         = [members |-> Members(view'), relations |-> RelationsOf(view'),
            predicates |-> t.predicates, appearance |-> t.appearance,
            caption |-> t.caption, highlighted |-> t.highlighted, selected |-> t.selected,
            kernel |-> t.kernel, positions |-> positions, calculations |-> t.calculations]
  BY <1>12 DEF PayloadOf
<1>14. PayloadOf(view', t, t.selected)
         = [members |-> p.members, relations |-> p.relations,
            predicates |-> p.predicates, appearance |-> p.appearance,
            caption |-> p.caption, highlighted |-> p.highlighted, selected |-> p.selected,
            kernel |-> p.kernel, positions |-> p.positions, calculations |-> p.calculations]
  BY <1>9, <1>10, <1>11, <1>12, <1>13
<1>15. PayloadOf(view', t, t.selected) = p
  BY <1>3, <1>14 DEF PayloadsFrom
<1> QED
  BY <1>7, <1>8, <1>15

-----------------------------------------------------------------------------
(* The invariant, with saved views captured and brought back. *)

LEMMA BookmarkInitIInv == BookmarkInit => BookmarkIInv
<1> SUFFICES ASSUME BookmarkInit PROVE BookmarkIInv
  OBVIOUS
<1>1. SharedIInv
  BY SharedInitIInv DEF BookmarkInit
<1>2. payloads = {} /\ brought = {}
  BY DEF BookmarkInit
<1>3. \A p \in payloads \cup Foreign : PayloadHolds(p)
  BY <1>2, ForeignHolds
<1> QED
  BY <1>1, <1>2, <1>3 DEF BookmarkIInv, RestoresWhatWasSaved

\* After any commit, the payloads still hold.
LEMMA CommitKeepsPayloads ==
  ASSUME BookmarkIInv, payloads' = payloads, NEW a, NEW l, NEW r, Commits(a, l, r)
  PROVE  SharedIInv' /\ \A p \in payloads' \cup Foreign : PayloadHolds(p)'
<1>1. SharedIInv' /\ Renumber /\ revs \in Revisions
  BY CommitKeepsSharedIInv DEF BookmarkIInv, SharedIInv, TypesHold, Commits, Prepare
<1>2. ASSUME NEW p \in payloads' \cup Foreign PROVE PayloadHolds(p)'
  <2>1. PayloadHolds(p)
    BY <1>2 DEF BookmarkIInv
  <2> QED
    BY <1>1, <2>1, PayloadsStillHold
<1> QED
  BY <1>1, <1>2

LEMMA CaptureKeepsPayloads ==
  ASSUME BookmarkIInv, CaptureBookmark
  PROVE  BookmarkIInv'
<1>1. PICK chosen \in Picks \cup {settings.selected} :
        payloads' = payloads \cup {PayloadOf(view, settings, chosen)}
  BY DEF CaptureBookmark
<1>2. /\ view' = view /\ settings' = settings /\ cache' = cache /\ revs' = revs
      /\ brought' = brought /\ UNCHANGED sharedVars
  BY DEF CaptureBookmark, sharedVars
<1>3. SharedIInv /\ SharedIInv'
  BY <1>2, SharedStays DEF BookmarkIInv
<1>4. chosen \in SUBSET Refs
  BY <1>3, PicksAreRefs, StateFacts DEF SettingsRecords
<1>5. \A p \in payloads' \cup Foreign : PayloadHolds(p)
  BY <1>1, <1>3, <1>4, CaptureHolds DEF BookmarkIInv
<1>6. \A p \in payloads' \cup Foreign : PayloadHolds(p)'
  BY <1>2, <1>5 DEF PayloadHolds
<1>7. RestoresWhatWasSaved'
  BY <1>2 DEF BookmarkIInv, RestoresWhatWasSaved, PayloadOf
<1> QED
  BY <1>3, <1>6, <1>7 DEF BookmarkIInv

LEMMA BookmarkNextIInv == BookmarkIInv /\ [BookmarkNext]_bookmarkVars => BookmarkIInv'
<1> SUFFICES ASSUME BookmarkIInv, [BookmarkNext]_bookmarkVars
             PROVE  BookmarkIInv'
  OBVIOUS
<1>1. SharedIInv
  BY DEF BookmarkIInv
<1>2. CASE SharedNext /\ UNCHANGED payloads /\ brought' = {}
  <2>1. SharedIInv' /\ \A p \in payloads' \cup Foreign : PayloadHolds(p)'
    BY <1>1, <1>2, EveryCommit, CommitKeepsPayloads
  <2>2. RestoresWhatWasSaved'
    BY <1>2 DEF RestoresWhatWasSaved
  <2> QED
    BY <2>1, <2>2 DEF BookmarkIInv
<1>3. CASE CaptureBookmark
  BY <1>3, CaptureKeepsPayloads
<1>4. ASSUME NEW p \in payloads \cup Foreign \cup PassedOn, NEW name, RestoreBookmark(p, name)
      PROVE  BookmarkIInv'
  <2>1. payloads' = payloads /\ brought' = {p} /\ PayloadHolds(p)
    BY <1>4, PassedOnHolds DEF RestoreBookmark, BookmarkIInv
  <2>2. /\ \E a, l, r : Commits(a, l, r)
        /\ PayloadOf(view', settings', settings'.selected) = p
    BY <1>1, <1>4, <2>1, RestoreBookmarkCommits
  <2>3. SharedIInv' /\ \A q \in payloads' \cup Foreign : PayloadHolds(q)'
    BY <2>1, <2>2, CommitKeepsPayloads
  <2>4. RestoresWhatWasSaved'
    BY <2>1, <2>2 DEF RestoresWhatWasSaved
  <2> QED
    BY <2>3, <2>4 DEF BookmarkIInv
<1>5. CASE UNCHANGED bookmarkVars
  <2>1. /\ view' = view /\ settings' = settings /\ cache' = cache /\ revs' = revs
        /\ payloads' = payloads /\ brought' = brought /\ UNCHANGED sharedVars
    BY <1>5 DEF bookmarkVars, sharedVars
  <2>2. SharedIInv'
    BY <1>1, <2>1, SharedStays
  <2>3. \A p \in payloads' \cup Foreign : PayloadHolds(p)'
    BY <2>1 DEF BookmarkIInv, PayloadHolds
  <2>4. RestoresWhatWasSaved'
    BY <2>1 DEF BookmarkIInv, RestoresWhatWasSaved, PayloadOf
  <2> QED
    BY <2>2, <2>3, <2>4 DEF BookmarkIInv
<1> QED
  BY <1>2, <1>3, <1>4, <1>5 DEF BookmarkNext

(***************************************************************************)
(* The exploration's inductive invariant holds with saved views captured   *)
(* here and saved views of other sessions restored over it.                *)
(***************************************************************************)
THEOREM BookmarkInvariant == BookmarkSpec => []BookmarkIInv
BY BookmarkInitIInv, BookmarkNextIInv, PTL DEF BookmarkSpec

(***************************************************************************)
(* What a restore brings back is what was saved, whatever was on screen:   *)
(* captured again, it gives the same payload (prepare_bookmark_restore).   *)
(***************************************************************************)
THEOREM BookmarkRestoresWhatWasSaved == BookmarkSpec => []RestoresWhatWasSaved
<1>1. BookmarkIInv => RestoresWhatWasSaved
  BY DEF BookmarkIInv
<1> QED
  BY <1>1, BookmarkInvariant, PTL

(***************************************************************************)
(* With payloads of other sessions too, nothing derived is stale, no result*)
(* of another session passes for one of the current subset, and a marker   *)
(* that says "saved" stands on what was saved.                             *)
(***************************************************************************)
THEOREM BookmarkKeepsPromises ==
  BookmarkSpec => [](NothingStale /\ CalculationsHonest /\ MarkerHonest)
<1>1. SharedIInv => NothingStale /\ CalculationsHonest /\ MarkerHonest
  BY DEF SharedIInv, StateFits, SettingsFit, LayoutFits, NothingStale, LayoutFitsView,
         ReferencesOnScreen, CalculationsFit, CalculationsHonest, MarkerHolds, MarkerHonest
<1>2. BookmarkIInv => SharedIInv
  BY DEF BookmarkIInv
<1> QED
  BY <1>1, <1>2, BookmarkInvariant, PTL
=============================================================================
