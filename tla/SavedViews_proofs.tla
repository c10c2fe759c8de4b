------------------------- MODULE SavedViews_proofs -------------------------
(***************************************************************************)
(* What saved views promise one session, for any number of jobs, names,    *)
(* explorations and revisions: a save stores what it captured, no view is  *)
(* lost unasked, and a clean marker names what the catalog holds.          *)
(*                                                                         *)
(* IInv relates the three places an exploration is kept in.  The record of *)
(* past contents ends with the live one, and whatever a save captured is   *)
(* in it under the stamp it took; the marker is dirty exactly when the     *)
(* content revision has moved from its own; and while jobs come one at a   *)
(* time, what a job has read or written is still in the catalog, so only   *)
(* a job that has yet to mark or clear can have left a clean marker        *)
(* behind it.                                                              *)
(***************************************************************************)
EXTENDS SavedViews, SequenceTheorems, TLAPS

Revisions == [revision : Nat, content : Nat]

Markers == [bookmark : Names, content : Nat, dirty : BOOLEAN]

Saves == [pc : {"captured", "stored"}, name : Names, replace : BOOLEAN,
          payload : Contents, content : Nat]
Deletes == [pc : {"deleting", "removed"}, name : Names]
Reads == [pc : {"got"}, name : Names, payload : Contents, expected : Int]
Restores == [pc : {"prepared"}, name : Names, payload : Contents, base : Nat]

TypesHold ==
  /\ content \in Contents
  /\ revs \in Revisions
  /\ marker \in Markers \cup {NoMarker}
  /\ catalog \in [Names -> Contents \cup {Absent}]
  /\ job \in [Jobs -> {Idle} \cup Saves \cup Deletes \cup Reads \cup Restores]
  /\ past \in Seq(Contents)
  /\ apart \in BOOLEAN

\* The record ends with what is on screen.
PastHolds ==
  /\ Len(past) = revs.content + 1
  /\ past[revs.content + 1] = content

\* A save carries what was on screen at its stamp.
CapturesHold ==
  \A j \in Jobs : job[j].pc \in {"captured", "stored"} =>
    /\ job[j].content <= revs.content
    /\ job[j].payload.work = past[job[j].content + 1].work

\* The marker is dirty exactly when its exploration is not on screen any more.
MarkerHolds ==
  marker # NoMarker =>
    /\ marker.content <= revs.content
    /\ (marker.dirty <=> marker.content # revs.content)

OneAtATime ==
  \A j, k \in Jobs : job[j] # Idle /\ job[k] # Idle => j = k

\* What a job read or wrote is what the catalog holds.
CatalogFollows ==
  \A j \in Jobs : job[j].pc \in {"stored", "got", "prepared"} =>
    catalog[job[j].name] = job[j].payload

\* A job that will mark or clear this name when it ends.
Closing(name) ==
  \E j \in Jobs : job[j].pc \in {"stored", "removed"} /\ job[j].name = name

MarkerNames == Clean => catalog[marker.bookmark] = content \/ Closing(marker.bookmark)

IInv ==
  /\ TypesHold
  /\ PastHolds
  /\ CapturesHold
  /\ MarkerHolds
  /\ apart => OneAtATime /\ CatalogFollows /\ MarkerNames

-----------------------------------------------------------------------------
(* What a job is, by where it is. *)

States == {Idle} \cup Saves \cup Deletes \cup Reads \cup Restores

LEMMA JobFacts ==
  ASSUME IInv, NEW j \in Jobs
  PROVE  /\ job[j] \in States
         /\ job[j].pc \in {"captured", "stored"} => job[j] \in Saves
         /\ job[j].pc \in {"deleting", "removed"} => job[j] \in Deletes
         /\ job[j].pc = "got" => job[j] \in Reads
         /\ job[j].pc = "prepared" => job[j] \in Restores
         /\ job[j] = Idle <=> job[j].pc = "idle"
BY DEF IInv, TypesHold, States, Idle, Saves, Deletes, Reads, Restores

LEMMA IdleFacts == Idle \in States /\ Idle.pc = "idle"
BY DEF Idle, States

-----------------------------------------------------------------------------
(* How the exploration moves. *)

\* The record of contents only grows, and an exploration that moves takes a revision.
Grows ==
  /\ content' \in Contents
  /\ revs' \in Revisions
  /\ past' \in Seq(Contents)
  /\ PastHolds'
  /\ revs.content <= revs'.content
  /\ \A i \in 0..revs.content : past'[i + 1] = past[i + 1]
  /\ revs'.content = revs.content => content' = content

LEMMA StillGrows ==
  ASSUME IInv, UNCHANGED <<content, revs, past>>
  PROVE  Grows
BY DEF IInv, TypesHold, PastHolds, Grows, Revisions

LEMMA BecomesGrows ==
  ASSUME IInv, NEW new \in Contents, NEW unseen \in BOOLEAN, Becomes(new, unseen)
  PROVE  Grows
<1> DEFINE moved == new # content \/ unseen
<1>1. /\ revs \in Revisions /\ revs.revision \in Nat /\ revs.content \in Nat
      /\ past \in Seq(Contents) /\ content \in Contents
      /\ Len(past) = revs.content + 1 /\ past[revs.content + 1] = content
  BY DEF IInv, TypesHold, PastHolds, Revisions
<1>2. /\ content' = new
      /\ revs' = [revision |-> revs.revision + 1,
                  content  |-> IF moved THEN revs.content + 1 ELSE revs.content]
      /\ past' = IF moved THEN Append(past, new) ELSE past
  BY DEF Becomes
<1>3. revs' \in Revisions
  BY <1>1, <1>2 DEF Revisions
<1>4. CASE moved
  <2>1. revs'.content = revs.content + 1 /\ past' = Append(past, new)
    BY <1>2, <1>4
  <2>2. /\ past' \in Seq(Contents) /\ Len(past') = Len(past) + 1
        /\ past'[Len(past) + 1] = new
        /\ \A i \in 1..Len(past) : past'[i] = past[i]
    BY <1>1, <2>1, AppendProperties
  <2>3. PastHolds'
    BY <1>1, <1>2, <2>1, <2>2 DEF PastHolds
  <2>4. \A i \in 0..revs.content : past'[i + 1] = past[i + 1]
    BY <1>1, <2>2
  <2> QED
    BY <1>1, <1>2, <1>3, <2>1, <2>2, <2>3, <2>4 DEF Grows
<1>5. CASE ~moved
  <2>1. revs'.content = revs.content /\ past' = past /\ content' = content
    BY <1>2, <1>5
  <2>2. PastHolds'
    BY <1>1, <2>1 DEF PastHolds
  <2> QED
    BY <1>1, <1>2, <1>3, <2>1, <2>2 DEF Grows
<1> QED
  BY <1>4, <1>5

\* Captures stay good as the record grows, and as their jobs go on.
LEMMA CapturesKept ==
  ASSUME IInv, Grows,
         \A j \in Jobs : job'[j].pc \in {"captured", "stored"} =>
           /\ job[j].pc \in {"captured", "stored"}
           /\ job'[j].content = job[j].content /\ job'[j].payload = job[j].payload
  PROVE  CapturesHold'
<1> SUFFICES ASSUME NEW j \in Jobs, job'[j].pc \in {"captured", "stored"}
             PROVE  /\ job'[j].content <= revs'.content
                    /\ job'[j].payload.work = past'[job'[j].content + 1].work
  BY DEF CapturesHold
<1>1. job[j] \in Saves /\ job[j].content \in Nat /\ revs.content \in Nat /\ revs'.content \in Nat
  BY JobFacts DEF Saves, IInv, TypesHold, Revisions, Grows
<1>2. /\ job[j].content <= revs.content
      /\ job[j].payload.work = past[job[j].content + 1].work
  BY DEF IInv, CapturesHold
<1>3. past'[job[j].content + 1] = past[job[j].content + 1]
  BY <1>1, <1>2 DEF Grows
<1>4. revs.content <= revs'.content
  BY DEF Grows
<1> QED
  BY <1>1, <1>2, <1>3, <1>4

-----------------------------------------------------------------------------
(* How the marker moves. *)

LEMMA RecolourFacts ==
  ASSUME IInv, Grows, marker' = Recolour(marker)
  PROVE  /\ marker' \in Markers \cup {NoMarker}
         /\ MarkerHolds'
         /\ Clean' => /\ Clean /\ marker'.bookmark = marker.bookmark
                      /\ content' = content
<1>1. /\ revs.content \in Nat /\ revs'.content \in Nat /\ revs.content <= revs'.content
      /\ revs'.content = revs.content => content' = content
  BY DEF IInv, TypesHold, Revisions, Grows
<1>2. CASE marker = NoMarker
  BY <1>2 DEF Recolour, MarkerHolds, Clean
<1>3. CASE marker # NoMarker
  <2>1. /\ marker \in Markers /\ marker.content \in Nat /\ marker.content <= revs.content
        /\ (marker.dirty <=> marker.content # revs.content)
    BY <1>3 DEF IInv, TypesHold, Markers, MarkerHolds
  <2>2. marker' = [marker EXCEPT !.dirty = marker.content # revs'.content]
    BY <1>3 DEF Recolour
  <2>3. /\ marker' \in Markers
        /\ marker'.bookmark = marker.bookmark /\ marker'.content = marker.content
        /\ (marker'.dirty <=> marker.content # revs'.content)
    BY <2>1, <2>2 DEF Markers
  <2>4. MarkerHolds'
    BY <1>1, <2>1, <2>3 DEF MarkerHolds
  <2>5. ASSUME Clean' PROVE Clean /\ content' = content
    <3>1. marker.content = revs'.content
      BY <2>3, <2>5 DEF Clean
    <3>2. revs'.content = revs.content
      BY <1>1, <2>1, <3>1
    <3> QED
      BY <1>1, <1>3, <2>1, <3>1, <3>2 DEF Clean
  <2> QED
    BY <2>3, <2>4, <2>5
<1> QED
  BY <1>2, <1>3

LEMMA UnmarkFacts ==
  ASSUME IInv, Grows, NEW name, marker' = Unmark(name)
  PROVE  /\ marker' \in Markers \cup {NoMarker}
         /\ MarkerHolds'
         /\ Clean' => /\ Clean /\ marker'.bookmark = marker.bookmark
                      /\ content' = content /\ marker.bookmark # name
<1>1. CASE marker # NoMarker /\ marker.bookmark = name
  BY <1>1 DEF Unmark, MarkerHolds, Clean
<1>2. CASE ~(marker # NoMarker /\ marker.bookmark = name)
  <2>1. marker' = Recolour(marker)
    BY <1>2 DEF Unmark
  <2> QED
    BY <1>2, <2>1, RecolourFacts DEF Clean
<1> QED
  BY <1>1, <1>2

LEMMA MarkFacts ==
  ASSUME Grows, NEW name \in Names, marker' = MarkerOn(name, revs'.content)
  PROVE  /\ marker' \in Markers
         /\ marker'.bookmark = name
         /\ MarkerHolds'
<1>1. marker' = [bookmark |-> name, content |-> revs'.content, dirty |-> FALSE]
  BY DEF MarkerOn
<1>2. revs'.content \in Nat
  BY DEF Grows, Revisions
<1>3. marker' \in Markers /\ marker'.bookmark = name
  BY <1>1, <1>2 DEF Markers
<1>4. marker'.content = revs'.content /\ ~marker'.dirty
  BY <1>1
<1>5. marker'.content <= revs'.content /\ (marker'.dirty <=> marker'.content # revs'.content)
  BY <1>1, <1>2, <1>4
<1> QED
  BY <1>3, <1>5 DEF MarkerHolds

-----------------------------------------------------------------------------
(* Jobs that come one at a time. *)

LEMMA StepAlone ==
  ASSUME IInv, NEW j \in Jobs, NEW state, Step(j, state)
  PROVE  /\ apart' \in BOOLEAN
         /\ job'[j] = state
         /\ \A k \in Jobs \ {j} : job'[k] = job[k]
         /\ apart' => /\ apart /\ OneAtATime'
                      /\ \A k \in Jobs \ {j} : job[k] = Idle /\ job'[k] = Idle
<1>1. job' = [job EXCEPT ![j] = state] /\ apart' = (apart /\ \A k \in Jobs \ {j} : job[k] = Idle)
  BY DEF Step
<1>2. apart' \in BOOLEAN
  BY <1>1 DEF IInv, TypesHold
<1>3. job'[j] = state /\ \A k \in Jobs \ {j} : job'[k] = job[k]
  BY <1>1 DEF IInv, TypesHold
<1>4. ASSUME apart' PROVE apart /\ \A k \in Jobs \ {j} : job[k] = Idle
  BY <1>1, <1>4
<1>5. ASSUME apart' PROVE OneAtATime'
  <2>1. \A k \in Jobs \ {j} : job'[k] = Idle
    BY <1>3, <1>4, <1>5
  <2> QED
    BY <2>1 DEF OneAtATime
<1> QED
  BY <1>2, <1>3, <1>4, <1>5

LEMMA InitIInv == Init => IInv
<1> SUFFICES ASSUME Init PROVE IInv
  OBVIOUS
<1>1. /\ content = Initial /\ Initial \in Contents
      /\ revs = [revision |-> 0, content |-> 0] /\ past = <<Initial>>
  BY SavedViewsAssumption DEF Init
<1>2. past \in Seq(Contents) /\ Len(past) = 1 /\ past[1] = Initial
  BY <1>1
<1>3. TypesHold
  BY <1>1, <1>2 DEF Init, TypesHold, Revisions
<1>4. PastHolds
  BY <1>1, <1>2 DEF PastHolds
<1>5. \A j \in Jobs : job[j] = Idle /\ job[j].pc = "idle"
  BY IdleFacts DEF Init
<1> QED
  BY <1>3, <1>4, <1>5 DEF Init, IInv, CapturesHold, MarkerHolds, OneAtATime, CatalogFollows, MarkerNames, Clean

-----------------------------------------------------------------------------
(* One lemma per step. *)

\* Any client's change, or a checkpoint restored, while jobs go on.
LEMMA ChangeStep ==
  ASSUME IInv, Change \/ RestoreHistory
  PROVE  IInv'
<1>1. PICK new \in Contents, unseen \in BOOLEAN :
        /\ Becomes(new, unseen)
        /\ marker' = Recolour(marker) \/ marker' = NoMarker
        /\ UNCHANGED <<catalog, job, apart>>
  BY DEF Change, RestoreHistory
<1>2. Grows
  BY <1>1, BecomesGrows
<1>3. /\ marker' \in Markers \cup {NoMarker}
      /\ MarkerHolds'
      /\ Clean' => Clean /\ marker'.bookmark = marker.bookmark /\ content' = content
  <2>1. CASE marker' = Recolour(marker)
    BY <1>2, <2>1, RecolourFacts
  <2>2. CASE marker' = NoMarker
    BY <2>2 DEF MarkerHolds, Clean
  <2> QED
    BY <1>1, <2>1, <2>2
<1>4. CapturesHold'
  BY <1>1, <1>2, CapturesKept
<1>5. TypesHold' /\ PastHolds'
  BY <1>1, <1>2, <1>3 DEF IInv, TypesHold, Grows
<1>6. ASSUME apart' PROVE OneAtATime' /\ CatalogFollows' /\ MarkerNames'
  <2>1. OneAtATime /\ CatalogFollows /\ MarkerNames
    BY <1>1, <1>6 DEF IInv
  <2>2. OneAtATime' /\ CatalogFollows'
    BY <1>1, <2>1 DEF OneAtATime, CatalogFollows
  <2>3. MarkerNames'
    BY <1>1, <1>3, <2>1 DEF MarkerNames, Closing
  <2> QED
    BY <2>2, <2>3
<1> QED
  BY <1>3, <1>4, <1>5, <1>6 DEF IInv

\* A job that goes to where its name is not at stake, and changes nothing.
LEMMA QuietStep ==
  ASSUME IInv, NEW j \in Jobs, NEW state \in States, Step(j, state),
         UNCHANGED <<content, revs, marker, catalog, past>>,
         job[j].pc \notin {"stored", "removed"}, state.pc \notin {"stored", "removed"},
         state.pc = "captured" => /\ state.content <= revs.content
                                  /\ state.payload.work = past[state.content + 1].work,
         apart /\ state.pc \in {"got", "prepared"} => catalog[state.name] = state.payload
  PROVE  IInv'
<1>1. /\ apart' \in BOOLEAN /\ job'[j] = state
      /\ \A k \in Jobs \ {j} : job'[k] = job[k]
      /\ apart' => /\ apart /\ OneAtATime'
                   /\ \A k \in Jobs \ {j} : job[k] = Idle /\ job'[k] = Idle
  BY StepAlone
<1>2. job' = [job EXCEPT ![j] = state]
  BY DEF Step
<1>3. TypesHold'
  BY <1>1, <1>2 DEF IInv, TypesHold, States
<1>4. PastHolds' /\ MarkerHolds'
  BY DEF IInv, PastHolds, MarkerHolds
<1>5. CapturesHold'
  BY <1>1 DEF IInv, CapturesHold
<1>6. ASSUME apart' PROVE OneAtATime' /\ CatalogFollows' /\ MarkerNames'
  <2>1. apart /\ CatalogFollows /\ MarkerNames
    BY <1>1, <1>6 DEF IInv
  <2>2. CatalogFollows'
    BY <1>1, <1>6, <2>1, IdleFacts DEF CatalogFollows
  <2>3. \A name : ~Closing(name)
    BY <1>1, <1>6, IdleFacts DEF Closing
  <2>4. MarkerNames'
    BY <2>1, <2>3 DEF MarkerNames, Clean
  <2> QED
    BY <1>1, <1>6, <2>2, <2>4
<1> QED
  BY <1>3, <1>4, <1>5, <1>6 DEF IInv

LEMMA CaptureStep ==
  ASSUME IInv, NEW j \in Jobs, Capture(j)
  PROVE  IInv'
<1>1. PICK name \in Names, replace \in BOOLEAN, selected \in Selections :
        Step(j, [pc |-> "captured", name |-> name, replace |-> replace,
                 payload |-> [content EXCEPT !.selected = selected],
                 content |-> revs.content])
  BY DEF Capture
<1> DEFINE payload == [content EXCEPT !.selected = selected]
           state == [pc |-> "captured", name |-> name, replace |-> replace,
                     payload |-> payload, content |-> revs.content]
<1>2. /\ content \in Contents /\ revs.content \in Nat
      /\ past[revs.content + 1] = content
  BY DEF IInv, TypesHold, Revisions, PastHolds
<1>3. payload \in Contents /\ payload.work = content.work
  BY <1>2 DEF Contents
<1>4. /\ state \in States /\ state.pc = "captured"
      /\ state.content = revs.content /\ state.payload = payload
  BY <1>2, <1>3 DEF States, Saves
<1>5. job[j].pc = "idle" /\ UNCHANGED <<content, revs, marker, catalog, past>>
  BY IdleFacts DEF Capture
<1>6. Step(j, state)
  BY <1>1
<1> HIDE DEF state, payload
<1>7. state.content <= revs.content /\ state.payload.work = past[state.content + 1].work
  BY <1>2, <1>3, <1>4
<1> QED
  BY <1>4, <1>5, <1>6, <1>7, QuietStep

\* A check, a reading, a preparation, a refusal.
LEMMA LookStep ==
  ASSUME IInv, NEW j \in Jobs,
         \/ CheckDelete(j) \/ StoreRefused(j) \/ RemoveRefused(j)
         \/ Get(j) \/ PrepareRestore(j) \/ RefuseRestore(j)
  PROVE  IInv'
<1>1. Idle \in States /\ Idle.pc = "idle"
  BY IdleFacts
<1>2. CASE CheckDelete(j)
  <2>1. PICK name \in Names : Step(j, [pc |-> "deleting", name |-> name])
    BY <1>2 DEF CheckDelete
  <2>2. [pc |-> "deleting", name |-> name] \in States
    BY DEF States, Deletes
  <2> QED
    BY <1>1, <1>2, <2>1, <2>2, QuietStep DEF CheckDelete
<1>3. CASE StoreRefused(j) \/ RemoveRefused(j) \/ RefuseRestore(j)
  BY <1>1, <1>3, QuietStep DEF StoreRefused, RemoveRefused, RefuseRestore
<1>4. CASE Get(j)
  <2>1. PICK name \in Held, expected \in {Anywhere, revs.revision} :
          Step(j, [pc |-> "got", name |-> name, payload |-> catalog[name],
                   expected |-> expected])
    BY <1>4 DEF Get
  <2> DEFINE state == [pc |-> "got", name |-> name, payload |-> catalog[name],
                       expected |-> expected]
  <2>2. name \in Names /\ catalog[name] \in Contents
    BY DEF Held, IInv, TypesHold
  <2>3. expected \in Int
    BY DEF Anywhere, IInv, TypesHold, Revisions
  <2>4. state \in States /\ state.pc = "got" /\ catalog[state.name] = state.payload
    BY <2>2, <2>3 DEF States, Reads
  <2> QED
    BY <1>1, <1>4, <2>1, <2>4, QuietStep DEF Get
<1>5. CASE PrepareRestore(j)
  <2>1. job[j] \in Reads /\ job[j].pc = "got"
    BY <1>5, JobFacts DEF PrepareRestore
  <2>2. CASE Meets(job[j].expected)
    <3> DEFINE state == [pc |-> "prepared", name |-> job[j].name,
                         payload |-> job[j].payload, base |-> revs.revision]
    <3>1. Step(j, state)
      BY <1>5, <2>2 DEF PrepareRestore
    <3>2. state \in States /\ state.pc = "prepared"
      BY <2>1 DEF States, Restores, Reads, IInv, TypesHold, Revisions
    <3>3. apart => catalog[state.name] = state.payload
      BY <2>1 DEF IInv, CatalogFollows
    <3> QED
      BY <1>5, <2>1, <3>1, <3>2, <3>3, QuietStep DEF PrepareRestore
  <2>3. CASE ~Meets(job[j].expected)
    BY <1>1, <1>5, <2>1, <2>3, QuietStep DEF PrepareRestore
  <2> QED
    BY <2>2, <2>3
<1> QED
  BY <1>2, <1>3, <1>4, <1>5

\* A write puts its payload under its name, and a marker of that name awaits its tail.
LEMMA WriteStep ==
  ASSUME IInv, NEW j \in Jobs, Store(j) \/ Remove(j)
  PROVE  IInv'
<1> DEFINE name == job[j].name
           place == IF Store(j) THEN "stored" ELSE "removed"
           state == [job[j] EXCEPT !.pc = place]
           entry == IF Store(j) THEN job[j].payload ELSE Absent
<1>1. /\ Step(j, state) /\ catalog' = [catalog EXCEPT ![name] = entry]
      /\ UNCHANGED <<content, revs, marker, past>>
  BY DEF Store, Remove, Payload
<1>2. /\ name \in Names /\ entry \in Contents \cup {Absent} /\ state \in States
      /\ state.pc = place /\ state.name = name
  <2>1. CASE Store(j)
    <3>1. job[j] \in Saves
      BY <2>1, JobFacts DEF Store
    <3> QED
      BY <2>1, <3>1 DEF Saves, States
  <2>2. CASE ~Store(j)
    <3>1. job[j] \in Deletes
      BY <2>2, JobFacts DEF Remove
    <3> QED
      BY <2>2, <3>1 DEF Deletes, States
  <2> QED
    BY <2>1, <2>2
<1>3. Store(j) => job[j].pc = "captured" /\ state.payload = job[j].payload /\ state.content = job[j].content
  <2> SUFFICES ASSUME Store(j)
               PROVE  job[j].pc = "captured" /\ state.payload = job[j].payload
                      /\ state.content = job[j].content
    OBVIOUS
  <2>1. job[j].pc = "captured" /\ job[j] \in Saves
    BY JobFacts DEF Store
  <2> QED
    BY <2>1 DEF Saves
<1>4. /\ apart' \in BOOLEAN /\ job'[j] = state
      /\ \A k \in Jobs \ {j} : job'[k] = job[k]
      /\ apart' => /\ apart /\ OneAtATime'
                   /\ \A k \in Jobs \ {j} : job[k] = Idle /\ job'[k] = Idle
  BY <1>1, StepAlone
<1>5. job' = [job EXCEPT ![j] = state]
  BY <1>1 DEF Step
<1> HIDE DEF name, entry, state
<1>6. TypesHold'
  BY <1>1, <1>2, <1>4, <1>5 DEF IInv, TypesHold, States
<1>7. PastHolds' /\ MarkerHolds' /\ Grows
  BY <1>1, StillGrows DEF IInv, PastHolds, MarkerHolds
<1>8. CapturesHold'
  <2>1. job'[j].pc \in {"captured", "stored"} => Store(j)
    BY <1>2, <1>4
  <2> QED
    BY <1>3, <1>4, <1>7, <2>1, CapturesKept
<1>9. ASSUME apart' PROVE OneAtATime' /\ CatalogFollows' /\ MarkerNames'
  <2>1. /\ apart /\ MarkerNames /\ OneAtATime'
        /\ \A k \in Jobs \ {j} : job[k] = Idle /\ job'[k] = Idle
    BY <1>4, <1>9 DEF IInv
  <2>2. Store(j) => catalog'[name] = state.payload
    BY <1>1, <1>2, <1>3 DEF entry, IInv, TypesHold
  <2>3. job'[j].pc \in {"stored", "got", "prepared"} => Store(j)
    BY <1>2, <1>4
  <2>4. CatalogFollows'
    BY <1>2, <1>4, <2>1, <2>2, <2>3, IdleFacts DEF CatalogFollows
  <2>5. ASSUME Clean' PROVE catalog'[marker.bookmark] = content \/ Closing(marker.bookmark)'
    <3>1. Clean
      BY <1>1, <2>5 DEF Clean
    <3>2. CASE marker.bookmark = name
      <4>1. job'[j].pc \in {"stored", "removed"} /\ job'[j].name = marker.bookmark
        BY <1>2, <1>4, <3>2
      <4> QED
        BY <1>1, <4>1 DEF Closing
    <3>3. CASE marker.bookmark # name
      <4>1. marker.bookmark \in Names
        BY <3>1 DEF Clean, IInv, TypesHold, Markers
      <4>2. catalog'[marker.bookmark] = catalog[marker.bookmark]
        BY <1>1, <1>2, <3>3, <4>1 DEF IInv, TypesHold
      <4>3. ~Closing(marker.bookmark)
        <5>1. job[j].pc \notin {"stored", "removed"}
          BY DEF Store, Remove
        <5> QED
          BY <2>1, <5>1, IdleFacts DEF Closing
      <4> QED
        BY <2>1, <3>1, <4>2, <4>3 DEF MarkerNames
    <3> QED
      BY <3>2, <3>3
  <2>6. MarkerNames'
    BY <1>1, <2>5 DEF MarkerNames
  <2> QED
    BY <2>1, <2>4, <2>6
<1> QED
  BY <1>6, <1>7, <1>8, <1>9 DEF IInv

\* A write that was answered with an error ends the promise of the marker.
LEMMA UnacknowledgedStep ==
  ASSUME IInv, NEW j \in Jobs, StoreUnacknowledged(j) \/ RemoveUnacknowledged(j)
  PROVE  IInv'
<1>1. /\ job' = [job EXCEPT ![j] = Idle] /\ apart' = FALSE
      /\ UNCHANGED <<content, revs, marker, past>>
  BY DEF StoreUnacknowledged, RemoveUnacknowledged, Unacknowledged
<1>2. catalog' \in [Names -> Contents \cup {Absent}]
  <2>1. CASE StoreUnacknowledged(j)
    <3>1. job[j] \in Saves /\ catalog' = [catalog EXCEPT ![job[j].name] = job[j].payload]
      BY <2>1, JobFacts DEF StoreUnacknowledged, Payload
    <3> QED
      BY <3>1 DEF Saves, IInv, TypesHold
  <2>2. CASE RemoveUnacknowledged(j)
    BY <2>2 DEF RemoveUnacknowledged, IInv, TypesHold
  <2> QED
    BY <2>1, <2>2
<1>3. TypesHold'
  BY <1>1, <1>2 DEF IInv, TypesHold
<1>4. PastHolds' /\ MarkerHolds' /\ Grows
  BY <1>1, StillGrows DEF IInv, PastHolds, MarkerHolds
<1>5. \A k \in Jobs : job'[k] = Idle \/ job'[k] = job[k]
  BY <1>1 DEF IInv, TypesHold
<1>6. CapturesHold'
  BY <1>4, <1>5, IdleFacts, CapturesKept
<1> QED
  BY <1>1, <1>3, <1>4, <1>6 DEF IInv

\* The tail of a save and of a delete, and a restore: commits that place or clear the marker.
LEMMA EndStep ==
  ASSUME IInv, NEW j \in Jobs, Grows, Step(j, Idle), UNCHANGED catalog,
         marker' \in Markers \cup {NoMarker}, MarkerHolds',
         apart /\ Clean' => catalog[marker'.bookmark] = content'
  PROVE  IInv'
<1>1. /\ apart' \in BOOLEAN /\ job'[j] = Idle
      /\ \A k \in Jobs \ {j} : job'[k] = job[k]
      /\ apart' => /\ apart /\ OneAtATime'
                   /\ \A k \in Jobs \ {j} : job[k] = Idle /\ job'[k] = Idle
  BY StepAlone
<1>2. job' = [job EXCEPT ![j] = Idle]
  BY DEF Step
<1>3. TypesHold' /\ PastHolds'
  BY <1>1, <1>2 DEF IInv, TypesHold, Grows
<1>4. CapturesHold'
  BY <1>1, IdleFacts, CapturesKept
<1>5. ASSUME apart' PROVE CatalogFollows' /\ MarkerNames'
  BY <1>1, <1>5, IdleFacts DEF CatalogFollows, MarkerNames
<1> QED
  BY <1>1, <1>3, <1>4, <1>5 DEF IInv

\* A marker that a tail leaves clean is of another name, and was good before.
LEMMA LeftClean ==
  ASSUME IInv, apart, NEW j \in Jobs, job[j].pc \in {"stored", "removed"},
         Clean, marker.bookmark # job[j].name
  PROVE  catalog[marker.bookmark] = content
<1>1. job[j] # Idle
  BY IdleFacts
<1>2. \A k \in Jobs : k # j => job[k] = Idle
  BY <1>1 DEF IInv, OneAtATime
<1>3. ~Closing(marker.bookmark)
  BY <1>2, IdleFacts DEF Closing
<1> QED
  BY <1>3 DEF IInv, MarkerNames

\* Clearing a name, after a delete or a save overtaken by changes.
LEMMA UnmarkStep ==
  ASSUME IInv, NEW j \in Jobs, job[j].pc \in {"stored", "removed"},
         Becomes(content, FALSE), marker' = Unmark(job[j].name), Step(j, Idle),
         UNCHANGED catalog
  PROVE  IInv'
<1>1. content \in Contents
  BY DEF IInv, TypesHold
<1>2. Grows
  BY <1>1, BecomesGrows
<1>3. /\ marker' \in Markers \cup {NoMarker} /\ MarkerHolds'
      /\ Clean' => /\ Clean /\ marker'.bookmark = marker.bookmark
                   /\ content' = content /\ marker.bookmark # job[j].name
  BY <1>2, UnmarkFacts
<1>4. apart /\ Clean' => catalog[marker'.bookmark] = content'
  BY <1>3, LeftClean
<1> QED
  BY <1>2, <1>3, <1>4, EndStep

\* The captured exploration is still on screen, and becomes the saved one.
LEMMA MarkTakes ==
  ASSUME IInv, NEW j \in Jobs, job[j].pc = "stored", job[j].content = revs.content
  PROVE  /\ job[j].payload \in Contents /\ job[j].name \in Names
         /\ [content EXCEPT !.selected = job[j].payload.selected] = job[j].payload
<1>1. /\ job[j] \in Saves /\ content \in Contents
      /\ job[j].payload.work = past[revs.content + 1].work
      /\ past[revs.content + 1] = content
  BY JobFacts DEF IInv, TypesHold, PastHolds, CapturesHold
<1>2. job[j].payload \in Contents /\ job[j].name \in Names
  BY <1>1 DEF Saves
<1> HIDE DEF Saves
<1>3. job[j].payload.work = content.work
  BY <1>1
<1> DEFINE new == [content EXCEPT !.selected = job[j].payload.selected]
<1>4. \A p \in Contents : p.work = content.work =>
        [content EXCEPT !.selected = p.selected] = p
  BY <1>1 DEF Contents
<1> QED
  BY <1>2, <1>3, <1>4

LEMMA MarkStep ==
  ASSUME IInv, NEW j \in Jobs, Mark(j)
  PROVE  IInv'
<1>1. job[j].pc = "stored" /\ Step(j, Idle) /\ UNCHANGED catalog
  BY DEF Mark
<1>2. CASE /\ job[j].content = revs.content
           /\ Becomes([content EXCEPT !.selected = job[j].payload.selected], FALSE)
           /\ marker' = MarkerOn(job[j].name, revs'.content)
  <2>1. /\ job[j].payload \in Contents /\ job[j].name \in Names
        /\ Becomes(job[j].payload, FALSE)
    BY <1>1, <1>2, MarkTakes
  <2>2. Grows /\ content' = job[j].payload
    BY <2>1, BecomesGrows DEF Becomes
  <2>3. marker' \in Markers /\ marker'.bookmark = job[j].name /\ MarkerHolds'
    BY <1>2, <2>1, <2>2, MarkFacts
  <2>4. apart => catalog[job[j].name] = job[j].payload
    BY <1>1 DEF IInv, CatalogFollows
  <2> QED
    BY <1>1, <2>2, <2>3, <2>4, EndStep
<1>3. CASE Becomes(content, FALSE) /\ marker' = Unmark(job[j].name)
  BY <1>1, <1>3, UnmarkStep
<1> QED
  BY <1>2, <1>3 DEF Mark

LEMMA ClearStep ==
  ASSUME IInv, NEW j \in Jobs, Clear(j)
  PROVE  IInv'
BY UnmarkStep DEF Clear

LEMMA CommitRestoreStep ==
  ASSUME IInv, NEW j \in Jobs, CommitRestore(j)
  PROVE  IInv'
<1>1. /\ job[j] \in Restores /\ job[j].pc = "prepared"
      /\ Step(j, Idle) /\ UNCHANGED catalog
      /\ marker' = MarkerOn(job[j].name, revs'.content)
  BY JobFacts DEF CommitRestore
<1>2. job[j].payload \in Contents /\ job[j].name \in Names
  BY <1>1 DEF Restores
<1>3. PICK unseen \in BOOLEAN : Becomes(job[j].payload, unseen)
  BY DEF CommitRestore
<1>4. Grows /\ content' = job[j].payload
  BY <1>2, <1>3, BecomesGrows DEF Becomes
<1>5. marker' \in Markers /\ marker'.bookmark = job[j].name /\ MarkerHolds'
  BY <1>1, <1>2, <1>4, MarkFacts
<1>6. apart => catalog[job[j].name] = job[j].payload
  BY <1>1 DEF IInv, CatalogFollows
<1> QED
  BY <1>1, <1>4, <1>5, <1>6, EndStep

LEMMA NextIInv == IInv /\ [Next]_vars => IInv'
<1> SUFFICES ASSUME IInv, [Next]_vars PROVE IInv'
  OBVIOUS
<1>1. CASE Change \/ RestoreHistory
  BY <1>1, ChangeStep
<1>2. ASSUME NEW j \in Jobs, Capture(j) \/ Store(j) \/ StoreUnacknowledged(j) \/ StoreRefused(j) \/ Mark(j)
      PROVE  IInv'
  BY <1>2, CaptureStep, WriteStep, UnacknowledgedStep, LookStep, MarkStep
<1>3. ASSUME NEW j \in Jobs, CheckDelete(j) \/ Remove(j) \/ RemoveUnacknowledged(j) \/ RemoveRefused(j) \/ Clear(j)
      PROVE  IInv'
  BY <1>3, WriteStep, UnacknowledgedStep, LookStep, ClearStep
<1>4. ASSUME NEW j \in Jobs, Get(j) \/ PrepareRestore(j) \/ CommitRestore(j) \/ RefuseRestore(j)
      PROVE  IInv'
  BY <1>4, LookStep, CommitRestoreStep
<1>5. CASE UNCHANGED vars
  BY <1>5 DEF IInv, TypesHold, PastHolds, CapturesHold, MarkerHolds, OneAtATime,
              CatalogFollows, MarkerNames, Closing, Clean, vars
<1> QED
  BY <1>1, <1>2, <1>3, <1>4, <1>5 DEF Next

-----------------------------------------------------------------------------
(* The theorems. *)

\* Record, captures, marker and catalog agree as IInv says, in every behaviour.
THEOREM SavedViewsInvariant == Spec => []IInv
<1> QED
  BY InitIInv, NextIInv, PTL DEF Spec

(***************************************************************************)
(* While no job is under way, an exploration shown as saved is what the    *)
(* catalog holds under that name, as long as jobs came one at a time and   *)
(* no write that took place was answered with an error: the marker that    *)
(* views_api.rs places and clears after its writes.                        *)
(***************************************************************************)
THEOREM SavedViewsMarkerIsTrue == Spec => []CleanMarkerNamesItsPayload
<1>1. IInv => CleanMarkerNamesItsPayload
  <2> SUFFICES ASSUME IInv, apart, Quiet, Clean
               PROVE  catalog[marker.bookmark] = content
    BY DEF CleanMarkerNamesItsPayload
  <2>1. ~Closing(marker.bookmark)
    BY IdleFacts DEF Quiet, Closing
  <2> QED
    BY <2>1 DEF IInv, MarkerNames
<1> QED
  BY <1>1, SavedViewsInvariant, PTL

\* A step that writes the catalog is a store, or a removal, of a job that got that far.
LEMMA WhoWrites ==
  ASSUME IInv, [Next]_vars, NEW n \in Names, catalog'[n] # catalog[n]
  PROVE  \E j \in Jobs :
           /\ job[j].name = n
           /\ \/ job[j].pc = "captured" /\ MayStore(j) /\ catalog'[n] = job[j].payload
              \/ job[j].pc = "deleting" /\ catalog'[n] = Absent
<1>1. PICK j \in Jobs : Store(j) \/ StoreUnacknowledged(j) \/ Remove(j) \/ RemoveUnacknowledged(j)
  BY DEF Next, vars, Change, RestoreHistory, Capture, StoreRefused, Mark, CheckDelete,
         RemoveRefused, Clear, Get, PrepareRestore, CommitRestore, RefuseRestore
<1>2. CASE Store(j) \/ StoreUnacknowledged(j)
  <2>1. /\ job[j].pc = "captured" /\ MayStore(j)
        /\ catalog' = [catalog EXCEPT ![job[j].name] = job[j].payload]
    BY <1>2 DEF Store, StoreUnacknowledged, Payload
  <2>2. job[j].name = n /\ catalog'[n] = job[j].payload
    BY <2>1 DEF IInv, TypesHold
  <2> QED
    BY <2>1, <2>2
<1>3. CASE Remove(j) \/ RemoveUnacknowledged(j)
  <2>1. /\ job[j].pc = "deleting"
        /\ catalog' = [catalog EXCEPT ![job[j].name] = Absent]
    BY <1>3 DEF Remove, RemoveUnacknowledged
  <2>2. job[j].name = n /\ catalog'[n] = Absent
    BY <2>1 DEF IInv, TypesHold
  <2> QED
    BY <2>1, <2>2
<1> QED
  BY <1>1, <1>2, <1>3

(***************************************************************************)
(* A saved view is only ever lost to a delete or a replacement of its own  *)
(* name that somebody asked for; no quota evicts another.                  *)
(***************************************************************************)
THEOREM SavedViewsLosesNothing == Spec => NothingLostUnasked
<1>1. IInv /\ [Next]_vars =>
        [\A n \in Names :
           catalog[n] # Absent /\ catalog'[n] # catalog[n] =>
             \E j \in Jobs :
               /\ job[j].pc \in {"captured", "deleting"}
               /\ job[j].name = n
               /\ job[j].pc = "captured" => job[j].replace]_vars
  <2> SUFFICES ASSUME IInv, [Next]_vars, NEW n \in Names,
                      catalog[n] # Absent, catalog'[n] # catalog[n]
               PROVE  \E j \in Jobs :
                        /\ job[j].pc \in {"captured", "deleting"}
                        /\ job[j].name = n
                        /\ job[j].pc = "captured" => job[j].replace
    OBVIOUS
  <2>1. PICK j \in Jobs :
           /\ job[j].name = n
           /\ \/ job[j].pc = "captured" /\ MayStore(j)
              \/ job[j].pc = "deleting"
    BY WhoWrites
  <2>2. job[j].pc = "captured" => job[j].replace
    BY <2>1 DEF MayStore
  <2> QED
    BY <2>1, <2>2
<1> QED
  BY <1>1, SavedViewsInvariant, PTL DEF Spec, NothingLostUnasked

(***************************************************************************)
(* What a save writes is the exploration as it was at the stamp the save   *)
(* answers with, but for a selection it brought, whatever other clients    *)
(* did to it in the meantime; and a save that reports a clean marker       *)
(* captured what is on screen when it reports it, selection included.      *)
(***************************************************************************)
THEOREM SavedViewsStoresItsCapture == Spec => StoresWhatItCaptured
<1>1. ASSUME IInv, [Next]_vars PROVE WritesItsCapture
  <2> SUFFICES ASSUME NEW n \in Names, catalog'[n] \notin {catalog[n], Absent}
               PROVE  \E j \in Jobs :
                        /\ job[j].pc = "captured"
                        /\ job[j].name = n
                        /\ catalog'[n].work = past[job[j].content + 1].work
    BY DEF WritesItsCapture
  <2>1. PICK j \in Jobs :
           job[j].name = n /\ job[j].pc = "captured" /\ catalog'[n] = job[j].payload
    BY <1>1, WhoWrites
  <2>2. job[j].payload.work = past[job[j].content + 1].work
    BY <1>1, <2>1 DEF IInv, CapturesHold
  <2> QED
    BY <2>1, <2>2
<1>2. ASSUME IInv, [Next]_vars PROVE MarksItsCapture
  <2> SUFFICES ASSUME NEW j \in Jobs, job[j].pc = "stored", job'[j] = Idle,
                      marker' # NoMarker, marker'.bookmark = job[j].name, ~marker'.dirty
               PROVE  content' = job[j].payload
    BY DEF MarksItsCapture
  <2>1. job[j] # Idle
    BY IdleFacts
  <2>2. Next
    BY <1>2, <2>1 DEF vars
  <2>3. ASSUME NEW k \in Jobs, NEW s, job' = [job EXCEPT ![k] = s] PROVE k = j
    BY <1>2, <2>1, <2>3 DEF IInv, TypesHold
  <2>4. Mark(j)
    <3>1. ~(Change \/ RestoreHistory)
      BY <2>1 DEF Change, RestoreHistory
    <3>2. ASSUME NEW k \in Jobs, Capture(k) \/ CheckDelete(k) \/ Get(k) \/ PrepareRestore(k) \/ RefuseRestore(k)
                                  \/ CommitRestore(k)
          PROVE  job[k].pc \in {"idle", "got", "prepared"} /\ \E s : job' = [job EXCEPT ![k] = s]
      BY <3>2, IdleFacts
      DEF Capture, CheckDelete, Get, PrepareRestore, RefuseRestore, CommitRestore, Step
    <3>3. ASSUME NEW k \in Jobs, Store(k) \/ StoreUnacknowledged(k) \/ StoreRefused(k)
          PROVE  job[k].pc = "captured" /\ \E s : job' = [job EXCEPT ![k] = s]
      BY <3>3 DEF Store, StoreUnacknowledged, StoreRefused, Unacknowledged, Step
    <3>4. ASSUME NEW k \in Jobs, Remove(k) \/ RemoveUnacknowledged(k) \/ RemoveRefused(k) \/ Clear(k)
          PROVE  job[k].pc \in {"deleting", "removed"} /\ \E s : job' = [job EXCEPT ![k] = s]
      BY <3>4 DEF Remove, RemoveUnacknowledged, RemoveRefused, Clear, Unacknowledged, Step
    <3>5. ASSUME NEW k \in Jobs, Mark(k) PROVE k = j
      BY <2>3, <3>5 DEF Mark, Step
    <3> QED
      BY <2>2, <2>3, <3>1, <3>2, <3>3, <3>4, <3>5 DEF Next
  <2>5. CASE /\ job[j].content = revs.content
             /\ Becomes([content EXCEPT !.selected = job[j].payload.selected], FALSE)
    BY <1>2, <2>5, MarkTakes DEF Becomes
  <2>6. CASE Becomes(content, FALSE) /\ marker' = Unmark(job[j].name)
    <3>1. Clean'
      BY DEF Clean
    <3>2. content \in Contents
      BY <1>2 DEF IInv, TypesHold
    <3>3. Grows
      BY <1>2, <2>6, <3>2, BecomesGrows
    <3> QED
      BY <1>2, <2>6, <3>1, <3>3, UnmarkFacts
  <2> QED
    BY <2>4, <2>5, <2>6 DEF Mark
<1>3. IInv /\ [Next]_vars => [WritesItsCapture /\ MarksItsCapture]_vars
  BY <1>1, <1>2
<1> QED
  BY <1>3, SavedViewsInvariant, PTL DEF Spec, StoresWhatItCaptured
=============================================================================
