----------------------------- MODULE SavedViews -----------------------------
(***************************************************************************)
(* Saving, deleting and restoring named views of one session               *)
(* (views_api.rs), over a catalog whose transactions are atomic (views.rs).*)
(*                                                                         *)
(* A save captures the exploration, writes the catalog, and then, inside   *)
(* the publication gate, marks the exploration as saved; a delete writes   *)
(* the catalog and then clears the marker; a restore reads the catalog,    *)
(* prepares, and commits.  Nothing is locked from one of these steps to    *)
(* the next: other jobs and other clients' changes come between.           *)
(*                                                                         *)
(* An exploration is what a saved view records of it.  The session sees    *)
(* more (slot numbers, holes), so its content revision can move while the  *)
(* exploration stays the same, but never the other way round.              *)
(***************************************************************************)
EXTENDS Integers, Sequences, FiniteSets

CONSTANTS
  Jobs,         \* the save, delete and restore requests in flight
  Names,        \* names of views, of one storage
  Works,        \* explorations, but for what is selected in them
  Selections,   \* what can be selected
  Initial,      \* the exploration a session opens with
  Absent,       \* no entry in the catalog
  NoMarker,     \* no saved-view marker
  MaxViews,     \* MAX_VIEWS
  Durable,      \* the catalog is a file, not the memory of this server
  MaxRevision   \* bound: the revisions of a behaviour

Contents == [work : Works, selected : Selections]

ASSUME SavedViewsAssumption ==
  /\ Initial \in Contents
  /\ Absent \notin Contents
  /\ NoMarker \notin [bookmark : Names, content : Nat, dirty : BOOLEAN]
  /\ MaxViews \in Nat
  /\ Durable \in BOOLEAN
  /\ MaxRevision \in Nat

VARIABLES
  content,   \* the live exploration
  revs,      \* revision and content_revision
  marker,    \* the saved-view marker of the exploration
  catalog,   \* what each name holds
  job,       \* what each job is doing
  past,      \* not in the code: the content of every content revision
  apart      \* not in the code: jobs came one at a time, and no write failed halfway

vars == <<content, revs, marker, catalog, job, past, apart>>

Idle == [pc |-> "idle"]
Anywhere == -1
Held == {n \in Names : catalog[n] # Absent}

Init ==
  /\ content = Initial
  /\ revs = [revision |-> 0, content |-> 0]
  /\ marker = NoMarker
  /\ catalog = [n \in Names |-> Absent]
  /\ job = [j \in Jobs |-> Idle]
  /\ past = <<Initial>>
  /\ apart = TRUE

-----------------------------------------------------------------------------
(* A commit: finish_preparation and finish_recovery, seen from the marker. *)

MarkerOn(name, content_revision) ==
  [bookmark |-> name, content |-> content_revision, dirty |-> FALSE]

Recolour(m) ==
  IF m = NoMarker THEN NoMarker ELSE [m EXCEPT !.dirty = m.content # revs'.content]

\* `unseen`: something changed that a saved view does not record.
Becomes(new, unseen) ==
  LET moved == new # content \/ unseen
  IN  /\ revs.revision < MaxRevision
      /\ content' = new
      /\ revs' = [revision |-> revs.revision + 1,
                  content  |-> IF moved THEN revs.content + 1 ELSE revs.content]
      /\ past' = IF moved THEN Append(past, new) ELSE past

\* Any shared request of any client; a focus or an equal setting changes nothing.
Change ==
  \E new \in Contents, unseen \in BOOLEAN :
    /\ Becomes(new, unseen)
    /\ marker' = Recolour(marker)
    /\ UNCHANGED <<catalog, job, apart>>

\* Restoring a checkpoint drops the marker.
RestoreHistory ==
  \E new \in Contents, unseen \in BOOLEAN :
    /\ Becomes(new, unseen)
    /\ marker' = NoMarker
    /\ UNCHANGED <<catalog, job, apart>>

\* prepare_bookmark_deleted
Unmark(name) ==
  IF marker # NoMarker /\ marker.bookmark = name THEN NoMarker ELSE Recolour(marker)

Step(j, state) ==
  /\ job' = [job EXCEPT ![j] = state]
  /\ apart' = (apart /\ \A k \in Jobs \ {j} : job[k] = Idle)

\* An error is all that is known of a write that took place.
Unacknowledged(j) ==
  /\ job' = [job EXCEPT ![j] = Idle]
  /\ apart' = FALSE

\* A request that names the revision it is meant for is refused at another.
Meets(expected) == expected \in {Anywhere, revs.revision}

-----------------------------------------------------------------------------
(* Save. *)

\* The request can bring a selection of its own (BookmarkCaptureOptions).
Capture(j) ==
  /\ job[j] = Idle
  /\ \E name \in Names, replace \in BOOLEAN, selected \in Selections :
       Step(j, [pc |-> "captured", name |-> name, replace |-> replace,
                payload |-> [content EXCEPT !.selected = selected],
                content |-> revs.content])
  /\ UNCHANGED <<content, revs, marker, catalog, past>>

\* Seeded fault: what is written is what is on screen by then.
Payload_AtWrite(j) == content

Payload(j) == job[j].payload

\* Seeded fault: a taken name is overwritten unasked.
MayStore_Overwrites(j) ==
  catalog[job[j].name] # Absent \/ Cardinality(Held) < MaxViews

\* A name that is taken needs the explicit replacement, a new one needs room.
MayStore(j) ==
  IF catalog[job[j].name] # Absent THEN job[j].replace
  ELSE Cardinality(Held) < MaxViews

Store(j) ==
  /\ job[j].pc = "captured"
  /\ MayStore(j)
  /\ catalog' = [catalog EXCEPT ![job[j].name] = Payload(j)]
  /\ Step(j, [job[j] EXCEPT !.pc = "stored"])
  /\ UNCHANGED <<content, revs, marker, past>>

\* The new file is in place, and the sync of its directory fails: an error.
StoreUnacknowledged(j) ==
  /\ Durable
  /\ job[j].pc = "captured"
  /\ MayStore(j)
  /\ catalog' = [catalog EXCEPT ![job[j].name] = Payload(j)]
  /\ Unacknowledged(j)
  /\ UNCHANGED <<content, revs, marker, past>>

\* The catalog refuses, or the disk fails: the save ends and marks nothing.
StoreRefused(j) ==
  /\ job[j].pc = "captured"
  /\ Step(j, Idle)
  /\ UNCHANGED <<content, revs, marker, catalog, past>>

(***************************************************************************)
(* mark_bookmark_saved_blocking: while the exploration is still the        *)
(* captured one, the captured selection becomes the shared one and the     *)
(* marker is placed; if it is not, a marker of this name goes.             *)
(***************************************************************************)
Mark(j) ==
  /\ job[j].pc = "stored"
  /\ \/ /\ job[j].content = revs.content
        /\ Becomes([content EXCEPT !.selected = job[j].payload.selected], FALSE)
        /\ marker' = MarkerOn(job[j].name, revs'.content)
     \/ /\ job[j].content # revs.content
        /\ Becomes(content, FALSE)
        /\ marker' = Unmark(job[j].name)
  /\ Step(j, Idle)
  /\ UNCHANGED catalog

-----------------------------------------------------------------------------
(* Delete. *)

CheckDelete(j) ==
  /\ job[j] = Idle
  /\ \E name \in Names : Step(j, [pc |-> "deleting", name |-> name])
  /\ UNCHANGED <<content, revs, marker, catalog, past>>

Remove(j) ==
  /\ job[j].pc = "deleting"
  /\ catalog[job[j].name] # Absent
  /\ catalog' = [catalog EXCEPT ![job[j].name] = Absent]
  /\ Step(j, [job[j] EXCEPT !.pc = "removed"])
  /\ UNCHANGED <<content, revs, marker, past>>

RemoveUnacknowledged(j) ==
  /\ Durable
  /\ job[j].pc = "deleting"
  /\ catalog[job[j].name] # Absent
  /\ catalog' = [catalog EXCEPT ![job[j].name] = Absent]
  /\ Unacknowledged(j)
  /\ UNCHANGED <<content, revs, marker, past>>

RemoveRefused(j) ==
  /\ job[j].pc = "deleting"
  /\ Step(j, Idle)
  /\ UNCHANGED <<content, revs, marker, catalog, past>>

\* Seeded fault: the tail of a delete is skipped.
Clear_Skipped(j) ==
  /\ job[j].pc = "removed"
  /\ Becomes(content, FALSE)
  /\ marker' = Recolour(marker)
  /\ Step(j, Idle)
  /\ UNCHANGED catalog

\* clear_deleted_marker_blocking
Clear(j) ==
  /\ job[j].pc = "removed"
  /\ Becomes(content, FALSE)
  /\ marker' = Unmark(job[j].name)
  /\ Step(j, Idle)
  /\ UNCHANGED catalog

-----------------------------------------------------------------------------
(* Restore. *)

Get(j) ==
  /\ job[j] = Idle
  /\ \E name \in Held, expected \in {Anywhere, revs.revision} :
       Step(j, [pc |-> "got", name |-> name, payload |-> catalog[name],
                expected |-> expected])
  /\ UNCHANGED <<content, revs, marker, catalog, past>>

PrepareRestore(j) ==
  /\ job[j].pc = "got"
  /\ IF Meets(job[j].expected)
     THEN Step(j, [pc |-> "prepared", name |-> job[j].name,
                   payload |-> job[j].payload, base |-> revs.revision])
     ELSE Step(j, Idle)
  /\ UNCHANGED <<content, revs, marker, catalog, past>>

\* commit_shared compares the base: a restore prepared earlier is refused.
CommitRestore(j) ==
  /\ job[j].pc = "prepared"
  /\ job[j].base = revs.revision
  /\ \E unseen \in BOOLEAN : Becomes(job[j].payload, unseen)
  /\ marker' = MarkerOn(job[j].name, revs'.content)
  /\ Step(j, Idle)
  /\ UNCHANGED catalog

RefuseRestore(j) ==
  /\ job[j].pc = "prepared"
  /\ job[j].base # revs.revision
  /\ Step(j, Idle)
  /\ UNCHANGED <<content, revs, marker, catalog, past>>

Next ==
  \/ Change
  \/ RestoreHistory
  \/ \E j \in Jobs :
       \/ Capture(j)
       \/ Store(j)
       \/ StoreUnacknowledged(j)
       \/ StoreRefused(j)
       \/ Mark(j)
       \/ CheckDelete(j)
       \/ Remove(j)
       \/ RemoveUnacknowledged(j)
       \/ RemoveRefused(j)
       \/ Clear(j)
       \/ Get(j)
       \/ PrepareRestore(j)
       \/ CommitRestore(j)
       \/ RefuseRestore(j)

Spec == Init /\ [][Next]_vars

\* What the catalog gains is what some job had captured,
WritesItsCapture ==
  \A n \in Names :
    catalog'[n] \notin {catalog[n], Absent} =>
      \E j \in Jobs :
        /\ job[j].pc = "captured"
        /\ job[j].name = n
        /\ catalog'[n].work = past[job[j].content + 1].work

\* and a job that answers with a clean marker had captured what is on screen.
MarksItsCapture ==
  \A j \in Jobs :
    /\ job[j].pc = "stored"
    /\ job'[j] = Idle
    /\ marker' # NoMarker
    /\ marker'.bookmark = job[j].name
    /\ ~marker'.dirty
    => content' = job[j].payload

(***************************************************************************)
(* What a save writes is the exploration as it was at the stamp the save   *)
(* answers with, but for a selection it brought, whatever other clients    *)
(* did to it in the meantime; and a save that reports a clean marker       *)
(* captured what is on screen when it reports it, selection included.      *)
(***************************************************************************)
StoresWhatItCaptured == [][WritesItsCapture /\ MarksItsCapture]_vars

(***************************************************************************)
(* A saved view is only ever lost to a delete or a replacement of its own  *)
(* name that somebody asked for; no quota evicts another (ViewStore::save).*)
(***************************************************************************)
NothingLostUnasked ==
  [][\A n \in Names :
       catalog[n] # Absent /\ catalog'[n] # catalog[n] =>
         \E j \in Jobs :
           /\ job[j].pc \in {"captured", "deleting"}
           /\ job[j].name = n
           /\ job[j].pc = "captured" => job[j].replace]_vars

Quiet == \A j \in Jobs : job[j] = Idle
Clean == marker # NoMarker /\ ~marker.dirty

(***************************************************************************)
(* While no job is under way, an exploration shown as saved is what the    *)
(* catalog holds under that name (docs/viewer/saved-views.md: "The header  *)
(* names the active saved view and shows when the current exploration      *)
(* differs from it").  It holds as long as jobs come one at a time and no  *)
(* write that took place was answered with an error.                       *)
(***************************************************************************)
CleanMarkerNamesItsPayload ==
  apart /\ Quiet /\ Clean => catalog[marker.bookmark] = content

(***************************************************************************)
(* "Catalog now contains older content, so the newer shared marker cannot  *)
(* remain clean" (views_api.rs, of two saves of one name).  The tail of    *)
(* the older save clears a marker placed before it, but not one placed     *)
(* after it.                                                               *)
(***************************************************************************)
NoOlderPayloadUnderCleanMarker ==
  Quiet /\ Clean => catalog[marker.bookmark] \in {content, Absent}
=============================================================================
