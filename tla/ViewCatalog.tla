---------------------------- MODULE ViewCatalog ----------------------------
(***************************************************************************)
(* The saved-view catalog on disk (views.rs): viewers, each a request of   *)
(* some server process, take an advisory lock, read the whole file, decide,*)
(* write a staging file, sync it, rename it over the catalog and sync the  *)
(* directory.  A process may be killed or stalled at any point, a call may *)
(* fail, and the power may go.                                             *)
(*                                                                         *)
(* The disk: a file that was not synced can come back torn, and a rename   *)
(* whose directory was not synced can come back undone.  A file that does  *)
(* not exist yet is an empty catalog.                                      *)
(***************************************************************************)
EXTENDS Naturals, FiniteSets

CONSTANTS
  Viewers, NoOne,
  Names, Payloads, Strange, Absent, Unreadable, MaxViews,
  MaxRequests,   \* bound: the requests of all viewers
  MaxLosses      \* bound: power losses

ASSUME CatalogAssumption ==
  /\ IsFiniteSet(Names) /\ IsFiniteSet(Viewers)
  /\ NoOne \notin Viewers
  /\ Absent \notin Payloads \cup Strange
  /\ Payloads \cap Strange = {}
  /\ Unreadable \notin [Names -> Payloads \cup Strange \cup {Absent}]
  /\ MaxViews \in Nat /\ MaxRequests \in Nat /\ MaxLosses \in Nat

VARIABLES
  file,      \* what the name of the catalog leads to: its bytes, and if they are synced
  olds,      \* what it led to before renames the directory may not have on disk
  staging,   \* the staging file, if there is one
  lock,      \* who holds the lock file
  job,       \* where each viewer's request is
  stalled,   \* viewers that stopped for good, without dying
  asked, losses,
  owed       \* not in the code: what each name was last acknowledged to hold

vars == <<file, olds, staging, lock, job, stalled, asked, losses, owed>>

Atomic == INSTANCE AtomicCatalog WITH
  catalog <- file.bytes, mayReturn <- {f.bytes : f \in olds}

Empty == Atomic!Empty

\* A list or a get, a save, a deletion.
Operations ==
  {[kind |-> "read"]}
    \cup [kind : {"save"}, name : Names, to : Payloads, replace : BOOLEAN]
    \cup [kind : {"delete"}, name : Names, to : {Absent}]

Idle == [at |-> "idle", op |-> [kind |-> "read"], copy |-> Empty]

-----------------------------------------------------------------------------
(* The decisions, under the lock. *)

\* save_validated and delete: what their closures let through.
Admits(c, op) ==
  CASE op.kind = "save" ->
         IF c[op.name] = Absent
         THEN Cardinality(Atomic!Held(c)) < MaxViews
         ELSE op.replace /\ c[op.name] \notin Strange
    [] op.kind = "delete" -> c[op.name] # Absent
    [] OTHER -> FALSE

\* Seeded fault: a catalog that cannot be read is taken for an empty one.
Contents_NoRefusal == {IF file.bytes = Unreadable THEN Empty ELSE file.bytes}

\* read_catalog: what the file holds, or nothing when the read is refused.
Contents == {file.bytes} \ {Unreadable}

-----------------------------------------------------------------------------
(* The steps of one request. *)

At(v, place) == job[v].at = place /\ v \notin stalled

To(v, place) == job' = [job EXCEPT ![v].at = place]

Release == lock' = NoOne

Ask(v) ==
  /\ At(v, "idle")
  /\ asked < MaxRequests
  /\ asked' = asked + 1
  /\ \E op \in Operations : job' = [job EXCEPT ![v] = [Idle EXCEPT !.at = "waiting", !.op = op]]
  /\ UNCHANGED <<file, olds, staging, lock, stalled, losses, owed>>

\* Seeded fault: the lock is not looked at.
Acquire_Anyway(v) ==
  /\ At(v, "waiting")
  /\ lock' = v
  /\ To(v, "holding")
  /\ UNCHANGED <<file, olds, staging, stalled, asked, losses, owed>>

Acquire(v) ==
  /\ At(v, "waiting")
  /\ lock = NoOne
  /\ lock' = v
  /\ To(v, "holding")
  /\ UNCHANGED <<file, olds, staging, stalled, asked, losses, owed>>

\* Seeded fault: the wait for the lock has no end.
TimeOut_Never(v) == FALSE

\* Two seconds of finding the lock taken.
TimeOut(v) ==
  /\ At(v, "waiting")
  /\ lock # NoOne
  /\ job' = [job EXCEPT ![v] = Idle]
  /\ UNCHANGED <<file, olds, staging, lock, stalled, asked, losses, owed>>

\* Read and change the copy.
Read(v) ==
  /\ At(v, "holding")
  /\ \E c \in Contents :
       /\ Admits(c, job[v].op)
       /\ job' = [job EXCEPT ![v].at = "changed",
                             ![v].copy = [c EXCEPT ![job[v].op.name] = job[v].op.to]]
  /\ UNCHANGED <<file, olds, staging, lock, stalled, asked, losses, owed>>

\* An answer that writes nothing: a list, a get, or a refusal.
Answer(v) ==
  /\ At(v, "holding")
  /\ \A c \in Contents : ~Admits(c, job[v].op)
  /\ Release
  /\ job' = [job EXCEPT ![v] = Idle]
  /\ UNCHANGED <<file, olds, staging, stalled, asked, losses, owed>>

Stage(v) ==
  /\ At(v, "changed")
  /\ staging' = {[bytes |-> job[v].copy, synced |-> FALSE]}
  /\ To(v, "staged")
  /\ UNCHANGED <<file, olds, lock, stalled, asked, losses, owed>>

\* Seeded fault: the staging file is not synced before the rename.
Sync_Skipped(v) ==
  /\ At(v, "staged")
  /\ To(v, "synced")
  /\ UNCHANGED <<file, olds, staging, lock, stalled, asked, losses, owed>>

Sync(v) ==
  /\ At(v, "staged")
  /\ staging' = {[f EXCEPT !.synced = TRUE] : f \in staging}
  /\ To(v, "synced")
  /\ UNCHANGED <<file, olds, lock, stalled, asked, losses, owed>>

Rename(v) ==
  /\ At(v, "synced")
  /\ \E f \in staging : file' = f
  /\ staging' = {}
  /\ olds' = olds \cup {file}
  /\ owed' = [owed EXCEPT ![job[v].op.name] = {}]
  /\ To(v, "renamed")
  /\ UNCHANGED <<lock, stalled, asked, losses>>

\* Seeded fault: the answer does not wait for the directory.
Acknowledge_Early(v) ==
  /\ At(v, "renamed")
  /\ owed' = [owed EXCEPT ![job[v].op.name] = {job[v].op.to}]
  /\ Release
  /\ job' = [job EXCEPT ![v] = Idle]
  /\ UNCHANGED <<file, olds, staging, stalled, asked, losses>>

\* Sync the directory, leave the lock, answer.
Acknowledge(v) ==
  /\ At(v, "renamed")
  /\ olds' = {}
  /\ owed' = [owed EXCEPT ![job[v].op.name] = {job[v].op.to}]
  /\ Release
  /\ job' = [job EXCEPT ![v] = Idle]
  /\ UNCHANGED <<file, staging, stalled, asked, losses>>

\* A bound, or an error of the file system, after the decision: what is done stays.
Fail(v) ==
  /\ \E place \in {"changed", "staged", "synced", "renamed"} : At(v, place)
  /\ Release
  /\ job' = [job EXCEPT ![v] = Idle]
  /\ UNCHANGED <<file, olds, staging, stalled, asked, losses, owed>>

Step(v) ==
  \/ Acquire(v) \/ TimeOut(v)
  \/ Read(v) \/ Answer(v)
  \/ Stage(v) \/ Sync(v) \/ Rename(v)
  \/ Acknowledge(v) \/ Fail(v)

-----------------------------------------------------------------------------
(* What happens to processes and machines. *)

\* The operating system releases the lock of a process that dies.
Kill(v) ==
  /\ job[v].at # "idle"
  /\ job' = [job EXCEPT ![v] = Idle]
  /\ lock' = IF lock = v THEN NoOne ELSE lock
  /\ stalled' = stalled \ {v}
  /\ UNCHANGED <<file, olds, staging, asked, losses, owed>>

Stall(v) ==
  /\ job[v].at # "idle"
  /\ stalled' = stalled \cup {v}
  /\ UNCHANGED <<file, olds, staging, lock, job, asked, losses, owed>>

\* What is left of a file that had not been synced.
Survives(f) == {[f EXCEPT !.synced = TRUE]}
                 \cup {[bytes |-> Unreadable, synced |-> TRUE] : x \in {f.synced} \ {TRUE}}

PowerLoss ==
  /\ losses < MaxLosses
  /\ losses' = losses + 1
  /\ file' \in UNION {Survives(f) : f \in olds \cup {file}}
  /\ olds' = {}
  /\ staging' = {}
  /\ lock' = NoOne
  /\ job' = [v \in Viewers |-> Idle]
  /\ stalled' = {}
  /\ UNCHANGED <<asked, owed>>

-----------------------------------------------------------------------------
Init ==
  /\ file \in [bytes : Atomic!Catalogs \cup {Unreadable}, synced : {TRUE}]
  /\ olds = {} /\ staging = {}
  /\ lock = NoOne
  /\ job = [v \in Viewers |-> Idle]
  /\ stalled = {}
  /\ asked = 0
  /\ losses = 0
  /\ owed = [n \in Names |-> {}]

Next ==
  \/ \E v \in Viewers : Ask(v) \/ Step(v) \/ Kill(v) \/ Stall(v)
  \/ PowerLoss

\* A request that neither died nor stalled goes on: it is straight-line code.
Fairness == \A v \in Viewers : WF_vars(Step(v))

Spec == Init /\ [][Next]_vars /\ Fairness

(***************************************************************************)
(* What a save or a deletion was acknowledged to leave under a name is     *)
(* there until another request replaces it, whatever is killed, fails or   *)
(* loses power in between, and whatever others do to other names.          *)
(***************************************************************************)
AcknowledgedSurvives ==
  \A n \in Names : owed[n] # {} =>
    file.bytes # Unreadable /\ file.bytes[n] \in owed[n]

(***************************************************************************)
(* The catalog is atomic: all viewers together only ever change one name   *)
(* at a time, within the quota, and a power loss undoes whole changes that *)
(* were not acknowledged or nothing.  A catalog that cannot be read is     *)
(* never written over, nor is a payload of another build.                  *)
(***************************************************************************)
ImplementsCatalog == Atomic!Spec

(***************************************************************************)
(* No request waits for ever, not even behind a viewer that stalled while  *)
(* it held the lock: it is answered, refused or dies.                      *)
(***************************************************************************)
RequestsAreAnswered ==
  \A v \in Viewers :
    job[v].at # "idle" ~> (job[v].at = "idle" \/ v \in stalled)
=============================================================================
