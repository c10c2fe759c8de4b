----------------------------- MODULE QueryStore -----------------------------
(***************************************************************************)
(* The saved-query store of one graph (queries.rs): a file that every      *)
(* session of the graph reads, edits and replaces.  A session's requests   *)
(* take turns under its own mutex; nothing orders two sessions.  The file  *)
(* is replaced by writing a temporary file named for the process and       *)
(* renaming it.                                                            *)
(*                                                                         *)
(* Opening a file for writing empties it, and a handle follows the file it *)
(* opened through a rename: a write can land in what has become the store. *)
(***************************************************************************)
EXTENDS Naturals, SequencesExt

CONSTANTS
  Callers, Stores, Processes, NoOne,
  StoreOf,       \* the session a caller speaks to
  ProcessOf,     \* the process a session runs in
  Names, Queries,
  TooLong,       \* queries past MAX_QUERY_BYTES, or empty
  Nothing,       \* no file
  Torn,          \* a file that is only partly written
  Strange,       \* a file this program cannot parse
  MaxSaved, MaxHistory,
  MaxEntries,    \* MAX_STORE_FILE_BYTES, in entries
  MaxRequests    \* bound: requests of all callers

\* What the file of a store this program can parse may say.
Entries == [name : Names, query : Queries]
StoreFiles == [saved : Seq(Entries), history : Seq(Queries), newer : BOOLEAN]

ASSUME StoreAssumption ==
  /\ StoreOf \in [Callers -> Stores] /\ ProcessOf \in [Stores -> Processes]
  /\ NoOne \notin Callers \cup Stores
  /\ {MaxSaved, MaxHistory} \subseteq Nat \ {0} /\ {MaxEntries, MaxRequests} \subseteq Nat
  /\ Torn # Nothing /\ Strange \notin {Nothing, Torn}
  /\ \A other \in {Nothing, Torn, Strange} : other \notin StoreFiles

VARIABLES
  file,      \* what the name of the graph's store leads to
  temp,      \* the temporary file of each process
  mutex,     \* the caller whose turn it is, for each session
  job,       \* where each caller's request is
  asked,
  writer     \* not in the code: the session that last replaced the file

vars == <<file, temp, mutex, job, asked, writer>>

Empty == [saved |-> <<>>, history |-> <<>>, newer |-> FALSE]

\* A list, a save, a deletion, a record of a run, the run of a saved query.
Operations ==
  {[kind |-> "list"]}
    \cup [kind : {"save"}, name : Names, query : Queries \cup TooLong]
    \cup [kind : {"delete", "run"}, name : Names]
    \cup [kind : {"record"}, query : Queries \cup TooLong]

Idle == [at |-> "idle", op |-> [kind |-> "list"], base |-> Nothing, to |-> Empty, handle |-> "none"]

-----------------------------------------------------------------------------
(* The edits of a copy.  The empty set is a refusal or no change. *)

\* Vec::retain: what is left of s, in its order.
Without(s, gone) ==
  LET left[i \in 0..Len(s)] ==
        IF i = 0 THEN <<>>
        ELSE IF s[i] \in gone THEN left[i - 1] ELSE Append(left[i - 1], s[i])
  IN  left[Len(s)]

Place(f, n) == SelectInSeq(f.saved, LAMBDA s : s.name = n)

\* Seeded fault: a second save of a name is a second entry.
Saved_Twice(f, n, q) ==
  IF Len(f.saved) < MaxSaved THEN {[f EXCEPT !.saved = Append(@, [name |-> n, query |-> q])]} ELSE {}

Saved(f, n, q) ==
  IF Place(f, n) # 0
  THEN {[f EXCEPT !.saved[Place(f, n)].query = q]}
  ELSE IF Len(f.saved) < MaxSaved THEN {[f EXCEPT !.saved = Append(@, [name |-> n, query |-> q])]} ELSE {}

Deleted(f, n) ==
  IF Place(f, n) = 0 THEN {} ELSE {[f EXCEPT !.saved = Without(@, [name : {n}, query : Queries])]}

\* Most recent first, without repeats.
Recorded(f, q) ==
  LET all == <<q>> \o Without(f.history, {q})
  IN  {[f EXCEPT !.history = SubSeq(all, 1, IF Len(all) > MaxHistory THEN MaxHistory ELSE Len(all))]}

Edits(f, op) ==
  CASE op.kind = "save"   -> IF op.query \in TooLong THEN {} ELSE Saved(f, op.name, op.query)
    [] op.kind = "delete" -> Deleted(f, op.name)
    [] op.kind = "record" -> IF op.query \in TooLong THEN {} ELSE Recorded(f, op.query)
    [] OTHER              -> {}

\* Seeded fault: a file that does not parse is taken for an empty one.
Contents_Lenient == {IF file \in {Nothing, Torn, Strange} THEN Empty ELSE file}

\* read: a file that is not there is an empty store; one that does not parse is refused.
Contents == {IF file = Nothing THEN Empty ELSE file} \ {Torn, Strange}

-----------------------------------------------------------------------------
(* The steps of one request. *)

At(c, place) == job[c].at = place
Temp(c) == temp[ProcessOf[StoreOf[c]]]

Ask(c) ==
  /\ At(c, "idle")
  /\ asked < MaxRequests
  /\ asked' = asked + 1
  /\ \E op \in Operations : job' = [job EXCEPT ![c] = [Idle EXCEPT !.at = "waiting", !.op = op]]
  /\ UNCHANGED <<file, temp, mutex, writer>>

\* Seeded fault: the requests of a session do not take turns.
Lock_Anyway(c) ==
  /\ At(c, "waiting")
  /\ job' = [job EXCEPT ![c].at = "holding"]
  /\ UNCHANGED <<file, temp, mutex, asked, writer>>

Lock(c) ==
  /\ At(c, "waiting")
  /\ mutex[StoreOf[c]] = NoOne
  /\ mutex' = [mutex EXCEPT ![StoreOf[c]] = c]
  /\ job' = [job EXCEPT ![c].at = "holding"]
  /\ UNCHANGED <<file, temp, asked, writer>>

\* The guard is dropped with the answer, whatever the answer is.
Done(c, next) ==
  /\ mutex' = [s \in Stores |-> IF mutex[s] = c THEN NoOne ELSE mutex[s]]
  /\ job' = [job EXCEPT ![c] = next]

\* Seeded fault: a refusal keeps the lock.
Answer_Holding(c) ==
  /\ At(c, "holding")
  /\ \A f \in Contents : Edits(f, job[c].op) = {}
  /\ job' = [job EXCEPT ![c] = Idle]
  /\ UNCHANGED <<file, temp, mutex, asked, writer>>

\* A list, a refusal, a name that is not there; the query of a run is recorded next.
Answer(c) ==
  /\ At(c, "holding")
  /\ \A f \in Contents : Edits(f, job[c].op) = {}
  /\ LET op    == job[c].op
         found == {f.saved[Place(f, op.name)].query : f \in {g \in Contents : op.kind = "run" /\ Place(g, op.name) # 0}}
     IN  \/ found = {} /\ Done(c, Idle)
         \/ \E q \in found :
              Done(c, [Idle EXCEPT !.at = "waiting", !.op = [kind |-> "record", query |-> q]])
  /\ UNCHANGED <<file, temp, asked, writer>>

Read(c) ==
  /\ At(c, "holding")
  /\ \E f \in Contents : \E g \in Edits(f, job[c].op) :
       job' = [job EXCEPT ![c].at = "edited", ![c].base = file, ![c].to = [g EXCEPT !.newer = FALSE]]
  /\ UNCHANGED <<file, temp, mutex, asked, writer>>

\* MAX_STORE_FILE_BYTES.
Fits(c) == Len(job[c].to.saved) + Len(job[c].to.history) <= MaxEntries

\* Seeded fault: the store itself is opened and filled.
Open_InPlace(c) ==
  /\ At(c, "edited")
  /\ Fits(c)
  /\ file' = Torn
  /\ job' = [job EXCEPT ![c].at = "opened", ![c].handle = "file"]
  /\ UNCHANGED <<temp, mutex, asked, writer>>

\* fs::write: the file is created or emptied, then filled.
Open(c) ==
  /\ At(c, "edited")
  /\ Fits(c)
  /\ temp' = [temp EXCEPT ![ProcessOf[StoreOf[c]]] = Torn]
  /\ job' = [job EXCEPT ![c].at = "opened", ![c].handle = "temp"]
  /\ UNCHANGED <<file, mutex, asked, writer>>

Fill(c) ==
  /\ At(c, "opened")
  /\ temp' = IF job[c].handle = "temp" THEN [temp EXCEPT ![ProcessOf[StoreOf[c]]] = job[c].to] ELSE temp
  /\ file' = IF job[c].handle = "file" THEN job[c].to ELSE file
  /\ job' = [job EXCEPT ![c].at = "filled"]
  /\ UNCHANGED <<mutex, asked, writer>>

\* Where a caller's handle leads once the process of c renamed its temporary file.
Follows(c, d) ==
  CASE job[d].handle = "file" -> "gone"
    [] job[d].handle = "temp" /\ ProcessOf[StoreOf[d]] = ProcessOf[StoreOf[c]] -> "file"
    [] OTHER -> job[d].handle

Rename(c) ==
  /\ At(c, "filled")
  /\ Temp(c) # Nothing
  /\ file' = Temp(c)
  /\ temp' = [temp EXCEPT ![ProcessOf[StoreOf[c]]] = Nothing]
  /\ writer' = StoreOf[c]
  /\ mutex' = [s \in Stores |-> IF mutex[s] = c THEN NoOne ELSE mutex[s]]
  /\ job' = [d \in Callers |-> IF d = c THEN Idle ELSE [job[d] EXCEPT !.handle = Follows(c, d)]]
  /\ UNCHANGED asked

\* One store file too many, a file too large, or an error of the file system.
Fail(c) ==
  /\ \E place \in {"edited", "opened", "filled"} : At(c, place)
  /\ Done(c, Idle)
  /\ UNCHANGED <<file, temp, asked, writer>>

Step(c) ==
  \/ Lock(c) \/ Answer(c) \/ Read(c)
  \/ Open(c) \/ Fill(c) \/ Rename(c) \/ Fail(c)

-----------------------------------------------------------------------------
(* What happens around the sessions. *)

\* A process dies; its temporary file stays behind.
Kill(p) ==
  LET dead == {c \in Callers : ProcessOf[StoreOf[c]] = p}
  IN  /\ \E c \in dead : ~At(c, "idle")
      /\ job' = [c \in Callers |-> IF c \in dead THEN Idle ELSE job[c]]
      /\ mutex' = [s \in Stores |-> IF mutex[s] \in dead THEN NoOne ELSE mutex[s]]
      /\ UNCHANGED <<file, temp, asked, writer>>

RemoveFile ==
  /\ file' = Nothing
  /\ writer' = NoOne
  /\ job' = [c \in Callers |-> [job[c] EXCEPT !.handle = IF @ = "file" THEN "gone" ELSE @]]
  /\ UNCHANGED <<temp, mutex, asked>>

\* `queries rm`: any file of the store, by its name.
RemoveStoreFile == file # Nothing /\ RemoveFile

\* `queries prune`: a readable store whose graph is gone from the disk.
PruneStore == file \notin {Nothing, Torn, Strange} /\ RemoveFile

-----------------------------------------------------------------------------
Init ==
  /\ \/ file \in {Nothing, Strange, Empty}
     \/ \E n \in Names, q \in Queries, later \in BOOLEAN :
          file = [saved |-> <<[name |-> n, query |-> q]>>, history |-> <<q>>, newer |-> later]
  /\ temp = [p \in Processes |-> Nothing]
  /\ mutex = [s \in Stores |-> NoOne]
  /\ job = [c \in Callers |-> Idle]
  /\ asked = 0
  /\ writer = NoOne

Next ==
  \/ \E c \in Callers : Ask(c) \/ Step(c)
  \/ \E p \in Processes : Kill(p)
  \/ RemoveStoreFile \/ PruneStore

\* A request is straight-line code; there are no more requests than the bound.
Fairness == \A c \in Callers : WF_vars(Step(c))

Spec == Init /\ [][Next]_vars /\ Fairness

-----------------------------------------------------------------------------
Readable(f) == f \notin {Nothing, Torn, Strange}
Held(f) == IF Readable(f) THEN ToSet(f.saved) ELSE {}
Ran(f)  == IF Readable(f) THEN ToSet(f.history) ELSE {}

(***************************************************************************)
(* A reader sees the old file or the new one, never a half-written one,    *)
(* whoever is killed or fails in the middle; and what it sees has one      *)
(* entry per name, no query twice in the history, and no more of either    *)
(* than the ceilings allow.                                                *)
(***************************************************************************)
NeverHalfWritten ==
  /\ file # Torn
  /\ Readable(file) =>
       /\ \A r, s \in Held(file) : r.name = s.name => r = s
       /\ IsInjective(file.saved) /\ Len(file.saved) <= MaxSaved
       /\ IsInjective(file.history) /\ Len(file.history) <= MaxHistory

(***************************************************************************)
(* A replacement of the file takes nothing away that its request did not   *)
(* name, unless another session replaced the file in between: requests of  *)
(* one session never undo each other.  A file that does not parse is only  *)
(* ever removed by a person.                                               *)
(***************************************************************************)
LosesNothingElse ==
  [][/\ file = Strange => file' \in {Strange, Nothing}
     /\ \A c \in Callers :
          At(c, "filled") /\ job'[c].at = "idle" /\ file' \notin {file, Nothing} /\ Readable(file) =>
            \/ writer \notin {StoreOf[c]} /\ job[c].base # file
            \/ /\ \A s \in Held(file) : s \in Held(file') \/ (job[c].op.kind # "record" /\ s.name = job[c].op.name)
               /\ \A q \in Ran(file) \ Ran(file') :
                    job[c].op.kind = "record" /\ q = Last(file.history)]_vars

(***************************************************************************)
(* Every request is answered: the turn passes on after refusals, failures  *)
(* and the death of the process that had it.                               *)
(***************************************************************************)
StoreAnswers == \A c \in Callers : ~At(c, "idle") ~> At(c, "idle")

(***************************************************************************)
(* A store another version wrote is left alone (queries.rs:270): what this *)
(* version does not know in it is not dropped.                             *)
(***************************************************************************)
NewerStoreLeftAlone ==
  [][Readable(file) /\ file.newer => file' \in {file, Nothing}]_vars
=============================================================================
