------------------------- MODULE ViewCatalog_proofs -------------------------
(***************************************************************************)
(* The saved-view catalog on disk keeps what it acknowledged, and is       *)
(* atomic, for any number of viewers, names, requests and power losses.    *)
(*                                                                         *)
(* IInv says what the lock and the order of the writes are for.  Whoever   *)
(* is between reading and acknowledging has the lock, so what it read is   *)
(* still what the file holds; the staging file it renames is synced, so    *)
(* nothing a power loss can bring back is torn; and whatever it can bring  *)
(* back holds everything that was acknowledged.                            *)
(***************************************************************************)
EXTENDS ViewCatalog, FiniteSetTheorems, TLAPS

Values == Payloads \cup Strange \cup {Absent}

Places == {"idle", "waiting", "holding", "changed", "staged", "synced", "renamed"}

Files == [bytes : Atomic!Catalogs \cup {Unreadable}, synced : {TRUE}]

TypesHold ==
  /\ file \in Files
  /\ olds \subseteq Files
  /\ lock \in Viewers \cup {NoOne}
  /\ job \in [Viewers -> [at : Places, op : Operations, copy : [Names -> Values]]]
  /\ owed \in [Names -> SUBSET Values]

\* A copy is the file with the one change its request asks for, and is let through.
Prepares(j, bytes) ==
  /\ bytes # Unreadable
  /\ Admits(bytes, j.op)
  /\ j.copy = [bytes EXCEPT ![j.op.name] = j.op.to]

\* What the request v is at says of the disk.
Stands(v) ==
  LET j == job[v]
  IN  /\ j.at \in {"holding", "changed", "staged", "synced", "renamed"} => lock = v
      /\ j.at \in {"changed", "staged", "synced"} => Prepares(j, file.bytes)
      /\ j.at = "staged" => staging = {[bytes |-> j.copy, synced |-> FALSE]}
      /\ j.at = "synced" => staging = {[bytes |-> j.copy, synced |-> TRUE]}
      /\ j.at = "renamed" => /\ j.op.kind \in {"save", "delete"}
                             /\ file.bytes \in Atomic!Catalogs
                             /\ file.bytes # Unreadable
                             /\ file.bytes[j.op.name] = j.op.to

\* Whatever can become the catalog holds what was acknowledged.
OwedEverywhere ==
  \A f \in olds \cup {file} : \A n \in Names :
    owed[n] # {} => f.bytes # Unreadable /\ f.bytes[n] \in owed[n]

IInv ==
  /\ TypesHold
  /\ \A v \in Viewers : Stands(v)
  /\ OwedEverywhere

-----------------------------------------------------------------------------
(* The catalogs a decision makes. *)

LEMMA CatalogFacts ==
  ASSUME NEW c
  PROVE  c \in Atomic!Catalogs <=>
           c \in [Names -> Values] /\ Cardinality(Atomic!Held(c)) <= MaxViews
<1>1. \A S : Atomic!Cardinality(S) = Cardinality(S)
  BY DEF Atomic!Cardinality, Cardinality
<1> QED
  BY <1>1 DEF Atomic!Catalogs, Values

\* What Admits lets through is one change of one name, within the quota.
LEMMA ChangeFits ==
  ASSUME NEW c \in Atomic!Catalogs, NEW op \in Operations, Admits(c, op)
  PROVE  /\ op.kind \in {"save", "delete"}
         /\ op.name \in Names /\ op.to \in Payloads \cup {Absent}
         /\ c[op.name] \in Strange => op.to = Absent
         /\ [c EXCEPT ![op.name] = op.to] \in Atomic!Catalogs
<1> DEFINE d == [c EXCEPT ![op.name] = op.to]
<1>1. /\ op.kind \in {"save", "delete"}
      /\ op.name \in Names /\ op.to \in Payloads \cup {Absent}
      /\ op.kind = "delete" => op.to = Absent
  BY DEF Operations, Admits
<1>2. c[op.name] \in Strange => op.to = Absent
  BY <1>1, CatalogAssumption DEF Admits
<1>3. c \in [Names -> Values] /\ d \in [Names -> Values] /\ Cardinality(Atomic!Held(c)) <= MaxViews
  <2>1. c \in [Names -> Values] /\ Cardinality(Atomic!Held(c)) <= MaxViews
    BY CatalogFacts
  <2>2. op.to \in Values
    BY <1>1 DEF Values
  <2> QED
    BY <1>1, <2>1, <2>2
<1>4. /\ IsFiniteSet(Atomic!Held(c)) /\ IsFiniteSet(Atomic!Held(d))
      /\ Cardinality(Atomic!Held(c)) \in Nat /\ Cardinality(Atomic!Held(d)) \in Nat
      /\ MaxViews \in Nat
  <2>1. Atomic!Held(c) \subseteq Names /\ Atomic!Held(d) \subseteq Names
    BY DEF Atomic!Held
  <2>2. IsFiniteSet(Atomic!Held(c)) /\ IsFiniteSet(Atomic!Held(d))
    BY <2>1, CatalogAssumption, FS_Subset
  <2> QED
    BY <2>2, FS_CardinalityType, CatalogAssumption
<1>5. Cardinality(Atomic!Held(d)) <= MaxViews
  <2>1. CASE op.kind = "save" /\ c[op.name] = Absent
    <3>1. Cardinality(Atomic!Held(c)) < MaxViews
      BY <2>1, <1>1 DEF Admits
    <3>2. /\ IsFiniteSet(Atomic!Held(c) \cup {op.name})
          /\ Cardinality(Atomic!Held(c) \cup {op.name}) = Cardinality(Atomic!Held(c)) + 1
      <4>1. op.name \notin Atomic!Held(c)
        BY <2>1 DEF Atomic!Held
      <4> QED
        BY <4>1, <1>4, FS_AddElement
    <3>3. Atomic!Held(d) \subseteq Atomic!Held(c) \cup {op.name}
      BY <1>1, <1>3 DEF Atomic!Held
    <3>4. Cardinality(Atomic!Held(d)) <= Cardinality(Atomic!Held(c) \cup {op.name})
      BY <3>2, <3>3, FS_Subset
    <3> QED
      BY <3>1, <3>2, <3>4, <1>4
  <2>2. CASE ~(op.kind = "save" /\ c[op.name] = Absent)
    <3>1. c[op.name] # Absent
      BY <2>2, <1>1 DEF Admits
    <3>2. Atomic!Held(d) \subseteq Atomic!Held(c)
      BY <3>1, <1>1, <1>3 DEF Atomic!Held
    <3>3. Cardinality(Atomic!Held(d)) <= Cardinality(Atomic!Held(c))
      BY <3>2, <1>4, FS_Subset
    <3> QED
      BY <3>3, <1>3, <1>4
  <2> QED
    BY <2>1, <2>2
<1>6. d \in Atomic!Catalogs
  BY <1>3, <1>5, CatalogFacts
<1> QED
  BY <1>1, <1>2, <1>6

\* A prepared copy is a catalog that can be read, and differs in one name.
LEMMA PreparedFits ==
  ASSUME NEW j, j.op \in Operations,
         NEW bytes \in Atomic!Catalogs \cup {Unreadable}, Prepares(j, bytes)
  PROVE  /\ bytes \in Atomic!Catalogs
         /\ j.op.kind \in {"save", "delete"}
         /\ j.op.name \in Names /\ j.op.to \in Payloads \cup {Absent}
         /\ bytes[j.op.name] \in Strange => j.op.to = Absent
         /\ j.copy \in Atomic!Catalogs /\ j.copy # Unreadable
         /\ j.copy[j.op.name] = j.op.to
         /\ \A n \in Names \ {j.op.name} : j.copy[n] = bytes[n]
<1>1. bytes \in Atomic!Catalogs /\ Admits(bytes, j.op)
      /\ j.copy = [bytes EXCEPT ![j.op.name] = j.op.to]
  BY DEF Prepares
<1>2. /\ j.op.kind \in {"save", "delete"}
      /\ j.op.name \in Names /\ j.op.to \in Payloads \cup {Absent}
      /\ bytes[j.op.name] \in Strange => j.op.to = Absent
      /\ j.copy \in Atomic!Catalogs
  BY <1>1, ChangeFits
<1>3. j.copy # Unreadable
  BY <1>2, CatalogAssumption DEF Atomic!Catalogs
<1>4. bytes \in [Names -> Values]
  BY <1>1 DEF Atomic!Catalogs, Values
<1>5. j.copy[j.op.name] = j.op.to
  BY <1>1, <1>2, <1>4
<1>6. \A n \in Names \ {j.op.name} : j.copy[n] = bytes[n]
  BY <1>1, <1>2, <1>4
<1> QED
  BY <1>1, <1>2, <1>3, <1>5, <1>6

-----------------------------------------------------------------------------
(* The invariant holds at first. *)

LEMMA IdleIsAJob ==
  /\ Idle \in [at : Places, op : Operations, copy : [Names -> Values]]
  /\ Idle.at = "idle"
<1>1. Empty \in [Names -> Values]
  BY DEF Atomic!Empty, Empty, Values
<1>2. [kind |-> "read"] \in Operations
  BY DEF Operations
<1> QED
  BY <1>1, <1>2 DEF Idle, Places

LEMMA InitIInv == Init => IInv
<1> SUFFICES ASSUME Init PROVE IInv
  OBVIOUS
<1>1. TypesHold
  BY IdleIsAJob DEF Init, TypesHold, Files
<1>2. \A v \in Viewers : Stands(v)
  BY IdleIsAJob DEF Init, Stands
<1>3. OwedEverywhere
  BY DEF Init, OwedEverywhere
<1> QED
  BY <1>1, <1>2, <1>3 DEF IInv

-----------------------------------------------------------------------------
(* One lemma per step. *)

Jobs == [at : Places, op : Operations, copy : [Names -> Values]]

\* Whoever moves alone, or has the lock, or takes it free, leaves every other as it stands.
LEMMA OthersStand ==
  ASSUME IInv, NEW v \in Viewers, NEW j, job' = [job EXCEPT ![v] = j],
         lock \in {v, NoOne} \/ UNCHANGED <<file, staging, lock>>,
         NEW w \in Viewers \ {v}
  PROVE  Stands(w)'
<1>1. job[w] \in Jobs /\ job'[w] = job[w] /\ Stands(w)
  BY DEF IInv, TypesHold, Jobs
<1>2. CASE lock \in {v, NoOne}
  <2>1. job[w].at \notin {"holding", "changed", "staged", "synced", "renamed"}
    BY <1>1, <1>2, CatalogAssumption DEF Stands
  <2> QED
    BY <1>1, <2>1 DEF Stands
<1>3. CASE UNCHANGED <<file, staging, lock>>
  BY <1>1, <1>3 DEF Stands
<1> QED
  BY <1>2, <1>3

\* A request that is over, or only waits, says nothing of the disk.
LEMMA QuietStep ==
  ASSUME IInv, NEW v \in Viewers, NEW j \in Jobs, j.at \in {"idle", "waiting"},
         job' = [job EXCEPT ![v] = j],
         UNCHANGED <<file, olds, staging, owed>>,
         lock' = lock \/ (lock = v /\ lock' = NoOne)
  PROVE  IInv'
<1>1. TypesHold'
  BY DEF IInv, TypesHold, Jobs
<1>2. job'[v] = j
  BY DEF IInv, TypesHold
<1>3. Stands(v)'
  BY <1>2 DEF Stands
<1>4. \A w \in Viewers \ {v} : Stands(w)'
  BY OthersStand
<1>5. OwedEverywhere'
  BY DEF IInv, OwedEverywhere
<1> QED
  BY <1>1, <1>3, <1>4, <1>5 DEF IInv

LEMMA AskStep ==
  ASSUME IInv, NEW v \in Viewers, Ask(v)
  PROVE  IInv'
<1>1. PICK op \in Operations :
        job' = [job EXCEPT ![v] = [Idle EXCEPT !.at = "waiting", !.op = op]]
  BY DEF Ask
<1> DEFINE j == [Idle EXCEPT !.at = "waiting", !.op = op]
<1>2. j \in Jobs /\ j.at = "waiting"
  BY IdleIsAJob DEF Jobs, Places
<1> QED
  BY <1>1, <1>2, QuietStep DEF Ask

\* Whoever is past the wait has the lock.
LEMMA HasTheLock ==
  ASSUME IInv, NEW v \in Viewers,
         job[v].at \in {"holding", "changed", "staged", "synced", "renamed"}
  PROVE  lock = v
BY DEF IInv, Stands

LEMMA EndStep ==
  ASSUME IInv, NEW v \in Viewers, TimeOut(v) \/ Answer(v) \/ Fail(v) \/ Kill(v)
  PROVE  IInv'
<1>1. Idle \in Jobs /\ Idle.at = "idle"
  BY IdleIsAJob DEF Jobs
<1>2. CASE TimeOut(v)
  BY <1>1, <1>2, QuietStep DEF TimeOut
<1>3. CASE Answer(v)
  <2>1. lock = v
    BY <1>3, HasTheLock DEF Answer, At
  <2> QED
    BY <1>1, <1>3, <2>1, QuietStep DEF Answer, Release
<1>4. CASE Fail(v)
  <2>1. lock = v
    BY <1>4, HasTheLock DEF Fail, At
  <2> QED
    BY <1>1, <1>4, <2>1, QuietStep DEF Fail, Release
<1>5. CASE Kill(v)
  <2>1. lock' = lock \/ (lock = v /\ lock' = NoOne)
    BY <1>5 DEF Kill
  <2> QED
    BY <1>1, <1>5, <2>1, QuietStep DEF Kill
<1> QED
  BY <1>2, <1>3, <1>4, <1>5

LEMMA AcquireStep ==
  ASSUME IInv, NEW v \in Viewers, Acquire(v)
  PROVE  IInv'
<1> DEFINE j == [job[v] EXCEPT !.at = "holding"]
<1>1. /\ job[v] \in Jobs /\ job' = [job EXCEPT ![v] = j]
      /\ lock = NoOne /\ lock' = v
      /\ UNCHANGED <<file, olds, staging, owed>>
  BY DEF IInv, TypesHold, Jobs, Acquire, To
<1>2. j \in Jobs /\ job'[v] = j /\ j.at = "holding"
  BY <1>1 DEF IInv, TypesHold, Jobs, Places
<1>3. TypesHold'
  BY <1>1, <1>2 DEF IInv, TypesHold, Jobs
<1>4. Stands(v)'
  BY <1>1, <1>2 DEF Stands
<1>5. \A w \in Viewers \ {v} : Stands(w)'
  BY <1>1, OthersStand
<1>6. OwedEverywhere'
  BY <1>1 DEF IInv, OwedEverywhere
<1> QED
  BY <1>3, <1>4, <1>5, <1>6 DEF IInv

LEMMA ReadStep ==
  ASSUME IInv, NEW v \in Viewers, Read(v)
  PROVE  IInv'
<1>1. /\ job[v] \in Jobs /\ job[v].at = "holding"
      /\ file.bytes \in Atomic!Catalogs \cup {Unreadable}
  BY DEF IInv, TypesHold, Jobs, Files, Read, At
<1>2. lock = v
  BY <1>1, HasTheLock
<1> DEFINE c == file.bytes
           op == job[v].op
           j == [job[v] EXCEPT !.at = "changed", !.copy = [c EXCEPT ![op.name] = op.to]]
<1>3. /\ c # Unreadable /\ Admits(c, op)
      /\ job' = [job EXCEPT ![v] = j]
      /\ UNCHANGED <<file, olds, staging, lock, owed>>
  BY <1>1 DEF Read, Contents, IInv, TypesHold, Jobs
<1>4. /\ j.at = "changed" /\ j.op = op
      /\ j.copy = [c EXCEPT ![op.name] = op.to]
  BY <1>1 DEF Jobs
<1>5. Prepares(j, c)
  BY <1>3, <1>4 DEF Prepares
<1>6. j.copy \in [Names -> Values]
  BY <1>1, <1>4, <1>5, PreparedFits, CatalogFacts DEF Jobs
<1>7. j \in Jobs /\ job'[v] = j
  BY <1>1, <1>3, <1>4, <1>6 DEF IInv, TypesHold, Jobs, Places
<1>8. TypesHold'
  BY <1>3, <1>7 DEF IInv, TypesHold, Jobs
<1>9. Stands(v)'
  BY <1>2, <1>3, <1>4, <1>5, <1>7 DEF Stands
<1>10. \A w \in Viewers \ {v} : Stands(w)'
  BY <1>3, OthersStand
<1>11. OwedEverywhere'
  BY <1>3 DEF IInv, OwedEverywhere
<1> QED
  BY <1>8, <1>9, <1>10, <1>11 DEF IInv

\* Writing and syncing the staging file leaves the catalog alone.
LEMMA StageStep ==
  ASSUME IInv, NEW v \in Viewers, Stage(v) \/ Sync(v)
  PROVE  IInv'
<1> DEFINE place == IF Stage(v) THEN "staged" ELSE "synced"
           j == [job[v] EXCEPT !.at = place]
<1>1. /\ job[v] \in Jobs /\ Stands(v)
      /\ job' = [job EXCEPT ![v] = j]
      /\ UNCHANGED <<file, olds, lock, owed>>
  BY DEF IInv, TypesHold, Jobs, Stage, Sync, To, At
<1>2. /\ j \in Jobs /\ job'[v] = j
      /\ j.at = place /\ j.op = job[v].op /\ j.copy = job[v].copy
  BY <1>1 DEF IInv, TypesHold, Jobs, Places
<1>3. job[v].at \in {"changed", "staged"} /\ lock = v /\ Prepares(job[v], file.bytes)
  BY <1>1 DEF Stage, Sync, At, Stands
<1>4. TypesHold'
  BY <1>1, <1>2 DEF IInv, TypesHold, Jobs
<1>5. Prepares(j, file.bytes)
  BY <1>2, <1>3 DEF Prepares
<1>6. CASE Stage(v)
  <2>1. staging' = {[bytes |-> j.copy, synced |-> FALSE]}
    BY <1>2, <1>6 DEF Stage
  <2>2. Stands(v)'
    BY <1>1, <1>2, <1>3, <1>5, <1>6, <2>1 DEF Stands
  <2> QED
    BY <1>1, <1>3, <1>4, <2>2, OthersStand DEF IInv, OwedEverywhere
<1>7. CASE ~Stage(v)
  <2>1. staging = {[bytes |-> j.copy, synced |-> FALSE]}
    BY <1>1, <1>2, <1>7 DEF Sync, At, Stands
  <2>2. staging' = {[bytes |-> j.copy, synced |-> TRUE]}
    BY <1>7, <2>1 DEF Sync
  <2>3. job'[v].at = "synced" /\ job'[v].copy = j.copy /\ Prepares(job'[v], file'.bytes)
    BY <1>1, <1>2, <1>5, <1>7
  <2>4. lock' = v
    BY <1>1, <1>3
  <2>5. Stands(v)'
    BY <2>2, <2>3, <2>4 DEF Stands
  <2> QED
    BY <1>1, <1>3, <1>4, <2>5, OthersStand DEF IInv, OwedEverywhere
<1> QED
  BY <1>6, <1>7

\* The staging file is renamed whole and synced, and everything owed is in it but the name it changes.
LEMMA RenameStep ==
  ASSUME IInv, NEW v \in Viewers, Rename(v)
  PROVE  IInv'
<1> DEFINE j == job[v]
           new == [bytes |-> j.copy, synced |-> TRUE]
           k == [j EXCEPT !.at = "renamed"]
<1>1. /\ j \in Jobs /\ j.at = "synced" /\ j.op \in Operations
      /\ file \in Files /\ file.bytes \in Atomic!Catalogs \cup {Unreadable}
      /\ olds \subseteq Files
  BY DEF IInv, TypesHold, Jobs, Rename, At, Files
<1>2. lock = v /\ Prepares(j, file.bytes) /\ staging = {new}
  BY <1>1 DEF IInv, Stands
<1>3. /\ j.op.kind \in {"save", "delete"} /\ j.op.name \in Names
      /\ j.copy \in Atomic!Catalogs /\ j.copy # Unreadable
      /\ j.copy[j.op.name] = j.op.to
      /\ \A n \in Names \ {j.op.name} : j.copy[n] = file.bytes[n]
  BY <1>1, <1>2, PreparedFits
<1>4. /\ file' = new /\ olds' = olds \cup {file}
      /\ owed' = [owed EXCEPT ![j.op.name] = {}]
      /\ job' = [job EXCEPT ![v] = k] /\ lock' = lock
  BY <1>2 DEF Rename, To
<1>5. k \in Jobs /\ job'[v] = k /\ k.at = "renamed" /\ k.op = j.op
  BY <1>1, <1>4 DEF IInv, TypesHold, Jobs, Places
<1>6. new \in Files /\ new.bytes = j.copy
  BY <1>3 DEF Files
<1>7. TypesHold'
  BY <1>1, <1>4, <1>5, <1>6 DEF IInv, TypesHold, Jobs
<1>8. Stands(v)'
  BY <1>2, <1>3, <1>4, <1>5, <1>6 DEF Stands
<1>9. \A w \in Viewers \ {v} : Stands(w)'
  BY <1>2, <1>4, OthersStand
<1>10. OwedEverywhere'
  <2> SUFFICES ASSUME NEW f \in olds \cup {file} \cup {new}, NEW n \in Names, owed'[n] # {}
               PROVE  f.bytes # Unreadable /\ f.bytes[n] \in owed'[n]
    BY <1>4 DEF OwedEverywhere
  <2>1. n # j.op.name /\ owed'[n] = owed[n]
    BY <1>3, <1>4 DEF IInv, TypesHold
  <2>2. \A g \in olds \cup {file} : g.bytes # Unreadable /\ g.bytes[n] \in owed[n]
    BY <2>1 DEF IInv, OwedEverywhere
  <2> QED
    BY <1>3, <1>6, <2>1, <2>2
<1> QED
  BY <1>7, <1>8, <1>9, <1>10 DEF IInv

\* With the directory synced there is only the file, and it holds what is acknowledged.
LEMMA AcknowledgeStep ==
  ASSUME IInv, NEW v \in Viewers, Acknowledge(v)
  PROVE  IInv'
<1> DEFINE op == job[v].op
<1>1. job[v] \in Jobs /\ job[v].at = "renamed" /\ op \in Operations
  BY DEF IInv, TypesHold, Jobs, Acknowledge, At
<1>2. /\ lock = v /\ op.kind \in {"save", "delete"}
      /\ file.bytes # Unreadable /\ file.bytes[op.name] = op.to
  BY <1>1 DEF IInv, Stands
<1>3. op.name \in Names /\ op.to \in Values
  BY <1>1, <1>2 DEF Operations, Values
<1>4. /\ olds' = {} /\ owed' = [owed EXCEPT ![op.name] = {op.to}]
      /\ job' = [job EXCEPT ![v] = Idle] /\ lock' = NoOne
      /\ UNCHANGED <<file, staging>>
  BY DEF Acknowledge, Release
<1>5. Idle \in Jobs /\ Idle.at = "idle"
  BY IdleIsAJob DEF Jobs
<1>6. TypesHold'
  BY <1>3, <1>4, <1>5 DEF IInv, TypesHold, Jobs
<1>7. Stands(v)'
  <2>1. job'[v] = Idle
    BY <1>4 DEF IInv, TypesHold
  <2> QED
    BY <1>5, <2>1 DEF Stands
<1>8. \A w \in Viewers \ {v} : Stands(w)'
  BY <1>2, <1>4, OthersStand
<1>9. OwedEverywhere'
  <2> SUFFICES ASSUME NEW n \in Names, owed'[n] # {}
               PROVE  file.bytes # Unreadable /\ file.bytes[n] \in owed'[n]
    BY <1>4 DEF OwedEverywhere
  <2>1. CASE n = op.name
    BY <1>2, <1>3, <1>4, <2>1 DEF IInv, TypesHold
  <2>2. CASE n # op.name
    <3>1. owed'[n] = owed[n]
      BY <1>3, <1>4, <2>2 DEF IInv, TypesHold
    <3> QED
      BY <3>1 DEF IInv, OwedEverywhere
  <2> QED
    BY <2>1, <2>2
<1> QED
  BY <1>6, <1>7, <1>8, <1>9 DEF IInv

LEMMA StallStep ==
  ASSUME IInv, NEW v \in Viewers, Stall(v)
  PROVE  IInv'
BY DEF IInv, TypesHold, Stands, OwedEverywhere, Stall

\* Nothing the directory can lead to is torn, so what returns is one of them.
LEMMA WhatReturns ==
  ASSUME IInv, PowerLoss
  PROVE  file' \in olds \cup {file}
<1>1. PICK f \in olds \cup {file} : file' \in Survives(f)
  BY DEF PowerLoss
<1>2. f \in Files
  BY DEF IInv, TypesHold
<1>3. Survives(f) = {f}
  BY <1>2 DEF Survives, Files
<1> QED
  BY <1>1, <1>3

LEMMA PowerLossStep ==
  ASSUME IInv, PowerLoss
  PROVE  IInv'
<1>1. file' \in olds \cup {file} /\ olds' = {} /\ UNCHANGED owed
  BY WhatReturns DEF PowerLoss
<1>2. lock' = NoOne /\ job' = [v \in Viewers |-> Idle] /\ staging' = {}
  BY DEF PowerLoss
<1>3. TypesHold'
  BY <1>1, <1>2, IdleIsAJob DEF IInv, TypesHold
<1>4. \A v \in Viewers : Stands(v)'
  BY <1>2, IdleIsAJob DEF Stands
<1>5. OwedEverywhere'
  BY <1>1 DEF IInv, OwedEverywhere
<1> QED
  BY <1>3, <1>4, <1>5 DEF IInv

LEMMA NextIInv == IInv /\ [Next]_vars => IInv'
<1> SUFFICES ASSUME IInv, [Next]_vars PROVE IInv'
  OBVIOUS
<1>1. ASSUME NEW v \in Viewers, Ask(v) PROVE IInv'
  BY <1>1, AskStep
<1>2. ASSUME NEW v \in Viewers, Step(v) PROVE IInv'
  BY <1>2, AcquireStep, EndStep, ReadStep, StageStep, RenameStep, AcknowledgeStep DEF Step
<1>3. ASSUME NEW v \in Viewers, Kill(v) PROVE IInv'
  BY <1>3, EndStep
<1>4. ASSUME NEW v \in Viewers, Stall(v) PROVE IInv'
  BY <1>4, StallStep
<1>5. CASE PowerLoss
  BY <1>5, PowerLossStep
<1>6. CASE UNCHANGED vars
  BY <1>6 DEF IInv, TypesHold, Stands, OwedEverywhere, vars
<1> QED
  BY <1>1, <1>2, <1>3, <1>4, <1>5, <1>6 DEF Next

-----------------------------------------------------------------------------
(* The theorems. *)

\* The lock and the order of the writes keep what IInv says, in every behaviour.
THEOREM ViewCatalogInvariant == Spec => []IInv
<1>1. Init => IInv
  BY InitIInv
<1>2. IInv /\ [Next]_vars => IInv'
  BY NextIInv
<1> QED
  BY <1>1, <1>2, PTL DEF Spec

(***************************************************************************)
(* What a save or a deletion was acknowledged to leave under a name is     *)
(* there until another request replaces it, through any number of kills,   *)
(* stalls, failures and power losses: views.rs answers only after the      *)
(* staging file, the rename and the directory are on disk.                 *)
(***************************************************************************)
THEOREM ViewCatalogKeepsItsWord == Spec => []AcknowledgedSurvives
<1>1. IInv => AcknowledgedSurvives
  BY DEF IInv, OwedEverywhere, AcknowledgedSurvives
<1> QED
  BY <1>1, ViewCatalogInvariant, PTL

-----------------------------------------------------------------------------
(* The refinement. *)

CatalogVars == <<file.bytes, {f.bytes : f \in olds}>>

LEMMA RenameChanges ==
  ASSUME IInv, NEW v \in Viewers, Rename(v)
  PROVE  \E n \in Names, p \in Payloads \cup {Absent} : Atomic!Change(n, p)
<1> DEFINE j == job[v]
           new == [bytes |-> j.copy, synced |-> TRUE]
<1>1. /\ j \in Jobs /\ j.at = "synced" /\ j.op \in Operations
      /\ file.bytes \in Atomic!Catalogs \cup {Unreadable}
  BY DEF IInv, TypesHold, Jobs, Rename, At, Files
<1>2. Prepares(j, file.bytes) /\ staging = {new}
  BY <1>1 DEF IInv, Stands
<1>3. /\ j.op.name \in Names /\ j.op.to \in Payloads \cup {Absent}
      /\ file.bytes[j.op.name] \in Strange => j.op.to = Absent
      /\ j.copy \in Atomic!Catalogs
  BY <1>1, <1>2, PreparedFits
<1>4. file.bytes # Unreadable /\ j.copy = [file.bytes EXCEPT ![j.op.name] = j.op.to]
  BY <1>2 DEF Prepares
<1>5. file'.bytes = j.copy /\ olds' = olds \cup {file}
  BY <1>2 DEF Rename
<1>6. {f.bytes : f \in olds'} = {f.bytes : f \in olds} \cup {file.bytes}
  BY <1>5
<1>7. Atomic!Change(j.op.name, j.op.to)
  BY <1>3, <1>4, <1>5, <1>6 DEF Atomic!Change
<1>8. PICK n \in Names, p \in Payloads \cup {Absent} : n = j.op.name /\ p = j.op.to
  BY <1>3
<1>9. Atomic!Change(n, p)
  BY <1>7, <1>8 DEF Atomic!Change
<1> QED
  BY <1>9

LEMMA StepsRefine == IInv /\ [Next]_vars => [Atomic!Next]_CatalogVars
<1> SUFFICES ASSUME IInv, [Next]_vars PROVE [Atomic!Next]_CatalogVars
  OBVIOUS
<1>1. ASSUME UNCHANGED <<file, olds>> PROVE UNCHANGED CatalogVars
  BY <1>1 DEF CatalogVars
<1>2. ASSUME NEW v \in Viewers, Rename(v) PROVE Atomic!Next
  BY <1>2, RenameChanges DEF Atomic!Next
<1>3. ASSUME NEW v \in Viewers, Acknowledge(v) PROVE Atomic!Next
  <2>1. olds' = {} /\ UNCHANGED file
    BY <1>3 DEF Acknowledge
  <2>2. {f.bytes : f \in olds'} = {} /\ file'.bytes = file.bytes
    BY <2>1
  <2>3. Atomic!Settle
    BY <2>2 DEF Atomic!Settle
  <2> QED
    BY <2>3 DEF Atomic!Next
<1>4. CASE PowerLoss
  <2>1. file' \in olds \cup {file} /\ olds' = {}
    BY <1>4, WhatReturns DEF PowerLoss
  <2>2. file'.bytes \in {f.bytes : f \in olds} \cup {file.bytes} /\ {f.bytes : f \in olds'} = {}
    BY <2>1
  <2>3. Atomic!PowerLoss
    BY <2>2 DEF Atomic!PowerLoss
  <2> QED
    BY <2>3 DEF Atomic!Next
<1>5. ASSUME NEW v \in Viewers, Ask(v) \/ Step(v) \/ Kill(v) \/ Stall(v),
             ~Rename(v), ~Acknowledge(v)
      PROVE  UNCHANGED <<file, olds>>
  BY <1>5 DEF Ask, Step, Acquire, TimeOut, Read, Answer, Stage, Sync, Fail, Kill, Stall
<1>6. CASE UNCHANGED vars
  BY <1>1, <1>6 DEF vars
<1> QED
  BY <1>1, <1>2, <1>3, <1>4, <1>5, <1>6 DEF Next

(***************************************************************************)
(* The catalog is atomic: every step of every viewer, of the machines and  *)
(* of the file system is one change of one name within the quota, a        *)
(* settling, a whole undoing, or nothing.                                  *)
(***************************************************************************)
THEOREM ViewCatalogIsAtomic == Spec => ImplementsCatalog
<1>1. Init => Atomic!Init
  <2> SUFFICES ASSUME Init PROVE Atomic!Init
    OBVIOUS
  <2>1. file.bytes \in Atomic!Catalogs \cup {Unreadable}
    BY DEF Init
  <2>2. {f.bytes : f \in olds} = {}
    BY DEF Init
  <2> QED
    BY <2>1, <2>2 DEF Atomic!Init
<1>2. IInv /\ [Next]_vars => [Atomic!Next]_<<file.bytes, {f.bytes : f \in olds}>>
  BY StepsRefine DEF CatalogVars
<1> QED
  BY <1>1, <1>2, ViewCatalogInvariant, PTL DEF Spec, ImplementsCatalog, Atomic!Spec
=============================================================================
