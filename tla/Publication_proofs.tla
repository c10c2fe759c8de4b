------------------------- MODULE Publication_proofs -------------------------
(***************************************************************************)
(* Publication's safety for any number of callers, sockets, requests and   *)
(* attachments, and any capacity of the bus; and that it implements        *)
(* SharedLog.                                                              *)
(*                                                                         *)
(* IInv is what ShownMeetsTheBus rests on.  Whoever has committed and not  *)
(* yet published, or is between subscribing and being greeted, has the     *)
(* gate, so at most one caller is in either place and the bus lags the log *)
(* by at most its commit.  That every request enters the log once needs    *)
(* the numbers of the requests: a log of distinct requests, none of them   *)
(* later than its caller's last, is also short enough for the revisions    *)
(* that requests can expect.                                               *)
(***************************************************************************)
EXTENDS Publication, FiniteSetTheorems, SequenceTheorems, TLAPS

-----------------------------------------------------------------------------
(* Prefixes of a sequence. *)

LEMMA WholePrefix ==
  ASSUME NEW S, NEW s \in Seq(S)
  PROVE  Len(s) \in Nat /\ SubSeq(s, 1, Len(s)) = s
BY LenProperties, SubSeqFull

LEMMA PrefixFacts ==
  ASSUME NEW S, NEW s \in Seq(S), NEW n \in 0..Len(s)
  PROVE  /\ SubSeq(s, 1, n) \in Seq(S)
         /\ Len(SubSeq(s, 1, n)) = n
         /\ \A i \in 1..n : SubSeq(s, 1, n)[i] = s[i]
<1>1. Len(s) \in Nat /\ n \in Nat /\ n <= Len(s)
  BY LenProperties
<1>2. \A i \in 1..n : s[i] \in S
  BY <1>1, ElementOfSeq
<1>3. /\ SubSeq(s, 1, n) \in Seq(S)
      /\ Len(SubSeq(s, 1, n)) = IF 1 <= n THEN n - 1 + 1 ELSE 0
      /\ \A i \in 1..(n - 1 + 1) : SubSeq(s, 1, n)[i] = s[1 + i - 1]
  BY <1>1, <1>2, SubSeqProperties
<1> QED
  BY <1>1, <1>3

\* Appending leaves the prefixes there were.
LEMMA PrefixOfAppend ==
  ASSUME NEW S, NEW s \in Seq(S), NEW e \in S, NEW n \in 0..Len(s)
  PROVE  SubSeq(Append(s, e), 1, n) = SubSeq(s, 1, n)
<1> DEFINE t == Append(s, e)
<1>1. /\ t \in Seq(S) /\ Len(t) = Len(s) + 1 /\ Len(s) \in Nat
      /\ \A i \in 1..Len(s) : t[i] = s[i]
  BY AppendProperties, LenProperties
<1>2. n \in 0..Len(t)
  BY <1>1
<1>3. /\ SubSeq(t, 1, n) \in Seq(S) /\ Len(SubSeq(t, 1, n)) = n
      /\ \A i \in 1..n : SubSeq(t, 1, n)[i] = t[i]
  BY <1>1, <1>2, PrefixFacts
<1>4. /\ SubSeq(s, 1, n) \in Seq(S) /\ Len(SubSeq(s, 1, n)) = n
      /\ \A i \in 1..n : SubSeq(s, 1, n)[i] = s[i]
  BY PrefixFacts
<1>5. \A i \in 1..n : SubSeq(t, 1, n)[i] = SubSeq(s, 1, n)[i]
  BY <1>1, <1>3, <1>4
<1> QED
  BY <1>3, <1>4, <1>5, SeqEqual

-----------------------------------------------------------------------------
(* The inductive invariant. *)

Gated == [pc |-> "gated"]

Underway == [pc : {"prepared", "committed"}, base : Nat, request : Requests,
             state : Seq(Requests)]

TypesHold ==
  /\ log \in Seq(Requests)
  /\ gate \in Callers \cup {Free}
  /\ task \in [Callers -> {Idle, Gated} \cup Underway]
  /\ made \in [Callers -> 0..MaxRequests]
  /\ bus \in Seq(Seq(Requests))
  /\ socket \in [Clients -> {"away", "subscribed", "live"}]
  /\ cursor \in [Clients -> Nat]
  /\ shown \in [Clients -> Seq(Requests)]

\* Whoever is in the middle of something has the gate, or is a live socket.
GateHeld ==
  /\ \A c \in Callers : task[c].pc \in {"gated", "committed"} => gate = c
  /\ \A k \in Clients : socket[k] = "subscribed" => gate = k
  /\ \A k \in Clients : task[k] # Idle => socket[k] = "live"
  /\ \A c \in Callers : task[c] = Gated => c \in Others /\ made[c] < MaxRequests

\* The log holds no request twice, and none its caller has still to make.
RequestsOnce ==
  /\ \A i \in 1..Len(log) : log[i].nth <= made[log[i].by]
  /\ \A i, j \in 1..Len(log) :
       log[i].by = log[j].by /\ log[i].nth = log[j].nth => i = j

\* Prepared on a prefix of a log, and not in that log yet.
Fits(c, number, t, l) ==
  /\ t.base \in 0..Len(l)
  /\ t.request.by = c /\ t.request.nth = number
  /\ t.request.expected \in {Anywhere, t.base}
  /\ t.state = Append(SubSeq(l, 1, t.base), t.request)
  /\ \A i \in 1..Len(l) : l[i].by = c => l[i].nth # number

TasksFit ==
  \A c \in Callers : task[c].pc = "prepared" => Fits(c, made[c], task[c], log)

\* The bus is the log, but for the commit whose caller has the gate.
BusFollows ==
  /\ Len(bus) <= Len(log)
  /\ \A i \in 1..Len(bus) : bus[i] = SubSeq(log, 1, i)
  /\ \A c \in Callers : task[c].pc = "committed" =>
       task[c].state = log /\ Len(log) = Len(bus) + 1
  /\ (\A c \in Callers : task[c].pc # "committed") => Len(log) = Len(bus)

\* Each receiver stands where what its client shows ends.
ClientsFollow ==
  \A k \in Clients :
    /\ socket[k] = "subscribed" => cursor[k] = Len(bus)
    /\ socket[k] = "live" => /\ cursor[k] \in 0..Len(bus)
                             /\ shown[k] = SubSeq(log, 1, cursor[k])

IInv ==
  /\ TypesHold
  /\ GateHeld
  /\ RequestsOnce
  /\ TasksFit
  /\ BusFollows
  /\ ClientsFollow

-----------------------------------------------------------------------------
(* Types and counts. *)

LEMMA CallerFacts ==
  /\ IsFiniteSet(Callers) /\ Cardinality(Callers) \in Nat
  /\ Free \notin Callers
  /\ Clients \subseteq Callers /\ Others \subseteq Callers
  /\ Clients \cap Others = {}
  /\ MaxRequests \in Nat
<1>1. IsFiniteSet(Callers)
  BY PublicationAssumption DEF Callers
<1> QED
  BY <1>1, PublicationAssumption, FS_CardinalityType DEF Callers, Free

\* The places of a caller, told apart by pc alone.
LEMMA TaskFacts ==
  ASSUME NEW t \in {Idle, Gated} \cup Underway
  PROVE  /\ t.pc = "idle" <=> t = Idle
         /\ t.pc = "gated" <=> t = Gated
         /\ t.pc \in {"prepared", "committed"} <=> t \in Underway
         /\ t.pc \in {"idle", "gated", "prepared", "committed"}
         /\ t \in Underway => /\ t.base \in Nat /\ t.request \in Requests
                              /\ t.state \in Seq(Requests)
<1>1. CASE t \in {Idle, Gated}
  <2>1. Idle.pc = "idle" /\ Gated.pc = "gated"
    BY DEF Idle, Gated
  <2> QED
    BY <1>1, <2>1 DEF Underway
<1>2. CASE t \in Underway
  <2>1. t.pc \in {"prepared", "committed"}
    BY <1>2 DEF Underway
  <2>2. Idle.pc = "idle" /\ Gated.pc = "gated"
    BY DEF Idle, Gated
  <2> QED
    BY <1>2, <2>1, <2>2 DEF Underway
<1> QED
  BY <1>1, <1>2

\* The log is no longer than all callers together have requests.
LEMMA LogBounded ==
  ASSUME TypesHold, RequestsOnce
  PROVE  Len(log) \in Nat /\ Len(log) <= MaxRequests * Cardinality(Callers)
<1> DEFINE numbers == 1..MaxRequests
           f == [i \in 1..Len(log) |-> <<log[i].by, log[i].nth>>]
<1>1. Len(log) \in Nat /\ log \in [1..Len(log) -> Requests]
  BY LenProperties DEF TypesHold
<1>2. /\ IsFiniteSet(1..Len(log)) /\ Cardinality(1..Len(log)) = Len(log)
      /\ IsFiniteSet(numbers) /\ Cardinality(numbers) = MaxRequests
  <2>1. \A n \in Nat : IsFiniteSet(1..n) /\ Cardinality(1..n) = n
    BY FS_Interval
  <2> QED
    BY <1>1, <2>1, CallerFacts
<1>3. /\ IsFiniteSet(Callers \X numbers)
      /\ Cardinality(Callers \X numbers) = Cardinality(Callers) * MaxRequests
  BY <1>2, CallerFacts, FS_Product
<1>4. \A i \in 1..Len(log) : f[i] \in Callers \X numbers
  <2>1. \A r \in Requests : r.by \in Callers /\ r.nth \in 1..MaxRequests
    BY DEF Requests
  <2> QED
    BY <1>1, <2>1
<1>5. \A i, j \in 1..Len(log) : f[i] = f[j] => i = j
  BY DEF RequestsOnce
<1>6. f \in Injection(1..Len(log), Callers \X numbers)
  BY <1>4, <1>5 DEF Injection, IsInjective
<1>7. Cardinality(1..Len(log)) <= Cardinality(Callers \X numbers)
  BY <1>2, <1>3, <1>6, FS_Injection
<1>8. Cardinality(Callers) * MaxRequests = MaxRequests * Cardinality(Callers)
  BY CallerFacts
<1> QED
  BY <1>1, <1>2, <1>3, <1>7, <1>8

(***************************************************************************)
(* What preparing gives: nothing, or the request on the whole log.         *)
(***************************************************************************)
LEMMA PreparedFacts ==
  ASSUME TypesHold, RequestsOnce, NEW c \in Callers, made[c] < MaxRequests,
         NEW expected, NEW t, t = PreparedBy(c, expected)
  PROVE  \/ t = Idle
         \/ /\ t \in Underway /\ t.pc = "prepared" /\ t.base = Len(log)
            /\ t.request.by = c /\ t.request.nth = made[c] + 1
            /\ t.request.expected \in {Anywhere, Len(log)}
            /\ t.state = Append(log, t.request)
<1> SUFFICES ASSUME t # Idle
             PROVE  /\ t \in Underway /\ t.pc = "prepared" /\ t.base = Len(log)
                    /\ t.request.by = c /\ t.request.nth = made[c] + 1
                    /\ t.request.expected \in {Anywhere, Len(log)}
                    /\ t.state = Append(log, t.request)
  OBVIOUS
<1> DEFINE r == [by |-> c, nth |-> made[c] + 1, expected |-> expected]
<1>1. /\ expected \in {Anywhere, Len(log)}
      /\ t = [pc |-> "prepared", base |-> Len(log), request |-> r, state |-> Append(log, r)]
  BY DEF PreparedBy
<1>2. Len(log) \in Nat /\ Len(log) <= MaxRequests * Cardinality(Callers)
  BY LogBounded
<1>3. made[c] + 1 \in 1..MaxRequests
  BY CallerFacts DEF TypesHold
<1>4. expected \in {Anywhere} \cup 0..(MaxRequests * Cardinality(Callers))
  <2>1. \A m \in Nat : Len(log) <= m => Len(log) \in 0..m
    BY <1>2
  <2>2. MaxRequests * Cardinality(Callers) \in Nat
    BY CallerFacts
  <2> QED
    BY <1>1, <1>2, <2>1, <2>2
<1>5. r \in Requests
  BY <1>3, <1>4 DEF Requests
<1>6. Append(log, r) \in Seq(Requests)
  BY <1>5, AppendProperties DEF TypesHold
<1> QED
  BY <1>1, <1>2, <1>5, <1>6 DEF Underway

-----------------------------------------------------------------------------
(* The steps of a caller. *)

LEMMA InitIInv == Init => IInv
<1> SUFFICES ASSUME Init PROVE IInv
  OBVIOUS
<1>1. log = <<>> /\ bus = <<>> /\ Len(log) = 0 /\ Len(bus) = 0
  BY EmptySeq DEF Init
<1>2. <<>> \in Seq(Requests) /\ <<>> \in Seq(Seq(Requests))
  BY EmptySeq
<1>3. Idle.pc = "idle" /\ Idle # Gated
  BY DEF Idle, Gated
<1>4. TypesHold
  BY <1>2, CallerFacts DEF Init, TypesHold
<1>5. GateHeld /\ RequestsOnce /\ TasksFit /\ BusFollows /\ ClientsFollow
  BY <1>1, <1>3, CallerFacts
    DEF Init, GateHeld, RequestsOnce, TasksFit, BusFollows, ClientsFollow
<1> QED
  BY <1>4, <1>5 DEF IInv

\* A step between two commits: what was committed and what is shown stay.
LEMMA QuietStep ==
  ASSUME IInv, UNCHANGED <<log, bus, socket, cursor, shown>>,
         TypesHold', GateHeld', TasksFit',
         \A c \in Callers : made'[c] >= made[c],
         \A c \in Callers :
           /\ task'[c].pc = "committed" <=> task[c].pc = "committed"
           /\ task'[c].pc = "committed" => task'[c].state = task[c].state
  PROVE  IInv'
<1>1. RequestsOnce'
  <2>1. \A i \in 1..Len(log) : log[i] \in Requests /\ log[i].nth <= made[log[i].by]
    BY LenProperties DEF IInv, TypesHold, RequestsOnce
  <2>2. \A r \in Requests : r.by \in Callers /\ r.nth \in Nat
    BY CallerFacts DEF Requests
  <2>3. \A c \in Callers : made[c] \in Nat /\ made'[c] \in Nat
    BY CallerFacts DEF IInv, TypesHold
  <2>4. \A a, b, d \in Nat : a <= b /\ d >= b => a <= d
    OBVIOUS
  <2>5. \A i \in 1..Len(log) : log[i].nth <= made'[log[i].by]
    BY <2>1, <2>2, <2>3, <2>4
  <2> QED
    BY <2>5 DEF IInv, RequestsOnce
<1>2. BusFollows'
  BY DEF IInv, BusFollows
<1>3. ClientsFollow'
  BY DEF IInv, ClientsFollow
<1> QED
  BY <1>1, <1>2, <1>3 DEF IInv

\* A caller's own request is on the whole log when it has just prepared it.
LEMMA PreparedFits ==
  ASSUME IInv, NEW c \in Callers, NEW t \in Underway,
         t.base = Len(log), t.request.by = c, t.request.nth = made[c] + 1,
         t.request.expected \in {Anywhere, Len(log)},
         t.state = Append(log, t.request)
  PROVE  Fits(c, made[c] + 1, t, log)
<1>1. Len(log) \in Nat /\ SubSeq(log, 1, Len(log)) = log
  BY WholePrefix DEF IInv, TypesHold
<1>2. made[c] \in Nat
  BY CallerFacts DEF IInv, TypesHold
<1>3. \A i \in 1..Len(log) : log[i].by = c => log[i].nth # made[c] + 1
  <2>1. \A i \in 1..Len(log) : log[i] \in Requests
    BY LenProperties DEF IInv, TypesHold
  <2>2. \A r \in Requests : r.nth \in Nat
    BY CallerFacts DEF Requests
  <2>3. \A i \in 1..Len(log) : log[i].by = c => log[i].nth <= made[c]
    BY DEF IInv, RequestsOnce
  <2> QED
    BY <1>2, <2>1, <2>2, <2>3
<1> QED
  BY <1>1, <1>2, <1>3 DEF Fits

LEMMA PrepareStep ==
  ASSUME IInv, NEW c \in Callers, Prepare(c)
  PROVE  IInv'
<1>1. PICK expected \in Stamps(c) : task' = [task EXCEPT ![c] = PreparedBy(c, expected)]
  BY DEF Prepare
<1> DEFINE t == PreparedBy(c, expected)
<1>2. /\ task[c] = Idle /\ made[c] < MaxRequests /\ (c \in Clients => socket[c] = "live")
      /\ made' = [made EXCEPT ![c] = @ + 1]
      /\ UNCHANGED <<log, gate, bus, socket, cursor, shown>>
  BY DEF Prepare, MayAsk, clientVars
<1>3. \/ t = Idle
      \/ /\ t \in Underway /\ t.pc = "prepared" /\ t.base = Len(log)
         /\ t.request.by = c /\ t.request.nth = made[c] + 1
         /\ t.request.expected \in {Anywhere, Len(log)}
         /\ t.state = Append(log, t.request)
  BY <1>2, PreparedFacts DEF IInv
<1>4. Idle.pc = "idle" /\ Gated.pc = "gated" /\ t.pc \in {"idle", "prepared"} /\ t # Gated
  BY <1>3 DEF Idle, Gated
<1>5. TypesHold'
  <2>1. made[c] + 1 \in 0..MaxRequests
    BY <1>2, CallerFacts DEF IInv, TypesHold
  <2> QED
    BY <1>1, <1>2, <1>3, <2>1 DEF IInv, TypesHold
<1>6. GateHeld'
  BY <1>1, <1>2, <1>4, CallerFacts DEF IInv, TypesHold, GateHeld
<1>7. TasksFit'
  <2>1. t.pc = "prepared" => Fits(c, made[c] + 1, t, log)
    BY <1>3, <1>4, PreparedFits
  <2>2. \A d \in Callers : /\ task'[d] = IF d = c THEN t ELSE task[d]
                           /\ made'[d] = IF d = c THEN made[c] + 1 ELSE made[d]
    BY <1>1, <1>2 DEF IInv, TypesHold
  <2> QED
    BY <1>2, <2>1, <2>2 DEF IInv, TasksFit
<1>8. \A d \in Callers : made'[d] >= made[d]
  BY <1>2, CallerFacts DEF IInv, TypesHold
<1>9. \A d \in Callers : task'[d].pc = "committed" =>
         task[d].pc = "committed" /\ task'[d] = task[d]
  BY <1>1, <1>4 DEF IInv, TypesHold
<1>10. \A d \in Callers : task[d].pc = "committed" => task'[d] = task[d]
  BY <1>1, <1>2, <1>4 DEF IInv, TypesHold
<1> QED
  BY <1>2, <1>5, <1>6, <1>7, <1>8, <1>9, <1>10, QuietStep

\* A caller that gives up, refused or gone, leaves its place and the gate.
LEMMA GiveUpStep ==
  ASSUME IInv, NEW c \in Callers, Abandon(c) \/ Conflict(c)
  PROVE  IInv'
<1>1. /\ task[c].pc = "prepared" /\ task' = [task EXCEPT ![c] = Idle]
      /\ gate' \in {gate, Free} /\ (gate' # gate => gate = c)
      /\ UNCHANGED <<log, made, bus, socket, cursor, shown>>
  BY DEF Abandon, Conflict, clientVars
<1>2. Idle.pc = "idle" /\ Gated.pc = "gated" /\ Idle # Gated
  BY DEF Idle, Gated
<1>3. \A d \in Callers : task'[d] = IF d = c THEN Idle ELSE task[d]
  BY <1>1 DEF IInv, TypesHold
<1>4. TypesHold'
  BY <1>1 DEF IInv, TypesHold
<1>5. GateHeld'
  <2>1. \A k \in Clients : task[k] # Idle => socket[k] = "live"
    BY DEF IInv, GateHeld
  <2>2. task[c] # Idle
    BY <1>1, <1>2
  <2> QED
    BY <1>1, <1>2, <1>3, <2>1, <2>2, CallerFacts DEF IInv, GateHeld
<1>6. TasksFit'
  BY <1>1, <1>2, <1>3 DEF IInv, TasksFit
<1>7. \A d \in Callers : made'[d] >= made[d]
  BY <1>1, CallerFacts DEF IInv, TypesHold
<1> QED
  BY <1>1, <1>2, <1>3, <1>4, <1>5, <1>6, <1>7, QuietStep

LEMMA EnterStep ==
  ASSUME IInv, NEW c \in Callers, Enter(c) \/ EnterUnprepared(c)
  PROVE  IInv'
<1>1. /\ gate = Free /\ gate' = c
      /\ UNCHANGED <<log, made, bus, socket, cursor, shown>>
      /\ \/ task[c].pc = "prepared" /\ task' = task
         \/ /\ task[c] = Idle /\ c \in Others /\ made[c] < MaxRequests
            /\ task' = [task EXCEPT ![c] = Gated]
  BY DEF Enter, EnterUnprepared, MayAsk, clientVars, Gated
<1>2. Idle.pc = "idle" /\ Gated.pc = "gated" /\ Idle # Gated
  BY DEF Idle, Gated
<1>3. \A d \in Callers : d # c => task'[d] = task[d]
  BY <1>1 DEF IInv, TypesHold
<1>4. task'[c] = task[c] \/ task'[c] = Gated
  BY <1>1 DEF IInv, TypesHold
<1>5. TypesHold'
  BY <1>1 DEF IInv, TypesHold
<1>6. GateHeld'
  <2>1. \A d \in Callers : gate # d
    BY <1>1, CallerFacts
  <2>2. c \in Others => c \notin Clients
    BY CallerFacts
  <2> QED
    BY <1>1, <1>2, <1>3, <1>4, <2>1, <2>2, CallerFacts DEF IInv, TypesHold, GateHeld
<1>7. TasksFit'
  BY <1>1, <1>2, <1>3, <1>4 DEF IInv, TasksFit
<1>8. \A d \in Callers : made'[d] >= made[d]
  BY <1>1, CallerFacts DEF IInv, TypesHold
<1>9. \A d \in Callers : /\ task'[d].pc = "committed" <=> task[d].pc = "committed"
                         /\ task'[d].pc = "committed" => task'[d].state = task[d].state
  BY <1>1, <1>2, <1>3, <1>4
<1> QED
  BY <1>1, <1>5, <1>6, <1>7, <1>8, <1>9, QuietStep

LEMMA PrepareInsideStep ==
  ASSUME IInv, NEW c \in Callers, PrepareInside(c)
  PROVE  IInv'
<1> DEFINE t == PreparedBy(c, Anywhere)
<1>1. /\ task[c].pc = "gated" /\ task' = [task EXCEPT ![c] = t]
      /\ made' = [made EXCEPT ![c] = @ + 1]
      /\ UNCHANGED <<log, gate, bus, socket, cursor, shown>>
  BY DEF PrepareInside, clientVars
<1>2. task[c] = Gated /\ gate = c /\ c \in Others /\ made[c] < MaxRequests
  <2>1. task[c] \in {Idle, Gated} \cup Underway
    BY DEF IInv, TypesHold
  <2> QED
    BY <1>1, <2>1, TaskFacts DEF IInv, GateHeld
<1>3. /\ t \in Underway /\ t.pc = "prepared" /\ t.base = Len(log)
      /\ t.request.by = c /\ t.request.nth = made[c] + 1
      /\ t.request.expected \in {Anywhere, Len(log)}
      /\ t.state = Append(log, t.request)
  <2>1. t # Idle
    BY DEF PreparedBy, Idle
  <2> QED
    BY <1>2, <2>1, PreparedFacts DEF IInv
<1>4. Gated.pc = "gated" /\ t # Gated /\ t # Idle
  BY <1>3 DEF Idle, Gated
<1>5. TypesHold'
  <2>1. made[c] + 1 \in 0..MaxRequests
    BY <1>2, CallerFacts DEF IInv, TypesHold
  <2> QED
    BY <1>1, <1>3, <2>1 DEF IInv, TypesHold
<1>6. \A d \in Callers : /\ task'[d] = IF d = c THEN t ELSE task[d]
                         /\ made'[d] = IF d = c THEN made[c] + 1 ELSE made[d]
  BY <1>1 DEF IInv, TypesHold
<1>7. GateHeld'
  BY <1>1, <1>2, <1>3, <1>4, <1>6, CallerFacts DEF IInv, GateHeld
<1>8. TasksFit'
  <2>1. Fits(c, made[c] + 1, t, log)
    BY <1>3, PreparedFits
  <2> QED
    BY <1>1, <1>6, <2>1 DEF IInv, TasksFit
<1>9. \A d \in Callers : made'[d] >= made[d]
  <2>1. \A d \in Callers : made[d] \in Nat
    BY CallerFacts DEF IInv, TypesHold
  <2> QED
    BY <1>6, <2>1
<1>10. \A d \in Callers : /\ task'[d].pc = "committed" <=> task[d].pc = "committed"
                          /\ task'[d].pc = "committed" => task'[d].state = task[d].state
  BY <1>1, <1>3, <1>6
<1> QED
  BY <1>1, <1>5, <1>7, <1>8, <1>9, <1>10, QuietStep

(***************************************************************************)
(* A commit on the revision it was prepared on: the log grows by its       *)
(* request, and nobody else is between a commit and its publication.       *)
(***************************************************************************)
LEMMA CommitFacts ==
  ASSUME IInv, NEW c \in Callers, Commit(c)
  PROVE  /\ task[c] \in Underway /\ gate = c /\ Len(log) \in Nat
         /\ Fits(c, made[c], task[c], log)
         /\ task[c].request.expected \in {Anywhere, Len(log)}
         /\ log' = Append(log, task[c].request)
         /\ log' = task[c].state
         /\ log' \in Seq(Requests) /\ Len(log') = Len(log) + 1
         /\ \A i \in 1..Len(log) : log'[i] = log[i]
         /\ log'[Len(log) + 1] = task[c].request
         /\ \A d \in Callers : task[d].pc # "committed"
         /\ \A k \in Clients : socket[k] # "subscribed"
         /\ Len(bus) = Len(log)
<1>1. task[c] \in Underway /\ gate = c /\ task[c].base = Len(log) /\ log' = task[c].state
  <2>1. task[c] \in {Idle, Gated} \cup Underway
    BY DEF IInv, TypesHold
  <2> QED
    BY <2>1, TaskFacts DEF Commit, BaseIsCurrent
<1>2. Fits(c, made[c], task[c], log)
  BY DEF Commit, IInv, TasksFit
<1>3. Len(log) \in Nat /\ SubSeq(log, 1, Len(log)) = log
  BY WholePrefix DEF IInv, TypesHold
<1>4. log' = Append(log, task[c].request) /\ task[c].request \in Requests
  BY <1>1, <1>2, <1>3 DEF Fits, Underway
<1>5. /\ log' \in Seq(Requests) /\ Len(log') = Len(log) + 1
      /\ \A i \in 1..Len(log) : log'[i] = log[i]
      /\ log'[Len(log) + 1] = task[c].request
  BY <1>4, AppendProperties DEF IInv, TypesHold
<1>6. \A d \in Callers : task[d].pc # "committed"
  BY <1>1 DEF Commit, IInv, GateHeld
<1>7. \A k \in Clients : socket[k] # "subscribed"
  <2>1. task[c] # Idle
    BY DEF Commit, Idle
  <2> QED
    BY <1>1, <2>1 DEF IInv, GateHeld
<1>8. Len(bus) = Len(log)
  BY <1>6 DEF IInv, BusFollows
<1> QED
  BY <1>1, <1>2, <1>3, <1>4, <1>5, <1>6, <1>7, <1>8 DEF Fits

LEMMA CommitStep ==
  ASSUME IInv, NEW c \in Callers, Commit(c)
  PROVE  IInv'
<1> DEFINE u == [task[c] EXCEPT !.pc = "committed"]
<1>1. /\ task' = [task EXCEPT ![c] = u]
      /\ UNCHANGED <<gate, made, bus, socket, cursor, shown>>
  BY DEF Commit, clientVars
<1>2. /\ task[c] \in Underway /\ gate = c /\ Len(log) \in Nat
      /\ Fits(c, made[c], task[c], log)
      /\ log' = Append(log, task[c].request) /\ log' = task[c].state
      /\ log' \in Seq(Requests) /\ Len(log') = Len(log) + 1
      /\ \A i \in 1..Len(log) : log'[i] = log[i]
      /\ log'[Len(log) + 1] = task[c].request
      /\ \A d \in Callers : task[d].pc # "committed"
      /\ \A k \in Clients : socket[k] # "subscribed"
      /\ Len(bus) = Len(log)
  BY CommitFacts
<1>3. /\ u \in Underway /\ u.pc = "committed" /\ u.state = task[c].state
      /\ u # Idle /\ u # Gated /\ task[c] # Idle
  BY <1>2 DEF Underway, Idle, Gated
<1>4. \A d \in Callers : task'[d] = IF d = c THEN u ELSE task[d]
  BY <1>1 DEF IInv, TypesHold
<1>5. \A n \in 0..Len(log) : SubSeq(log', 1, n) = SubSeq(log, 1, n)
  <2>1. task[c].request \in Requests
    BY <1>2 DEF Underway
  <2> QED
    BY <1>2, <2>1, PrefixOfAppend DEF IInv, TypesHold
<1>6. TypesHold'
  BY <1>1, <1>2, <1>3 DEF IInv, TypesHold
<1>7. GateHeld'
  BY <1>1, <1>2, <1>3, <1>4, CallerFacts DEF IInv, GateHeld
<1>8. RequestsOnce'
  <2>1. \A i \in 1..Len(log') : i \in 1..Len(log) \/ i = Len(log) + 1
    BY <1>2
  <2>2. /\ task[c].request.by = c /\ task[c].request.nth = made[c]
        /\ \A i \in 1..Len(log) : log[i].by = c => log[i].nth # made[c]
    BY <1>2 DEF Fits
  <2>3. made[c] <= made[c]
    BY CallerFacts DEF IInv, TypesHold
  <2>4. \A i \in 1..Len(log') : log'[i].nth <= made[log'[i].by]
    BY <1>2, <2>1, <2>2, <2>3 DEF IInv, RequestsOnce
  <2>5. \A i, j \in 1..Len(log') :
          log'[i].by = log'[j].by /\ log'[i].nth = log'[j].nth => i = j
    BY <1>2, <2>1, <2>2 DEF IInv, RequestsOnce
  <2> QED
    BY <1>1, <2>4, <2>5 DEF RequestsOnce
<1>9. TasksFit'
  <2> SUFFICES ASSUME NEW d \in Callers, task'[d].pc = "prepared"
               PROVE  Fits(d, made'[d], task'[d], log')
    BY DEF TasksFit
  <2>1. d # c /\ task'[d] = task[d] /\ made'[d] = made[d]
    BY <1>1, <1>3, <1>4
  <2>2. Fits(d, made[d], task[d], log)
    BY <2>1 DEF IInv, TasksFit
  <2>3. task[d].base \in 0..Len(log) /\ task[d].base \in 0..Len(log')
    BY <1>2, <2>2 DEF Fits
  <2>4. \A i \in 1..Len(log') : log'[i].by = d => log'[i].nth # made[d]
    <3>1. \A i \in 1..Len(log') : i \in 1..Len(log) \/ i = Len(log) + 1
      BY <1>2
    <3>2. task[c].request.by = c
      BY <1>2 DEF Fits
    <3> QED
      BY <1>2, <2>1, <2>2, <3>1, <3>2 DEF Fits
  <2> QED
    BY <1>5, <2>1, <2>2, <2>3, <2>4 DEF Fits
<1>10. BusFollows'
  <2>1. Len(bus) <= Len(log') /\ Len(log') = Len(bus) + 1
    BY <1>2
  <2>2. \A i \in 1..Len(bus) : bus[i] = SubSeq(log', 1, i)
    BY <1>2, <1>5 DEF IInv, BusFollows
  <2>3. \A d \in Callers : task'[d].pc = "committed" => d = c
    BY <1>2, <1>4
  <2>4. task'[c].pc = "committed" /\ task'[c].state = log'
    BY <1>2, <1>3, <1>4
  <2> QED
    BY <1>1, <2>1, <2>2, <2>3, <2>4 DEF BusFollows
<1>11. ClientsFollow'
  <2>1. \A k \in Clients : socket[k] = "live" =>
          cursor[k] \in 0..Len(log) /\ shown[k] = SubSeq(log', 1, cursor[k])
    BY <1>2, <1>5 DEF IInv, ClientsFollow
  <2> QED
    BY <1>1, <1>2, <2>1 DEF ClientsFollow
<1> QED
  BY <1>6, <1>7, <1>8, <1>9, <1>10, <1>11 DEF IInv

LEMMA PublishStep ==
  ASSUME IInv, NEW c \in Callers, Publish(c)
  PROVE  IInv'
<1>1. /\ task[c].pc = "committed" /\ bus' = Append(bus, task[c].state) /\ gate' = Free
      /\ task' = [task EXCEPT ![c] = Idle]
      /\ UNCHANGED <<log, made, socket, cursor, shown>>
  BY DEF Publish, clientVars
<1>2. /\ gate = c /\ task[c].state = log /\ Len(log) = Len(bus) + 1
      /\ Len(log) \in Nat /\ Len(bus) \in Nat /\ SubSeq(log, 1, Len(log)) = log
  BY <1>1, WholePrefix DEF IInv, TypesHold, GateHeld, BusFollows
<1>3. /\ bus' \in Seq(Seq(Requests)) /\ Len(bus') = Len(log)
      /\ \A i \in 1..Len(bus) : bus'[i] = bus[i]
      /\ bus'[Len(log)] = log
  BY <1>1, <1>2, AppendProperties DEF IInv, TypesHold
<1>4. Idle.pc = "idle" /\ Idle # Gated /\ task[c] # Idle
  BY <1>1 DEF Idle, Gated
<1>5. \A d \in Callers : task'[d] = IF d = c THEN Idle ELSE task[d]
  BY <1>1 DEF IInv, TypesHold
<1>6. \A d \in Callers : d # c => task[d].pc \notin {"gated", "committed"}
  BY <1>2 DEF IInv, GateHeld
<1>7. \A k \in Clients : socket[k] # "subscribed"
  BY <1>2, <1>4 DEF IInv, GateHeld
<1>8. TypesHold'
  BY <1>1, <1>3 DEF IInv, TypesHold
<1>9. GateHeld'
  BY <1>1, <1>4, <1>5, <1>6, <1>7, CallerFacts DEF IInv, GateHeld
<1>10. RequestsOnce'
  BY <1>1 DEF IInv, RequestsOnce
<1>11. TasksFit'
  BY <1>1, <1>4, <1>5 DEF IInv, TasksFit
<1>12. BusFollows'
  <2>1. ASSUME NEW i \in 1..Len(bus')
        PROVE  bus'[i] = SubSeq(log, 1, i)
    <3>1. i \in 1..Len(bus) \/ i = Len(log)
      BY <1>2, <1>3
    <3> QED
      BY <1>2, <1>3, <3>1 DEF IInv, BusFollows
  <2> QED
    BY <1>1, <1>2, <1>3, <1>4, <1>5, <1>6, <2>1 DEF BusFollows
<1>13. ClientsFollow'
  <2>1. \A k \in Clients : cursor[k] \in 0..Len(bus) => cursor[k] \in 0..Len(bus')
    BY <1>2, <1>3
  <2> QED
    BY <1>1, <1>7, <2>1 DEF IInv, ClientsFollow
<1> QED
  BY <1>8, <1>9, <1>10, <1>11, <1>12, <1>13 DEF IInv

-----------------------------------------------------------------------------
(* The steps of a socket. *)

\* A step that moves nothing but the sockets, and perhaps gives the gate back.
LEMMA SocketStep ==
  ASSUME IInv, UNCHANGED <<log, task, made, bus>>,
         TypesHold', GateHeld', ClientsFollow'
  PROVE  IInv'
<1>1. RequestsOnce' /\ TasksFit' /\ BusFollows'
  BY DEF IInv, RequestsOnce, TasksFit, BusFollows
<1> QED
  BY <1>1 DEF IInv

LEMMA SubscribeStep ==
  ASSUME IInv, NEW k \in Clients, Subscribe(k)
  PROVE  IInv'
<1>1. /\ socket[k] = "away" /\ gate = Free /\ gate' = k
      /\ socket' = [socket EXCEPT ![k] = "subscribed"]
      /\ cursor' = [cursor EXCEPT ![k] = Len(bus)]
      /\ UNCHANGED <<log, task, made, bus, shown>>
  BY DEF Subscribe, MayAttach
<1>2. Len(bus) \in Nat
  BY WholePrefix DEF IInv, TypesHold
<1>3. TypesHold'
  BY <1>1, <1>2, CallerFacts DEF IInv, TypesHold
<1>4. GateHeld'
  <2>1. \A c \in Callers : gate # c
    BY <1>1, CallerFacts
  <2>2. task[k] = Idle
    BY <1>1 DEF IInv, GateHeld
  <2> QED
    BY <1>1, <2>1, <2>2, CallerFacts DEF IInv, TypesHold, GateHeld
<1>5. ClientsFollow'
  BY <1>1 DEF IInv, TypesHold, ClientsFollow
<1> QED
  BY <1>1, <1>3, <1>4, <1>5, SocketStep

\* The client is greeted with the whole log, where its receiver starts.
LEMMA GreetStep ==
  ASSUME IInv, NEW k \in Clients, Greet(k)
  PROVE  IInv'
<1>1. /\ socket[k] = "subscribed" /\ gate = k /\ gate' = Free
      /\ socket' = [socket EXCEPT ![k] = "live"]
      /\ shown' = [shown EXCEPT ![k] = log]
      /\ UNCHANGED <<log, task, made, bus, cursor>>
  BY DEF Greet, IInv, GateHeld
<1>2. task[k] = Idle /\ Idle.pc = "idle" /\ Idle # Gated
  BY <1>1 DEF IInv, GateHeld, Idle, Gated
<1>3. \A c \in Callers : task[c].pc \notin {"gated", "committed"}
  BY <1>1, <1>2 DEF IInv, GateHeld
<1>4. /\ Len(bus) = Len(log) /\ cursor[k] = Len(bus) /\ Len(log) \in Nat
      /\ SubSeq(log, 1, Len(log)) = log
  BY <1>1, <1>3, WholePrefix DEF IInv, TypesHold, BusFollows, ClientsFollow
<1>5. TypesHold'
  BY <1>1 DEF IInv, TypesHold
<1>6. GateHeld'
  BY <1>1, <1>2, <1>3, CallerFacts DEF IInv, TypesHold, GateHeld
<1>7. ClientsFollow'
  BY <1>1, <1>4 DEF IInv, TypesHold, ClientsFollow
<1> QED
  BY <1>1, <1>5, <1>6, <1>7, SocketStep

LEMMA HandleUpdateStep ==
  ASSUME IInv, NEW k \in Clients, HandleUpdate(k)
  PROVE  IInv'
<1>1. /\ socket[k] = "live" /\ cursor[k] < Len(bus)
      /\ shown' = [shown EXCEPT ![k] = bus[cursor[k] + 1]]
      /\ cursor' = [cursor EXCEPT ![k] = @ + 1]
      /\ UNCHANGED <<log, gate, task, made, bus, socket>>
  BY DEF HandleUpdate, Listening
<1>2. /\ cursor[k] \in Nat /\ Len(bus) \in Nat /\ cursor[k] + 1 \in 1..Len(bus)
      /\ bus[cursor[k] + 1] = SubSeq(log, 1, cursor[k] + 1)
      /\ bus[cursor[k] + 1] \in Seq(Requests)
  <2>1. Len(bus) \in Nat /\ \A i \in 1..Len(bus) : bus[i] \in Seq(Requests)
    BY LenProperties DEF IInv, TypesHold
  <2>2. cursor[k] \in Nat
    BY DEF IInv, TypesHold
  <2>3. cursor[k] + 1 \in 1..Len(bus)
    BY <1>1, <2>1, <2>2
  <2> QED
    BY <2>1, <2>2, <2>3 DEF IInv, BusFollows
<1>3. TypesHold'
  BY <1>1, <1>2 DEF IInv, TypesHold
<1>4. GateHeld'
  BY <1>1 DEF IInv, GateHeld
<1>5. ClientsFollow'
  BY <1>1, <1>2 DEF IInv, TypesHold, ClientsFollow
<1> QED
  BY <1>1, <1>3, <1>4, <1>5, SocketStep

LEMMA PartStep ==
  ASSUME IInv, NEW k \in Clients, Lagged(k) \/ Leave(k)
  PROVE  IInv'
<1>1. /\ socket[k] = "live" /\ task[k] = Idle
      /\ socket' = [socket EXCEPT ![k] = "away"]
      /\ UNCHANGED <<log, gate, task, made, bus, cursor, shown>>
  BY DEF Lagged, Leave, Listening
<1>2. TypesHold'
  BY <1>1 DEF IInv, TypesHold
<1>3. GateHeld' /\ ClientsFollow'
  BY <1>1 DEF IInv, TypesHold, GateHeld, ClientsFollow
<1> QED
  BY <1>1, <1>2, <1>3, SocketStep

-----------------------------------------------------------------------------
(* What holds of every behaviour. *)

LEMMA NextIInv == IInv /\ [Next]_vars => IInv'
<1> SUFFICES ASSUME IInv, [Next]_vars PROVE IInv'
  OBVIOUS
<1>1. ASSUME NEW c \in Callers,
             \/ Prepare(c) \/ Abandon(c) \/ Enter(c) \/ EnterUnprepared(c)
             \/ PrepareInside(c) \/ Commit(c) \/ Conflict(c) \/ Publish(c)
      PROVE  IInv'
  BY <1>1, PrepareStep, GiveUpStep, EnterStep, PrepareInsideStep, CommitStep, PublishStep
<1>2. ASSUME NEW k \in Clients,
             Subscribe(k) \/ Greet(k) \/ HandleUpdate(k) \/ Lagged(k) \/ Leave(k)
      PROVE  IInv'
  BY <1>2, SubscribeStep, GreetStep, HandleUpdateStep, PartStep
<1>3. CASE UNCHANGED vars
  BY <1>3 DEF vars, IInv, TypesHold, GateHeld, RequestsOnce, TasksFit, BusFollows,
              ClientsFollow
<1> QED
  BY <1>1, <1>2, <1>3 DEF Next

(***************************************************************************)
(* The inductive invariant of every behaviour: who holds the gate, what    *)
(* the log and the bus have in common, and that no request is made twice.  *)
(***************************************************************************)
THEOREM PublicationInvariant == Spec => []IInv
BY InitIInv, NextIInv, PTL DEF Spec

(***************************************************************************)
(* What a client shows is a state that was committed, its receiver goes on *)
(* exactly there, and the bus is the log but for one commit.               *)
(***************************************************************************)
THEOREM PublicationShownMeetsTheBus == Spec => []ShownMeetsTheBus
<1>1. IInv => ShownMeetsTheBus
  <2> SUFFICES ASSUME IInv PROVE ShownMeetsTheBus
    OBVIOUS
  <2> DEFINE committed == {c \in Callers : task[c].pc = "committed"}
  <2>1. Len(log) \in Nat /\ Len(bus) \in Nat
    BY WholePrefix DEF IInv, TypesHold
  <2>2. Len(log) = Len(bus) + Cardinality(committed)
    <3>1. CASE committed = {}
      <4>1. Cardinality(committed) = 0
        BY <3>1, FS_EmptySet
      <4>2. Len(log) = Len(bus)
        BY <3>1 DEF IInv, BusFollows
      <4> QED
        BY <2>1, <4>1, <4>2
    <3>2. CASE committed # {}
      <4>1. PICK c \in Callers : task[c].pc = "committed"
        BY <3>2
      <4>2. committed = {c}
        BY <4>1 DEF IInv, GateHeld
      <4>3. Cardinality(committed) = 1
        BY <4>2, FS_Singleton
      <4>4. Len(log) = Len(bus) + 1
        BY <4>1 DEF IInv, BusFollows
      <4> QED
        BY <4>3, <4>4
    <3> QED
      BY <3>1, <3>2
  <2>3. BusIsTheLog
    BY <2>2 DEF BusIsTheLog, Prefix, IInv, BusFollows
  <2>4. ASSUME NEW k \in Clients, socket[k] = "live"
        PROVE  shown[k] = Prefix(Len(shown[k])) /\ cursor[k] = Len(shown[k])
    <3>1. cursor[k] \in 0..Len(log) /\ shown[k] = SubSeq(log, 1, cursor[k])
      BY <2>1, <2>4 DEF IInv, BusFollows, ClientsFollow
    <3>2. Len(shown[k]) = cursor[k]
      BY <3>1, PrefixFacts DEF IInv, TypesHold
    <3> QED
      BY <3>1, <3>2 DEF Prefix
  <2> QED
    BY <2>3, <2>4 DEF ShownMeetsTheBus
<1> QED
  BY <1>1, PublicationInvariant, PTL

-----------------------------------------------------------------------------
(* The refinement of SharedLog. *)

At == [k \in Clients |-> IF socket[k] = "live" THEN Len(shown[k]) ELSE -1]

AtFollowsCursor ==
  \A k \in Clients :
    /\ socket[k] = "live" => At[k] = cursor[k] /\ At[k] \in 0..Len(log)
    /\ socket[k] # "live" => At[k] = -1

LEMMA AtFacts == IInv => AtFollowsCursor
<1> SUFFICES ASSUME IInv, NEW k \in Clients
             PROVE  /\ socket[k] = "live" => At[k] = cursor[k] /\ At[k] \in 0..Len(log)
                    /\ socket[k] # "live" => At[k] = -1
  BY DEF AtFollowsCursor
<1>1. CASE socket[k] = "live"
  <2>1. Len(log) \in Nat /\ Len(bus) \in Nat
    BY WholePrefix DEF IInv, TypesHold
  <2>2. cursor[k] \in 0..Len(log) /\ shown[k] = SubSeq(log, 1, cursor[k])
    BY <1>1, <2>1 DEF IInv, BusFollows, ClientsFollow
  <2>3. Len(shown[k]) = cursor[k]
    BY <2>2, PrefixFacts DEF IInv, TypesHold
  <2> QED
    BY <1>1, <2>2, <2>3 DEF At
<1> QED
  BY <1>1 DEF At

\* A commit takes its request, which nobody has taken before, on its revision.
LEMMA CommitTakes ==
  ASSUME IInv, NEW c \in Callers, Commit(c)
  PROVE  Promise!LogNext
<1>1. /\ task[c] \in Underway /\ Fits(c, made[c], task[c], log)
      /\ task[c].request.expected \in {Anywhere, Len(log)}
      /\ log' = Append(log, task[c].request)
  BY CommitFacts
<1>2. PICK r \in Requests : r = task[c].request
  BY <1>1 DEF Underway
<1>3. ~Promise!Member(r)
  BY <1>1, <1>2 DEF Promise!Member, Fits
<1>4. UNCHANGED At
  BY DEF Commit, clientVars, At
<1>5. [q \in Requests |-> q.expected][r] \in {Anywhere, Len(log)}
  BY <1>1, <1>2
<1>6. Promise!Take(r)
  BY <1>1, <1>2, <1>3, <1>4, <1>5 DEF Promise!Take, At
<1> QED
  BY <1>6 DEF Promise!LogNext

\* A greeting joins at the present.
LEMMA GreetJoins ==
  ASSUME IInv, IInv', NEW k \in Clients, Greet(k)
  PROVE  Promise!LogNext
<1>1. /\ socket[k] = "subscribed" /\ log' = log
      /\ socket' = [socket EXCEPT ![k] = "live"] /\ shown' = [shown EXCEPT ![k] = log]
  BY DEF Greet
<1>2. At[k] = -1
  BY <1>1, AtFacts DEF AtFollowsCursor
<1>3. At' = [At EXCEPT ![k] = Len(log)]
  BY <1>1 DEF At, IInv, TypesHold
<1>4. Promise!Join(k)
  BY <1>1, <1>2, <1>3 DEF Promise!Join, Promise!Detached, At
<1> QED
  BY <1>4 DEF Promise!LogNext

\* A snapshot taken from the bus is the next request of the log.
LEMMA UpdateFollows ==
  ASSUME IInv, IInv', NEW k \in Clients, HandleUpdate(k)
  PROVE  Promise!LogNext
<1>1. /\ socket[k] = "live" /\ log' = log /\ socket' = socket /\ bus' = bus
      /\ cursor' = [cursor EXCEPT ![k] = @ + 1]
      /\ cursor[k] < Len(bus)
      /\ \E n : shown' = [shown EXCEPT ![k] = n]
  BY DEF HandleUpdate, Listening
<1>2. At[k] = cursor[k] /\ cursor[k] \in Nat
  BY <1>1, AtFacts DEF AtFollowsCursor, IInv, TypesHold
<1>3. At'[k] = cursor[k] + 1
  <2>1. IInv' => AtFollowsCursor'
    BY AtFacts, PTL
  <2> QED
    BY <1>1, <2>1 DEF AtFollowsCursor, IInv, TypesHold
<1>4. \A j \in Clients : j # k => At'[j] = At[j]
  BY <1>1 DEF At, IInv, TypesHold
<1>5. At' = [At EXCEPT ![k] = @ + 1]
  BY <1>2, <1>3, <1>4 DEF At
<1>6. Len(bus) <= Len(log) /\ Len(bus) \in Nat /\ Len(log) \in Nat
  BY WholePrefix DEF IInv, BusFollows, TypesHold
<1>7. At[k] # -1 /\ At[k] < Len(log)
  BY <1>1, <1>2, <1>6
<1>8. Promise!Follow(k)
  BY <1>1, <1>5, <1>7 DEF Promise!Follow, Promise!Detached, At
<1> QED
  BY <1>8 DEF Promise!LogNext

LEMMA LeaveParts ==
  ASSUME IInv, NEW k \in Clients, Lagged(k) \/ Leave(k)
  PROVE  Promise!LogNext
<1>1. /\ socket[k] = "live" /\ socket' = [socket EXCEPT ![k] = "away"]
      /\ UNCHANGED <<log, shown>>
  BY DEF Lagged, Leave, Listening
<1>2. At[k] # -1
  <2>1. At[k] \in 0..Len(log)
    BY <1>1, AtFacts DEF AtFollowsCursor
  <2> QED
    BY <2>1, WholePrefix DEF IInv, TypesHold
<1>3. At' = [At EXCEPT ![k] = -1]
  BY <1>1 DEF At, IInv, TypesHold
<1>4. Promise!Part(k)
  BY <1>1, <1>2, <1>3 DEF Promise!Part, Promise!Detached, At
<1> QED
  BY <1>4 DEF Promise!LogNext

\* Everything else is invisible: the log and what the clients show stay.
LEMMA RestStutters ==
  ASSUME IInv, NEW c \in Callers,
         \/ Prepare(c) \/ Abandon(c) \/ Enter(c) \/ EnterUnprepared(c)
         \/ PrepareInside(c) \/ Conflict(c) \/ Publish(c) \/ (c \in Clients /\ Subscribe(c))
  PROVE  UNCHANGED <<log, At>>
<1>1. CASE c \in Clients /\ Subscribe(c)
  <2>1. /\ socket[c] = "away" /\ socket' = [socket EXCEPT ![c] = "subscribed"]
        /\ UNCHANGED <<log, shown>>
    BY <1>1 DEF Subscribe
  <2>2. \A j \in Clients : socket'[j] = "live" <=> socket[j] = "live"
    BY <2>1 DEF IInv, TypesHold
  <2> QED
    BY <2>1, <2>2 DEF At
<1>2. CASE \/ Prepare(c) \/ Abandon(c) \/ Enter(c) \/ EnterUnprepared(c)
           \/ PrepareInside(c) \/ Conflict(c) \/ Publish(c)
  BY <1>2 DEF Prepare, Abandon, Enter, EnterUnprepared, PrepareInside, Conflict, Publish,
              clientVars, At
<1> QED
  BY <1>1, <1>2

(***************************************************************************)
(* The ordered commits and the socket loop implement SharedLog: the log    *)
(* neither loses nor repeats a request, one that names a revision follows  *)
(* it directly, and clients join at the present and follow without a gap.  *)
(***************************************************************************)
THEOREM PublicationKeepsThePromise == Spec => KeepsThePromise
<1>1. Init => Promise!LogInit
  BY DEF Init, Promise!LogInit, Promise!Detached
<1>2. IInv /\ IInv' /\ [Next]_vars => [Promise!LogNext]_Promise!logVars
  <2> SUFFICES ASSUME IInv, IInv', [Next]_vars
               PROVE  Promise!LogNext \/ UNCHANGED <<log, At>>
    BY DEF Promise!logVars, At
  <2>1. ASSUME NEW c \in Callers, Commit(c)
        PROVE  Promise!LogNext
    BY <2>1, CommitTakes
  <2>2. ASSUME NEW c \in Callers,
               \/ Prepare(c) \/ Abandon(c) \/ Enter(c) \/ EnterUnprepared(c)
               \/ PrepareInside(c) \/ Conflict(c) \/ Publish(c)
        PROVE  UNCHANGED <<log, At>>
    BY <2>2, RestStutters
  <2>3. ASSUME NEW k \in Clients, Subscribe(k)
        PROVE  UNCHANGED <<log, At>>
    BY <2>3, RestStutters, CallerFacts
  <2>4. ASSUME NEW k \in Clients, Greet(k) \/ HandleUpdate(k) \/ Lagged(k) \/ Leave(k)
        PROVE  Promise!LogNext
    BY <2>4, GreetJoins, UpdateFollows, LeaveParts
  <2>5. CASE UNCHANGED vars
    BY <2>5 DEF vars, At
  <2> QED
    BY <2>1, <2>2, <2>3, <2>4, <2>5 DEF Next
<1> QED
  BY <1>1, <1>2, PublicationInvariant, PTL DEF Spec, Promise!LogSpec, KeepsThePromise
=============================================================================
