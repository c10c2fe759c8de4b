------------------------- MODULE QueryStore_proofs -------------------------
(***************************************************************************)
(* The saved-query store, for any callers, names, queries and ceilings,    *)
(* provided that no two sessions share a process (SessionsApart): two that *)
(* do share its temporary file, and the store can be torn.                 *)
(*                                                                         *)
(* StoreIInv follows a replacement through its steps.  Who has the turn of *)
(* its session is the only one of its process under way, so the temporary  *)
(* file is its own; a copy is the file it was made from with its one edit, *)
(* and that file is still there unless another session replaced it.        *)
(***************************************************************************)
EXTENDS QueryStore, SequenceTheorems, NaturalsInduction, WellFoundedInduction, TLAPS

\* No two sessions run in one process.
SessionsApart == \A s, t \in Stores : ProcessOf[s] = ProcessOf[t] => s = t

Others == {Nothing, Torn, Strange}

Changing == {"edited", "opened", "filled"}
Places == {"idle", "waiting", "holding"} \cup Changing

Jobs == [at : Places, op : Operations, base : StoreFiles \cup Others, to : StoreFiles,
         handle : {"none", "temp"}]

StoreTyped ==
  /\ file \in StoreFiles \cup Others
  /\ temp \in [Processes -> StoreFiles \cup Others]
  /\ mutex \in [Stores -> Callers \cup {NoOne}]
  /\ job \in [Callers -> Jobs]
  /\ asked \in Nat
  /\ writer \in Stores \cup {NoOne}

\* A store no reader finds anything wrong with.
Sound(f) ==
  /\ f \in StoreFiles
  /\ Len(f.saved) <= MaxSaved /\ Len(f.history) <= MaxHistory
  /\ \A i, j \in 1..Len(f.saved) : f.saved[i].name = f.saved[j].name => i = j
  /\ \A i, j \in 1..Len(f.history) : f.history[i] = f.history[j] => i = j

\* From f to g nothing goes that op did not name.
Kept(f, g, op) ==
  /\ \A s \in ToSet(f.saved) : s \in ToSet(g.saved) \/ (op.kind # "record" /\ s.name = op.name)
  /\ \A q \in ToSet(f.history) \ ToSet(g.history) : op.kind = "record" /\ q = Last(f.history)

JobHolds(c) ==
  /\ job[c].at \in {"holding"} \cup Changing => mutex[StoreOf[c]] = c
  /\ job[c].at \in Changing =>
       /\ file # Strange
       /\ Sound(job[c].to)
       /\ job[c].base # file => writer # StoreOf[c]
       /\ Readable(job[c].base) => Kept(job[c].base, job[c].to, job[c].op)
  /\ job[c].handle = "temp" <=> job[c].at \in {"opened", "filled"}
  /\ job[c].at = "filled" => temp[ProcessOf[StoreOf[c]]] = job[c].to

StoreIInv ==
  /\ StoreTyped
  /\ file # Torn
  /\ Readable(file) => Sound(file)
  /\ \A c \in Callers : JobHolds(c)

-----------------------------------------------------------------------------
(* What Without leaves. *)

\* What is said of every number is said of no least exception.
LEMMA LeastOf ==
  ASSUME NEW P \in SUBSET Nat, P # {}
  PROVE  \E n \in P : \A m \in P : n <= m
<1> DEFINE R == {ss \in Nat \X Nat : ss[1] < ss[2]}
<1>1. IsWellFoundedOn(R, Nat)
  BY NatLessThanWellFounded DEF OpToRel
<1>2. \A m, n \in Nat : <<m, n>> \notin R => n <= m
  OBVIOUS
<1> HIDE DEF R
<1>3. PICK n \in P : \A m \in P : <<m, n>> \notin R
  BY <1>1, WFMin
<1>4. \A m \in P : n <= m
  BY <1>2, <1>3
<1> QED
  BY <1>4

\* w is what is left of the first n entries of s.
Remnant(w, s, gone, n) ==
  /\ Len(w) <= n
  /\ \A a \in 1..Len(w) : w[a] \notin gone /\ \E k \in 1..n : w[a] = s[k]
  /\ \A a, b \in 1..Len(w) :
       a < b => \E k, l \in 1..n : k < l /\ w[a] = s[k] /\ w[b] = s[l]
  /\ \A k \in 1..n : s[k] \notin gone => \E a \in 1..Len(w) : w[a] = s[k]
  /\ (\E k \in 1..n : s[k] \in gone) => Len(w) < n
  /\ (\A k \in 1..n : s[k] \notin gone) => Len(w) = n /\ \A k \in 1..n : w[k] = s[k]

LEMMA RemnantDrops ==
  ASSUME NEW T, NEW s \in Seq(T), NEW gone, NEW w \in Seq(T), NEW n \in 1..Len(s),
         Remnant(w, s, gone, n - 1), s[n] \in gone
  PROVE  Remnant(w, s, gone, n)
<1>1. Len(w) \in Nat /\ n - 1 \in Nat /\ 1..n = (1..(n - 1)) \cup {n}
  OBVIOUS
<1> QED
  BY <1>1 DEF Remnant

LEMMA RemnantTakes ==
  ASSUME NEW T, NEW s \in Seq(T), NEW gone, NEW w \in Seq(T), NEW n \in 1..Len(s),
         Remnant(w, s, gone, n - 1), s[n] \notin gone
  PROVE  Append(w, s[n]) \in Seq(T) /\ Remnant(Append(w, s[n]), s, gone, n)
<1> DEFINE x == Append(w, s[n])
           L == Len(w)
<1>1. L \in Nat /\ n \in Nat /\ n - 1 \in Nat /\ 1..n = (1..(n - 1)) \cup {n} /\ s[n] \in T
  OBVIOUS
<1>2. /\ x \in Seq(T) /\ Len(x) = L + 1 /\ x[L + 1] = s[n]
      /\ \A a \in 1..L : x[a] = w[a]
  BY <1>1
<1> HIDE DEF x
<1>3. 1..Len(x) = (1..L) \cup {L + 1}
  BY <1>1, <1>2
<1>4. Len(x) <= n
  BY <1>1, <1>2 DEF Remnant
<1>5. ASSUME NEW a \in 1..Len(x) PROVE x[a] \notin gone /\ \E k \in 1..n : x[a] = s[k]
  <2>1. CASE a = L + 1
    BY <1>1, <1>2, <2>1
  <2>2. CASE a # L + 1
    <3>1. a \in 1..L
      BY <1>1, <1>3, <2>2
    <3>2. x[a] = w[a] /\ w[a] \notin gone /\ \E k \in 1..(n - 1) : w[a] = s[k]
      BY <1>2, <3>1 DEF Remnant
    <3> QED
      BY <1>1, <3>2
  <2> QED
    BY <2>1, <2>2
<1>6. ASSUME NEW a \in 1..Len(x), NEW b \in 1..Len(x), a < b
      PROVE  \E k, l \in 1..n : k < l /\ x[a] = s[k] /\ x[b] = s[l]
  <2>1. CASE b = L + 1
    <3>1. a \in 1..L
      BY <1>1, <1>6, <1>3, <2>1
    <3>2. PICK k \in 1..(n - 1) : w[a] = s[k]
      BY <3>1 DEF Remnant
    <3>3. k \in 1..n /\ n \in 1..n /\ k < n /\ x[a] = s[k] /\ x[b] = s[n]
      BY <1>1, <1>2, <2>1, <3>1, <3>2
    <3> QED
      BY <3>3
  <2>2. CASE b # L + 1
    <3>1. a \in 1..L /\ b \in 1..L
      BY <1>1, <1>6, <1>3, <2>2
    <3>2. PICK k \in 1..(n - 1), l \in 1..(n - 1) : k < l /\ w[a] = s[k] /\ w[b] = s[l]
      BY <1>6, <3>1 DEF Remnant
    <3> QED
      BY <1>1, <1>2, <3>1, <3>2
  <2> QED
    BY <2>1, <2>2
<1>7. ASSUME NEW k \in 1..n, s[k] \notin gone PROVE \E a \in 1..Len(x) : x[a] = s[k]
  <2>1. CASE k = n
    BY <1>1, <1>2, <1>3, <2>1
  <2>2. CASE k # n
    <3>1. k \in 1..(n - 1)
      BY <1>1, <2>2
    <3>2. PICK a \in 1..L : w[a] = s[k]
      BY <1>7, <3>1 DEF Remnant
    <3> QED
      BY <1>2, <1>3, <3>2
  <2> QED
    BY <2>1, <2>2
<1>8. (\E k \in 1..n : s[k] \in gone) => Len(x) < n
  BY <1>1, <1>2 DEF Remnant
<1>9. (\A k \in 1..n : s[k] \notin gone) => Len(x) = n /\ \A k \in 1..n : x[k] = s[k]
  <2> SUFFICES ASSUME \A k \in 1..n : s[k] \notin gone
               PROVE  Len(x) = n /\ \A k \in 1..n : x[k] = s[k]
    OBVIOUS
  <2>1. L = n - 1 /\ \A k \in 1..(n - 1) : w[k] = s[k]
    BY <1>1 DEF Remnant
  <2> QED
    BY <1>1, <1>2, <2>1
<1>10. Remnant(x, s, gone, n)
  BY <1>4, <1>5, <1>6, <1>7, <1>8, <1>9 DEF Remnant
<1> QED
  BY <1>2, <1>10 DEF x

LEMMA RemnantWhole ==
  ASSUME NEW w, NEW s, NEW gone, NEW n \in Nat, Remnant(w, s, gone, n), Len(w) = n
  PROVE  \A k \in 1..n : w[k] = s[k]
<1>1. ~(Len(w) < n)
  OBVIOUS
<1>2. ~\E k \in 1..n : s[k] \in gone
  BY <1>1, Zenon DEF Remnant
<1> QED
  BY <1>2 DEF Remnant

LEMMA WithoutIsRemnant ==
  ASSUME NEW T, NEW s \in Seq(T), NEW gone
  PROVE  Without(s, gone) \in Seq(T) /\ Remnant(Without(s, gone), s, gone, Len(s))
<1> DEFINE N == Len(s)
           Next_of(w, i) == IF s[i] \in gone THEN w ELSE Append(w, s[i])
           Walk(g, n) == /\ g \in [0..n -> Seq(T)]
                         /\ g[0] = <<>>
                         /\ \A i \in 1..n : g[i] = Next_of(g[i - 1], i)
           R(g) == g = [i \in 0..N |->
                          IF i = 0 THEN <<>>
                          ELSE IF s[i] \in gone THEN g[i - 1] ELSE Append(g[i - 1], s[i])]
<1>1. N \in Nat /\ \A i \in 1..N : s[i] \in T
  OBVIOUS
<1>2. \A w \in Seq(T), i \in 1..N : Next_of(w, i) \in Seq(T)
  BY <1>1
<1>3. \E g : Walk(g, 0)
  <2>1. Walk([i \in 0..0 |-> <<>>], 0)
    OBVIOUS
  <2> QED
    BY <2>1
<1>4. ASSUME NEW n \in 1..N, \E g : Walk(g, n - 1) PROVE \E g : Walk(g, n)
  <2> HIDE DEF Next_of
  <2>1. PICK g : Walk(g, n - 1)
    BY <1>4
  <2> DEFINE h == [i \in 0..n |-> IF i = n THEN Next_of(g[n - 1], n) ELSE g[i]]
  <2>2. n \in Nat /\ n - 1 \in 0..(n - 1) /\ 0..n = (0..(n - 1)) \cup {n} /\ n # 0
    BY <1>1
  <2>3. h \in [0..n -> Seq(T)]
    BY <1>2, <2>1, <2>2
  <2>4. h[0] = <<>> /\ \A i \in 0..(n - 1) : h[i] = g[i]
    BY <2>1, <2>2
  <2>5. h[n] = Next_of(g[n - 1], n)
    BY <2>2
  <2> HIDE DEF h
  <2>6. \A i \in 1..n : h[i] = Next_of(h[i - 1], i)
    <3> TAKE i \in 1..n
    <3>1. i - 1 \in 0..(n - 1)
      BY <2>2
    <3>2. CASE i = n
      BY <2>4, <2>5, <3>1, <3>2
    <3>3. CASE i # n
      <4>1. i \in 1..(n - 1) /\ i \in 0..(n - 1)
        BY <3>3
      <4> QED
        BY <2>1, <2>4, <3>1, <4>1
    <3> QED
      BY <3>2, <3>3
  <2>7. Walk(h, n)
    BY <2>3, <2>4, <2>6
  <2> QED
    BY <2>7
<1> DEFINE P == {n \in 0..N : ~\E g : Walk(g, n)}
<1>5. P = {}
  <2> SUFFICES ASSUME P # {} PROVE FALSE
    OBVIOUS
  <2> HIDE DEF Walk
  <2>1. PICK n \in P : \A m \in P : n <= m
    <3>1. P \in SUBSET Nat
      OBVIOUS
    <3> HIDE DEF P
    <3> QED
      BY <3>1, LeastOf
  <2>2. n # 0 /\ n \in 1..N
    BY <1>3
  <2>3. n - 1 \in 0..N /\ n - 1 \notin P
    BY <2>1, <2>2
  <2>4. \E g : Walk(g, n - 1)
    BY <2>3
  <2> QED
    BY <1>4, <2>2, <2>4
<1>6. PICK f : Walk(f, N)
  <2>1. N \in 0..N
    BY <1>1
  <2> HIDE DEF Walk
  <2> QED
    BY <1>5, <2>1
<1>7. R(f)
  <2>1. \A i \in 0..N : f[i] = IF i = 0 THEN <<>>
                               ELSE IF s[i] \in gone THEN f[i - 1] ELSE Append(f[i - 1], s[i])
    <3> TAKE i \in 0..N
    <3>1. i # 0 => i \in 1..N
      BY <1>1
    <3> QED
      BY <1>6, <3>1
  <2>2. f = [i \in 0..N |-> f[i]]
    BY <1>6
  <2> QED
    BY <2>1, <2>2
<1> DEFINE Good(g, i) == g[i] \in Seq(T) /\ Remnant(g[i], s, gone, i)
<1>8. ASSUME NEW g, R(g) PROVE Good(g, N)
  <2>1. g[0] = <<>> /\ \A i \in 1..N : g[i] = Next_of(g[i - 1], i)
    <3>1. 0 \in 0..N /\ \A i \in 1..N : i \in 0..N /\ i # 0
      BY <1>1
    <3>2. g[0] = <<>>
      BY <1>8, <3>1
    <3>3. \A i \in 1..N : g[i] = Next_of(g[i - 1], i)
      BY <1>8, <3>1
    <3> QED
      BY <3>2, <3>3
  <2> HIDE DEF R
  <2>2. Good(g, 0)
    <3>1. <<>> \in Seq(T) /\ Len(<<>>) = 0
      OBVIOUS
    <3>2. Remnant(<<>>, s, gone, 0)
      BY <3>1 DEF Remnant
    <3> QED
      BY <2>1, <3>1, <3>2
  <2>3. ASSUME NEW i \in 1..N, Good(g, i - 1) PROVE Good(g, i)
    <3>1. CASE s[i] \in gone
      <4>1. g[i] = g[i - 1]
        BY <2>1, <3>1
      <4> QED
        BY <2>3, <3>1, <4>1, RemnantDrops
    <3>2. CASE s[i] \notin gone
      <4>1. g[i] = Append(g[i - 1], s[i])
        BY <2>1, <3>2
      <4> QED
        BY <2>3, <3>2, <4>1, RemnantTakes
    <3> QED
      BY <3>1, <3>2
  <2> DEFINE Q == {i \in 0..N : ~Good(g, i)}
  <2> HIDE DEF Good
  <2>4. Q = {}
    <3> SUFFICES ASSUME Q # {} PROVE FALSE
      OBVIOUS
    <3>1. PICK i \in Q : \A j \in Q : i <= j
      <4>1. Q \in SUBSET Nat
        OBVIOUS
      <4> HIDE DEF Q
      <4> QED
        BY <4>1, LeastOf
    <3>2. i # 0 /\ i \in 1..N
      BY <2>2
    <3>3. i - 1 \in 0..N /\ i - 1 \notin Q
      BY <3>1, <3>2
    <3> QED
      BY <2>3, <3>2, <3>3
  <2>5. N \in 0..N
    BY <1>1
  <2> QED
    BY <2>4, <2>5
<1>9. Without(s, gone) = (CHOOSE g : R(g))[N]
  BY DEF Without
<1>10. R(CHOOSE g : R(g))
  <2> HIDE DEF R
  <2> QED
    BY <1>7
<1>11. Good(CHOOSE g : R(g), N)
  <2> HIDE DEF R, Good
  <2> QED
    BY <1>8, <1>10
<1> QED
  BY <1>9, <1>11

-----------------------------------------------------------------------------
(* An edit of a sound copy is sound, and keeps what it does not name. *)

LEMMA FileFields ==
  ASSUME NEW f \in StoreFiles
  PROVE  /\ f.saved \in Seq(Entries) /\ f.history \in Seq(Queries) /\ f.newer \in BOOLEAN
         /\ ToSet(f.saved) = {f.saved[i] : i \in 1..Len(f.saved)}
         /\ ToSet(f.history) = {f.history[i] : i \in 1..Len(f.history)}
         /\ f \notin Others
         /\ Len(f.saved) \in Nat /\ Len(f.history) \in Nat
BY StoreAssumption DEF StoreFiles, ToSet, Others

LEMMA PlaceFacts ==
  ASSUME NEW f \in StoreFiles, NEW n
  PROVE  \/ /\ Place(f, n) \in 1..Len(f.saved)
            /\ f.saved[Place(f, n)].name = n
         \/ /\ Place(f, n) = 0
            /\ \A i \in 1..Len(f.saved) : f.saved[i].name # n
<1> DEFINE I == {i \in 1..Len(f.saved) : f.saved[i].name = n}
<1>1. Place(f, n) = IF I # {} THEN Min(I) ELSE 0
  BY DEF Place, SelectInSeq
<1>2. CASE I = {}
  BY <1>1, <1>2
<1>3. CASE I # {}
  <2>1. I \in SUBSET Nat
    OBVIOUS
  <2>2. Min(I) \in I
    <3> HIDE DEF I
    <3>1. \E x \in I : \A y \in I : x <= y
      BY <1>3, <2>1, LeastOf
    <3> QED
      BY <3>1 DEF Min
  <2> QED
    BY <1>1, <1>3, <2>2
<1> QED
  BY <1>2, <1>3

LEMMA SavedSound ==
  ASSUME NEW f, Sound(f), NEW n \in Names, NEW q \in Queries, NEW g \in Saved(f, n, q),
         NEW op, op.kind = "save", op.name = n
  PROVE  Sound(g) /\ Kept(f, g, op)
<1> DEFINE p == Place(f, n)
           L == Len(f.saved)
<1>1. f \in StoreFiles
  BY DEF Sound
<1>2. /\ f.saved \in Seq(Entries) /\ f.history \in Seq(Queries) /\ f.newer \in BOOLEAN /\ L \in Nat
      /\ ToSet(f.saved) = {f.saved[i] : i \in 1..L}
  BY <1>1, FileFields
<1>3. CASE p # 0
  <2>1. p \in 1..L /\ f.saved[p].name = n
    BY <1>1, <1>3, PlaceFacts
  <2>2. g = [f EXCEPT !.saved[p].query = q]
    BY <1>3 DEF Saved
  <2>3. /\ g \in [saved : Seq(Entries), history : Seq(Queries), newer : BOOLEAN]
        /\ g.history = f.history /\ Len(g.saved) = L
        /\ \A i \in 1..L : g.saved[i].name = f.saved[i].name
        /\ \A i \in 1..L : i # p => g.saved[i] = f.saved[i]
    <3> DEFINE new == [f.saved EXCEPT ![p] = [@ EXCEPT !.query = q]]
    <3>1. g = [f EXCEPT !.saved = new]
      BY <2>2
    <3>2. [f.saved[p] EXCEPT !.query = q] \in Entries /\ [f.saved[p] EXCEPT !.query = q].name = n
      <4>1. f.saved[p] \in Entries
        BY <1>2, <2>1
      <4>2. [f.saved[p] EXCEPT !.query = q] = [name |-> n, query |-> q]
        BY <2>1, <4>1 DEF Entries
      <4> QED
        BY <4>2 DEF Entries
    <3>3. new \in Seq(Entries) /\ Len(new) = L
      BY <1>2, <2>1, <3>2
    <3>4. /\ \A i \in 1..L : i # p => new[i] = f.saved[i]
          /\ new[p] = [f.saved[p] EXCEPT !.query = q]
      BY <1>2, <2>1
    <3>5. \A i \in 1..L : new[i].name = f.saved[i].name
      BY <2>1, <3>2, <3>4
    <3> HIDE DEF new
    <3>6. /\ g.saved = new /\ g.history = f.history /\ g.newer = f.newer
          /\ g = [saved |-> new, history |-> f.history, newer |-> f.newer]
      BY <1>1, <3>1 DEF StoreFiles
    <3> QED
      BY <1>2, <3>3, <3>4, <3>5, <3>6
  <2>4. g \in StoreFiles
    BY <2>3 DEF StoreFiles
  <2>5. Sound(g)
    BY <2>3, <2>4 DEF Sound
  <2>6. ToSet(g.saved) = {g.saved[i] : i \in 1..L}
    BY <2>3, <2>4, FileFields
  <2>7. Kept(f, g, op)
    <3>1. ASSUME NEW i \in 1..L
          PROVE  f.saved[i] \in ToSet(g.saved) \/ f.saved[i].name = n
      <4>1. CASE i = p
        BY <2>1, <4>1
      <4>2. CASE i # p
        <5>1. g.saved[i] = f.saved[i]
          BY <2>3, <4>2
        <5> QED
          BY <2>6, <5>1
      <4> QED
        BY <4>1, <4>2
    <3>2. ToSet(f.history) \ ToSet(g.history) = {}
      BY <2>3
    <3> QED
      BY <1>2, <3>1, <3>2 DEF Kept
  <2> QED
    BY <2>5, <2>7
<1>4. CASE p = 0
  <2>1. \A i \in 1..L : f.saved[i].name # n
    BY <1>1, <1>4, PlaceFacts
  <2> DEFINE e == [name |-> n, query |-> q]
             new == Append(f.saved, e)
  <2>2. L < MaxSaved /\ g = [f EXCEPT !.saved = new]
    BY <1>4 DEF Saved
  <2>3. e \in Entries /\ e.name = n
    BY DEF Entries
  <2> HIDE DEF e
  <2>4. /\ new \in Seq(Entries) /\ Len(new) = L + 1 /\ new[L + 1] = e
        /\ \A i \in 1..L : new[i] = f.saved[i]
        /\ 1..(L + 1) = (1..L) \cup {L + 1}
    BY <1>2, <2>3
  <2> HIDE DEF new
  <2>5. /\ g.saved = new /\ g.history = f.history /\ g.newer = f.newer
        /\ g = [saved |-> new, history |-> f.history, newer |-> f.newer]
    BY <1>1, <2>2 DEF StoreFiles
  <2>6. g \in StoreFiles
    BY <1>2, <2>4, <2>5 DEF StoreFiles
  <2>7. \A i, j \in 1..(L + 1) : new[i].name = new[j].name => i = j
    <3>1. \A i, j \in 1..L : f.saved[i].name = f.saved[j].name => i = j
      BY DEF Sound
    <3> QED
      BY <2>1, <2>3, <2>4, <3>1
  <2>8. Sound(g)
    BY <1>2, <2>2, <2>4, <2>5, <2>6, <2>7, StoreAssumption DEF Sound
  <2>9. ToSet(g.saved) = {new[i] : i \in 1..(L + 1)}
    <3>1. Len(g.saved) = L + 1
      BY <2>4, <2>5
    <3>2. ToSet(g.saved) = {g.saved[i] : i \in 1..Len(g.saved)}
      BY <2>6, FileFields
    <3> QED
      BY <2>5, <3>1, <3>2
  <2>10. Kept(f, g, op)
    BY <1>2, <2>4, <2>5, <2>9 DEF Kept
  <2> QED
    BY <2>8, <2>10
<1> QED
  BY <1>3, <1>4

LEMMA DeletedSound ==
  ASSUME NEW f, Sound(f), NEW n \in Names, NEW g \in Deleted(f, n),
         NEW op, op.kind = "delete", op.name = n
  PROVE  Sound(g) /\ Kept(f, g, op)
<1> DEFINE gone == [name : {n}, query : Queries]
           new == Without(f.saved, gone)
           L == Len(f.saved)
<1>1. f \in StoreFiles
  BY DEF Sound
<1>2. /\ f.saved \in Seq(Entries) /\ f.history \in Seq(Queries) /\ f.newer \in BOOLEAN /\ L \in Nat
      /\ ToSet(f.saved) = {f.saved[i] : i \in 1..L}
  BY <1>1, FileFields
<1>3. g = [f EXCEPT !.saved = new]
  BY DEF Deleted
<1>4. \A i \in 1..L : f.saved[i] \in gone => f.saved[i].name = n
  OBVIOUS
<1> HIDE DEF gone
<1>5. new \in Seq(Entries) /\ Remnant(new, f.saved, gone, L)
  BY <1>2, WithoutIsRemnant
<1> HIDE DEF new
<1>6. /\ g.saved = new /\ g.history = f.history /\ g.newer = f.newer
      /\ g = [saved |-> new, history |-> f.history, newer |-> f.newer]
  BY <1>1, <1>3 DEF StoreFiles
<1>7. g \in StoreFiles
  BY <1>2, <1>5, <1>6 DEF StoreFiles
<1>8. Len(new) \in Nat /\ Len(new) <= L
  BY <1>5 DEF Remnant
<1>9. \A i, j \in 1..Len(new) : new[i].name = new[j].name => i = j
  <2> SUFFICES ASSUME NEW i \in 1..Len(new), NEW j \in 1..Len(new), i < j
               PROVE  new[i].name # new[j].name
    BY <1>8
  <2>1. PICK k \in 1..L, l \in 1..L : k < l /\ new[i] = f.saved[k] /\ new[j] = f.saved[l]
    BY <1>5 DEF Remnant
  <2> QED
    BY <1>2, <2>1 DEF Sound
<1>10. Sound(g)
  BY <1>2, <1>6, <1>7, <1>8, <1>9, StoreAssumption DEF Sound
<1>11. ToSet(g.saved) = {new[i] : i \in 1..Len(new)}
  BY <1>6, <1>7, FileFields
<1>12. \A k \in 1..L : f.saved[k].name # n => f.saved[k] \in ToSet(g.saved)
  BY <1>4, <1>5, <1>11 DEF Remnant
<1>13. Kept(f, g, op)
  BY <1>2, <1>6, <1>12 DEF Kept
<1> QED
  BY <1>10, <1>13

\* The most recent first: the one that makes room was the last.
LEMMA RecordedSound ==
  ASSUME NEW f, Sound(f), NEW q \in Queries, NEW g \in Recorded(f, q),
         NEW op, op.kind = "record"
  PROVE  Sound(g) /\ Kept(f, g, op)
<1> DEFINE left == Without(f.history, {q})
           all == <<q>> \o left
           H == Len(f.history)
           M == IF Len(all) > MaxHistory THEN MaxHistory ELSE Len(all)
           new == SubSeq(all, 1, M)
<1>1. f \in StoreFiles /\ H <= MaxHistory /\ MaxHistory \in Nat \ {0}
  BY StoreAssumption DEF Sound
<1>2. /\ f.saved \in Seq(Entries) /\ f.history \in Seq(Queries) /\ f.newer \in BOOLEAN /\ H \in Nat
      /\ ToSet(f.history) = {f.history[i] : i \in 1..H}
  BY <1>1, FileFields
<1>3. g = [f EXCEPT !.history = new]
  BY DEF Recorded
<1>4. left \in Seq(Queries) /\ Remnant(left, f.history, {q}, H)
  BY <1>2, WithoutIsRemnant
<1> HIDE DEF left
<1> DEFINE R == Len(left)
<1>5. R \in Nat /\ R <= H
  BY <1>4 DEF Remnant
<1>6. /\ all \in Seq(Queries) /\ Len(all) = R + 1 /\ all[1] = q
      /\ \A i \in 1..R : all[i + 1] = left[i]
  <2>1. <<q>> \in Seq(Queries) /\ Len(<<q>>) = 1
    OBVIOUS
  <2> QED
    BY <1>4, <1>5, <2>1
<1> HIDE DEF all
<1>7. M \in Nat /\ 1 <= M /\ M <= R + 1 /\ M <= MaxHistory
  BY <1>1, <1>5, <1>6
<1>8. (M = R + 1) \/ (M = MaxHistory /\ M < R + 1)
  BY <1>1, <1>5, <1>6
<1> HIDE DEF M
<1>9. new \in Seq(Queries) /\ Len(new) = M /\ \A i \in 1..M : new[i] = all[i]
  BY <1>6, <1>7
<1> HIDE DEF new
<1>10. /\ g.history = new /\ g.saved = f.saved /\ g.newer = f.newer
       /\ g = [saved |-> f.saved, history |-> new, newer |-> f.newer]
  BY <1>1, <1>3 DEF StoreFiles
<1>11. g \in StoreFiles
  BY <1>2, <1>9, <1>10 DEF StoreFiles
<1>12. \A i, j \in 1..H : f.history[i] = f.history[j] => i = j
  BY DEF Sound
<1>13. \A i, j \in 1..R : left[i] = left[j] => i = j
  <2> SUFFICES ASSUME NEW i \in 1..R, NEW j \in 1..R, i < j PROVE left[i] # left[j]
    BY <1>5
  <2>1. PICK k \in 1..H, l \in 1..H : k < l /\ left[i] = f.history[k] /\ left[j] = f.history[l]
    BY <1>4 DEF Remnant
  <2> QED
    BY <1>2, <1>12, <2>1
<1>14. \A i, j \in 1..(R + 1) : all[i] = all[j] => i = j
  <2> SUFFICES ASSUME NEW i \in 1..(R + 1), NEW j \in 1..(R + 1), i < j PROVE all[i] # all[j]
    BY <1>5
  <2>1. j - 1 \in 1..R /\ all[j] = left[j - 1]
    BY <1>5, <1>6
  <2>2. CASE i = 1
    <3>1. left[j - 1] # q
      BY <1>4, <2>1 DEF Remnant
    <3> QED
      BY <1>6, <2>1, <2>2, <3>1
  <2>3. CASE i # 1
    <3>1. i - 1 \in 1..R /\ all[i] = left[i - 1] /\ i - 1 # j - 1
      BY <1>5, <1>6, <2>3
    <3> QED
      BY <1>13, <2>1, <3>1
  <2> QED
    BY <2>2, <2>3
<1>15. \A i, j \in 1..M : new[i] = new[j] => i = j
  BY <1>5, <1>7, <1>9, <1>14
<1>16. Sound(g)
  BY <1>7, <1>9, <1>10, <1>11, <1>15 DEF Sound
<1>17. ToSet(g.history) = {new[i] : i \in 1..M}
  BY <1>9, <1>10, <1>11, FileFields
<1>18. ASSUME NEW k \in 1..H, f.history[k] \notin ToSet(g.history)
       PROVE  f.history[k] = Last(f.history)
  <2>1. f.history[k] # q
    BY <1>6, <1>7, <1>9, <1>17, <1>18
  <2>2. PICK a \in 1..R : left[a] = f.history[k]
    BY <1>4, <2>1 DEF Remnant
  <2>3. a + 1 \notin 1..M
    <3> SUFFICES ASSUME a + 1 \in 1..M PROVE FALSE
      OBVIOUS
    <3>1. new[a + 1] = f.history[k]
      BY <1>6, <1>9, <2>2
    <3> QED
      BY <1>17, <1>18, <3>1
  <2>4. M = MaxHistory /\ M < R + 1
    BY <1>5, <1>8, <2>2, <2>3
  <2>5. R = H /\ M = H
    BY <1>1, <1>2, <1>5, <2>4
  <2>6. \A i \in 1..H : left[i] = f.history[i]
    BY <1>2, <1>4, <2>5, RemnantWhole
  <2>7. a = H
    BY <1>2, <1>5, <2>2, <2>3, <2>5
  <2>8. f.history[k] = f.history[H]
    BY <2>2, <2>6, <2>7
  <2> QED
    BY <2>8 DEF Last
<1>19. Kept(f, g, op)
  BY <1>2, <1>10, <1>18 DEF Kept
<1> QED
  BY <1>16, <1>19

LEMMA EmptySound == Sound(Empty)
<1>1. Empty \in StoreFiles
  <2>1. <<>> \in Seq(Entries) /\ <<>> \in Seq(Queries)
    OBVIOUS
  <2> QED
    BY <2>1 DEF Empty, StoreFiles
<1>2. Empty.saved = <<>> /\ Empty.history = <<>> /\ Len(<<>>) = 0
  BY DEF Empty
<1> QED
  BY <1>1, <1>2, StoreAssumption DEF Sound

\* What a session reads is what is there, or an empty store when nothing is.
LEMMA ContentsSound ==
  ASSUME StoreIInv, NEW f \in Contents
  PROVE  Sound(f) /\ file \notin {Torn, Strange} /\ (Readable(file) => f = file)
<1>1. f = (IF file = Nothing THEN Empty ELSE file) /\ f \notin {Torn, Strange}
  BY DEF Contents
<1>2. CASE file = Nothing
  BY <1>1, <1>2, EmptySound, StoreAssumption DEF Readable
<1>3. CASE file # Nothing
  BY <1>1, <1>3 DEF Readable, StoreIInv
<1> QED
  BY <1>2, <1>3

LEMMA EditsSound ==
  ASSUME NEW f, Sound(f), NEW op \in Operations, NEW g \in Edits(f, op)
  PROVE  Sound(g) /\ Kept(f, g, op)
<1>1. CASE op.kind = "save"
  <2>1. op.name \in Names /\ op.query \in Queries \cup TooLong
    BY <1>1 DEF Operations
  <2>2. op.query \notin TooLong /\ g \in Saved(f, op.name, op.query)
    BY <1>1 DEF Edits
  <2> QED
    BY <1>1, <2>1, <2>2, SavedSound
<1>2. CASE op.kind = "delete"
  <2>1. op.name \in Names
    BY <1>2 DEF Operations
  <2>2. g \in Deleted(f, op.name)
    BY <1>2 DEF Edits
  <2> QED
    BY <1>2, <2>1, <2>2, DeletedSound
<1>3. CASE op.kind = "record"
  <2>1. op.query \in Queries \cup TooLong
    BY <1>3 DEF Operations
  <2>2. op.query \notin TooLong /\ g \in Recorded(f, op.query)
    BY <1>3 DEF Edits
  <2> QED
    BY <1>3, <2>1, <2>2, RecordedSound
<1>4. CASE op.kind \notin {"save", "delete", "record"}
  BY <1>4 DEF Edits
<1> QED
  BY <1>1, <1>2, <1>3, <1>4

\* The copy is written without the mark of a newer version.
LEMMA UnmarkedSound ==
  ASSUME NEW f, NEW g, NEW op, Sound(g), Kept(f, g, op)
  PROVE  Sound([g EXCEPT !.newer = FALSE]) /\ Kept(f, [g EXCEPT !.newer = FALSE], op)
<1>1. PICK h : h = [g EXCEPT !.newer = FALSE]
  OBVIOUS
<1>2. g \in [saved : Seq(Entries), history : Seq(Queries), newer : BOOLEAN]
  BY DEF Sound, StoreFiles
<1>3. /\ h.saved = g.saved /\ h.history = g.history
      /\ h \in [saved : Seq(Entries), history : Seq(Queries), newer : BOOLEAN]
  BY <1>1, <1>2
<1>4. Sound(h) /\ Kept(f, h, op)
  BY <1>3 DEF Sound, Kept, StoreFiles
<1> QED
  BY <1>1, <1>4

-----------------------------------------------------------------------------
(* The steps of a request. *)

LEMMA IdleTyped ==
  /\ Idle \in Jobs
  /\ \A op \in Operations : [Idle EXCEPT !.at = "waiting", !.op = op] \in Jobs
<1>1. Empty \in StoreFiles
  BY EmptySound DEF Sound
<1>2. [kind |-> "list"] \in Operations
  BY DEF Operations
<1> QED
  BY <1>1, <1>2 DEF Idle, Jobs, Places, Others

\* Two callers that both have a turn are of different sessions, in different processes.
LEMMA TurnsApart ==
  ASSUME SessionsApart, StoreIInv, NEW c \in Callers, NEW d \in Callers, c # d,
         job[c].at \in {"holding"} \cup Changing, job[d].at \in {"holding"} \cup Changing
  PROVE  StoreOf[c] # StoreOf[d] /\ ProcessOf[StoreOf[c]] # ProcessOf[StoreOf[d]]
<1>1. mutex[StoreOf[c]] = c /\ mutex[StoreOf[d]] = d
  BY DEF StoreIInv, JobHolds
<1>2. StoreOf[c] \in Stores /\ StoreOf[d] \in Stores
  BY StoreAssumption
<1> QED
  BY <1>1, <1>2 DEF SessionsApart

\* A job that goes on as it was, under files and turns that leave it alone.
LEMMA JobStays ==
  ASSUME NEW d \in Callers, JobHolds(d), job'[d] = job[d],
         mutex[StoreOf[d]] = d => mutex'[StoreOf[d]] = d,
         (file' = file /\ writer' = writer) \/ job[d].at \notin Changing,
         job[d].at = "filled" => temp'[ProcessOf[StoreOf[d]]] = temp[ProcessOf[StoreOf[d]]]
  PROVE  JobHolds(d)'
BY DEF JobHolds, Changing, Readable

LEMMA InitStoreIInv == Init => StoreIInv
<1> SUFFICES ASSUME Init PROVE StoreIInv
  OBVIOUS
<1>1. file \in {Nothing, Strange} \/ Sound(file)
  <2>1. CASE file \in {Nothing, Strange, Empty}
    BY <2>1, EmptySound
  <2>2. CASE file \notin {Nothing, Strange, Empty}
    <3>1. PICK n \in Names, q \in Queries, later \in BOOLEAN :
            file = [saved |-> <<[name |-> n, query |-> q]>>, history |-> <<q>>, newer |-> later]
      BY <2>2 DEF Init
    <3>2. PICK e \in Entries : e = [name |-> n, query |-> q]
      BY DEF Entries
    <3>3. <<e>> \in Seq(Entries) /\ <<q>> \in Seq(Queries) /\ Len(<<e>>) = 1 /\ Len(<<q>>) = 1
      OBVIOUS
    <3>4. file.saved = <<e>> /\ file.history = <<q>> /\ file \in StoreFiles
      BY <3>1, <3>2, <3>3 DEF StoreFiles
    <3> QED
      BY <3>3, <3>4, StoreAssumption DEF Sound
  <2> QED
    BY <2>1, <2>2
<1>2. /\ file \in StoreFiles \cup Others /\ file # Torn
      /\ Readable(file) => Sound(file)
  BY <1>1, StoreAssumption DEF Others, Sound, Readable
<1>3. StoreTyped
  BY <1>2, IdleTyped DEF Init, StoreTyped, Others
<1>4. \A c \in Callers : JobHolds(c)
  BY DEF Init, JobHolds, Idle, Changing
<1> QED
  BY <1>2, <1>3, <1>4 DEF StoreIInv

LEMMA AskKeeps ==
  ASSUME StoreIInv, NEW c \in Callers, Ask(c)
  PROVE  StoreIInv'
<1> USE DEF StoreIInv
<1>1. /\ asked' = asked + 1 /\ file' = file /\ temp' = temp /\ mutex' = mutex /\ writer' = writer
      /\ At(c, "idle")
  BY DEF Ask
<1>2. PICK op \in Operations : job' = [job EXCEPT ![c] = [Idle EXCEPT !.at = "waiting", !.op = op]]
  BY DEF Ask
<1>3. PICK new \in Jobs : new = [Idle EXCEPT !.at = "waiting", !.op = op]
  BY IdleTyped
<1>4. new.at = "waiting" /\ new.handle = "none"
  BY <1>3 DEF Idle
<1>5. job \in [Callers -> Jobs] /\ job' = [job EXCEPT ![c] = new]
  BY <1>2, <1>3 DEF StoreTyped
<1>6. job'[c] = new /\ \A d \in Callers \ {c} : job'[d] = job[d]
  BY <1>5
<1>7. StoreTyped'
  BY <1>1, <1>5 DEF StoreTyped
<1>8. JobHolds(c)'
  BY <1>4, <1>6 DEF JobHolds, Changing
<1>9. \A d \in Callers \ {c} : JobHolds(d)'
  BY <1>1, <1>6, JobStays
<1> QED
  BY <1>1, <1>7, <1>8, <1>9 DEF Readable

LEMMA LockKeeps ==
  ASSUME StoreIInv, NEW c \in Callers, Lock(c)
  PROVE  StoreIInv'
<1> USE DEF StoreIInv
<1>1. /\ asked' = asked /\ file' = file /\ temp' = temp /\ writer' = writer
      /\ job[c].at = "waiting" /\ mutex[StoreOf[c]] = NoOne
      /\ mutex' = [mutex EXCEPT ![StoreOf[c]] = c]
      /\ job' = [job EXCEPT ![c].at = "holding"]
  BY DEF Lock, At
<1>2. /\ job \in [Callers -> Jobs] /\ mutex \in [Stores -> Callers \cup {NoOne}]
      /\ StoreOf[c] \in Stores /\ NoOne \notin Callers
  BY StoreAssumption DEF StoreTyped
<1>3. /\ job'[c].at = "holding" /\ job'[c].handle = job[c].handle
      /\ job' \in [Callers -> Jobs]
      /\ \A d \in Callers \ {c} : job'[d] = job[d]
  BY <1>1, <1>2 DEF Jobs, Places
<1>4. /\ mutex' \in [Stores -> Callers \cup {NoOne}] /\ mutex'[StoreOf[c]] = c
      /\ \A d \in Callers : mutex[StoreOf[d]] = d => mutex'[StoreOf[d]] = d
  BY <1>1, <1>2
<1>5. StoreTyped'
  BY <1>1, <1>3, <1>4 DEF StoreTyped
<1>6. JobHolds(c)'
  BY <1>1, <1>3, <1>4 DEF JobHolds, Changing
<1>7. \A d \in Callers \ {c} : JobHolds(d)'
  BY <1>1, <1>3, <1>4, JobStays
<1> QED
  BY <1>1, <1>5, <1>6, <1>7 DEF Readable

\* A turn that is given back.
LEMMA DoneKeeps ==
  ASSUME StoreIInv, NEW c \in Callers, NEW next \in Jobs, Done(c, next),
         next.at \in {"idle", "waiting"}, next.handle = "none",
         file' = file, temp' = temp, asked' = asked, writer' = writer
  PROVE  StoreIInv'
<1> USE DEF StoreIInv
<1>1. /\ mutex' = [s \in Stores |-> IF mutex[s] = c THEN NoOne ELSE mutex[s]]
      /\ job' = [job EXCEPT ![c] = next]
  BY DEF Done
<1>2. /\ job \in [Callers -> Jobs] /\ mutex \in [Stores -> Callers \cup {NoOne}]
      /\ \A d \in Callers : StoreOf[d] \in Stores
  BY StoreAssumption DEF StoreTyped
<1>3. /\ job' \in [Callers -> Jobs] /\ job'[c] = next
      /\ \A d \in Callers \ {c} : job'[d] = job[d]
  BY <1>1, <1>2
<1>4. /\ mutex' \in [Stores -> Callers \cup {NoOne}]
      /\ \A d \in Callers \ {c} : mutex[StoreOf[d]] = d => mutex'[StoreOf[d]] = d
  BY <1>1, <1>2
<1>5. StoreTyped'
  BY <1>3, <1>4 DEF StoreTyped
<1>6. JobHolds(c)'
  BY <1>3 DEF JobHolds, Changing
<1>7. \A d \in Callers \ {c} : JobHolds(d)'
  BY <1>3, <1>4, JobStays
<1> QED
  BY <1>5, <1>6, <1>7 DEF Readable

LEMMA FailKeeps ==
  ASSUME StoreIInv, NEW c \in Callers, Fail(c)
  PROVE  StoreIInv'
<1>1. Done(c, Idle) /\ file' = file /\ temp' = temp /\ asked' = asked /\ writer' = writer
  BY DEF Fail
<1>2. Idle \in Jobs /\ Idle.at = "idle" /\ Idle.handle = "none"
  BY IdleTyped DEF Idle
<1> QED
  BY <1>1, <1>2, DoneKeeps

\* The query of a run was saved, so it can be recorded.
LEMMA AnswerKeeps ==
  ASSUME StoreIInv, NEW c \in Callers, Answer(c)
  PROVE  StoreIInv'
<1>1. file' = file /\ temp' = temp /\ asked' = asked /\ writer' = writer
  BY DEF Answer
<1>2. CASE Done(c, Idle)
  <2>1. Idle \in Jobs /\ Idle.at = "idle" /\ Idle.handle = "none"
    BY IdleTyped DEF Idle
  <2> QED
    BY <1>1, <1>2, <2>1, DoneKeeps
<1>3. CASE ~Done(c, Idle)
  <2>1. PICK g \in Contents : Place(g, job[c].op.name) # 0 /\
          Done(c, [Idle EXCEPT !.at = "waiting",
                     !.op = [kind |-> "record",
                             query |-> g.saved[Place(g, job[c].op.name)].query]])
    BY <1>3 DEF Answer
  <2>2. g \in StoreFiles
    BY ContentsSound DEF Sound
  <2> DEFINE q == g.saved[Place(g, job[c].op.name)].query
  <2>3. q \in Queries
    <3>1. Place(g, job[c].op.name) \in 1..Len(g.saved) /\ g.saved \in Seq(Entries)
      BY <2>1, <2>2, PlaceFacts, FileFields
    <3>2. g.saved[Place(g, job[c].op.name)] \in Entries
      BY <3>1
    <3> QED
      BY <3>2 DEF Entries
  <2> HIDE DEF q
  <2>4. PICK op \in Operations : op = [kind |-> "record", query |-> q]
    BY <2>3 DEF Operations
  <2>5. PICK next \in Jobs : next = [Idle EXCEPT !.at = "waiting", !.op = op]
    BY IdleTyped
  <2>6. next.at = "waiting" /\ next.handle = "none"
    BY <2>5 DEF Idle
  <2>7. Done(c, next)
    BY <2>1, <2>4, <2>5 DEF q
  <2> QED
    BY <1>1, <2>6, <2>7, DoneKeeps
<1> QED
  BY <1>2, <1>3

LEMMA ReadKeeps ==
  ASSUME StoreIInv, NEW c \in Callers, Read(c)
  PROVE  StoreIInv'
<1> USE DEF StoreIInv
<1>1. /\ asked' = asked /\ file' = file /\ temp' = temp /\ mutex' = mutex /\ writer' = writer
      /\ job[c].at = "holding"
  BY DEF Read, At
<1>2. PICK f \in Contents : \E g \in Edits(f, job[c].op) :
        job' = [job EXCEPT ![c].at = "edited", ![c].base = file, ![c].to = [g EXCEPT !.newer = FALSE]]
  BY DEF Read
<1>3. PICK g \in Edits(f, job[c].op) :
        job' = [job EXCEPT ![c].at = "edited", ![c].base = file, ![c].to = [g EXCEPT !.newer = FALSE]]
  BY <1>2
<1>4. job \in [Callers -> Jobs] /\ job[c].op \in Operations
  BY DEF StoreTyped, Jobs
<1>5. Sound(f) /\ file \notin {Torn, Strange} /\ (Readable(file) => f = file)
  BY ContentsSound
<1>6. PICK to : to = [g EXCEPT !.newer = FALSE]
  OBVIOUS
<1>7. Sound(to) /\ Kept(f, to, job[c].op)
  BY <1>3, <1>4, <1>5, <1>6, EditsSound, UnmarkedSound
<1>8. job' = [job EXCEPT ![c].at = "edited", ![c].base = file, ![c].to = to]
  BY <1>3, <1>6
<1>9. /\ job'[c].at = "edited" /\ job'[c].base = file /\ job'[c].to = to
      /\ job'[c].op = job[c].op /\ job'[c].handle = job[c].handle
      /\ job' \in [Callers -> Jobs]
      /\ \A d \in Callers \ {c} : job'[d] = job[d]
  <2>1. to \in StoreFiles /\ file \in StoreFiles \cup Others /\ job[c] \in Jobs
    BY <1>4, <1>7 DEF StoreTyped, Sound
  <2>2. PICK new : new = [job[c] EXCEPT !.at = "edited", !.base = file, !.to = to]
    OBVIOUS
  <2>3. job' = [job EXCEPT ![c] = new]
    BY <1>8, <2>2
  <2>4. /\ new.at = "edited" /\ new.base = file /\ new.to = to
        /\ new.op = job[c].op /\ new.handle = job[c].handle
        /\ new \in Jobs
    BY <2>1, <2>2 DEF Jobs, Places, Changing
  <2> QED
    BY <1>4, <2>3, <2>4
<1>10. StoreTyped'
  BY <1>1, <1>9 DEF StoreTyped
<1>11. JobHolds(c)'
  BY <1>1, <1>5, <1>7, <1>9 DEF JobHolds, Changing
<1>12. \A d \in Callers \ {c} : JobHolds(d)'
  BY <1>1, <1>9, JobStays
<1> QED
  BY <1>1, <1>10, <1>11, <1>12 DEF Readable

LEMMA OpenKeeps ==
  ASSUME SessionsApart, StoreIInv, NEW c \in Callers, Open(c)
  PROVE  StoreIInv'
<1> USE DEF StoreIInv
<1>1. /\ asked' = asked /\ file' = file /\ mutex' = mutex /\ writer' = writer
      /\ job[c].at = "edited"
      /\ temp' = [temp EXCEPT ![ProcessOf[StoreOf[c]]] = Torn]
      /\ job' = [job EXCEPT ![c].at = "opened", ![c].handle = "temp"]
  BY DEF Open, At
<1>2. /\ job \in [Callers -> Jobs] /\ temp \in [Processes -> StoreFiles \cup Others]
      /\ \A d \in Callers : ProcessOf[StoreOf[d]] \in Processes
  BY StoreAssumption DEF StoreTyped
<1>3. /\ job'[c].at = "opened" /\ job'[c].handle = "temp"
      /\ job'[c].base = job[c].base /\ job'[c].to = job[c].to /\ job'[c].op = job[c].op
      /\ job' \in [Callers -> Jobs]
      /\ \A d \in Callers \ {c} : job'[d] = job[d]
  BY <1>1, <1>2 DEF Jobs, Places, Changing
<1>4. temp' \in [Processes -> StoreFiles \cup Others]
  BY <1>1, <1>2 DEF Others
<1>5. StoreTyped'
  BY <1>1, <1>3, <1>4 DEF StoreTyped
<1>6. JobHolds(c)'
  BY <1>1, <1>3 DEF JobHolds, Changing
<1>7. ASSUME NEW d \in Callers \ {c} PROVE JobHolds(d)'
  <2>1. job[d].at = "filled" => temp'[ProcessOf[StoreOf[d]]] = temp[ProcessOf[StoreOf[d]]]
    BY <1>1, <1>2, TurnsApart DEF Changing
  <2> QED
    BY <1>1, <1>3, <2>1, JobStays
<1> QED
  BY <1>1, <1>5, <1>6, <1>7 DEF Readable

LEMMA FillKeeps ==
  ASSUME SessionsApart, StoreIInv, NEW c \in Callers, Fill(c)
  PROVE  StoreIInv' /\ file' = file
<1> USE DEF StoreIInv
<1>1. job[c].at = "opened" /\ job[c].handle = "temp"
  BY DEF Fill, At, JobHolds
<1>2. /\ asked' = asked /\ file' = file /\ mutex' = mutex /\ writer' = writer
      /\ temp' = [temp EXCEPT ![ProcessOf[StoreOf[c]]] = job[c].to]
      /\ job' = [job EXCEPT ![c].at = "filled"]
  BY <1>1 DEF Fill
<1>3. /\ job \in [Callers -> Jobs] /\ temp \in [Processes -> StoreFiles \cup Others]
      /\ \A d \in Callers : ProcessOf[StoreOf[d]] \in Processes
      /\ job[c].to \in StoreFiles
  BY StoreAssumption DEF StoreTyped, Jobs
<1>4. /\ job'[c].at = "filled" /\ job'[c].handle = job[c].handle
      /\ job'[c].base = job[c].base /\ job'[c].to = job[c].to /\ job'[c].op = job[c].op
      /\ job' \in [Callers -> Jobs]
      /\ \A d \in Callers \ {c} : job'[d] = job[d]
  BY <1>2, <1>3 DEF Jobs, Places, Changing
<1>5. temp' \in [Processes -> StoreFiles \cup Others] /\ temp'[ProcessOf[StoreOf[c]]] = job[c].to
  BY <1>2, <1>3
<1>6. StoreTyped'
  BY <1>2, <1>4, <1>5 DEF StoreTyped
<1>7. JobHolds(c)'
  BY <1>1, <1>2, <1>4, <1>5 DEF JobHolds, Changing
<1>8. ASSUME NEW d \in Callers \ {c} PROVE JobHolds(d)'
  <2>1. job[d].at = "filled" => temp'[ProcessOf[StoreOf[d]]] = temp[ProcessOf[StoreOf[d]]]
    BY <1>1, <1>2, <1>3, TurnsApart DEF Changing
  <2> QED
    BY <1>2, <1>4, <2>1, JobStays
<1> QED
  BY <1>2, <1>6, <1>7, <1>8 DEF Readable

\* The temporary file is the copy, whoever else is under way.
LEMMA RenameFacts ==
  ASSUME SessionsApart, StoreIInv, NEW c \in Callers, Rename(c)
  PROVE  /\ job[c].at = "filled"
         /\ file' = job[c].to /\ Sound(file') /\ file' \notin Others
         /\ writer' = StoreOf[c] /\ asked' = asked
         /\ temp' = [temp EXCEPT ![ProcessOf[StoreOf[c]]] = Nothing]
         /\ mutex' = [s \in Stores |-> IF mutex[s] = c THEN NoOne ELSE mutex[s]]
         /\ job'[c] = Idle
         /\ \A d \in Callers \ {c} : job'[d] = job[d]
         /\ job' \in [Callers -> Jobs]
<1> USE DEF StoreIInv
<1>1. job[c].at = "filled" /\ temp[ProcessOf[StoreOf[c]]] = job[c].to /\ Sound(job[c].to)
  BY DEF Rename, At, JobHolds, Changing
<1>2. /\ file' = job[c].to /\ writer' = StoreOf[c] /\ asked' = asked
      /\ temp' = [temp EXCEPT ![ProcessOf[StoreOf[c]]] = Nothing]
      /\ mutex' = [s \in Stores |-> IF mutex[s] = c THEN NoOne ELSE mutex[s]]
      /\ job' = [d \in Callers |-> IF d = c THEN Idle ELSE [job[d] EXCEPT !.handle = Follows(c, d)]]
  BY <1>1 DEF Rename, Temp
<1>3. file' \notin Others
  BY <1>1, <1>2, StoreAssumption DEF Sound, Others
<1>4. ASSUME NEW d \in Callers \ {c} PROVE job'[d] = job[d] /\ job[d] \in Jobs
  <2>1. job[d] \in Jobs
    BY DEF StoreTyped
  <2>2. Follows(c, d) = job[d].handle
    <3>1. job[d].handle = "temp" => job[d].at \in {"opened", "filled"}
      BY DEF JobHolds
    <3>2. job[d].handle = "temp" => ProcessOf[StoreOf[d]] # ProcessOf[StoreOf[c]]
      BY <1>1, <3>1, TurnsApart DEF Changing
    <3>3. job[d].handle # "file"
      BY <2>1 DEF Jobs
    <3> QED
      BY <3>2, <3>3 DEF Follows
  <2>3. [job[d] EXCEPT !.handle = Follows(c, d)] = job[d]
    BY <2>1, <2>2 DEF Jobs
  <2> QED
    BY <1>2, <2>1, <2>3
<1>5. job'[c] = Idle /\ Idle \in Jobs
  BY <1>2, IdleTyped
<1>6. job' \in [Callers -> Jobs]
  <2>1. \A d \in Callers : job'[d] \in Jobs
    BY <1>4, <1>5
  <2> QED
    BY <1>2, <2>1
<1> QED
  BY <1>1, <1>2, <1>3, <1>4, <1>5, <1>6

LEMMA RenameKeeps ==
  ASSUME SessionsApart, StoreIInv, NEW c \in Callers, Rename(c)
  PROVE  StoreIInv'
<1> USE DEF StoreIInv
<1>1. /\ job[c].at = "filled"
      /\ file' = job[c].to /\ Sound(file') /\ file' \notin Others
      /\ writer' = StoreOf[c] /\ asked' = asked
      /\ temp' = [temp EXCEPT ![ProcessOf[StoreOf[c]]] = Nothing]
      /\ mutex' = [s \in Stores |-> IF mutex[s] = c THEN NoOne ELSE mutex[s]]
      /\ job'[c] = Idle
      /\ \A d \in Callers \ {c} : job'[d] = job[d]
      /\ job' \in [Callers -> Jobs]
  BY RenameFacts
<1>2. /\ temp \in [Processes -> StoreFiles \cup Others]
      /\ mutex \in [Stores -> Callers \cup {NoOne}]
      /\ \A d \in Callers : StoreOf[d] \in Stores /\ ProcessOf[StoreOf[d]] \in Processes
  BY StoreAssumption DEF StoreTyped
<1>3. temp' \in [Processes -> StoreFiles \cup Others]
  BY <1>1, <1>2 DEF Others
<1>4. /\ mutex' \in [Stores -> Callers \cup {NoOne}]
      /\ \A d \in Callers \ {c} : mutex[StoreOf[d]] = d => mutex'[StoreOf[d]] = d
  BY <1>1, <1>2
<1>5. StoreTyped'
  <2>1. file' \in StoreFiles \cup Others /\ writer' \in Stores \cup {NoOne}
    BY <1>1, <1>2 DEF Sound
  <2> QED
    BY <1>1, <1>3, <1>4, <2>1 DEF StoreTyped
<1>6. JobHolds(c)'
  BY <1>1 DEF JobHolds, Changing, Idle
<1>7. ASSUME NEW d \in Callers \ {c} PROVE JobHolds(d)'
  <2>1. CASE job[d].at \in Changing
    <3>1. StoreOf[c] # StoreOf[d] /\ ProcessOf[StoreOf[c]] # ProcessOf[StoreOf[d]]
      BY <1>1, <2>1, TurnsApart DEF Changing
    <3>2. /\ temp'[ProcessOf[StoreOf[d]]] = temp[ProcessOf[StoreOf[d]]]
          /\ writer' # StoreOf[d] /\ file' # Strange
      BY <1>1, <1>2, <3>1 DEF Others
    <3> QED
      BY <1>1, <1>4, <2>1, <3>2 DEF JobHolds, Readable
  <2>2. CASE job[d].at \notin Changing
    BY <1>1, <1>4, <2>2, JobStays DEF Changing
  <2> QED
    BY <2>1, <2>2
<1> QED
  BY <1>1, <1>5, <1>6, <1>7 DEF Others

-----------------------------------------------------------------------------
(* What happens around the sessions. *)

LEMMA KillKeeps ==
  ASSUME StoreIInv, NEW p \in Processes, Kill(p)
  PROVE  StoreIInv'
<1> USE DEF StoreIInv
<1> DEFINE dead == {c \in Callers : ProcessOf[StoreOf[c]] = p}
<1>1. /\ job' = [c \in Callers |-> IF c \in dead THEN Idle ELSE job[c]]
      /\ mutex' = [s \in Stores |-> IF mutex[s] \in dead THEN NoOne ELSE mutex[s]]
      /\ file' = file /\ temp' = temp /\ asked' = asked /\ writer' = writer
  BY DEF Kill
<1> HIDE DEF dead
<1>2. /\ job \in [Callers -> Jobs] /\ mutex \in [Stores -> Callers \cup {NoOne}]
      /\ \A d \in Callers : StoreOf[d] \in Stores
  BY StoreAssumption DEF StoreTyped
<1>3. /\ job' \in [Callers -> Jobs] /\ mutex' \in [Stores -> Callers \cup {NoOne}]
  BY <1>1, <1>2, IdleTyped
<1>4. StoreTyped'
  BY <1>1, <1>3 DEF StoreTyped
<1>5. ASSUME NEW d \in Callers PROVE JobHolds(d)'
  <2>1. CASE d \in dead
    <3>1. job'[d] = Idle
      BY <1>1, <2>1
    <3> QED
      BY <3>1 DEF JobHolds, Changing, Idle
  <2>2. CASE d \notin dead
    <3>1. job'[d] = job[d] /\ (mutex[StoreOf[d]] = d => mutex'[StoreOf[d]] = d)
      BY <1>1, <1>2, <2>2
    <3> QED
      BY <1>1, <3>1, JobStays
  <2> QED
    BY <2>1, <2>2
<1> QED
  BY <1>1, <1>4, <1>5 DEF Readable

LEMMA RemoveFileKeeps ==
  ASSUME StoreIInv, RemoveFile
  PROVE  StoreIInv'
<1> USE DEF StoreIInv
<1>1. /\ file' = Nothing /\ writer' = NoOne /\ temp' = temp /\ mutex' = mutex /\ asked' = asked
      /\ job' = [c \in Callers |-> [job[c] EXCEPT !.handle = IF @ = "file" THEN "gone" ELSE @]]
  BY DEF RemoveFile
<1>2. job \in [Callers -> Jobs] /\ DOMAIN job' = Callers
  BY <1>1 DEF StoreTyped
<1>3. \A d \in Callers : job'[d] = job[d]
  <2> TAKE d \in Callers
  <2>1. job[d] \in Jobs /\ job[d].handle # "file"
    BY <1>2 DEF Jobs
  <2>2. job'[d] = [job[d] EXCEPT !.handle = job[d].handle]
    BY <1>1, <2>1
  <2> QED
    BY <2>1, <2>2 DEF Jobs
<1>4. job' \in [Callers -> Jobs]
  BY <1>1, <1>2, <1>3
<1>5. StoreTyped'
  BY <1>1, <1>4 DEF StoreTyped, Others
<1>6. ASSUME NEW d \in Callers PROVE JobHolds(d)'
  <2>1. StoreOf[d] \in Stores /\ writer' # StoreOf[d] /\ file' # Strange
    BY <1>1, StoreAssumption
  <2> QED
    BY <1>1, <1>3, <2>1 DEF JobHolds, Readable
<1>7. file' # Torn /\ ~Readable(file)'
  BY <1>1, StoreAssumption DEF Readable
<1> QED
  BY <1>5, <1>6, <1>7

LEMMA StutterKeeps ==
  ASSUME StoreIInv, UNCHANGED vars
  PROVE  StoreIInv'
<1>1. file' = file /\ temp' = temp /\ mutex' = mutex /\ job' = job /\ asked' = asked /\ writer' = writer
  BY DEF vars
<1>2. \A d \in Callers : JobHolds(d)'
  BY <1>1, JobStays DEF StoreIInv
<1> QED
  BY <1>1, <1>2 DEF StoreIInv, StoreTyped, Readable

LEMMA StepKeeps ==
  ASSUME SessionsApart, StoreIInv, [Next]_vars
  PROVE  StoreIInv'
<1>1. CASE UNCHANGED vars
  BY <1>1, StutterKeeps
<1>2. ASSUME NEW c \in Callers, Ask(c) \/ Step(c) PROVE StoreIInv'
  BY <1>2, AskKeeps, LockKeeps, AnswerKeeps, ReadKeeps, OpenKeeps, FillKeeps, RenameKeeps,
     FailKeeps DEF Step
<1>3. ASSUME NEW p \in Processes, Kill(p) PROVE StoreIInv'
  BY <1>3, KillKeeps
<1>4. CASE RemoveStoreFile \/ PruneStore
  BY <1>4, RemoveFileKeeps DEF RemoveStoreFile, PruneStore
<1> QED
  BY <1>1, <1>2, <1>3, <1>4 DEF Next

-----------------------------------------------------------------------------
(* The theorems. *)

(***************************************************************************)
(* The inductive invariant: whoever has the turn of its session is alone   *)
(* in its process, its temporary file is its own, and its copy is the file *)
(* with one edit, unless another session replaced the file meanwhile.      *)
(***************************************************************************)
THEOREM QueryStoreInvariant ==
  ASSUME SessionsApart
  PROVE  Spec => []StoreIInv
<1>1. Spec => Init /\ [][Next]_vars
  BY PTL DEF Spec
<1>2. StoreIInv /\ [Next]_vars => StoreIInv'
  BY StepKeeps
<1> QED
  BY <1>1, <1>2, InitStoreIInv, PTL

(***************************************************************************)
(* A reader never sees a half-written store, and what it sees has one      *)
(* entry per name and keeps to the ceilings, whoever is killed or fails in *)
(* the middle of a replacement (queries.rs write).                         *)
(***************************************************************************)
THEOREM QueryStoreNeverHalfWritten ==
  ASSUME SessionsApart
  PROVE  Spec => []NeverHalfWritten
<1>1. StoreIInv => NeverHalfWritten
  <2> SUFFICES ASSUME StoreIInv, Readable(file)
               PROVE  /\ \A r, s \in Held(file) : r.name = s.name => r = s
                      /\ IsInjective(file.saved) /\ Len(file.saved) <= MaxSaved
                      /\ IsInjective(file.history) /\ Len(file.history) <= MaxHistory
    BY DEF NeverHalfWritten, StoreIInv
  <2>1. Sound(file)
    BY DEF StoreIInv
  <2>2. /\ file.saved \in Seq(Entries) /\ file.history \in Seq(Queries)
        /\ Held(file) = {file.saved[i] : i \in 1..Len(file.saved)}
    BY <2>1, FileFields DEF Sound, Held
  <2>3. DOMAIN file.saved = 1..Len(file.saved) /\ DOMAIN file.history = 1..Len(file.history)
    BY <2>2
  <2>4. \A r, s \in Held(file) : r.name = s.name => r = s
    BY <2>1, <2>2 DEF Sound
  <2>5. IsInjective(file.saved) /\ IsInjective(file.history)
    BY <2>1, <2>3 DEF Sound, IsInjective
  <2> QED
    BY <2>1, <2>4, <2>5 DEF Sound
<1> QED
  BY <1>1, QueryStoreInvariant, PTL

(***************************************************************************)
(* A replacement takes away what its request named, and the oldest entry   *)
(* of a full history, and nothing else, unless another session replaced    *)
(* the file after it was read; a file this version cannot parse is only    *)
(* removed by a person.                                                    *)
(***************************************************************************)
THEOREM QueryStoreLosesNothingElse ==
  ASSUME SessionsApart
  PROVE  Spec => LosesNothingElse
<1> DEFINE Fine(c) ==
             \/ writer \notin {StoreOf[c]} /\ job[c].base # file
             \/ /\ \A s \in Held(file) :
                     s \in Held(file') \/ (job[c].op.kind # "record" /\ s.name = job[c].op.name)
                /\ \A q \in Ran(file) \ Ran(file') :
                     job[c].op.kind = "record" /\ q = Last(file.history)
           Loses == /\ file = Strange => file' \in {Strange, Nothing}
                    /\ \A c \in Callers :
                         At(c, "filled") /\ job'[c].at = "idle" /\ file' \notin {file, Nothing}
                           /\ Readable(file) => Fine(c)
<1>1. ASSUME StoreIInv, [Next]_vars PROVE Loses
  <2>1. (file' \in {file, Nothing}) \/ \E c \in Callers : Rename(c)
    <3>1. \A c \in Callers : Fill(c) => file' = file
      BY <1>1, FillKeeps
    <3>2. \A c \in Callers : Ask(c) \/ Step(c) => file' = file \/ Rename(c)
      BY <3>1 DEF Ask, Step, Lock, Answer, Read, Open, Fail
    <3> QED
      BY <1>1, <3>2 DEF Next, vars, Kill, RemoveStoreFile, PruneStore, RemoveFile
  <2>2. CASE file' \in {file, Nothing}
    BY <2>2
  <2>3. ASSUME NEW d \in Callers, Rename(d) PROVE Loses
    <3>1. /\ job[d].at = "filled" /\ file' = job[d].to /\ Sound(file') /\ file' \notin Others
          /\ \A c \in Callers \ {d} : job'[c] = job[c]
      BY <1>1, <2>3, RenameFacts
    <3>2. /\ file # Strange
          /\ job[d].base # file => writer # StoreOf[d]
          /\ Readable(job[d].base) => Kept(job[d].base, job[d].to, job[d].op)
      BY <1>1, <3>1 DEF StoreIInv, JobHolds, Changing
    <3>3. Readable(file) => Fine(d)
      <4>1. Readable(file')
        BY <3>1 DEF Others, Readable
      <4>2. Readable(file) /\ job[d].base = file => Fine(d)
        BY <3>1, <3>2, <4>1 DEF Kept, Held, Ran
      <4> QED
        BY <3>2, <4>2
    <3>4. \A c \in Callers \ {d} : ~(At(c, "filled") /\ job'[c].at = "idle")
      BY <3>1 DEF At
    <3> QED
      BY <3>2, <3>3, <3>4
  <2> QED
    BY <2>1, <2>2, <2>3
<1>2. StoreIInv /\ [Next]_vars => [Loses]_vars
  BY <1>1
<1>3. Spec => [][Next]_vars
  BY PTL DEF Spec
<1>4. Spec => [][Loses]_vars
  BY <1>2, <1>3, QueryStoreInvariant, PTL
<1> QED
  BY <1>4 DEF LosesNothingElse
=============================================================================
