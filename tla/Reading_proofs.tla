--------------------------- MODULE Reading_proofs ---------------------------
(***************************************************************************)
(* What a reader is shown, for any graph, any values and any ceilings.     *)
(***************************************************************************)
EXTENDS Reading, FiniteSetTheorems, SequenceTheorems, WellFoundedInduction, TLAPS

-----------------------------------------------------------------------------
(* Numbers, and functions defined from one number to the next. *)

\* What is said of every number is said of no least exception.
LEMMA LeastOf ==
  ASSUME NEW P \in SUBSET Nat, P # {}
  PROVE  \E n \in P : \A m \in P : n <= m
<1> DEFINE R == {ss \in Nat \X Nat : ss[1] < ss[2]}
<1>1. IsWellFoundedOn(R, Nat)
  BY NatLessThanWellFounded DEF OpToRel
<1>2. \A m, n \in Nat : <<m, n>> \notin R => n <= m
  OBVIOUS
<1> HIDE DEF R
<1>3. PICK n \in P : \A m \in P : <<m, n>> \notin R
  BY <1>1, WFMin
<1>4. \A m \in P : n <= m
  BY <1>2, <1>3
<1> QED
  BY <1>4

\* A set that has 0, and each number after one that it has, has them all.
LEMMA UpTo ==
  ASSUME NEW n \in Nat, NEW S, 0 \in S, \A i \in 1..n : i - 1 \in S => i \in S
  PROVE  \A i \in 0..n : i \in S
<1> DEFINE P == {i \in 0..n : i \notin S}
<1>1. SUFFICES ASSUME P # {} PROVE FALSE
  OBVIOUS
<1>2. PICK i \in P : \A j \in P : i <= j
  <2>1. P \in SUBSET Nat
    OBVIOUS
  <2> HIDE DEF P
  <2> QED
    BY <1>1, <2>1, LeastOf
<1>3. i \in 1..n /\ i - 1 \in 0..n /\ i - 1 \notin P
  BY <1>2
<1> QED
  BY <1>3

\* The largest number of a bounded set.
LEMMA LargestOf ==
  ASSUME NEW n \in Nat, NEW K \in SUBSET (0..n), K # {}
  PROVE  \E k \in K : \A m \in K : m <= k
<1> DEFINE P == {n - k : k \in K}
<1>1. P \in SUBSET Nat /\ P # {}
  <2>1. \A k \in K : k \in 0..n /\ n - k \in Nat
    OBVIOUS
  <2>2. PICK k \in K : TRUE
    OBVIOUS
  <2>3. n - k \in P
    BY <2>2
  <2> QED
    BY <2>1, <2>3
<1>2. PICK p \in P : \A q \in P : p <= q
  <2> HIDE DEF P
  <2> QED
    BY <1>1, LeastOf
<1>3. PICK k \in K : p = n - k
  OBVIOUS
<1>4. \A m \in K : n - m \in P /\ n - k <= n - m
  BY <1>2, <1>3
<1>5. \A m \in K : m <= k
  BY <1>4
<1> QED
  BY <1>5

\* f starts with base and takes n steps by op.
StepsOf(A, n) == [A \X (1..n) -> A]
Follows(f, A, n, base, op) ==
  /\ f \in [0..n -> A]
  /\ f[0] = base
  /\ \A i \in 1..n : f[i] = op[<<f[i - 1], i>>]

\* There is such a function.
LEMMA StepsExist ==
  ASSUME NEW n \in Nat, NEW A, NEW base \in A, NEW op \in StepsOf(A, n)
  PROVE  \E f : Follows(f, A, n, base, op)
<1> DEFINE Goes(f, m) == Follows(f, A, m, base, op)
           S == {m \in 0..n : \E f : Goes(f, m)}
<1> USE DEF Follows
<1>0. op \in [A \X (1..n) -> A]
  BY DEF StepsOf
<1>1. 0 \in S
  <2> DEFINE g == [i \in 0..0 |-> base]
  <2>1. g \in [0..0 -> A] /\ g[0] = base /\ 1..0 = {}
    OBVIOUS
  <2>2. Goes(g, 0)
    BY <2>1
  <2>3. \E f : Goes(f, 0)
    BY <2>2
  <2> HIDE DEF Goes
  <2> QED
    BY <2>3
<1>2. ASSUME NEW m \in 1..n, m - 1 \in S PROVE m \in S
  <2>1. PICK f : Goes(f, m - 1)
    BY <1>2
  <2> DEFINE g == [i \in 0..m |-> IF i = m THEN op[<<f[m - 1], m>>] ELSE f[i]]
  <2>2. f[m - 1] \in A
    BY <2>1
  <2>3. op[<<f[m - 1], m>>] \in A
    BY <1>0, <2>2
  <2>4. g \in [0..m -> A] /\ g[0] = base
    BY <2>1, <2>3
  <2>5. ASSUME NEW i \in 1..m PROVE g[i] = op[<<g[i - 1], i>>]
    <3>1. CASE i = m
      <4>1. m - 1 \in 0..m /\ m \in 0..m /\ m - 1 # m
        OBVIOUS
      <4>2. g[m] = op[<<f[m - 1], m>>] /\ g[m - 1] = f[m - 1]
        BY <4>1
      <4> QED
        BY <3>1, <4>2
    <3>2. CASE i # m
      <4>1. i \in 1..(m - 1) /\ g[i] = f[i] /\ g[i - 1] = f[i - 1]
        BY <3>2
      <4> QED
        BY <2>1, <4>1
    <3> QED
      BY <3>1, <3>2
  <2>6. Goes(g, m)
    BY <2>4, <2>5
  <2>7. \E h : Goes(h, m)
    BY <2>6
  <2> HIDE DEF Goes
  <2> QED
    BY <2>7
<1> HIDE DEF S
<1>3. n \in S
  BY <1>1, <1>2, UpTo
<1>4. PICK f : Goes(f, n)
  BY <1>3 DEF S
<1> QED
  BY <1>4

-----------------------------------------------------------------------------
(* Sums. *)

LEMMA SumsAre ==
  ASSUME NEW ns \in Seq(Nat)
  PROVE  /\ Sums(ns) \in [0..Len(ns) -> Nat]
         /\ Sums(ns)[0] = 0
         /\ \A i \in 1..Len(ns) : Sums(ns)[i] = Sums(ns)[i - 1] + ns[i]
<1> DEFINE n == Len(ns)
           op == [p \in Nat \X (1..n) |-> p[1] + ns[p[2]]]
           R(f) == f = [i \in 0..n |-> IF i = 0 THEN 0 ELSE f[i - 1] + ns[i]]
<1>1. n \in Nat /\ op \in StepsOf(Nat, n)
  BY DEF StepsOf
<1>2. PICK f : Follows(f, Nat, n, 0, op)
  <2>1. 0 \in Nat
    OBVIOUS
  <2> HIDE DEF op, n
  <2> QED
    BY <1>1, <2>1, StepsExist
<1>3. \A i \in 1..n : op[<<f[i - 1], i>>] = f[i - 1] + ns[i]
  <2> SUFFICES ASSUME NEW i \in 1..n PROVE op[<<f[i - 1], i>>] = f[i - 1] + ns[i]
    OBVIOUS
  <2>1. i - 1 \in 0..n
    BY <1>1
  <2>2. f[i - 1] \in Nat
    BY <1>2, <2>1 DEF Follows
  <2>3. <<f[i - 1], i>> \in Nat \X (1..n)
    BY <2>2
  <2> QED
    BY <2>3
<1>4. R(f)
  <2> HIDE DEF op
  <2> QED
    <3>0. \A i \in 1..n : f[i] = op[<<f[i - 1], i>>]
      BY <1>2 DEF Follows
    <3>1. \A i \in 0..n : i = 0 \/ i \in 1..n
      BY <1>1
    <3>2. \A i \in 0..n : f[i] = IF i = 0 THEN 0 ELSE f[i - 1] + ns[i]
      BY <1>2, <1>3, <3>0, <3>1 DEF Follows
    <3>3. f = [i \in 0..n |-> f[i]]
      BY <1>2 DEF Follows
    <3> QED
      BY <3>2, <3>3
<1>5. R(Sums(ns))
  BY <1>4 DEF Sums
<1> DEFINE g == Sums(ns)
<1> HIDE DEF g
<1>6. R(g)
  BY <1>5 DEF g
<1>7. g[0] = 0 /\ \A i \in 1..n : g[i] = g[i - 1] + ns[i]
  BY <1>6, SMTT(30)
<1> DEFINE S == {i \in 0..n : g[i] \in Nat}
<1>8. \A i \in 0..n : i \in S
  <2>1. 0 \in S /\ \A i \in 1..n : i - 1 \in S => i \in S
    BY <1>7, SMTT(30)
  <2> HIDE DEF S, n
  <2> QED
    BY <1>1, <2>1, UpTo
<1>9. g \in [0..n -> Nat]
  <2>1. g = [i \in 0..n |-> g[i]]
    BY <1>6
  <2> QED
    BY <1>8, <2>1
<1> QED
  BY <1>7, <1>9 DEF g

LEMMA SumsGrow ==
  ASSUME NEW ns \in Seq(Nat), NEW i \in 0..Len(ns), NEW j \in i..Len(ns)
  PROVE  Sums(ns)[i] <= Sums(ns)[j]
<1> DEFINE S == {k \in 0..(Len(ns) - i) : Sums(ns)[i] <= Sums(ns)[i + k]}
<1>1. 0 \in S
  <2>1. Len(ns) \in Nat /\ i + 0 = i /\ 0 \in 0..(Len(ns) - i)
    OBVIOUS
  <2>2. Sums(ns)[i] \in Nat
    BY SumsAre
  <2> QED
    BY <2>1, <2>2
<1>2. ASSUME NEW k \in 1..(Len(ns) - i), k - 1 \in S PROVE k \in S
  <2>1. i + (k - 1) \in 0..Len(ns) /\ i + k \in 1..Len(ns) /\ (i + k) - 1 = i + (k - 1) /\ ns[i + k] \in Nat
    OBVIOUS
  <2>2. Sums(ns)[i] \in Nat /\ Sums(ns)[i + (k - 1)] \in Nat /\ Sums(ns)[i + k] = Sums(ns)[i + (k - 1)] + ns[i + k]
    BY <2>1, SumsAre
  <2> QED
    BY <1>2, <2>1, <2>2
<1>3. Len(ns) - i \in Nat /\ j - i \in 0..(Len(ns) - i)
  OBVIOUS
<1>4. j - i \in S
  <2> HIDE DEF S
  <2> QED
    BY <1>1, <1>2, <1>3, UpTo
<1> QED
  BY <1>4

\* How many of the first items fit: those do, and one more does not.
LEMMA FittingIs ==
  ASSUME NEW sizes \in Seq(Nat), NEW room \in Int
  PROVE  LET k == Fitting(sizes, room)
         IN  /\ k \in 0..Len(sizes)
             /\ k = 0 \/ Sums(sizes)[k] <= room
             /\ k = Len(sizes) \/ Sums(sizes)[k + 1] > room
<1> DEFINE P == {k \in 0..Len(sizes) : k = Len(sizes) \/ Sums(sizes)[k + 1] > room}
<1>1. Len(sizes) \in P /\ P \in SUBSET Nat /\ P # {}
  OBVIOUS
<1>2. PICK k \in P : \A m \in P : k <= m
  <2> HIDE DEF P
  <2> QED
    BY <1>1, LeastOf
<1>3. k = 0 \/ Sums(sizes)[k] <= room
  <2> SUFFICES ASSUME k # 0 PROVE Sums(sizes)[k] <= room
    OBVIOUS
  <2>1. k - 1 \in 0..Len(sizes) /\ k - 1 \notin P /\ (k - 1) + 1 = k
    BY <1>2
  <2>2. Sums(sizes)[k] \in Nat
    BY SumsAre
  <2> QED
    BY <2>1, <2>2
<1>4. \E j \in 0..Len(sizes) : /\ j = 0 \/ Sums(sizes)[j] <= room
                               /\ j = Len(sizes) \/ Sums(sizes)[j + 1] > room
  BY <1>3
<1> QED
  BY <1>4 DEF Fitting

\* The numbers of a selection, and the elements selected.
LEMMA OrderedIs ==
  ASSUME NEW n \in Nat, NEW I \in SUBSET (1..n)
  PROVE  LET at == Ordered(n, I)
         IN  /\ at \in Seq(I)
             /\ \A x \in I : \E k \in 1..Len(at) : at[k] = x
             /\ \A j, k \in 1..Len(at) : j < k => at[j] < at[k]
<1> DEFINE op == [p \in Seq(1..n) \X (1..n) |-> IF p[2] \in I THEN Append(p[1], p[2]) ELSE p[1]]
           R(f) == f = [i \in 0..n |-> IF i = 0 THEN <<>> ELSE IF i \in I THEN Append(f[i - 1], i) ELSE f[i - 1]]
<1>1. op \in StepsOf(Seq(1..n), n)
  <2>1. ASSUME NEW p \in Seq(1..n) \X (1..n)
        PROVE  (IF p[2] \in I THEN Append(p[1], p[2]) ELSE p[1]) \in Seq(1..n)
    <3>1. p[1] \in Seq(1..n) /\ p[2] \in 1..n
      OBVIOUS
    <3>2. Append(p[1], p[2]) \in Seq(1..n)
      BY <3>1
    <3> QED
      BY <3>1, <3>2
  <2> QED
    BY <2>1 DEF StepsOf
<1>2. PICK f : Follows(f, Seq(1..n), n, <<>>, op)
  <2>1. <<>> \in Seq(1..n)
    OBVIOUS
  <2> HIDE DEF op
  <2> QED
    BY <1>1, <2>1, StepsExist
<1>3. \A i \in 1..n : f[i] = IF i \in I THEN Append(f[i - 1], i) ELSE f[i - 1]
  <2> SUFFICES ASSUME NEW i \in 1..n PROVE f[i] = IF i \in I THEN Append(f[i - 1], i) ELSE f[i - 1]
    OBVIOUS
  <2>1. i - 1 \in 0..n
    OBVIOUS
  <2>2. f[i - 1] \in Seq(1..n)
    BY <1>2, <2>1 DEF Follows
  <2>3. <<f[i - 1], i>> \in Seq(1..n) \X (1..n)
    BY <2>2
  <2>4. f[i] = op[<<f[i - 1], i>>]
    BY <1>2 DEF Follows
  <2> QED
    BY <2>3, <2>4
<1>4. R(f)
  <2>1. \A i \in 0..n : i = 0 \/ i \in 1..n
    OBVIOUS
  <2>2. f = [i \in 0..n |-> f[i]] /\ f[0] = <<>>
    BY <1>2 DEF Follows
  <2> HIDE DEF op
  <2>3. f = [i \in 0..n |-> IF i = 0 THEN <<>> ELSE IF i \in I THEN Append(f[i - 1], i) ELSE f[i - 1]]
    BY <1>3, <2>1, <2>2
  <2> QED
    BY <2>3
<1> DEFINE g == CHOOSE h : R(h)
<1>5. R(g)
  BY <1>4
<1>6. Ordered(n, I) = g[n]
  BY DEF Ordered
<1> HIDE DEF g
<1>7. g[0] = <<>> /\ \A i \in 1..n : g[i] = IF i \in I THEN Append(g[i - 1], i) ELSE g[i - 1]
  <2>1. \A i \in 0..n : g[i] = IF i = 0 THEN <<>> ELSE IF i \in I THEN Append(g[i - 1], i) ELSE g[i - 1]
    BY <1>5
  <2>2. 0 \in 0..n /\ \A i \in 1..n : i \in 0..n /\ i # 0
    OBVIOUS
  <2> QED
    BY <2>1, <2>2
<1> DEFINE Good(i) == /\ g[i] \in Seq(I)
                      /\ \A k \in 1..Len(g[i]) : g[i][k] <= i
                      /\ \A x \in I : x <= i => \E k \in 1..Len(g[i]) : g[i][k] = x
                      /\ \A j, k \in 1..Len(g[i]) : j < k => g[i][j] < g[i][k]
           S == {i \in 0..n : Good(i)}
<1>8. Good(0)
  BY <1>7
<1>9. ASSUME NEW i \in 1..n, Good(i - 1) PROVE Good(i)
  <2>1. g[i - 1] \in Seq(I) /\ Len(g[i - 1]) \in Nat
    BY <1>9
  <2>0. \A k \in 1..Len(g[i - 1]) : g[i - 1][k] \in 1..n
    <3>1. \A k \in 1..Len(g[i - 1]) : g[i - 1][k] \in I
      BY <2>1
    <3> QED
      BY <3>1
  <2>2. CASE i \notin I
    <3>1. g[i] = g[i - 1] /\ \A x \in I : x <= i => x <= i - 1
      BY <1>7, <2>2
    <3>2. \A k \in 1..Len(g[i]) : g[i][k] <= i
      BY <1>9, <2>0, <3>1
    <3> QED
      BY <1>9, <3>1, <3>2
  <2>3. CASE i \in I
    <3>1. g[i] = Append(g[i - 1], i)
      BY <1>7, <2>3
    <3>2. g[i] \in Seq(I) /\ Len(g[i]) = Len(g[i - 1]) + 1
      BY <2>1, <2>3, <3>1
    <3>3. g[i][Len(g[i])] = i /\ \A k \in 1..Len(g[i - 1]) : g[i][k] = g[i - 1][k]
      BY <2>1, <3>1, <3>2
    <3>4. \A k \in 1..Len(g[i]) : k = Len(g[i]) \/ k \in 1..Len(g[i - 1])
      BY <2>1, <3>2
    <3>5. \A k \in 1..Len(g[i - 1]) : g[i - 1][k] <= i - 1 /\ g[i - 1][k] \in 1..n /\ k \in 1..Len(g[i])
      <4>1. \A k \in 1..Len(g[i - 1]) : k \in 1..Len(g[i])
        BY <2>1, <3>2
      <4> QED
        BY <1>9, <2>0, <4>1
    <3>6. \A k \in 1..Len(g[i]) : g[i][k] <= i
      <4> SUFFICES ASSUME NEW k \in 1..Len(g[i]) PROVE g[i][k] <= i
        OBVIOUS
      <4>1. CASE k = Len(g[i])
        BY <3>3, <4>1
      <4>2. CASE k \in 1..Len(g[i - 1])
        BY <3>3, <3>5, <4>2
      <4> QED
        BY <3>4, <4>1, <4>2
    <3>7. ASSUME NEW x \in I, x <= i PROVE \E k \in 1..Len(g[i]) : g[i][k] = x
      <4>1. CASE x = i
        <5>1. Len(g[i]) \in 1..Len(g[i])
          BY <2>1, <3>2
        <5> QED
          BY <3>3, <4>1, <5>1
      <4>2. CASE x # i
        <5>1. PICK k \in 1..Len(g[i - 1]) : g[i - 1][k] = x
          BY <1>9, <3>7, <4>2
        <5> QED
          BY <3>3, <3>5, <5>1
      <4> QED
        BY <4>1, <4>2
    <3>8. ASSUME NEW j \in 1..Len(g[i]), NEW k \in 1..Len(g[i]), j < k PROVE g[i][j] < g[i][k]
      <4>1. j \in 1..Len(g[i - 1])
        BY <2>1, <3>2, <3>8
      <4>2. CASE k = Len(g[i])
        BY <3>3, <3>5, <4>1, <4>2, SMTT(30)
      <4>3. CASE k \in 1..Len(g[i - 1])
        BY <1>9, <3>3, <3>8, <4>1, <4>3
      <4> QED
        BY <3>4, <4>2, <4>3
    <3> QED
      BY <3>2, <3>6, <3>7, <3>8
  <2> QED
    BY <2>2, <2>3
<1>10. n \in S
  <2>1. 0 \in S
    BY <1>8
  <2>2. ASSUME NEW i \in 1..n, i - 1 \in S PROVE i \in S
    <3>1. Good(i)
      BY <1>9, <2>2
    <3> HIDE DEF Good
    <3> QED
      BY <3>1
  <2> HIDE DEF S
  <2> QED
    BY <2>1, <2>2, UpTo
<1> QED
  BY <1>6, <1>10

LEMMA PickedIs ==
  ASSUME NEW S, NEW s \in Seq(S), NEW I \in SUBSET (1..Len(s))
  PROVE  LET p == Picked(s, I)
         IN  /\ p \in Seq({s[i] : i \in I})
             /\ \A i \in I : \E k \in 1..Len(p) : p[k] = s[i]
<1> DEFINE at == Ordered(Len(s), I)
<1>1. /\ at \in Seq(I)
      /\ \A x \in I : \E k \in 1..Len(at) : at[k] = x
  BY OrderedIs
<1> HIDE DEF at
<1>2. Picked(s, I) = [k \in 1..Len(at) |-> s[at[k]]]
  BY <1>1 DEF Picked, at
<1>3. \A k \in 1..Len(at) : at[k] \in I
  BY <1>1
<1> DEFINE p == Picked(s, I)
<1>4. Len(at) \in Nat
  BY <1>1
<1>5. p \in Seq({s[i] : i \in I}) /\ Len(p) = Len(at) /\ \A k \in 1..Len(at) : p[k] = s[at[k]]
  BY <1>2, <1>3, <1>4
<1> HIDE DEF p
<1>6. \A i \in I : \E k \in 1..Len(p) : p[k] = s[i]
  BY <1>1, <1>5
<1> QED
  BY <1>5, <1>6 DEF p

SeqsOf(A) == Seq(Seq(A))

\* Sequences put one after another.
LEMMA FlattenIs ==
  ASSUME NEW A, NEW seqs \in SeqsOf(A)
  PROVE  \E f : /\ Follows(f, Seq(A), Len(seqs), <<>>, [p \in Seq(A) \X (1..Len(seqs)) |-> p[1] \o seqs[p[2]]])
                /\ \A i \in 1..Len(seqs) : f[i] = f[i - 1] \o seqs[i]
                /\ FlattenSeq(seqs) = f[Len(seqs)]
<1> DEFINE n == Len(seqs)
           op == [p \in Seq(A) \X (1..n) |-> p[1] \o seqs[p[2]]]
           R(h) == h = [i \in 1..n |-> IF i = 1 THEN seqs[i] ELSE h[i - 1] \o seqs[i]]
<1>1. n \in Nat /\ \A i \in 1..n : seqs[i] \in Seq(A)
  BY DEF SeqsOf
<1>2. op \in StepsOf(Seq(A), n)
  <2>1. ASSUME NEW p \in Seq(A) \X (1..n) PROVE p[1] \o seqs[p[2]] \in Seq(A)
    <3>1. p[1] \in Seq(A) /\ seqs[p[2]] \in Seq(A)
      BY <1>1
    <3> QED
      BY <3>1
  <2> QED
    BY <2>1 DEF StepsOf
<1>3. PICK f : Follows(f, Seq(A), n, <<>>, op)
  <2>1. <<>> \in Seq(A)
    OBVIOUS
  <2> HIDE DEF op, n
  <2> QED
    BY <1>1, <1>2, <2>1, StepsExist
<1>4. ASSUME NEW i \in 1..n PROVE f[i] = f[i - 1] \o seqs[i] /\ f[i - 1] \in Seq(A)
  <2>1. i - 1 \in 0..n
    BY <1>1
  <2>2. f[i - 1] \in Seq(A)
    BY <1>3, <2>1 DEF Follows
  <2>3. <<f[i - 1], i>> \in Seq(A) \X (1..n)
    BY <2>2
  <2>4. f[i] = op[<<f[i - 1], i>>]
    BY <1>3 DEF Follows
  <2> QED
    BY <2>2, <2>3, <2>4
<1>5. f[0] = <<>>
  BY <1>3 DEF Follows
<1>8. ASSUME NEW i \in 1..n, i = 1 PROVE f[i] = seqs[i]
  <2>1. f[i] = f[i - 1] \o seqs[i]
    BY <1>4
  <2>2. i - 1 = 0
    BY <1>8
  <2>3. seqs[i] \in Seq(A)
    BY <1>1
  <2>4. f[i] = <<>> \o seqs[i]
    BY <1>5, <2>1, <2>2
  <2> QED
    BY <2>3, <2>4
<1>6. CASE n = 0
  <2>1. FlattenSeq(seqs) = <<>>
    BY <1>6 DEF FlattenSeq
  <2> QED
    BY <1>3, <1>4, <1>5, <1>6, <2>1
<1>7. CASE n # 0
  <2> DEFINE h == [i \in 1..n |-> f[i]]
  <2>1. R(h)
    <3>1. ASSUME NEW i \in 1..n PROVE h[i] = IF i = 1 THEN seqs[i] ELSE h[i - 1] \o seqs[i]
      <4>1. CASE i = 1
        BY <1>8, <4>1
      <4>2. CASE i # 1
        <5>1. i - 1 \in 1..n
          BY <4>2
        <5> QED
          BY <1>4, <4>2, <5>1
      <4> QED
        BY <4>1, <4>2
    <3> QED
      BY <3>1
  <2> DEFINE g == CHOOSE q : R(q)
  <2>2. R(g)
    BY <2>1
  <2>3. FlattenSeq(seqs) = g[n]
    BY <1>7 DEF FlattenSeq
  <2> HIDE DEF g
  <2>4. \A i \in 1..n : g[i] = IF i = 1 THEN seqs[i] ELSE g[i - 1] \o seqs[i]
    BY <2>2
  <2> DEFINE S == {i \in 0..n : i = 0 \/ g[i] = f[i]}
  <2>5. 0 \in S
    BY <1>1
  <2>6. ASSUME NEW i \in 1..n, i - 1 \in S PROVE i \in S
    <3>1. CASE i = 1
      <4>2. g[i] = seqs[i] /\ i \in 0..n
        BY <2>4, <3>1
      <4> QED
        BY <1>8, <3>1, <4>2
    <3>2. CASE i # 1
      <4>1. g[i] = g[i - 1] \o seqs[i]
        BY <2>4, <3>2
      <4>2. i - 1 # 0 /\ i \in 0..n
        BY <3>2
      <4>3. g[i - 1] = f[i - 1]
        BY <2>6, <4>2
      <4>4. f[i] = f[i - 1] \o seqs[i]
        BY <1>4
      <4> QED
        BY <4>1, <4>2, <4>3, <4>4
    <3> QED
      BY <3>1, <3>2
  <2>7. n \in S
    <3>1. n \in Nat /\ \A i \in 1..n : i - 1 \in S => i \in S
      BY <1>1, <2>6
    <3> HIDE DEF S, n, h, op, R
    <3> QED
      BY <2>5, <3>1, UpTo
  <2>8. FlattenSeq(seqs) = f[n]
    BY <1>7, <2>3, <2>7
  <2> QED
    BY <1>3, <1>4, <2>8
<1> QED
  BY <1>6, <1>7

\* What is in them, each where it was; and as many, if each is one.
LEMMA FlattenHas ==
  ASSUME NEW A, NEW seqs \in SeqsOf(A)
  PROVE  LET flat == FlattenSeq(seqs)
         IN  /\ flat \in Seq(A)
             /\ \A k \in 1..Len(flat) : \E i \in 1..Len(seqs) : \E j \in 1..Len(seqs[i]) : flat[k] = seqs[i][j]
             /\ \A i \in 1..Len(seqs) : \A j \in 1..Len(seqs[i]) : \E k \in 1..Len(flat) : flat[k] = seqs[i][j]
<1> DEFINE n == Len(seqs)
<1>1. PICK f : /\ Follows(f, Seq(A), n, <<>>, [p \in Seq(A) \X (1..n) |-> p[1] \o seqs[p[2]]])
               /\ \A i \in 1..n : f[i] = f[i - 1] \o seqs[i]
               /\ FlattenSeq(seqs) = f[n]
  BY FlattenIs
<1>2. n \in Nat /\ f \in [0..n -> Seq(A)] /\ f[0] = <<>> /\ \A i \in 1..n : seqs[i] \in Seq(A)
  BY <1>1 DEF Follows, SeqsOf
<1> DEFINE Good(m) == /\ \A k \in 1..Len(f[m]) : \E i \in 1..m : \E j \in 1..Len(seqs[i]) : f[m][k] = seqs[i][j]
                      /\ \A i \in 1..m : \A j \in 1..Len(seqs[i]) : \E k \in 1..Len(f[m]) : f[m][k] = seqs[i][j]
           S == {m \in 0..n : Good(m)}
<1>3. Good(0)
  BY <1>2
<1>4. ASSUME NEW m \in 1..n, Good(m - 1) PROVE Good(m)
  <2> DEFINE s == f[m - 1]
             t == seqs[m]
  <2>1. s \in Seq(A) /\ t \in Seq(A) /\ f[m] = s \o t
    <3>1. m - 1 \in 0..n
      BY <1>2
    <3>2. f[m - 1] \in Seq(A)
      BY <1>2, <3>1
    <3>3. f[m] = f[m - 1] \o seqs[m] /\ seqs[m] \in Seq(A)
      BY <1>1, <1>2
    <3> QED
      BY <3>2, <3>3
  <2> HIDE DEF s, t
  <2>2. Len(s) \in Nat /\ Len(t) \in Nat /\ Len(f[m]) = Len(s) + Len(t)
    BY <2>1
  <2>3. \A k \in 1..Len(s) : f[m][k] = s[k] /\ k \in 1..Len(f[m])
    BY <2>1, <2>2
  <2>4. \A k \in 1..Len(t) : f[m][Len(s) + k] = t[k] /\ Len(s) + k \in 1..Len(f[m])
    BY <2>1, <2>2
  <2>5. \A k \in 1..Len(f[m]) : k \in 1..Len(s) \/ k - Len(s) \in 1..Len(t)
    BY <2>2
  <2>6. \A i \in 1..m : i = m \/ i \in 1..(m - 1)
    OBVIOUS
  <2>7. ASSUME NEW k \in 1..Len(f[m]) PROVE \E i \in 1..m : \E j \in 1..Len(seqs[i]) : f[m][k] = seqs[i][j]
    <3>1. CASE k \in 1..Len(s)
      <4>1. PICK i \in 1..(m - 1) : \E j \in 1..Len(seqs[i]) : s[k] = seqs[i][j]
        BY <1>4, <3>1 DEF s
      <4>2. i \in 1..m
        OBVIOUS
      <4> QED
        BY <2>3, <3>1, <4>1, <4>2
    <3>2. CASE k - Len(s) \in 1..Len(t)
      <4>1. f[m][Len(s) + (k - Len(s))] = t[k - Len(s)] /\ Len(s) + (k - Len(s)) = k
        BY <2>2, <2>4, <3>2
      <4>2. f[m][k] = seqs[m][k - Len(s)] /\ k - Len(s) \in 1..Len(seqs[m]) /\ m \in 1..m
        BY <3>2, <4>1 DEF t
      <4> QED
        BY <4>2
    <3> QED
      BY <2>5, <3>1, <3>2
  <2>8. ASSUME NEW i \in 1..m, NEW j \in 1..Len(seqs[i]) PROVE \E k \in 1..Len(f[m]) : f[m][k] = seqs[i][j]
    <3>1. CASE i = m
      <4>1. f[m][Len(s) + j] = seqs[i][j] /\ Len(s) + j \in 1..Len(f[m])
        BY <2>4, <3>1 DEF t
      <4> QED
        BY <4>1
    <3>2. CASE i \in 1..(m - 1)
      <4>1. PICK k \in 1..Len(s) : s[k] = seqs[i][j]
        BY <1>4, <3>2 DEF s
      <4> QED
        BY <2>3, <4>1
    <3> QED
      BY <2>6, <3>1, <3>2
  <2> QED
    BY <2>7, <2>8
<1>5. n \in S
  <2>0. n \in Nat /\ \A m \in 1..n : m \in 0..n
    BY <1>2
  <2>1. 0 \in S /\ \A m \in 1..n : m - 1 \in S => m \in S
    <3> HIDE DEF Good, n
    <3> QED
      BY <1>3, <1>4, <2>0
  <2> HIDE DEF S, n
  <2> QED
    BY <2>0, <2>1, UpTo
<1>6. f[n] \in Seq(A) /\ Good(n)
  BY <1>2, <1>5
<1> QED
  BY <1>1, <1>6

-----------------------------------------------------------------------------
(* Values: what is met in one, and the bytes it takes. *)

\* A thing met stays one as its depths change.
LEMMA DepthsMet ==
  ASSUME NEW x \in Met, NEW p \in Int, NEW q \in Int
  PROVE  [x EXCEPT !.d = p, !.at = q] \in Met
<1> DEFINE y == [x EXCEPT !.d = p, !.at = q]
<1>1. ASSUME x \in [t : {"int", "big", "digits", "bool", "null", "nan"}, d : Int, at : Int]
      PROVE  y \in [t : {"int", "big", "digits", "bool", "null", "nan"}, d : Int, at : Int]
  BY <1>1
<1>2. ASSUME x \in [t : {"ref"}, d : Int, at : Int, id : Nat]
      PROVE  y \in [t : {"ref"}, d : Int, at : Int, id : Nat]
  BY <1>2
<1>3. ASSUME x \in [t : {"text", "key"}, d : Int, at : Int, n : Nat, w : Nat]
      PROVE  y \in [t : {"text", "key"}, d : Int, at : Int, n : Nat, w : Nat]
  BY <1>3
<1>4. ASSUME x \in [t : {"list", "map", "path", "hops"}, d : Int, at : Int, n : Nat]
      PROVE  y \in [t : {"list", "map", "path", "hops"}, d : Int, at : Int, n : Nat]
  BY <1>4
<1>5. ASSUME x \in [t : {"props"}, d : Int, at : Int, n : Nat, of : {"node", "rel"}]
      PROVE  y \in [t : {"props"}, d : Int, at : Int, n : Nat, of : {"node", "rel"}]
  BY <1>5
<1>6. ASSUME x \in [t : {"node"}, d : Int, at : Int, id : Nat, hop : BOOLEAN]
      PROVE  y \in [t : {"node"}, d : Int, at : Int, id : Nat, hop : BOOLEAN]
  BY <1>6
<1>7. ASSUME x \in [t : {"rel"}, d : Int, at : Int, id : Nat, from : Nat, to : Nat, hop : BOOLEAN]
      PROVE  y \in [t : {"rel"}, d : Int, at : Int, id : Nat, from : Nat, to : Nat, hop : BOOLEAN]
  BY <1>7
<1> HIDE DEF y
<1>8. y \in Met
  <2>1. \/ x \in [t : {"int", "big", "digits", "bool", "null", "nan"}, d : Int, at : Int]
        \/ x \in [t : {"ref"}, d : Int, at : Int, id : Nat]
        \/ x \in [t : {"text", "key"}, d : Int, at : Int, n : Nat, w : Nat]
        \/ x \in [t : {"list", "map", "path", "hops"}, d : Int, at : Int, n : Nat]
        \/ x \in [t : {"props"}, d : Int, at : Int, n : Nat, of : {"node", "rel"}]
        \/ x \in [t : {"node"}, d : Int, at : Int, id : Nat, hop : BOOLEAN]
        \/ x \in [t : {"rel"}, d : Int, at : Int, id : Nat, from : Nat, to : Nat, hop : BOOLEAN]
    BY DEF Met
  <2> QED
    BY <2>1, <1>1, <1>2, <1>3, <1>4, <1>5, <1>6, <1>7 DEF Met
<1> QED
  BY <1>8 DEF y

LEMMA DeeperMet ==
  ASSUME NEW x \in Met, NEW d \in Int, NEW at \in Int
  PROVE  [x EXCEPT !.d = @ + d, !.at = @ + at] \in Met
<1>1. x.d \in Int /\ x.at \in Int
  BY DEF Met
<1>2. x.d + d \in Int /\ x.at + at \in Int
  BY <1>1
<1> QED
  BY <1>2, DepthsMet

LEMMA DeeperIs ==
  ASSUME NEW v \in Seq(Met), NEW d \in Int, NEW at \in Int
  PROVE  /\ Deeper(v, d, at) \in Seq(Met)
         /\ Len(Deeper(v, d, at)) = Len(v)
         /\ \A i \in 1..Len(v) : Deeper(v, d, at)[i] = [v[i] EXCEPT !.d = @ + d, !.at = @ + at]
<1>1. \A i \in 1..Len(v) : [v[i] EXCEPT !.d = @ + d, !.at = @ + at] \in Met
  <2> SUFFICES ASSUME NEW i \in 1..Len(v) PROVE [v[i] EXCEPT !.d = @ + d, !.at = @ + at] \in Met
    OBVIOUS
  <2>1. v[i] \in Met
    OBVIOUS
  <2> QED
    BY <2>1, DeeperMet
<1> DEFINE e(i) == [v[i] EXCEPT !.d = @ + d, !.at = @ + at]
<1>2. Deeper(v, d, at) = [i \in 1..Len(v) |-> e(i)]
  BY DEF Deeper
<1>3. \A i \in 1..Len(v) : e(i) \in Met
  BY <1>1
<1> HIDE DEF e
<1>4. [i \in 1..Len(v) |-> e(i)] \in Seq(Met)
  BY <1>3
<1>5. Len([i \in 1..Len(v) |-> e(i)]) = Len(v)
  OBVIOUS
<1>6. \A i \in 1..Len(v) : Deeper(v, d, at)[i] = e(i)
  BY <1>2
<1> QED
  BY <1>2, <1>4, <1>5, <1>6 DEF e

LEMMA DigitsMet ==
  ASSUME NEW x \in Met, x.t \in {"int", "big"}
  PROVE  Digits(x) \in Met /\ Digits(x).t = "digits"
<1>1. x \in [t : {"int", "big", "digits", "bool", "null", "nan"}, d : Int, at : Int]
  BY DEF Met
<1> QED
  BY <1>1 DEF Met, Digits

LEMMA TypedIs ==
  ASSUME NEW v \in Seq(Met)
  PROVE  Typed(v) \in Seq(Met) /\ Len(Typed(v)) = Len(v)
<1> DEFINE e(i) == IF v[i].t \in {"int", "big"} THEN Digits(v[i]) ELSE v[i]
<1>1. \A i \in 1..Len(v) : e(i) \in Met
  <2> SUFFICES ASSUME NEW i \in 1..Len(v) PROVE e(i) \in Met
    OBVIOUS
  <2>1. v[i] \in Met
    OBVIOUS
  <2>2. v[i].t \in {"int", "big"} => Digits(v[i]) \in Met
    BY <2>1, DigitsMet
  <2> QED
    BY <2>1, <2>2
<1>2. Typed(v) = [i \in 1..Len(v) |-> e(i)]
  BY DEF Typed
<1> HIDE DEF e
<1> QED
  BY <1>1, <1>2

LEMMA OwnBytesIs ==
  ASSUME NEW x \in Met, NEW tag \in Nat
  PROVE  OwnBytes(x, tag) \in Nat
<1>1. x.t \in {"text", "key"} => x.w \in Nat
  BY DEF Met
<1>2. x.t \in {"list", "map"} => x.n \in Nat
  BY DEF Met
<1> QED
  BY <1>1, <1>2 DEF OwnBytes, Collections

LEMMA WrittenIs ==
  ASSUME NEW v \in Seq(Met), NEW tag \in Nat
  PROVE  /\ [i \in DOMAIN v |-> OwnBytes(v[i], tag)] \in Seq(Nat)
         /\ Written(v, tag) = Sums([i \in DOMAIN v |-> OwnBytes(v[i], tag)])[Len(v)]
         /\ Written(v, tag) \in Nat
<1> DEFINE sizes == [i \in DOMAIN v |-> OwnBytes(v[i], tag)]
<1>1. \A i \in 1..Len(v) : OwnBytes(v[i], tag) \in Nat
  BY OwnBytesIs
<1>2. sizes \in Seq(Nat) /\ Len(sizes) = Len(v)
  BY <1>1
<1>3. Written(v, tag) = Sums(sizes)[Len(v)]
  BY DEF Written, Sum
<1>4. Len(v) \in 0..Len(sizes)
  BY <1>2
<1> HIDE DEF sizes
<1>5. Sums(sizes)[Len(v)] \in Nat
  BY <1>2, <1>4, SumsAre
<1> QED
  BY <1>2, <1>3, <1>5 DEF sizes

\* Of two values met thing by thing, the one whose things take more bytes takes more.
LEMMA WrittenGrows ==
  ASSUME NEW v \in Seq(Met), NEW w \in Seq(Met), Len(v) = Len(w), NEW a \in Nat, NEW b \in Nat,
         \A i \in 1..Len(v) : OwnBytes(v[i], a) <= OwnBytes(w[i], b)
  PROVE  Written(v, a) <= Written(w, b)
<1> DEFINE x == [i \in DOMAIN v |-> OwnBytes(v[i], a)]
           y == [i \in DOMAIN w |-> OwnBytes(w[i], b)]
           n == Len(v)
           S == {i \in 0..n : Sums(x)[i] <= Sums(y)[i]}
<1>1. x \in Seq(Nat) /\ y \in Seq(Nat) /\ Written(v, a) = Sums(x)[n] /\ Written(w, b) = Sums(y)[n]
  BY WrittenIs
<1>2. n \in Nat /\ Len(x) = n /\ Len(y) = n /\ \A i \in 1..n : x[i] <= y[i]
  OBVIOUS
<1> HIDE DEF x, y, n
<1>3. /\ Sums(x) \in [0..n -> Nat] /\ Sums(x)[0] = 0 /\ \A i \in 1..n : Sums(x)[i] = Sums(x)[i - 1] + x[i]
      /\ Sums(y) \in [0..n -> Nat] /\ Sums(y)[0] = 0 /\ \A i \in 1..n : Sums(y)[i] = Sums(y)[i - 1] + y[i]
  BY <1>1, <1>2, SumsAre
<1>4. 0 \in S
  BY <1>2, <1>3
<1>5. ASSUME NEW i \in 1..n, i - 1 \in S PROVE i \in S
  <2>1. i - 1 \in 0..n /\ i \in 0..n
    BY <1>2
  <2>2. Sums(x)[i - 1] \in Nat /\ Sums(y)[i - 1] \in Nat /\ x[i] \in Nat /\ y[i] \in Nat
    <3>1. Sums(x)[i - 1] \in Nat /\ Sums(y)[i - 1] \in Nat
      BY <1>3, <2>1
    <3>2. x[i] \in Nat /\ y[i] \in Nat
      BY <1>1, <1>2
    <3> QED
      BY <3>1, <3>2
  <2>3. Sums(x)[i] = Sums(x)[i - 1] + x[i] /\ Sums(y)[i] = Sums(y)[i - 1] + y[i] /\ x[i] <= y[i]
    BY <1>2, <1>3
  <2> QED
    BY <1>5, <2>1, <2>2, <2>3
<1>6. n \in S
  <2> HIDE DEF S
  <2> QED
    BY <1>2, <1>4, <1>5, UpTo
<1> QED
  BY <1>1, <1>6

\* A cell takes no more than a cell may.
LEMMA CellSizeIs ==
  ASSUME NEW v \in Seq(Met)
  PROVE  /\ CellSize(Cell(v)) \in Nat /\ CellSize(Cell(v)) <= MaxCell
         /\ CellSize(ReadCell(v)) \in Nat
<1>1. MaxCell \in Nat /\ MaxCell > 0 /\ Tag \in Nat
  BY CellAssumption, PageAssumption
<1>2. Written(Typed(v), Tag) \in Nat
  BY <1>1, TypedIs, WrittenIs
<1>3. \A why : Marked(why).state # "value"
  BY DEF Marked
<1>4. CellSize(Cell(v)) \in Nat /\ CellSize(Cell(v)) <= MaxCell
  BY <1>1, <1>2, <1>3 DEF CellSize, Cell, Whole
<1> QED
  BY <1>3, <1>4 DEF CellSize, ReadCell

\* Where a thing ends is not before it, and in the value.
LEMMA ExtentIs ==
  ASSUME NEW v \in Seq(Met), NEW i \in 1..Len(v)
  PROVE  Extent(v, i) \in i..Len(v)
<1> DEFINE K == {j \in i..Len(v) : \A k \in i + 1..j : v[k].d > v[i].d \/ (v[k].d = v[i].d /\ v[k].t = "key")}
<1>1. i \in K /\ K \in SUBSET (0..Len(v)) /\ Len(v) \in Nat /\ K \in SUBSET (i..Len(v))
  OBVIOUS
<1>2. Extent(v, i) = CHOOSE x \in K : \A y \in K : x >= y
  BY DEF Extent, Max
<1> HIDE DEF K
<1>3. \E x \in K : \A y \in K : y <= x
  BY <1>1, LargestOf
<1>4. \E x \in K : \A y \in K : x >= y
  BY <1>1, <1>3
<1>5. Extent(v, i) \in K
  BY <1>2, <1>4
<1> QED
  BY <1>1, <1>5

LEMMA ItemsOfIs ==
  ASSUME NEW v \in Seq(Met)
  PROVE  /\ Len(ItemsOf(v)) \in Nat
         /\ DOMAIN ItemsOf(v) = 1..Len(ItemsOf(v))
         /\ \A k \in 1..Len(ItemsOf(v)) : ItemsOf(v)[k] \in Seq(Met)
<1> DEFINE I == {i \in DOMAIN v : v[i].d = 1 /\ v[i].t # "key"}
           tops == Ordered(Len(v), I)
           e(k) == Deeper(SubSeq(v, tops[k], Extent(v, tops[k])), -1, -1)
<1>1. Len(v) \in Nat /\ I \in SUBSET (1..Len(v))
  OBVIOUS
<1>2. tops \in Seq(I)
  <2> HIDE DEF I
  <2> QED
    BY <1>1, OrderedIs
<1>3. ItemsOf(v) = [k \in DOMAIN tops |-> e(k)]
  BY DEF ItemsOf
<1> HIDE DEF tops
<1>4. DOMAIN tops = 1..Len(tops) /\ Len(tops) \in Nat /\ \A k \in 1..Len(tops) : tops[k] \in 1..Len(v)
  BY <1>1, <1>2
<1>5. ASSUME NEW k \in 1..Len(tops) PROVE e(k) \in Seq(Met)
  <2>1. tops[k] \in 1..Len(v) /\ Extent(v, tops[k]) \in tops[k]..Len(v)
    BY <1>4, ExtentIs
  <2>2. SubSeq(v, tops[k], Extent(v, tops[k])) \in Seq(Met)
    BY <2>1
  <2>3. -1 \in Int
    OBVIOUS
  <2> QED
    BY <2>2, <2>3, DeeperIs
<1> HIDE DEF e
<1> QED
  BY <1>3, <1>4, <1>5

-----------------------------------------------------------------------------
(* Pages. *)

\* What a page is of, when it was asked for at an offset of all there is.
PageFollows(page, from, all) ==
  /\ page.from = from
  /\ page.to \in from..all
  /\ page.next # NoOffset => page.next = page.to /\ page.to > from

\* A part of a sequence.
LEMMA PartIs ==
  ASSUME NEW S, NEW s \in Seq(S), NEW a \in 0..Len(s), NEW b \in a..Len(s)
  PROVE  LET part == SubSeq(s, a + 1, b)
         IN  /\ part \in Seq(S) /\ Len(part) = b - a /\ b - a \in Nat
             /\ DOMAIN part = 1..(b - a)
             /\ \A i \in 1..(b - a) : part[i] = s[a + i] /\ a + i \in 1..Len(s)
<1>1. a \in Nat /\ b \in Nat /\ Len(s) \in Nat /\ a <= b /\ b <= Len(s)
  OBVIOUS
<1>2. SubSeq(s, a + 1, b) \in Seq(S)
  OBVIOUS
<1>3. Len(SubSeq(s, a + 1, b)) = b - a
  BY <1>1
<1> QED
  BY <1>1, <1>2, <1>3

\* Down no path, a value is found where one is.
LEMMA DescendIs ==
  ASSUME NEW v
  PROVE  Descend(v, <<>>) = [state |-> "found", value |-> v]
<1> DEFINE found == [state |-> "found", value |-> v]
           Step(at, k) ==
             IF at.state # "found" THEN at
             ELSE IF Kind(at.value) \notin Collections THEN [state |-> "unavailable"]
             ELSE IF k > Len(ItemsOf(at.value)) THEN [state |-> "missing"]
             ELSE [state |-> "found", value |-> ItemsOf(at.value)[k]]
           R(f) == f = [k \in 0..Len(<<>>) |-> IF k = 0 THEN found ELSE Step(f[k - 1], <<>>[k])]
<1>1. R([k \in 0..Len(<<>>) |-> found])
  <2>1. \A k \in 0..Len(<<>>) : k = 0
    OBVIOUS
  <2> HIDE DEF Step, found
  <2> QED
    BY <2>1
<1>2. PICK f : R(f) /\ Descend(v, <<>>) = f[0]
  <2>1. LET at == CHOOSE at : R(at) IN R(at) /\ Descend(v, <<>>) = at[Len(<<>>)]
    BY <1>1 DEF Descend
  <2> QED
    BY <2>1
<1>3. 0 \in 0..Len(<<>>)
  OBVIOUS
<1> HIDE DEF Step, found
<1>4. f[0] = found
  BY <1>2, <1>3
<1> QED
  BY <1>2, <1>4 DEF found

LEMMA RecordsFollow ==
  ASSUME NEW n \in Nat, NEW rows, DOMAIN rows = 1..n, Len(rows) = n, \A i \in 1..n : rows[i] \in Seq(Met),
         NEW from \in 0..n, NEW limit \in Nat
  PROVE  LET cells == [i \in DOMAIN rows |-> <<ReadCell(rows[i])>>]
             page == Records(cells, from, limit, 0)
         IN  page.state = "page" =>
               /\ PageFollows(page, from, n)
               /\ page.next = NoOffset => page.to = n \/ page.bound.truncated
<1> DEFINE cells == [i \in DOMAIN rows |-> <<ReadCell(rows[i])>>]
           most == Least(n, from + Least(limit, MaxRows))
           page == SubSeq(cells, from + 1, most)
           sizes == [i \in DOMAIN page |-> RowSize(page[i])]
           kept == Fitting(sizes, RecordBytes - RecordHead)
           got == Records(cells, from, limit, 0)
<1>1. n \in Nat /\ Len(cells) = n /\ DOMAIN cells = 1..n
  OBVIOUS
<1>2. ASSUME NEW i \in 1..n PROVE RowSize(cells[i]) \in Nat
  <2>3. CellSize(ReadCell(rows[i])) + 1 \in Nat
    BY CellSizeIs
  <2> DEFINE one == <<CellSize(ReadCell(rows[i])) + 1>>
  <2>4. one \in Seq(Nat) /\ Len(one) = 1
    BY <2>3
  <2>5. RowSize(cells[i]) = Sums(one)[1]
    <3>1. cells[i] = <<ReadCell(rows[i])>>
      OBVIOUS
    <3>2. Len(cells[i]) = 1 /\ DOMAIN cells[i] = {1} /\ cells[i][1] = ReadCell(rows[i])
      BY <3>1
    <3> HIDE DEF cells
    <3>3. [j \in DOMAIN cells[i] |-> CellSize(cells[i][j]) + 1] = one
      BY <3>2
    <3> QED
      BY <3>2, <3>3 DEF RowSize, Sum
  <2> HIDE DEF one
  <2>6. 1 \in 0..Len(one)
    BY <2>4
  <2>7. Sums(one)[1] \in Nat
    BY <2>4, <2>6, SumsAre
  <2> QED
    BY <2>5, <2>7
<1>3. MaxRows \in Nat /\ RecordBytes \in Nat /\ RecordHead \in Nat
  BY PageAssumption
<1>4. most \in from..n
  BY <1>1, <1>3 DEF Least
<1>5. /\ Len(page) = most - from /\ most - from \in Nat /\ DOMAIN page = 1..(most - from)
      /\ page \in Seq(ToSet(cells))
      /\ \A i \in 1..(most - from) : page[i] = cells[from + i] /\ from + i \in 1..n
  <2> HIDE DEF cells, most
  <2>1. cells \in Seq(ToSet(cells))
    BY <1>1 DEF cells, ToSet
  <2> QED
    BY <1>1, <1>4, <2>1, PartIs
<1> HIDE DEF cells, most
<1>6. sizes \in Seq(Nat) /\ Len(sizes) = most - from
  <2>1. \A i \in 1..(most - from) : RowSize(page[i]) \in Nat
    BY <1>1, <1>2, <1>4, <1>5
  <2>2. most - from \in Nat
    BY <1>1, <1>4
  <2>3. DOMAIN page = 1..(most - from)
    BY <1>5
  <2> HIDE DEF page
  <2> QED
    BY <2>1, <2>2, <2>3
<1>7. kept \in 0..(most - from)
  <2>1. RecordBytes - RecordHead \in Int
    BY <1>3
  <2> HIDE DEF sizes
  <2> QED
    BY <1>6, <2>1, FittingIs
<1>8. Least(from, n) = from
  BY <1>1 DEF Least
<1>9. SUFFICES ASSUME got.state = "page"
      PROVE  PageFollows(got, from, n) /\ (got.next = NoOffset => got.to = n \/ got.bound.truncated)
  BY DEF cells
<1>10. /\ got.from = from /\ got.to = from + kept
       /\ got.next = NextOffset(from, kept, n) /\ got.bound = BoundInfo(kept, n - from)
  <2> HIDE DEF sizes, page, kept
  <2> QED
    BY <1>1, <1>8, <1>9 DEF Records, Refused, sizes, page, kept, most
<1> HIDE DEF got, sizes, kept
<1>11. kept \in Nat /\ from + kept <= n
  BY <1>4, <1>7
<1>12. got.next = (IF from + kept < n /\ kept > 0 THEN from + kept ELSE -1)
  BY <1>10 DEF NextOffset, NoOffset
<1>13. kept < n - from => got.bound.truncated
  <2>1. got.bound = [returned |-> kept, total |-> n - from, truncated |-> kept < n - from]
    BY <1>10 DEF BoundInfo
  <2>2. got.bound.truncated = (kept < n - from)
    BY <2>1
  <2> QED
    BY <2>2
<1>14. got.to \in from..n
  BY <1>10, <1>11
<1>15. got.next # -1 => got.next = got.to /\ got.to > from
  BY <1>10, <1>11, <1>12
<1>16. got.next = -1 => got.to = n \/ got.bound.truncated
  BY <1>10, <1>11, <1>12, <1>13
<1> QED
  BY <1>10, <1>14, <1>15, <1>16 DEF PageFollows, NoOffset

LEMMA TextsFollow ==
  ASSUME NEW widths \in Seq(1..TextBytes), NEW from \in Boundaries(widths)
  PROVE  LET page == TextPage(widths, from)
             size == Sums(widths)[Len(widths)]
         IN  /\ page.state = "page"
             /\ PageFollows(page, from, size)
             /\ page.next = NoOffset => page.to = size
             /\ page.next # NoOffset => page.next \in Boundaries(widths)
<1> DEFINE n == Len(widths)
           sums == Sums(widths)
           size == sums[n]
           room == Least(from + TextBytes, size)
           K == {b \in Boundaries(widths) : b <= room}
<1>1. widths \in Seq(Nat) /\ n \in Nat /\ TextBytes \in Nat
  BY PageAssumption
<1>2. sums \in [0..n -> Nat] /\ sums[0] = 0 /\ \A i \in 1..n : sums[i] = sums[i - 1] + widths[i]
  BY <1>1, SumsAre
<1>3. \A i \in 0..n : sums[i] <= size
  BY <1>1, SumsGrow
<1>4. size \in Nat /\ \A b \in Boundaries(widths) : b \in 0..size
  <2>1. size \in Nat
    BY <1>1, <1>2
  <2>2. ASSUME NEW b \in Boundaries(widths) PROVE b \in 0..size
    <3>1. PICK k \in 0..n : b = sums[k]
      BY DEF Boundaries
    <3>2. b \in Nat /\ b <= size
      BY <1>2, <1>3, <3>1
    <3> HIDE DEF size
    <3> QED
      BY <2>1, <3>2
  <2> QED
    BY <2>1, <2>2
<1>5. from \in K /\ K \in SUBSET (0..size) /\ room \in Nat /\ room <= size
  BY <1>1, <1>4 DEF Least
<1>6. PICK end \in K : \A m \in K : m <= end
  <2> HIDE DEF K, size
  <2> QED
    BY <1>4, <1>5, LargestOf
<1>7. \A e \in Boundaries(widths) :
         e <= room /\ (\A c \in Boundaries(widths) : c <= room => c <= e) => e = end
  <2> SUFFICES ASSUME NEW e \in Boundaries(widths), e <= room, \A c \in Boundaries(widths) : c <= room => c <= e
               PROVE e = end
    OBVIOUS
  <2>1. e <= end /\ end <= e /\ e \in Nat /\ end \in Nat
    BY <1>4, <1>6
  <2> QED
    BY <2>1
<1>8. TextPage(widths, from) =
        [state |-> "page", from |-> from, to |-> end, next |-> IF end < size THEN end ELSE NoOffset]
  <2>1. end \in Boundaries(widths) /\ end <= room /\ \A c \in Boundaries(widths) : c <= room => c <= end
    BY <1>6
  <2>2. end = CHOOSE b \in Boundaries(widths) : b <= room /\ \A c \in Boundaries(widths) : c <= room => c <= b
    <3> HIDE DEF room
    <3> QED
      BY <1>7, <2>1
  <2> QED
    BY <2>2 DEF TextPage
<1>9. end \in from..size /\ end \in Boundaries(widths)
  <2> HIDE DEF size, room
  <2> QED
    BY <1>4, <1>5, <1>6
<1>10. end < size => end > from
  <2> SUFFICES ASSUME end < size PROVE end > from
    OBVIOUS
  <2>1. PICK k \in 0..n : from = sums[k]
    BY DEF Boundaries
  <2>2. k # n
    <3> SUFFICES ASSUME k = n PROVE FALSE
      OBVIOUS
    <3>1. from = size
      BY <2>1
    <3> HIDE DEF size
    <3> QED
      BY <1>4, <1>9, <3>1
  <2>3. k + 1 \in 1..n /\ (k + 1) - 1 = k
    BY <1>1, <2>2
  <2>4. sums[k + 1] = sums[k] + widths[k + 1] /\ widths[k + 1] \in 1..TextBytes /\ sums[k + 1] <= size
    BY <1>2, <1>3, <2>3, SMTT(30)
  <2>5. sums[k + 1] \in Boundaries(widths)
    BY <1>1, <2>3, SMTT(30) DEF Boundaries
  <2>6. sums[k + 1] <= room
    <3> HIDE DEF sums
    <3> QED
      BY <1>1, <1>4, <2>1, <2>4, SMTT(30) DEF Least, sums
  <2>7. sums[k + 1] <= end
    BY <1>6, <2>5, <2>6
  <2>8. from \in Nat /\ sums[k + 1] > from
    <3> HIDE DEF sums
    <3> QED
      BY <1>1, <1>4, <2>1, <2>4 DEF sums
  <2>9. sums[k + 1] \in Nat /\ end \in Nat
    <3>1. sums[k + 1] \in 0..size /\ end \in from..size
      BY <1>4, <1>9, <2>5
    <3>2. from \in 0..size /\ size \in Nat
      BY <1>4
    <3> HIDE DEF size, sums
    <3> QED
      BY <3>1, <3>2
  <2> DEFINE b == sums[k + 1]
  <2>10. b > from /\ b <= end /\ b \in Nat
    BY <2>7, <2>8, <2>9
  <2> HIDE DEF b
  <2> QED
    BY <2>8, <2>9, <2>10
<1> HIDE DEF sums, room, K
<1> QED
  BY <1>4, <1>8, <1>9, <1>10 DEF PageFollows, NoOffset, sums

LEMMA ItemsFollow ==
  ASSUME NEW v \in Seq(Met), Kind(v) \in Collections, NEW from \in 0..Len(ItemsOf(v)), NEW limit \in Nat
  PROVE  LET page == FieldDetail(v, <<>>, from, limit)
             all == Len(ItemsOf(v))
         IN  page.state = "page" =>
               /\ PageFollows(page, from, all)
               /\ page.next = NoOffset => page.to = all
<1> DEFINE items == ItemsOf(v)
           n == Len(items)
           most == Least(n, from + Least(limit, MaxPageItems))
           page == SubSeq(items, from + 1, most)
           sizes == [i \in DOMAIN page |-> CellSize(Cell(page[i])) + 1]
           kept == Fitting(sizes, PageBytes)
           got == FieldDetail(v, <<>>, from, limit)
<1>0. n \in Nat /\ from \in 0..n /\ DOMAIN items = 1..n /\ (\A k \in 1..n : items[k] \in Seq(Met)) /\ items \in Seq(ToSet(items))
  <2>1. n \in Nat /\ from \in 0..n /\ DOMAIN items = 1..n /\ (\A k \in 1..n : items[k] \in Seq(Met))
    BY ItemsOfIs
  <2>2. items = [k \in 1..n |-> items[k]]
    BY <2>1 DEF ItemsOf
  <2> HIDE DEF items
  <2> QED
    BY <2>1, <2>2 DEF ToSet
<1>1. Descend(v, <<>>) = [state |-> "found", value |-> v]
  BY DescendIs
<1>2. SUFFICES ASSUME got.state = "page"
      PROVE  PageFollows(got, from, n) /\ (got.next = NoOffset => got.to = n)
  OBVIOUS
<1>3. limit # 0 /\ got = ItemPage(items, from, limit)
  <2> HIDE DEF items
  <2> QED
    BY <1>1, <1>2 DEF FieldDetail, Refused, Collections, items
<1>4. MaxPageItems \in Nat /\ MaxPageItems > 0 /\ PageBytes \in Nat /\ MaxCell \in Nat /\ MaxCell < PageBytes
  BY PageAssumption, CellAssumption
<1> HIDE DEF items, n
<1>5. most \in from..n /\ (most = from => from = n)
  BY <1>0, <1>3, <1>4 DEF Least
<1> HIDE DEF most
<1>6. /\ Len(page) = most - from /\ DOMAIN page = 1..(most - from) /\ most - from \in Nat
      /\ \A i \in 1..(most - from) : page[i] = items[from + i] /\ from + i \in 1..n
  <2>1. n = Len(items) /\ from \in 0..Len(items) /\ most \in from..Len(items)
    BY <1>0, <1>5 DEF n
  <2> QED
    BY <1>0, <2>1, PartIs
<1>7. \A i \in 1..(most - from) : CellSize(Cell(page[i])) + 1 \in Nat /\ CellSize(Cell(page[i])) + 1 <= PageBytes
  <2> SUFFICES ASSUME NEW i \in 1..(most - from)
               PROVE  CellSize(Cell(page[i])) + 1 \in Nat /\ CellSize(Cell(page[i])) + 1 <= PageBytes
    OBVIOUS
  <2>1. page[i] \in Seq(Met)
    BY <1>0, <1>6
  <2> HIDE DEF page
  <2>2. CellSize(Cell(page[i])) \in Nat /\ CellSize(Cell(page[i])) <= MaxCell
    BY <2>1, CellSizeIs
  <2> DEFINE m == CellSize(Cell(page[i]))
  <2> HIDE DEF m
  <2>3. m \in Nat /\ m <= MaxCell
    BY <2>2 DEF m
  <2>4. m + 1 \in Nat /\ m + 1 <= PageBytes
    BY <1>4, <2>3
  <2> QED
    BY <2>4 DEF m
<1> HIDE DEF page
<1>8. sizes \in Seq(Nat) /\ Len(sizes) = most - from /\ \A i \in 1..(most - from) : sizes[i] <= PageBytes
  BY <1>6, <1>7
<1> HIDE DEF sizes
<1>9. /\ kept \in 0..(most - from)
      /\ kept = most - from \/ Sums(sizes)[kept + 1] > PageBytes
  <2>1. PageBytes \in Int
    BY <1>4
  <2> QED
    BY <1>8, <2>1, FittingIs
<1>10. kept = 0 => from = n
  <2> SUFFICES ASSUME kept = 0, most - from # 0 PROVE FALSE
    BY <1>0, <1>5
  <2>1. 1 \in 1..(most - from) /\ 1 - 1 = 0 /\ 0 + 1 = 1
    BY <1>6
  <2>2. Sums(sizes)[1] = Sums(sizes)[0] + sizes[1] /\ Sums(sizes)[0] = 0 /\ sizes[1] \in Nat
    BY <1>8, <2>1, SumsAre, SMTT(30)
  <2>3. Sums(sizes)[1] > PageBytes
    BY <1>9, <2>1
  <2> QED
    BY <1>4, <1>8, <2>1, <2>2, <2>3
<1>11. got = [state |-> "page", from |-> from, to |-> from + kept, next |-> NextOffset(from, kept, n)]
  <2>1. got.state = "page" /\ ItemPage(items, from, limit).state = "page"
    BY <1>2, <1>3
  <2> HIDE DEF got, kept
  <2> QED
    BY <1>3, <2>1 DEF ItemPage, Refused, sizes, page, most, kept, n
<1> HIDE DEF got, kept
<1> QED
  BY <1>0, <1>5, <1>9, <1>10, <1>11 DEF PageFollows, NextOffset, NoOffset

-----------------------------------------------------------------------------
(* What is read is asked for, and stays what is read until it is answered. *)

LEMMA JourneysAre ==
  ASSUME NEW j \in Journeys
  PROVE  \E s \in Talks, t \in Targets :
           /\ j.kind = "wire" /\ j.sent = s /\ j.target = t
           /\ \E d \in Deliveries(ResponseFrames(s[1], t)) :
                j.frames = d \o FlattenSeq([i \in 1..Len(s) - 1 |-> ResponseFrames(s[i + 1], t)])
<1> DEFINE Rest(s, t) == FlattenSeq([i \in 1..Len(s) - 1 |-> ResponseFrames(s[i + 1], t)])
           First1(s, t) == Deliveries(ResponseFrames(s[1], t))
<1>1. Journeys = UNION {{[kind |-> "wire", sent |-> s, target |-> t, frames |-> d \o Rest(s, t)] :
                           d \in First1(s, t)} : s \in Talks, t \in Targets}
  BY DEF Journeys
<1> HIDE DEF Rest, First1
<1>2. PICK s \in Talks, t \in Targets :
        \E d \in First1(s, t) : j = [kind |-> "wire", sent |-> s, target |-> t, frames |-> d \o Rest(s, t)]
  BY <1>1
<1>4. PICK d \in First1(s, t) : j = [kind |-> "wire", sent |-> s, target |-> t, frames |-> d \o Rest(s, t)]
  BY <1>2
<1> DEFINE heard == d \o Rest(s, t)
<1> HIDE DEF heard
<1>5. j = [kind |-> "wire", sent |-> s, target |-> t, frames |-> heard]
  BY <1>4 DEF heard
<1>6. j.kind = "wire" /\ j.sent = s /\ j.target = t /\ j.frames = heard
  BY <1>5
<1>3. j.kind = "wire" /\ j.sent = s /\ j.target = t /\ j.frames = d \o Rest(s, t)
  BY <1>6 DEF heard
<1> QED
  BY <1>3 DEF Rest, First1

LEMMA InquiryIs ==
  ASSUME NEW i \in Inquiries
  PROVE  /\ i.kind # "none"
         /\ i.kind = "cell" => i.value \in Values
         /\ i.kind = "records" => i.rows \in Tables /\ i.limit \in Limits
         /\ i.kind = "text" => i.widths \in Texts
         /\ i.kind = "items" => i.value \in Values /\ Kind(i.value) \in Collections /\ i.limit \in Limits
         /\ i.kind \in {"query", "graph"} => i.query \in Queries /\ i.limit \in Limits
         /\ i.kind = "search" => i.rows \in Tables /\ i.limit \in Limits
         /\ i.kind = "draft" => i.query \in Queries
         /\ i.kind = "schema" => i.schema \in Schemas
         /\ i.kind = "preview" => i.graph \in Graphs
         /\ i.kind = "stats" => i.columns \in Columns
         /\ i.kind = "node" => i.rows \in Tables
         /\ i.kind = "wire" => i \in Journeys
         /\ i.kind = "frame" => i \in Strays
         /\ i.kind = "filter" => i.cells \in Fields /\ i.predicate \in Predicates
<1>1. \A j \in Journeys : j.kind = "wire"
  BY JourneysAre
<1>2. \A j \in Strays : j.kind = "frame"
  BY DEF Strays
<1> QED
  BY <1>1, <1>2 DEF Inquiries

LEMMA ReadingIs ==
  /\ ReadInit => inquiry = None
  /\ [ReadNext]_readVars => \/ inquiry = None /\ \E i \in Inquiries : Ask(i)
                            \/ Receive /\ offset # NoOffset /\ inquiry' = inquiry
                            \/ UNCHANGED readVars
<1>1. Receive => offset # NoOffset /\ inquiry' = inquiry
  BY DEF Receive, Answered, Arrives, ReadRecords, ReadText, ReadItems, ReadPath, ReadCellOnce, RunQuery, RunSearch,
         ValidateQuery, ReadSchema, PreviewNode, ReadStats, ReadNode, HearFrame, CheckFrame, PlanShape,
         DrawPicture, NameNodes, ArrangeView, FirstPositions, FilterField
<1> QED
  BY <1>1 DEF ReadInit, ReadNext

\* What is read was asked for.
Asked == inquiry \in Inquiries \cup {None}

LEMMA ReadsAreAsked == ReadSpec => []Asked
<1>1. ReadInit => Asked
  BY DEF ReadInit, Asked
<1>2. Asked /\ [ReadNext]_readVars => Asked'
  BY ReadingIs DEF Ask, readVars, Asked
<1> QED
  BY <1>1, <1>2, PTL DEF ReadSpec

\* Of each kind of inquiry, what answers it.
LEMMA AnsweredBy ==
  ASSUME Receive
  PROVE  /\ inquiry.kind = "records" => ReadRecords
         /\ inquiry.kind = "text" => ReadText
         /\ inquiry.kind = "items" => ReadItems
         /\ inquiry.kind = "cell" => ReadCellOnce
         /\ inquiry.kind \in {"query", "graph"} => RunQuery
         /\ inquiry.kind = "search" => RunSearch
         /\ inquiry.kind = "draft" => ValidateQuery
         /\ inquiry.kind = "schema" => ReadSchema
         /\ inquiry.kind = "preview" => PreviewNode
         /\ inquiry.kind = "stats" => ReadStats
         /\ inquiry.kind = "node" => ReadNode
         /\ inquiry.kind = "wire" => HearFrame
         /\ inquiry.kind = "frame" => CheckFrame
         /\ inquiry.kind = "filter" => FilterField
  BY DEF Receive, ReadRecords, ReadText, ReadItems, ReadPath, ReadCellOnce, RunQuery, RunSearch,
         ValidateQuery, ReadSchema, PreviewNode, ReadStats, ReadNode, HearFrame, CheckFrame, PlanShape,
         DrawPicture, NameNodes, ArrangeView, FirstPositions, FilterField

\* A sequence of some things is one of more.
LEMMA WiderIs ==
  ASSUME NEW A, NEW B, A \subseteq B, NEW s \in Seq(A)
  PROVE  s \in Seq(B) /\ Len(s) \in Nat
<1>1. Len(s) \in Nat /\ s \in [1..Len(s) -> A]
  OBVIOUS
<1>2. s \in [1..Len(s) -> B]
  BY <1>1
<1> QED
  BY <1>1, <1>2

LEMMA TablesAre ==
  ASSUME NEW rows \in Tables
  PROVE  /\ Len(rows) \in Nat /\ DOMAIN rows = 1..Len(rows)
         /\ \A i \in 1..Len(rows) : IsValue(rows[i]) /\ rows[i] \in Seq(Met)
<1>1. rows \in Seq(ToSet(rows)) /\ \A v \in ToSet(rows) : IsValue(v)
  BY ReadingAssumption
<1>2. Len(rows) \in Nat /\ DOMAIN rows = 1..Len(rows)
  BY <1>1
<1>3. \A i \in 1..Len(rows) : rows[i] \in ToSet(rows)
  BY <1>2 DEF ToSet
<1> QED
  BY <1>1, <1>2, <1>3 DEF IsValue

\* Where the pages read so far leave the reader.
PagesHold ==
  inquiry.kind \in {"records", "text", "items"} =>
    /\ Everything \in Nat
    /\ read \in Seq(Nat \X Nat)
    /\ \A i \in DOMAIN read : read[i][1] = (IF i = 1 THEN 0 ELSE read[i - 1][2])
    /\ offset # NoOffset =>
         /\ offset \in 0..Everything
         /\ offset = (IF read = <<>> THEN 0 ELSE Last(read)[2])
         /\ read # <<>> => offset > Last(read)[1]
         /\ inquiry.kind = "text" => offset \in Boundaries(inquiry.widths)
    /\ answer # None /\ answer.state = "page" /\ offset = NoOffset =>
         /\ read # <<>>
         /\ Last(read)[2] = Everything \/ (inquiry.kind = "records" /\ answer.bound.truncated)

\* A page that follows on those before it leaves the reader where it ends.
LEMMA ArrivesHolds ==
  ASSUME NEW page, Arrives(page), PagesHold, inquiry.kind \in {"records", "text", "items"}, offset # NoOffset,
         page.state = "page" =>
           /\ page.from = offset
           /\ page.to \in offset..Everything
           /\ page.next # NoOffset => page.next = page.to /\ page.to > offset
           /\ page.next = NoOffset =>
                page.to = Everything \/ (inquiry.kind = "records" /\ page.bound.truncated)
           /\ page.next # NoOffset /\ inquiry.kind = "text" => page.next \in Boundaries(inquiry.widths)
  PROVE  PagesHold'
<1>1. /\ inquiry' = inquiry /\ answer' = page /\ Everything' = Everything
      /\ Everything \in Nat /\ offset \in 0..Everything /\ read \in Seq(Nat \X Nat)
      /\ \A i \in DOMAIN read : read[i][1] = (IF i = 1 THEN 0 ELSE read[i - 1][2])
      /\ offset = (IF read = <<>> THEN 0 ELSE Last(read)[2])
  BY DEF Arrives, PagesHold, Everything
<1>2. CASE page.state # "page"
  <2>1. read' = read /\ offset' = NoOffset
    BY <1>2 DEF Arrives
  <2> QED
    BY <1>1, <1>2, <2>1 DEF PagesHold
<1>3. CASE page.state = "page"
  <2> DEFINE p == <<page.from, page.to>>
             all == Everything
             more == Append(read, p)
  <2>1. read' = more /\ offset' = page.next
    BY <1>3 DEF Arrives
  <2>2. page.from = offset /\ page.to \in offset..all
    BY <1>3
  <2>3. p \in Nat \X Nat /\ p[1] = offset /\ p[2] = page.to
    <3> HIDE DEF all
    <3>1. all \in Nat /\ offset \in 0..all
      BY <1>1 DEF all
    <3> QED
      BY <2>2, <3>1
  <2> HIDE DEF p
  <2>4. /\ more \in Seq(Nat \X Nat) /\ Len(more) = Len(read) + 1 /\ DOMAIN more = 1..Len(read) + 1
        /\ more[Len(read) + 1] = p /\ Last(more) = p /\ more # <<>>
        /\ \A i \in 1..Len(read) : more[i] = read[i]
    BY <1>1, <2>3 DEF Last
  <2>5. \A i \in DOMAIN more : more[i][1] = (IF i = 1 THEN 0 ELSE more[i - 1][2])
    <3> SUFFICES ASSUME NEW i \in 1..Len(read) + 1
                 PROVE  more[i][1] = (IF i = 1 THEN 0 ELSE more[i - 1][2])
      BY <2>4
    <3>0. Len(read) \in Nat /\ DOMAIN read = 1..Len(read)
      BY <1>1
    <3>1. CASE i = Len(read) + 1
      <4>1. CASE Len(read) = 0
        <5>1. read = <<>> /\ i = 1
          BY <1>1, <3>1, <4>1
        <5> QED
          BY <1>1, <2>3, <2>4, <3>1, <5>1
      <4>2. CASE Len(read) # 0
        <5>1. read # <<>> /\ i # 1 /\ i - 1 = Len(read) /\ Len(read) \in 1..Len(read)
          BY <3>0, <3>1, <4>2
        <5>2. more[i - 1] = read[Len(read)] /\ offset = read[Len(read)][2]
          BY <1>1, <2>4, <5>1 DEF Last
        <5> QED
          BY <2>3, <2>4, <3>1, <5>1, <5>2
      <4> QED
        BY <4>1, <4>2
    <3>2. CASE i \in 1..Len(read)
      <4>1. i # 1 => i - 1 \in 1..Len(read)
        BY <3>0, <3>2
      <4> HIDE DEF more
      <4>2. more[i] = read[i] /\ (i # 1 => more[i - 1] = read[i - 1])
        BY <2>4, <3>2, <4>1
      <4> QED
        BY <1>1, <3>0, <3>2, <4>2
    <3> QED
      BY <3>0, <3>1, <3>2
  <2> HIDE DEF more
  <2>6. /\ page.next # NoOffset => page.next = page.to /\ page.to > offset
        /\ page.next = NoOffset => page.to = all \/ (inquiry.kind = "records" /\ page.bound.truncated)
        /\ page.next # NoOffset /\ inquiry.kind = "text" => page.next \in Boundaries(inquiry.widths)
    BY <1>3
  <2>7. page.to \in 0..all
    <3> HIDE DEF all
    <3>1. all \in Nat /\ offset \in 0..all
      BY <1>1 DEF all
    <3> QED
      BY <2>2, <3>1
  <2>8. offset' # NoOffset =>
          /\ offset' \in 0..all /\ offset' = Last(more)[2] /\ offset' > Last(more)[1]
          /\ inquiry.kind = "text" => offset' \in Boundaries(inquiry.widths)
    BY <2>1, <2>3, <2>4, <2>6, <2>7
  <2>9. offset' = NoOffset => Last(more)[2] = all \/ (inquiry.kind = "records" /\ answer'.bound.truncated)
    BY <1>1, <2>1, <2>3, <2>4, <2>6
  <2> QED
    BY <1>1, <2>1, <2>4, <2>5, <2>8, <2>9 DEF PagesHold
<1> QED
  BY <1>2, <1>3

(***************************************************************************)
(* Whatever is read a page at a time, a table, a text or a list, each page *)
(* begins where the one before it ended, and the last one ends where what  *)
(* is read does, or says that it is cut (Session::records, text_page,      *)
(* bounded_page).                                                          *)
(***************************************************************************)
THEOREM PagesMeetHolds == ReadSpec => []PagesMeet
<1>1. ReadInit => PagesHold
  BY DEF ReadInit, PagesHold, None
<1>2. Asked /\ PagesHold /\ [ReadNext]_readVars => PagesHold'
  <2> SUFFICES ASSUME Asked, PagesHold, [ReadNext]_readVars PROVE PagesHold'
    OBVIOUS
  <2>1. ASSUME NEW i \in Inquiries, Ask(i) PROVE PagesHold'
    <3>1. inquiry' = i /\ read' = <<>> /\ answer' = None /\ offset' = 0
      BY <2>1 DEF Ask
    <3>2. i.kind = "records" => Len(i.rows) \in Nat
      BY InquiryIs, TablesAre
    <3>3. i.kind = "text" => Sums(i.widths)[Len(i.widths)] \in Nat /\ 0 \in Boundaries(i.widths)
      <4> SUFFICES ASSUME i.kind = "text"
                   PROVE  Sums(i.widths)[Len(i.widths)] \in Nat /\ 0 \in Boundaries(i.widths)
        OBVIOUS
      <4>1. i.widths \in Seq(1..TextBytes)
        BY InquiryIs, ReadingAssumption
      <4>2. i.widths \in Seq(Nat) /\ Len(i.widths) \in 0..Len(i.widths) /\ 0 \in 0..Len(i.widths)
        <5> DEFINE w == i.widths
        <5> HIDE DEF w
        <5>1. w \in Seq(1..TextBytes)
          BY <4>1 DEF w
        <5>2. w \in Seq(Nat) /\ Len(w) \in Nat
          <6>1. 1..TextBytes \subseteq Nat
            OBVIOUS
          <6> QED
            BY <5>1, <6>1, WiderIs
        <5>3. Len(w) \in 0..Len(w) /\ 0 \in 0..Len(w)
          BY <5>2
        <5> QED
          BY <5>2, <5>3 DEF w
      <4>3. Sums(i.widths)[0] = 0 /\ Sums(i.widths)[Len(i.widths)] \in Nat
        BY <4>2, SumsAre
      <4> QED
        BY <4>2, <4>3 DEF Boundaries
    <3>4. i.kind = "items" => Len(ItemsOf(i.value)) \in Nat
      BY InquiryIs, ItemsOfIs, ReadingAssumption DEF IsValue
    <3>5. i.kind \in {"records", "text", "items"} => Everything' \in Nat
      BY <3>1, <3>2, <3>3, <3>4 DEF Everything
    <3>6. <<>> \in Seq(Nat \X Nat) /\ DOMAIN <<>> = {}
      OBVIOUS
    <3> QED
      BY <3>1, <3>3, <3>5, <3>6 DEF PagesHold
  <2>2. ASSUME Receive, offset # NoOffset, inquiry' = inquiry PROVE PagesHold'
    <3>0. inquiry \in Inquiries
      BY <2>2 DEF Asked, Receive, None, ReadRecords, ReadText, ReadItems, ReadPath, ReadCellOnce, RunQuery, RunSearch,
         ValidateQuery, ReadSchema, PreviewNode, ReadStats, ReadNode, HearFrame, CheckFrame, PlanShape,
         DrawPicture, NameNodes, ArrangeView, FirstPositions, FilterField
    <3>1. CASE inquiry.kind \notin {"records", "text", "items"}
      BY <2>2, <3>1 DEF PagesHold
    <3>2. CASE inquiry.kind = "records"
      <4> DEFINE n == Len(inquiry.rows)
                 cells == [i \in DOMAIN inquiry.rows |-> <<ReadCell(inquiry.rows[i])>>]
                 page == Records(cells, offset, inquiry.limit, 0)
      <4>1. Arrives(page)
        BY <2>2, <3>2, AnsweredBy DEF ReadRecords
      <4>2. inquiry.rows \in Tables /\ inquiry.limit \in Nat
        BY <3>0, <3>2, InquiryIs, ReadingAssumption
      <4>3. Everything = n /\ offset \in 0..n
        BY <2>2, <3>2 DEF Everything, PagesHold
      <4>4. page.state = "page" =>
              /\ PageFollows(page, offset, n)
              /\ page.next = NoOffset => page.to = n \/ page.bound.truncated
        <5> HIDE DEF n
        <5>1. /\ n \in Nat /\ DOMAIN inquiry.rows = 1..n /\ Len(inquiry.rows) = n
              /\ \A i \in 1..n : inquiry.rows[i] \in Seq(Met)
          BY <4>2, TablesAre DEF n
        <5> QED
          BY <4>2, <4>3, <5>1, RecordsFollow
      <4> HIDE DEF page, n
      <4>5. page.state = "page" =>
              /\ page.from = offset
              /\ page.to \in offset..Everything
              /\ page.next # NoOffset => page.next = page.to /\ page.to > offset
              /\ page.next = NoOffset => page.to = Everything \/ (inquiry.kind = "records" /\ page.bound.truncated)
        BY <3>2, <4>3, <4>4 DEF PageFollows
      <4> QED
        BY <2>2, <3>2, <4>1, <4>5, ArrivesHolds
    <3>3. CASE inquiry.kind = "text"
      <4>1. Arrives(TextPage(inquiry.widths, offset))
        BY <2>2, <3>3, AnsweredBy DEF ReadText
      <4>2. inquiry.widths \in Seq(1..TextBytes)
        BY <3>0, <3>3, InquiryIs, ReadingAssumption
      <4> DEFINE page == TextPage(inquiry.widths, offset)
      <4>3. Everything = Sums(inquiry.widths)[Len(inquiry.widths)] /\ offset \in Boundaries(inquiry.widths)
        BY <2>2, <3>3 DEF Everything, PagesHold
      <4>4. /\ PageFollows(page, offset, Everything)
            /\ page.next = NoOffset => page.to = Everything
            /\ page.next # NoOffset => page.next \in Boundaries(inquiry.widths)
        BY <4>2, <4>3, TextsFollow
      <4>5. Arrives(page)
        BY <4>1
      <4> HIDE DEF page
      <4> QED
        BY <2>2, <3>3, <4>4, <4>5, ArrivesHolds DEF PageFollows
    <3>4. CASE inquiry.kind = "items"
      <4>1. Arrives(FieldDetail(inquiry.value, <<>>, offset, inquiry.limit))
        BY <2>2, <3>4, AnsweredBy DEF ReadItems
      <4>2. inquiry.value \in Seq(Met) /\ Kind(inquiry.value) \in Collections /\ inquiry.limit \in Nat
        BY <3>0, <3>4, InquiryIs, ReadingAssumption DEF IsValue
      <4>3. Everything = Len(ItemsOf(inquiry.value)) /\ offset \in 0..Len(ItemsOf(inquiry.value))
        BY <2>2, <3>4 DEF Everything, PagesHold
      <4> DEFINE page == FieldDetail(inquiry.value, <<>>, offset, inquiry.limit)
      <4>4. page.state = "page" =>
              /\ PageFollows(page, offset, Everything)
              /\ page.next = NoOffset => page.to = Everything
        BY <4>2, <4>3, ItemsFollow
      <4>5. Arrives(page)
        BY <4>1
      <4> HIDE DEF page
      <4> QED
        BY <2>2, <3>4, <4>4, <4>5, ArrivesHolds DEF PageFollows
    <3> QED
      BY <3>1, <3>2, <3>3, <3>4
  <2>3. ASSUME UNCHANGED readVars PROVE PagesHold'
    BY <2>3 DEF readVars, PagesHold, Everything
  <2> QED
    BY <2>1, <2>2, <2>3, ReadingIs
<1>3. PagesHold => PagesMeet
  BY DEF PagesHold, PagesMeet
<1> QED
  BY <1>1, <1>2, <1>3, ReadsAreAsked, PTL DEF ReadSpec

-----------------------------------------------------------------------------
(* Cells. *)

\* What may be shown of a value.
Fine == {x \in Met : x.t \notin Composites /\ (x.t \in Collections => x.n <= MaxItems)}

LEMMA DepthsKeep ==
  ASSUME NEW x \in Met, NEW p \in Int, NEW q \in Int
  PROVE  LET y == [x EXCEPT !.d = p, !.at = q]
         IN  y.t = x.t /\ (x.t \in Collections => y.n = x.n)
<1>1. x.t \in Collections => x \in [t : {"list", "map", "path", "hops"}, d : Int, at : Int, n : Nat]
  BY DEF Met, Collections
<1>2. "t" \in DOMAIN x
  BY DEF Met
<1>3. x = [k \in DOMAIN x |-> x[k]]
  BY DEF Met
<1> QED
  BY <1>1, <1>2, <1>3

LEMMA DeeperKeeps ==
  ASSUME NEW x \in Met, NEW d \in Int, NEW at \in Int
  PROVE  LET y == [x EXCEPT !.d = @ + d, !.at = @ + at]
         IN  y.t = x.t /\ (x.t \in Collections => y.n = x.n)
<1>1. x.d \in Int /\ x.at \in Int
  BY DEF Met
<1>2. x.d + d \in Int /\ x.at + at \in Int
  BY <1>1
<1> QED
  BY <1>2, DepthsKeep

LEMMA DeeperFine ==
  ASSUME NEW v \in Seq(Fine), NEW d \in Int, NEW at \in Int
  PROVE  Deeper(v, d, at) \in Seq(Fine)
<1>1. v \in Seq(Met)
  BY WiderIs DEF Fine
<1>2. ASSUME NEW i \in 1..Len(v) PROVE [v[i] EXCEPT !.d = @ + d, !.at = @ + at] \in Fine
  <2>1. v[i] \in Fine /\ v[i] \in Met
    BY DEF Fine
  <2> DEFINE x == v[i]
             y == [x EXCEPT !.d = @ + d, !.at = @ + at]
  <2> HIDE DEF x
  <2>4. x \in Met
    BY <2>1 DEF x
  <2>2. y \in Met /\ y.t = x.t /\ (x.t \in Collections => y.n = x.n)
    <3>1. y \in Met
      BY <2>4, DeeperMet
    <3>2. y.t = x.t /\ (x.t \in Collections => y.n = x.n)
      BY <2>4, DeeperKeeps
    <3> QED
      BY <3>1, <3>2
  <2> HIDE DEF y
  <2>3. y \in Fine
    BY <2>1, <2>2 DEF Fine, x
  <2> QED
    BY <2>3 DEF x, y
<1> DEFINE e(i) == [v[i] EXCEPT !.d = @ + d, !.at = @ + at]
<1>3. \A i \in 1..Len(v) : e(i) \in Fine
  BY <1>2
<1>4. Deeper(v, d, at) = [i \in 1..Len(v) |-> e(i)]
  BY DEF Deeper
<1> HIDE DEF e
<1> QED
  BY <1>3, <1>4

LEMMA SeqsAre ==
  ASSUME NEW A, NEW n \in Nat, NEW f \in [1..n -> Seq(A)]
  PROVE  f \in SeqsOf(A) /\ Len(f) = n
<1> DEFINE B == Seq(A)
<1>1. f \in [1..n -> B]
  OBVIOUS
<1> HIDE DEF B
<1>2. f \in Seq(B) /\ Len(f) = n
  BY <1>1
<1> QED
  BY <1>2 DEF SeqsOf, B

\* Sequences of one thing each, one after another.
LEMMA FlatOnes ==
  ASSUME NEW A, NEW n \in Nat, NEW e \in [1..n -> A]
  PROVE  FlattenSeq([i \in 1..n |-> <<e[i]>>]) = e
<1> DEFINE seqs == [i \in 1..n |-> <<e[i]>>]
<1>1. seqs \in SeqsOf(A) /\ Len(seqs) = n
  <2>1. seqs \in [1..n -> Seq(A)]
    OBVIOUS
  <2> HIDE DEF seqs
  <2> QED
    BY <2>1, SeqsAre
<1>2. \A i \in 1..n : seqs[i] = <<e[i]>>
  OBVIOUS
<1> HIDE DEF seqs
<1>8. PICK f : /\ Follows(f, Seq(A), Len(seqs), <<>>, [p \in Seq(A) \X (1..Len(seqs)) |-> p[1] \o seqs[p[2]]])
               /\ \A i \in 1..Len(seqs) : f[i] = f[i - 1] \o seqs[i]
               /\ FlattenSeq(seqs) = f[Len(seqs)]
  BY <1>1, FlattenIs
<1>9. f[0] = <<>> /\ FlattenSeq(seqs) = f[Len(seqs)] /\ \A i \in 1..Len(seqs) : f[i] = f[i - 1] \o seqs[i]
  BY <1>8 DEF Follows
<1>3. f[0] = <<>> /\ FlattenSeq(seqs) = f[n] /\ \A i \in 1..n : f[i] = f[i - 1] \o seqs[i]
  BY <1>1, <1>9
<1> DEFINE part(k) == [i \in 1..k |-> e[i]]
           S == {k \in 0..n : f[k] = part(k)}
<1>4. 0 \in S
  BY <1>3
<1>5. ASSUME NEW k \in 1..n, k - 1 \in S PROVE k \in S
  <2>1. f[k] = part(k - 1) \o <<e[k]>>
    BY <1>2, <1>3, <1>5
  <2>2. part(k - 1) \in Seq(A) /\ Len(part(k - 1)) = k - 1
    <3>1. k - 1 \in Nat /\ \A i \in 1..k - 1 : e[i] \in A
      OBVIOUS
    <3> QED
      BY <3>1
  <2>3. part(k - 1) \o <<e[k]>> = part(k)
    <3> DEFINE a == part(k - 1)
    <3>1. \A i \in 1..k - 1 : a[i] = e[i]
      OBVIOUS
    <3> HIDE DEF a
    <3>2. a \in Seq(A) /\ Len(a) = k - 1 /\ e[k] \in A /\ k \in Nat
      BY <2>2 DEF a
    <3>3. a \o <<e[k]>> = [i \in 1..k |-> IF i <= k - 1 THEN a[i] ELSE e[k]]
      BY <3>2
    <3>4. \A i \in 1..k : (IF i <= k - 1 THEN a[i] ELSE e[k]) = e[i]
      BY <3>1, <3>2
    <3> QED
      BY <3>3, <3>4 DEF a
  <2> QED
    BY <2>1, <2>3
<1>6. n \in S
  <2> HIDE DEF S
  <2> QED
    BY <1>4, <1>5, UpTo
<1>7. part(n) = e
  OBVIOUS
<1> QED
  BY <1>3, <1>6, <1>7 DEF seqs

\* A walk that nothing stops met nothing it refuses.
LEMMA StopIs ==
  ASSUME NEW n \in Nat, NEW visits, DOMAIN visits = 1..n, Len(visits) = n, Stop(visits) = "none", NEW i \in 1..n
  PROVE  visits[i].flaw = "none"
<1> DEFINE I == {k \in 1..n : visits[k].depth > MaxDepth \/ visits[k].flaw # "none"}
           at == IF I # {} THEN Min(I) ELSE 0
           spent == Sums([k \in DOMAIN visits |-> visits[k].cost])
           out == {k \in DOMAIN visits : spent[k] > MaxCell}
<1>1. Stop(visits) = IF at # 0 /\ \A k \in out : at < k
                     THEN IF visits[at].depth > MaxDepth THEN "depth" ELSE visits[at].flaw
                     ELSE IF out # {} THEN "bytes" ELSE "none"
  BY DEF Stop, SelectInSubSeq
<1>2. SUFFICES ASSUME I # {} PROVE FALSE
  OBVIOUS
<1>3. at \in I
  <2>1. I \in SUBSET Nat
    OBVIOUS
  <2> HIDE DEF I
  <2> QED
    BY <1>2, <2>1, LeastOf DEF Min
<1> HIDE DEF at, out
<1>4. at # 0 /\ (visits[at].depth > MaxDepth \/ visits[at].flaw # "none")
  BY <1>3
<1> QED
  BY <1>1, <1>4

LEMMA TypedVisitsAre ==
  ASSUME NEW v \in Seq(Met), Stop(TypedVisits(v)) = "none", NEW i \in 1..Len(v)
  PROVE  /\ v[i].t \notin {"nan"} \cup Composites
         /\ v[i].t \in Collections => v[i].n <= MaxItems
<1>1. Len(v) \in Nat /\ DOMAIN TypedVisits(v) = 1..Len(v) /\ Len(TypedVisits(v)) = Len(v)
  BY DEF TypedVisits
<1>2. TypedVisits(v)[i].flaw = "none"
  BY <1>1, StopIs
<1>3. TypedVisit(v[i]).flaw = "none"
  BY <1>1, <1>2 DEF TypedVisits
<1>4. v[i].t \notin {"nan"} \cup Composites
  <2> SUFFICES ASSUME v[i].t \in {"nan"} \cup Composites PROVE FALSE
    OBVIOUS
  <2>1. v[i].t \in {"nan", "ref", "node", "rel", "path", "props", "hops"}
    BY DEF Composites
  <2>2. v[i].t # "text" /\ v[i].t # "key"
    BY <2>1
  <2>3. v[i].t \notin Collections
    BY <2>1 DEF Collections
  <2>4. TypedVisit(v[i]).flaw = "unreadable"
    BY <2>2, <2>3 DEF TypedVisit, Visit
  <2> QED
    BY <1>3, <2>4
<1>5. v[i].t \in Collections => TooMany(v[i].n) = "none"
  BY <1>3 DEF TypedVisit, Visit, Composites, Collections
<1>6. v[i].t \in Collections => v[i].n \in Nat
  BY DEF Met, Collections
<1>7. MaxItems \in Nat
  BY CellAssumption
<1> QED
  BY <1>4, <1>5, <1>6, <1>7 DEF TooMany

\* What is written with digits is of the same length and kinds.
LEMMA DigitsAre ==
  ASSUME NEW x \in Met, NEW a \in Nat, x.t \in {"int", "big"}
  PROVE  OwnBytes(Digits(x), a) = OwnBytes(x, a)
<1>1. Digits(x).t = "digits"
  BY DigitsMet
<1> QED
  BY <1>1 DEF OwnBytes, Collections

LEMMA TaggedIs ==
  ASSUME NEW x \in Met, NEW a \in Nat
  PROVE  OwnBytes(x, 0) <= OwnBytes(x, a)
<1>1. x.t \in {"text", "key"} => x.w \in Nat
  BY DEF Met
<1>2. x.t \in {"list", "map"} => x.n \in Nat
  BY DEF Met
<1> QED
  BY <1>1, <1>2 DEF OwnBytes, Collections

\* A cell that has its value.
LEMMA CellIs ==
  ASSUME NEW v \in Seq(Met)
  PROVE  Cell(v).state = "value" =>
           /\ Cell(v).value = Typed(v)
           /\ Written(Typed(v), Tag) <= MaxCell
           /\ \A i \in 1..Len(v) : /\ v[i].t \notin {"nan"} \cup Composites
                                   /\ v[i].t \in Collections => v[i].n <= MaxItems
<1>1. SUFFICES ASSUME Cell(v).state = "value" PROVE /\ Cell(v).value = Typed(v)
           /\ Written(Typed(v), Tag) <= MaxCell
           /\ \A i \in 1..Len(v) : /\ v[i].t \notin {"nan"} \cup Composites
                                   /\ v[i].t \in Collections => v[i].n <= MaxItems
  OBVIOUS
<1>2. \A why : Marked(why).state # "value"
  BY DEF Marked
<1>3. Stop(TypedVisits(v)) = "none" /\ ~(Written(Typed(v), Tag) > MaxCell) /\ Cell(v) = Whole(Typed(v))
  BY <1>1, <1>2 DEF Cell
<1>4. Written(Typed(v), Tag) \in Nat /\ MaxCell \in Nat
  BY TypedIs, WrittenIs, CellAssumption
<1>5. Cell(v).value = Typed(v)
  BY <1>3 DEF Whole
<1> QED
  BY <1>3, <1>4, <1>5, TypedVisitsAre

LEMMA CellHonest ==
  ASSUME NEW v \in Seq(Met)
  PROVE  ShownHonestly(Cell(v))
<1> SUFFICES ASSUME Cell(v).state = "value"
             PROVE  /\ Written(Typed(v), 0) <= MaxCell
                    /\ \A part \in ToSet(Typed(v)) :
                         /\ part.t \notin {"big"} \cup Composites
                         /\ part.t \in Collections => part.n <= MaxItems
  BY CellIs DEF ShownHonestly
<1>0. Tag \in Nat /\ MaxCell \in Nat /\ 0 \in Nat
  BY CellAssumption
<1>1. Typed(v) \in Seq(Met) /\ Len(Typed(v)) = Len(v) /\ Len(v) \in Nat
  BY TypedIs
<1>2. Written(Typed(v), 0) <= Written(Typed(v), Tag)
  <2>1. \A i \in 1..Len(Typed(v)) : OwnBytes(Typed(v)[i], 0) <= OwnBytes(Typed(v)[i], Tag)
    BY <1>0, <1>1, TaggedIs
  <2> QED
    BY <1>0, <1>1, <2>1, WrittenGrows
<1>3. Written(Typed(v), 0) <= MaxCell
  <2>1. Written(Typed(v), 0) \in Nat /\ Written(Typed(v), Tag) \in Nat /\ Written(Typed(v), Tag) <= MaxCell
    BY <1>0, <1>1, WrittenIs, CellIs
  <2> QED
    BY <1>0, <1>2, <2>1
<1>4. ASSUME NEW part \in ToSet(Typed(v))
      PROVE  part.t \notin {"big"} \cup Composites /\ (part.t \in Collections => part.n <= MaxItems)
  <2>1. PICK i \in 1..Len(v) : part = Typed(v)[i]
    BY <1>1 DEF ToSet
  <2>2. part = IF v[i].t \in {"int", "big"} THEN Digits(v[i]) ELSE v[i]
    BY <1>1, <2>1 DEF Typed
  <2>3. v[i] \in Met /\ v[i].t \notin {"nan"} \cup Composites /\ (v[i].t \in Collections => v[i].n <= MaxItems)
    BY <1>1, CellIs
  <2>4. CASE v[i].t \in {"int", "big"}
    <3>1. part.t = "digits"
      BY <2>2, <2>3, <2>4, DigitsMet
    <3> QED
      BY <3>1 DEF Composites, Collections
  <2>5. CASE v[i].t \notin {"int", "big"}
    BY <2>2, <2>3, <2>5
  <2> QED
    BY <2>4, <2>5
<1> QED
  BY <1>3, <1>4

\* The JSON of what may be shown: no more bytes, and nothing rounded.
LEMMA JsonIs ==
  ASSUME NEW v \in Seq(Met), AsMap(v) \in Seq(Fine)
  PROVE  /\ Json(v) \in Seq(Met) /\ Len(Json(v)) = Len(AsMap(v))
         /\ \A i \in 1..Len(AsMap(v)) :
              Json(v)[i] = IF AsMap(v)[i].t = "big" THEN Digits(AsMap(v)[i]) ELSE AsMap(v)[i]
         /\ \A part \in ToSet(Json(v)) : /\ part.t \notin {"big"} \cup Composites
                                         /\ part.t \in Collections => part.n <= MaxItems
<1> DEFINE shown == AsMap(v)
           e(i) == IF shown[i].t = "big" THEN Digits(shown[i]) ELSE shown[i]
<1>1. shown \in Seq(Fine) /\ Len(shown) \in Nat
  OBVIOUS
<1>2. Json(v) = [i \in 1..Len(shown) |-> e(i)]
  <2>1. DOMAIN shown = 1..Len(shown)
    BY <1>1
  <2> QED
    BY <2>1 DEF Json
<1> HIDE DEF shown
<1>3. ASSUME NEW i \in 1..Len(shown)
      PROVE  e(i) \in Met /\ e(i).t \notin {"big"} \cup Composites /\ (e(i).t \in Collections => e(i).n <= MaxItems)
  <2>1. shown[i] \in Fine
    BY <1>1
  <2>2. shown[i] \in Met /\ shown[i].t \notin Composites /\ (shown[i].t \in Collections => shown[i].n <= MaxItems)
    BY <2>1 DEF Fine
  <2>3. CASE shown[i].t = "big"
    <3>1. e(i) \in Met /\ e(i).t = "digits"
      BY <2>2, <2>3, DigitsMet
    <3> QED
      BY <3>1 DEF Composites, Collections
  <2>4. CASE shown[i].t # "big"
    BY <2>2, <2>4
  <2> QED
    BY <2>3, <2>4
<1>4. \A i \in 1..Len(shown) : Json(v)[i] = IF shown[i].t = "big" THEN Digits(shown[i]) ELSE shown[i]
  BY <1>2
<1> HIDE DEF e
<1>5. Json(v) \in Seq(Met) /\ Len(Json(v)) = Len(shown)
  BY <1>1, <1>2, <1>3
<1>6. ASSUME NEW part \in ToSet(Json(v))
      PROVE  part.t \notin {"big"} \cup Composites /\ (part.t \in Collections => part.n <= MaxItems)
  <2>1. PICK i \in 1..Len(shown) : part = e(i)
    BY <1>1, <1>2 DEF ToSet
  <2> QED
    BY <1>3, <2>1
<1> QED
  BY <1>4, <1>5, <1>6 DEF shown

LEMMA LegacyHonest ==
  ASSUME NEW v \in Seq(Met)
  PROVE  ShownHonestly(LegacyCell(v))
<1> SUFFICES ASSUME Cell(v).state = "value"
             PROVE  /\ Written(Json(v), 0) <= MaxCell
                    /\ \A part \in ToSet(Json(v)) :
                         /\ part.t \notin {"big"} \cup Composites
                         /\ part.t \in Collections => part.n <= MaxItems
  BY DEF ShownHonestly, LegacyCell, Whole
<1> DEFINE e == [i \in 1..Len(v) |-> [v[i] EXCEPT !.at = v[i].d]]
<1>0. Tag \in Nat /\ MaxCell \in Nat /\ 0 \in Nat /\ Len(v) \in Nat
  BY CellAssumption
<1>1. ASSUME NEW i \in 1..Len(v)
      PROVE  /\ v[i] \in Met /\ v[i].t \notin Composites /\ e[i] \in Fine /\ e[i].t = v[i].t
             /\ v[i].t \in {"text", "key"} => e[i].w = v[i].w
             /\ v[i].t \in Collections => e[i].n = v[i].n
  <2> DEFINE x == v[i]
             y == [x EXCEPT !.at = x.d]
  <2>1. x \in Met /\ x.t \notin Composites /\ (x.t \in Collections => x.n <= MaxItems)
    BY CellIs
  <2> HIDE DEF x
  <2>2. x.d \in Int /\ y = [x EXCEPT !.d = x.d, !.at = x.d]
    BY <2>1 DEF Met
  <2>3. y \in Met
    BY <2>1, <2>2, DepthsMet
  <2>4. y.t = x.t /\ (x.t \in Collections => y.n = x.n)
    BY <2>1, <2>2, DepthsKeep
  <2>5. x.t \in {"text", "key"} => y.w = x.w
    <3>1. x.t \in {"text", "key"} => x \in [t : {"text", "key"}, d : Int, at : Int, n : Nat, w : Nat]
      BY <2>1 DEF Met
    <3> QED
      BY <3>1
  <2>6. e[i] = y
    BY DEF x
  <2> HIDE DEF y, e
  <2> QED
    BY <2>1, <2>3, <2>4, <2>5, <2>6 DEF Fine, x
<1>2. e \in [1..Len(v) -> Fine] /\ e \in Seq(Fine) /\ Len(e) = Len(v)
  BY <1>0, <1>1
<1>3. AsMap(v) = e
  <2>1. \A i \in 1..Len(v) : ShownAs(v[i]) = <<e[i]>>
    BY <1>1 DEF ShownAs, Composites
  <2>2. [i \in DOMAIN v |-> ShownAs(v[i])] = [i \in 1..Len(v) |-> <<e[i]>>]
    BY <2>1
  <2> HIDE DEF e
  <2> QED
    BY <1>0, <1>2, <2>2, FlatOnes DEF AsMap, Flat
<1> HIDE DEF e
<1>4. /\ Json(v) \in Seq(Met) /\ Len(Json(v)) = Len(v)
      /\ \A i \in 1..Len(v) : Json(v)[i] = IF e[i].t = "big" THEN Digits(e[i]) ELSE e[i]
      /\ \A part \in ToSet(Json(v)) : /\ part.t \notin {"big"} \cup Composites
                                      /\ part.t \in Collections => part.n <= MaxItems
  BY <1>2, <1>3, JsonIs
<1>5. Typed(v) \in Seq(Met) /\ Len(Typed(v)) = Len(v)
  BY TypedIs
<1>6. ASSUME NEW i \in 1..Len(v) PROVE OwnBytes(Json(v)[i], 0) <= OwnBytes(Typed(v)[i], Tag)
  <2>1. v[i] \in Met /\ e[i] \in Met
    BY <1>1 DEF Fine
  <2>2. OwnBytes(e[i], 0) = OwnBytes(v[i], 0)
    BY <1>1 DEF OwnBytes, Collections
  <2>3. OwnBytes(Json(v)[i], 0) = OwnBytes(e[i], 0)
    BY <1>0, <1>4, <2>1, DigitsAre
  <2>4. OwnBytes(Typed(v)[i], Tag) = OwnBytes(v[i], Tag)
    <3>1. Typed(v)[i] = IF v[i].t \in {"int", "big"} THEN Digits(v[i]) ELSE v[i]
      BY DEF Typed
    <3> QED
      BY <1>0, <2>1, <3>1, DigitsAre
  <2> QED
    BY <1>0, <2>1, <2>2, <2>3, <2>4, TaggedIs
<1>7. Written(Json(v), 0) <= Written(Typed(v), Tag)
  BY <1>0, <1>4, <1>5, <1>6, WrittenGrows
<1>8. Written(Typed(v), Tag) <= MaxCell /\ Written(Typed(v), Tag) \in Nat /\ Written(Json(v), 0) \in Nat
  BY <1>0, <1>4, <1>5, CellIs, WrittenIs
<1> QED
  BY <1>0, <1>4, <1>7, <1>8

LEMMA FineParts ==
  /\ \A t \in {"int", "bool", "null", "nan", "digits", "big"} : Leaf(t) \in Seq(Fine)
  /\ Key \in Seq(Fine)
  /\ Name \in Seq(Fine)
  /\ \A t \in {"map", "list"}, n \in Nat : n <= MaxItems => Opening(t, n) \in Seq(Fine)
<1>1. ASSUME NEW t \in {"int", "bool", "null", "nan", "digits", "big"} PROVE Leaf(t) \in Seq(Fine)
  <2> DEFINE x == [t |-> t, d |-> 0, at |-> 0]
  <2>1. x \in Met /\ x.t = t
    BY DEF Met
  <2>2. Leaf(t) = <<x>>
    BY DEF Leaf
  <2> HIDE DEF x
  <2>3. x \in Fine
    BY <2>1 DEF Fine, Composites, Collections
  <2> QED
    BY <2>2, <2>3
<1>2. Key \in Seq(Fine)
  <2> DEFINE x == [t |-> "key", d |-> 0, at |-> 0, n |-> 1, w |-> 1]
  <2>1. x \in Met /\ x.t = "key"
    BY DEF Met
  <2>2. Key = <<x>>
    BY DEF Key
  <2> HIDE DEF x
  <2>3. x \in Fine
    BY <2>1 DEF Fine, Composites, Collections
  <2> QED
    BY <2>2, <2>3
<1>3. Name \in Seq(Fine)
  <2> DEFINE x == [t |-> "text", d |-> 0, at |-> 0, n |-> 1, w |-> 1]
  <2>1. x \in Met /\ x.t = "text"
    BY DEF Met
  <2>2. Name = <<x>>
    BY DEF Name, Text
  <2> HIDE DEF x
  <2>3. x \in Fine
    BY <2>1 DEF Fine, Composites, Collections
  <2> QED
    BY <2>2, <2>3
<1>4. ASSUME NEW t \in {"map", "list"}, NEW n \in Nat, n <= MaxItems PROVE Opening(t, n) \in Seq(Fine)
  <2> DEFINE x == [t |-> t, d |-> 0, at |-> 0, n |-> n]
  <2>1. x \in Met /\ x.t = t /\ x.n = n
    BY DEF Met
  <2>2. Opening(t, n) = <<x>>
    BY DEF Opening
  <2> HIDE DEF x
  <2>3. x \in Fine
    BY <1>4, <2>1 DEF Fine, Composites, Collections
  <2> QED
    BY <2>2, <2>3
<1> QED
  BY <1>1, <1>2, <1>3, <1>4

LEMMA FineJoins ==
  ASSUME NEW v \in Seq(Fine), NEW w \in Seq(Fine)
  PROVE  v \o w \in Seq(Fine)
  OBVIOUS

LEMMA FineItems ==
  ASSUME NEW v \in Seq(Fine)
  PROVE  Item(v) \in Seq(Fine) /\ Keyed(v) \in Seq(Fine)
<1>1. Item(v) \in Seq(Fine)
  BY DeeperFine DEF Item
<1> QED
  BY <1>1, FineParts, FineJoins DEF Keyed

LEMMA FineNames == List(<<Name>>) \in Seq(Fine)
<1>1. 1 \in Nat /\ 1 <= MaxItems
  BY CellAssumption
<1>2. Flat(<<Name>>, Item) \in Seq(Fine)
  <2> DEFINE seqs == [i \in 1..1 |-> Item(Name)]
  <2>1. Flat(<<Name>>, Item) = FlattenSeq(seqs)
    <3>1. DOMAIN <<Name>> = 1..1 /\ \A i \in 1..1 : <<Name>>[i] = Name
      OBVIOUS
    <3>2. [i \in DOMAIN <<Name>> |-> Item(<<Name>>[i])] = seqs
      BY <3>1
    <3> QED
      BY <3>2 DEF Flat
  <2>2. Item(Name) \in Seq(Fine)
    BY FineParts, FineItems
  <2>3. seqs \in [1..1 -> Seq(Fine)]
    BY <2>2
  <2> HIDE DEF seqs
  <2>4. seqs \in SeqsOf(Fine)
    BY <1>1, <2>3, SeqsAre
  <2> QED
    BY <2>1, <2>4, FlattenHas
<1>3. Len(<<Name>>) = 1
  OBVIOUS
<1>4. Opening("list", 1) \in Seq(Fine)
  BY <1>1, FineParts
<1>5. Opening("list", 1) \o Flat(<<Name>>, Item) \in Seq(Fine)
  BY <1>2, <1>4, FineJoins
<1> QED
  BY <1>3, <1>5 DEF List

\* A record as it is shown, of what is no longer than a collection may be.
LEMMA ShownFine ==
  ASSUME NEW x \in Met, x.t \in {"list", "map", "props", "hops"} => x.n <= MaxItems
  PROVE  ShownAs(x) \in Seq(Fine)
<1> DEFINE As(v) == Deeper(v, x.d, x.d)
           Plain == <<[x EXCEPT !.at = x.d]>>
           NodeMap == Opening("map", 3) \o Keyed(Leaf("int")) \o Keyed(List(<<Name>>)) \o Key
           RelMap == Opening("map", 5) \o Keyed(Leaf("int")) \o Keyed(Leaf("int")) \o Keyed(Leaf("int"))
                       \o Keyed(Name) \o Key
<1>0. x.d \in Int /\ MaxItems \in Nat /\ MaxItems >= 5 /\ -1 \in Int
  BY CellAssumption DEF Met
<1>1. \A v \in Seq(Fine) : As(v) \in Seq(Fine)
  BY <1>0, DeeperFine
<1>2. /\ \A t \in {"map", "list"}, n \in Nat : n <= MaxItems => Opening(t, n) \in Seq(Fine)
      /\ Leaf("int") \in Seq(Fine) /\ Key \in Seq(Fine) /\ Name \in Seq(Fine)
  BY FineParts
<1>3. Keyed(Leaf("int")) \in Seq(Fine) /\ Keyed(Name) \in Seq(Fine) /\ Keyed(List(<<Name>>)) \in Seq(Fine)
  BY <1>2, FineItems, FineNames
<1>4. x.t \in {"list", "map", "props", "hops", "path"} => x.n \in Nat
  BY DEF Met
<1>5. Opening("map", 3) \in Seq(Fine) /\ Opening("map", 5) \in Seq(Fine) /\ Opening("map", 2) \in Seq(Fine)
  BY <1>0, <1>2
<1>6. NodeMap \in Seq(Fine)
  BY <1>2, <1>3, <1>5, FineJoins
<1>7. RelMap \in Seq(Fine)
  BY <1>2, <1>3, <1>5, FineJoins
<1>8. CASE x.t = "ref"
  BY <1>1, <1>2, <1>8 DEF ShownAs
<1>9. CASE x.t = "node"
  <2>1. ShownAs(x) = As(NodeMap)
    BY <1>9 DEF ShownAs
  <2> QED
    BY <1>1, <1>6, <2>1
<1>10. CASE x.t = "rel"
  <2>1. ShownAs(x) = As(RelMap)
    BY <1>10 DEF ShownAs
  <2> QED
    BY <1>1, <1>7, <2>1
<1>11. CASE x.t = "props"
  <2>1. Opening("map", x.n) \in Seq(Fine)
    BY <1>2, <1>4, <1>11
  <2>2. ShownAs(x) = As(Opening("map", x.n))
    BY <1>11 DEF ShownAs
  <2> QED
    BY <1>1, <2>1, <2>2
<1>12. CASE x.t = "path"
  <2>2. ShownAs(x) = As(Opening("map", 2))
    BY <1>12 DEF ShownAs
  <2> QED
    BY <1>1, <1>5, <2>2
<1>13. CASE x.t = "hops"
  <2>1. Opening("list", x.n) \in Seq(Fine)
    BY <1>2, <1>4, <1>13
  <2>2. Deeper(Key, -1, -1) \in Seq(Fine)
    BY <1>0, <1>2, DeeperFine
  <2>3. Deeper(Key, -1, -1) \o Opening("list", x.n) \in Seq(Fine)
    BY <2>1, <2>2, FineJoins
  <2>4. ShownAs(x) = As(Deeper(Key, -1, -1) \o Opening("list", x.n))
    BY <1>13 DEF ShownAs
  <2> QED
    BY <1>1, <2>3, <2>4
<1>14. CASE x.t \notin Composites
  <2> DEFINE y == [x EXCEPT !.at = x.d]
  <2>1. y = [x EXCEPT !.d = x.d, !.at = x.d]
    BY DEF Met
  <2>2. y \in Met
    BY <1>0, <2>1, DepthsMet
  <2>5. y.t = x.t /\ (x.t \in Collections => y.n = x.n)
    BY <1>0, <2>1, DepthsKeep
  <2>3. ShownAs(x) = <<y>>
    BY <1>14 DEF ShownAs, Composites
  <2> HIDE DEF y
  <2>4. y \in Fine
    BY <1>14, <2>2, <2>5 DEF Fine, Collections
  <2> QED
    BY <2>3, <2>4
<1> QED
  BY <1>8, <1>9, <1>10, <1>11, <1>12, <1>13, <1>14 DEF Composites

\* What a query's value is shown as, when its walk is not stopped.
LEMMA PreviewFine ==
  ASSUME NEW v, IsValue(v), Stop(PreviewVisits(v)) = "none"
  PROVE  AsMap(v) \in Seq(Fine)
<1>1. v \in Seq(Met) /\ Len(v) \in Nat /\ MaxItems \in Nat
  BY CellAssumption DEF IsValue
<1> DEFINE n == Len(v)
           visits == [i \in 1..n |-> PreviewVisit(v[i])]
           All == UNION {{PreviewVisit(v[i])[k] : k \in DOMAIN PreviewVisit(v[i])} : i \in 1..n}
<1>2. \A i \in 1..n : PreviewVisit(v[i]) \in Seq(All)
  <2> SUFFICES ASSUME NEW i \in 1..n PROVE PreviewVisit(v[i]) \in Seq(All)
    OBVIOUS
  <2> DEFINE p == PreviewVisit(v[i])
  <2>1. p = <<>> \/ \E x : p = <<x>>
    BY DEF PreviewVisit
  <2>2. \A k \in DOMAIN p : p[k] \in All
    OBVIOUS
  <2> HIDE DEF p, All
  <2>3. p \in Seq(All)
    <3>1. CASE p = <<>>
      BY <3>1
    <3>2. CASE \E x : p = <<x>>
      <4>1. PICK x : p = <<x>>
        BY <3>2
      <4>2. x \in All
        <5>1. 1 \in DOMAIN p /\ p[1] = x
          BY <4>1
        <5> QED
          BY <2>2, <5>1
      <4> QED
        BY <4>1, <4>2
    <3> QED
      BY <2>1, <3>1, <3>2
  <2> QED
    BY <2>3 DEF p
<1>3. PreviewVisits(v) = FlattenSeq(visits)
  BY <1>1 DEF PreviewVisits, Flat
<1> HIDE DEF All
<1>4. visits \in SeqsOf(All) /\ Len(visits) = n
  <2>1. visits \in [1..n -> Seq(All)]
    BY <1>2
  <2> HIDE DEF visits
  <2> QED
    BY <1>1, <2>1, SeqsAre
<1>5. ASSUME NEW i \in 1..n, NEW j \in 1..Len(PreviewVisit(v[i])) PROVE PreviewVisit(v[i])[j].flaw = "none"
  <2>1. visits[i] = PreviewVisit(v[i])
    OBVIOUS
  <2> HIDE DEF visits
  <2>4. i \in 1..Len(visits) /\ j \in 1..Len(visits[i])
    BY <1>4, <2>1
  <2>5. /\ FlattenSeq(visits) \in Seq(All)
        /\ \E k \in 1..Len(FlattenSeq(visits)) : FlattenSeq(visits)[k] = visits[i][j]
    BY <1>4, <2>4, FlattenHas
  <2>2. PreviewVisits(v) \in Seq(All) /\ \E k \in 1..Len(PreviewVisits(v)) : PreviewVisits(v)[k] = PreviewVisit(v[i])[j]
    BY <1>3, <2>1, <2>5
  <2>3. Len(PreviewVisits(v)) \in Nat /\ DOMAIN PreviewVisits(v) = 1..Len(PreviewVisits(v))
    BY <2>2
  <2> QED
    BY <2>2, <2>3, StopIs
<1>6. \A i \in 1..n : v[i].t \in {"list", "map", "path", "props"} => v[i].n <= MaxItems
  <2> SUFFICES ASSUME NEW i \in 1..n, v[i].t \in {"list", "map", "path", "props"} PROVE v[i].n <= MaxItems
    OBVIOUS
  <2>1. v[i].n \in Nat
    BY <1>1 DEF Met
  <2>2. Len(PreviewVisit(v[i])) = 1 /\ PreviewVisit(v[i])[1].flaw = TooMany(v[i].n)
    BY DEF PreviewVisit, Visit, Collections
  <2>3. TooMany(v[i].n) = "none"
    BY <1>5, <2>2
  <2> QED
    BY <1>1, <2>1, <2>3 DEF TooMany
<1>7. \A i \in 1..n : v[i].t = "hops" => v[i].n <= MaxItems
  <2> SUFFICES ASSUME NEW i \in 1..n, v[i].t = "hops" PROVE v[i].n <= MaxItems
    OBVIOUS
  <2>1. PICK j \in 1..n : v[j].t = "path" /\ v[i].n <= v[j].n
    BY <1>1 DEF IsValue
  <2>3. v[i] \in Met /\ v[j] \in Met
    BY <1>1
  <2>4. v[i].n \in Nat /\ v[j].n \in Nat
    BY <2>1, <2>3 DEF Met
  <2>2. v[i].n \in Nat /\ v[j].n \in Nat /\ v[j].n <= MaxItems
    BY <1>6, <2>1, <2>4
  <2> QED
    BY <1>1, <2>1, <2>2
<1>8. \A i \in 1..n : ShownAs(v[i]) \in Seq(Fine)
  BY <1>1, <1>6, <1>7, ShownFine
<1> DEFINE shown == [i \in 1..n |-> ShownAs(v[i])]
<1>9. AsMap(v) = FlattenSeq(shown)
  BY <1>1 DEF AsMap, Flat
<1>10. shown \in SeqsOf(Fine)
  <2>1. shown \in [1..n -> Seq(Fine)]
    BY <1>8
  <2> HIDE DEF shown
  <2> QED
    BY <1>1, <2>1, SeqsAre
<1> HIDE DEF shown
<1> QED
  BY <1>9, <1>10, FlattenHas

LEMMA PreviewHonest ==
  ASSUME NEW v, IsValue(v)
  PROVE  /\ ShownHonestly(Preview(v).json) /\ ShownHonestly(Preview(v).cell)
         /\ Preview(v).cell.state = "value" => Preview(v).json.state = "value"
<1> DEFINE why == Stop(PreviewVisits(v))
           cut == IF why # "none" THEN why ELSE IF Written(Json(v), 0) > MaxCell THEN "bytes" ELSE "none"
<1>1. \A c : Marked(c).state # "value"
  BY DEF Marked
<1>2. CASE cut # "none"
  <2>1. Preview(v) = [json |-> Marked(cut), cell |-> Marked(cut)]
    BY <1>2 DEF Preview
  <2> HIDE DEF cut
  <2> QED
    BY <1>1, <2>1 DEF ShownHonestly
<1>3. CASE cut = "none"
  <2>1. Preview(v) = [json |-> Whole(Json(v)), cell |-> Cell(AsMap(v))]
    BY <1>3 DEF Preview
  <2>2. Stop(PreviewVisits(v)) = "none" /\ ~(Written(Json(v), 0) > MaxCell)
    BY <1>3
  <2>3. AsMap(v) \in Seq(Fine) /\ v \in Seq(Met)
    BY <2>2, PreviewFine DEF IsValue
  <2>4. AsMap(v) \in Seq(Met)
    BY <2>3, WiderIs DEF Fine
  <2>5. Json(v) \in Seq(Met) /\ \A part \in ToSet(Json(v)) : /\ part.t \notin {"big"} \cup Composites
                                                             /\ part.t \in Collections => part.n <= MaxItems
    BY <2>3, JsonIs
  <2>6. Written(Json(v), 0) \in Nat /\ MaxCell \in Nat
    BY <2>5, WrittenIs, CellAssumption
  <2>7. Written(Json(v), 0) <= MaxCell
    BY <2>2, <2>6
  <2>8. Whole(Json(v)).state = "value" /\ Whole(Json(v)).value = Json(v)
    BY DEF Whole
  <2>9. ShownHonestly(Whole(Json(v)))
    BY <2>5, <2>7, <2>8 DEF ShownHonestly
  <2>10. ShownHonestly(Cell(AsMap(v)))
    BY <2>4, CellHonest
  <2>11. Preview(v).json = Whole(Json(v)) /\ Preview(v).cell = Cell(AsMap(v))
    BY <2>1
  <2> QED
    BY <2>8, <2>9, <2>10, <2>11
<1> QED
  BY <1>2, <1>3

\* What a cell is answered with.
CellsHold ==
  inquiry.kind = "cell" /\ answer # None =>
    answer = [state |-> "cells", stored |-> ReadCell(inquiry.value), legacy |-> LegacyCell(inquiry.value),
              asked |-> Preview(inquiry.value)]

(***************************************************************************)
(* Every cell that is shown, of a stored value or of a query's, fits, has  *)
(* all its items, no record that was not turned into a map, and no integer *)
(* that JavaScript would round (records::cell, query_cells::preview).      *)
(***************************************************************************)
THEOREM CellsAreWholeOrMarkedHolds == ReadSpec => []CellsAreWholeOrMarked
<1>1. ReadInit => CellsHold
  BY DEF ReadInit, CellsHold, None
<1>2. Asked /\ CellsHold /\ [ReadNext]_readVars => CellsHold'
  <2> SUFFICES ASSUME CellsHold, [ReadNext]_readVars PROVE CellsHold'
    OBVIOUS
  <2>1. ASSUME NEW i \in Inquiries, Ask(i) PROVE CellsHold'
    BY <2>1 DEF Ask, CellsHold
  <2>2. ASSUME Receive, inquiry' = inquiry PROVE CellsHold'
    BY <2>2, AnsweredBy DEF CellsHold, ReadCellOnce, Answered
  <2>3. ASSUME UNCHANGED readVars PROVE CellsHold'
    BY <2>3 DEF readVars, CellsHold
  <2> QED
    BY <2>1, <2>2, <2>3, ReadingIs
<1>3. Asked /\ CellsHold => CellsAreWholeOrMarked
  <2> SUFFICES ASSUME Asked, CellsHold, inquiry.kind = "cell", answer # None
               PROVE  /\ \A c \in {answer.stored, answer.legacy, answer.asked.json, answer.asked.cell} : ShownHonestly(c)
                      /\ answer.asked.cell.state = "value" => answer.asked.json.state = "value"
                      /\ answer.stored.state = "value" => answer.stored.value = Typed(inquiry.value)
    BY DEF CellsAreWholeOrMarked
  <2> DEFINE v == inquiry.value
  <2>1. IsValue(v) /\ v \in Seq(Met)
    BY InquiryIs, ReadingAssumption DEF Asked, None, IsValue
  <2>2. answer.stored = ReadCell(v) /\ answer.legacy = LegacyCell(v) /\ answer.asked = Preview(v)
    BY DEF CellsHold
  <2> HIDE DEF v
  <2>3. ReadCell(v).state = "value" => ReadCell(v) = Cell(v)
    BY DEF ReadCell, Marked
  <2>4. ShownHonestly(ReadCell(v))
    BY <2>1, <2>3, CellHonest DEF ShownHonestly
  <2>5. ShownHonestly(LegacyCell(v))
    BY <2>1, LegacyHonest
  <2>6. /\ ShownHonestly(Preview(v).json) /\ ShownHonestly(Preview(v).cell)
        /\ Preview(v).cell.state = "value" => Preview(v).json.state = "value"
    BY <2>1, PreviewHonest
  <2>7. ReadCell(v).state = "value" => ReadCell(v).value = Typed(v)
    BY <2>1, <2>3, CellIs
  <2> QED
    BY <2>2, <2>4, <2>5, <2>6, <2>7 DEF v
<1> QED
  BY <1>1, <1>2, <1>3, ReadsAreAsked, PTL DEF ReadSpec

-----------------------------------------------------------------------------
(* The properties of a type. *)

LEMMA StatIs ==
  ASSUME NEW c \in Column, NEW sampled \in BOOLEAN
  PROVE  LET s == StatOf(c, sampled)
         IN  /\ s.name = c.name /\ s.hinted = c.hinted /\ s.non_null \in Nat
             /\ ~s.approx => ToSet(c.values) \ {Absent} \subseteq s.values
<1> DEFINE vs == c.values
           cut == IF sampled THEN First(vs, SampleSize) ELSE vs
           I == {i \in DOMAIN cut : cut[i] # Absent}
           seen == Picked(cut, I)
           kinds == ToSet(seen)
           over == Cardinality(kinds) > MaxDistinct
<1>1. vs \in Seq(Nat)
  BY DEF Column
<1>2. cut \in Seq(Nat)
  <2>1. First(vs, SampleSize) \in Seq(Nat)
    <3>1. SampleSize \in Nat /\ Len(vs) \in Nat
      BY <1>1, SchemaAssumption
    <3>2. Least(Len(vs), SampleSize) \in 0..Len(vs)
      BY <3>1 DEF Least
    <3>3. SubSeq(vs, 0 + 1, Least(Len(vs), SampleSize)) \in Seq(Nat)
      BY <1>1, <3>1, <3>2, PartIs
    <3> QED
      BY <3>3 DEF First
  <2> QED
    BY <1>1, <2>1
<1>3. StatOf(c, sampled) = [name |-> c.name, type |-> c.type, hinted |-> c.hinted, chars |-> c.chars,
        canonical |-> c.canonical, title |-> c.title, non_null |-> Len(seen),
        unique |-> Least(Cardinality(kinds), MaxDistinct), values |-> IF over THEN {} ELSE kinds, approx |-> sampled \/ over]
  BY DEF StatOf
<1>4. /\ seen \in Seq({cut[i] : i \in I})
      /\ \A i \in I : \E k \in 1..Len(seen) : seen[k] = cut[i]
  <2>1. I \in SUBSET (1..Len(cut))
    BY <1>2
  <2> HIDE DEF cut, I
  <2> QED
    BY <1>2, <2>1, PickedIs
<1>5. Len(seen) \in Nat
  <2> HIDE DEF seen, I, cut
  <2> QED
    BY <1>4
<1>6. ASSUME ~sampled, ~over PROVE ToSet(vs) \ {Absent} \subseteq kinds
  <2> SUFFICES ASSUME NEW x \in ToSet(vs), x # Absent PROVE x \in kinds
    OBVIOUS
  <2>1. PICK i \in DOMAIN vs : vs[i] = x
    BY DEF ToSet
  <2>2. cut = vs
    BY <1>6
  <2>3. i \in I
    BY <2>1, <2>2
  <2> HIDE DEF I, seen, vs
  <2>4. PICK k \in 1..Len(seen) : seen[k] = cut[i]
    BY <1>4, <2>3
  <2>5. DOMAIN seen = 1..Len(seen)
    BY <1>4
  <2>6. seen[k] \in ToSet(seen)
    BY <2>4, <2>5 DEF ToSet
  <2> QED
    BY <2>1, <2>2, <2>4, <2>6
<1> DEFINE s == StatOf(c, sampled)
<1> HIDE DEF seen, kinds, cut, I, s
<1>7. s.name = c.name /\ s.hinted = c.hinted /\ s.non_null = Len(seen)
  BY <1>3 DEF s
<1>8. s.approx <=> (sampled \/ over)
  <2> DEFINE ap == sampled \/ over
  <2>1. ap \in BOOLEAN
    OBVIOUS
  <2>2. s.approx = ap
    <3> HIDE DEF ap
    <3>1. s = [name |-> c.name, type |-> c.type, hinted |-> c.hinted, chars |-> c.chars,
                canonical |-> c.canonical, title |-> c.title, non_null |-> Len(seen),
                unique |-> Least(Cardinality(kinds), MaxDistinct), values |-> IF over THEN {} ELSE kinds, approx |-> ap]
      BY <1>3 DEF s, ap
    <3> QED
      BY <3>1
  <2> QED
    BY <2>1, <2>2
<1>9. s.values = IF over THEN {} ELSE kinds
  BY <1>3 DEF s
<1>10. ~s.approx => ToSet(c.values) \ {Absent} \subseteq s.values
  <2> HIDE DEF over
  <2> QED
    BY <1>6, <1>8, <1>9
<1> QED
  BY <1>5, <1>7, <1>10 DEF s

\* The best of the candidates F is better than the others.
Best(s, F, i, b) ==
  \/ b = <<>> /\ \A k \in F : k > i
  \/ \E j \in F : /\ j <= i /\ b = <<s[j]>>
                  /\ \A k \in F : k <= i /\ k # j => Better(s[j], s[k])

\* What is compared of a property.
Comparable(s) ==
  /\ \A i \in 1..Len(s) : s[i].hinted \in BOOLEAN /\ s[i].non_null \in Nat /\ s[i].name \in Nat
  /\ \A i, j \in 1..Len(s) : s[i].name = s[j].name => i = j

LEMMA BetterIs ==
  ASSUME NEW s, Len(s) \in Nat, Comparable(s)
  PROVE  /\ \A i, j \in 1..Len(s) : i # j => Better(s[i], s[j]) \/ Better(s[j], s[i])
         /\ \A i, j \in 1..Len(s) : Better(s[i], s[j]) => ~Better(s[j], s[i])
         /\ \A i, j, k \in 1..Len(s) : Better(s[i], s[j]) /\ Better(s[j], s[k]) => Better(s[i], s[k])
<1>1. \A i \in 1..Len(s) : s[i].hinted \in BOOLEAN /\ s[i].non_null \in Nat /\ s[i].name \in Nat
  BY DEF Comparable
<1>2. \A i, j \in 1..Len(s) : s[i].name = s[j].name => i = j
  BY DEF Comparable
<1>3. ASSUME NEW i \in 1..Len(s), NEW j \in 1..Len(s)
      PROVE  /\ i # j => Better(s[i], s[j]) \/ Better(s[j], s[i])
             /\ Better(s[i], s[j]) => ~Better(s[j], s[i])
  <2>1. /\ s[i].hinted \in BOOLEAN /\ s[i].non_null \in Nat /\ s[i].name \in Nat
        /\ s[j].hinted \in BOOLEAN /\ s[j].non_null \in Nat /\ s[j].name \in Nat
        /\ i # j => s[i].name # s[j].name
    BY <1>1, <1>2
  <2> QED
    BY <2>1 DEF Better
<1>4. ASSUME NEW i \in 1..Len(s), NEW j \in 1..Len(s), NEW k \in 1..Len(s), Better(s[i], s[j]), Better(s[j], s[k])
      PROVE  Better(s[i], s[k])
  <2>1. /\ s[i].hinted \in BOOLEAN /\ s[i].non_null \in Nat /\ s[i].name \in Nat
        /\ s[j].hinted \in BOOLEAN /\ s[j].non_null \in Nat /\ s[j].name \in Nat
        /\ s[k].hinted \in BOOLEAN /\ s[k].non_null \in Nat /\ s[k].name \in Nat
    BY <1>1
  <2> QED
    BY <1>4, <2>1 DEF Better
<1> QED
  BY <1>3, <1>4

LEMMA BestIs ==
  ASSUME NEW s, Len(s) \in Nat, Comparable(s), NEW F \in SUBSET (1..Len(s)), NEW g,
         g[0] = <<>>,
         \A i \in 1..Len(s) : g[i] = IF i \in F /\ (g[i - 1] = <<>> \/ Better(s[i], g[i - 1][1]))
                                     THEN <<s[i]>> ELSE g[i - 1]
  PROVE  Best(s, F, Len(s), g[Len(s)])
<1> DEFINE S == {i \in 0..Len(s) : Best(s, F, i, g[i])}
<1>1. 0 \in S
  BY DEF Best
<1>2. ASSUME NEW i \in 1..Len(s), i - 1 \in S PROVE i \in S
  <2>1. Best(s, F, i - 1, g[i - 1]) /\ i - 1 \in Nat
    BY <1>2
  <2>2. \A k \in F : k \in 1..Len(s) /\ (k <= i - 1 \/ k = i \/ k > i)
    OBVIOUS
  <2>3. \A x : <<x>> # <<>> /\ <<x>>[1] = x
    OBVIOUS
  <2>4. CASE i \notin F
    <3>1. g[i] = g[i - 1]
      BY <2>4
    <3>2. \A k \in F : k <= i <=> k <= i - 1
      BY <2>4
    <3>3. \A k \in F : k > i <=> k > i - 1
      BY <2>4
    <3>4. Best(s, F, i, g[i])
      BY <2>1, <3>1, <3>2, <3>3 DEF Best
    <3> QED
      BY <3>4
  <2>5. CASE i \in F /\ g[i - 1] = <<>>
    <3>1. g[i] = <<s[i]>>
      BY <2>5
    <3>2. \A k \in F : k > i - 1
      BY <2>1, <2>3, <2>5 DEF Best
    <3>3. \A k \in F : k <= i /\ k # i => Better(s[i], s[k])
      BY <2>2, <3>2
    <3>4. Best(s, F, i, g[i])
      BY <2>5, <3>1, <3>3 DEF Best
    <3> QED
      BY <3>4
  <2>6. CASE i \in F /\ g[i - 1] # <<>>
    <3>1. PICK j \in F : /\ j <= i - 1 /\ g[i - 1] = <<s[j]>>
                         /\ \A k \in F : k <= i - 1 /\ k # j => Better(s[j], s[k])
      BY <2>1, <2>6 DEF Best
    <3>2. g[i - 1][1] = s[j]
      BY <2>3, <3>1
    <3>3. g[i] = IF Better(s[i], s[j]) THEN <<s[i]>> ELSE g[i - 1]
      BY <2>6, <3>2
    <3>4. j \in 1..Len(s) /\ j # i /\ j <= i
      BY <3>1
    <3>5. CASE Better(s[i], s[j])
      <4>1. \A k \in F : k <= i /\ k # i => Better(s[i], s[k])
        <5> SUFFICES ASSUME NEW k \in F, k <= i, k # i PROVE Better(s[i], s[k])
          OBVIOUS
        <5>1. k <= i - 1 /\ k \in 1..Len(s)
          OBVIOUS
        <5>2. CASE k = j
          BY <3>5, <5>2
        <5>3. CASE k # j
          <6>1. Better(s[j], s[k])
            BY <3>1, <5>1, <5>3
          <6> QED
            BY <3>4, <3>5, <5>1, <6>1, BetterIs
        <5> QED
          BY <5>2, <5>3
      <4>2. g[i] = <<s[i]>>
        BY <3>3, <3>5
      <4>3. Best(s, F, i, g[i])
        BY <2>6, <4>1, <4>2 DEF Best
      <4> QED
        BY <4>3
    <3>6. CASE ~Better(s[i], s[j])
      <4>1. Better(s[j], s[i])
        BY <3>4, <3>6, BetterIs
      <4>2. \A k \in F : k <= i /\ k # j => Better(s[j], s[k])
        BY <2>2, <3>1, <4>1
      <4>3. g[i] = <<s[j]>>
        BY <3>1, <3>3, <3>6
      <4>4. Best(s, F, i, g[i])
        BY <3>4, <4>2, <4>3 DEF Best
      <4> QED
        BY <4>4
    <3> QED
      BY <3>5, <3>6
  <2> QED
    BY <2>4, <2>5, <2>6
<1>3. Len(s) \in S
  <2> HIDE DEF S
  <2> QED
    BY <1>1, <1>2, UpTo, SMTT(30)
<1> QED
  BY <1>3

\* Which of the candidates is best does not depend on their order.
LEMMA BestIsOne ==
  ASSUME NEW s, NEW t, Len(s) \in Nat, Len(t) = Len(s), Comparable(s), Comparable(t),
         \A i \in 1..Len(s) : t[i] = s[Len(s) - i + 1],
         NEW F \in SUBSET (1..Len(s)), NEW G, G = {Len(s) - i + 1 : i \in F},
         NEW a, NEW b, Best(s, F, Len(s), a), Best(t, G, Len(s), b)
  PROVE  a = b
<1> DEFINE n == Len(s)
           Turn(i) == n - i + 1
<1>1. \A i \in 1..n : Turn(i) \in 1..n /\ Turn(Turn(i)) = i
  OBVIOUS
<1>2. \A i \in F : Turn(i) \in G
  OBVIOUS
<1>3. \A i \in G : i \in 1..n /\ Turn(i) \in F
  BY <1>1
<1>4. \A i \in 1..n : t[i] = s[Turn(i)]
  OBVIOUS
<1> HIDE DEF Turn
<1>5. CASE F = {}
  <2>1. G = {}
    BY <1>3, <1>5
  <2> QED
    BY <1>5, <2>1 DEF Best
<1>6. CASE F # {}
  <2>1. \A k \in F : ~(k > n)
    OBVIOUS
  <2>2. \A k \in G : ~(k > n)
    BY <1>3
  <2>3. G # {}
    BY <1>2, <1>6
  <2>4. PICK j \in F : a = <<s[j]>> /\ \A k \in F : k <= n /\ k # j => Better(s[j], s[k])
    BY <1>6, <2>1 DEF Best
  <2>5. PICK l \in G : b = <<t[l]>> /\ \A k \in G : k <= n /\ k # l => Better(t[l], t[k])
    BY <2>2, <2>3 DEF Best
  <2>6. j \in 1..n /\ l \in 1..n /\ Turn(l) \in F /\ Turn(j) \in G /\ Turn(l) \in 1..n /\ Turn(j) \in 1..n
    BY <1>1, <1>2, <1>3
  <2>7. CASE Turn(l) = j
    BY <1>4, <2>4, <2>5, <2>6, <2>7
  <2>8. CASE Turn(l) # j
    <3>1. Turn(l) <= n /\ Turn(j) <= n
      BY <2>6
    <3>2. Turn(j) # l
      BY <1>1, <2>6, <2>8
    <3>3. Better(s[j], s[Turn(l)])
      BY <2>4, <2>6, <2>8, <3>1
    <3>4. Better(t[l], t[Turn(j)])
      BY <2>5, <2>6, <3>1, <3>2
    <3>5. t[l] = s[Turn(l)] /\ t[Turn(j)] = s[j]
      BY <1>1, <1>4, <2>6
    <3> QED
      BY <2>6, <3>3, <3>4, <3>5, BetterIs
  <2> QED
    BY <2>7, <2>8
<1> QED
  BY <1>5, <1>6

Fits(s, node_count) ==
  /\ ~s.canonical /\ s.type = "text" /\ s.chars <= CaptionChars
  /\ Covers(s, node_count) /\ Distinguishes(s)
Named(stats, node_count) ==
  {i \in DOMAIN stats : stats[i].title /\ Covers(stats[i], node_count) /\ Distinguishes(stats[i])}

Candidates(s, node_count) == {i \in 1..Len(s) : Fits(s[i], node_count)}
\* The caption, when b is the best of them.
CaptionOf(s, node_count, b) ==
  IF node_count = 0 \/ Named(s, node_count) # {} \/ b = <<>> \/ ~b[1].hinted THEN Absent ELSE b[1].name

LEMMA CaptionIs ==
  ASSUME NEW A, NEW s \in Seq(A), Comparable(s), NEW node_count
  PROVE  \E b : /\ Best(s, Candidates(s, node_count), Len(s), b)
                /\ CaptionCandidate(s, node_count) = CaptionOf(s, node_count, b)
<1> DEFINE n == Len(s)
           F == {i \in 1..n : Fits(s[i], node_count)}
           B == {<<>>} \cup {<<a>> : a \in A}
           next(b, i) == IF Fits(s[i], node_count) /\ (b = <<>> \/ Better(s[i], b[1])) THEN <<s[i]>> ELSE b
           op == [p \in B \X (1..n) |-> next(p[1], p[2])]
           R(f) == f = [i \in 0..n |-> IF i = 0 THEN <<>> ELSE next(f[i - 1], i)]
<1>1. n \in Nat /\ \A i \in 1..n : s[i] \in A
  OBVIOUS
<1>2. op \in StepsOf(B, n)
  <2>1. \A b \in B, i \in 1..n : next(b, i) \in B
    BY <1>1
  <2> HIDE DEF next, B
  <2> QED
    BY <2>1 DEF StepsOf
<1>3. PICK f : Follows(f, B, n, <<>>, op)
  <2>1. <<>> \in B
    OBVIOUS
  <2> HIDE DEF op, B
  <2> QED
    BY <1>1, <1>2, <2>1, StepsExist
<1>4. R(f)
  <2> HIDE DEF next, B
  <2>1. \A i \in 1..n : f[i] = next(f[i - 1], i)
    <3> SUFFICES ASSUME NEW i \in 1..n PROVE f[i] = next(f[i - 1], i)
      OBVIOUS
    <3>0. i - 1 \in 0..n
      BY <1>1
    <3>1. f[i - 1] \in B /\ f[i] = op[<<f[i - 1], i>>]
      <4> HIDE DEF op
      <4> QED
        BY <1>3, <3>0 DEF Follows
    <3>2. <<f[i - 1], i>> \in B \X (1..n)
      BY <3>1
    <3> QED
      BY <3>1, <3>2
  <2>2. \A i \in 0..n : i = 0 \/ i \in 1..n
    BY <1>1
  <2>3. \A i \in 0..n : f[i] = IF i = 0 THEN <<>> ELSE next(f[i - 1], i)
    BY <1>3, <2>1, <2>2 DEF Follows
  <2>4. f = [i \in 0..n |-> f[i]]
    BY <1>3 DEF Follows
  <2> HIDE DEF op
  <2> QED
    BY <2>3, <2>4
<1> DEFINE g == CHOOSE h : R(h)
<1>5. R(g)
  BY <1>4
<1>6. CaptionCandidate(s, node_count) = CaptionOf(s, node_count, g[n])
  BY DEF CaptionCandidate, Carried, Named, Fits, CaptionOf
<1> HIDE DEF g
<1>7. g[0] = <<>> /\ \A i \in 1..n : g[i] = next(g[i - 1], i)
  <2> HIDE DEF next
  <2>1. \A i \in 0..n : g[i] = IF i = 0 THEN <<>> ELSE next(g[i - 1], i)
    BY <1>5
  <2>2. 0 \in 0..n /\ \A i \in 1..n : i \in 0..n /\ i # 0
    BY <1>1
  <2> QED
    BY <2>1, <2>2
<1>8. \A i \in 1..n : g[i] = IF i \in F /\ (g[i - 1] = <<>> \/ Better(s[i], g[i - 1][1])) THEN <<s[i]>> ELSE g[i - 1]
  BY <1>7
<1>9. F \in SUBSET (1..n)
  OBVIOUS
<1>10. Best(s, F, n, g[n])
  <2> HIDE DEF F
  <2> QED
    BY <1>1, <1>7, <1>8, <1>9, BestIs
<1> QED
  BY <1>6, <1>10 DEF Candidates

LEMMA CaptionTurns ==
  ASSUME NEW A, NEW s \in Seq(A), NEW t \in Seq(A), Comparable(s), Comparable(t), Len(t) = Len(s),
         \A i \in 1..Len(s) : t[i] = s[Len(s) - i + 1], NEW node_count
  PROVE  CaptionCandidate(s, node_count) = CaptionCandidate(t, node_count)
<1> DEFINE n == Len(s)
           F == Candidates(s, node_count)
           G == Candidates(t, node_count)
<1>1. n \in Nat /\ DOMAIN s = 1..n /\ DOMAIN t = 1..n
  OBVIOUS
<1>2. PICK a : Best(s, F, n, a) /\ CaptionCandidate(s, node_count) = CaptionOf(s, node_count, a)
  BY CaptionIs
<1>3. PICK b : Best(t, G, n, b) /\ CaptionCandidate(t, node_count) = CaptionOf(t, node_count, b)
  BY CaptionIs
<1>4. \A i \in 1..n : n - i + 1 \in 1..n /\ n - (n - i + 1) + 1 = i
  BY <1>1
<1>5. \A i \in 1..n : s[i] = t[n - i + 1]
  BY <1>4
<1>6. G = {n - i + 1 : i \in F}
  <2>1. \A i \in G : n - i + 1 \in F /\ n - (n - i + 1) + 1 = i
    BY <1>4 DEF Candidates
  <2>2. \A i \in F : n - i + 1 \in G
    BY <1>4, <1>5 DEF Candidates
  <2> HIDE DEF F, G
  <2> QED
    BY <2>1, <2>2
<1>7. a = b
  <2>1. F \in SUBSET (1..n)
    BY DEF Candidates
  <2> HIDE DEF F, G
  <2> QED
    BY <1>1, <1>2, <1>3, <1>6, <2>1, BestIsOne
<1>8. Named(s, node_count) # {} <=> Named(t, node_count) # {}
  BY <1>1, <1>4, <1>5 DEF Named
<1> QED
  BY <1>2, <1>3, <1>7, <1>8 DEF CaptionOf

\* What the properties of a type are answered with.
StatsHold ==
  inquiry.kind = "stats" /\ answer # None =>
    answer = PropertyStats(inquiry.columns, Len(inquiry.columns[1].values))

\* Of a type, whatever the order its properties come in.
LEMMA StatsAre ==
  ASSUME NEW columns \in Columns, NEW node_count
  PROVE  /\ \A s \in PropertyStats(columns, node_count).categorical : \A c \in ToSet(columns) :
              c.name = s.name => ToSet(c.values) \ {Absent} \subseteq s.values
         /\ PropertyStats(columns, node_count).caption = PropertyStats(Reverse(columns), node_count).caption
<1> DEFINE n == Len(columns)
           sampled == node_count > Exact
           St(cs) == [i \in DOMAIN cs |-> StatOf(cs[i], sampled)]
           s == St(columns)
           turned == Reverse(columns)
           t == St(turned)
           A == {StatOf(c, sampled) : c \in Column}
<1>1. /\ columns \in Seq(Column) /\ n \in Nat /\ DOMAIN columns = 1..n
      /\ \A i \in 1..n : columns[i] \in Column
      /\ \A i, j \in 1..n : columns[i].name = columns[j].name => i = j
  BY ColumnsAssumption
<1>2. /\ turned \in Seq(Column) /\ Len(turned) = n /\ DOMAIN turned = 1..n
      /\ \A i \in 1..n : turned[i] = columns[n - i + 1] /\ n - i + 1 \in 1..n
  <2>1. \A i \in 1..n : n - i + 1 \in 1..n
    BY <1>1
  <2>2. turned = [i \in 1..n |-> columns[(n - i) + 1]]
    BY DEF Reverse
  <2> QED
    BY <1>1, <2>1, <2>2
<1>3. sampled \in BOOLEAN
  OBVIOUS
<1> HIDE DEF sampled
<1>4. /\ PropertyStats(columns, node_count).caption = CaptionCandidate(s, node_count)
      /\ PropertyStats(turned, node_count).caption = CaptionCandidate(t, node_count)
  BY DEF PropertyStats, sampled
<1>5. PropertyStats(columns, node_count).categorical = {s[i] : i \in {j \in DOMAIN s : Classify(s[j]) = "categorical"}}
  BY DEF PropertyStats, sampled
<1> HIDE DEF turned
<1>6. /\ s \in Seq(A) /\ Len(s) = n /\ DOMAIN s = 1..n
      /\ \A i \in 1..n : s[i] = StatOf(columns[i], sampled)
  BY <1>1
<1>7. /\ t \in Seq(A) /\ Len(t) = n
      /\ \A i \in 1..n : t[i] = StatOf(turned[i], sampled)
  BY <1>2
<1> HIDE DEF s, t, A
<1>8. \A i \in 1..n : s[i].name = columns[i].name /\ s[i].hinted \in BOOLEAN /\ s[i].non_null \in Nat /\ s[i].name \in Nat
  <2> SUFFICES ASSUME NEW i \in 1..n
               PROVE  s[i].name = columns[i].name /\ s[i].hinted \in BOOLEAN /\ s[i].non_null \in Nat /\ s[i].name \in Nat
    OBVIOUS
  <2>1. columns[i].name \in Nat /\ columns[i].hinted \in BOOLEAN
    BY <1>1 DEF Column
  <2> QED
    BY <1>1, <1>3, <1>6, <2>1, StatIs
<1>9. Comparable(s)
  BY <1>1, <1>6, <1>8 DEF Comparable
<1>10. \A i \in 1..n : t[i] = s[n - i + 1] /\ n - i + 1 \in 1..n
  BY <1>2, <1>6, <1>7
<1>11. Comparable(t)
  <2>1. \A i \in 1..n : t[i].hinted \in BOOLEAN /\ t[i].non_null \in Nat /\ t[i].name \in Nat
    BY <1>8, <1>10
  <2>2. ASSUME NEW i \in 1..n, NEW j \in 1..n, t[i].name = t[j].name PROVE i = j
    <3>1. s[n - i + 1].name = s[n - j + 1].name
      BY <1>10, <2>2
    <3>2. \A k, l \in 1..n : s[k].name = s[l].name => k = l
      BY <1>6, <1>9 DEF Comparable
    <3>3. n - i + 1 = n - j + 1
      BY <1>10, <3>1, <3>2
    <3> QED
      BY <1>1, <3>3
  <2> QED
    BY <1>7, <2>1, <2>2 DEF Comparable
<1>12. CaptionCandidate(s, node_count) = CaptionCandidate(t, node_count)
  <2>1. s \in Seq(A) /\ t \in Seq(A) /\ Len(t) = Len(s)
    BY <1>6, <1>7
  <2>2. \A i \in 1..Len(s) : t[i] = s[Len(s) - i + 1]
    BY <1>6, <1>10
  <2> HIDE DEF n
  <2> QED
    BY <1>9, <1>11, <2>1, <2>2, CaptionTurns
<1>13. ASSUME NEW x \in PropertyStats(columns, node_count).categorical, NEW c \in ToSet(columns), c.name = x.name
       PROVE  ToSet(c.values) \ {Absent} \subseteq x.values
  <2>1. PICK i \in 1..n : x = s[i] /\ Classify(s[i]) = "categorical"
    BY <1>5, <1>6
  <2>2. PICK j \in 1..n : c = columns[j]
    BY <1>1 DEF ToSet
  <2>3. i = j
    BY <1>1, <1>8, <1>13, <2>1, <2>2
  <2>4. ~x.approx
    BY <2>1 DEF Classify
  <2>5. c \in Column /\ x = StatOf(c, sampled)
    BY <1>1, <1>6, <2>1, <2>2, <2>3
  <2> QED
    BY <1>3, <2>4, <2>5, StatIs
<1> QED
  BY <1>4, <1>12, <1>13 DEF turned

(***************************************************************************)
(* A property offered for colour has every one of its values in the list,  *)
(* and the caption does not depend on the order the properties came in     *)
(* (stats.rs), for any properties and any ceilings.                        *)
(***************************************************************************)
THEOREM ColoursCoverTheTypeHolds == ReadSpec => []ColoursCoverTheType
<1>1. ReadInit => StatsHold
  BY DEF ReadInit, StatsHold, None
<1>2. Asked /\ StatsHold /\ [ReadNext]_readVars => StatsHold'
  <2> SUFFICES ASSUME StatsHold, [ReadNext]_readVars PROVE StatsHold'
    OBVIOUS
  <2>1. ASSUME NEW i \in Inquiries, Ask(i) PROVE StatsHold'
    BY <2>1 DEF Ask, StatsHold
  <2>2. ASSUME Receive, inquiry' = inquiry PROVE StatsHold'
    BY <2>2, AnsweredBy DEF StatsHold, ReadStats, Answered
  <2>3. ASSUME UNCHANGED readVars PROVE StatsHold'
    BY <2>3 DEF readVars, StatsHold
  <2> QED
    BY <2>1, <2>2, <2>3, ReadingIs
<1>3. Asked /\ StatsHold => ColoursCoverTheType
  <2> SUFFICES ASSUME Asked, StatsHold, inquiry.kind = "stats", answer # None
               PROVE  /\ \A s \in answer.categorical : \A c \in ToSet(inquiry.columns) :
                           c.name = s.name => ToSet(c.values) \ {Absent} \subseteq s.values
                      /\ answer.caption = PropertyStats(Reverse(inquiry.columns), Len(inquiry.columns[1].values)).caption
    BY DEF ColoursCoverTheType
  <2>1. inquiry.columns \in Columns
    BY InquiryIs DEF Asked, None
  <2>2. answer = PropertyStats(inquiry.columns, Len(inquiry.columns[1].values))
    BY DEF StatsHold
  <2> QED
    BY <2>1, <2>2, StatsAre
<1> QED
  BY <1>1, <1>2, <1>3, ReadsAreAsked, PTL DEF ReadSpec

-----------------------------------------------------------------------------
(* The schema. *)

\* R puts the elements of S in an order.
Sorts(R, S) ==
  /\ \A x, y \in S : x # y => <<x, y>> \in R \/ <<y, x>> \in R
  /\ \A x, y \in S : <<x, y>> \in R => <<y, x>> \notin R
  /\ \A x, y, z \in S : <<x, y>> \in R /\ <<y, z>> \in R => <<x, z>> \in R

Ranked(S, R) ==
  [k \in 1..Cardinality(S) |-> CHOOSE x \in S : Cardinality({y \in S : <<y, x>> \in R}) = k - 1]

\* In that order they are a sequence.
LEMMA RankedIs ==
  ASSUME NEW S, IsFiniteSet(S), NEW R, Sorts(R, S)
  PROVE  LET f == Ranked(S, R)
         IN  /\ Cardinality(S) \in Nat /\ f \in Seq(S) /\ Len(f) = Cardinality(S)
             /\ \A x \in S : \E k \in 1..Cardinality(S) : f[k] = x
             /\ \A j, k \in 1..Cardinality(S) : j < k => <<f[j], f[k]>> \in R
<1> DEFINE n == Cardinality(S)
           Below(x) == {y \in S : <<y, x>> \in R}
           rank == [x \in S |-> Cardinality(Below(x))]
<1>1. n \in Nat
  BY FS_CardinalityType
<1>2. ASSUME NEW x \in S PROVE IsFiniteSet(Below(x)) /\ rank[x] \in 0..(n - 1)
  <2>1. Below(x) \in SUBSET S /\ x \notin Below(x)
    BY DEF Sorts
  <2>2. rank[x] = Cardinality(Below(x))
    OBVIOUS
  <2> HIDE DEF Below, rank
  <2>3. IsFiniteSet(Below(x)) /\ Cardinality(Below(x)) <= n /\ Cardinality(Below(x)) # n
    BY <2>1, FS_Subset
  <2>4. Cardinality(Below(x)) \in Nat
    BY <2>3, FS_CardinalityType
  <2> QED
    BY <1>1, <2>2, <2>3, <2>4
<1>3. ASSUME NEW x \in S, NEW y \in S, <<x, y>> \in R PROVE rank[x] < rank[y]
  <2>1. Below(x) \in SUBSET Below(y) /\ x \in Below(y) /\ x \notin Below(x)
    BY <1>3 DEF Sorts
  <2>2. rank[x] = Cardinality(Below(x)) /\ rank[y] = Cardinality(Below(y)) /\ IsFiniteSet(Below(y)) /\ IsFiniteSet(Below(x))
    BY <1>2
  <2>3. rank[x] \in 0..(n - 1) /\ rank[y] \in 0..(n - 1)
    BY <1>2
  <2> HIDE DEF Below, rank
  <2>4. Cardinality(Below(x)) <= Cardinality(Below(y)) /\ Cardinality(Below(x)) # Cardinality(Below(y))
    BY <2>1, <2>2, FS_Subset
  <2> QED
    BY <1>1, <2>2, <2>3, <2>4
<1>4. \A x, y \in S : rank[x] = rank[y] => x = y
  <2> SUFFICES ASSUME NEW x \in S, NEW y \in S, rank[x] = rank[y], x # y PROVE FALSE
    OBVIOUS
  <2>1. rank[x] \in 0..(n - 1) /\ rank[y] \in 0..(n - 1)
    BY <1>2
  <2>2. rank[x] < rank[y] \/ rank[y] < rank[x]
    BY <1>3 DEF Sorts
  <2> QED
    BY <1>1, <2>1, <2>2
<1>5. rank \in Injection(S, 0..(n - 1))
  <2>1. rank \in [S -> 0..(n - 1)]
    BY <1>2
  <2> HIDE DEF rank
  <2> QED
    BY <1>4, <2>1 DEF Injection, IsInjective
<1> HIDE DEF rank
<1>6. \A k \in 0..(n - 1) : \E x \in S : rank[x] = k
  <2>1. IsFiniteSet(0..(n - 1)) /\ Cardinality(0..(n - 1)) = n
    BY <1>1, FS_Interval, SMTT(30)
  <2>2. rank \in Surjection(S, 0..(n - 1))
    BY <1>5, <2>1, FS_Injection
  <2> QED
    BY <2>2 DEF Surjection
<1> DEFINE f == Ranked(S, R)
<1>7. f = [k \in 1..n |-> CHOOSE x \in S : Cardinality(Below(x)) = k - 1]
  BY DEF Ranked
<1> HIDE DEF f
<1>8. ASSUME NEW k \in 1..n PROVE f[k] \in S /\ rank[f[k]] = k - 1
  <2>1. k - 1 \in 0..(n - 1)
    BY <1>1
  <2>2. \E x \in S : Cardinality(Below(x)) = k - 1
    BY <1>6, <2>1 DEF rank
  <2>3. f[k] = CHOOSE x \in S : Cardinality(Below(x)) = k - 1
    BY <1>7
  <2>4. f[k] \in S /\ Cardinality(Below(f[k])) = k - 1
    BY <2>2, <2>3
  <2> QED
    BY <2>4 DEF rank
<1>9. f \in [1..n -> S]
  BY <1>7, <1>8
<1>10. f \in Seq(S) /\ Len(f) = n
  BY <1>1, <1>9
<1>11. ASSUME NEW x \in S PROVE \E k \in 1..n : f[k] = x
  <2>1. rank[x] \in 0..(n - 1)
    BY <1>5 DEF Injection
  <2>2. rank[x] + 1 \in 1..n /\ (rank[x] + 1) - 1 = rank[x]
    BY <1>1, <2>1
  <2>3. f[rank[x] + 1] = x
    BY <1>4, <1>8, <2>2
  <2> QED
    BY <2>2, <2>3
<1>12. ASSUME NEW j \in 1..n, NEW k \in 1..n, j < k PROVE <<f[j], f[k]>> \in R
  <2>1. f[j] \in S /\ f[k] \in S /\ rank[f[j]] = j - 1 /\ rank[f[k]] = k - 1
    BY <1>8
  <2>2. f[j] # f[k] /\ ~(rank[f[k]] < rank[f[j]])
    BY <1>1, <1>12, <2>1
  <2> QED
    BY <1>3, <2>1, <2>2 DEF Sorts
<1> QED
  BY <1>1, <1>10, <1>11, <1>12 DEF f

\* The first of them: no other comes before one of them.
LEMMA FirstRanked ==
  ASSUME NEW S, IsFiniteSet(S), NEW R, Sorts(R, S), NEW r \in 0..Cardinality(S)
  PROVE  LET kept == ToSet(First(Ranked(S, R), r))
         IN  /\ kept \subseteq S
             /\ \A a \in kept, b \in S : b \in kept \/ <<a, b>> \in R
             /\ r < Cardinality(S) <=> kept # S
<1> DEFINE n == Cardinality(S)
           f == Ranked(S, R)
           first == First(f, r)
<1>1. /\ n \in Nat /\ f \in Seq(S) /\ Len(f) = n
      /\ \A x \in S : \E k \in 1..n : f[k] = x
      /\ \A j, k \in 1..n : j < k => <<f[j], f[k]>> \in R
  BY RankedIs
<1> HIDE DEF f
<1>2. r \in Nat /\ r <= n /\ 0 \in 0..n /\ r \in 0..n
  BY <1>1
<1>3. Least(n, r) = r
  BY <1>1, <1>2 DEF Least
<1>4. first = SubSeq(f, 0 + 1, r)
  BY <1>1, <1>3 DEF First
<1>5. /\ first \in Seq(S) /\ DOMAIN first = 1..r
      /\ \A i \in 1..r : first[i] = f[i] /\ i \in 1..n
  <2>1. LET part == SubSeq(f, 0 + 1, r)
        IN  /\ part \in Seq(S) /\ Len(part) = r - 0 /\ r - 0 \in Nat
            /\ DOMAIN part = 1..(r - 0)
            /\ \A i \in 1..(r - 0) : part[i] = f[0 + i] /\ 0 + i \in 1..Len(f)
    BY <1>1, <1>2, PartIs
  <2>2. r - 0 = r /\ \A i \in 1..r : 0 + i = i
    BY <1>2
  <2> HIDE DEF first
  <2> QED
    BY <1>1, <1>4, <2>1, <2>2
<1> HIDE DEF first
<1> DEFINE kept == ToSet(first)
<1>6. kept = {f[i] : i \in 1..r}
  BY <1>5 DEF ToSet
<1> HIDE DEF kept
<1>7. kept \subseteq S
  BY <1>1, <1>5, <1>6
<1>8. ASSUME NEW a \in kept, NEW b \in S, b \notin kept PROVE <<a, b>> \in R
  <2>1. PICK i \in 1..r : a = f[i]
    BY <1>6
  <2>2. PICK k \in 1..n : b = f[k]
    BY <1>1
  <2>3. i < k /\ i \in 1..n
    BY <1>1, <1>2, <1>6, <1>8, <2>2
  <2> QED
    BY <1>1, <2>1, <2>2, <2>3
<1>9. ASSUME r < n PROVE kept # S
  <2>1. n \in 1..n /\ f[n] \in S
    BY <1>1, <1>2, <1>9
  <2>2. ASSUME f[n] \in kept PROVE FALSE
    <3>1. PICK i \in 1..r : f[i] = f[n]
      BY <1>6, <2>2
    <3>2. i \in 1..n /\ i < n
      BY <1>1, <1>2, <1>9
    <3>3. <<f[n], f[n]>> \in R
      BY <1>1, <2>1, <3>1, <3>2
    <3> QED
      BY <2>1, <3>3 DEF Sorts
  <2> QED
    BY <2>1, <2>2
<1>10. ASSUME r = n PROVE kept = S
  BY <1>1, <1>6, <1>7, <1>10
<1>11. r < n \/ r = n
  BY <1>1, <1>2
<1> QED
  BY <1>7, <1>8, <1>9, <1>10, <1>11 DEF kept, first, f

LEMMA ApplyIs ==
  ASSUME NEW sizes \in Seq(Nat), NEW most \in Nat, NEW room \in Nat
  PROVE  LET b == Apply(sizes, most, room)
         IN  /\ b.returned \in 0..Len(sizes) /\ b.total = Len(sizes)
             /\ b.truncated <=> b.returned < Len(sizes)
<1> DEFINE kept == SubSeq(sizes, 1, Least(Len(sizes), most))
           n == IF kept = <<>> THEN 0 ELSE LET k == Fitting(kept, room) IN IF k = 0 THEN 1 ELSE k
<1>1. Len(sizes) \in Nat /\ Least(Len(sizes), most) \in 0..Len(sizes) /\ 0 \in 0..Len(sizes)
  BY DEF Least
<1>2. kept \in Seq(Nat) /\ Len(kept) \in 0..Len(sizes)
  <2> DEFINE m == Least(Len(sizes), most)
  <2>1. m \in 0..Len(sizes) /\ kept = SubSeq(sizes, 0 + 1, m)
    BY <1>1
  <2> HIDE DEF m, kept
  <2>2. SubSeq(sizes, 0 + 1, m) \in Seq(Nat) /\ Len(SubSeq(sizes, 0 + 1, m)) = m - 0
    BY <1>1, <2>1, PartIs
  <2> QED
    BY <1>1, <2>1, <2>2
<1>3. Apply(sizes, most, room) = BoundInfo(n, Len(sizes))
  BY DEF Apply
<1> HIDE DEF kept
<1>4. n \in 0..Len(sizes)
  <2>1. kept # <<>> => Len(kept) >= 1
    BY <1>1, <1>2
  <2>2. Fitting(kept, room) \in 0..Len(kept)
    <3>1. room \in Int /\ kept \in Seq(Nat)
      BY <1>2
    <3> QED
      BY <3>1, FittingIs
  <2> QED
    BY <1>1, <1>2, <2>1, <2>2
<1> HIDE DEF n
<1>5. BoundInfo(n, Len(sizes)).returned = n /\ BoundInfo(n, Len(sizes)).total = Len(sizes)
  BY DEF BoundInfo
<1>6. BoundInfo(n, Len(sizes)).truncated <=> n < Len(sizes)
  <2> DEFINE less == n < Len(sizes)
  <2>1. BoundInfo(n, Len(sizes)).truncated = less
    BY DEF BoundInfo
  <2> QED
    BY <2>1
<1> QED
  BY <1>3, <1>4, <1>5, <1>6

\* The orders of the schema.
TypesOrder(T) == {p \in T \X T : LargerType(p[1], p[2])}
LinksOrder(T) == {p \in T \X T : LargerLink(p[1], p[2])}

LEMMA OrdersAre ==
  ASSUME NEW g \in Schemas
  PROVE  /\ \A T \in SUBSET g.types : IsFiniteSet(T) /\ Sorts(TypesOrder(T), T)
         /\ \A T \in SUBSET g.triples : IsFiniteSet(T) /\ Sorts(LinksOrder(T), T)
<1>1. ASSUME NEW T \in SUBSET g.types PROVE IsFiniteSet(T) /\ Sorts(TypesOrder(T), T)
  <2>1. IsFiniteSet(T)
    BY SchemasAssumption, FS_Subset
  <2>2. \A a \in T : a.count \in Nat /\ a.name \in Nat
    BY SchemasAssumption
  <2>3. \A a, b \in T : a.name = b.name => a = b
    BY SchemasAssumption
  <2>4. \A a, b \in T : <<a, b>> \in TypesOrder(T) <=> LargerType(a, b)
    BY DEF TypesOrder
  <2>5. \A a, b \in T : a # b => LargerType(a, b) \/ LargerType(b, a)
    BY <2>2, <2>3 DEF LargerType
  <2>6. \A a, b \in T : LargerType(a, b) => ~LargerType(b, a)
    BY <2>2 DEF LargerType
  <2>7. \A a, b, c \in T : LargerType(a, b) /\ LargerType(b, c) => LargerType(a, c)
    BY <2>2 DEF LargerType
  <2> QED
    BY <2>1, <2>4, <2>5, <2>6, <2>7 DEF Sorts
<1>2. ASSUME NEW T \in SUBSET g.triples PROVE IsFiniteSet(T) /\ Sorts(LinksOrder(T), T)
  <2>1. IsFiniteSet(T)
    BY SchemasAssumption, FS_Subset
  <2>2. \A a \in T : a.count \in Nat /\ a.name \in Nat /\ a.src \in Nat /\ a.tgt \in Nat
    BY SchemasAssumption
  <2>3. \A a, b \in T : a.src = b.src /\ a.tgt = b.tgt /\ a.name = b.name => a = b
    BY SchemasAssumption
  <2>4. \A a, b \in T : <<a, b>> \in LinksOrder(T) <=> LargerLink(a, b)
    BY DEF LinksOrder
  <2>5. \A a, b \in T : a # b => LargerLink(a, b) \/ LargerLink(b, a)
    BY <2>2, <2>3 DEF LargerLink
  <2>6. \A a, b \in T : LargerLink(a, b) => ~LargerLink(b, a)
    BY <2>2 DEF LargerLink
  <2>7. \A a, b, c \in T : LargerLink(a, b) /\ LargerLink(b, c) => LargerLink(a, c)
    BY <2>2 DEF LargerLink
  <2> QED
    BY <2>1, <2>4, <2>5, <2>6, <2>7 DEF Sorts
<1> QED
  BY <1>1, <1>2

\* The first of a set in its order, as many as a bound lets through.
Shown(S, R, size, most, room) == First(Ranked(S, R), Apply([i \in DOMAIN Ranked(S, R) |-> size], most, room).returned)

LEMMA ShownIs ==
  ASSUME NEW S, IsFiniteSet(S), NEW R, Sorts(R, S), NEW size \in Nat, NEW most \in Nat, NEW room \in Nat
  PROVE  LET kept == ToSet(Shown(S, R, size, most, room))
         IN  /\ kept \subseteq S
             /\ \A a \in kept, b \in S : b \in kept \/ <<a, b>> \in R
             /\ Apply([i \in DOMAIN Ranked(S, R) |-> size], most, room).truncated <=> kept # S
<1> DEFINE f == Ranked(S, R)
           sizes == [i \in DOMAIN f |-> size]
<1>1. f \in Seq(S) /\ Len(f) = Cardinality(S) /\ Cardinality(S) \in Nat
  BY RankedIs
<1> HIDE DEF f
<1>2. sizes \in Seq(Nat) /\ Len(sizes) = Cardinality(S)
  BY <1>1
<1> HIDE DEF sizes
<1>3. /\ Apply(sizes, most, room).returned \in 0..Cardinality(S)
      /\ Apply(sizes, most, room).truncated <=> Apply(sizes, most, room).returned < Cardinality(S)
  BY <1>2, ApplyIs
<1> DEFINE r == Apply(sizes, most, room).returned
<1>4. Shown(S, R, size, most, room) = First(f, r)
  BY DEF Shown, f, sizes
<1>5. LET kept == ToSet(First(Ranked(S, R), r))
      IN  /\ kept \subseteq S
          /\ \A a \in kept, b \in S : b \in kept \/ <<a, b>> \in R
          /\ r < Cardinality(S) <=> kept # S
  <2>1. r \in 0..Cardinality(S)
    BY <1>3
  <2> HIDE DEF r
  <2> QED
    BY <2>1, FirstRanked
<1> QED
  BY <1>3, <1>4, <1>5 DEF f, sizes

LEMMA SchemaIs ==
  ASSUME NEW g \in Schemas
  PROVE  LET a == MetaGraph(g)
             drawn == {a.nodes[i].name : i \in DOMAIN a.nodes}
             between == {t \in g.triples : {t.src, t.tgt} \subseteq drawn}
         IN  /\ ToSet(a.edges) \subseteq between
             /\ \A n \in ToSet(a.nodes), t \in g.types :
                   t.name \in drawn \/ t.system \/ t.count <= n.count
             /\ \A e \in ToSet(a.edges), t \in between : t \in ToSet(a.edges) \/ t.count <= e.count
             /\ a.node_bound.truncated <=> \E t \in g.types : ~t.system /\ t.name \notin drawn
             /\ a.edge_bound.truncated <=> ToSet(a.edges) # between
<1> DEFINE a == MetaGraph(g)
           T == {t \in g.types : ~t.system}
           RT == TypesOrder(T)
           types == Ranked(T, RT)
           drawn == {a.nodes[i].name : i \in DOMAIN a.nodes}
           between == {t \in g.triples : {t.src, t.tgt} \subseteq drawn}
           RL == LinksOrder(between)
           links == Ranked(between, RL)
<1>1. IsFiniteSet(T) /\ Sorts(RT, T) /\ IsFiniteSet(between) /\ Sorts(RL, between)
  <2>1. T \in SUBSET g.types /\ between \in SUBSET g.triples
    OBVIOUS
  <2> HIDE DEF T, between
  <2> QED
    BY <2>1, OrdersAre
<1>2. InOrder(T, LargerType) = types
  <2>1. \A x \in T : {y \in T : LargerType(y, x)} = {y \in T : <<y, x>> \in RT}
    BY DEF TypesOrder
  <2> HIDE DEF RT, T
  <2>2. InOrder(T, LargerType) = [k \in 1..Cardinality(T) |-> CHOOSE x \in T : Cardinality({y \in T : LargerType(y, x)}) = k - 1]
    BY DEF InOrder
  <2> QED
    BY <2>1, <2>2 DEF Ranked
<1>3. InOrder(between, LargerLink) = links
  <2>1. \A x \in between : {y \in between : LargerLink(y, x)} = {y \in between : <<y, x>> \in RL}
    BY DEF LinksOrder
  <2> HIDE DEF RL, between
  <2>2. InOrder(between, LargerLink) = [k \in 1..Cardinality(between) |->
          CHOOSE x \in between : Cardinality({y \in between : LargerLink(y, x)}) = k - 1]
    BY DEF InOrder
  <2> QED
    BY <2>1, <2>2 DEF Ranked
<1> DEFINE node_bound == Apply([i \in DOMAIN types |-> TypeBytes], TierBound(g.tier), MetaBytes)
           nodes == First(types, node_bound.returned)
           edge_bound == Apply([i \in DOMAIN links |-> LinkBytes], MetaLinks, MetaBytes)
           edges == First(links, edge_bound.returned)
<1>4. a.nodes = nodes /\ a.node_bound = node_bound
  <2> HIDE DEF types
  <2> QED
    BY <1>2 DEF MetaGraph
<1>5. Linked(g.triples, {nodes[i].name : i \in DOMAIN nodes}) = between
  <2> HIDE DEF nodes
  <2> QED
    BY <1>4 DEF Linked
<1>6. a.edges = edges /\ a.edge_bound = edge_bound
  <2>1. a.edges = LET ls == InOrder(Linked(g.triples, {nodes[i].name : i \in DOMAIN nodes}), LargerLink)
                  IN  First(ls, Apply([i \in DOMAIN ls |-> LinkBytes], MetaLinks, MetaBytes).returned)
    <3> HIDE DEF types
    <3> QED
      BY <1>2 DEF MetaGraph
  <2>2. a.edge_bound = LET ls == InOrder(Linked(g.triples, {nodes[i].name : i \in DOMAIN nodes}), LargerLink)
                       IN  Apply([i \in DOMAIN ls |-> LinkBytes], MetaLinks, MetaBytes)
    <3> HIDE DEF types
    <3> QED
      BY <1>2 DEF MetaGraph
  <2> HIDE DEF nodes, links, between
  <2> QED
    BY <1>3, <1>5, <2>1, <2>2
<1>7. TierBound(g.tier) \in Nat /\ MetaBytes \in Nat /\ TypeBytes \in Nat /\ LinkBytes \in Nat /\ MetaLinks \in Nat
  BY SchemasAssumption, SchemaAssumption DEF TierBound
<1>8. /\ ToSet(nodes) \subseteq T
      /\ \A x \in ToSet(nodes), y \in T : y \in ToSet(nodes) \/ <<x, y>> \in RT
      /\ node_bound.truncated <=> ToSet(nodes) # T
  <2>1. nodes = Shown(T, RT, TypeBytes, TierBound(g.tier), MetaBytes)
    BY DEF Shown
  <2>2. node_bound = Apply([i \in DOMAIN Ranked(T, RT) |-> TypeBytes], TierBound(g.tier), MetaBytes)
    OBVIOUS
  <2> HIDE DEF T, RT, nodes, node_bound, types
  <2>3. LET shown == ToSet(Shown(T, RT, TypeBytes, TierBound(g.tier), MetaBytes))
        IN  /\ shown \subseteq T
            /\ \A x \in shown, y \in T : y \in shown \/ <<x, y>> \in RT
            /\ Apply([i \in DOMAIN Ranked(T, RT) |-> TypeBytes], TierBound(g.tier), MetaBytes).truncated <=> shown # T
    BY <1>1, <1>7, ShownIs
  <2> QED
    BY <2>1, <2>2, <2>3
<1>9. /\ ToSet(edges) \subseteq between
      /\ \A x \in ToSet(edges), y \in between : y \in ToSet(edges) \/ <<x, y>> \in RL
      /\ edge_bound.truncated <=> ToSet(edges) # between
  <2>1. edges = Shown(between, RL, LinkBytes, MetaLinks, MetaBytes)
    BY DEF Shown
  <2>2. edge_bound = Apply([i \in DOMAIN Ranked(between, RL) |-> LinkBytes], MetaLinks, MetaBytes)
    OBVIOUS
  <2> HIDE DEF between, RL, edges, edge_bound, links
  <2>3. LET shown == ToSet(Shown(between, RL, LinkBytes, MetaLinks, MetaBytes))
        IN  /\ shown \subseteq between
            /\ \A x \in shown, y \in between : y \in shown \/ <<x, y>> \in RL
            /\ Apply([i \in DOMAIN Ranked(between, RL) |-> LinkBytes], MetaLinks, MetaBytes).truncated <=> shown # between
    BY <1>1, <1>7, ShownIs
  <2> QED
    BY <2>1, <2>2, <2>3
<1> DEFINE kept == ToSet(nodes)
<1>10. drawn = {n.name : n \in kept}
  <2> HIDE DEF nodes
  <2> QED
    BY <1>4 DEF ToSet
<1> HIDE DEF nodes, edges, node_bound, edge_bound
<1>11. \A t \in T : t.name \in drawn <=> t \in kept
  <2>1. \A x, y \in T : x.name = y.name => x = y
    BY SchemasAssumption
  <2> HIDE DEF T, drawn
  <2> QED
    BY <1>8, <1>10, <2>1
<1>12. \A n \in kept, t \in g.types : t.name \in drawn \/ t.system \/ t.count <= n.count
  <2> SUFFICES ASSUME NEW n \in kept, NEW t \in g.types, t.name \notin drawn, ~t.system PROVE t.count <= n.count
    OBVIOUS
  <2>1. t \in T /\ n \in T
    BY <1>8
  <2>2. <<n, t>> \in RT
    BY <1>8, <1>11, <2>1
  <2>3. LargerType(n, t)
    BY <2>2 DEF TypesOrder
  <2>4. t.count \in Nat /\ n.count \in Nat
    BY <2>1, SchemasAssumption
  <2> QED
    BY <2>3, <2>4 DEF LargerType
<1>13. \A e \in ToSet(edges), t \in between : t \in ToSet(edges) \/ t.count <= e.count
  <2> SUFFICES ASSUME NEW e \in ToSet(edges), NEW t \in between, t \notin ToSet(edges) PROVE t.count <= e.count
    OBVIOUS
  <2>1. <<e, t>> \in RL /\ e \in between
    BY <1>9
  <2>2. LargerLink(e, t)
    BY <2>1 DEF LinksOrder
  <2>3. e \in g.triples /\ t \in g.triples
    BY <2>1
  <2>4. t.count \in Nat /\ e.count \in Nat
    BY <2>3, SchemasAssumption
  <2> QED
    BY <2>2, <2>4 DEF LargerLink
<1>14. node_bound.truncated <=> \E t \in g.types : ~t.system /\ t.name \notin drawn
  <2>1. kept # T <=> \E t \in T : t \notin kept
    BY <1>8
  <2>2. (\E t \in T : t \notin kept) <=> \E t \in g.types : ~t.system /\ t.name \notin drawn
    BY <1>11
  <2> HIDE DEF kept, T, drawn
  <2> QED
    BY <1>8, <2>1, <2>2 DEF kept
<1> HIDE DEF between, drawn
<1> QED
  BY <1>4, <1>6, <1>9, <1>12, <1>13, <1>14 DEF between, drawn

\* What a node is offered, one relationship at a time.
LEMMA OffersAre ==
  ASSUME NEW rels, IsFiniteSet(rels), NEW typeof, NEW node
  PROVE  LET Here(r, direction)  == node = IF direction = "out" THEN r.from ELSE r.to
             There(r, direction) == typeof[IF direction = "out" THEN r.to ELSE r.from]
             Finds(o) == {r \in rels : Here(r, o.direction) /\ r.name = o.name /\ There(r, o.direction) = o.other}
             offers == PreviewForNode(rels, typeof, node)
         IN  /\ \A o \in offers : Finds(o) # {} /\ o.count = Cardinality(Finds(o))
             /\ \A r \in rels, direction \in {"out", "in"} :
                  Here(r, direction) =>
                    \E o \in offers :
                      \A p \in offers : p.direction = direction /\ r \in Finds(p) <=> p = o
<1> DEFINE Here(r, direction)  == node = IF direction = "out" THEN r.from ELSE r.to
           There(r, direction) == typeof[IF direction = "out" THEN r.to ELSE r.from]
           Finds(o) == {r \in rels : Here(r, o.direction) /\ r.name = o.name /\ There(r, o.direction) = o.other}
           offers == PreviewForNode(rels, typeof, node)
           Wider == PreviewForType(Triples(rels, typeof), typeof[node])
           Made(name, direction, other, count) == [name |-> name, direction |-> direction, other |-> other, count |-> count]
<1>1. ASSUME NEW q \in Wider
      PROVE  /\ q = Made(q.name, q.direction, q.other, q.count) /\ q.direction \in {"out", "in"}
  <2>1. \E t : q = Offer(t, "out") \/ q = Offer(t, "in")
    BY DEF PreviewForType
  <2> QED
    BY <2>1 DEF Offer
<1>2. \A q : EdgesOf(rels, typeof, node, q) = {r \in rels : r.name = q.name /\
         IF q.direction = "out" THEN r.from = node /\ typeof[r.to] = q.other ELSE r.to = node /\ typeof[r.from] = q.other}
  BY DEF EdgesOf
<1>3. \A q : EdgesOf(rels, typeof, node, q) = Finds(q)
  BY <1>2
<1>4. ASSUME NEW o \in offers
      PROVE  \E q \in Wider : /\ o = Made(q.name, q.direction, q.other, Cardinality(Finds(q))) /\ Cardinality(Finds(q)) > 0
  <2>1. PICK q \in Wider : o = [q EXCEPT !.count = Cardinality(EdgesOf(rels, typeof, node, q))] /\ o.count > 0
    BY DEF PreviewForNode
  <2> HIDE DEF Finds, Wider
  <2>2. o = [q EXCEPT !.count = Cardinality(Finds(q))]
    BY <1>3, <2>1
  <2>3. q = Made(q.name, q.direction, q.other, q.count)
    BY <1>1
  <2>4. o = Made(q.name, q.direction, q.other, Cardinality(Finds(q)))
    BY <2>2, <2>3
  <2>5. Cardinality(Finds(q)) > 0
    BY <2>1, <2>4
  <2> HIDE DEF Made
  <2> QED
    BY <2>4, <2>5
<1>5. ASSUME NEW q \in Wider, Finds(q) # {}
      PROVE  Made(q.name, q.direction, q.other, Cardinality(Finds(q))) \in offers
  <2> DEFINE o == [q EXCEPT !.count = Cardinality(EdgesOf(rels, typeof, node, q))]
  <2>1. q = Made(q.name, q.direction, q.other, q.count)
    BY <1>1
  <2>2. IsFiniteSet(Finds(q)) /\ Cardinality(Finds(q)) \in Nat
    <3>1. Finds(q) \in SUBSET rels
      OBVIOUS
    <3> HIDE DEF Finds
    <3> QED
      BY <3>1, FS_Subset, FS_CardinalityType
  <2>3. Cardinality(Finds(q)) > 0
    <3> HIDE DEF Finds
    <3> QED
      BY <1>5, <2>2, FS_EmptySet
  <2> HIDE DEF Finds, Wider
  <2>4. o = Made(q.name, q.direction, q.other, Cardinality(Finds(q)))
    BY <1>3, <2>1
  <2>5. o.count > 0
    BY <2>3, <2>4
  <2>6. o \in offers
    BY <2>5 DEF PreviewForNode, Wider
  <2> QED
    BY <2>4, <2>6
<1>6. ASSUME NEW name, NEW direction, NEW other, NEW m, NEW n
      PROVE  Finds(Made(name, direction, other, m)) = Finds(Made(name, direction, other, n))
  OBVIOUS
<1>7. ASSUME NEW o \in offers
      PROVE  /\ Finds(o) # {} /\ o.count = Cardinality(Finds(o)) /\ o.direction \in {"out", "in"}
             /\ o = Made(o.name, o.direction, o.other, Cardinality(Finds(o)))
  <2>1. PICK q \in Wider : o = Made(q.name, q.direction, q.other, Cardinality(Finds(q))) /\ Cardinality(Finds(q)) > 0
    BY <1>4
  <2> DEFINE found == Finds(q)
  <2>2. q = Made(q.name, q.direction, q.other, q.count) /\ q.direction \in {"out", "in"}
    BY <1>1
  <2>3. Finds(o) = found
    BY <2>1
  <2> HIDE DEF Finds, found, Wider
  <2>4. o.name = q.name /\ o.direction = q.direction /\ o.other = q.other /\ o.count = Cardinality(found)
    BY <2>1 DEF found
  <2>5. found # {}
    BY <2>1, FS_EmptySet DEF found
  <2> QED
    BY <2>1, <2>2, <2>3, <2>4, <2>5 DEF found
<1>8. ASSUME NEW r \in rels, NEW direction \in {"out", "in"}, Here(r, direction)
      PROVE  \E o \in offers : \A p \in offers : p.direction = direction /\ r \in Finds(p) <=> p = o
  <2> DEFINE kind(x) == [src |-> typeof[x.from], tgt |-> typeof[x.to], name |-> x.name]
             k == kind(r)
             t == [src |-> k.src, tgt |-> k.tgt, name |-> k.name, count |-> Cardinality({x \in rels : kind(x) = k})]
             q == Offer(t, direction)
  <2>1. t \in Triples(rels, typeof)
    BY DEF Triples
  <2>2. t.count > 0
    <3> DEFINE same == {x \in rels : kind(x) = k}
    <3>1. r \in same /\ same \in SUBSET rels
      OBVIOUS
    <3>2. t.count = Cardinality(same)
      OBVIOUS
    <3> HIDE DEF same, t, k
    <3>3. IsFiniteSet(same) /\ Cardinality(same) \in Nat
      BY <3>1, FS_Subset, FS_CardinalityType
    <3>4. Cardinality(same) # 0
      BY <3>1, <3>3, FS_EmptySet
    <3> QED
      BY <3>2, <3>3, <3>4
  <2>3. t.src = typeof[r.from] /\ t.tgt = typeof[r.to] /\ t.name = r.name
    OBVIOUS
  <2> HIDE DEF t, k
  <2>4. q \in Wider
    <3>1. CASE direction = "out"
      <4>1. t.src = typeof[node]
        BY <1>8, <2>3, <3>1
      <4> QED
        BY <2>1, <2>2, <3>1, <4>1 DEF PreviewForType
    <3>2. CASE direction = "in"
      <4>1. t.tgt = typeof[node]
        BY <1>8, <2>3, <3>2
      <4> QED
        BY <2>1, <2>2, <3>2, <4>1 DEF PreviewForType
    <3> QED
      BY <3>1, <3>2
  <2>5. q.name = r.name /\ q.direction = direction /\ q.other = There(r, direction)
    BY <2>3 DEF Offer
  <2> DEFINE o == Made(q.name, q.direction, q.other, Cardinality(Finds(q)))
  <2>6. r \in Finds(q)
    <3> HIDE DEF q, Wider
    <3> QED
      BY <1>8, <2>5
  <2> HIDE DEF q, Wider
  <2>7. o \in offers
    <3> HIDE DEF Finds, Made
    <3> QED
      BY <1>5, <2>4, <2>6
  <2>8. o.name = r.name /\ o.direction = direction /\ o.other = There(r, direction)
    <3> HIDE DEF Finds, There
    <3> QED
      BY <2>5
  <2>9. r \in Finds(o)
    BY <1>8, <2>8
  <2> HIDE DEF o
  <2>10. ASSUME NEW p \in offers, p.direction = direction, r \in Finds(p) PROVE p = o
    <3>1. r.name = p.name /\ There(r, direction) = p.other
      BY <2>10
    <3> HIDE DEF There
    <3>2. p.name = o.name /\ p.direction = o.direction /\ p.other = o.other
      BY <2>8, <2>10, <3>1
    <3>3. Finds(p) = Finds(o)
      BY <3>2
    <3> HIDE DEF Finds, Made, offers
    <3>4. p = Made(p.name, p.direction, p.other, Cardinality(Finds(p))) /\ o = Made(o.name, o.direction, o.other, Cardinality(Finds(o)))
      BY <1>7, <2>7
    <3> QED
      BY <3>2, <3>3, <3>4
  <2> HIDE DEF Finds
  <2> QED
    BY <2>7, <2>8, <2>9, <2>10
<1> HIDE DEF offers
<1> QED
  BY <1>7, <1>8 DEF offers

\* What a schema and a preview are answered with.
SchemaHolds ==
  /\ inquiry.kind = "schema" /\ answer # None => answer = MetaGraph(inquiry.schema)
  /\ inquiry.kind = "preview" /\ answer # None =>
       \E n \in DOMAIN inquiry.graph.typeof :
         answer = [state |-> "preview", node |-> n,
                   offers |-> PreviewForNode(inquiry.graph.rels, inquiry.graph.typeof, n)]

(***************************************************************************)
(* The picture of the schema draws no link without its types, leaves out   *)
(* nothing larger than what it keeps and says what it leaves out           *)
(* (meta_graph.rs), and a node is offered each of its relationships once   *)
(* (expand.rs), for any schema, any graph and any ceilings.                *)
(***************************************************************************)
THEOREM SchemaIsSoundHolds == ReadSpec => []SchemaIsSound
<1>1. ReadInit => SchemaHolds
  BY DEF ReadInit, SchemaHolds, None
<1>2. Asked /\ SchemaHolds /\ [ReadNext]_readVars => SchemaHolds'
  <2> SUFFICES ASSUME SchemaHolds, [ReadNext]_readVars PROVE SchemaHolds'
    OBVIOUS
  <2>1. ASSUME NEW i \in Inquiries, Ask(i) PROVE SchemaHolds'
    BY <2>1 DEF Ask, SchemaHolds
  <2>2. ASSUME Receive, inquiry' = inquiry PROVE SchemaHolds'
    BY <2>2, AnsweredBy DEF SchemaHolds, ReadSchema, PreviewNode, Answered
  <2>3. ASSUME UNCHANGED readVars PROVE SchemaHolds'
    BY <2>3 DEF readVars, SchemaHolds
  <2> QED
    BY <2>1, <2>2, <2>3, ReadingIs
<1>3. Asked /\ SchemaHolds => SchemaIsSound
  <2> SUFFICES ASSUME Asked, SchemaHolds PROVE SchemaIsSound
    OBVIOUS
  <2>1. ASSUME inquiry.kind = "schema", answer # None PROVE SchemaIsSound
    <3>1. inquiry.schema \in Schemas /\ answer = MetaGraph(inquiry.schema)
      BY <2>1, InquiryIs DEF Asked, None, SchemaHolds
    <3> QED
      BY <2>1, <3>1, SchemaIs, SMTT(30) DEF SchemaIsSound
  <2>2. ASSUME inquiry.kind = "preview", answer # None PROVE SchemaIsSound
    <3>1. inquiry.graph \in Graphs
      BY <2>2, InquiryIs DEF Asked, None
    <3>2. PICK n : answer = [state |-> "preview", node |-> n,
                             offers |-> PreviewForNode(inquiry.graph.rels, inquiry.graph.typeof, n)]
      BY <2>2 DEF SchemaHolds
    <3>3. answer.node = n /\ answer.offers = PreviewForNode(inquiry.graph.rels, inquiry.graph.typeof, n)
      BY <3>2
    <3>4. IsFiniteSet(inquiry.graph.rels)
      BY <3>1, SchemasAssumption
    <3> DEFINE rels == inquiry.graph.rels
               typeof == inquiry.graph.typeof
               node == answer.node
               offers == answer.offers
               Here(r, direction)  == node = IF direction = "out" THEN r.from ELSE r.to
               There(r, direction) == typeof[IF direction = "out" THEN r.to ELSE r.from]
               Finds(o) == {r \in rels : Here(r, o.direction) /\ r.name = o.name /\ There(r, o.direction) = o.other}
    <3> SUFFICES /\ \A o \in offers : Finds(o) # {} /\ o.count = Cardinality(Finds(o))
                 /\ \A r \in rels, direction \in {"out", "in"} :
                      Here(r, direction) =>
                        \E o \in offers :
                          \A p \in offers : p.direction = direction /\ r \in Finds(p) <=> p = o
      BY <2>2, Zenon DEF SchemaIsSound
    <3>5. offers = PreviewForNode(rels, typeof, node) /\ IsFiniteSet(rels)
      BY <3>3, <3>4
    <3> HIDE DEF rels, typeof, node, offers
    <3> QED
      BY <3>5, OffersAre
  <2> QED
    BY <2>1, <2>2 DEF SchemaIsSound
<1> QED
  BY <1>1, <1>2, <1>3, ReadsAreAsked, PTL DEF ReadSpec

-----------------------------------------------------------------------------
(* The wire. *)

LEMMA DivIs ==
  ASSUME NEW a \in Nat, NEW m \in Nat, m # 0
  PROVE  /\ a \div m \in Nat /\ a % m \in 0..(m - 1)
         /\ a = (a \div m) * m + (a % m)
  OBVIOUS

LEMMA TimesIs ==
  ASSUME NEW k \in Nat, NEW m \in Nat, m # 0
  PROVE  (k * m) % m = 0
<1>1. k * m \in Nat
  OBVIOUS
<1>2. PICK q, r : q = (k * m) \div m /\ r = (k * m) % m
  OBVIOUS
<1>3. q \in Nat /\ r \in 0..(m - 1) /\ k * m = q * m + r
  BY <1>1, <1>2, DivIs
<1>4. (k - q) * m = r
  BY <1>3
<1>5. CASE k - q > 0
  <2>1. (k - q) * m >= m
    BY <1>3, <1>5
  <2> QED
    BY <1>3, <1>4, <2>1
<1>6. CASE k - q < 0
  <2>1. (k - q) * m < 0
    BY <1>3, <1>6
  <2> QED
    BY <1>3, <1>4, <2>1
<1>7. CASE k = q
  BY <1>2, <1>3, <1>4, <1>7
<1> QED
  BY <1>3, <1>5, <1>6, <1>7

\* The number of chunks that many bytes are cut into, and which has the i-th.
LEMMA ChunksCover ==
  ASSUME NEW n \in Nat, NEW stride \in Nat, stride # 0
  PROVE  LET c == Max({1, (n + stride - 1) \div stride})
         IN  /\ c \in Nat /\ c >= 1
             /\ \A k \in 1..c : (k - 1) * stride \in Nat /\ (k - 1) * stride <= n
             /\ \A i \in 1..n : \E k \in 1..c : (k - 1) * stride < i /\ i <= k * stride
<1> DEFINE q == (n + stride - 1) \div stride
           r == (n + stride - 1) % stride
           c == Max({1, q})
<1>1. q \in Nat /\ r \in 0..(stride - 1) /\ n + stride - 1 = q * stride + r
  <2>1. n + stride - 1 \in Nat
    OBVIOUS
  <2> QED
    BY <2>1, DivIs
<1> HIDE DEF q, r
<1>2. c = IF q > 1 THEN q ELSE 1
  <2>1. \E x \in {1, q} : \A y \in {1, q} : x >= y
    BY <1>1
  <2> DEFINE x == CHOOSE z \in {1, q} : \A y \in {1, q} : z >= y
  <2>2. x \in {1, q} /\ \A y \in {1, q} : x >= y
    BY <2>1
  <2>3. c = x
    BY DEF Max
  <2> HIDE DEF x, c
  <2> QED
    BY <1>1, <2>2, <2>3
<1> HIDE DEF c
<1>3. c \in Nat /\ c >= 1
  BY <1>1, <1>2
<1>4. ASSUME NEW k \in 1..c PROVE (k - 1) * stride \in Nat /\ (k - 1) * stride <= n
  <2>1. k - 1 \in Nat
    BY <1>3
  <2>2. (k - 1) * stride \in Nat
    BY <2>1
  <2>3. CASE k = 1
    <3>1. (k - 1) * stride = 0
      BY <2>3
    <3> QED
      BY <3>1
  <2>4. CASE k > 1
    <3>1. k <= q
      BY <1>1, <1>2, <2>4
    <3>2. (k - 1) * stride <= (q - 1) * stride
      BY <1>1, <2>1, <3>1
    <3>3. (q - 1) * stride = q * stride - stride
      BY <1>1
    <3>4. q * stride \in Nat
      BY <1>1
    <3> QED
      BY <1>1, <2>2, <3>2, <3>3, <3>4
  <2> QED
    BY <1>3, <2>2, <2>3, <2>4
<1>5. ASSUME NEW i \in 1..n PROVE \E k \in 1..c : (k - 1) * stride < i /\ i <= k * stride
  <2> DEFINE p == (i - 1) \div stride
             s == (i - 1) % stride
  <2>1. p \in Nat /\ s \in 0..(stride - 1) /\ i - 1 = p * stride + s
    <3>1. i - 1 \in Nat
      OBVIOUS
    <3> QED
      BY <3>1, DivIs
  <2> HIDE DEF p, s
  <2>2. p * stride \in Nat /\ (p + 1) * stride = p * stride + stride
    BY <2>1
  <2>3. p * stride < i /\ i <= (p + 1) * stride
    BY <2>1, <2>2
  <2>4. p + 1 <= q
    <3>1. SUFFICES ASSUME q <= p PROVE FALSE
      BY <1>1, <2>1
    <3>2. q * stride <= p * stride
      BY <1>1, <2>1, <3>1
    <3>3. q * stride \in Nat
      BY <1>1
    <3> QED
      BY <1>1, <2>1, <2>2, <3>2, <3>3
  <2>5. p + 1 \in 1..c /\ (p + 1) - 1 = p
    BY <1>1, <1>2, <1>3, <2>1, <2>4
  <2> QED
    BY <2>3, <2>5
<1> QED
  BY <1>3, <1>4, <1>5 DEF c, q

LEMMA ChunkBytesAre ==
  ASSUME NEW target \in Nat
  PROVE  /\ ChunkBytes(target) \in Nat /\ ChunkBytes(target) # 0
         /\ \A k \in Nat : (k * ChunkBytes(target)) % ArrayRecord = 0
         /\ ChunkBytes(target) <= Max({target, ArrayRecord})
<1> DEFINE q == target \div ArrayRecord
           r == target % ArrayRecord
           s == ChunkBytes(target)
<1>1. ArrayRecord \in Nat /\ ArrayRecord # 0
  BY WireAssumption
<1>2. q \in Nat /\ r \in 0..(ArrayRecord - 1) /\ target = q * ArrayRecord + r
  BY <1>1, DivIs
<1> HIDE DEF q
<1>3. target - r = q * ArrayRecord
  BY <1>1, <1>2
<1>4. \E j \in Nat : s = j * ArrayRecord /\ j # 0
  <2>1. CASE target - r = 0
    <3>1. s = ArrayRecord
      BY <2>1 DEF ChunkBytes
    <3>2. s = 1 * ArrayRecord
      BY <1>1, <3>1
    <3> QED
      BY <3>2
  <2>2. CASE target - r # 0
    <3>1. s = target - r
      BY <2>2 DEF ChunkBytes
    <3>2. q # 0
      BY <1>1, <1>3, <2>2
    <3> QED
      BY <1>2, <1>3, <3>1, <3>2
  <2> QED
    BY <2>1, <2>2
<1>5. s <= Max({target, ArrayRecord})
  <2>1. s = ArrayRecord \/ s <= target
    BY <1>1, <1>2 DEF ChunkBytes
  <2>2. \E x \in {target, ArrayRecord} : \A y \in {target, ArrayRecord} : x >= y
    BY <1>1
  <2> DEFINE x == CHOOSE z \in {target, ArrayRecord} : \A y \in {target, ArrayRecord} : z >= y
  <2>3. x \in {target, ArrayRecord} /\ \A y \in {target, ArrayRecord} : x >= y
    BY <2>2
  <2>4. Max({target, ArrayRecord}) = x
    BY DEF Max
  <2>5. s \in Nat
    BY <1>1, <1>4
  <2> HIDE DEF x, s
  <2> QED
    BY <1>1, <2>1, <2>3, <2>4, <2>5
<1>6. PICK j \in Nat : s = j * ArrayRecord /\ j # 0
  BY <1>4
<1>7. s \in Nat /\ s # 0
  BY <1>1, <1>6
<1>8. ASSUME NEW k \in Nat PROVE (k * s) % ArrayRecord = 0
  <2>1. k * s = (k * j) * ArrayRecord
    BY <1>1, <1>6
  <2>2. k * j \in Nat
    OBVIOUS
  <2> QED
    BY <1>1, <2>1, <2>2, TimesIs
<1> QED
  BY <1>5, <1>7, <1>8

\* What a frame is of, and what it carries.
TypeOf(f) == MessageTypes[f.code]
PayloadOf(f) == SubSeq(f.body, 1, f.length)
Arrays == {"Points", "Links"}

Frames == [header : {HeaderBytes}, version : {ProtocolVersion}, code : DOMAIN MessageTypes, seq : Nat, flags : {0, 1},
           length : Nat, offset : Nat, body : Seq(Nat)]

\* A frame of the encoder: less than four zero bytes are padding, and a text does not end in one.
Framed(f) ==
  /\ f \in Frames
  /\ f.length <= Len(f.body) /\ Len(f.body) < f.length + 4
  /\ \A i \in f.length + 1..Len(f.body) : f.body[i] = 0
  /\ TypeOf(f) \notin Arrays => f.length > 0 /\ f.body[f.length] # 0

\* A chunk of some bytes: it starts at a record and is no larger than asked.
IsChunk(f, bytes, target) ==
  /\ f.offset + f.length <= Len(bytes)
  /\ \A j \in 1..f.length : PayloadOf(f)[j] = bytes[f.offset + j]
  /\ f.offset % ArrayRecord = 0
  /\ f.length <= Max({target, ArrayRecord})

LEMMA TypesAre ==
  /\ ToSet(Precedence) \cup Arrays \cup {"Compaction"} \subseteq ToSet(MessageTypes)
  /\ \A t \in ToSet(Precedence) : t \notin Arrays /\ t # "Compaction"
  /\ DOMAIN MessageTypes = 1..Len(MessageTypes) /\ Len(MessageTypes) \in Nat
<1>1. DOMAIN MessageTypes = 1..19 /\ Len(MessageTypes) = 19
  BY DEF MessageTypes
<1>2. ToSet(Precedence) = {"Error", "SharedUpdate", "MetaGraphMeta", "GraphSlice", "Records", "FieldDetail",
                "QueryTable", "ExpansionPreview", "NodeDetail", "SearchResult", "PropertyStats",
                "Focus", "Highlight", "Appearance", "Layout", "SessionInfo"}
  BY DEF Precedence, ToSet
<1>3. /\ MessageTypes[1] = "MetaGraphMeta" /\ MessageTypes[2] = "Points" /\ MessageTypes[3] = "Links"
      /\ MessageTypes[4] = "SessionInfo" /\ MessageTypes[5] = "Error" /\ MessageTypes[6] = "QueryTable"
      /\ MessageTypes[7] = "ExpansionPreview" /\ MessageTypes[8] = "GraphSlice" /\ MessageTypes[9] = "NodeDetail"
      /\ MessageTypes[10] = "SearchResult" /\ MessageTypes[11] = "Compaction" /\ MessageTypes[12] = "PropertyStats"
      /\ MessageTypes[13] = "Focus" /\ MessageTypes[14] = "Highlight" /\ MessageTypes[15] = "Appearance"
      /\ MessageTypes[16] = "Layout" /\ MessageTypes[17] = "Records" /\ MessageTypes[18] = "SharedUpdate"
      /\ MessageTypes[19] = "FieldDetail"
  BY DEF MessageTypes
<1>4. \A i \in 1..19 : MessageTypes[i] \in ToSet(MessageTypes)
  BY <1>1 DEF ToSet
<1>5. ToSet(Precedence) \cup Arrays \cup {"Compaction"} \subseteq ToSet(MessageTypes)
  BY <1>2, <1>3, <1>4 DEF Arrays
<1>6. \A t \in ToSet(Precedence) : t \notin Arrays /\ t # "Compaction"
  BY <1>2 DEF Arrays
<1> QED
  BY <1>1, <1>5, <1>6

LEMMA PushFrameIs ==
  ASSUME NEW seq \in Nat, NEW type \in ToSet(MessageTypes), NEW payload \in Seq(Nat), NEW at \in Nat,
         type \notin Arrays => payload # <<>> /\ payload[Len(payload)] # 0
  PROVE  LET f == PushFrame(seq, type, payload, at)
         IN  /\ Framed(f) /\ f.flags = 0
             /\ TypeOf(f) = type /\ PayloadOf(f) = payload /\ f.offset = at /\ f.length = Len(payload)
<1> DEFINE f == PushFrame(seq, type, payload, at)
           n == Len(payload)
           pad == (4 - (n % 4)) % 4
           zeros == [i \in 1..pad |-> 0]
           body == payload \o zeros
<1>1. n \in Nat /\ pad \in 0..3
  OBVIOUS
<1>2. f = [header |-> HeaderBytes, version |-> ProtocolVersion, code |-> Code(type),
           seq |-> seq, flags |-> 0, length |-> n, offset |-> at, body |-> body]
  BY DEF PushFrame
<1> HIDE DEF f, pad
<1>3. zeros \in Seq(Nat) /\ Len(zeros) = pad /\ \A i \in 1..pad : zeros[i] = 0
  BY <1>1
<1> HIDE DEF zeros
<1>4. /\ body \in Seq(Nat) /\ Len(body) = n + pad
      /\ \A i \in 1..n : body[i] = payload[i]
      /\ \A i \in n + 1..Len(body) : body[i] = 0
  BY <1>1, <1>3
<1>5. Code(type) \in DOMAIN MessageTypes /\ MessageTypes[Code(type)] = type
  BY DEF Code, ToSet
<1>6. SubSeq(body, 1, n) = payload
  <2> HIDE DEF body
  <2>1. 0 \in 0..Len(body) /\ n \in 0..Len(body)
    BY <1>1, <1>4
  <2>2. LET part == SubSeq(body, 0 + 1, n)
        IN  part \in Seq(Nat) /\ Len(part) = n - 0 /\ \A i \in 1..(n - 0) : part[i] = body[0 + i]
    BY <1>4, <2>1, PartIs
  <2> DEFINE part == SubSeq(body, 1, n)
  <2>3. part \in Seq(Nat) /\ Len(part) = n /\ \A i \in 1..n : part[i] = payload[i]
    BY <1>1, <1>4, <2>2
  <2> HIDE DEF part
  <2> QED
    BY <2>3 DEF part
<1> HIDE DEF body
<1>7. /\ f.flags = 0 /\ f.offset = at /\ f.length = n /\ f.body = body /\ f.code = Code(type)
      /\ f \in Frames
  BY <1>1, <1>2, <1>4, <1>5 DEF Frames
<1>8. TypeOf(f) = type /\ PayloadOf(f) = payload
  BY <1>5, <1>6, <1>7 DEF TypeOf, PayloadOf
<1>9. type \notin Arrays => n > 0 /\ body[n] # 0
  BY <1>1, <1>4
<1>10. n <= Len(body) /\ Len(body) < n + 4
  BY <1>1, <1>4
<1>11. Framed(f)
  BY <1>4, <1>7, <1>8, <1>9, <1>10 DEF Framed
<1> QED
  BY <1>7, <1>8, <1>11 DEF f

\* The frames of an array.
Chunked(m, type, bytes, stride) ==
  [i \in 1..Max({1, (Len(bytes) + stride - 1) \div stride}) |->
     PushFrame(m + i - 1, type, ChunkOf(bytes, stride, i - 1), (i - 1) * stride)]

LEMMA ChunksAre ==
  ASSUME NEW m \in Nat, NEW type \in Arrays, NEW bytes \in Seq(Nat), NEW target \in Nat
  PROVE  LET fs == Chunked(m, type, bytes, ChunkBytes(target))
         IN  /\ fs \in Seq(Frames) /\ Len(fs) \in Nat \ {0}
             /\ \A k \in 1..Len(fs) : /\ Framed(fs[k]) /\ fs[k].flags = 0
                                      /\ TypeOf(fs[k]) = type /\ IsChunk(fs[k], bytes, target)
             /\ \A j \in 1..Len(bytes) : \E k \in 1..Len(fs) :
                  fs[k].offset < j /\ j <= fs[k].offset + fs[k].length
<1> DEFINE s == ChunkBytes(target)
           n == Len(bytes)
           c == Max({1, (n + s - 1) \div s})
           fs == Chunked(m, type, bytes, s)
<1>1. /\ s \in Nat /\ s # 0 /\ s <= Max({target, ArrayRecord})
      /\ \A k \in Nat : (k * s) % ArrayRecord = 0
  BY ChunkBytesAre
<1> HIDE DEF s
<1>2. /\ n \in Nat /\ c \in Nat /\ c >= 1
      /\ \A k \in 1..c : (k - 1) * s \in Nat /\ (k - 1) * s <= n
      /\ \A i \in 1..n : \E k \in 1..c : (k - 1) * s < i /\ i <= k * s
  <2>1. n \in Nat
    OBVIOUS
  <2> HIDE DEF n, fs
  <2> QED
    BY <1>1, <2>1, ChunksCover
<1>3. fs = [i \in 1..c |-> PushFrame(m + i - 1, type, ChunkOf(bytes, s, i - 1), (i - 1) * s)]
  BY DEF Chunked
<1> HIDE DEF c, fs
<1>4. ASSUME NEW k \in 1..c
      PROVE  /\ Framed(fs[k]) /\ fs[k].flags = 0
             /\ TypeOf(fs[k]) = type /\ IsChunk(fs[k], bytes, target)
             /\ fs[k].offset = (k - 1) * s
             /\ \A j \in 1..n : (k - 1) * s < j /\ j <= k * s => j <= fs[k].offset + fs[k].length
  <2> DEFINE a == (k - 1) * s
             b == Min({((k - 1) + 1) * s, n})
             chunk == ChunkOf(bytes, s, k - 1)
  <2>1. a \in 0..n /\ k * s = a + s /\ ((k - 1) + 1) * s = a + s
    BY <1>1, <1>2
  <2> HIDE DEF a
  <2>2. b = IF a + s <= n THEN a + s ELSE n
    <3> DEFINE S == {a + s, n}
               x == CHOOSE z \in S : \A y \in S : z <= y
    <3>1. \E z \in S : \A y \in S : z <= y
      BY <1>1, <1>2, <2>1
    <3>2. x \in S /\ \A y \in S : x <= y
      <4> HIDE DEF S
      <4> QED
        BY <3>1
    <3>3. b = x
      BY <2>1 DEF Min
    <3> HIDE DEF x, b
    <3> QED
      BY <1>1, <1>2, <2>1, <3>2, <3>3
  <2>3. chunk = SubSeq(bytes, a + 1, b)
    BY DEF ChunkOf, a
  <2> HIDE DEF b, chunk
  <2>4. b \in a..n /\ b - a <= s /\ b - a \in Nat
    BY <1>1, <1>2, <2>1, <2>2
  <2>5. /\ chunk \in Seq(Nat) /\ Len(chunk) = b - a
        /\ \A i \in 1..(b - a) : chunk[i] = bytes[a + i]
    BY <2>1, <2>3, <2>4, PartIs
  <2>6. fs[k] = PushFrame(m + k - 1, type, chunk, a)
    BY <1>3 DEF chunk, a
  <2>7. m + k - 1 \in Nat /\ a \in Nat /\ type \in ToSet(MessageTypes)
    BY <1>2, <2>1, TypesAre
  <2>8. /\ Framed(fs[k]) /\ fs[k].flags = 0
        /\ TypeOf(fs[k]) = type /\ PayloadOf(fs[k]) = chunk /\ fs[k].offset = a /\ fs[k].length = Len(chunk)
    BY <2>5, <2>6, <2>7, PushFrameIs
  <2>9. a % ArrayRecord = 0
    <3>1. k - 1 \in Nat
      BY <1>2
    <3>2. ((k - 1) * s) % ArrayRecord = 0
      BY <1>1, <3>1
    <3> QED
      BY <3>2 DEF a
  <2>10. b - a <= Max({target, ArrayRecord})
    <3>1. Max({target, ArrayRecord}) \in Nat
      <4> DEFINE x == CHOOSE z \in {target, ArrayRecord} : \A y \in {target, ArrayRecord} : z >= y
      <4>1. ArrayRecord \in Nat
        BY WireAssumption
      <4>2. \E z \in {target, ArrayRecord} : \A y \in {target, ArrayRecord} : z >= y
        BY <4>1
      <4>3. x \in {target, ArrayRecord}
        BY <4>2
      <4>4. Max({target, ArrayRecord}) = x
        BY DEF Max
      <4> HIDE DEF x
      <4> QED
        BY <4>1, <4>3, <4>4
    <3> QED
      BY <1>1, <2>4, <3>1
  <2>11. IsChunk(fs[k], bytes, target)
    BY <2>1, <2>4, <2>5, <2>8, <2>9, <2>10 DEF IsChunk
  <2>12. \A j \in 1..n : a < j /\ j <= k * s => j <= fs[k].offset + fs[k].length
    BY <1>1, <1>2, <2>1, <2>2, <2>4, <2>5, <2>8
  <2> QED
    BY <2>8, <2>11, <2>12 DEF a
<1>5. fs \in Seq(Frames) /\ Len(fs) = c
  <2>1. \A k \in 1..c : fs[k] \in Frames
    BY <1>4 DEF Framed
  <2>2. fs = [k \in 1..c |-> fs[k]]
    BY <1>3
  <2> QED
    BY <1>2, <2>1, <2>2
<1>6. ASSUME NEW j \in 1..n PROVE \E k \in 1..c : fs[k].offset < j /\ j <= fs[k].offset + fs[k].length
  <2>1. PICK k \in 1..c : (k - 1) * s < j /\ j <= k * s
    BY <1>2
  <2> QED
    BY <1>4, <2>1
<1>7. /\ fs \in Seq(Frames) /\ Len(fs) \in Nat \ {0}
      /\ \A k \in 1..Len(fs) : /\ Framed(fs[k]) /\ fs[k].flags = 0
                               /\ TypeOf(fs[k]) = type /\ IsChunk(fs[k], bytes, target)
      /\ \A j \in 1..Len(bytes) : \E k \in 1..Len(fs) :
           fs[k].offset < j /\ j <= fs[k].offset + fs[k].length
  BY <1>2, <1>4, <1>5, <1>6
<1> QED
  BY <1>7 DEF fs, s

LEMMA FloatBytesAre ==
  ASSUME NEW values \in Seq(Nat)
  PROVE  FloatBytes(values) \in Seq(Nat)
<1> DEFINE seqs == [i \in DOMAIN values |-> [b \in 1..4 |-> 4 * values[i] + b - 1]]
<1>1. Len(values) \in Nat /\ DOMAIN values = 1..Len(values)
  OBVIOUS
<1>2. \A i \in 1..Len(values) : [b \in 1..4 |-> 4 * values[i] + b - 1] \in Seq(Nat)
  <2> SUFFICES ASSUME NEW i \in 1..Len(values) PROVE [b \in 1..4 |-> 4 * values[i] + b - 1] \in Seq(Nat)
    OBVIOUS
  <2>1. \A b \in 1..4 : 4 * values[i] + b - 1 \in Nat
    OBVIOUS
  <2> QED
    BY <2>1
<1>3. seqs \in SeqsOf(Nat)
  <2>1. seqs \in [1..Len(values) -> Seq(Nat)]
    BY <1>1, <1>2
  <2> HIDE DEF seqs
  <2> QED
    BY <1>1, <2>1, SeqsAre
<1> HIDE DEF seqs
<1>4. FlattenSeq(seqs) \in Seq(Nat)
  BY <1>3, FlattenHas
<1> QED
  BY <1>4 DEF FloatBytes, seqs

\* A frame of a response.
IsOf(f, r, target) ==
  /\ Framed(f)
  /\ \/ TypeOf(f) = r.type /\ PayloadOf(f) = Metadata(r)
     \/ TypeOf(f) = "Compaction" /\ PayloadOf(f) = r.compaction /\ r.compaction # <<>>
     \/ TypeOf(f) = "Points" /\ HasPoints(r.type) /\ IsChunk(f, FloatBytes(r.points), target)
     \/ TypeOf(f) = "Links" /\ HasLinks(r.type) /\ IsChunk(f, FloatBytes(r.links), target)

\* The frames F have every byte of an array, and all that a response has.
Reach(F, type, bytes) ==
  \A j \in 1..Len(bytes) : \E f \in F : TypeOf(f) = type /\ f.offset < j /\ j <= f.offset + f.length
AreAll(F, r) ==
  /\ \E f \in F : TypeOf(f) = r.type
  /\ r.compaction # <<>> => \E f \in F : TypeOf(f) = "Compaction"
  /\ HasPoints(r.type) => Reach(F, "Points", FloatBytes(r.points))
  /\ HasLinks(r.type) => Reach(F, "Links", FloatBytes(r.links))

\* Frames that are on their way into a response.
Pushed(fs, r, target) ==
  /\ fs \in Seq(Frames) /\ Len(fs) \in Nat \ {0}
  /\ \A k \in 1..Len(fs) : IsOf(fs[k], r, target) /\ fs[k].flags = 0

LEMMA SetOf ==
  ASSUME NEW S, NEW s \in Seq(S)
  PROVE  ToSet(s) = {s[i] : i \in 1..Len(s)} /\ ToSet(s) \subseteq S /\ Len(s) \in Nat
  BY DEF ToSet

LEMMA JoinedSet ==
  ASSUME NEW S, NEW s \in Seq(S), NEW t \in Seq(S)
  PROVE  ToSet(s \o t) = ToSet(s) \cup ToSet(t)
<1> DEFINE u == s \o t
           m == Len(s)
           n == Len(t)
<1>1. m \in Nat /\ n \in Nat
  OBVIOUS
<1>2. u \in Seq(S) /\ Len(u) = m + n
  OBVIOUS
<1>3. \A i \in 1..m : u[i] = s[i]
  OBVIOUS
<1>4. \A i \in 1..n : u[m + i] = t[i]
  OBVIOUS
<1> HIDE DEF u
<1>5. ToSet(u) = {u[i] : i \in 1..(m + n)}
  BY <1>2, SetOf
<1>6. ToSet(s) = {s[i] : i \in 1..m} /\ ToSet(t) = {t[i] : i \in 1..n}
  BY SetOf
<1> HIDE DEF m, n
<1>7. \A i \in 1..m : i \in 1..(m + n)
  BY <1>1
<1>8. \A i \in 1..n : m + i \in 1..(m + n)
  BY <1>1
<1>9. ASSUME NEW i \in 1..(m + n) PROVE u[i] \in ToSet(s) \cup ToSet(t)
  <2>1. CASE i <= m
    BY <1>1, <1>3, <1>6, <2>1
  <2>2. CASE i > m
    <3>1. i - m \in 1..n /\ m + (i - m) = i
      BY <1>1, <2>2
    <3> QED
      BY <1>4, <1>6, <3>1
  <2> QED
    BY <1>1, <2>1, <2>2
<1>10. ToSet(u) \subseteq ToSet(s) \cup ToSet(t)
  BY <1>5, <1>9
<1>11. ToSet(s) \subseteq ToSet(u)
  BY <1>3, <1>5, <1>6, <1>7
<1>12. ToSet(t) \subseteq ToSet(u)
  BY <1>4, <1>5, <1>6, <1>8
<1> QED
  BY <1>10, <1>11, <1>12 DEF u

LEMMA PushedJoin ==
  ASSUME NEW r, NEW target, NEW fs, Pushed(fs, r, target), NEW gs, Pushed(gs, r, target)
  PROVE  Pushed(fs \o gs, r, target) /\ ToSet(fs \o gs) = ToSet(fs) \cup ToSet(gs)
<1> DEFINE Good == {f \in Frames : IsOf(f, r, target) /\ f.flags = 0}
<1>1. \A hs : Pushed(hs, r, target) <=> hs \in Seq(Good) /\ Len(hs) # 0
  <2> SUFFICES ASSUME NEW hs PROVE Pushed(hs, r, target) <=> hs \in Seq(Good) /\ Len(hs) # 0
    OBVIOUS
  <2>1. ASSUME Pushed(hs, r, target) PROVE hs \in Seq(Good) /\ Len(hs) # 0
    <3>1. hs \in Seq(Frames) /\ Len(hs) # 0 /\ \A k \in 1..Len(hs) : hs[k] \in Good
      BY <2>1 DEF Pushed
    <3> HIDE DEF Good
    <3> QED
      BY <3>1
  <2>2. ASSUME hs \in Seq(Good), Len(hs) # 0 PROVE Pushed(hs, r, target)
    <3>1. \A k \in 1..Len(hs) : hs[k] \in Good
      BY <2>2
    <3>2. Good \subseteq Frames
      OBVIOUS
    <3>3. hs \in Seq(Frames) /\ Len(hs) \in Nat \ {0}
      <4> HIDE DEF Good
      <4> QED
        BY <2>2, <3>2
    <3> QED
      BY <3>1, <3>3 DEF Pushed
  <2> QED
    BY <2>1, <2>2
<1> HIDE DEF Good
<1>2. fs \in Seq(Good) /\ gs \in Seq(Good) /\ Len(fs) # 0
  BY <1>1
<1>3. fs \o gs \in Seq(Good) /\ Len(fs \o gs) # 0
  BY <1>2
<1> QED
  BY <1>1, <1>2, <1>3, JoinedSet, ZenonT(40)

\* One frame of a text.
LEMMA TextPushed ==
  ASSUME NEW r \in Response, NEW target \in Nat, NEW seq \in Nat, NEW type, NEW text \in JsonBytes, text # <<>>,
         \/ type = r.type /\ text = Metadata(r)
         \/ type = "Compaction" /\ text = r.compaction
  PROVE  LET f == PushFrame(seq, type, text, 0)
         IN  Pushed(<<f>>, r, target) /\ TypeOf(f) = type
<1> DEFINE f == PushFrame(seq, type, text, 0)
<1>1. type \in ToSet(MessageTypes) /\ type \notin Arrays
  <2>1. r.type \in ToSet(Precedence)
    BY DEF Response
  <2>2. "Compaction" \notin Arrays
    BY DEF Arrays
  <2> QED
    BY <2>1, <2>2, TypesAre
<1>2. text \in Seq(Nat) /\ text[Len(text)] # 0
  <2>1. text \in Seq(Nat \ {0})
    BY DEF JsonBytes
  <2>2. text \in Seq(Nat)
    BY <2>1
  <2>3. Len(text) \in 1..Len(text)
    BY <2>2
  <2>4. text[Len(text)] \in Nat \ {0}
    BY <2>1, <2>3
  <2> QED
    BY <2>2, <2>4
<1>3. Framed(f) /\ f.flags = 0 /\ TypeOf(f) = type /\ PayloadOf(f) = text
  <2>1. 0 \in Nat
    OBVIOUS
  <2> QED
    BY <1>1, <1>2, <2>1, PushFrameIs
<1> HIDE DEF f
<1>4. IsOf(f, r, target)
  BY <1>3 DEF IsOf
<1>5. f \in Frames
  BY <1>3 DEF Framed
<1>6. <<f>> \in Seq(Frames) /\ Len(<<f>>) = 1 /\ \A k \in 1..1 : <<f>>[k] = f
  BY <1>5
<1> QED
  BY <1>3, <1>4, <1>6 DEF Pushed, f

\* The frames of an array.
LEMMA ArrayPushed ==
  ASSUME NEW r \in Response, NEW target \in Nat, NEW m \in Nat, NEW type \in Arrays, NEW values \in Seq(Nat),
         \/ type = "Points" /\ HasPoints(r.type) /\ values = r.points
         \/ type = "Links" /\ HasLinks(r.type) /\ values = r.links
  PROVE  LET fs == Chunked(m, type, FloatBytes(values), ChunkBytes(target))
         IN  Pushed(fs, r, target) /\ Reach(ToSet(fs), type, FloatBytes(values))
<1> DEFINE bytes == FloatBytes(values)
           fs == Chunked(m, type, bytes, ChunkBytes(target))
<1>1. bytes \in Seq(Nat)
  BY FloatBytesAre
<1>2. /\ fs \in Seq(Frames) /\ Len(fs) \in Nat \ {0}
      /\ \A k \in 1..Len(fs) : /\ Framed(fs[k]) /\ fs[k].flags = 0
                               /\ TypeOf(fs[k]) = type /\ IsChunk(fs[k], bytes, target)
      /\ \A j \in 1..Len(bytes) : \E k \in 1..Len(fs) :
           fs[k].offset < j /\ j <= fs[k].offset + fs[k].length
  <2> HIDE DEF bytes
  <2> QED
    BY <1>1, ChunksAre
<1> HIDE DEF fs
<1>3. ToSet(fs) = {fs[k] : k \in 1..Len(fs)}
  BY <1>2 DEF ToSet
<1>4. Reach(ToSet(fs), type, bytes)
  <2> HIDE DEF bytes
  <2> QED
    BY <1>2, <1>3 DEF Reach
<1>5. \A k \in 1..Len(fs) : IsOf(fs[k], r, target)
  BY <1>2 DEF IsOf
<1> QED
  BY <1>2, <1>4, <1>5 DEF Pushed, fs

\* The last frame is told from the others, and is otherwise as it was.
LEMMA FlagIs ==
  ASSUME NEW f, Framed(f), NEW r, NEW target, IsOf(f, r, target)
  PROVE  LET g == [f EXCEPT !.flags = Terminal]
         IN  /\ IsOf(g, r, target) /\ g.flags = Terminal /\ g \in Frames
             /\ TypeOf(g) = TypeOf(f) /\ g.offset = f.offset /\ g.length = f.length
<1> DEFINE g == [f EXCEPT !.flags = Terminal]
<1>1. f \in Frames
  BY DEF Framed
<1>2. /\ g \in Frames /\ g.flags = Terminal
      /\ g.code = f.code /\ g.body = f.body /\ g.offset = f.offset /\ g.length = f.length
  BY <1>1 DEF Frames, Terminal
<1> HIDE DEF g
<1>3. TypeOf(g) = TypeOf(f) /\ PayloadOf(g) = PayloadOf(f)
  BY <1>2 DEF TypeOf, PayloadOf
<1>4. Framed(g)
  BY <1>2, <1>3 DEF Framed
<1>5. \A bytes : IsChunk(g, bytes, target) <=> IsChunk(f, bytes, target)
  BY <1>2, <1>3 DEF IsChunk
<1>6. IsOf(g, r, target)
  BY <1>3, <1>4, <1>5 DEF IsOf
<1> QED
  BY <1>2, <1>3, <1>6 DEF g

\* What is in more frames is all the same.
LEMMA AllOfMore ==
  ASSUME NEW F, NEW G, NEW r, AreAll(F, r),
         \A f \in F : \E g \in G : TypeOf(g) = TypeOf(f) /\ g.offset = f.offset /\ g.length = f.length
  PROVE  AreAll(G, r)
<1>1. ASSUME NEW type, NEW bytes, Reach(F, type, bytes) PROVE Reach(G, type, bytes)
  <2> SUFFICES ASSUME NEW j \in 1..Len(bytes)
               PROVE  \E g \in G : TypeOf(g) = type /\ g.offset < j /\ j <= g.offset + g.length
    BY DEF Reach
  <2>1. PICK f \in F : TypeOf(f) = type /\ f.offset < j /\ j <= f.offset + f.length
    BY <1>1 DEF Reach
  <2>2. PICK g \in G : TypeOf(g) = TypeOf(f) /\ g.offset = f.offset /\ g.length = f.length
    OBVIOUS
  <2> QED
    BY <2>1, <2>2
<1> QED
  BY <1>1 DEF AreAll

\* The frames of a response.
LEMMA FramesAre ==
  ASSUME NEW r \in Response, NEW target \in Nat
  PROVE  LET fs == ResponseFrames(r, target)
         IN  /\ fs \in Seq(Frames) /\ Len(fs) \in Nat \ {0}
             /\ \A k \in 1..Len(fs) : /\ IsOf(fs[k], r, target)
                                      /\ fs[k].flags = IF k = Len(fs) THEN Terminal ELSE 0
             /\ AreAll(ToSet(fs), r)
<1> DEFINE first == PushFrame(0, r.type, Metadata(r), 0)
           second(n) == PushFrame(n, "Compaction", r.compaction, 0)
           meta == <<first>>
           compacted == IF r.compaction # <<>> THEN Append(meta, second(Len(meta))) ELSE meta
           points(n) == Chunked(n, "Points", FloatBytes(r.points), ChunkBytes(target))
           placed == IF HasPoints(r.type) THEN compacted \o points(Len(compacted)) ELSE compacted
           links(n) == Chunked(n, "Links", FloatBytes(r.links), ChunkBytes(target))
           all == IF HasLinks(r.type) THEN placed \o links(Len(placed)) ELSE placed
<1>1. ResponseFrames(r, target) = Finish(all)
  <2>1. PushJson(<<>>, r.type, Metadata(r)) = meta
    <3>1. Len(<<>>) = 0 /\ \A x : Append(<<>>, x) = <<x>>
      OBVIOUS
    <3> QED
      BY <3>1 DEF PushJson
  <2> HIDE DEF meta
  <2> QED
    BY <2>1 DEF ResponseFrames, PushJson, PushFloats, PushChunks, Chunked
<1>2. Pushed(meta, r, target) /\ TypeOf(first) = r.type
  <2>1. Metadata(r) \in JsonBytes /\ Metadata(r) # <<>>
    <3>1. r.json \in Seq(Nat \ {0}) /\ r.json # <<>> /\ r.request \in Seq(Nat \ {0})
      BY DEF Response, JsonBytes
    <3>2. r.json \o r.request \in Seq(Nat \ {0}) /\ r.json \o r.request # <<>>
      BY <3>1
    <3> QED
      BY <3>1, <3>2 DEF Metadata, JsonBytes
  <2>2. 0 \in Nat
    OBVIOUS
  <2> HIDE DEF first
  <2> QED
    BY <2>1, <2>2, TextPushed DEF first
<1> HIDE DEF first
<1>3. first \in ToSet(meta)
  BY DEF ToSet
<1> HIDE DEF meta
<1>4. /\ Pushed(compacted, r, target) /\ first \in ToSet(compacted)
      /\ r.compaction # <<>> => \E f \in ToSet(compacted) : TypeOf(f) = "Compaction"
  <2>1. CASE r.compaction = <<>>
    BY <1>2, <1>3, <2>1
  <2>2. CASE r.compaction # <<>>
    <3> DEFINE f == second(Len(meta))
    <3>1. Len(meta) \in Nat /\ r.compaction \in JsonBytes /\ meta \in Seq(Frames)
      BY <1>2 DEF Pushed, Response
    <3>2. Pushed(<<f>>, r, target) /\ TypeOf(f) = "Compaction"
      BY <2>2, <3>1, TextPushed
    <3> HIDE DEF f
    <3>3. compacted = Append(meta, f)
      BY <2>2 DEF f
    <3>4. Append(meta, f) = meta \o <<f>>
      BY <3>1
    <3> HIDE DEF compacted
    <3>5. Pushed(compacted, r, target) /\ ToSet(compacted) = ToSet(meta) \cup ToSet(<<f>>)
      BY <1>2, <3>2, <3>3, <3>4, PushedJoin
    <3>6. f \in ToSet(<<f>>)
      BY DEF ToSet
    <3> QED
      BY <1>3, <3>2, <3>5, <3>6
  <2> QED
    BY <2>1, <2>2
<1> HIDE DEF compacted
<1>5. /\ r.points \in Seq(Nat) /\ r.links \in Seq(Nat) /\ "Points" \in Arrays /\ "Links" \in Arrays
  BY DEF Response, Arrays
<1>6. /\ Pushed(placed, r, target) /\ ToSet(compacted) \subseteq ToSet(placed)
      /\ HasPoints(r.type) => Reach(ToSet(placed), "Points", FloatBytes(r.points))
  <2>1. CASE HasPoints(r.type)
    <3> DEFINE gs == points(Len(compacted))
    <3>1. Len(compacted) \in Nat
      BY <1>4 DEF Pushed
    <3>2. Pushed(gs, r, target) /\ Reach(ToSet(gs), "Points", FloatBytes(r.points))
      BY <1>5, <2>1, <3>1, ArrayPushed
    <3> HIDE DEF gs
    <3>3. placed = compacted \o gs
      BY <2>1 DEF gs
    <3> HIDE DEF placed
    <3>4. Pushed(placed, r, target) /\ ToSet(placed) = ToSet(compacted) \cup ToSet(gs)
      BY <1>4, <3>2, <3>3, PushedJoin
    <3>5. Reach(ToSet(placed), "Points", FloatBytes(r.points))
      BY <3>2, <3>4 DEF Reach
    <3> QED
      BY <3>4, <3>5
  <2>2. CASE ~HasPoints(r.type)
    BY <1>4, <2>2
  <2> QED
    BY <2>1, <2>2
<1> HIDE DEF placed
<1>7. /\ Pushed(all, r, target) /\ ToSet(placed) \subseteq ToSet(all)
      /\ HasLinks(r.type) => Reach(ToSet(all), "Links", FloatBytes(r.links))
  <2>1. CASE HasLinks(r.type)
    <3> DEFINE gs == links(Len(placed))
    <3>1. Len(placed) \in Nat
      BY <1>6 DEF Pushed
    <3>2. Pushed(gs, r, target) /\ Reach(ToSet(gs), "Links", FloatBytes(r.links))
      BY <1>5, <2>1, <3>1, ArrayPushed
    <3> HIDE DEF gs
    <3>3. all = placed \o gs
      BY <2>1 DEF gs
    <3> HIDE DEF all
    <3>4. Pushed(all, r, target) /\ ToSet(all) = ToSet(placed) \cup ToSet(gs)
      BY <1>6, <3>2, <3>3, PushedJoin
    <3>5. Reach(ToSet(all), "Links", FloatBytes(r.links))
      BY <3>2, <3>4 DEF Reach
    <3> QED
      BY <3>4, <3>5
  <2>2. CASE ~HasLinks(r.type)
    BY <1>6, <2>2
  <2> QED
    BY <2>1, <2>2
<1> HIDE DEF all
<1>8. AreAll(ToSet(all), r)
  <2>1. HasPoints(r.type) => Reach(ToSet(all), "Points", FloatBytes(r.points))
    BY <1>6, <1>7 DEF Reach
  <2> QED
    BY <1>2, <1>4, <1>6, <1>7, <2>1 DEF AreAll
<1> DEFINE n == Len(all)
           fs == Finish(all)
<1>9. /\ all \in Seq(Frames) /\ n \in Nat \ {0}
      /\ \A k \in 1..n : IsOf(all[k], r, target) /\ all[k].flags = 0 /\ Framed(all[k])
  BY <1>7 DEF Pushed, IsOf
<1>10. fs = [all EXCEPT ![n].flags = Terminal]
  BY <1>9 DEF Finish
<1> DEFINE last == [all[n] EXCEPT !.flags = Terminal]
<1>11. /\ IsOf(last, r, target) /\ last.flags = Terminal /\ last \in Frames
       /\ TypeOf(last) = TypeOf(all[n]) /\ last.offset = all[n].offset /\ last.length = all[n].length
  <2>1. n \in 1..n
    BY <1>9
  <2> HIDE DEF n
  <2> QED
    BY <1>9, <2>1, FlagIs
<1> HIDE DEF fs
<1>12. fs = [all EXCEPT ![n] = last]
  BY <1>9, <1>10
<1> HIDE DEF last
<1>13. /\ fs \in Seq(Frames) /\ Len(fs) = n
       /\ \A k \in 1..n : fs[k] = IF k = n THEN last ELSE all[k]
  BY <1>9, <1>11, <1>12
<1>14. \A k \in 1..n : IsOf(fs[k], r, target) /\ fs[k].flags = IF k = n THEN Terminal ELSE 0
  BY <1>9, <1>11, <1>13
<1>15. AreAll(ToSet(fs), r)
  <2>1. ToSet(fs) = {fs[k] : k \in 1..n} /\ ToSet(all) = {all[k] : k \in 1..n}
    BY <1>9, <1>13, SetOf
  <2>2. \A f \in ToSet(all) : \E g \in ToSet(fs) : TypeOf(g) = TypeOf(f) /\ g.offset = f.offset /\ g.length = f.length
    BY <1>11, <1>13, <2>1
  <2> QED
    BY <1>8, <2>2, AllOfMore
<1> QED
  BY <1>1, <1>9, <1>13, <1>14, <1>15 DEF fs

\* What an assembler holds of the frames F that it heard.
Holds(a, F) ==
  /\ DOMAIN a.said = {TypeOf(f) : f \in {f \in F : TypeOf(f) \notin Arrays}}
  /\ \A f \in F : TypeOf(f) \notin Arrays => a.said[TypeOf(f)] = PayloadOf(f)
  /\ DOMAIN a.chunks = Arrays
  /\ \A type \in Arrays :
       /\ a.chunks[type] \in Seq([at : Nat, bytes : Seq(Nat)])
       /\ ToSet(a.chunks[type]) = {[at |-> f.offset, bytes |-> PayloadOf(f)] : f \in {f \in F : TypeOf(f) = type}}

LEMMA NewHolds == Holds(NewAssembler, {})
<1>1. NewAssembler.said = [t \in {} |-> <<>>] /\ NewAssembler.chunks = [t \in Arrays |-> <<>>]
  BY DEF NewAssembler, Arrays
<1>2. DOMAIN NewAssembler.said = {} /\ DOMAIN NewAssembler.chunks = Arrays
  BY <1>1
<1>3. \A t \in Arrays : NewAssembler.chunks[t] = <<>>
  BY <1>1
<1>4. \A S : <<>> \in Seq(S)
  OBVIOUS
<1>5. ToSet(<<>>) = {}
  BY DEF ToSet
<1> QED
  BY <1>2, <1>3, <1>4, <1>5 DEF Holds

\* What a text says is the same whenever it is said.
Agree(F) == \A f, g \in F : TypeOf(f) \notin Arrays /\ TypeOf(f) = TypeOf(g) => PayloadOf(f) = PayloadOf(g)

LEMMA AppendedSet ==
  ASSUME NEW S, NEW s \in Seq(S), NEW x \in S
  PROVE  Append(s, x) \in Seq(S) /\ ToSet(Append(s, x)) = ToSet(s) \cup {x}
<1>1. Append(s, x) = s \o <<x>> /\ <<x>> \in Seq(S) /\ Append(s, x) \in Seq(S)
  OBVIOUS
<1>2. ToSet(<<x>>) = {x}
  BY DEF ToSet
<1> DEFINE t == <<x>>
<1>3. t \in Seq(S) /\ ToSet(t) = {x} /\ Append(s, x) = s \o t
  BY <1>1, <1>2
<1> HIDE DEF t
<1>4. ToSet(s \o t) = ToSet(s) \cup ToSet(t)
  BY <1>3, JoinedSet
<1>5. ToSet(Append(s, x)) = ToSet(s) \cup {x}
  BY <1>3, <1>4
<1> QED
  BY <1>1, <1>5

LEMMA PayloadIs ==
  ASSUME NEW f, Framed(f)
  PROVE  PayloadOf(f) \in Seq(Nat) /\ Len(PayloadOf(f)) = f.length /\ f.offset \in Nat /\ f.length \in Nat
<1>1. f.body \in Seq(Nat) /\ f.length \in Nat /\ f.offset \in Nat /\ f.length <= Len(f.body)
  BY DEF Framed, Frames
<1>2. 0 \in 0..Len(f.body) /\ f.length \in 0..Len(f.body)
  BY <1>1
<1>3. SubSeq(f.body, 0 + 1, f.length) \in Seq(Nat) /\ Len(SubSeq(f.body, 0 + 1, f.length)) = f.length - 0
  BY <1>1, <1>2, PartIs
<1> QED
  BY <1>1, <1>3 DEF PayloadOf

\* One more frame.
LEMMA AssembleHolds ==
  ASSUME NEW a, NEW F, Holds(a, F), NEW f, Framed(f), Agree(F \cup {f})
  PROVE  Holds(Assemble(a, f), F \cup {f})
<1> DEFINE type == TypeOf(f)
           payload == PayloadOf(f)
           G == F \cup {f}
           b == Assemble(a, f)
           Chunk == [at : Nat, bytes : Seq(Nat)]
<1>1. b = IF type \in Arrays THEN PushChunk(a, type, f)
          ELSE [a EXCEPT !.said = [t \in DOMAIN a.said \cup {type} |-> IF t = type THEN payload ELSE a.said[t]]]
  BY DEF Assemble, TypeOf, PayloadOf, Arrays
<1>0. payload \in Seq(Nat) /\ f.offset \in Nat
  BY PayloadIs
<1>2. CASE type \in Arrays
  <2> DEFINE chunk == [at |-> f.offset, bytes |-> payload]
  <2>1. b = [a EXCEPT !.chunks[type] = Append(a.chunks[type], chunk)]
    BY <1>1, <1>2 DEF PushChunk, PayloadOf
  <2>8. chunk \in Chunk
    BY <1>0
  <2> HIDE DEF chunk, b
  <2>2. b.said = a.said /\ b.chunks = [a.chunks EXCEPT ![type] = Append(a.chunks[type], chunk)]
    BY <2>1
  <2>3. DOMAIN b.chunks = Arrays /\ \A t \in Arrays : b.chunks[t] = IF t = type THEN Append(a.chunks[type], chunk) ELSE a.chunks[t]
    BY <1>2, <2>2 DEF Holds
  <2>4. {g \in G : TypeOf(g) \notin Arrays} = {g \in F : TypeOf(g) \notin Arrays}
    BY <1>2
  <2>5. ASSUME NEW t \in Arrays
        PROVE  /\ b.chunks[t] \in Seq(Chunk)
               /\ ToSet(b.chunks[t]) = {[at |-> g.offset, bytes |-> PayloadOf(g)] : g \in {g \in G : TypeOf(g) = t}}
    <3>1. /\ a.chunks[t] \in Seq(Chunk)
          /\ ToSet(a.chunks[t]) = {[at |-> g.offset, bytes |-> PayloadOf(g)] : g \in {g \in F : TypeOf(g) = t}}
      BY DEF Holds
    <3>2. CASE t = type
      <4>1. {g \in G : TypeOf(g) = t} = {g \in F : TypeOf(g) = t} \cup {f}
        BY <3>2
      <4>2. b.chunks[t] = Append(a.chunks[t], chunk)
        BY <2>3, <3>2
      <4>3. b.chunks[t] \in Seq(Chunk) /\ ToSet(b.chunks[t]) = ToSet(a.chunks[t]) \cup {chunk}
        <5> HIDE DEF Chunk
        <5> QED
          BY <2>8, <3>1, <4>2, AppendedSet
      <4>4. {[at |-> g.offset, bytes |-> PayloadOf(g)] : g \in {g \in G : TypeOf(g) = t}}
              = {[at |-> g.offset, bytes |-> PayloadOf(g)] : g \in {g \in F : TypeOf(g) = t}} \cup {chunk}
        <5> HIDE DEF G
        <5> QED
          BY <4>1 DEF chunk
      <4> QED
        BY <3>1, <4>3, <4>4
    <3>3. CASE t # type
      <4>1. {g \in G : TypeOf(g) = t} = {g \in F : TypeOf(g) = t}
        BY <3>3
      <4>2. b.chunks[t] = a.chunks[t]
        BY <2>3, <3>3
      <4> QED
        BY <3>1, <4>1, <4>2
    <3> QED
      BY <3>2, <3>3
  <2>6. DOMAIN b.said = {TypeOf(g) : g \in {g \in G : TypeOf(g) \notin Arrays}}
    BY <2>2, <2>4 DEF Holds
  <2>7. \A g \in G : TypeOf(g) \notin Arrays => b.said[TypeOf(g)] = PayloadOf(g)
    BY <1>2, <2>2 DEF Holds
  <2> HIDE DEF G
  <2> QED
    BY <2>3, <2>5, <2>6, <2>7 DEF Holds, G, b
<1>3. CASE type \notin Arrays
  <2> DEFINE said == [t \in DOMAIN a.said \cup {type} |-> IF t = type THEN payload ELSE a.said[t]]
  <2>1. b = [a EXCEPT !.said = said]
    BY <1>1, <1>3
  <2>2. DOMAIN said = DOMAIN a.said \cup {type} /\ said[type] = payload /\ \A t \in DOMAIN a.said : t # type => said[t] = a.said[t]
    OBVIOUS
  <2> HIDE DEF b, said
  <2>3. b.said = said /\ b.chunks = a.chunks
    BY <2>1
  <2>4. {g \in G : TypeOf(g) \notin Arrays} = {g \in F : TypeOf(g) \notin Arrays} \cup {f}
    BY <1>3
  <2>5. DOMAIN b.said = {TypeOf(g) : g \in {g \in G : TypeOf(g) \notin Arrays}}
    <3> HIDE DEF G
    <3> QED
      BY <2>2, <2>3, <2>4 DEF Holds
  <2>6. ASSUME NEW g \in G, TypeOf(g) \notin Arrays PROVE b.said[TypeOf(g)] = PayloadOf(g)
    <3>1. CASE TypeOf(g) = type
      <4>1. PayloadOf(g) = payload
        BY <2>6, <3>1 DEF Agree
      <4> QED
        BY <2>2, <2>3, <3>1, <4>1
    <3>2. CASE TypeOf(g) # type
      <4>1. g \in F
        BY <3>2
      <4>2. TypeOf(g) \in DOMAIN a.said /\ a.said[TypeOf(g)] = PayloadOf(g)
        BY <2>6, <4>1 DEF Holds
      <4> QED
        BY <2>2, <2>3, <3>2, <4>2
    <3> QED
      BY <3>1, <3>2
  <2>7. \A t \in Arrays : {g \in G : TypeOf(g) = t} = {g \in F : TypeOf(g) = t}
    BY <1>3
  <2>8. \A t \in Arrays : /\ b.chunks[t] \in Seq(Chunk)
                          /\ ToSet(b.chunks[t]) = {[at |-> g.offset, bytes |-> PayloadOf(g)] : g \in {g \in G : TypeOf(g) = t}}
    <3> HIDE DEF G
    <3> QED
      BY <2>3, <2>7 DEF Holds
  <2>9. DOMAIN b.chunks = Arrays
    BY <2>3 DEF Holds
  <2> HIDE DEF G
  <2> QED
    BY <2>5, <2>6, <2>8, <2>9 DEF Holds, G, b
<1> QED
  BY <1>2, <1>3

\* The bytes of all the chunks, whatever their order and however often each comes.
LEMMA JoinFloatsIs ==
  ASSUME NEW bytes \in Seq(Nat), NEW chunks \in Seq([at : Nat, bytes : Seq(Nat)]),
         \A c \in ToSet(chunks) : /\ c.at + Len(c.bytes) <= Len(bytes)
                                  /\ \A j \in 1..Len(c.bytes) : c.bytes[j] = bytes[c.at + j],
         \A i \in 1..Len(bytes) : \E c \in ToSet(chunks) : c.at < i /\ i <= c.at + Len(c.bytes)
  PROVE  JoinFloats(chunks) = bytes
<1> DEFINE n == Len(bytes)
           m == Len(chunks)
           End(k) == chunks[k].at + Len(chunks[k].bytes)
           Over(i) == {k \in DOMAIN chunks : i \in chunks[k].at + 1..End(k)}
           E == {0} \cup {End(k) : k \in DOMAIN chunks}
           Chunk == [at : Nat, bytes : Seq(Nat)]
<1>1. n \in Nat /\ m \in Nat /\ DOMAIN chunks = 1..m
  OBVIOUS
<1>2. ASSUME NEW k \in 1..m
      PROVE  /\ chunks[k].at \in Nat /\ Len(chunks[k].bytes) \in Nat /\ End(k) \in 0..n
             /\ \A j \in 1..Len(chunks[k].bytes) : chunks[k].bytes[j] = bytes[chunks[k].at + j]
  <2>0. chunks[k] \in Chunk
    <3> HIDE DEF Chunk
    <3>1. chunks \in Seq(Chunk)
      BY DEF Chunk
    <3> QED
      BY <1>1, <3>1
  <2>1. chunks[k] \in ToSet(chunks)
    BY <1>1 DEF ToSet
  <2>2. chunks[k].at \in Nat /\ Len(chunks[k].bytes) \in Nat
    BY <2>0
  <2>3. End(k) <= n /\ \A j \in 1..Len(chunks[k].bytes) : chunks[k].bytes[j] = bytes[chunks[k].at + j]
    BY <2>1
  <2> QED
    BY <1>1, <2>2, <2>3
<1>3. ASSUME NEW i \in 1..n PROVE Over(i) # {}
  <2>1. PICK c \in ToSet(chunks) : c.at < i /\ i <= c.at + Len(c.bytes)
    OBVIOUS
  <2>2. PICK k \in 1..m : c = chunks[k]
    BY <1>1, <2>1 DEF ToSet
  <2>3. i \in chunks[k].at + 1..End(k)
    BY <1>2, <2>1, <2>2, SMTT(30)
  <2> QED
    BY <1>1, <2>3
<1>4. \A k \in 1..m, i \in 1..n : i \in chunks[k].at + 1..End(k) => chunks[k].bytes[i - chunks[k].at] = bytes[i]
  <2> SUFFICES ASSUME NEW k \in 1..m, NEW i \in 1..n, i \in chunks[k].at + 1..End(k)
               PROVE  chunks[k].bytes[i - chunks[k].at] = bytes[i]
    OBVIOUS
  <2> DEFINE at == chunks[k].at
             len == Len(chunks[k].bytes)
             j == i - at
  <2>1. at \in Nat /\ len \in Nat /\ i \in at + 1..at + len
    BY <1>2
  <2>2. \A x \in 1..len : chunks[k].bytes[x] = bytes[at + x]
    BY <1>2
  <2>3. j \in 1..len /\ at + j = i
    <3> HIDE DEF at, len
    <3> QED
      BY <1>1, <2>1
  <2> HIDE DEF at, len, j
  <2>4. chunks[k].bytes[j] = bytes[i]
    BY <2>2, <2>3
  <2> QED
    BY <2>4 DEF j, at
<1>5. Max(E) = n
  <2>1. E \in SUBSET (0..n)
    BY <1>1, <1>2, SMTT(30)
  <2>2. n \in E
    <3>1. CASE n = 0
      BY <3>1
    <3>2. CASE n # 0
      <4>1. n \in 1..n
        BY <1>1, <3>2
      <4>2. PICK k \in Over(n) : TRUE
        BY <1>3, <4>1
      <4>3. k \in 1..m /\ n <= End(k)
        BY <1>1, <1>2, <4>2
      <4>4. End(k) = n
        <5>1. End(k) \in 0..n
          BY <1>2, <4>3
        <5> HIDE DEF End
        <5> QED
          BY <1>1, <4>3, <5>1
      <4> QED
        BY <1>1, <4>3, <4>4
    <3> QED
      BY <3>1, <3>2
  <2> HIDE DEF E
  <2>3. \A x \in E : n >= x
    BY <1>1, <2>1
  <2>4. \A x \in E : (\A y \in E : x >= y) => x = n
    BY <1>1, <2>1, <2>2
  <2> QED
    BY <2>2, <2>3, <2>4 DEF Max
<1> DEFINE At(i) == IF Over(i) = {} THEN 0 ELSE LET k == Max(Over(i)) IN chunks[k].bytes[i - chunks[k].at]
<1>6. ASSUME NEW i \in 1..n PROVE At(i) = bytes[i]
  <2> DEFINE O == Over(i)
             k == Max(O)
  <2>0. O # {}
    BY <1>3
  <2>1. O \in SUBSET (0..m) /\ O # {}
    <3>1. O \subseteq DOMAIN chunks
      OBVIOUS
    <3> HIDE DEF O
    <3>2. DOMAIN chunks \subseteq 0..m
      BY <1>1
    <3> QED
      BY <2>0, <3>1, <3>2
  <2>2. k \in O
    <3> HIDE DEF O
    <3>1. \E x \in O : \A y \in O : y <= x
      BY <1>1, <2>1, LargestOf
    <3>2. \E x \in O : \A y \in O : x >= y
      BY <3>1, <2>1
    <3> QED
      BY <3>2 DEF Max
  <2>3. k \in 1..m /\ i \in chunks[k].at + 1..End(k)
    BY <1>1, <2>2
  <2>4. At(i) = chunks[k].bytes[i - chunks[k].at]
    BY <2>1
  <2> HIDE DEF k, O, At, End
  <2> QED
    BY <1>4, <2>3, <2>4
<1>7. JoinFloats(chunks) = [i \in 1..Max(E) |-> At(i)]
  BY DEF JoinFloats
<1> HIDE DEF At, E
<1>8. JoinFloats(chunks) = [i \in 1..n |-> bytes[i]]
  BY <1>5, <1>6, <1>7
<1> QED
  BY <1>1, <1>8

\* The bytes of one kind, out of the chunks the assembler holds of it.
LEMMA JoinedIs ==
  ASSUME NEW F, NEW a, Holds(a, F), NEW type \in Arrays, NEW bytes \in Seq(Nat), NEW target,
         \A f \in F : Framed(f) /\ (TypeOf(f) = type => IsChunk(f, bytes, target)),
         Reach(F, type, bytes)
  PROVE  JoinFloats(a.chunks[type]) = bytes
<1> DEFINE chunks == a.chunks[type]
           K == {f \in F : TypeOf(f) = type}
<1>1. chunks \in Seq([at : Nat, bytes : Seq(Nat)]) /\ ToSet(chunks) = {[at |-> f.offset, bytes |-> PayloadOf(f)] : f \in K}
  BY DEF Holds
<1>2. ASSUME NEW f \in K PROVE Framed(f) /\ IsChunk(f, bytes, target) /\ Len(PayloadOf(f)) = f.length
  <2>1. Framed(f) /\ IsChunk(f, bytes, target)
    OBVIOUS
  <2> QED
    BY <2>1, PayloadIs
<1> HIDE DEF chunks
<1>3. ASSUME NEW c \in ToSet(chunks)
      PROVE  c.at + Len(c.bytes) <= Len(bytes) /\ \A j \in 1..Len(c.bytes) : c.bytes[j] = bytes[c.at + j]
  <2>1. PICK f \in K : c = [at |-> f.offset, bytes |-> PayloadOf(f)]
    BY <1>1
  <2>2. c.at = f.offset /\ c.bytes = PayloadOf(f)
    BY <2>1
  <2> QED
    BY <1>2, <2>2 DEF IsChunk
<1>4. ASSUME NEW i \in 1..Len(bytes)
      PROVE  \E c \in ToSet(chunks) : c.at < i /\ i <= c.at + Len(c.bytes)
  <2>1. PICK f \in F : TypeOf(f) = type /\ f.offset < i /\ i <= f.offset + f.length
    BY DEF Reach
  <2> DEFINE c == [at |-> f.offset, bytes |-> PayloadOf(f)]
  <2>2. f \in K /\ c \in ToSet(chunks)
    BY <1>1, <2>1
  <2>3. c.at = f.offset /\ Len(c.bytes) = f.length
    BY <1>2, <2>2
  <2> HIDE DEF c
  <2> QED
    BY <2>1, <2>2, <2>3
<1> HIDE DEF K
<1>5. JoinFloats(chunks) = bytes
  BY <1>1, <1>3, <1>4, JoinFloatsIs
<1> QED
  BY <1>5 DEF chunks

LEMMA NoFloats == FloatBytes(<<>>) = <<>>
<1> DEFINE seqs == [i \in DOMAIN (<<>>) |-> [b \in 1..4 |-> 4 * (<<>>)[i] + b - 1]]
<1>1. seqs = <<>>
  OBVIOUS
<1>2. \A A : <<>> \in Seq(A)
  OBVIOUS
<1>3. seqs \in SeqsOf(Nat)
  BY <1>1, <1>2 DEF SeqsOf
<1>4. Len(seqs) = 0
  BY <1>1
<1> DEFINE flat == FlattenSeq(seqs)
<1> HIDE DEF seqs
<1>5. flat \in Seq(Nat) /\ \A k \in 1..Len(flat) : \E i \in 1..Len(seqs) : \E j \in 1..Len(seqs[i]) : flat[k] = seqs[i][j]
  BY <1>3, FlattenHas
<1> HIDE DEF flat
<1>6. \A k \in 1..Len(flat) : FALSE
  BY <1>4, <1>5
<1>7. flat = <<>>
  BY <1>5, <1>6
<1> QED
  BY <1>7 DEF FloatBytes, seqs, flat

\* What its words say, of all its frames: the type that outranks a compaction, and both texts.
LEMMA SaidIs ==
  ASSUME NEW r \in Response, NEW target, NEW F, NEW a, Holds(a, F),
         \A f \in F : IsOf(f, r, target), AreAll(F, r)
  PROVE  /\ r.type \in DOMAIN a.said /\ DOMAIN a.said \subseteq {r.type, "Compaction"}
         /\ a.said[r.type] = Metadata(r)
         /\ "Compaction" \in DOMAIN a.said <=> r.compaction # <<>>
         /\ "Compaction" \in DOMAIN a.said => a.said["Compaction"] = r.compaction
<1>0. "Compaction" \notin Arrays /\ "Points" \in Arrays /\ "Links" \in Arrays
  BY DEF Arrays
<1>1. r.type \notin Arrays /\ r.type # "Compaction"
  BY TypesAre DEF Response
<1>2. ASSUME NEW f \in F, TypeOf(f) \notin Arrays
      PROVE  \/ TypeOf(f) = r.type /\ PayloadOf(f) = Metadata(r)
             \/ TypeOf(f) = "Compaction" /\ PayloadOf(f) = r.compaction /\ r.compaction # <<>>
  BY <1>0, <1>2 DEF IsOf
<1>3. DOMAIN a.said = {TypeOf(f) : f \in {f \in F : TypeOf(f) \notin Arrays}}
  BY DEF Holds
<1>4. \A f \in F : TypeOf(f) \notin Arrays => a.said[TypeOf(f)] = PayloadOf(f)
  BY DEF Holds
<1>5. DOMAIN a.said \subseteq {r.type, "Compaction"}
  BY <1>2, <1>3
<1>6. r.type \in DOMAIN a.said /\ a.said[r.type] = Metadata(r)
  <2>1. PICK f \in F : TypeOf(f) = r.type
    BY DEF AreAll
  <2> QED
    BY <1>1, <1>2, <1>3, <1>4, <2>1
<1>7. r.compaction # <<>> => "Compaction" \in DOMAIN a.said
  BY <1>0, <1>3 DEF AreAll
<1>8. "Compaction" \in DOMAIN a.said => a.said["Compaction"] = r.compaction /\ r.compaction # <<>>
  BY <1>1, <1>2, <1>3, <1>4
<1> QED
  BY <1>5, <1>6, <1>7, <1>8

\* Once every frame is heard, what is completed is the response.
LEMMA CompleteIs ==
  ASSUME NEW r \in Response, NEW target, NEW F, NEW a, Holds(a, F),
         \A f \in F : IsOf(f, r, target), AreAll(F, r)
  PROVE  Complete(a) = Received(r)
<1> DEFINE I == {i \in DOMAIN Precedence : Precedence[i] \in DOMAIN a.said}
<1>0. r.points \in Seq(Nat) /\ r.links \in Seq(Nat) /\ r.type \in ToSet(Precedence)
      /\ (HasPoints(r.type) \/ r.points = <<>>) /\ (HasLinks(r.type) \/ r.links = <<>>)
  BY DEF Response
<1>1. r.type # "Compaction" /\ "Compaction" \notin ToSet(Precedence) /\ r.type \notin Arrays
  BY <1>0, TypesAre
<1>2. DOMAIN Precedence = 1..16
  BY DEF Precedence
<1>3. Precedence[Min(I)] = r.type
  <2>1. I \in SUBSET (1..16)
    BY <1>2
  <2>2. I # {}
    BY <1>0, SaidIs DEF ToSet
  <2>3. \E i \in I : \A j \in I : i <= j
    <3> HIDE DEF I
    <3>1. I \in SUBSET Nat
      BY <2>1
    <3> QED
      BY <2>2, <3>1, LeastOf
  <2>4. Min(I) \in I
    BY <2>3 DEF Min
  <2>5. Precedence[Min(I)] \in DOMAIN a.said /\ Precedence[Min(I)] \in ToSet(Precedence)
    BY <2>4 DEF ToSet
  <2> HIDE DEF I
  <2> QED
    BY <1>1, <2>5, SaidIs
<1>4. HasPoints(r.type) => JoinFloats(a.chunks["Points"]) = FloatBytes(r.points)
  <2> SUFFICES ASSUME HasPoints(r.type) PROVE JoinFloats(a.chunks["Points"]) = FloatBytes(r.points)
    OBVIOUS
  <2> DEFINE bytes == FloatBytes(r.points)
  <2>1. bytes \in Seq(Nat) /\ Reach(F, "Points", bytes)
    BY <1>0, FloatBytesAre DEF AreAll
  <2>2. \A f \in F : Framed(f) /\ (TypeOf(f) = "Points" => IsChunk(f, bytes, target))
    BY <1>1 DEF IsOf, Arrays
  <2>3. "Points" \in Arrays
    BY DEF Arrays
  <2> HIDE DEF bytes
  <2>4. JoinFloats(a.chunks["Points"]) = bytes
    BY <2>1, <2>2, <2>3, JoinedIs, SMTT(30)
  <2> QED
    BY <2>4 DEF bytes
<1>5. HasLinks(r.type) => JoinFloats(a.chunks["Links"]) = FloatBytes(r.links)
  <2> SUFFICES ASSUME HasLinks(r.type) PROVE JoinFloats(a.chunks["Links"]) = FloatBytes(r.links)
    OBVIOUS
  <2> DEFINE bytes == FloatBytes(r.links)
  <2>1. bytes \in Seq(Nat) /\ Reach(F, "Links", bytes)
    BY <1>0, FloatBytesAre DEF AreAll
  <2>2. \A f \in F : Framed(f) /\ (TypeOf(f) = "Links" => IsChunk(f, bytes, target))
    BY <1>1 DEF IsOf, Arrays
  <2>3. "Links" \in Arrays
    BY DEF Arrays
  <2> HIDE DEF bytes
  <2>4. JoinFloats(a.chunks["Links"]) = bytes
    BY <2>1, <2>2, <2>3, JoinedIs
  <2> QED
    BY <2>4 DEF bytes
<1> DEFINE type == Precedence[Min(I)]
           compaction == IF "Compaction" \in DOMAIN a.said THEN a.said["Compaction"] ELSE <<>>
           points == IF HasPoints(type) THEN JoinFloats(a.chunks["Points"]) ELSE <<>>
           links == IF HasLinks(type) THEN JoinFloats(a.chunks["Links"]) ELSE <<>>
<1>6. Complete(a) = [type |-> type, json |-> a.said[type], compaction |-> compaction, points |-> points, links |-> links]
  BY DEF Complete
<1>7. type = r.type
  BY <1>3
<1> HIDE DEF I, type
<1>8. compaction = r.compaction
  BY SaidIs
<1>9. points = FloatBytes(r.points) /\ links = FloatBytes(r.links)
  BY <1>0, <1>4, <1>5, <1>7, NoFloats
<1>10. a.said[type] = Metadata(r)
  BY <1>7, SaidIs
<1> HIDE DEF compaction, points, links
<1> QED
  BY <1>6, <1>7, <1>8, <1>9, <1>10 DEF Received

\* The frames of one response never disagree.
LEMMA FramesAgree ==
  ASSUME NEW r \in Response, NEW target, NEW F, \A f \in F : IsOf(f, r, target)
  PROVE  Agree(F)
<1>1. r.type \notin Arrays /\ r.type # "Compaction"
  BY TypesAre DEF Response
<1> QED
  BY <1>1 DEF Agree, IsOf, Arrays

\* All the frames of one response, the last of them last and nowhere else.
Block(b, r, target) ==
  /\ b \in Seq(Frames) /\ Len(b) \in Nat \ {0}
  /\ \A k \in 1..Len(b) : IsOf(b[k], r, target) /\ b[k].flags = IF k = Len(b) THEN Terminal ELSE 0
  /\ AreAll(ToSet(b), r)

LEMMA FramesAreBlock ==
  ASSUME NEW r \in Response, NEW target \in Nat
  PROVE  Block(ResponseFrames(r, target), r, target)
<1> DEFINE fs == ResponseFrames(r, target)
<1>1. /\ fs \in Seq(Frames) /\ Len(fs) \in Nat \ {0}
      /\ \A k \in 1..Len(fs) : IsOf(fs[k], r, target) /\ fs[k].flags = IF k = Len(fs) THEN Terminal ELSE 0
      /\ AreAll(ToSet(fs), r)
  BY FramesAre
<1> HIDE DEF fs
<1>2. Block(fs, r, target)
  BY <1>1 DEF Block
<1> QED
  BY <1>2 DEF fs

\* An order leaves nothing out.
LEMMA OrdersReach ==
  ASSUME NEW n \in Nat, NEW o \in Orders(n), NEW k \in 1..n
  PROVE  \E i \in 1..n : o[i] = k
<1> DEFINE S == 1..n
<1>1. IsFiniteSet(S)
  BY FS_Interval
<1>2. o \in [S -> S] /\ \A i, j \in S : o[i] = o[j] => i = j
  BY DEF Orders
<1> HIDE DEF S
<1>3. o \in Injection(S, S)
  BY <1>2 DEF Injection, IsInjective
<1>4. o \in Surjection(S, S)
  BY <1>1, <1>3, FS_Injection
<1> QED
  BY <1>4 DEF Surjection, S

\* The places a delivery takes its frames from: each of them, and the last one last.
TakesAll(f, m, n) ==
  /\ m \in Nat /\ f \in Seq(1..(n + 1)) /\ Len(f) = m + 1
  /\ \A j \in 1..(m + 1) : f[j] = n + 1 <=> j = m + 1
  /\ \A k \in 1..(n + 1) : \E j \in 1..(m + 1) : f[j] = k

LEMMA TakesAllIs ==
  ASSUME NEW n \in Nat, NEW again \in Seq(1..n), NEW o \in Orders(n)
  PROVE  \E m : TakesAll(again \o o \o <<n + 1>>, m, n)
<1> DEFINE S == 1..n
           N == 1..(n + 1)
           last == <<n + 1>>
           head == again \o o
           a == Len(again)
           m == a + n
           f == head \o last
<1>1. o \in [S -> S]
  BY DEF Orders
<1>2. o \in Seq(S) /\ Len(o) = n
  BY <1>1
<1>3. \A k \in S : \E i \in S : o[i] = k
  BY OrdersReach
<1>4. again \in Seq(S) /\ a \in Nat
  OBVIOUS
<1>5. last \in Seq(N) /\ Len(last) = 1 /\ last[1] = n + 1
  OBVIOUS
<1>6. m \in Nat
  BY <1>4
<1>7. head \in Seq(S) /\ Len(head) = m /\ \A i \in 1..m : head[i] = IF i <= a THEN again[i] ELSE o[i - a]
  <2> HIDE DEF S
  <2> QED
    BY <1>2, <1>4, ConcatProperties
<1>8. \A i \in S : a + i \in 1..m /\ head[a + i] = o[i]
  <2> HIDE DEF head, a
  <2> QED
    BY <1>4, <1>7
<1> HIDE DEF head, m, last
<1>9. \A j \in 1..m : head[j] \in S
  <2> HIDE DEF S
  <2> QED
    BY <1>6, <1>7
<1>10. head \in Seq(N)
  <2>1. \A j \in 1..m : head[j] \in N
    BY <1>9
  <2>2. head = [j \in 1..m |-> head[j]]
    BY <1>7
  <2> HIDE DEF N
  <2> QED
    BY <1>6, <2>1, <2>2
<1>11. f \in Seq(N) /\ Len(f) = m + 1 /\ \A j \in 1..(m + 1) : f[j] = IF j <= m THEN head[j] ELSE last[j - m]
  <2> HIDE DEF N
  <2>1. /\ f \in Seq(N) /\ Len(f) = Len(head) + Len(last)
        /\ \A j \in 1..Len(head) + Len(last) : f[j] = IF j <= Len(head) THEN head[j] ELSE last[j - Len(head)]
    BY <1>5, <1>10, ConcatProperties
  <2>2. Len(head) = m /\ Len(last) = 1
    BY <1>5, <1>7
  <2> HIDE DEF f
  <2> QED
    BY <2>1, <2>2
<1> HIDE DEF f
<1>12. ASSUME NEW j \in 1..(m + 1) PROVE f[j] = n + 1 <=> j = m + 1
  <2>1. CASE j = m + 1
    BY <1>5, <1>6, <1>11, <2>1
  <2>2. CASE j # m + 1
    <3>1. j \in 1..m
      BY <1>6, <2>2
    <3>2. f[j] \in S
      BY <1>9, <1>11, <3>1, SMTT(30)
    <3> QED
      BY <2>2, <3>2
  <2> QED
    BY <2>1, <2>2
<1>13. ASSUME NEW k \in N PROVE \E j \in 1..(m + 1) : f[j] = k
  <2>1. CASE k = n + 1
    <3>1. m + 1 \in 1..(m + 1)
      BY <1>6
    <3> QED
      BY <1>12, <2>1, <3>1
  <2>2. CASE k # n + 1
    <3>1. k \in S
      BY <2>2
    <3>2. PICK i \in S : o[i] = k
      BY <1>3, <3>1
    <3> DEFINE j == a + i
    <3>3. j \in 1..m /\ head[j] = k
      BY <1>8, <3>2
    <3> HIDE DEF j
    <3>4. j \in 1..(m + 1) /\ j <= m
      BY <1>6, <3>3
    <3> QED
      BY <1>11, <3>3, <3>4
  <2> QED
    BY <2>1, <2>2
<1>14. TakesAll(f, m, n)
  BY <1>6, <1>11, <1>12, <1>13 DEF TakesAll
<1> QED
  BY <1>14 DEF f, head, last

\* However the frames before the last come, they are all there.
LEMMA DeliveriesAre ==
  ASSUME NEW r, NEW target, NEW frames, Block(frames, r, target), NEW d \in Deliveries(frames)
  PROVE  Block(d, r, target)
<1> DEFINE n == Len(frames) - 1
<1>1. n \in Nat /\ Len(frames) = n + 1 /\ frames \in Seq(Frames)
  BY DEF Block
<1>2. \E f, m : TakesAll(f, m, n) /\ d = [j \in DOMAIN f |-> frames[f[j]]]
  <2> DEFINE Agains == {<<>>} \cup {<<i>> : i \in 1..n}
             Pick(again, o) == again \o o \o <<n + 1>>
             Picks == {Pick(again, o) : again \in Agains, o \in Orders(n)}
  <2>1. \E f \in Picks : d = [j \in DOMAIN f |-> frames[f[j]]]
    BY SMTT(30) DEF Deliveries
  <2>2. ASSUME NEW again \in Agains PROVE again \in Seq(1..n)
    <3> HIDE DEF n
    <3>1. CASE again = <<>>
      BY <3>1
    <3>2. CASE \E i \in 1..n : again = <<i>>
      BY <3>2
    <3> QED
      BY <3>1, <3>2
  <2> HIDE DEF n, Agains
  <2>3. ASSUME NEW f \in Picks PROVE \E m : TakesAll(f, m, n)
    <3>1. \A again \in Agains, o \in Orders(n) : \E m : TakesAll(Pick(again, o), m, n)
      BY <1>1, <2>2, TakesAllIs
    <3> HIDE DEF Pick
    <3> QED
      BY <3>1
  <2> HIDE DEF Picks
  <2> QED
    BY <2>1, <2>3
<1>3. PICK f, m : TakesAll(f, m, n) /\ d = [j \in DOMAIN f |-> frames[f[j]]]
  BY <1>2
<1> HIDE DEF n
<1>4. /\ m \in Nat /\ f \in Seq(1..(n + 1)) /\ Len(f) = m + 1
      /\ \A j \in 1..(m + 1) : f[j] = n + 1 <=> j = m + 1
      /\ \A k \in 1..(n + 1) : \E j \in 1..(m + 1) : f[j] = k
  BY <1>3 DEF TakesAll
<1>5. DOMAIN f = 1..(m + 1) /\ \A j \in 1..(m + 1) : f[j] \in 1..(n + 1)
  <2> DEFINE N == 1..(n + 1)
             M == m + 1
  <2>1. f \in Seq(N) /\ Len(f) = M
    BY <1>4
  <2> HIDE DEF N, M
  <2>2. DOMAIN f = 1..M /\ \A j \in 1..M : f[j] \in N
    BY <2>1
  <2> QED
    BY <2>2 DEF N, M
<1>6. d = [j \in 1..(m + 1) |-> frames[f[j]]]
  BY <1>3, <1>5
<1>7. \A k \in 1..(n + 1) : frames[k] \in Frames
  <2> HIDE DEF Frames
  <2> QED
    BY <1>1
<1>8. \A j \in 1..(m + 1) : d[j] = frames[f[j]] /\ d[j] \in Frames
  BY <1>5, <1>6, <1>7
<1>9. d \in Seq(Frames) /\ Len(d) = m + 1 /\ Len(d) \in Nat \ {0}
  <2> DEFINE M == m + 1
             A == Frames
  <2>1. M \in Nat /\ M # 0
    BY <1>4
  <2>2. d = [j \in 1..M |-> d[j]] /\ \A j \in 1..M : d[j] \in A
    BY <1>6, <1>8
  <2> HIDE DEF M, A
  <2>3. d \in Seq(A) /\ Len(d) = M
    BY <2>1, <2>2
  <2> QED
    BY <2>1, <2>3 DEF M, A
<1>10. ToSet(d) = ToSet(frames)
  <2>1. ToSet(d) = {d[j] : j \in 1..(m + 1)}
    BY <1>9, SetOf
  <2>2. ToSet(frames) = {frames[k] : k \in 1..(n + 1)}
    <3> HIDE DEF Frames
    <3> QED
      BY <1>1, SetOf
  <2> QED
    BY <1>4, <1>5, <1>8, <2>1, <2>2, SMTT(30)
<1>11. \A j \in 1..(m + 1) : IsOf(d[j], r, target) /\ d[j].flags = IF j = m + 1 THEN Terminal ELSE 0
  <2>1. \A k \in 1..(n + 1) : IsOf(frames[k], r, target) /\ frames[k].flags = IF k = n + 1 THEN Terminal ELSE 0
    BY <1>1 DEF Block
  <2>2. \A j \in 1..(m + 1) : f[j] = n + 1 <=> j = m + 1
    BY <1>4
  <2> DEFINE last == n + 1
             end == m + 1
  <2> HIDE DEF last, end
  <2>3. \A j \in 1..end : IsOf(d[j], r, target) /\ d[j].flags = IF j = end THEN Terminal ELSE 0
    BY <1>5, <1>8, <2>1, <2>2 DEF last, end
  <2> QED
    BY <2>3 DEF end
<1>12. AreAll(ToSet(d), r)
  BY <1>10 DEF Block
<1> QED
  BY <1>9, <1>11, <1>12 DEF Block

\* The frames of m responses on their way, and which response each is of: one
\* response after another, each until its last frame and then all there.
Travels(fs, sent, target, m, own) ==
  /\ m \in Nat /\ fs \in Seq(Frames) /\ Len(fs) \in Nat \ {0}
  /\ own \in [1..Len(fs) -> 1..m]
  /\ own[1] = 1 /\ own[Len(fs)] = m /\ fs[Len(fs)].flags = Terminal
  /\ \A p \in 1..Len(fs) : IsOf(fs[p], sent[own[p]], target)
  /\ \A p, q \in 1..Len(fs) : q <= p => own[q] <= own[p]
  /\ \A p \in 1..Len(fs) - 1 : own[p + 1] = IF fs[p].flags = Terminal THEN own[p] + 1 ELSE own[p]
  /\ \A p \in 1..Len(fs) : fs[p].flags = Terminal =>
       AreAll({fs[q] : q \in {q \in 1..p : own[q] = own[p]}}, sent[own[p]])

LEMMA OneTravels ==
  ASSUME NEW sent, NEW target, NEW b, Block(b, sent[1], target)
  PROVE  Travels(b, sent, target, 1, [p \in 1..Len(b) |-> 1])
<1> DEFINE own == [p \in 1..Len(b) |-> 1]
           n == Len(b)
<1>1. b \in Seq(Frames) /\ n \in Nat /\ n # 0 /\ AreAll(ToSet(b), sent[1])
  BY DEF Block
<1>2. \A k \in 1..n : IsOf(b[k], sent[1], target) /\ b[k].flags = IF k = n THEN 1 ELSE 0
  BY DEF Block, Terminal
<1>3. ToSet(b) = {b[q] : q \in 1..n}
  BY <1>1, SetOf
<1> HIDE DEF n
<1>4. own \in [1..n -> 1..1] /\ \A p \in 1..n : own[p] = 1
  BY DEF n
<1> HIDE DEF own
<1>5. own[1] = 1 /\ own[n] = 1 /\ b[n].flags = 1
  BY <1>1, <1>2, <1>4
<1>6. \A p \in 1..n : IsOf(b[p], sent[own[p]], target)
  BY <1>2, <1>4
<1>7. \A p, q \in 1..n : q <= p => own[q] <= own[p]
  BY <1>4
<1>8. \A p \in 1..n - 1 : own[p + 1] = IF b[p].flags = 1 THEN own[p] + 1 ELSE own[p]
  <2> SUFFICES ASSUME NEW p \in 1..n - 1 PROVE own[p + 1] = IF b[p].flags = 1 THEN own[p] + 1 ELSE own[p]
    OBVIOUS
  <2>1. p \in 1..n /\ p + 1 \in 1..n /\ p # n
    BY <1>1
  <2> QED
    BY <1>2, <1>4, <2>1
<1>9. ASSUME NEW p \in 1..n, b[p].flags = 1
      PROVE  AreAll({b[q] : q \in {q \in 1..p : own[q] = own[p]}}, sent[own[p]])
  <2>1. p = n
    BY <1>2, <1>9
  <2>2. {q \in 1..p : own[q] = own[p]} = 1..n
    BY <1>1, <1>4, <2>1
  <2>3. {b[q] : q \in {q \in 1..p : own[q] = own[p]}} = ToSet(b)
    BY <1>3, <2>2
  <2>4. own[p] = 1
    BY <1>4
  <2> QED
    BY <1>1, <2>3, <2>4
<1> QED
  BY <1>1, <1>4, <1>5, <1>6, <1>7, <1>8, <1>9 DEF Travels, Terminal, n, own

\* One more response.
LEMMA MoreTravels ==
  ASSUME NEW sent, NEW target, NEW m, NEW fs, NEW own, Travels(fs, sent, target, m, own),
         NEW b, Block(b, sent[m + 1], target)
  PROVE  \E more : Travels(fs \o b, sent, target, m + 1, more)
<1> DEFINE n == Len(fs)
           k == Len(b)
           gs == fs \o b
           more == [p \in 1..n + k |-> IF p <= n THEN own[p] ELSE m + 1]
<1>1. /\ m \in Nat /\ fs \in Seq(Frames) /\ n \in Nat /\ n # 0
      /\ own \in [1..n -> 1..m] /\ own[1] = 1 /\ own[n] = m /\ fs[n].flags = 1
  BY DEF Travels, Terminal
<1>2. /\ \A p \in 1..n : IsOf(fs[p], sent[own[p]], target)
      /\ \A p, q \in 1..n : q <= p => own[q] <= own[p]
      /\ \A p \in 1..n - 1 : own[p + 1] = IF fs[p].flags = 1 THEN own[p] + 1 ELSE own[p]
      /\ \A p \in 1..n : fs[p].flags = 1 => AreAll({fs[q] : q \in {q \in 1..p : own[q] = own[p]}}, sent[own[p]])
  BY DEF Travels, Terminal
<1>3. b \in Seq(Frames) /\ k \in Nat /\ k # 0 /\ AreAll(ToSet(b), sent[m + 1])
  BY DEF Block
<1>4. \A j \in 1..k : IsOf(b[j], sent[m + 1], target) /\ b[j].flags = IF j = k THEN 1 ELSE 0
  BY DEF Block, Terminal
<1>5. /\ gs \in Seq(Frames) /\ Len(gs) = n + k
      /\ \A i \in 1..n + k : gs[i] = IF i <= n THEN fs[i] ELSE b[i - n]
  <2> DEFINE A == Frames
  <2>1. fs \in Seq(A) /\ b \in Seq(A)
    BY <1>1, <1>3
  <2> HIDE DEF A
  <2>2. /\ gs \in Seq(A) /\ Len(gs) = Len(fs) + Len(b)
        /\ \A i \in 1..Len(fs) + Len(b) : gs[i] = IF i <= Len(fs) THEN fs[i] ELSE b[i - Len(fs)]
    BY <2>1, ConcatProperties
  <2> QED
    BY <2>2 DEF A
<1>6. ToSet(b) = {b[q] : q \in 1..k}
  BY <1>3, SetOf
<1> HIDE DEF n, k, gs
<1>7. /\ \A p \in 1..n : p \in 1..n + k /\ gs[p] = fs[p] /\ more[p] = own[p] /\ own[p] \in 1..m
      /\ \A j \in 1..k : n + j \in 1..n + k /\ gs[n + j] = b[j] /\ more[n + j] = m + 1
  <2>1. \A p \in 1..n : p \in 1..n + k /\ p <= n /\ own[p] \in 1..m
    BY <1>1, <1>3
  <2>2. \A j \in 1..k : n + j \in 1..n + k /\ ~(n + j <= n) /\ (n + j) - n = j
    BY <1>1, <1>3
  <2> QED
    BY <1>5, <2>1, <2>2
<1>8. \A p \in 1..n + k : p \in 1..n \/ \E j \in 1..k : p = n + j
  <2> SUFFICES ASSUME NEW p \in 1..n + k, p \notin 1..n PROVE \E j \in 1..k : p = n + j
    OBVIOUS
  <2>1. p - n \in 1..k /\ p = n + (p - n)
    BY <1>1, <1>3
  <2> QED
    BY <2>1
<1>9. more \in [1..n + k -> 1..m + 1]
  BY <1>1, <1>7
<1> HIDE DEF more
<1>10. more[1] = 1 /\ more[n + k] = m + 1 /\ gs[n + k].flags = 1 /\ n + k \in Nat \ {0}
  <2>1. 1 \in 1..n /\ k \in 1..k
    BY <1>1, <1>3
  <2>2. more[1] = 1
    BY <1>1, <1>7, <2>1
  <2>3. more[n + k] = m + 1 /\ gs[n + k] = b[k]
    BY <1>7, <2>1
  <2>4. b[k].flags = 1
    BY <1>4, <2>1
  <2>5. n + k \in Nat \ {0}
    BY <1>1, <1>3
  <2> QED
    BY <2>2, <2>3, <2>4, <2>5
<1>11. \A p \in 1..n + k : IsOf(gs[p], sent[more[p]], target)
  BY <1>2, <1>4, <1>7, <1>8
<1>12. ASSUME NEW p \in 1..n + k, NEW q \in 1..n + k, q <= p PROVE more[q] <= more[p]
  <2>1. CASE p \in 1..n
    <3>1. q \in 1..n
      BY <1>1, <1>12, <2>1
    <3> QED
      BY <1>2, <1>7, <1>12, <2>1, <3>1
  <2>2. CASE p \notin 1..n
    <3>1. more[p] = m + 1
      BY <1>7, <1>8, <2>2
    <3>2. more[q] \in 1..m + 1
      BY <1>9
    <3> QED
      BY <1>1, <3>1, <3>2
  <2> QED
    BY <2>1, <2>2
<1>13. \A p \in 1..(n + k) - 1 : more[p + 1] = IF gs[p].flags = 1 THEN more[p] + 1 ELSE more[p]
  <2> SUFFICES ASSUME NEW p \in 1..(n + k) - 1
               PROVE  more[p + 1] = IF gs[p].flags = 1 THEN more[p] + 1 ELSE more[p]
    OBVIOUS
  <2>1. CASE p \in 1..n - 1
    <3>1. p \in 1..n /\ p + 1 \in 1..n
      BY <1>1, <2>1
    <3> QED
      BY <1>2, <1>7, <2>1, <3>1
  <2>2. CASE p = n
    <3>1. n \in 1..n /\ 1 \in 1..k
      BY <1>1, <1>3
    <3> QED
      BY <1>1, <1>7, <2>2, <3>1
  <2>3. CASE p > n
    <3> DEFINE j == p - n
    <3>1. j \in 1..k /\ j + 1 \in 1..k /\ j # k /\ p = n + j /\ p + 1 = n + (j + 1)
      BY <1>1, <1>3, <2>3
    <3> HIDE DEF j
    <3>2. gs[p].flags = 0
      BY <1>4, <1>7, <3>1
    <3>3. more[p] = m + 1 /\ more[p + 1] = m + 1
      BY <1>7, <3>1
    <3> QED
      BY <3>2, <3>3
  <2> QED
    BY <1>1, <1>3, <2>1, <2>2, <2>3
<1>14. ASSUME NEW p \in 1..n + k, gs[p].flags = 1
       PROVE  AreAll({gs[q] : q \in {q \in 1..p : more[q] = more[p]}}, sent[more[p]])
  <2> DEFINE Q == {q \in 1..p : more[q] = more[p]}
  <2>1. CASE p \in 1..n
    <3>1. \A q \in 1..p : q \in 1..n
      BY <1>1, <2>1
    <3>2. Q = {q \in 1..p : own[q] = own[p]}
      BY <1>7, <2>1, <3>1
    <3>3. {gs[q] : q \in Q} = {fs[q] : q \in {q \in 1..p : own[q] = own[p]}}
      BY <1>7, <3>1, <3>2
    <3>4. fs[p].flags = 1 /\ more[p] = own[p]
      BY <1>7, <1>14, <2>1
    <3> QED
      BY <1>2, <2>1, <3>3, <3>4
  <2>2. CASE p \notin 1..n
    <3>1. PICK j \in 1..k : p = n + j
      BY <1>8, <2>2
    <3>2. p = n + k
      BY <1>4, <1>7, <1>14, <3>1
    <3>3. more[p] = m + 1
      BY <1>7, <3>1
    <3>4. \A q \in 1..p : q \in Q <=> \E i \in 1..k : q = n + i
      <4> SUFFICES ASSUME NEW q \in 1..p PROVE q \in Q <=> \E i \in 1..k : q = n + i
        OBVIOUS
      <4>1. q \in 1..n + k
        BY <3>2
      <4>2. q \in 1..n => more[q] # m + 1 /\ ~ \E i \in 1..k : q = n + i
        <5>1. q \in 1..n => more[q] \in 1..m
          BY <1>7
        <5> QED
          BY <1>1, <1>3, <5>1
      <4>3. (\E i \in 1..k : q = n + i) => more[q] = m + 1
        BY <1>7
      <4> QED
        BY <1>8, <3>3, <4>1, <4>2, <4>3
    <3>5. {gs[q] : q \in Q} = ToSet(b)
      <4>1. \A i \in 1..k : n + i \in 1..p
        BY <1>7, <3>2
      <4>2. Q \subseteq 1..p
        OBVIOUS
      <4> HIDE DEF Q
      <4>3. \A q \in Q : \E i \in 1..k : gs[q] = b[i]
        BY <1>7, <3>4, <4>2
      <4>4. \A i \in 1..k : \E q \in Q : gs[q] = b[i]
        BY <1>7, <3>4, <4>1
      <4> QED
        BY <1>6, <4>3, <4>4
    <3> QED
      BY <1>3, <3>3, <3>5
  <2> QED
    BY <2>1, <2>2
<1>15. m + 1 \in Nat
  BY <1>1
<1>16. Travels(gs, sent, target, m + 1, more)
  <2> DEFINE N == n + k
             M == m + 1
  <2>1. M \in Nat /\ gs \in Seq(Frames) /\ Len(gs) = N /\ N \in Nat \ {0} /\ more \in [1..N -> 1..M]
    BY <1>5, <1>9, <1>10, <1>15
  <2>2. more[1] = 1 /\ more[N] = M /\ gs[N].flags = 1
    BY <1>10
  <2>3. \A p \in 1..N : IsOf(gs[p], sent[more[p]], target)
    BY <1>11
  <2>4. \A p, q \in 1..N : q <= p => more[q] <= more[p]
    BY <1>12
  <2>5. \A p \in 1..N - 1 : more[p + 1] = IF gs[p].flags = 1 THEN more[p] + 1 ELSE more[p]
    BY <1>13
  <2>6. \A p \in 1..N : gs[p].flags = 1 =>
          AreAll({gs[q] : q \in {q \in 1..p : more[q] = more[p]}}, sent[more[p]])
    BY <1>14
  <2> HIDE DEF N, M
  <2>7. Travels(gs, sent, target, M, more)
    BY <2>1, <2>2, <2>3, <2>4, <2>5, <2>6 DEF Travels, Terminal
  <2> QED
    BY <2>7 DEF M
<1> QED
  BY <1>16 DEF gs

\* What a client hears travels through every response that was sent.
LEMMA HeardTravels ==
  ASSUME NEW s \in Seq(Response), s # <<>>, NEW t \in Nat, NEW d \in Deliveries(ResponseFrames(s[1], t))
  PROVE  \E own : Travels(d \o FlattenSeq([i \in 1..Len(s) - 1 |-> ResponseFrames(s[i + 1], t)]), s, t, Len(s), own)
<1> DEFINE n == Len(s) - 1
           seqs == [i \in 1..n |-> ResponseFrames(s[i + 1], t)]
<1>1. Len(s) \in Nat /\ n \in Nat /\ Len(s) = n + 1
  BY EmptySeq
<1>2. \A i \in 1..(n + 1) : s[i] \in Response
  <2> HIDE DEF n
  <2> QED
    BY <1>1
<1>3. s[1] \in Response
  <2>1. 1 \in 1..(n + 1)
    BY <1>1
  <2> QED
    BY <1>2, <2>1
<1>4. Block(d, s[1], t)
  <2> DEFINE first == ResponseFrames(s[1], t)
             r == s[1]
  <2>1. Block(first, r, t)
    BY <1>3, FramesAreBlock
  <2>2. d \in Deliveries(first)
    OBVIOUS
  <2> HIDE DEF first, r
  <2>3. Block(d, r, t)
    BY <2>1, <2>2, DeliveriesAre
  <2> QED
    BY <2>3 DEF r
<1>5. \A i \in 1..n : seqs[i] = ResponseFrames(s[i + 1], t) /\ Block(seqs[i], s[i + 1], t)
  <2> SUFFICES ASSUME NEW i \in 1..n
               PROVE  seqs[i] = ResponseFrames(s[i + 1], t) /\ Block(seqs[i], s[i + 1], t)
    OBVIOUS
  <2>1. i + 1 \in 1..(n + 1)
    BY <1>1
  <2>2. s[i + 1] \in Response
    BY <1>2, <2>1
  <2>3. seqs[i] = ResponseFrames(s[i + 1], t)
    OBVIOUS
  <2> QED
    BY <2>2, <2>3, FramesAreBlock
<1>6. seqs \in SeqsOf(Frames) /\ Len(seqs) = n
  <2>1. \A i \in 1..n : seqs[i] \in Seq(Frames)
    BY <1>5 DEF Block
  <2>2. seqs = [i \in 1..n |-> seqs[i]]
    OBVIOUS
  <2> HIDE DEF seqs, n
  <2>3. seqs \in [1..n -> Seq(Frames)]
    BY <2>1, <2>2
  <2> QED
    BY <1>1, <2>3, SeqsAre
<1> HIDE DEF seqs, n
<1>7. PICK f : /\ Follows(f, Seq(Frames), n, <<>>, [p \in Seq(Frames) \X (1..n) |-> p[1] \o seqs[p[2]]])
               /\ \A i \in 1..n : f[i] = f[i - 1] \o seqs[i]
               /\ FlattenSeq(seqs) = f[n]
  BY <1>6, FlattenIs
<1>8. f \in [0..n -> Seq(Frames)] /\ f[0] = <<>>
  BY <1>7 DEF Follows
<1>9. d \in Seq(Frames)
  BY <1>4 DEF Block
<1> DEFINE P == {k \in 0..n : ~ \E own : Travels(d \o f[k], s, t, k + 1, own)}
<1>10. ASSUME P # {} PROVE FALSE
  <2>1. P \in SUBSET Nat
    OBVIOUS
  <2> HIDE DEF P
  <2>2. PICK k \in P : \A m \in P : k <= m
    BY <1>10, <2>1, LeastOf
  <2>3. k \in 0..n /\ ~ \E own : Travels(d \o f[k], s, t, k + 1, own)
    BY <2>2 DEF P
  <2>4. k # 0
    <3> SUFFICES ASSUME k = 0 PROVE FALSE
      OBVIOUS
    <3>1. d \o f[k] = d
      <4> HIDE DEF Frames
      <4> QED
        BY <1>8, <1>9
    <3>2. k + 1 = 1
      OBVIOUS
    <3>3. \E own : Travels(d, s, t, 1, own)
      BY <1>4, OneTravels
    <3>4. \E own : Travels(d \o f[k], s, t, k + 1, own)
      BY <3>1, <3>2, <3>3
    <3> QED
      BY <2>3, <3>4
  <2> DEFINE j == k - 1
             m == j + 1
  <2>5. j \in 0..n /\ j < k /\ k \in 1..n /\ m = k /\ j \in Nat /\ k \in Nat
    BY <1>1, <2>3, <2>4
  <2>6. j \notin P
    BY <2>2, <2>5
  <2>7. PICK own : Travels(d \o f[j], s, t, m, own)
    BY <2>5, <2>6 DEF P
  <2>8. Block(seqs[k], s[m + 1], t) /\ seqs[k] \in Seq(Frames)
    BY <1>5, <2>5 DEF Block
  <2>9. f[k] = f[j] \o seqs[k] /\ f[j] \in Seq(Frames)
    BY <1>7, <1>8, <2>5
  <2>10. m + 1 = k + 1
    BY <2>5
  <2> HIDE DEF j, m
  <2>11. \E more : Travels((d \o f[j]) \o seqs[k], s, t, m + 1, more)
    BY <2>7, <2>8, MoreTravels
  <2>12. (d \o f[j]) \o seqs[k] = d \o f[k]
    <3> DEFINE A == Frames
               x == f[j]
               y == seqs[k]
    <3>1. d \in Seq(A) /\ x \in Seq(A) /\ y \in Seq(A)
      BY <1>9, <2>8, <2>9
    <3> HIDE DEF A, x, y
    <3>2. (d \o x) \o y = d \o (x \o y)
      BY <3>1, ConcatAssociative
    <3> QED
      BY <2>9, <3>2 DEF x, y
  <2> QED
    BY <2>3, <2>10, <2>11, <2>12
<1>11. n \in 0..n /\ n \notin P
  BY <1>1, <1>10
<1> HIDE DEF P
<1>12. \E own : Travels(d \o f[n], s, t, n + 1, own)
  BY <1>11 DEF P
<1>13. \E own : Travels(d \o FlattenSeq(seqs), s, t, Len(s), own)
  BY <1>1, <1>7, <1>12
<1> QED
  BY <1>13 DEF seqs, n

LEMMA JourneysTravel ==
  ASSUME NEW j \in Journeys
  PROVE  /\ j.sent \in Seq(Response) /\ j.target \in Nat /\ Len(j.sent) \in Nat
         /\ \E own : Travels(j.frames, j.sent, j.target, Len(j.sent), own)
<1>1. PICK s \in Talks, t \in Targets :
           /\ j.kind = "wire" /\ j.sent = s /\ j.target = t
           /\ \E d \in Deliveries(ResponseFrames(s[1], t)) :
                j.frames = d \o FlattenSeq([i \in 1..Len(s) - 1 |-> ResponseFrames(s[i + 1], t)])
  BY JourneysAre
<1>2. s \in Seq(Response) /\ s # <<>> /\ t \in Nat
  BY TalksAssumption
<1>3. Len(s) \in Nat
  <2> DEFINE R == Response
  <2>1. s \in Seq(R)
    BY <1>2
  <2> HIDE DEF R
  <2> QED
    BY <2>1
<1>4. PICK d \in Deliveries(ResponseFrames(s[1], t)) :
        j.frames = d \o FlattenSeq([i \in 1..Len(s) - 1 |-> ResponseFrames(s[i + 1], t)])
  BY <1>1
<1>5. \E own : Travels(d \o FlattenSeq([i \in 1..Len(s) - 1 |-> ResponseFrames(s[i + 1], t)]), s, t, Len(s), own)
  BY <1>2, HeardTravels
<1> QED
  BY <1>1, <1>2, <1>3, <1>4, <1>5

\* The frames of the response that frame n + 1 is of, up to frame n.
Begun(fs, own, n) == {fs[q] : q \in {q \in 1..n : own[q] = own[n + 1]}}

\* The next frame is heard.
LEMMA HearsNext ==
  ASSUME NEW sent, NEW target, NEW m, NEW fs, NEW own, Travels(fs, sent, target, m, own),
         \A i \in 1..m : sent[i] \in Response,
         NEW n \in 0..Len(fs) - 1, NEW a, Holds(a, Begun(fs, own, n))
  PROVE  LET b == Assemble(a, fs[n + 1])
         IN  /\ fs[n + 1].flags = Terminal =>
                  /\ Complete(b) = Received(sent[own[n + 1]])
                  /\ n + 1 # Len(fs) => own[n + 2] = own[n + 1] + 1 /\ Begun(fs, own, n + 1) = {}
             /\ fs[n + 1].flags # Terminal =>
                  n + 1 # Len(fs) /\ own[n + 2] = own[n + 1] /\ Holds(b, Begun(fs, own, n + 1))
             /\ n + 1 = Len(fs) => own[n + 1] = m
             /\ n + 1 \in 1..Len(fs) /\ own[n + 1] \in 1..m
<1> DEFINE N == Len(fs)
           p == n + 1
           f == fs[p]
           k == own[p]
           r == sent[k]
           F == Begun(fs, own, n)
           G == {fs[q] : q \in {q \in 1..p : own[q] = k}}
           b == Assemble(a, f)
<1>1. /\ N \in Nat /\ N # 0 /\ own \in [1..N -> 1..m] /\ own[N] = m /\ fs[N].flags = Terminal
      /\ \A q \in 1..N : IsOf(fs[q], sent[own[q]], target)
      /\ \A x, y \in 1..N : y <= x => own[y] <= own[x]
      /\ \A q \in 1..N - 1 : own[q + 1] = IF fs[q].flags = Terminal THEN own[q] + 1 ELSE own[q]
      /\ \A q \in 1..N : fs[q].flags = Terminal =>
           AreAll({fs[x] : x \in {x \in 1..q : own[x] = own[q]}}, sent[own[q]])
  BY DEF Travels
<1>0. m \in Nat
  BY DEF Travels
<1>2. n \in Nat /\ p \in 1..N /\ (p # N => p \in 1..N - 1 /\ n + 2 = p + 1)
  BY <1>1
<1>3. k \in 1..m /\ r \in Response
  BY <1>1, <1>2
<1>4. G = F \cup {f}
  <2> DEFINE Q == {q \in 1..n : own[q] = k}
             R == {q \in 1..p : own[q] = k}
  <2>1. R = Q \cup {p}
    BY <1>2
  <2>2. F = {fs[q] : q \in Q} /\ G = {fs[q] : q \in R}
    BY DEF Begun
  <2> HIDE DEF Q, R, F, G
  <2> QED
    BY <2>1, <2>2
<1>5. \A g \in G : IsOf(g, r, target)
  <2>1. \A q \in 1..p : q \in 1..N
    BY <1>2
  <2> QED
    BY <1>1, <2>1
<1> HIDE DEF G, F, r
<1>6. Agree(G)
  BY <1>3, <1>5, FramesAgree
<1>7. Framed(f)
  BY <1>4, <1>5 DEF IsOf
<1>8. Holds(b, G)
  <2>1. Holds(a, F) /\ Agree(F \cup {f})
    BY <1>4, <1>6 DEF F
  <2> HIDE DEF f
  <2>2. Holds(Assemble(a, f), F \cup {f})
    BY <1>7, <2>1, AssembleHolds
  <2> QED
    BY <1>4, <2>2
<1> HIDE DEF b
<1>9. f.flags = Terminal => Complete(b) = Received(r)
  <2> SUFFICES ASSUME f.flags = Terminal PROVE Complete(b) = Received(r)
    OBVIOUS
  <2>1. AreAll(G, r)
    BY <1>1, <1>2 DEF G, r
  <2> QED
    BY <1>3, <1>5, <1>8, <2>1, CompleteIs
<1>10. p # N => own[p + 1] = IF f.flags = Terminal THEN k + 1 ELSE k
  BY <1>1, <1>2
<1>11. f.flags # Terminal => p # N
  BY <1>1
<1>12. f.flags = Terminal /\ p # N => Begun(fs, own, p) = {}
  <2> SUFFICES ASSUME f.flags = Terminal, p # N PROVE Begun(fs, own, p) = {}
    OBVIOUS
  <2>1. ASSUME NEW q \in 1..p PROVE own[q] # own[p + 1]
    <3>1. q \in 1..N /\ q <= p
      BY <1>2
    <3>2. own[q] <= k /\ own[q] \in 1..m /\ own[p + 1] = k + 1
      BY <1>1, <1>2, <1>10, <3>1
    <3> QED
      BY <1>0, <1>3, <3>2
  <2> QED
    BY <2>1 DEF Begun
<1>13. f.flags # Terminal => Begun(fs, own, p) = G
  BY <1>10, <1>11 DEF Begun, G
<1>14. p = N => k = m
  BY <1>1
<1>15. p # N => n + 2 = p + 1
  BY <1>2
<1> HIDE DEF f, k
<1>16. /\ f.flags = Terminal =>
                  /\ Complete(b) = Received(r)
                  /\ p # N => own[n + 2] = k + 1 /\ Begun(fs, own, p) = {}
       /\ f.flags # Terminal =>
                  p # N /\ own[n + 2] = k /\ Holds(b, Begun(fs, own, p))
       /\ p = N => k = m
       /\ p \in 1..N /\ k \in 1..m
  BY <1>2, <1>3, <1>8, <1>9, <1>10, <1>11, <1>12, <1>13, <1>14, <1>15
<1> QED
  BY <1>16 DEF f, k, b, r

\* What a socket carries, a chunk is aligned and no larger than asked.
LEMMA HeardIs ==
  ASSUME NEW sent, NEW target, NEW m, NEW fs, NEW own, Travels(fs, sent, target, m, own),
         \A i \in 1..m : sent[i] \in Response
  PROVE  /\ DOMAIN fs = 1..Len(fs) /\ Len(fs) \in Nat \ {0} /\ own[1] = 1
         /\ Begun(fs, own, 0) = {}
         /\ \A i \in DOMAIN fs : MessageTypes[fs[i].code] \in {"Points", "Links"} =>
              fs[i].offset % ArrayRecord = 0 /\ fs[i].length <= Max({target, ArrayRecord})
<1>1. /\ Len(fs) \in Nat \ {0} /\ fs \in Seq(Frames) /\ own[1] = 1 /\ own \in [1..Len(fs) -> 1..m]
      /\ \A q \in 1..Len(fs) : IsOf(fs[q], sent[own[q]], target)
  BY DEF Travels
<1>2. DOMAIN fs = 1..Len(fs)
  <2> DEFINE A == Frames
  <2>1. fs \in Seq(A)
    BY <1>1
  <2> HIDE DEF A
  <2> QED
    BY <2>1
<1>3. Begun(fs, own, 0) = {}
  BY DEF Begun
<1>4. ASSUME NEW i \in 1..Len(fs), TypeOf(fs[i]) \in Arrays
      PROVE  fs[i].offset % ArrayRecord = 0 /\ fs[i].length <= Max({target, ArrayRecord})
  <2> DEFINE r == sent[own[i]]
             f == fs[i]
  <2>1. r \in Response /\ IsOf(f, r, target)
    BY <1>1
  <2>2. r.type \notin Arrays /\ "Compaction" \notin Arrays
    BY <2>1, TypesAre DEF Response, Arrays
  <2> HIDE DEF r, f
  <2>3. \E bytes : IsChunk(f, bytes, target)
    BY <1>4, <2>1, <2>2 DEF IsOf, f
  <2>4. (f.offset % ArrayRecord) = 0 /\ f.length <= Max({target, ArrayRecord})
    BY <2>3 DEF IsChunk
  <2> QED
    BY <2>4 DEF f
<1> QED
  BY <1>1, <1>2, <1>3, <1>4 DEF TypeOf, Arrays

\* What a frame is taken for.
LEMMA DecodesIff ==
  ASSUME NEW g
  PROVE  DecodeFrame(g) = "decoded" <=>
           /\ ~ (g.header < HeaderBytes) /\ g.version = ProtocolVersion /\ g.code \in DOMAIN MessageTypes
           /\ (g.flags \div 2) = 0 /\ ~ (g.length > Len(g.body))
           /\ ~ (Len(PaddingOf(g)) >= 4) /\ ToSet(PaddingOf(g)) \ {0} = {}
<1> DEFINE p1 == g.header < HeaderBytes
           p2 == g.version # ProtocolVersion
           p3 == g.code \notin DOMAIN MessageTypes
           p4 == g.flags \div 2 # 0
           p5 == g.length > Len(g.body)
           p6 == Len(PaddingOf(g)) >= 4 \/ ToSet(PaddingOf(g)) \ {0} # {}
<1>1. DecodeFrame(g) = CASE p1 -> "TooShort" [] p2 -> "VersionMismatch" [] p3 -> "UnknownMessageType"
                         [] p4 -> "UnknownFlags" [] p5 -> "LengthMismatch" [] p6 -> "BadPadding" [] OTHER -> "decoded"
  BY DEF DecodeFrame
<1>2. (~ p1 /\ ~ p2 /\ ~ p3 /\ ~ p4 /\ ~ p5 /\ ~ p6) <=>
           /\ ~ (g.header < HeaderBytes) /\ g.version = ProtocolVersion /\ g.code \in DOMAIN MessageTypes
           /\ (g.flags \div 2) = 0 /\ ~ (g.length > Len(g.body))
           /\ ~ (Len(PaddingOf(g)) >= 4) /\ ToSet(PaddingOf(g)) \ {0} = {}
  OBVIOUS
<1> HIDE DEF p1, p2, p3, p4, p5, p6
<1>3. DecodeFrame(g) = "decoded" <=> ~ p1 /\ ~ p2 /\ ~ p3 /\ ~ p4 /\ ~ p5 /\ ~ p6
  BY <1>1
<1> QED
  BY <1>2, <1>3

\* A body after its first bytes.
LEMMA PaddingIs ==
  ASSUME NEW g, g.body \in Seq(Nat), g.length \in 0..Len(g.body)
  PROVE  /\ PaddingOf(g) \in Seq(Nat) /\ Len(PaddingOf(g)) = Len(g.body) - g.length
         /\ \A i \in g.length + 1..Len(g.body) : g.body[i] \in ToSet(PaddingOf(g))
         /\ \A x \in ToSet(PaddingOf(g)) : \E i \in g.length + 1..Len(g.body) : x = g.body[i]
<1> DEFINE s == g.body
           a == g.length
           b == Len(s)
           part == SubSeq(s, a + 1, b)
<1>1. b \in Nat /\ a \in 0..b /\ b \in a..b /\ s \in Seq(Nat)
  <2>1. b \in Nat
    OBVIOUS
  <2> HIDE DEF b
  <2> QED
    BY <2>1 DEF b
<1> HIDE DEF s, a
<1>2. /\ part \in Seq(Nat) /\ Len(part) = b - a /\ b - a \in Nat
      /\ \A i \in 1..(b - a) : part[i] = s[a + i]
  BY <1>1, PartIs
<1>3. PaddingOf(g) = part
  BY DEF PaddingOf, a, s
<1> HIDE DEF part, b
<1>4. ToSet(part) = {part[i] : i \in 1..(b - a)}
  BY <1>2, SetOf
<1>5. ASSUME NEW i \in a + 1..b PROVE s[i] \in ToSet(part)
  <2>1. i - a \in 1..(b - a) /\ a + (i - a) = i
    BY <1>1
  <2> QED
    BY <1>2, <1>4, <2>1
<1>6. ASSUME NEW x \in ToSet(part) PROVE \E i \in a + 1..b : x = s[i]
  <2>1. PICK j \in 1..(b - a) : x = part[j]
    BY <1>4
  <2>2. a + j \in a + 1..b
    BY <1>1
  <2> QED
    BY <1>2, <2>1, <2>2
<1> QED
  BY <1>2, <1>3, <1>5, <1>6 DEF s, a, b

\* What the encoder makes is taken.
LEMMA FramedDecodes ==
  ASSUME NEW f, Framed(f)
  PROVE  DecodeFrame(f) = "decoded"
<1>1. /\ f.header = HeaderBytes /\ f.version = ProtocolVersion /\ f.code \in DOMAIN MessageTypes
      /\ f.flags \in {0, 1} /\ f.length \in Nat /\ f.body \in Seq(Nat)
      /\ f.length <= Len(f.body) /\ Len(f.body) < f.length + 4
      /\ \A i \in f.length + 1..Len(f.body) : f.body[i] = 0
  BY DEF Framed, Frames
<1>2. Len(f.body) \in Nat
  BY <1>1
<1>3. f.length \in 0..Len(f.body)
  BY <1>1, <1>2
<1>4. Len(PaddingOf(f)) = Len(f.body) - f.length /\ ToSet(PaddingOf(f)) \subseteq {0}
  BY <1>1, <1>3, PaddingIs, ZenonT(40)
<1>5. (f.flags \div 2) = 0
  BY <1>1
<1>6. ~ (f.header < HeaderBytes)
  BY <1>1, WireAssumption
<1>7. ~ (f.length > Len(f.body)) /\ ~ (Len(PaddingOf(f)) >= 4)
  BY <1>1, <1>2, <1>4
<1>8. ToSet(PaddingOf(f)) \ {0} = {}
  BY <1>4
<1> QED
  BY <1>1, <1>5, <1>6, <1>7, <1>8, DecodesIff

Content(f) == [f EXCEPT !.body = SubSeq(@, 1, f.length)]

\* Of what became of a frame on its way, what is taken says what the frame said.
LEMMA DamagedDecodes ==
  ASSUME NEW f, Framed(f), NEW g \in Damaged(f), DecodeFrame(g) = "decoded"
  PROVE  Content(g) = Content(f)
<1> DEFINE n == f.length
           s == f.body
           l == Len(s)
<1>1. /\ f \in Frames /\ f.header = HeaderBytes /\ f.version = ProtocolVersion
      /\ f.flags \in {0, 1} /\ n \in Nat /\ s \in Seq(Nat) /\ n <= l /\ l < n + 4
      /\ TypeOf(f) \notin Arrays => n > 0 /\ s[n] # 0
  BY DEF Framed, Frames
<1>2. l \in Nat /\ HeaderBytes \in Nat /\ ProtocolVersion \in Nat
  BY <1>1, WireAssumption
<1>3. /\ ~ (g.header < HeaderBytes) /\ g.version = ProtocolVersion /\ g.code \in DOMAIN MessageTypes
      /\ (g.flags \div 2) = 0 /\ ~ (g.length > Len(g.body))
      /\ ~ (Len(PaddingOf(g)) >= 4) /\ ToSet(PaddingOf(g)) \ {0} = {}
  BY DecodesIff
<1> HIDE DEF s, l, n
<1>4. \/ g = [f EXCEPT !.header = f.header - 1]
      \/ g = [f EXCEPT !.version = f.version + 1]
      \/ g = [f EXCEPT !.code = Len(MessageTypes) + 1]
      \/ g = [f EXCEPT !.flags = f.flags + 2]
      \/ g = [f EXCEPT !.length = n + 4]
      \/ g = [f EXCEPT !.body = Append(s, 1)]
      \/ g = [f EXCEPT !.body = s \o <<0, 0, 0, 0>>]
      \/ g = [f EXCEPT !.body = SubSeq(s, 1, n - 1)]
      \/ g = [f EXCEPT !.body = SubSeq(s, 1, n)]
      \/ g = [f EXCEPT !.length = n - 1] /\ TypeOf(f) \notin Arrays
  BY DEF Damaged, TypeOf, Arrays, s, n
<1>5. ASSUME g = [f EXCEPT !.header = f.header - 1] PROVE FALSE
  <2>1. g.header = f.header - 1
    BY <1>1, <1>5 DEF Frames
  <2> QED
    BY <1>1, <1>2, <1>3, <2>1
<1>6. ASSUME g = [f EXCEPT !.version = f.version + 1] PROVE FALSE
  <2>1. g.version = f.version + 1
    BY <1>1, <1>6 DEF Frames
  <2> QED
    BY <1>1, <1>2, <1>3, <2>1
<1>7. ASSUME g = [f EXCEPT !.code = Len(MessageTypes) + 1] PROVE FALSE
  <2>1. g.code = Len(MessageTypes) + 1
    BY <1>1, <1>7 DEF Frames
  <2> QED
    BY <1>3, <2>1, TypesAre
<1>8. ASSUME g = [f EXCEPT !.flags = f.flags + 2] PROVE FALSE
  <2>1. g.flags = f.flags + 2
    BY <1>1, <1>8 DEF Frames
  <2>2. g.flags \in {2, 3}
    BY <1>1, <2>1
  <2> QED
    BY <1>3, <2>2
<1>9. ASSUME g = [f EXCEPT !.length = n + 4] PROVE FALSE
  <2>1. g.length = n + 4 /\ g.body = s
    BY <1>1, <1>9 DEF Frames, s
  <2> QED
    BY <1>1, <1>2, <1>3, <2>1 DEF l
<1>10. ASSUME g = [f EXCEPT !.body = Append(s, 1)] PROVE FALSE
  <2>1. g.length = n /\ g.body = Append(s, 1)
    BY <1>1, <1>10 DEF Frames, n
  <2>2. g.body \in Seq(Nat) /\ Len(g.body) = l + 1 /\ g.body[l + 1] = 1
    BY <1>1, <2>1 DEF l
  <2>3. n \in 0..(l + 1) /\ l + 1 \in n + 1..(l + 1)
    BY <1>1, <1>2
  <2>4. 1 \in ToSet(PaddingOf(g))
    BY <2>1, <2>2, <2>3, PaddingIs
  <2> QED
    BY <1>3, <2>4
<1>11. ASSUME g = [f EXCEPT !.body = s \o <<0, 0, 0, 0>>] PROVE FALSE
  <2>1. g.length = n /\ g.body = s \o <<0, 0, 0, 0>>
    BY <1>1, <1>11 DEF Frames, n
  <2>2. g.body \in Seq(Nat) /\ Len(g.body) = l + 4
    BY <1>1, <2>1 DEF l
  <2>3. n \in 0..(l + 4)
    BY <1>1, <1>2
  <2>4. Len(PaddingOf(g)) = Len(g.body) - g.length
    <3>1. g.length \in 0..Len(g.body)
      BY <2>1, <2>2, <2>3
    <3> QED
      BY <2>2, <3>1, PaddingIs
  <2> QED
    BY <1>1, <1>2, <1>3, <2>1, <2>2, <2>4
<1>12. ASSUME g = [f EXCEPT !.body = SubSeq(s, 1, n - 1)] PROVE Content(g) = Content(f)
  <2>1. g.length = n /\ g.body = SubSeq(s, 1, n - 1)
    BY <1>1, <1>12 DEF Frames, n
  <2>2. n = 0
    <3> SUFFICES ASSUME n # 0 PROVE FALSE
      OBVIOUS
    <3> DEFINE k == n - 1
    <3>1. 0 \in 0..Len(s) /\ k \in 0..Len(s)
      BY <1>1, <1>2 DEF l
    <3> HIDE DEF k
    <3>2. Len(SubSeq(s, 0 + 1, k)) = k - 0
      BY <1>1, <3>1, PartIs
    <3>3. Len(g.body) = n - 1
      BY <2>1, <3>2, <3>1 DEF k
    <3> QED
      BY <1>1, <1>3, <2>1, <3>3
  <2>3. SubSeq(g.body, 1, n) = SubSeq(s, 1, n)
    BY <1>1, <2>1, <2>2
  <2> QED
    BY <1>1, <1>12, <2>1, <2>3 DEF Content, s, n, Frames
<1>13. ASSUME g = [f EXCEPT !.body = SubSeq(s, 1, n)] PROVE Content(g) = Content(f)
  <2>1. g.length = n /\ g.body = SubSeq(s, 1, n)
    BY <1>1, <1>13 DEF Frames, n
  <2>2. SubSeq(g.body, 1, n) = SubSeq(s, 1, n)
    BY <1>1, <1>2, <2>1 DEF l
  <2> QED
    BY <1>1, <1>13, <2>1, <2>2 DEF Content, s, n, Frames
<1>14. ASSUME g = [f EXCEPT !.length = n - 1], TypeOf(f) \notin Arrays PROVE FALSE
  <2>1. g.length = n - 1 /\ g.body = s
    BY <1>1, <1>14 DEF Frames, s
  <2>2. n - 1 \in 0..l /\ n \in (n - 1) + 1..l
    BY <1>1, <1>2, <1>14
  <2>3. s[n] \in ToSet(PaddingOf(g))
    BY <1>1, <2>1, <2>2, PaddingIs DEF l
  <2> QED
    BY <1>1, <1>3, <1>14, <2>3
<1> QED
  BY <1>4, <1>5, <1>6, <1>7, <1>8, <1>9, <1>10, <1>11, <1>12, <1>13, <1>14

\* Where a stray comes from.
LEMMA StraysAre ==
  ASSUME NEW i \in Strays
  PROVE  Framed(i.was) /\ (i.frame = i.was \/ i.frame \in Damaged(i.was))
<1> DEFINE Fs == UNION {ToSet(ResponseFrames(s[1], t)) : s \in Talks, t \in Targets}
           Of(f) == {[kind |-> "frame", was |-> f, frame |-> g] : g \in Damaged(f) \cup {f}}
<1>1. PICK f \in Fs : i \in Of(f)
  BY DEF Strays
<1>2. PICK g \in Damaged(f) \cup {f} : i = [kind |-> "frame", was |-> f, frame |-> g]
  BY <1>1
<1>3. i.was = f /\ i.frame = g
  BY <1>2
<1>4. PICK s \in Talks, t \in Targets : f \in ToSet(ResponseFrames(s[1], t))
  BY <1>1
<1>5. s[1] \in Response /\ t \in Nat
  <2> DEFINE R == Response
  <2>1. s \in Seq(R) /\ s # <<>> /\ t \in Nat
    BY TalksAssumption
  <2> HIDE DEF R
  <2>2. s[1] \in R
    BY <2>1
  <2> QED
    BY <2>1, <2>2 DEF R
<1>6. Framed(f)
  <2> DEFINE r == s[1]
             fs == ResponseFrames(r, t)
  <2>1. Block(fs, r, t)
    BY <1>5, FramesAreBlock
  <2>2. f \in ToSet(fs)
    BY <1>4
  <2> HIDE DEF fs, r
  <2>3. \A k \in 1..Len(fs) : Framed(fs[k])
    BY <2>1 DEF Block, IsOf
  <2>4. ToSet(fs) = {fs[k] : k \in 1..Len(fs)}
    BY <2>1, SetOf DEF Block
  <2> QED
    BY <2>2, <2>3, <2>4
<1> QED
  BY <1>3, <1>6

\* An assembler is no absence of an answer.
LEMMA AssemblersAre ==
  /\ NewAssembler # None
  /\ \A a, f : a \in [said : {a.said}, chunks : {a.chunks}] =>
       Assemble(a, f) # None /\ LET b == Assemble(a, f) IN b \in [said : {b.said}, chunks : {b.chunks}]
<1>1. \A b : b \in [said : {b.said}, chunks : {b.chunks}] => b # None
  <2> SUFFICES ASSUME NEW b, b \in [said : {b.said}, chunks : {b.chunks}] PROVE b # None
    OBVIOUS
  <2>1. DOMAIN b = {"said", "chunks"}
    OBVIOUS
  <2>2. DOMAIN None = {"kind"}
    BY DEF None
  <2> QED
    BY <2>1, <2>2
<1>2. NewAssembler # None
  <2>1. NewAssembler \in [said : {NewAssembler.said}, chunks : {NewAssembler.chunks}]
    BY DEF NewAssembler
  <2> QED
    BY <1>1, <2>1
<1>3. ASSUME NEW a, NEW f, a \in [said : {a.said}, chunks : {a.chunks}]
      PROVE  LET b == Assemble(a, f) IN b \in [said : {b.said}, chunks : {b.chunks}]
  <2> DEFINE type == MessageTypes[f.code]
             payload == SubSeq(f.body, 1, f.length)
             chunk == [at |-> f.offset, bytes |-> payload]
             more == Append(a.chunks[type], chunk)
             said == [t \in DOMAIN a.said \cup {type} |-> IF t = type THEN payload ELSE a.said[t]]
             b == Assemble(a, f)
  <2>1. \/ b = [a EXCEPT !.chunks[type] = more]
        \/ b = [a EXCEPT !.said = said]
    BY DEF Assemble, PushChunk
  <2> HIDE DEF more, said, b, type
  <2>2. ASSUME b = [a EXCEPT !.chunks[type] = more] PROVE b \in [said : {b.said}, chunks : {b.chunks}]
    BY <1>3, <2>2
  <2>3. ASSUME b = [a EXCEPT !.said = said] PROVE b \in [said : {b.said}, chunks : {b.chunks}]
    BY <1>3, <2>3
  <2>4. b \in [said : {b.said}, chunks : {b.chunks}]
    BY <2>1, <2>2, <2>3
  <2> QED
    BY <2>4 DEF b
<1> QED
  BY <1>1, <1>2, <1>3

IsAssembler(a) == a \in [said : {a.said}, chunks : {a.chunks}]

\* What the client has of the response that is arriving.
Building == IF answer = None THEN NewAssembler ELSE answer

\* Where the client is: so many responses read, and of the next what it heard.
OnTheWay(own) ==
  /\ Travels(inquiry.frames, inquiry.sent, inquiry.target, Len(inquiry.sent), own)
  /\ offset = NoOffset => Len(read) = Len(inquiry.sent)
  /\ offset # NoOffset =>
       /\ offset \in 0..Len(inquiry.frames) - 1
       /\ Len(read) + 1 = own[offset + 1]
       /\ IsAssembler(Building) /\ Holds(Building, Begun(inquiry.frames, own, offset))

WireHolds ==
  /\ inquiry.kind = "wire" =>
       /\ inquiry.sent \in Seq(Response) /\ Len(inquiry.sent) \in Nat
       /\ read \in Seq({Received(inquiry.sent[i]) : i \in Nat}) /\ Len(read) \in Nat
       /\ \A i \in 1..Len(read) : read[i] = Received(inquiry.sent[i])
       /\ \E own : OnTheWay(own)
  /\ inquiry.kind = "frame" /\ answer # None => answer = [state |-> DecodeFrame(inquiry.frame)]

LEMMA AskHolds ==
  ASSUME NEW i \in Inquiries, Ask(i)
  PROVE  WireHolds'
<1>1. inquiry' = i /\ read' = <<>> /\ answer' = None /\ offset' = 0
  BY DEF Ask
<1>2. ASSUME i.kind = "wire" PROVE (inquiry.kind = "wire" =>
       /\ inquiry.sent \in Seq(Response) /\ Len(inquiry.sent) \in Nat
       /\ read \in Seq({Received(inquiry.sent[k]) : k \in Nat}) /\ Len(read) \in Nat
       /\ \A k \in 1..Len(read) : read[k] = Received(inquiry.sent[k])
       /\ \E own : OnTheWay(own))'
  <2>1. i \in Journeys
    BY <1>2, InquiryIs
  <2>2. PICK own : Travels(i.frames, i.sent, i.target, Len(i.sent), own)
    BY <2>1, JourneysTravel
  <2>3. i.sent \in Seq(Response) /\ Len(i.sent) \in Nat
    BY <2>1, JourneysTravel
  <2>4. \A k \in 1..Len(i.sent) : i.sent[k] \in Response
    <3> DEFINE R == Response
    <3>1. i.sent \in Seq(R)
      BY <2>3
    <3> HIDE DEF R
    <3>2. \A k \in 1..Len(i.sent) : i.sent[k] \in R
      BY <3>1
    <3> QED
      BY <3>2 DEF R
  <2>5. Len(i.frames) \in Nat \ {0} /\ own[1] = 1 /\ Begun(i.frames, own, 0) = {}
    <3> DEFINE fs == i.frames
               sent == i.sent
               target == i.target
               m == Len(sent)
    <3>1. Travels(fs, sent, target, m, own) /\ \A k \in 1..m : sent[k] \in Response
      BY <2>2, <2>4
    <3> HIDE DEF fs, sent, target, m
    <3>2. Len(fs) \in Nat \ {0} /\ own[1] = 1 /\ Begun(fs, own, 0) = {}
      BY <3>1, HeardIs
    <3> QED
      BY <3>2 DEF fs
  <2>6. Building' = NewAssembler /\ IsAssembler(NewAssembler)
    BY <1>1 DEF Building, IsAssembler, NewAssembler
  <2>7. Len(read') = 0 /\ \A A : read' \in Seq(A)
    BY <1>1
  <2>8. OnTheWay(own)'
    <3>1. offset' \in 0..Len(inquiry'.frames) - 1 /\ offset' + 1 = 1 /\ offset' # NoOffset
      BY <1>1, <2>5 DEF NoOffset
    <3>2. Len(read') + 1 = own[offset' + 1]
      <4>1. own[offset' + 1] = 1
        BY <2>5, <3>1
      <4> QED
        BY <2>7, <4>1
    <3>3. Holds(Building', Begun(inquiry'.frames, own, offset'))
      BY <1>1, <2>5, <2>6, NewHolds
    <3>4. Travels(inquiry'.frames, inquiry'.sent, inquiry'.target, Len(inquiry'.sent), own)
      BY <1>1, <2>2
    <3> QED
      BY <2>6, <3>1, <3>2, <3>3, <3>4 DEF OnTheWay
  <2> QED
    BY <1>1, <2>3, <2>7, <2>8
<1> QED
  BY <1>1, <1>2 DEF WireHolds

LEMMA HearHolds ==
  ASSUME WireHolds, HearFrame, offset # NoOffset
  PROVE  WireHolds'
<1> DEFINE fs == inquiry.frames
           sent == inquiry.sent
           target == inquiry.target
           m == Len(sent)
           N == Len(fs)
           n == offset
           p == n + 1
           f == fs[p]
           b == Assemble(Building, f)
           S == {Received(sent[i]) : i \in Nat}
<1>1. /\ inquiry.kind = "wire" /\ inquiry' = inquiry
      /\ f.flags = Terminal => answer' = AfterTerminal(b) /\ read' = Append(read, Complete(b))
      /\ f.flags # Terminal => answer' = b /\ read' = read
      /\ offset' = IF p = N THEN NoOffset ELSE p
  BY DEF HearFrame, Building
<1>2. /\ sent \in Seq(Response) /\ m \in Nat /\ read \in Seq(S) /\ Len(read) \in Nat
      /\ \A i \in 1..Len(read) : read[i] = Received(sent[i])
  BY <1>1 DEF WireHolds
<1>3. PICK own : OnTheWay(own)
  BY <1>1 DEF WireHolds
<1>4. /\ Travels(fs, sent, target, m, own) /\ n \in 0..N - 1 /\ Len(read) + 1 = own[p]
      /\ IsAssembler(Building) /\ Holds(Building, Begun(fs, own, n))
  BY <1>3 DEF OnTheWay
<1>5. \A i \in 1..m : sent[i] \in Response
  <2> DEFINE R == Response
  <2>1. sent \in Seq(R)
    BY <1>2
  <2> HIDE DEF R, sent
  <2>2. \A i \in 1..m : sent[i] \in R
    BY <2>1
  <2> QED
    BY <2>2 DEF R
<1>6. IsAssembler(b) /\ b # None
  BY <1>4, AssemblersAre DEF IsAssembler
<1> DEFINE a == Building
           k == own[p]
<1>7. /\ f.flags = Terminal =>
             /\ Complete(b) = Received(sent[k])
             /\ p # N => own[n + 2] = k + 1 /\ Begun(fs, own, p) = {}
      /\ f.flags # Terminal =>
             p # N /\ own[n + 2] = k /\ Holds(b, Begun(fs, own, p))
      /\ p = N => k = m
      /\ p \in 1..N /\ k \in 1..m
  <2> HIDE DEF fs, sent, target, m, n, a
  <2>1. /\ Travels(fs, sent, target, m, own) /\ n \in 0..Len(fs) - 1
        /\ Holds(a, Begun(fs, own, n))
    BY <1>4 DEF fs, sent, target, m, n, a
  <2>2. LET c == Assemble(a, fs[n + 1])
        IN  /\ fs[n + 1].flags = Terminal =>
                  /\ Complete(c) = Received(sent[own[n + 1]])
                  /\ n + 1 # Len(fs) => own[n + 2] = own[n + 1] + 1 /\ Begun(fs, own, n + 1) = {}
            /\ fs[n + 1].flags # Terminal =>
                  n + 1 # Len(fs) /\ own[n + 2] = own[n + 1] /\ Holds(c, Begun(fs, own, n + 1))
            /\ n + 1 = Len(fs) => own[n + 1] = m
            /\ n + 1 \in 1..Len(fs) /\ own[n + 1] \in 1..m
    BY <1>5, <2>1, HearsNext
  <2> QED
    BY <2>2 DEF a
<1>8. fs' = fs /\ sent' = sent /\ target' = target /\ m' = m /\ N' = N /\ S' = S
  BY <1>1
<1>9. n \in Nat /\ p + 1 = n + 2 /\ (p # N => p \in 0..N - 1) /\ p # NoOffset /\ k \in Nat
  <2>1. N \in Nat
    BY <1>4 DEF Travels
  <2> HIDE DEF N, fs
  <2>2. n \in Nat
    BY <1>4, <2>1
  <2> QED
    BY <1>7, <2>1, <2>2 DEF NoOffset
<1> HIDE DEF b, f, k, S, N
<1>10. /\ read' \in Seq(S) /\ Len(read') = IF f.flags = Terminal THEN k ELSE k - 1
       /\ \A i \in 1..Len(read') : read'[i] = Received(sent[i])
  <2>1. CASE f.flags = Terminal
    <3> DEFINE x == Received(sent[k])
    <3>1. read' = Append(read, x) /\ x \in S
      BY <1>1, <1>7, <1>9, <2>1 DEF S
    <3>2. Len(read) + 1 = k
      BY <1>4 DEF k
    <3>3. x = Received(sent[k])
      OBVIOUS
    <3> HIDE DEF x
    <3>4. read' \in Seq(S) /\ Len(read') = Len(read) + 1 /\ read'[Len(read) + 1] = x
          /\ \A i \in 1..Len(read) : read'[i] = read[i]
      BY <1>2, <3>1
    <3>5. ASSUME NEW i \in 1..k PROVE read'[i] = Received(sent[i])
      <4>1. CASE i = k
        BY <3>2, <3>3, <3>4, <4>1
      <4>2. CASE i # k
        <5>1. i \in 1..Len(read)
          BY <1>2, <3>2, <4>2
        <5> QED
          BY <1>2, <3>4, <5>1
      <4> QED
        BY <4>1, <4>2
    <3>6. Len(read') = k
      BY <3>2, <3>4
    <3> QED
      BY <2>1, <3>4, <3>5, <3>6
  <2>2. CASE f.flags # Terminal
    <3>1. read' = read /\ Len(read) = k - 1
      BY <1>1, <1>2, <1>4, <1>9, <2>2 DEF k
    <3> QED
      BY <1>2, <2>2, <3>1
  <2> QED
    BY <2>1, <2>2
<1>11. offset' = NoOffset => Len(read') = m
  BY <1>1, <1>7, <1>9, <1>10
<1>12. ASSUME offset' # NoOffset
       PROVE  /\ offset' \in 0..N - 1 /\ Len(read') + 1 = own[offset' + 1]
              /\ IsAssembler(Building') /\ Holds(Building', Begun(fs, own, offset'))
  <2>1. offset' = p /\ p # N
    BY <1>1, <1>12
  <2>2. CASE f.flags = Terminal
    <3>1. answer' = NewAssembler /\ Begun(fs, own, p) = {} /\ own[p + 1] = k + 1
      BY <1>1, <1>7, <1>9, <2>1, <2>2 DEF AfterTerminal
    <3>2. Building' = NewAssembler
      BY <3>1 DEF Building
    <3>3. IsAssembler(NewAssembler)
      BY DEF IsAssembler, NewAssembler
    <3>4. Len(read') + 1 = own[offset' + 1]
      BY <1>10, <2>1, <2>2, <3>1
    <3>5. Holds(Building', Begun(fs, own, offset'))
      BY <2>1, <3>1, <3>2, NewHolds
    <3> QED
      BY <1>9, <2>1, <3>2, <3>3, <3>4, <3>5
  <2>3. CASE f.flags # Terminal
    <3>1. answer' = b /\ Holds(b, Begun(fs, own, p)) /\ own[p + 1] = k
      BY <1>1, <1>7, <1>9, <2>1, <2>3
    <3>2. Building' = b
      BY <1>6, <3>1 DEF Building
    <3>3. Len(read') = k - 1
      BY <1>10, <2>3
    <3>4. Len(read') + 1 = own[offset' + 1]
      BY <1>9, <2>1, <3>1, <3>3
    <3> QED
      BY <1>6, <1>9, <2>1, <3>1, <3>2, <3>4
  <2> QED
    BY <2>2, <2>3
<1>13. OnTheWay(own)'
  <2>1. Travels(fs', sent', target', m', own)
    BY <1>4, <1>8
  <2> QED
    BY <1>8, <1>11, <1>12, <2>1 DEF OnTheWay, N
<1>14. Len(read') \in Nat
  BY <1>10
<1>15. inquiry'.kind = "wire"
  BY <1>1
<1> QED
  BY <1>2, <1>8, <1>10, <1>13, <1>14, <1>15 DEF WireHolds, S

(***************************************************************************)
(* Every response that is sent over a socket is read as it was sent, in    *)
(* its order, whatever the order of the frames before its last and         *)
(* whichever of them comes twice (protocol.rs, protocol.ts), and a frame   *)
(* is taken only if it says what was sent, for any responses, any size of  *)
(* chunk and any widths of a header and a record.                          *)
(***************************************************************************)
THEOREM ResponsesArriveWholeHolds == ReadSpec => []ResponsesArriveWhole
<1>1. ReadInit => WireHolds
  BY DEF ReadInit, WireHolds, None
<1>2. Asked /\ WireHolds /\ [ReadNext]_readVars => WireHolds'
  <2> SUFFICES ASSUME WireHolds, [ReadNext]_readVars PROVE WireHolds'
    OBVIOUS
  <2>1. ASSUME NEW i \in Inquiries, Ask(i) PROVE WireHolds'
    BY <2>1, AskHolds
  <2>2. ASSUME Receive, offset # NoOffset, inquiry' = inquiry PROVE WireHolds'
    <3>1. CASE inquiry.kind = "wire"
      BY <2>2, <3>1, AnsweredBy, HearHolds
    <3>2. CASE inquiry.kind = "frame"
      BY <2>2, <3>2, AnsweredBy DEF WireHolds, CheckFrame, Answered
    <3>3. CASE inquiry.kind \notin {"wire", "frame"}
      BY <2>2, <3>3 DEF WireHolds
    <3> QED
      BY <3>1, <3>2, <3>3
  <2>3. ASSUME UNCHANGED readVars PROVE WireHolds'
    BY <2>3 DEF readVars, WireHolds, OnTheWay, Building
  <2> QED
    BY <2>1, <2>2, <2>3, ReadingIs
<1>3. Asked /\ WireHolds => ResponsesArriveWhole
  <2> SUFFICES ASSUME Asked, WireHolds PROVE ResponsesArriveWhole
    OBVIOUS
  <2>1. ASSUME inquiry.kind = "wire" PROVE ResponsesArriveWhole
    <3> DEFINE fs == inquiry.frames
               sent == inquiry.sent
               target == inquiry.target
               m == Len(sent)
    <3>1. /\ sent \in Seq(Response) /\ read \in Seq({Received(sent[i]) : i \in Nat})
          /\ \A i \in 1..Len(read) : read[i] = Received(sent[i])
      BY <2>1 DEF WireHolds
    <3>2. PICK own : OnTheWay(own)
      BY <2>1 DEF WireHolds
    <3>3. Travels(fs, sent, target, m, own) /\ (offset = NoOffset => Len(read) = m)
      BY <3>2 DEF OnTheWay
    <3>4. \A i \in 1..m : sent[i] \in Response
      <4> DEFINE R == Response
      <4>1. sent \in Seq(R)
        BY <3>1
      <4> HIDE DEF R, sent
      <4>2. \A i \in 1..m : sent[i] \in R
        BY <4>1
      <4> QED
        BY <4>2 DEF R
    <3>5. \A i \in DOMAIN read : read[i] = Received(sent[i])
      <4> DEFINE S == {Received(sent[i]) : i \in Nat}
      <4>1. read \in Seq(S)
        BY <3>1
      <4> HIDE DEF S
      <4>2. DOMAIN read = 1..Len(read)
        BY <4>1
      <4> QED
        BY <3>1, <4>2
    <3>6. \A i \in DOMAIN fs : MessageTypes[fs[i].code] \in {"Points", "Links"} =>
            fs[i].offset % ArrayRecord = 0 /\ fs[i].length <= Max({target, ArrayRecord})
      <4> HIDE DEF fs, sent, target, m
      <4> QED
        BY <3>3, <3>4, HeardIs
    <3> QED
      BY <2>1, <3>3, <3>5, <3>6, Zenon DEF ResponsesArriveWhole
  <2>2. ASSUME inquiry.kind = "frame", answer # None PROVE ResponsesArriveWhole
    <3> DEFINE f == inquiry.was
               g == inquiry.frame
    <3>1. Framed(f) /\ (g = f \/ g \in Damaged(f))
      BY <2>2, InquiryIs, StraysAre DEF Asked, None
    <3>2. answer.state = DecodeFrame(g)
      BY <2>2 DEF WireHolds
    <3> HIDE DEF f, g
    <3>3. g = f => answer.state = "decoded"
      BY <3>1, <3>2, FramedDecodes
    <3>4. answer.state = "decoded" => Content(g) = Content(f)
      BY <3>1, <3>2, DamagedDecodes
    <3> QED
      BY <2>2, <3>3, <3>4 DEF ResponsesArriveWhole, Content, f, g
  <2> QED
    BY <2>1, <2>2 DEF ResponsesArriveWhole
<1> QED
  BY <1>1, <1>2, <1>3, ReadsAreAsked, PTL DEF ReadSpec

-----------------------------------------------------------------------------
(* Filters: numbers of two kinds, compared as the numbers they are. *)

InHalves(v) == IF v.t = "int" THEN 2 * v.n ELSE v.n
Numeric(v) == IsNumber(v) /\ IsOfWidth(v)

LEMMA SignIs ==
  ASSUME NEW n \in Int
  PROVE  /\ Sign(n) \in {-1, 0, 1}
         /\ Sign(n) < 0 <=> n < 0
         /\ Sign(n) > 0 <=> n > 0
  BY DEF Sign

\* Half of a number of halves, the rest cut off.
LEMMA Toward0Is ==
  ASSUME NEW h \in Int
  PROVE  /\ Toward0(h) \in Int
         /\ h >= 0 => 2 * Toward0(h) <= h /\ h <= 2 * Toward0(h) + 1
         /\ h <= 0 => 2 * Toward0(h) >= h /\ h >= 2 * Toward0(h) - 1
<1>1. CASE h > 0
  <2>1. Toward0(h) = 1 * ((1 * h) \div 2)
    BY <1>1 DEF Toward0, Sign
  <2>2. 1 * ((1 * h) \div 2) = h \div 2 /\ h \div 2 \in Int
    OBVIOUS
  <2> QED
    BY <1>1, <2>1, <2>2
<1>2. CASE h = 0
  <2>1. Toward0(h) = 0 * ((0 * 0) \div 2)
    BY <1>2 DEF Toward0, Sign
  <2> QED
    BY <1>2, <2>1
<1>3. CASE h < 0
  <2>1. Toward0(h) = (-1) * (((-1) * h) \div 2)
    BY <1>3 DEF Toward0, Sign
  <2> DEFINE p == (-1) * h
  <2>2. p \in Nat /\ h = -p
    BY <1>3
  <2> HIDE DEF p
  <2>3. (-1) * (p \div 2) = -(p \div 2) /\ p \div 2 \in Int
    BY <2>2
  <2>4. 2 * (p \div 2) <= p /\ p <= 2 * (p \div 2) + 1
    BY <2>2
  <2> QED
    BY <1>3, <2>1, <2>2, <2>3, <2>4 DEF p
<1> QED
  BY <1>1, <1>2, <1>3

\* An integer and a float: no rounding, at either limit.
LEMMA IntFloatIs ==
  ASSUME NEW a \in -IntLimit..(IntLimit - 1), NEW h \in Int
  PROVE  /\ IntFloat(a, h) \in {-1, 0, 1}
         /\ IntFloat(a, h) < 0 <=> 2 * a < h
         /\ IntFloat(a, h) > 0 <=> 2 * a > h
<1>0. IntLimit \in Nat /\ a \in Int
  BY FilterAssumption
<1>1. CASE h >= 2 * IntLimit
  <2>1. IntFloat(a, h) = -1
    BY <1>0, <1>1 DEF IntFloat
  <2> QED
    BY <1>0, <1>1, <2>1
<1>2. CASE h < -2 * IntLimit
  <2>1. IntFloat(a, h) = 1
    BY <1>0, <1>2 DEF IntFloat
  <2> QED
    BY <1>0, <1>2, <2>1
<1>3. CASE -2 * IntLimit <= h /\ h < 2 * IntLimit
  <2>1. IntFloat(a, h) = IF a # Toward0(h) THEN Sign(a - Toward0(h)) ELSE -Sign(h - 2 * Toward0(h))
    BY <1>0, <1>3 DEF IntFloat
  <2> DEFINE k == Toward0(h)
  <2>2. /\ k \in Int
        /\ h >= 0 => 2 * k <= h /\ h <= 2 * k + 1
        /\ h <= 0 => 2 * k >= h /\ h >= 2 * k - 1
    BY Toward0Is
  <2>3. IntFloat(a, h) = IF a # k THEN Sign(a - k) ELSE -Sign(h - 2 * k)
    BY <2>1
  <2> HIDE DEF k
  <2>4. CASE a # k
    <3>1. a - k \in Int /\ IntFloat(a, h) = Sign(a - k)
      BY <1>0, <2>2, <2>3, <2>4
    <3>2. /\ Sign(a - k) \in {-1, 0, 1} /\ (Sign(a - k) < 0 <=> a - k < 0) /\ (Sign(a - k) > 0 <=> a - k > 0)
      BY <3>1, SignIs
    <3> QED
      BY <1>0, <2>2, <2>4, <3>1, <3>2
  <2>5. CASE a = k
    <3>1. h - 2 * k \in Int /\ IntFloat(a, h) = -Sign(h - 2 * k)
      BY <2>2, <2>3, <2>5
    <3>2. /\ Sign(h - 2 * k) \in {-1, 0, 1} /\ (Sign(h - 2 * k) < 0 <=> h - 2 * k < 0)
          /\ (Sign(h - 2 * k) > 0 <=> h - 2 * k > 0)
      BY <3>1, SignIs
    <3> QED
      BY <2>2, <2>5, <3>1, <3>2
  <2> QED
    BY <2>4, <2>5
<1> QED
  BY <1>0, <1>1, <1>2, <1>3

LEMMA CompareIs ==
  ASSUME NEW x, NEW y, Numeric(x), Numeric(y)
  PROVE  /\ Compare(x, y) \in {-1, 0, 1}
         /\ Compare(x, y) < 0 <=> InHalves(x) < InHalves(y)
         /\ Compare(x, y) > 0 <=> InHalves(x) > InHalves(y)
<1>0. IntLimit \in Nat
  BY FilterAssumption
<1>1. CASE x.t = y.t
  <2>1. x.n \in Int /\ y.n \in Int /\ x.n - y.n \in Int
    BY <1>0, <1>1 DEF Numeric, IsNumber, IsOfWidth
  <2>2. Compare(x, y) = Sign(x.n - y.n)
    BY <1>1 DEF Compare
  <2>3. InHalves(x) < InHalves(y) <=> x.n - y.n < 0
    BY <1>1, <2>1 DEF InHalves
  <2>4. InHalves(x) > InHalves(y) <=> x.n - y.n > 0
    BY <1>1, <2>1 DEF InHalves
  <2> QED
    BY <2>1, <2>2, <2>3, <2>4, SignIs
<1>2. CASE x.t = "int" /\ y.t = "float"
  <2>1. x.n \in -IntLimit..(IntLimit - 1) /\ y.n \in Int
    BY <1>2 DEF Numeric, IsOfWidth
  <2>2. Compare(x, y) = IntFloat(x.n, y.n)
    BY <1>2 DEF Compare
  <2>3. InHalves(x) = 2 * x.n /\ InHalves(y) = y.n
    BY <1>2 DEF InHalves
  <2> QED
    BY <2>1, <2>2, <2>3, IntFloatIs
<1>3. CASE x.t = "float" /\ y.t = "int"
  <2>1. y.n \in -IntLimit..(IntLimit - 1) /\ x.n \in Int
    BY <1>3 DEF Numeric, IsOfWidth
  <2>2. Compare(x, y) = -IntFloat(y.n, x.n)
    BY <1>3 DEF Compare
  <2>3. InHalves(x) = x.n /\ InHalves(y) = 2 * y.n
    BY <1>3 DEF InHalves
  <2>4. /\ IntFloat(y.n, x.n) \in {-1, 0, 1}
        /\ IntFloat(y.n, x.n) < 0 <=> 2 * y.n < x.n
        /\ IntFloat(y.n, x.n) > 0 <=> 2 * y.n > x.n
    BY <2>1, IntFloatIs
  <2>5. 2 * y.n \in Int
    BY <1>0, <2>1
  <2> QED
    BY <2>1, <2>2, <2>3, <2>4, <2>5
<1> QED
  BY <1>1, <1>2, <1>3 DEF Numeric, IsNumber

-----------------------------------------------------------------------------
(* The distribution of some cells. *)

\* Numbers that agree have the same sums.
LEMMA SumsAgree ==
  ASSUME NEW ns \in Seq(Nat), NEW ms \in Seq(Nat), NEW n \in 0..Len(ns), n <= Len(ms),
         \A i \in 1..n : ns[i] = ms[i]
  PROVE  Sums(ns)[n] = Sums(ms)[n]
<1> DEFINE S == {i \in 0..n : Sums(ns)[i] = Sums(ms)[i]}
<1>1. Len(ns) \in Nat /\ Len(ms) \in Nat /\ n \in Nat /\ \A i \in 1..n : i \in 1..Len(ns) /\ i \in 1..Len(ms)
  OBVIOUS
<1>2. 0 \in S
  BY <1>1, SumsAre
<1>3. ASSUME NEW i \in 1..n, i - 1 \in S PROVE i \in S
  <2>1. Sums(ns)[i] = Sums(ns)[i - 1] + ns[i] /\ Sums(ms)[i] = Sums(ms)[i - 1] + ms[i]
    BY <1>1, SumsAre
  <2> QED
    BY <1>3, <2>1
<1>4. n \in S
  <2>1. n \in Nat /\ n \in 0..n
    BY <1>1
  <2>2. \A i \in 1..n : i - 1 \in S => i \in S
    BY <1>3
  <2> HIDE DEF S
  <2>3. \A i \in 0..n : i \in S
    BY <1>2, <2>1, <2>2, UpTo
  <2> QED
    BY <2>1, <2>3
<1> QED
  BY <1>4

\* One number that is one larger makes the sum one larger.
LEMMA SumsBump ==
  ASSUME NEW ns \in Seq(Nat), NEW ms \in Seq(Nat), Len(ms) = Len(ns), NEW k \in 1..Len(ns),
         \A i \in 1..Len(ns) : ms[i] = IF i = k THEN ns[i] + 1 ELSE ns[i]
  PROVE  Sums(ms)[Len(ns)] = Sums(ns)[Len(ns)] + 1
<1> DEFINE n == Len(ns)
           S == {i \in 0..n : Sums(ms)[i] = Sums(ns)[i] + (IF i >= k THEN 1 ELSE 0)}
<1>1. n \in Nat /\ Len(ms) = n
  OBVIOUS
<1>2. 0 \in S
  BY <1>1, SumsAre
<1>3. ASSUME NEW i \in 1..n, i - 1 \in S PROVE i \in S
  <2>1. Sums(ns)[i] = Sums(ns)[i - 1] + ns[i] /\ Sums(ms)[i] = Sums(ms)[i - 1] + ms[i]
    BY <1>1, SumsAre
  <2>0. i - 1 \in 0..n /\ ns[i] \in Nat
    BY <1>1
  <2>2. Sums(ns)[i - 1] \in Nat
    BY <2>0, SumsAre
  <2>3. Sums(ms)[i - 1] = Sums(ns)[i - 1] + (IF i - 1 >= k THEN 1 ELSE 0)
    BY <1>3
  <2>4. ms[i] = IF i = k THEN ns[i] + 1 ELSE ns[i]
    OBVIOUS
  <2>5. Sums(ms)[i] = Sums(ns)[i] + (IF i >= k THEN 1 ELSE 0)
    <3>0. i \in Nat /\ k \in Nat
      BY <1>1
    <3>1. CASE i = k
      <4>1. ms[i] = ns[i] + 1 /\ Sums(ms)[i - 1] = Sums(ns)[i - 1]
        BY <2>2, <2>3, <2>4, <3>0, <3>1
      <4>2. Sums(ms)[i] = Sums(ns)[i] + 1
        <5> DEFINE p == Sums(ns)[i - 1]
                   q == ns[i]
        <5>1. p \in Nat /\ q \in Nat /\ Sums(ms)[i] = p + (q + 1) /\ Sums(ns)[i] = p + q
          BY <2>0, <2>1, <2>2, <4>1
        <5> HIDE DEF p, q, S
        <5> QED
          BY <5>1
      <4> QED
        BY <3>0, <3>1, <4>2
    <3>2. CASE i < k
      BY <2>0, <2>1, <2>2, <2>3, <2>4, <3>0, <3>2
    <3>3. CASE i > k
      BY <2>0, <2>1, <2>2, <2>3, <2>4, <3>0, <3>3, SMTT(30)
    <3> QED
      BY <3>0, <3>1, <3>2, <3>3
  <2> QED
    BY <2>5
<1>4. n \in S
  <2>1. n \in Nat /\ n \in 0..n
    BY <1>1
  <2>2. \A i \in 1..n : i - 1 \in S => i \in S
    BY <1>3
  <2> HIDE DEF S, n
  <2>3. \A i \in 0..n : i \in S
    BY <1>2, <2>1, <2>2, UpTo
  <2> QED
    BY <2>1, <2>3
<1> QED
  BY <1>4

Category(V) == [value : V, count : Nat]
CountsOf(s) == [i \in DOMAIN s |-> s[i].count]
Counts(s) == Sums(CountsOf(s))[Len(s)]

LEMMA CountsAre ==
  ASSUME NEW V, NEW s \in Seq(Category(V))
  PROVE  CountsOf(s) \in Seq(Nat) /\ Len(CountsOf(s)) = Len(s) /\ Counts(s) \in Nat
<1> DEFINE C == Category(V)
<1>1. \A c \in C : c.count \in Nat
  BY DEF Category
<1> HIDE DEF C
<1>2. Len(s) \in Nat /\ DOMAIN s = 1..Len(s) /\ \A i \in 1..Len(s) : s[i] \in C
  BY DEF C
<1>3. CountsOf(s) \in Seq(Nat) /\ Len(CountsOf(s)) = Len(s)
  BY <1>1, <1>2 DEF CountsOf
<1> QED
  BY <1>2, <1>3, SumsAre DEF Counts

Bounds(V) == {v \in V : Numeric(v)} \cup {Unbounded}
Found(V) ==
  [min : Bounds(V), max : Bounds(V), null : Nat, missing : Nat, unavailable : Nat,
   categories : Seq(Category(V)), other : Nat]
OnceEach(s) == \A a, b \in 1..Len(s) : s[a].value = s[b].value => a = b
\* What counting one more of v does to the categories.
CountsMore(s, t, v) ==
  \/ \E a \in 1..Len(s) : s[a].value = v /\ t = [s EXCEPT ![a].count = @ + 1]
  \/ /\ \A a \in 1..Len(s) : s[a].value # v
     /\ \/ Len(s) < MaxCategories /\ t = Append(s, [value |-> v, count |-> 1])
        \/ Len(s) >= MaxCategories /\ t = s

\* A category that is counted once more, or a new one.
LEMMA CategoriesKeep ==
  ASSUME NEW V, NEW s \in Seq(Category(V)), NEW v \in V
  PROVE  /\ \A a \in 1..Len(s) : LET t == [s EXCEPT ![a].count = @ + 1]
                                 IN  t \in Seq(Category(V)) /\ Counts(t) = Counts(s) + 1
         /\ LET t == Append(s, [value |-> v, count |-> 1])
            IN  t \in Seq(Category(V)) /\ Counts(t) = Counts(s) + 1
<1> DEFINE C == Category(V)
<1>0. \A c \in C : c.count \in Nat /\ [c EXCEPT !.count = @ + 1] \in C /\ [c EXCEPT !.count = @ + 1].count = c.count + 1
  BY DEF Category
<1>1. [value |-> v, count |-> 1] \in C
  BY DEF Category
<1> DEFINE one == [value |-> v, count |-> 1]
<1>2. one.count = 1
  OBVIOUS
<1> HIDE DEF C, one
<1>3. s \in Seq(C) /\ Len(s) \in Nat /\ DOMAIN s = 1..Len(s) /\ \A i \in 1..Len(s) : s[i] \in C
  BY DEF C
<1>4. ASSUME NEW a \in 1..Len(s)
      PROVE  LET t == [s EXCEPT ![a].count = @ + 1] IN t \in Seq(C) /\ Counts(t) = Counts(s) + 1
  <2> DEFINE t == [s EXCEPT ![a] = [s[a] EXCEPT !.count = @ + 1]]
  <2>1. t = [s EXCEPT ![a].count = @ + 1]
    OBVIOUS
  <2>2. t \in Seq(C) /\ Len(t) = Len(s) /\ \A i \in 1..Len(s) : t[i] = IF i = a THEN [s[a] EXCEPT !.count = @ + 1] ELSE s[i]
    BY <1>0, <1>3
  <2> HIDE DEF t
  <2>3. /\ CountsOf(t) \in Seq(Nat) /\ Len(CountsOf(t)) = Len(t)
        /\ CountsOf(s) \in Seq(Nat) /\ Len(CountsOf(s)) = Len(s)
    BY <1>3, <2>2, CountsAre DEF C
  <2>4. \A i \in 1..Len(s) : CountsOf(t)[i] = IF i = a THEN CountsOf(s)[i] + 1 ELSE CountsOf(s)[i]
    <3>1. DOMAIN t = 1..Len(s)
      BY <2>2
    <3>2. \A i \in 1..Len(s) : CountsOf(t)[i] = t[i].count /\ CountsOf(s)[i] = s[i].count
      BY <1>3, <3>1 DEF CountsOf
    <3> SUFFICES ASSUME NEW i \in 1..Len(s) PROVE CountsOf(t)[i] = IF i = a THEN CountsOf(s)[i] + 1 ELSE CountsOf(s)[i]
      OBVIOUS
    <3>3. s[i] \in C /\ s[a] \in C /\ t[i] = IF i = a THEN [s[a] EXCEPT !.count = @ + 1] ELSE s[i]
      BY <1>3, <2>2
    <3>4. [s[a] EXCEPT !.count = @ + 1].count = s[a].count + 1
      BY <1>0, <3>3
    <3> QED
      BY <3>2, <3>3, <3>4
  <2>5. Counts(t) = Counts(s) + 1
    <3> DEFINE ns == CountsOf(s)
               ms == CountsOf(t)
    <3>1. /\ ns \in Seq(Nat) /\ ms \in Seq(Nat) /\ Len(ns) = Len(s) /\ Len(ms) = Len(ns) /\ a \in 1..Len(ns)
          /\ \A i \in 1..Len(ns) : ms[i] = IF i = a THEN ns[i] + 1 ELSE ns[i]
      BY <2>2, <2>3, <2>4
    <3>2. Counts(s) = Sums(ns)[Len(ns)] /\ Counts(t) = Sums(ms)[Len(ns)]
      BY <2>2, <2>3 DEF Counts
    <3> HIDE DEF ns, ms
    <3>3. Sums(ms)[Len(ns)] = Sums(ns)[Len(ns)] + 1
      BY <3>1, SumsBump
    <3> QED
      BY <3>2, <3>3
  <2> QED
    BY <2>1, <2>2, <2>5
<1>5. Append(s, one) \in Seq(C) /\ Counts(Append(s, one)) = Counts(s) + 1
  <2> DEFINE t == Append(s, one)
  <2>1. t \in Seq(C) /\ Len(t) = Len(s) + 1 /\ t[Len(s) + 1] = one /\ \A i \in 1..Len(s) : t[i] = s[i]
    BY <1>1, <1>3 DEF one
  <2> HIDE DEF t
  <2>2. /\ CountsOf(t) \in Seq(Nat) /\ Len(CountsOf(t)) = Len(t)
        /\ CountsOf(s) \in Seq(Nat) /\ Len(CountsOf(s)) = Len(s)
    BY <1>3, <2>1, CountsAre DEF C
  <2>3. DOMAIN t = 1..(Len(s) + 1)
    BY <1>3, <2>1
  <2>4. \A i \in 1..Len(s) : CountsOf(t)[i] = CountsOf(s)[i]
    BY <1>3, <2>1, <2>3 DEF CountsOf
  <2>5. Len(s) + 1 \in DOMAIN t /\ CountsOf(t)[Len(s) + 1] = 1
    BY <1>2, <1>3, <2>1, <2>3 DEF CountsOf
  <2>6. Sums(CountsOf(t))[Len(s)] = Sums(CountsOf(s))[Len(s)]
    <3> DEFINE ns == CountsOf(s)
               ms == CountsOf(t)
               n == Len(s)
    <3>1. /\ ns \in Seq(Nat) /\ ms \in Seq(Nat) /\ n \in 0..Len(ns) /\ n <= Len(ms)
          /\ \A i \in 1..n : ms[i] = ns[i]
      BY <1>3, <2>1, <2>2, <2>4
    <3> HIDE DEF ns, ms, n
    <3>2. Sums(ns)[n] = Sums(ms)[n]
      BY <3>1, SumsAgree
    <3> QED
      BY <3>2 DEF ns, ms, n
  <2>7. Sums(CountsOf(t))[Len(s) + 1] = Sums(CountsOf(t))[(Len(s) + 1) - 1] + CountsOf(t)[Len(s) + 1]
    BY <1>3, <2>1, <2>2, SumsAre
  <2>8. Counts(t) = Counts(s) + 1
    BY <1>3, <2>1, <2>5, <2>6, <2>7 DEF Counts
  <2> QED
    BY <2>1, <2>8 DEF t
<1> QED
  BY <1>4, <1>5 DEF C, one

LEMMA CountOneIs ==
  ASSUME NEW V, NEW out \in Found(V), NEW v \in V
  PROVE  LET more == CountOne(out, v)
         IN  /\ more \in Found(V) /\ more.min = out.min /\ more.max = out.max /\ more.null = out.null
             /\ more.missing = out.missing /\ more.unavailable = out.unavailable
             /\ more.other + Counts(more.categories) = out.other + Counts(out.categories) + 1
             /\ CountsMore(out.categories, more.categories, v)
<1> DEFINE s == out.categories
           at == {i \in DOMAIN s : s[i].value = v}
           C == Seq(Category(V))
           B == Bounds(V)
           F == [min : B, max : B, null : Nat, missing : Nat, unavailable : Nat, categories : C, other : Nat]
           more == CountOne(out, v)
<1>1. out \in F /\ Found(V) = F
  BY DEF Found
<1>2. s \in Seq(Category(V)) /\ Len(s) \in Nat /\ DOMAIN s = 1..Len(s) /\ MaxCategories \in Nat
  BY FilterAssumption DEF Found
<1>3. /\ more = CASE at # {} -> [out EXCEPT !.categories[Min(at)].count = @ + 1]
                  [] at = {} /\ Len(s) < MaxCategories ->
                       [out EXCEPT !.categories = Append(@, [value |-> v, count |-> 1])]
                  [] at = {} /\ Len(s) >= MaxCategories -> [out EXCEPT !.other = @ + 1]
  BY DEF CountOne
<1>4. Counts(s) \in Nat
  BY <1>2, CountsAre
<1> SUFFICES /\ more \in F /\ more.min = out.min /\ more.max = out.max /\ more.null = out.null
             /\ more.missing = out.missing /\ more.unavailable = out.unavailable
             /\ more.other + Counts(more.categories) = out.other + Counts(s) + 1
             /\ CountsMore(s, more.categories, v)
  BY <1>1
<1>5. ASSUME NEW t \in C, more = [out EXCEPT !.categories = t]
      PROVE  /\ more \in F /\ more.min = out.min /\ more.max = out.max /\ more.null = out.null
             /\ more.missing = out.missing /\ more.unavailable = out.unavailable /\ more.other = out.other
             /\ more.categories = t
  <2> HIDE DEF more, C, B
  <2> QED
    BY <1>1, <1>5
<1>6. CASE at # {}
  <2>1. Min(at) \in at
    <3> HIDE DEF at
    <3>1. at \in SUBSET Nat
      BY <1>2 DEF at
    <3>2. PICK k \in at : \A j \in at : k <= j
      BY <1>6, <3>1, LeastOf
    <3> QED
      BY <3>2 DEF Min
  <2> DEFINE a == Min(at)
             t == [s EXCEPT ![a].count = @ + 1]
  <2>2. more = [out EXCEPT !.categories[a].count = @ + 1]
    BY <1>3, <1>6
  <2>3. a \in 1..Len(s) /\ s[a].value = v
    BY <1>2, <2>1
  <2> HIDE DEF a
  <2>4. t \in C /\ Counts(t) = Counts(s) + 1
    BY <1>2, <2>3, CategoriesKeep
  <2>5. more = [out EXCEPT !.categories = t]
    BY <2>2
  <2>6. CountsMore(s, t, v)
    BY <2>3 DEF CountsMore
  <2> HIDE DEF t, C, s, more, F
  <2>7. out.other \in Nat
    BY <1>1 DEF F
  <2> QED
    BY <1>4, <1>5, <2>4, <2>5, <2>6, <2>7
<1>7. CASE at = {} /\ Len(s) < MaxCategories
  <2> DEFINE t == Append(s, [value |-> v, count |-> 1])
  <2>1. more = [out EXCEPT !.categories = t]
    BY <1>2, <1>3, <1>7
  <2>2. t \in C /\ Counts(t) = Counts(s) + 1
    BY <1>2, CategoriesKeep
  <2>3. \A a \in 1..Len(s) : s[a].value # v
    BY <1>2, <1>7
  <2>4. CountsMore(s, t, v)
    BY <1>7, <2>3 DEF CountsMore
  <2> HIDE DEF t, C, s, more, F
  <2>7. out.other \in Nat
    BY <1>1 DEF F
  <2> QED
    BY <1>4, <1>5, <2>1, <2>2, <2>4, <2>7
<1>8. CASE at = {} /\ Len(s) >= MaxCategories
  <2>1. more = [out EXCEPT !.other = @ + 1]
    BY <1>2, <1>3, <1>8
  <2>2. \A a \in 1..Len(s) : s[a].value # v
    BY <1>2, <1>8
  <2>3. CountsMore(s, s, v)
    BY <1>8, <2>2 DEF CountsMore
  <2> HIDE DEF C, B, more
  <2>4. /\ more \in F /\ more.min = out.min /\ more.max = out.max /\ more.null = out.null
        /\ more.missing = out.missing /\ more.unavailable = out.unavailable /\ more.other = out.other + 1
        /\ more.categories = s /\ out.other \in Nat
    BY <1>1, <2>1
  <2> QED
    BY <1>4, <2>3, <2>4
<1> QED
  BY <1>2, <1>6, <1>7, <1>8

States == {"value", "null", "missing", "unavailable", "truncated"}
IsCell(c, V) == c.state \in States /\ (c.state = "value" => c.value \in V /\ IsOfWidth(c.value))

Times(cells, n, v) == {j \in 1..n : cells[j].state = "value" /\ cells[j].value = v}
NumbersAmong(cells, n) == {j \in 1..n : cells[j].state = "value" /\ IsNumber(cells[j].value)}

\* How the categories stand after n cells.
Tallied(cells, n, s) ==
  /\ OnceEach(s)
  /\ \A a \in 1..Len(s) : s[a].count = Cardinality(Times(cells, n, s[a].value))
  /\ Len(s) < MaxCategories =>
       \A j \in 1..n : cells[j].state = "value" => \E a \in 1..Len(s) : s[a].value = cells[j].value

TotalOf(out) == out.null + out.missing + out.unavailable + out.other + Counts(out.categories)

Observed(cells, V, n, out) ==
  /\ out \in Found(V)
  /\ TotalOf(out) = n
  /\ \A j \in NumbersAmong(cells, n) :
       /\ out.min # Unbounded /\ InHalves(out.min) <= InHalves(cells[j].value)
       /\ out.max # Unbounded /\ InHalves(cells[j].value) <= InHalves(out.max)
  /\ Tallied(cells, n, out.categories)

LEMMA TimesAre ==
  ASSUME NEW cells, NEW n \in Nat, NEW i \in 1..n, NEW v
  PROVE  /\ IsFiniteSet(Times(cells, i, v)) /\ Cardinality(Times(cells, i, v)) \in Nat
         /\ Cardinality(Times(cells, 0, v)) = 0
         /\ cells[i].state = "value" /\ cells[i].value = v =>
              Cardinality(Times(cells, i, v)) = Cardinality(Times(cells, i - 1, v)) + 1
         /\ ~(cells[i].state = "value" /\ cells[i].value = v) =>
              Times(cells, i, v) = Times(cells, i - 1, v)
         /\ (\A j \in 1..(i - 1) : cells[j].state = "value" => cells[j].value # v) => Cardinality(Times(cells, i - 1, v)) = 0
<1> DEFINE A == Times(cells, i, v)
           B == Times(cells, i - 1, v)
<1>1. A \in SUBSET (1..i) /\ B \in SUBSET (1..(i - 1)) /\ Times(cells, 0, v) = {}
  BY DEF Times
<1>2. IsFiniteSet(1..i) /\ IsFiniteSet(1..(i - 1))
  <2>1. i \in Int /\ i - 1 \in Int /\ 1 \in Int
    OBVIOUS
  <2> QED
    BY <2>1, FS_Interval
<1>3. IsFiniteSet(A) /\ IsFiniteSet(B)
  <2> HIDE DEF A, B
  <2> QED
    BY <1>1, <1>2, FS_Subset
<1>4. ASSUME cells[i].state = "value", cells[i].value = v PROVE A = B \cup {i} /\ i \notin B
  BY <1>4 DEF Times
<1>5. ASSUME ~(cells[i].state = "value" /\ cells[i].value = v) PROVE A = B
  <2>1. \A j \in 1..i : j = i \/ j \in 1..(i - 1)
    OBVIOUS
  <2> QED
    BY <1>5, <2>1 DEF Times
<1>6. (\A j \in 1..(i - 1) : cells[j].state = "value" => cells[j].value # v) => B = {}
  BY DEF Times
<1>7. Cardinality(A) \in Nat /\ Cardinality(B) \in Nat
  <2> HIDE DEF A, B
  <2> QED
    BY <1>3, FS_CardinalityType
<1>8. ASSUME cells[i].state = "value", cells[i].value = v PROVE Cardinality(A) = Cardinality(B) + 1
  <2>1. A = B \cup {i} /\ i \notin B
    BY <1>4, <1>8
  <2> HIDE DEF A, B
  <2> QED
    BY <1>3, <2>1, FS_AddElement
<1>9. Cardinality({}) = 0
  BY FS_EmptySet
<1> QED
  BY <1>1, <1>3, <1>5, <1>6, <1>7, <1>8, <1>9

\* A cell that has no value counts as none.
LEMMA TallySkips ==
  ASSUME NEW cells, NEW n \in Nat, NEW i \in 1..n, NEW s, Len(s) \in Nat, Tallied(cells, i - 1, s), cells[i].state # "value"
  PROVE  Tallied(cells, i, s)
<1>1. \A a \in 1..Len(s) : Times(cells, i, s[a].value) = Times(cells, i - 1, s[a].value)
  BY TimesAre
<1>2. \A j \in 1..i : j = i \/ j \in 1..(i - 1)
  OBVIOUS
<1> QED
  BY <1>1, <1>2 DEF Tallied

LEMMA TallyCounts ==
  ASSUME NEW cells, NEW n \in Nat, NEW i \in 1..n, NEW V, NEW s \in Seq(Category(V)), NEW t,
         Tallied(cells, i - 1, s), cells[i].state = "value", CountsMore(s, t, cells[i].value)
  PROVE  Tallied(cells, i, t)
<1> DEFINE v == cells[i].value
           C == Category(V)
           one == [value |-> v, count |-> 1]
<1>0. i \in Nat /\ \A j \in 1..i : j = i \/ j \in 1..(i - 1)
  OBVIOUS
<1>1. \A c \in C : /\ [c EXCEPT !.count = @ + 1].value = c.value
                   /\ [c EXCEPT !.count = @ + 1].count = c.count + 1
                   /\ c.count \in Nat
  BY DEF Category
<1>2. one.value = v /\ one.count = 1
  OBVIOUS
<1>3. s \in Seq(C) /\ Len(s) \in Nat /\ DOMAIN s = 1..Len(s) /\ \A a \in 1..Len(s) : s[a] \in C
  OBVIOUS
<1>4. OnceEach(s) /\ \A a \in 1..Len(s) : s[a].count = Cardinality(Times(cells, i - 1, s[a].value))
  BY DEF Tallied
<1>5. \A w : w # v => Times(cells, i, w) = Times(cells, i - 1, w)
  BY TimesAre
<1>6. Cardinality(Times(cells, i, v)) = Cardinality(Times(cells, i - 1, v)) + 1
  BY TimesAre
<1> HIDE DEF C, one
<1>7. CASE \E a \in 1..Len(s) : s[a].value = v /\ t = [s EXCEPT ![a].count = @ + 1]
  <2>1. PICK a \in 1..Len(s) : s[a].value = v /\ t = [s EXCEPT ![a].count = @ + 1]
    BY <1>7
  <2> DEFINE x == [s[a] EXCEPT !.count = @ + 1]
  <2>2. x.value = s[a].value /\ x.count = s[a].count + 1
    BY <1>1, <1>3
  <2> HIDE DEF x
  <2>3. t = [s EXCEPT ![a] = x]
    BY <2>1 DEF x
  <2>4. Len(t) = Len(s) /\ \A b \in 1..Len(s) : t[b] = IF b = a THEN x ELSE s[b]
    BY <1>3, <2>3
  <2>5. \A b \in 1..Len(s) : t[b].value = s[b].value
    BY <2>2, <2>4
  <2>6. OnceEach(t)
    BY <1>4, <2>4, <2>5 DEF OnceEach
  <2>7. ASSUME NEW b \in 1..Len(t) PROVE t[b].count = Cardinality(Times(cells, i, t[b].value))
    <3>1. CASE b = a
      BY <1>4, <1>6, <2>1, <2>2, <2>4, <3>1
    <3>2. CASE b # a
      <4>1. s[b].value # v
        BY <1>4, <2>1, <2>4, <3>2 DEF OnceEach
      <4> QED
        BY <1>4, <1>5, <2>4, <3>2, <4>1
    <3> QED
      BY <3>1, <3>2
  <2>8. ASSUME Len(t) < MaxCategories, NEW j \in 1..i, cells[j].state = "value"
        PROVE  \E b \in 1..Len(t) : t[b].value = cells[j].value
    <3>1. CASE j = i
      BY <2>1, <2>4, <2>5, <3>1
    <3>2. CASE j \in 1..(i - 1)
      <4>1. PICK b \in 1..Len(s) : s[b].value = cells[j].value
        BY <2>4, <2>8, <3>2 DEF Tallied
      <4> QED
        BY <2>4, <2>5, <4>1
    <3> QED
      BY <1>0, <3>1, <3>2
  <2> QED
    BY <2>6, <2>7, <2>8 DEF Tallied
<1>8. ASSUME \A a \in 1..Len(s) : s[a].value # v, Len(s) < MaxCategories, t = Append(s, one) PROVE Tallied(cells, i, t)
  <2>1. Len(t) = Len(s) + 1 /\ t[Len(s) + 1] = one /\ \A a \in 1..Len(s) : t[a] = s[a]
    BY <1>3, <1>8
  <2>2. \A a \in 1..Len(t) : a = Len(s) + 1 \/ a \in 1..Len(s)
    BY <1>3, <2>1
  <2>3. OnceEach(t)
    BY <1>2, <1>4, <1>8, <2>1, <2>2 DEF OnceEach
  <2>4. \A j \in 1..(i - 1) : cells[j].state = "value" => cells[j].value # v
    BY <1>8 DEF Tallied
  <2>5. Cardinality(Times(cells, i - 1, v)) = 0
    BY <2>4, TimesAre
  <2>6. ASSUME NEW b \in 1..Len(t) PROVE t[b].count = Cardinality(Times(cells, i, t[b].value))
    <3>1. CASE b = Len(s) + 1
      BY <1>2, <1>6, <2>1, <2>5, <3>1
    <3>2. CASE b \in 1..Len(s)
      BY <1>4, <1>5, <1>8, <2>1, <3>2
    <3> QED
      BY <2>2, <3>1, <3>2
  <2>7. ASSUME NEW j \in 1..i, cells[j].state = "value" PROVE \E b \in 1..Len(t) : t[b].value = cells[j].value
    <3>1. CASE j = i
      <4>1. Len(s) + 1 \in 1..Len(t)
        BY <1>3, <2>1
      <4> QED
        BY <1>2, <2>1, <3>1, <4>1
    <3>2. CASE j \in 1..(i - 1)
      <4>1. PICK b \in 1..Len(s) : s[b].value = cells[j].value
        BY <1>8, <2>7, <3>2 DEF Tallied
      <4>2. b \in 1..Len(t)
        BY <1>3, <2>1
      <4> QED
        BY <2>1, <4>1, <4>2
    <3> QED
      BY <1>0, <3>1, <3>2
  <2> QED
    BY <2>3, <2>6, <2>7 DEF Tallied
<1>9. ASSUME \A a \in 1..Len(s) : s[a].value # v, Len(s) >= MaxCategories, t = s PROVE Tallied(cells, i, t)
  <2>1. \A a \in 1..Len(s) : s[a].count = Cardinality(Times(cells, i, s[a].value))
    BY <1>4, <1>5, <1>9
  <2>2. ~(Len(s) < MaxCategories)
    BY <1>3, <1>9, FilterAssumption
  <2> QED
    BY <1>4, <1>9, <2>1, <2>2 DEF Tallied
<1> QED
  BY <1>7, <1>8, <1>9 DEF CountsMore, one

\* The range a number widens.
Widened(out, v) ==
  [out EXCEPT !.min = IF @ = Unbounded \/ Compare(v, @) < 0 THEN v ELSE @,
              !.max = IF @ = Unbounded \/ Compare(v, @) > 0 THEN v ELSE @]

LEMMA WidenedIs ==
  ASSUME NEW V, NEW out \in Found(V), NEW v \in V, Numeric(v)
  PROVE  LET w == Widened(out, v)
         IN  /\ w \in Found(V) /\ w.null = out.null /\ w.missing = out.missing
             /\ w.unavailable = out.unavailable /\ w.other = out.other /\ w.categories = out.categories
             /\ w.min # Unbounded /\ InHalves(w.min) <= InHalves(v)
             /\ w.max # Unbounded /\ InHalves(v) <= InHalves(w.max)
             /\ out.min # Unbounded => InHalves(w.min) <= InHalves(out.min)
             /\ out.max # Unbounded => InHalves(out.max) <= InHalves(w.max)
<1> DEFINE C == Seq(Category(V))
           B == Bounds(V)
           F == [min : B, max : B, null : Nat, missing : Nat, unavailable : Nat, categories : C, other : Nat]
           w == Widened(out, v)
           least == IF out.min = Unbounded \/ Compare(v, out.min) < 0 THEN v ELSE out.min
           most == IF out.max = Unbounded \/ Compare(v, out.max) > 0 THEN v ELSE out.max
<1>1. out \in F /\ Found(V) = F
  BY DEF Found
<1>2. v \in B /\ v # Unbounded
  BY DEF Bounds, Unbounded, Numeric, IsNumber
<1>3. out.min \in B /\ out.max \in B
  <2> HIDE DEF B, C
  <2> QED
    BY <1>1
<1>4. \A b \in B : b # Unbounded => Numeric(b)
  BY DEF Bounds
<1>5. \A b : Numeric(b) => InHalves(b) \in Int
  <2>1. IntLimit \in Nat
    BY FilterAssumption
  <2> QED
    BY <2>1 DEF Numeric, IsNumber, IsOfWidth, InHalves
<1>6. least \in B /\ most \in B
  <2> HIDE DEF B
  <2> QED
    BY <1>2, <1>3
<1>7. w = [out EXCEPT !.min = least, !.max = most]
  BY DEF Widened
<1> HIDE DEF B, C, least, most, w
<1>8. /\ w \in F /\ w.null = out.null /\ w.missing = out.missing /\ w.unavailable = out.unavailable
      /\ w.other = out.other /\ w.categories = out.categories /\ w.min = least /\ w.max = most
  BY <1>1, <1>6, <1>7
<1>9. /\ least # Unbounded /\ InHalves(least) <= InHalves(v)
      /\ out.min # Unbounded => InHalves(least) <= InHalves(out.min)
  <2>1. CASE out.min = Unbounded
    BY <1>2, <1>5, <2>1 DEF least
  <2>2. CASE out.min # Unbounded
    <3>1. Numeric(out.min) /\ InHalves(out.min) \in Int /\ InHalves(v) \in Int
      BY <1>3, <1>4, <1>5, <2>2
    <3>2. Compare(v, out.min) < 0 <=> InHalves(v) < InHalves(out.min)
      BY <3>1, CompareIs
    <3> QED
      BY <1>2, <2>2, <3>1, <3>2 DEF least
  <2> QED
    BY <2>1, <2>2
<1>10. /\ most # Unbounded /\ InHalves(v) <= InHalves(most)
       /\ out.max # Unbounded => InHalves(out.max) <= InHalves(most)
  <2>1. CASE out.max = Unbounded
    BY <1>2, <1>5, <2>1 DEF most
  <2>2. CASE out.max # Unbounded
    <3>1. Numeric(out.max) /\ InHalves(out.max) \in Int /\ InHalves(v) \in Int
      BY <1>3, <1>4, <1>5, <2>2
    <3>2. Compare(v, out.max) > 0 <=> InHalves(v) > InHalves(out.max)
      BY <3>1, CompareIs
    <3> QED
      BY <1>2, <2>2, <3>1, <3>2 DEF most
  <2> QED
    BY <2>1, <2>2
<1> QED
  BY <1>1, <1>8, <1>9, <1>10 DEF w

LEMMA FoundIs ==
  ASSUME NEW V, NEW out \in Found(V)
  PROVE  /\ out.null \in Nat /\ out.missing \in Nat /\ out.unavailable \in Nat /\ out.other \in Nat
         /\ out.categories \in Seq(Category(V)) /\ Len(out.categories) \in Nat /\ Counts(out.categories) \in Nat
         /\ out.min # Unbounded => Numeric(out.min) /\ InHalves(out.min) \in Int
         /\ out.max # Unbounded => Numeric(out.max) /\ InHalves(out.max) \in Int
<1>1. out.categories \in Seq(Category(V))
  BY DEF Found
<1>2. Len(out.categories) \in Nat /\ Counts(out.categories) \in Nat
  BY <1>1, CountsAre
<1>3. out.min \in Bounds(V) /\ out.max \in Bounds(V)
  BY DEF Found
<1>4. \A b \in Bounds(V) : b # Unbounded => Numeric(b) /\ InHalves(b) \in Int
  <2>1. IntLimit \in Nat
    BY FilterAssumption
  <2> QED
    BY <2>1 DEF Bounds, Numeric, IsNumber, IsOfWidth, InHalves
<1>5. out.null \in Nat /\ out.missing \in Nat /\ out.unavailable \in Nat /\ out.other \in Nat
  BY DEF Found
<1> QED
  BY <1>1, <1>2, <1>3, <1>4, <1>5

\* What observing a cell without a value does.
LEMMA NothingIs ==
  ASSUME NEW V, NEW out \in Found(V), NEW c, c.state \in States, c.state # "value"
  PROVE  LET more == Observe(out, c)
         IN  /\ more \in Found(V) /\ TotalOf(more) = TotalOf(out) + 1
             /\ more.min = out.min /\ more.max = out.max /\ more.categories = out.categories
<1> DEFINE C == Seq(Category(V))
           B == Bounds(V)
           F == [min : B, max : B, null : Nat, missing : Nat, unavailable : Nat, categories : C, other : Nat]
           more == Observe(out, c)
<1>1. out \in F /\ Found(V) = F
  BY DEF Found
<1>2. /\ out.null \in Nat /\ out.missing \in Nat /\ out.unavailable \in Nat /\ out.other \in Nat
      /\ Counts(out.categories) \in Nat
  BY FoundIs
<1> HIDE DEF C, B
<1>3. CASE c.state = "null"
  <2>1. more = [out EXCEPT !.null = @ + 1]
    BY <1>1, <1>3 DEF Observe
  <2> HIDE DEF more
  <2>2. /\ more \in F /\ more.null = out.null + 1 /\ more.missing = out.missing /\ more.unavailable = out.unavailable
        /\ more.other = out.other /\ more.min = out.min /\ more.max = out.max /\ more.categories = out.categories
    BY <1>1, <1>2, <2>1
  <2> QED
    BY <1>1, <1>2, <2>2 DEF TotalOf, more
<1>4. CASE c.state = "missing"
  <2>1. more = [out EXCEPT !.missing = @ + 1]
    BY <1>1, <1>4 DEF Observe
  <2> HIDE DEF more
  <2>2. /\ more \in F /\ more.null = out.null /\ more.missing = out.missing + 1 /\ more.unavailable = out.unavailable
        /\ more.other = out.other /\ more.min = out.min /\ more.max = out.max /\ more.categories = out.categories
    BY <1>1, <1>2, <2>1
  <2> QED
    BY <1>1, <1>2, <2>2 DEF TotalOf, more
<1>5. CASE c.state \in {"unavailable", "truncated"}
  <2>1. more = [out EXCEPT !.unavailable = @ + 1]
    BY <1>5 DEF Observe
  <2> HIDE DEF more
  <2>2. /\ more \in F /\ more.null = out.null /\ more.missing = out.missing /\ more.unavailable = out.unavailable + 1
        /\ more.other = out.other /\ more.min = out.min /\ more.max = out.max /\ more.categories = out.categories
    BY <1>1, <1>2, <2>1
  <2> QED
    BY <1>1, <1>2, <2>2 DEF TotalOf, more
<1> QED
  BY <1>3, <1>4, <1>5 DEF States

LEMMA SomethingIs ==
  ASSUME NEW V, NEW out \in Found(V), NEW c, IsCell(c, V), c.state = "value"
  PROVE  LET more == Observe(out, c)
         IN  /\ more \in Found(V) /\ TotalOf(more) = TotalOf(out) + 1
             /\ CountsMore(out.categories, more.categories, c.value)
             /\ IsNumber(c.value) =>
                  /\ more.min # Unbounded /\ InHalves(more.min) <= InHalves(c.value)
                  /\ more.max # Unbounded /\ InHalves(c.value) <= InHalves(more.max)
             /\ out.min # Unbounded => more.min # Unbounded /\ InHalves(more.min) <= InHalves(out.min)
             /\ out.max # Unbounded => more.max # Unbounded /\ InHalves(out.max) <= InHalves(more.max)
<1> DEFINE more == Observe(out, c)
           v == c.value
           base == IF IsNumber(v) THEN Widened(out, v) ELSE out
<1>1. v \in V /\ (IsNumber(v) => Numeric(v))
  BY DEF IsCell, Numeric
<1>2. more = CountOne(base, v)
  BY DEF Observe, Widened
<1>3. /\ base \in Found(V) /\ base.null = out.null /\ base.missing = out.missing
      /\ base.unavailable = out.unavailable /\ base.other = out.other /\ base.categories = out.categories
      /\ IsNumber(v) => /\ base.min # Unbounded /\ InHalves(base.min) <= InHalves(v)
                        /\ base.max # Unbounded /\ InHalves(v) <= InHalves(base.max)
      /\ out.min # Unbounded => base.min # Unbounded /\ InHalves(base.min) <= InHalves(out.min)
      /\ out.max # Unbounded => base.max # Unbounded /\ InHalves(out.max) <= InHalves(base.max)
  <2>1. CASE IsNumber(v)
    <3>1. base = Widened(out, v)
      BY <2>1
    <3> HIDE DEF base, v
    <3> QED
      BY <1>1, <2>1, <3>1, WidenedIs
  <2>2. CASE ~IsNumber(v)
    <3>1. base = out
      BY <2>2
    <3> HIDE DEF base, v
    <3> QED
      BY <2>2, <3>1, FoundIs
  <2> QED
    BY <2>1, <2>2
<1> HIDE DEF base, more, v
<1>4. /\ more \in Found(V) /\ more.min = base.min /\ more.max = base.max /\ more.null = base.null
      /\ more.missing = base.missing /\ more.unavailable = base.unavailable
      /\ more.other + Counts(more.categories) = base.other + Counts(base.categories) + 1
      /\ CountsMore(base.categories, more.categories, v)
  BY <1>1, <1>2, <1>3, CountOneIs
<1>5. /\ out.null \in Nat /\ out.missing \in Nat /\ out.unavailable \in Nat /\ out.other \in Nat
      /\ Counts(out.categories) \in Nat /\ more.other \in Nat /\ Counts(more.categories) \in Nat
  BY <1>4, FoundIs
<1>6. TotalOf(more) = TotalOf(out) + 1
  <2> DEFINE p == Counts(more.categories)
             q == Counts(out.categories)
  <2>1. /\ more.null = out.null /\ more.missing = out.missing /\ more.unavailable = out.unavailable
        /\ more.other + p = out.other + q + 1 /\ p \in Nat /\ q \in Nat
    BY <1>3, <1>4, <1>5
  <2>2. TotalOf(more) = more.null + more.missing + more.unavailable + more.other + p
    BY DEF TotalOf
  <2>3. TotalOf(out) = out.null + out.missing + out.unavailable + out.other + q
    BY DEF TotalOf
  <2> HIDE DEF p, q
  <2> QED
    BY <1>5, <2>1, <2>2, <2>3
<1>7. /\ CountsMore(out.categories, more.categories, v)
      /\ IsNumber(v) => /\ more.min # Unbounded /\ InHalves(more.min) <= InHalves(v)
                        /\ more.max # Unbounded /\ InHalves(v) <= InHalves(more.max)
      /\ out.min # Unbounded => more.min # Unbounded /\ InHalves(more.min) <= InHalves(out.min)
      /\ out.max # Unbounded => more.max # Unbounded /\ InHalves(out.max) <= InHalves(more.max)
  BY <1>3, <1>4
<1> QED
  BY <1>4, <1>6, <1>7 DEF more, v

LEMMA ObserveKeeps ==
  ASSUME NEW cells, NEW n \in Nat, NEW i \in 1..n, NEW V, NEW out, Observed(cells, V, i - 1, out),
         \A j \in 1..n : IsCell(cells[j], V)
  PROVE  Observed(cells, V, i, Observe(out, cells[i]))
<1> DEFINE c == cells[i]
           more == Observe(out, c)
<1>1. out \in Found(V) /\ TotalOf(out) = i - 1 /\ c.state \in States /\ IsCell(c, V)
  BY DEF Observed, IsCell
<1>2. \A j \in NumbersAmong(cells, i - 1) :
       /\ out.min # Unbounded /\ InHalves(out.min) <= InHalves(cells[j].value)
       /\ out.max # Unbounded /\ InHalves(cells[j].value) <= InHalves(out.max)
  BY DEF Observed
<1>3. Tallied(cells, i - 1, out.categories) /\ out.categories \in Seq(Category(V)) /\ Len(out.categories) \in Nat
  BY <1>1, FoundIs DEF Observed
<1>4. \A j \in 1..i : j = i \/ j \in 1..(i - 1)
  OBVIOUS
<1>5. CASE c.state # "value"
  <2>1. /\ more \in Found(V) /\ TotalOf(more) = TotalOf(out) + 1
        /\ more.min = out.min /\ more.max = out.max /\ more.categories = out.categories
    BY <1>1, <1>5, NothingIs
  <2>2. Tallied(cells, i, out.categories)
    BY <1>3, <1>5, TallySkips
  <2>3. NumbersAmong(cells, i) \subseteq NumbersAmong(cells, i - 1)
    BY <1>4, <1>5 DEF NumbersAmong
  <2>4. TotalOf(more) = i
    BY <1>1, <2>1
  <2> HIDE DEF more
  <2> QED
    BY <1>2, <2>1, <2>2, <2>3, <2>4 DEF Observed, more
<1>6. CASE c.state = "value"
  <2>1. /\ more \in Found(V) /\ TotalOf(more) = TotalOf(out) + 1
        /\ CountsMore(out.categories, more.categories, c.value)
        /\ IsNumber(c.value) =>
             /\ more.min # Unbounded /\ InHalves(more.min) <= InHalves(c.value)
             /\ more.max # Unbounded /\ InHalves(c.value) <= InHalves(more.max)
        /\ out.min # Unbounded => more.min # Unbounded /\ InHalves(more.min) <= InHalves(out.min)
        /\ out.max # Unbounded => more.max # Unbounded /\ InHalves(out.max) <= InHalves(more.max)
    BY <1>1, <1>6, SomethingIs
  <2> HIDE DEF more
  <2>2. Tallied(cells, i, more.categories)
    BY <1>3, <1>6, <2>1, TallyCounts
  <2>3. TotalOf(more) = i
    BY <1>1, <2>1
  <2>4. ASSUME NEW j \in NumbersAmong(cells, i)
        PROVE  /\ more.min # Unbounded /\ InHalves(more.min) <= InHalves(cells[j].value)
               /\ more.max # Unbounded /\ InHalves(cells[j].value) <= InHalves(more.max)
    <3>1. CASE j = i
      BY <2>1, <3>1 DEF NumbersAmong
    <3>2. CASE j # i
      <4>1. j \in NumbersAmong(cells, i - 1)
        BY <1>4, <3>2 DEF NumbersAmong
      <4>2. /\ out.min # Unbounded /\ InHalves(out.min) <= InHalves(cells[j].value)
            /\ out.max # Unbounded /\ InHalves(cells[j].value) <= InHalves(out.max)
        BY <1>2, <4>1
      <4>3. InHalves(out.min) \in Int /\ InHalves(out.max) \in Int /\ InHalves(more.min) \in Int /\ InHalves(more.max) \in Int
        BY <1>1, <2>1, <4>2, FoundIs
      <4>4. InHalves(cells[j].value) \in Int
        <5>1. j \in 1..n /\ IntLimit \in Nat
          BY FilterAssumption DEF NumbersAmong
        <5>2. cells[j].state = "value" /\ IsNumber(cells[j].value)
          BY DEF NumbersAmong
        <5>3. IsOfWidth(cells[j].value)
          BY <5>1, <5>2 DEF IsCell
        <5> QED
          BY <5>1, <5>2, <5>3 DEF IsNumber, IsOfWidth, InHalves
      <4> QED
        BY <2>1, <4>2, <4>3, <4>4
    <3> QED
      BY <3>1, <3>2
  <2> QED
    BY <2>1, <2>2, <2>3, <2>4 DEF Observed, more
<1> QED
  BY <1>5, <1>6

\* Whatever the cells, all of them are observed.
LEMMA DistributionIs ==
  ASSUME NEW A, NEW cells \in Seq(A), NEW V, \A i \in 1..Len(cells) : IsCell(cells[i], V)
  PROVE  Observed(cells, V, Len(cells), Distribution(cells))
<1> DEFINE n == Len(cells)
           F == Found(V)
           next(out, i) == Observe(out, cells[i])
           op == [p \in F \X (1..n) |-> next(p[1], p[2])]
           R(f) == f = [i \in 0..n |-> IF i = 0 THEN NothingObserved ELSE next(f[i - 1], i)]
<1>1. n \in Nat
  OBVIOUS
<1>2. \A out \in F, i \in 1..n : next(out, i) \in F
  <2> SUFFICES ASSUME NEW out \in F, NEW i \in 1..n PROVE Observe(out, cells[i]) \in F
    OBVIOUS
  <2>1. IsCell(cells[i], V) /\ cells[i].state \in States
    BY DEF IsCell
  <2> QED
    BY <2>1, NothingIs, SomethingIs
<1>3. op \in StepsOf(F, n)
  <2> HIDE DEF next, F
  <2> QED
    BY <1>2 DEF StepsOf
<1>4. NothingObserved \in F /\ Counts(NothingObserved.categories) = 0 /\ NothingObserved.categories = <<>>
  <2>1. NothingObserved \in F
    BY DEF NothingObserved, Found, Bounds
  <2>2. NothingObserved.categories = <<>>
    BY DEF NothingObserved
  <2>3. CountsOf(<<>>) \in Seq(Nat) /\ Len(<<>>) = 0
    BY DEF CountsOf
  <2>4. Sums(CountsOf(<<>>))[0] = 0
    BY <2>3, SumsAre
  <2> QED
    BY <2>1, <2>2, <2>3, <2>4 DEF Counts
<1>5. PICK f : Follows(f, F, n, NothingObserved, op)
  <2> HIDE DEF op, F
  <2> QED
    BY <1>1, <1>3, <1>4, StepsExist
<1>6. R(f)
  <2> HIDE DEF next, F
  <2>1. \A i \in 1..n : f[i] = next(f[i - 1], i)
    <3> SUFFICES ASSUME NEW i \in 1..n PROVE f[i] = next(f[i - 1], i)
      OBVIOUS
    <3>0. i - 1 \in 0..n
      BY <1>1
    <3>1. f[i - 1] \in F /\ f[i] = op[<<f[i - 1], i>>]
      <4> HIDE DEF op
      <4> QED
        BY <1>5, <3>0 DEF Follows
    <3>2. <<f[i - 1], i>> \in F \X (1..n)
      BY <3>1
    <3> QED
      BY <3>1, <3>2
  <2>2. \A i \in 0..n : i = 0 \/ i \in 1..n
    BY <1>1
  <2>3. \A i \in 0..n : f[i] = IF i = 0 THEN NothingObserved ELSE next(f[i - 1], i)
    BY <1>5, <2>1, <2>2 DEF Follows
  <2>4. f = [i \in 0..n |-> f[i]]
    BY <1>5 DEF Follows
  <2> HIDE DEF op
  <2> QED
    BY <2>3, <2>4
<1> DEFINE g == CHOOSE h : R(h)
<1>7. R(g)
  BY <1>6
<1>8. Distribution(cells) = g[n]
  BY DEF Distribution, Carried
<1> HIDE DEF g
<1>9. g[0] = NothingObserved /\ \A i \in 1..n : g[i] = next(g[i - 1], i)
  <2> HIDE DEF next
  <2>1. \A i \in 0..n : g[i] = IF i = 0 THEN NothingObserved ELSE next(g[i - 1], i)
    BY <1>7
  <2>2. 0 \in 0..n /\ \A i \in 1..n : i \in 0..n /\ i # 0
    BY <1>1
  <2> QED
    BY <2>1, <2>2
<1> DEFINE S == {i \in 0..n : Observed(cells, V, i, g[i])}
<1>10. 0 \in S
  <2>1. TotalOf(NothingObserved) = 0
    BY <1>4 DEF TotalOf, NothingObserved
  <2>2. NumbersAmong(cells, 0) = {} /\ 1..0 = {}
    BY DEF NumbersAmong
  <2>3. Tallied(cells, 0, <<>>)
    <3>1. Len(<<>>) = 0
      OBVIOUS
    <3> QED
      BY <2>2, <3>1 DEF Tallied, OnceEach
  <2>4. Observed(cells, V, 0, NothingObserved)
    BY <1>4, <2>1, <2>2, <2>3 DEF Observed
  <2> QED
    BY <1>1, <1>9, <2>4
<1>11. ASSUME NEW i \in 1..n, i - 1 \in S PROVE i \in S
  <2>1. Observed(cells, V, i - 1, g[i - 1]) /\ g[i] = Observe(g[i - 1], cells[i])
    BY <1>9, <1>11
  <2>2. Observed(cells, V, i, g[i])
    BY <1>1, <2>1, ObserveKeeps
  <2> QED
    BY <2>2
<1>12. n \in S
  <2>1. n \in Nat /\ n \in 0..n
    BY <1>1
  <2>2. \A i \in 1..n : i - 1 \in S => i \in S
    BY <1>11
  <2> HIDE DEF S, n
  <2>3. \A i \in 0..n : i \in S
    BY <1>10, <2>1, <2>2, UpTo
  <2> QED
    BY <2>1, <2>3
<1> QED
  BY <1>8, <1>12

-----------------------------------------------------------------------------
(* A filter keeps what is in its range, and shows what it counted. *)

FieldValues(cells) == {cells[i].value : i \in {j \in 1..Len(cells) : cells[j].state = "value"}}
InRange(v, min, max) == /\ min = Unbounded \/ InHalves(min) <= InHalves(v)
                        /\ max = Unbounded \/ InHalves(v) <= InHalves(max)

LEMMA FieldsAre ==
  ASSUME NEW cells \in Fields
  PROVE  /\ cells \in Seq(ToSet(cells)) /\ Len(cells) \in Nat /\ DOMAIN cells = 1..Len(cells)
         /\ \A i \in 1..Len(cells) : IsCell(cells[i], FieldValues(cells))
<1>1. /\ cells \in Seq(ToSet(cells))
      /\ \A c \in ToSet(cells) : c.state \in States /\ (c.state = "value" => IsOfWidth(c.value))
  <2>1. cells \in Seq(ToSet(cells))
    BY FieldsAssumption, Zenon
  <2>2. ASSUME NEW c \in ToSet(cells) PROVE c.state \in States /\ (c.state = "value" => IsOfWidth(c.value))
    BY FieldsAssumption DEF States
  <2> QED
    BY <2>1, <2>2
<1>2. Len(cells) \in Nat /\ DOMAIN cells = 1..Len(cells)
  <2> DEFINE A == ToSet(cells)
  <2>1. cells \in Seq(A)
    BY <1>1
  <2> HIDE DEF A
  <2> QED
    BY <2>1
<1>3. \A i \in 1..Len(cells) : cells[i] \in ToSet(cells)
  BY <1>2 DEF ToSet
<1> QED
  BY <1>1, <1>2, <1>3 DEF IsCell, FieldValues

LEMMA RangeIs ==
  ASSUME NEW p \in Predicates, Admissible(p), p.kind = "range", NEW v, Numeric(v)
  PROVE  AtLeast(v, p.min) /\ AtMost(v, p.max) <=> InRange(v, p.min, p.max)
<1>1. IsOfWidth(p.min) /\ IsOfWidth(p.max)
  BY FieldsAssumption
<1>2. (p.min = Unbounded \/ Numeric(p.min)) /\ (p.max = Unbounded \/ Numeric(p.max))
  BY <1>1 DEF Admissible, Numeric
<1>3. \A b : Numeric(b) => InHalves(b) \in Int
  <2>1. IntLimit \in Nat
    BY FilterAssumption
  <2> QED
    BY <2>1 DEF Numeric, IsNumber, IsOfWidth, InHalves
<1>4. AtLeast(v, p.min) <=> p.min = Unbounded \/ InHalves(p.min) <= InHalves(v)
  <2>1. CASE p.min = Unbounded
    BY <2>1 DEF AtLeast
  <2>2. CASE p.min # Unbounded
    <3>1. Compare(v, p.min) \in {-1, 0, 1} /\ (Compare(v, p.min) < 0 <=> InHalves(v) < InHalves(p.min))
      BY <1>2, <2>2, CompareIs
    <3>2. InHalves(v) \in Int /\ InHalves(p.min) \in Int
      BY <1>2, <1>3, <2>2
    <3> QED
      BY <2>2, <3>1, <3>2 DEF AtLeast
  <2> QED
    BY <2>1, <2>2
<1>5. AtMost(v, p.max) <=> p.max = Unbounded \/ InHalves(v) <= InHalves(p.max)
  <2>1. CASE p.max = Unbounded
    BY <2>1 DEF AtMost
  <2>2. CASE p.max # Unbounded
    <3>1. Compare(v, p.max) \in {-1, 0, 1} /\ (Compare(v, p.max) > 0 <=> InHalves(v) > InHalves(p.max))
      BY <1>2, <2>2, CompareIs
    <3>2. InHalves(v) \in Int /\ InHalves(p.max) \in Int
      BY <1>2, <1>3, <2>2
    <3> QED
      BY <2>2, <3>1, <3>2 DEF AtMost
  <2> QED
    BY <2>1, <2>2
<1> QED
  BY <1>4, <1>5 DEF InRange

LEMMA FilteredIs ==
  ASSUME NEW cells \in Fields, NEW p \in Predicates, Filtered(cells, p) # Refused
  PROVE  LET a == Filtered(cells, p)
             found == a.found
             numbers == {i \in DOMAIN cells : cells[i].state = "value" /\ IsNumber(cells[i].value)}
         IN  /\ p.kind = "range" => \A i \in numbers : i \in a.kept <=> InRange(cells[i].value, p.min, p.max)
             /\ \A i \in numbers : InRange(cells[i].value, found.min, found.max)
             /\ found.null + found.missing + found.unavailable + found.other
                  + Sum(found.categories, LAMBDA c : c.count) = Len(cells)
             /\ \A c \in ToSet(found.categories) :
                  c.count = Cardinality({i \in DOMAIN cells : cells[i].state = "value" /\ cells[i].value = c.value})
<1> DEFINE a == Filtered(cells, p)
           found == Distribution(cells)
           n == Len(cells)
           V == FieldValues(cells)
           numbers == {i \in DOMAIN cells : cells[i].state = "value" /\ IsNumber(cells[i].value)}
<1>1. /\ Admissible(p) /\ a.found = found
      /\ a.kept = {i \in DOMAIN cells : CellMatches(cells[i], p)}
  BY DEF Filtered, Refused
<1>2. /\ cells \in Seq(ToSet(cells)) /\ n \in Nat /\ DOMAIN cells = 1..n
      /\ \A i \in 1..n : IsCell(cells[i], V)
  BY FieldsAre
<1>3. Observed(cells, V, n, found)
  BY <1>2, DistributionIs
<1>4. numbers = NumbersAmong(cells, n)
  BY <1>2 DEF NumbersAmong
<1>5. \A i \in numbers : Numeric(cells[i].value)
  BY <1>2 DEF IsCell, Numeric
<1>6. ASSUME p.kind = "range", NEW i \in numbers
      PROVE  i \in a.kept <=> InRange(cells[i].value, p.min, p.max)
  <2>1. p.include \subseteq {"null", "missing"}
    BY FieldsAssumption
  <2>2. i \in a.kept <=> AtLeast(cells[i].value, p.min) /\ AtMost(cells[i].value, p.max)
    BY <1>1, <1>6, <2>1 DEF CellMatches
  <2> QED
    BY <1>1, <1>5, <1>6, <2>2, RangeIs
<1>7. \A i \in numbers : InRange(cells[i].value, found.min, found.max)
  BY <1>3, <1>4 DEF Observed, InRange
<1>8. found.null + found.missing + found.unavailable + found.other + Counts(found.categories) = n
  BY <1>3 DEF Observed, TotalOf
<1>9. Sum(found.categories, LAMBDA c : c.count) = Counts(found.categories)
  BY DEF Sum, Counts, CountsOf
<1>10. ASSUME NEW c \in ToSet(found.categories)
       PROVE  c.count = Cardinality({i \in DOMAIN cells : cells[i].state = "value" /\ cells[i].value = c.value})
  <2> DEFINE s == found.categories
  <2>1. s \in Seq(Category(V)) /\ \A k \in 1..Len(s) : s[k].count = Cardinality(Times(cells, n, s[k].value))
    BY <1>3, FoundIs DEF Observed, Tallied
  <2> HIDE DEF s
  <2>2. DOMAIN s = 1..Len(s)
    BY <2>1
  <2>3. PICK k \in 1..Len(s) : c = s[k]
    BY <2>2 DEF ToSet, s
  <2>4. Times(cells, n, c.value) = {i \in DOMAIN cells : cells[i].state = "value" /\ cells[i].value = c.value}
    BY <1>2 DEF Times
  <2> QED
    BY <2>1, <2>3, <2>4
<1> HIDE DEF a, found, n
<1>11. Sum(a.found.categories, LAMBDA c : c.count) = Counts(found.categories)
  BY <1>1, <1>9
<1> QED
  BY <1>1, <1>6, <1>7, <1>8, <1>10, <1>11 DEF a, n

\* A filter is answered for the cells and the predicate that were sent.
FiltersHold == inquiry.kind = "filter" /\ answer # None => answer = Filtered(inquiry.cells, inquiry.predicate)

(***************************************************************************)
(* A range keeps exactly the numbers within it, however they are written,  *)
(* and the counts of a distribution are those of its cells (subset.rs),    *)
(* whatever the width of integers and the number of categories.            *)
(***************************************************************************)
THEOREM FiltersAreExactHolds == ReadSpec => []FiltersAreExact
<1>1. ReadInit => FiltersHold
  BY DEF ReadInit, FiltersHold, None
<1>2. Asked /\ FiltersHold /\ [ReadNext]_readVars => FiltersHold'
  <2> SUFFICES ASSUME FiltersHold, [ReadNext]_readVars PROVE FiltersHold'
    OBVIOUS
  <2>1. ASSUME NEW i \in Inquiries, Ask(i) PROVE FiltersHold'
    BY <2>1 DEF Ask, FiltersHold
  <2>2. ASSUME Receive, inquiry' = inquiry PROVE FiltersHold'
    BY <2>2, AnsweredBy DEF FiltersHold, FilterField, Answered
  <2>3. ASSUME UNCHANGED readVars PROVE FiltersHold'
    BY <2>3 DEF readVars, FiltersHold
  <2> QED
    BY <2>1, <2>2, <2>3, ReadingIs
<1>3. Asked /\ FiltersHold => FiltersAreExact
  <2> SUFFICES ASSUME Asked, FiltersHold, inquiry.kind = "filter", answer # None, answer # Refused
               PROVE  FiltersAreExact
    BY DEF FiltersAreExact
  <2>1. inquiry.cells \in Fields /\ inquiry.predicate \in Predicates
    BY InquiryIs DEF Asked, None
  <2>2. answer = Filtered(inquiry.cells, inquiry.predicate)
    BY DEF FiltersHold
  <2> QED
    BY <2>1, <2>2, FilteredIs DEF FiltersAreExact, InRange, InHalves
<1> QED
  BY <1>1, <1>2, <1>3, ReadsAreAsked, PTL DEF ReadSpec

-----------------------------------------------------------------------------
(* What the rows of a query name. *)

Link == [id : Nat, from : Nat, to : Nat]
RowNames == [nodes : Seq(Nat), rels : Seq(Link), work : Nat, incomplete : BOOLEAN]

\* The nodes and relationships among some things met.
NodesAmong(X) ==
  {x.id : x \in {x \in X : x.t \in {"ref", "node"}}}
    \cup UNION {{x.from, x.to} : x \in {x \in X : x.t = "rel"}}
RelsAmong(X) == {x.id : x \in {x \in X : x.t = "rel"}}

EndsNamed(rels, nodes) == \A r \in ToSet(rels) : {r.from, r.to} \subseteq ToSet(nodes)

\* What is named is what was met, unless some was left out.
AllNamed(X, acc) ==
  /\ acc \in RowNames
  /\ ~acc.incomplete => /\ ToSet(acc.nodes) = NodesAmong(X)
                        /\ {r.id : r \in ToSet(acc.rels)} = RelsAmong(X)
                        /\ EndsNamed(acc.rels, acc.nodes)

LEMMA AddNodeIs ==
  ASSUME NEW acc \in RowNames, NEW id \in Nat
  PROVE  LET more == AddNode(acc, id)
         IN  /\ more \in RowNames /\ more.rels = acc.rels /\ more.work = acc.work
             /\ acc.incomplete => more.incomplete
             /\ ~more.incomplete => ToSet(more.nodes) = ToSet(acc.nodes) \cup {id}
<1> DEFINE N == Seq(Nat)
           R == Seq(Link)
           F == [nodes : N, rels : R, work : Nat, incomplete : BOOLEAN]
           more == AddNode(acc, id)
           s == Append(acc.nodes, id)
<1>1. acc \in F /\ RowNames = F
  BY DEF RowNames
<1>2. s \in N /\ ToSet(s) = ToSet(acc.nodes) \cup {id}
  <2>1. acc.nodes \in Seq(Nat)
    BY <1>1
  <2> QED
    BY <2>1, AppendedSet
<1>3. more = IF id \in ToSet(acc.nodes) THEN acc
             ELSE IF Len(acc.nodes) > LoadedNodes THEN [acc EXCEPT !.incomplete = TRUE]
             ELSE [acc EXCEPT !.nodes = s]
  BY DEF AddNode
<1> SUFFICES /\ more \in F /\ more.rels = acc.rels /\ more.work = acc.work
             /\ acc.incomplete => more.incomplete
             /\ ~more.incomplete => ToSet(more.nodes) = ToSet(acc.nodes) \cup {id}
  BY <1>1
<1> HIDE DEF N, R, s, more
<1>4. CASE id \in ToSet(acc.nodes)
  BY <1>1, <1>3, <1>4
<1>5. CASE id \notin ToSet(acc.nodes) /\ Len(acc.nodes) > LoadedNodes
  BY <1>1, <1>3, <1>5
<1>6. CASE id \notin ToSet(acc.nodes) /\ ~(Len(acc.nodes) > LoadedNodes)
  BY <1>1, <1>2, <1>3, <1>6
<1> QED
  BY <1>4, <1>5, <1>6

LEMMA AddRelIs ==
  ASSUME NEW X, NEW acc, AllNamed(X, acc), NEW m, m.t = "rel", m.id \in Nat, m.from \in Nat, m.to \in Nat
  PROVE  AllNamed(X \cup {m}, AddRel(acc, m))
<1> DEFINE one == AddNode(acc, m.from)
           ends == AddNode(one, m.to)
           N == Seq(Nat)
           R == Seq(Link)
           F == [nodes : N, rels : R, work : Nat, incomplete : BOOLEAN]
           more == AddRel(acc, m)
           r == [id |-> m.id, from |-> m.from, to |-> m.to]
           s == Append(acc.rels, r)
           known == \E x \in ToSet(acc.rels) : x.id = m.id
<1>1. acc \in RowNames /\ RowNames = F
  BY DEF AllNamed, RowNames
<1>2. /\ one \in RowNames /\ one.rels = acc.rels
      /\ acc.incomplete => one.incomplete
      /\ ~one.incomplete => ToSet(one.nodes) = ToSet(acc.nodes) \cup {m.from}
  BY <1>1, AddNodeIs
<1>3. /\ ends \in RowNames /\ ends.rels = one.rels
      /\ one.incomplete => ends.incomplete
      /\ ~ends.incomplete => ToSet(ends.nodes) = ToSet(one.nodes) \cup {m.to}
  <2> HIDE DEF one
  <2> QED
    BY <1>2, AddNodeIs
<1> HIDE DEF one
<1>4. /\ ends \in F /\ ends.rels = acc.rels
      /\ acc.incomplete => ends.incomplete
      /\ ~ends.incomplete => ToSet(ends.nodes) = ToSet(acc.nodes) \cup {m.from, m.to}
  BY <1>1, <1>2, <1>3
<1>5. /\ r \in Link /\ r.id = m.id /\ r.from = m.from /\ r.to = m.to
  BY DEF Link
<1>6. s \in R /\ ToSet(s) = ToSet(acc.rels) \cup {r}
  <2>1. acc.rels \in R
    <3> HIDE DEF N, R
    <3> QED
      BY <1>1
  <2> HIDE DEF r
  <2> QED
    BY <1>5, <2>1, AppendedSet
<1>7. more = IF \E x \in ToSet(ends.rels) : x.id = m.id THEN ends
             ELSE IF Len(ends.rels) > LoadedEdges THEN [ends EXCEPT !.incomplete = TRUE]
             ELSE [ends EXCEPT !.rels = Append(@, r)]
  BY DEF AddRel, one
<1> HIDE DEF ends
<1>8. more = IF known THEN ends
             ELSE IF Len(acc.rels) > LoadedEdges THEN [ends EXCEPT !.incomplete = TRUE]
             ELSE [ends EXCEPT !.rels = s]
  BY <1>4, <1>7
<1> HIDE DEF N, R, s, r, more, known
<1>9. NodesAmong(X \cup {m}) = NodesAmong(X) \cup {m.from, m.to}
  BY DEF NodesAmong
<1>10. RelsAmong(X \cup {m}) = RelsAmong(X) \cup {m.id}
  BY DEF RelsAmong
<1> DEFINE ids == {x.id : x \in ToSet(acc.rels)}
<1>11. ~acc.incomplete =>
          ToSet(acc.nodes) = NodesAmong(X) /\ ids = RelsAmong(X) /\ EndsNamed(acc.rels, acc.nodes)
  BY DEF AllNamed
<1>12. CASE known
  <2>1. more = ends
    BY <1>8, <1>12
  <2>2. m.id \in ids
    BY <1>12 DEF known
  <2>3. ASSUME ~ends.incomplete
        PROVE  /\ ToSet(ends.nodes) = NodesAmong(X \cup {m})
               /\ {x.id : x \in ToSet(ends.rels)} = RelsAmong(X \cup {m}) /\ EndsNamed(ends.rels, ends.nodes)
    <3>1. ids = RelsAmong(X \cup {m})
      BY <1>4, <1>10, <1>11, <2>2, <2>3
    <3>2. EndsNamed(ends.rels, ends.nodes)
      BY <1>4, <1>11, <2>3 DEF EndsNamed
    <3> QED
      BY <1>4, <1>9, <1>11, <2>3, <3>1, <3>2
  <2> QED
    BY <1>1, <1>4, <2>1, <2>3 DEF AllNamed, more
<1>13. CASE ~known /\ Len(acc.rels) > LoadedEdges
  <2>1. more \in F /\ more.incomplete
    BY <1>4, <1>8, <1>13
  <2> QED
    BY <1>1, <2>1 DEF AllNamed, more
<1>14. CASE ~known /\ ~(Len(acc.rels) > LoadedEdges)
  <2>1. more = [ends EXCEPT !.rels = s]
    BY <1>8, <1>14
  <2>2. more \in F /\ more.nodes = ends.nodes /\ more.rels = s /\ more.incomplete = ends.incomplete
    BY <1>4, <1>6, <2>1
  <2>3. ASSUME ~more.incomplete
        PROVE  /\ ToSet(more.nodes) = NodesAmong(X \cup {m})
               /\ {x.id : x \in ToSet(more.rels)} = RelsAmong(X \cup {m}) /\ EndsNamed(more.rels, more.nodes)
    <3>1. ~ends.incomplete /\ ~acc.incomplete
      BY <1>4, <2>2, <2>3
    <3>2. {x.id : x \in ToSet(s)} = ids \cup {m.id}
      BY <1>5, <1>6 DEF r
    <3>3. ToSet(ends.nodes) = ToSet(acc.nodes) \cup {m.from, m.to}
      BY <1>4, <3>1
    <3>4. EndsNamed(s, ends.nodes)
      <4> SUFFICES ASSUME NEW x \in ToSet(s) PROVE {x.from, x.to} \subseteq ToSet(ends.nodes)
        BY DEF EndsNamed
      <4>1. CASE x = r
        BY <1>5, <3>3, <4>1 DEF r
      <4>2. CASE x \in ToSet(acc.rels)
        BY <1>11, <3>1, <3>3, <4>2 DEF EndsNamed
      <4> QED
        BY <1>6, <4>1, <4>2
    <3>5. ToSet(ends.nodes) = NodesAmong(X \cup {m})
      BY <1>9, <1>11, <3>1, <3>3
    <3>6. {x.id : x \in ToSet(s)} = RelsAmong(X \cup {m})
      BY <1>10, <1>11, <3>1, <3>2
    <3> QED
      BY <2>2, <3>4, <3>5, <3>6
  <2> QED
    BY <1>1, <2>2, <2>3 DEF AllNamed, more
<1> QED
  BY <1>12, <1>13, <1>14

LEMMA MeetIs ==
  ASSUME NEW X, NEW acc, AllNamed(X, acc), NEW m \in Met
  PROVE  AllNamed(X \cup {m}, Meet(acc, m))
<1> DEFINE N == Seq(Nat)
           R == Seq(Link)
           F == [nodes : N, rels : R, work : Nat, incomplete : BOOLEAN]
           more == [acc EXCEPT !.work = @ + 1]
           met == Meet(acc, m)
<1>1. acc \in RowNames /\ RowNames = F
  BY DEF AllNamed, RowNames
<1>2. /\ more \in RowNames /\ more.nodes = acc.nodes /\ more.rels = acc.rels /\ more.incomplete = acc.incomplete
  <2> HIDE DEF N, R
  <2> QED
    BY <1>1
<1>3. AllNamed(X, more)
  BY <1>2 DEF AllNamed
<1>4. m.t \in {"ref", "node"} => m.id \in Nat
  BY DEF Met
<1>5. m.t = "rel" => m.id \in Nat /\ m.from \in Nat /\ m.to \in Nat
  BY DEF Met
<1>6. CASE acc.incomplete
  <2>1. met = acc
    BY <1>6 DEF Meet
  <2> QED
    BY <1>1, <1>6, <2>1 DEF AllNamed
<1>7. CASE ~acc.incomplete /\ (more.work > MaxWork \/ m.at > MaxNesting)
  <2>1. met = [more EXCEPT !.incomplete = TRUE]
    BY <1>7 DEF Meet
  <2> HIDE DEF more, met
  <2>2. met \in RowNames /\ met.incomplete
    <3> HIDE DEF N, R
    <3> QED
      BY <1>1, <1>2, <2>1
  <2> QED
    BY <2>2 DEF AllNamed, met
<1>8. CASE ~acc.incomplete /\ ~(more.work > MaxWork \/ m.at > MaxNesting)
  <2>1. met = CASE m.t \in {"ref", "node"} -> AddNode(more, m.id)
                [] m.t = "rel" -> AddRel(more, m)
                [] OTHER -> more
    BY <1>8 DEF Meet
  <2> HIDE DEF more, met
  <2>2. CASE m.t = "rel"
    <3>1. met = AddRel(more, m)
      BY <2>1, <2>2
    <3> QED
      BY <1>3, <1>5, <2>2, <3>1, AddRelIs DEF met
  <2>3. CASE m.t \in {"ref", "node"}
    <3>1. met = AddNode(more, m.id)
      BY <2>1, <2>3
    <3>2. /\ met \in RowNames /\ met.rels = more.rels
          /\ more.incomplete => met.incomplete
          /\ ~met.incomplete => ToSet(met.nodes) = ToSet(more.nodes) \cup {m.id}
      BY <1>2, <1>4, <2>3, <3>1, AddNodeIs
    <3>3. NodesAmong(X \cup {m}) = NodesAmong(X) \cup {m.id} /\ RelsAmong(X \cup {m}) = RelsAmong(X)
      BY <2>3 DEF NodesAmong, RelsAmong
    <3>4. ASSUME ~met.incomplete
          PROVE  /\ ToSet(met.nodes) = NodesAmong(X \cup {m})
                 /\ {r.id : r \in ToSet(met.rels)} = RelsAmong(X \cup {m})
                 /\ EndsNamed(met.rels, met.nodes)
      <4>1. /\ ToSet(more.nodes) = NodesAmong(X) /\ {r.id : r \in ToSet(more.rels)} = RelsAmong(X)
            /\ EndsNamed(more.rels, more.nodes)
        BY <1>3, <3>2, <3>4 DEF AllNamed
      <4>2. EndsNamed(met.rels, met.nodes)
        BY <3>2, <3>4, <4>1 DEF EndsNamed
      <4> QED
        BY <3>2, <3>3, <3>4, <4>1, <4>2
    <3> QED
      BY <3>2, <3>4 DEF AllNamed, met
  <2>4. CASE m.t \notin {"ref", "node", "rel"}
    <3>1. met = more
      BY <2>1, <2>4
    <3>2. NodesAmong(X \cup {m}) = NodesAmong(X) /\ RelsAmong(X \cup {m}) = RelsAmong(X)
      BY <2>4 DEF NodesAmong, RelsAmong
    <3> QED
      BY <1>3, <3>1, <3>2 DEF AllNamed, met
  <2> QED
    BY <2>2, <2>3, <2>4
<1> QED
  BY <1>6, <1>7, <1>8

\* Whatever was named before, naming goes on.
LEMMA MeetKeeps ==
  ASSUME NEW acc \in RowNames, NEW m \in Met
  PROVE  Meet(acc, m) \in RowNames
<1> DEFINE N == Seq(Nat)
           R == Seq(Link)
           F == [nodes : N, rels : R, work : Nat, incomplete : BOOLEAN]
           more == [acc EXCEPT !.work = @ + 1]
<1>1. acc \in F /\ RowNames = F
  BY DEF RowNames
<1>2. CASE acc.incomplete
  <2>1. AllNamed({}, acc)
    BY <1>2 DEF AllNamed
  <2> QED
    BY <2>1, MeetIs DEF AllNamed
<1>3. CASE ~acc.incomplete
  <2>1. more \in RowNames
    <3> HIDE DEF N, R
    <3> QED
      BY <1>1
  <2>2. m.t \in {"ref", "node"} => m.id \in Nat
    BY DEF Met
  <2>3. m.t = "rel" => m.id \in Nat /\ m.from \in Nat /\ m.to \in Nat
    BY DEF Met
  <2>4. [more EXCEPT !.incomplete = TRUE] \in RowNames
    <3> HIDE DEF N, R, more
    <3> QED
      BY <1>1, <2>1
  <2>5. m.t \in {"ref", "node"} => AddNode(more, m.id) \in RowNames
    <3> HIDE DEF more
    <3> QED
      BY <2>1, <2>2, AddNodeIs
  <2>6. m.t = "rel" => AddRel(more, m) \in RowNames
    <3> SUFFICES ASSUME m.t = "rel" PROVE AddRel(more, m) \in RowNames
      OBVIOUS
    <3> DEFINE ends == AddNode(AddNode(more, m.from), m.to)
               r == [id |-> m.id, from |-> m.from, to |-> m.to]
    <3> HIDE DEF more
    <3>1. ends \in F
      BY <1>1, <2>1, <2>3, AddNodeIs
    <3>2. r \in Link
      BY <2>3 DEF Link
    <3>3. AddRel(more, m) = IF \E x \in ToSet(ends.rels) : x.id = m.id THEN ends
                            ELSE IF Len(ends.rels) > LoadedEdges THEN [ends EXCEPT !.incomplete = TRUE]
                            ELSE [ends EXCEPT !.rels = Append(@, r)]
      BY DEF AddRel
    <3> HIDE DEF ends, r
    <3>4. Append(ends.rels, r) \in R
      BY <3>1, <3>2
    <3> HIDE DEF N, R
    <3> QED
      BY <1>1, <3>1, <3>3, <3>4
  <2> QED
    BY <1>3, <2>1, <2>4, <2>5, <2>6 DEF Meet
<1> QED
  BY <1>2, <1>3

\* What was met, one after another, is named.
LEMMA CarriedNames ==
  ASSUME NEW ms \in Seq(Met)
  PROVE  AllNamed(ToSet(ms), Carried(ms, [nodes |-> <<>>, rels |-> <<>>, work |-> 0, incomplete |-> FALSE], Meet))
<1> DEFINE n == Len(ms)
           F == RowNames
           base == [nodes |-> <<>>, rels |-> <<>>, work |-> 0, incomplete |-> FALSE]
           next(acc, i) == Meet(acc, ms[i])
           op == [p \in F \X (1..n) |-> next(p[1], p[2])]
           R(f) == f = [i \in 0..n |-> IF i = 0 THEN base ELSE next(f[i - 1], i)]
<1>1. n \in Nat /\ \A i \in 1..n : ms[i] \in Met
  OBVIOUS
<1>2. \A acc \in F, i \in 1..n : next(acc, i) \in F
  <2> SUFFICES ASSUME NEW acc \in F, NEW i \in 1..n PROVE Meet(acc, ms[i]) \in F
    OBVIOUS
  <2> QED
    BY <1>1, MeetKeeps
<1>3. op \in StepsOf(F, n)
  <2> HIDE DEF next, F
  <2> QED
    BY <1>2 DEF StepsOf
<1>4. base \in F /\ AllNamed({}, base)
  <2>1. base \in F
    BY DEF RowNames
  <2>2. base.nodes = <<>> /\ base.rels = <<>> /\ ~base.incomplete /\ ToSet(<<>>) = {}
    BY DEF ToSet
  <2>3. NodesAmong({}) = {} /\ RelsAmong({}) = {}
    BY DEF NodesAmong, RelsAmong
  <2> HIDE DEF base
  <2> QED
    BY <2>1, <2>2, <2>3 DEF AllNamed, EndsNamed
<1>5. PICK f : Follows(f, F, n, base, op)
  <2> HIDE DEF op, F, base
  <2> QED
    BY <1>1, <1>3, <1>4, StepsExist
<1>6. R(f)
  <2> HIDE DEF next, F, base
  <2>1. \A i \in 1..n : f[i] = next(f[i - 1], i)
    <3> SUFFICES ASSUME NEW i \in 1..n PROVE f[i] = next(f[i - 1], i)
      OBVIOUS
    <3>0. i - 1 \in 0..n
      BY <1>1
    <3>1. f[i - 1] \in F /\ f[i] = op[<<f[i - 1], i>>]
      <4> HIDE DEF op
      <4> QED
        BY <1>5, <3>0 DEF Follows
    <3>2. <<f[i - 1], i>> \in F \X (1..n)
      BY <3>1
    <3> QED
      BY <3>1, <3>2
  <2>2. \A i \in 0..n : i = 0 \/ i \in 1..n
    BY <1>1
  <2>3. \A i \in 0..n : f[i] = IF i = 0 THEN base ELSE next(f[i - 1], i)
    BY <1>5, <2>1, <2>2 DEF Follows
  <2>4. f = [i \in 0..n |-> f[i]]
    BY <1>5 DEF Follows
  <2> HIDE DEF op
  <2> QED
    BY <2>3, <2>4
<1> DEFINE g == CHOOSE h : R(h)
<1>7. R(g)
  BY <1>6
<1>8. Carried(ms, base, Meet) = g[n]
  BY DEF Carried
<1> HIDE DEF g
<1>9. g[0] = base /\ \A i \in 1..n : g[i] = next(g[i - 1], i)
  <2> HIDE DEF next, base
  <2>1. \A i \in 0..n : g[i] = IF i = 0 THEN base ELSE next(g[i - 1], i)
    BY <1>7
  <2>2. 0 \in 0..n /\ \A i \in 1..n : i \in 0..n /\ i # 0
    BY <1>1
  <2> QED
    BY <2>1, <2>2
<1> DEFINE X(i) == {ms[k] : k \in 1..i}
           S == {i \in 0..n : AllNamed(X(i), g[i])}
<1>10. 0 \in S
  <2>1. X(0) = {}
    OBVIOUS
  <2> HIDE DEF base, X, n
  <2>2. AllNamed(X(0), g[0])
    BY <1>4, <1>9, <2>1, Zenon
  <2>3. 0 \in 0..n
    BY <1>1
  <2> QED
    BY <2>2, <2>3
<1>11. ASSUME NEW i \in 1..n, i - 1 \in S PROVE i \in S
  <2>1. AllNamed(X(i - 1), g[i - 1]) /\ g[i] = Meet(g[i - 1], ms[i]) /\ ms[i] \in Met
    BY <1>1, <1>9, <1>11
  <2>2. X(i) = X(i - 1) \cup {ms[i]}
    <3>1. \A k \in 1..i : k = i \/ k \in 1..(i - 1)
      BY <1>1
    <3>2. i \in 1..i /\ \A k \in 1..(i - 1) : k \in 1..i
      BY <1>1
    <3> QED
      BY <3>1, <3>2
  <2> HIDE DEF X
  <2>3. AllNamed(X(i), g[i])
    BY <2>1, <2>2, MeetIs
  <2> QED
    BY <2>3
<1>12. n \in S
  <2>1. n \in Nat /\ n \in 0..n
    BY <1>1
  <2>2. \A i \in 1..n : i - 1 \in S => i \in S
    BY <1>11
  <2> HIDE DEF S, n
  <2>3. \A i \in 0..n : i \in S
    BY <1>10, <2>1, <2>2, UpTo
  <2> QED
    BY <2>1, <2>3
<1>13. X(n) = ToSet(ms)
  BY SetOf
<1> HIDE DEF X, base
<1>14. AllNamed(ToSet(ms), Carried(ms, base, Meet))
  BY <1>8, <1>12, <1>13
<1> QED
  BY <1>14 DEF base

\* The entities of a value are the outermost in it.
LEMMA EntitiesAre ==
  ASSUME NEW v \in Seq(Met)
  PROVE  /\ Entities(v) \in Seq(Met)
         /\ NodesAmong(ToSet(Entities(v))) = NodesIn(v)
         /\ RelsAmong(ToSet(Entities(v))) = RelsIn(v)
<1> DEFINE n == Len(v)
           Out(i) == \A j \in 1..i - 1 : v[j].t \in {"node", "rel"} => Extent(v, j) < i
           Within(i) == \E j \in 1..i - 1 : v[j].t \in {"node", "rel"} /\ i <= Extent(v, j)
           I == {i \in DOMAIN v : v[i].t \notin {"key", "props", "hops"} /\ ~Within(i)}
           J == {i \in DOMAIN v : Out(i)}
<1>1. n \in Nat /\ DOMAIN v = 1..n /\ \A i \in 1..n : v[i] \in Met
  OBVIOUS
<1>2. ASSUME NEW i \in 1..n PROVE Out(i) <=> ~Within(i)
  <2>1. \A j \in 1..i - 1 : Extent(v, j) \in Int
    <3> SUFFICES ASSUME NEW j \in 1..i - 1 PROVE Extent(v, j) \in Int
      OBVIOUS
    <3>1. j \in 1..Len(v)
      BY <1>1
    <3>2. Extent(v, j) \in j..Len(v)
      BY <3>1, ExtentIs
    <3> QED
      BY <3>2
  <2>2. \A j \in 1..i - 1 : Extent(v, j) < i <=> ~(i <= Extent(v, j))
    BY <2>1
  <2> QED
    BY <2>2
<1>3. Entities(v) = Picked(v, I)
  BY DEF Entities
<1>4. Outermost(v) = {v[i] : i \in J}
  BY DEF Outermost
<1>5. I \in SUBSET (1..n)
  BY <1>1
<1>6. \A i : i \in I <=> i \in J /\ v[i].t \notin {"key", "props", "hops"}
  <2> HIDE DEF Out, Within
  <2> QED
    BY <1>1, <1>2
<1> HIDE DEF I, J
<1>7. /\ Entities(v) \in Seq({v[i] : i \in I})
      /\ \A i \in I : \E k \in 1..Len(Entities(v)) : Entities(v)[k] = v[i]
  <2>1. I \in SUBSET (1..Len(v))
    BY <1>5
  <2>2. /\ Picked(v, I) \in Seq({v[i] : i \in I})
        /\ \A i \in I : \E k \in 1..Len(Picked(v, I)) : Picked(v, I)[k] = v[i]
    BY <2>1, PickedIs, Zenon
  <2> QED
    BY <1>3, <2>2, Zenon
<1> DEFINE E == Entities(v)
           P == {v[i] : i \in I}
<1>8. E \in Seq(P) /\ ToSet(E) = P
  <2> HIDE DEF E, P
  <2>1. E \in Seq(P)
    BY <1>7 DEF E, P
  <2>2. ToSet(E) = {E[k] : k \in 1..Len(E)} /\ ToSet(E) \subseteq P
    BY <2>1, SetOf
  <2>3. P \subseteq ToSet(E)
    BY <1>7, <2>2 DEF E, P
  <2> QED
    BY <2>1, <2>2, <2>3
<1>9. P \subseteq Met
  BY <1>1, <1>5
<1>10. E \in Seq(Met)
  <2> HIDE DEF E, P
  <2> QED
    BY <1>8, <1>9, WiderIs
<1>11. P = {x \in Outermost(v) : x.t \notin {"key", "props", "hops"}}
  BY <1>4, <1>6
<1> HIDE DEF P, E
<1>12. /\ {x \in P : x.t \in {"ref", "node"}} = {x \in Outermost(v) : x.t \in {"ref", "node"}}
       /\ {x \in P : x.t = "rel"} = {x \in Outermost(v) : x.t = "rel"}
  BY <1>11
<1>13. NodesAmong(P) = NodesIn(v) /\ RelsAmong(P) = RelsIn(v)
  BY <1>12, Zenon DEF NodesAmong, NodesIn, RelsAmong, RelsIn
<1> QED
  BY <1>8, <1>10, <1>13 DEF E

LEMMA FlattenedSet ==
  ASSUME NEW A, NEW n \in Nat, NEW seqs \in [1..n -> Seq(A)]
  PROVE  /\ FlattenSeq(seqs) \in Seq(A)
         /\ ToSet(FlattenSeq(seqs)) = UNION {ToSet(seqs[i]) : i \in 1..n}
<1> DEFINE flat == FlattenSeq(seqs)
<1>1. seqs \in SeqsOf(A) /\ Len(seqs) = n
  BY SeqsAre
<1>2. \A i \in 1..n : seqs[i] \in Seq(A)
  OBVIOUS
<1>3. /\ flat \in Seq(A)
      /\ \A k \in 1..Len(flat) : \E i \in 1..n : \E j \in 1..Len(seqs[i]) : flat[k] = seqs[i][j]
      /\ \A i \in 1..n : \A j \in 1..Len(seqs[i]) : \E k \in 1..Len(flat) : flat[k] = seqs[i][j]
  <2>1. /\ flat \in Seq(A)
        /\ \A k \in 1..Len(flat) : \E i \in 1..Len(seqs) : \E j \in 1..Len(seqs[i]) : flat[k] = seqs[i][j]
        /\ \A i \in 1..Len(seqs) : \A j \in 1..Len(seqs[i]) : \E k \in 1..Len(flat) : flat[k] = seqs[i][j]
    BY <1>1, FlattenHas, ZenonT(30)
  <2> HIDE DEF flat
  <2> QED
    BY <1>1, <2>1, Zenon
<1> HIDE DEF flat
<1>4. ToSet(flat) = {flat[k] : k \in 1..Len(flat)}
  BY <1>3, SetOf
<1>5. \A i \in 1..n : ToSet(seqs[i]) = {seqs[i][j] : j \in 1..Len(seqs[i])}
  BY <1>2, SetOf
<1>6. ASSUME NEW x \in ToSet(flat) PROVE \E i \in 1..n : x \in ToSet(seqs[i])
  <2>1. PICK k \in 1..Len(flat) : x = flat[k]
    BY <1>4
  <2>2. PICK i \in 1..n : \E j \in 1..Len(seqs[i]) : flat[k] = seqs[i][j]
    BY <1>3
  <2> QED
    BY <1>5, <2>1, <2>2
<1>7. ASSUME NEW i \in 1..n, NEW x \in ToSet(seqs[i]) PROVE x \in ToSet(flat)
  <2>1. PICK j \in 1..Len(seqs[i]) : x = seqs[i][j]
    BY <1>5
  <2>2. PICK k \in 1..Len(flat) : flat[k] = seqs[i][j]
    BY <1>3
  <2> QED
    BY <1>4, <2>1, <2>2
<1> DEFINE U == UNION {ToSet(seqs[i]) : i \in 1..n}
<1>8. \A x : x \in U <=> \E i \in 1..n : x \in ToSet(seqs[i])
  OBVIOUS
<1> HIDE DEF U
<1>9. ToSet(flat) = U
  BY <1>6, <1>7, <1>8
<1> QED
  BY <1>3, <1>9 DEF flat, U

IsRow(row) == row \in Seq(ToSet(row)) /\ \A v \in ToSet(row) : IsValue(v)

LEMMA RowIs ==
  ASSUME NEW row, IsRow(row)
  PROVE  Len(row) \in Nat /\ DOMAIN row = 1..Len(row) /\ ToSet(row) = {row[i] : i \in 1..Len(row)}
<1> DEFINE A == ToSet(row)
<1>1. row \in Seq(A)
  BY DEF IsRow
<1> HIDE DEF A
<1>2. Len(row) \in Nat /\ DOMAIN row = 1..Len(row)
  BY <1>1
<1> QED
  BY <1>2 DEF ToSet

\* What a row names is what is in its values.
LEMMA ReferencesAre ==
  ASSUME NEW row, IsRow(row)
  PROVE  LET raw == References(row)
         IN  /\ raw \in RowNames
             /\ ~raw.incomplete => /\ ToSet(raw.nodes) = UNION {NodesIn(v) : v \in ToSet(row)}
                                   /\ {r.id : r \in ToSet(raw.rels)} = UNION {RelsIn(v) : v \in ToSet(row)}
                                   /\ EndsNamed(raw.rels, raw.nodes)
<1> DEFINE n == Len(row)
           seqs == [i \in 1..n |-> Entities(row[i])]
           ms == Flat(row, Entities)
           X == ToSet(ms)
<1>1. n \in Nat /\ DOMAIN row = 1..n /\ ToSet(row) = {row[i] : i \in 1..n} /\ \A v \in ToSet(row) : v \in Seq(Met)
  BY RowIs DEF IsRow, IsValue
<1>2. \A v \in ToSet(row) : /\ Entities(v) \in Seq(Met)
                            /\ NodesAmong(ToSet(Entities(v))) = NodesIn(v)
                            /\ RelsAmong(ToSet(Entities(v))) = RelsIn(v)
  BY <1>1, EntitiesAre
<1>3. ms = FlattenSeq(seqs)
  BY <1>1 DEF Flat
<1>4. seqs \in [1..n -> Seq(Met)]
  BY <1>1, <1>2
<1>5. ms \in Seq(Met) /\ X = UNION {ToSet(seqs[i]) : i \in 1..n}
  <2> HIDE DEF seqs, ms, n
  <2> QED
    BY <1>1, <1>3, <1>4, FlattenedSet
<1>6. \A x : x \in X <=> \E v \in ToSet(row) : x \in ToSet(Entities(v))
  <2>1. \A i \in 1..n : seqs[i] = Entities(row[i])
    OBVIOUS
  <2> HIDE DEF seqs, ms, n, X
  <2>2. \A x : x \in X <=> \E i \in 1..n : x \in ToSet(seqs[i])
    BY <1>5
  <2> QED
    BY <1>1, <2>1, <2>2
<1> HIDE DEF ms, X
<1>7. NodesAmong(X) = UNION {NodesIn(v) : v \in ToSet(row)}
  <2>1. \A y : y \in NodesAmong(X) <=>
                 \E x \in X : (x.t \in {"ref", "node"} /\ y = x.id) \/ (x.t = "rel" /\ (y = x.from \/ y = x.to))
    BY DEF NodesAmong
  <2>2. \A v : \A y : y \in NodesAmong(ToSet(Entities(v))) <=>
                 \E x \in ToSet(Entities(v)) :
                    (x.t \in {"ref", "node"} /\ y = x.id) \/ (x.t = "rel" /\ (y = x.from \/ y = x.to))
    BY DEF NodesAmong
  <2>3. \A y : y \in NodesAmong(X) <=> \E v \in ToSet(row) : y \in NodesIn(v)
    BY <1>2, <1>6, <2>1, <2>2
  <2> QED
    BY <2>3
<1>8. RelsAmong(X) = UNION {RelsIn(v) : v \in ToSet(row)}
  <2>1. \A y : y \in RelsAmong(X) <=> \E x \in X : x.t = "rel" /\ y = x.id
    BY DEF RelsAmong
  <2>2. \A v : \A y : y \in RelsAmong(ToSet(Entities(v))) <=> \E x \in ToSet(Entities(v)) : x.t = "rel" /\ y = x.id
    BY DEF RelsAmong
  <2>3. \A y : y \in RelsAmong(X) <=> \E v \in ToSet(row) : y \in RelsIn(v)
    BY <1>2, <1>6, <2>1, <2>2
  <2> QED
    BY <2>3
<1>9. AllNamed(X, References(row))
  BY <1>5, CarriedNames DEF References, ms, X
<1> QED
  BY <1>7, <1>8, <1>9 DEF AllNamed

-----------------------------------------------------------------------------
(* The rows of a table, and how many fit. *)

LEMMA SumIs ==
  ASSUME NEW n \in Nat, NEW sizes \in [1..n -> Nat]
  PROVE  Sums(sizes)[n] \in Nat
<1>1. sizes \in Seq(Nat) /\ Len(sizes) = n /\ n \in 0..n
  OBVIOUS
<1> QED
  BY <1>1, SumsAre

LEMMA PreviewSize ==
  ASSUME NEW v, IsValue(v)
  PROVE  LET p == Preview(v)
         IN  CellSize(p.cell) + (IF p.json.state = "value" THEN Written(p.json.value, 0) ELSE 1) \in Nat
<1> DEFINE why == Stop(PreviewVisits(v))
           cut == IF why # "none" THEN why ELSE IF Written(Json(v), 0) > MaxCell THEN "bytes" ELSE "none"
           p == Preview(v)
<1>1. \A c : Marked(c).state # "value" /\ CellSize(Marked(c)) = 1
  BY DEF Marked, CellSize
<1>2. CASE cut # "none"
  <2>1. p = [json |-> Marked(cut), cell |-> Marked(cut)]
    BY <1>2 DEF Preview
  <2> HIDE DEF cut
  <2>2. p.json = Marked(cut) /\ p.cell = Marked(cut)
    BY <2>1
  <2> HIDE DEF p
  <2>3. CellSize(p.cell) = 1 /\ p.json.state # "value"
    BY <1>1, <2>2
  <2> QED
    BY <2>3 DEF p
<1>3. CASE cut = "none"
  <2>1. p = [json |-> Whole(Json(v)), cell |-> Cell(AsMap(v))]
    BY <1>3 DEF Preview
  <2>2. Stop(PreviewVisits(v)) = "none"
    BY <1>3
  <2>3. AsMap(v) \in Seq(Fine) /\ v \in Seq(Met)
    BY <2>2, PreviewFine DEF IsValue
  <2>4. AsMap(v) \in Seq(Met)
    BY <2>3, WiderIs DEF Fine
  <2>5. Json(v) \in Seq(Met)
    BY <2>3, JsonIs
  <2>6. Written(Json(v), 0) \in Nat
    BY <2>5, WrittenIs
  <2>7. CellSize(Cell(AsMap(v))) \in Nat
    BY <2>4, CellSizeIs
  <2>8. p.json.value = Json(v) /\ p.json.state = "value" /\ p.cell = Cell(AsMap(v))
    BY <2>1 DEF Whole
  <2> HIDE DEF p
  <2>9. CellSize(p.cell) \in Nat /\ Written(p.json.value, 0) \in Nat
    BY <2>6, <2>7, <2>8
  <2>10. (IF p.json.state = "value" THEN Written(p.json.value, 0) ELSE 1) = Written(p.json.value, 0)
    BY <2>8
  <2> QED
    BY <2>9, <2>10 DEF p
<1> QED
  BY <1>2, <1>3

LEMMA TableRowSizeIs ==
  ASSUME NEW row, IsRow(row)
  PROVE  TableRowSize(TableRow(row)) \in Nat
<1> DEFINE r == TableRow(row)
           n == Len(row)
           size(p) == CellSize(p.cell) + (IF p.json.state = "value" THEN Written(p.json.value, 0) ELSE 1)
           sizes == [i \in 1..n |-> size(Preview(row[i]))]
<1>1. n \in Nat /\ DOMAIN row = 1..n /\ \A i \in 1..n : IsValue(row[i])
  BY RowIs DEF IsRow
<1>2. r.raw = References(row) /\ r.cells = [i \in 1..n |-> Preview(row[i])]
  BY <1>1 DEF TableRow
<1>3. References(row) \in RowNames
  BY ReferencesAre
<1>4. Len(r.raw.nodes) \in Nat /\ Len(r.raw.rels) \in Nat
  <2>1. r.raw \in [nodes : Seq(Nat), rels : Seq(Link), work : Nat, incomplete : BOOLEAN]
    BY <1>2, <1>3 DEF RowNames
  <2>2. r.raw.nodes \in Seq(Nat) /\ r.raw.rels \in Seq(Link)
    BY <2>1
  <2> QED
    BY <2>2
<1>5. \A i \in 1..n : size(Preview(row[i])) \in Nat
  BY <1>1, PreviewSize
<1>6. Sums(sizes)[n] \in Nat
  <2>1. sizes \in [1..n -> Nat]
    <3> HIDE DEF size
    <3> QED
      BY <1>5
  <2> HIDE DEF sizes, n
  <2> QED
    BY <1>1, <2>1, SumIs
<1>7. Sum(r.cells, size) = Sums(sizes)[n]
  <2>1. DOMAIN r.cells = 1..n /\ Len(r.cells) = n /\ \A i \in 1..n : r.cells[i] = Preview(row[i])
    BY <1>1, <1>2
  <2> HIDE DEF r, size
  <2>2. [i \in DOMAIN r.cells |-> size(r.cells[i])] = sizes
    BY <2>1
  <2> QED
    BY <2>1, <2>2 DEF Sum
<1>8. TableRowSize(r) = Sum(r.cells, size) + Len(r.raw.nodes) + Len(r.raw.rels)
  <2> HIDE DEF r
  <2> QED
    BY DEF TableRowSize
<1> DEFINE k == TableRowSize(r)
           total == Sum(r.cells, size)
           named == Len(r.raw.nodes)
           linked == Len(r.raw.rels)
<1>9. k = total + named + linked /\ named \in Nat /\ linked \in Nat
  BY <1>4, <1>8
<1>10. total \in Nat
  BY <1>6, <1>7
<1> HIDE DEF k, total, named, linked
<1>11. k \in Nat
  BY <1>9, <1>10
<1> QED
  BY <1>11 DEF k

\* The first of some things.
LEMMA FirstIs ==
  ASSUME NEW S, NEW s \in Seq(S), NEW most \in Nat
  PROVE  LET f == First(s, most)
         IN  /\ f \in Seq(S) /\ Len(f) = Least(Len(s), most) /\ Len(f) \in 0..Len(s)
             /\ DOMAIN f = 1..Len(f) /\ \A i \in 1..Len(f) : f[i] = s[i]
<1> DEFINE k == Least(Len(s), most)
<1>1. Len(s) \in Nat /\ k \in 0..Len(s) /\ k \in Nat /\ 0 \in 0..Len(s)
  BY DEF Least
<1> HIDE DEF k
<1>2. /\ SubSeq(s, 0 + 1, k) \in Seq(S) /\ Len(SubSeq(s, 0 + 1, k)) = k - 0
      /\ DOMAIN SubSeq(s, 0 + 1, k) = 1..(k - 0)
      /\ \A i \in 1..(k - 0) : SubSeq(s, 0 + 1, k)[i] = s[0 + i]
  BY <1>1, PartIs
<1>3. First(s, most) = SubSeq(s, 0 + 1, k) /\ k - 0 = k /\ \A i \in 1..k : 0 + i = i
  BY <1>1 DEF First, k
<1>4. /\ First(s, most) \in Seq(S) /\ Len(First(s, most)) = k /\ DOMAIN First(s, most) = 1..k
      /\ \A i \in 1..k : First(s, most)[i] = s[i]
  BY <1>2, <1>3
<1> QED
  BY <1>1, <1>4 DEF k

\* A table has the first rows, as many as fit.
LEMMA KeptRowsAre ==
  ASSUME NEW S, NEW rows \in Seq(S), \A row \in S : IsRow(row), NEW most \in Nat
  PROVE  LET kept == KeptRows(rows, most)
         IN  /\ Len(kept) \in 0..Len(rows) /\ DOMAIN kept = 1..Len(kept)
             /\ \A i \in 1..Len(kept) : kept[i] = TableRow(rows[i]) /\ rows[i] \in S
<1> DEFINE f == First(rows, most)
           m == Len(f)
           A == {TableRow(row) : row \in S}
           all == [i \in 1..m |-> TableRow(rows[i])]
           sizes == [i \in 1..m |-> TableRowSize(all[i])]
           k == Fitting(sizes, QueryBytes - QueryHead)
<1>1. /\ m \in 0..Len(rows) /\ Len(rows) \in Nat /\ m \in Nat /\ DOMAIN f = 1..m
      /\ \A i \in 1..m : i \in 1..Len(rows)
  BY FirstIs
<1>2. \A i \in 1..m : rows[i] \in S
  BY <1>1
<1> HIDE DEF f, m
<1>3. all \in [1..m -> A] /\ \A i \in 1..m : all[i] = TableRow(rows[i])
  BY <1>2
<1>4. sizes \in [1..m -> Nat]
  <2>1. \A i \in 1..m : TableRowSize(all[i]) \in Nat
    BY <1>2, <1>3, TableRowSizeIs
  <2> HIDE DEF all
  <2> QED
    BY <2>1
<1> HIDE DEF A, sizes, all
<1>5. all \in Seq(A) /\ Len(all) = m /\ DOMAIN all = 1..m
  BY <1>1, <1>3
<1>6. sizes \in Seq(Nat) /\ Len(sizes) = m
  BY <1>1, <1>4
<1>7. k \in 0..m
  <2>1. QueryBytes - QueryHead \in Int
    BY QueryAssumption
  <2> QED
    BY <1>6, <2>1, FittingIs
<1>8. KeptRows(rows, most) = SubSeq(all, 1, k)
  <2>1. [i \in DOMAIN f |-> TableRow(rows[i])] = all
    BY <1>1 DEF all
  <2>2. [i \in DOMAIN all |-> TableRowSize(all[i])] = sizes
    BY <1>5 DEF sizes
  <2> QED
    BY <2>1, <2>2 DEF KeptRows, FittingRows, f
<1> HIDE DEF k
<1>9. /\ SubSeq(all, 0 + 1, k) \in Seq(A) /\ Len(SubSeq(all, 0 + 1, k)) = k - 0
      /\ DOMAIN SubSeq(all, 0 + 1, k) = 1..(k - 0)
      /\ \A i \in 1..(k - 0) : SubSeq(all, 0 + 1, k)[i] = all[0 + i]
  <2>1. 0 \in 0..Len(all) /\ k \in 0..Len(all)
    BY <1>1, <1>5, <1>7
  <2> QED
    BY <1>5, <2>1, PartIs
<1>10. k \in Nat /\ k - 0 = k /\ 0 + 1 = 1 /\ \A i \in 1..k : 0 + i = i /\ i \in 1..m
  BY <1>1, <1>7
<1> DEFINE kept == KeptRows(rows, most)
<1>11. Len(kept) = k /\ DOMAIN kept = 1..k /\ \A i \in 1..k : kept[i] = all[i]
  BY <1>8, <1>9, <1>10
<1> HIDE DEF kept
<1>12. \A i \in 1..k : kept[i] = TableRow(rows[i]) /\ rows[i] \in S
  BY <1>2, <1>3, <1>10, <1>11
<1>13. k \in 0..Len(rows)
  BY <1>1, <1>7
<1> QED
  BY <1>11, <1>12, <1>13 DEF kept

LEMMA QueriesAre ==
  ASSUME NEW q \in Queries
  PROVE  q.rows \in Seq(ToSet(q.rows)) /\ Len(q.rows) \in Nat /\ \A row \in ToSet(q.rows) : IsRow(row)
<1>1. q.rows \in Seq(ToSet(q.rows)) /\ \A row \in ToSet(q.rows) : IsRow(row)
  BY QueriesAssumption, Zenon DEF IsRow
<1> DEFINE A == ToSet(q.rows)
<1>2. q.rows \in Seq(A)
  BY <1>1
<1> HIDE DEF A
<1>3. Len(q.rows) \in Nat
  BY <1>2
<1> QED
  BY <1>1, <1>3

\* The engine gives the first rows, and says how many there were.
LEMMA EngineIs ==
  ASSUME NEW q \in Queries, NEW limit \in Nat
  PROVE  LET e == Engine(q, limit)
         IN  /\ e.rows \in Seq(ToSet(q.rows)) /\ Len(e.rows) \in 0..Len(q.rows)
             /\ \A i \in 1..Len(e.rows) : e.rows[i] = q.rows[i]
             /\ Total(Len(e.rows), e.total) = Len(q.rows)
             /\ q.warnings \ {"row_limit"} \subseteq ForwardedWarnings(e.warnings, e.total # NoOffset)
<1> DEFINE A == ToSet(q.rows)
           n == Len(q.rows)
           cut == ~q.explain /\ n > limit
           e == Engine(q, limit)
<1>1. q.rows \in Seq(A) /\ n \in Nat
  BY QueriesAre
<1> HIDE DEF A
<1>2. /\ First(q.rows, limit) \in Seq(A) /\ Len(First(q.rows, limit)) \in 0..n
      /\ \A i \in 1..Len(First(q.rows, limit)) : First(q.rows, limit)[i] = q.rows[i]
  BY <1>1, FirstIs
<1>3. /\ e.rows = IF cut THEN First(q.rows, limit) ELSE q.rows
      /\ e.total = IF cut THEN n ELSE NoOffset
      /\ e.warnings = q.warnings \cup (IF cut THEN {"row_limit"} ELSE {})
  BY DEF Engine
<1> HIDE DEF cut, e, n
<1>4. n # NoOffset
  BY <1>1 DEF NoOffset
<1>5. CASE cut
  <2>1. e.rows = First(q.rows, limit) /\ e.total = n /\ e.warnings = q.warnings \cup {"row_limit"}
    BY <1>3, <1>5
  <2>2. Total(Len(e.rows), e.total) = n
    BY <1>4, <2>1 DEF Total
  <2>3. q.warnings \ {"row_limit"} \subseteq ForwardedWarnings(e.warnings, e.total # NoOffset)
    BY <1>4, <2>1 DEF ForwardedWarnings
  <2> QED
    BY <1>2, <2>1, <2>2, <2>3 DEF A, e, n
<1>6. CASE ~cut
  <2>1. e.rows = q.rows /\ e.total = NoOffset /\ e.warnings = q.warnings
    BY <1>3, <1>6
  <2>2. Total(Len(e.rows), e.total) = n
    BY <2>1 DEF Total, n
  <2>3. q.warnings \ {"row_limit"} \subseteq ForwardedWarnings(e.warnings, e.total # NoOffset)
    BY <2>1 DEF ForwardedWarnings
  <2>4. e.rows \in Seq(A) /\ Len(e.rows) \in 0..n
    BY <1>1, <2>1 DEF n
  <2> QED
    BY <2>1, <2>2, <2>3, <2>4 DEF A, e, n
<1> QED
  BY <1>5, <1>6

\* A table of a query.
LEMMA TableIs ==
  ASSUME NEW q \in Queries, NEW limit \in Limits, RunCypher(q, limit).state = "table"
  PROVE  LET a == RunCypher(q, limit)
         IN  /\ a.bound = BoundInfo(Len(a.rows), Len(q.rows))
             /\ Len(a.rows) \in Nat /\ DOMAIN a.rows = 1..Len(a.rows)
             /\ \A i \in 1..Len(a.rows) : i \in 1..Len(q.rows) /\ a.rows[i] = TableRow(q.rows[i])
             /\ q.warnings \ {"row_limit"} \subseteq a.warnings
             /\ \E total : /\ a.node_ids = Tabled(a.rows, total).node_ids
                           /\ a.relationships = Tabled(a.rows, total).relationships
                           /\ a.graph_references_truncated = Tabled(a.rows, total).graph_references_truncated
<1> DEFINE a == RunCypher(q, limit)
           most == Least(limit, QueryRows)
           e == Engine(q, most)
           kept == KeptRows(e.rows, most)
           total == Total(Len(e.rows), e.total)
           table == Tabled(kept, total)
           A == ToSet(q.rows)
<1>1. most \in Nat
  BY ReadingAssumption, QueryAssumption DEF Least
<1>2. /\ e.rows \in Seq(A) /\ Len(e.rows) \in 0..Len(q.rows)
      /\ \A i \in 1..Len(e.rows) : e.rows[i] = q.rows[i]
      /\ total = Len(q.rows)
      /\ q.warnings \ {"row_limit"} \subseteq ForwardedWarnings(e.warnings, e.total # NoOffset)
  BY <1>1, EngineIs
<1>3. Len(q.rows) \in Nat /\ \A row \in A : IsRow(row)
  BY QueriesAre
<1> HIDE DEF A
<1>4. /\ Len(kept) \in 0..Len(e.rows) /\ DOMAIN kept = 1..Len(kept)
      /\ \A i \in 1..Len(kept) : kept[i] = TableRow(e.rows[i])
  <2> HIDE DEF e, most
  <2> QED
    BY <1>1, <1>2, <1>3, KeptRowsAre
<1>5. a = Checked(q, e, table)
  BY DEF RunCypher, Shaped, ToTable
<1> HIDE DEF e, most, kept, total
<1>6. /\ table.rows = kept /\ table.bound = BoundInfo(Len(kept), total) /\ table.state = "table"
  BY DEF Tabled, TableOf
<1>7. a = [table EXCEPT !.warnings = ForwardedWarnings(e.warnings, e.total # NoOffset), !.explain = q.explain]
  <2> HIDE DEF table
  <2>1. Refused.state # "table"
    BY DEF Refused
  <2> QED
    BY <1>5, <2>1 DEF Checked
<1>8. table = [state |-> table.state, rows |-> table.rows, bound |-> table.bound, node_ids |-> table.node_ids,
               relationships |-> table.relationships,
               graph_references_truncated |-> table.graph_references_truncated,
               warnings |-> table.warnings, explain |-> table.explain]
  BY DEF Tabled, TableOf
<1> HIDE DEF a
<1>9. /\ a.rows = table.rows /\ a.bound = table.bound /\ a.node_ids = table.node_ids
      /\ a.relationships = table.relationships /\ a.graph_references_truncated = table.graph_references_truncated
      /\ a.warnings = ForwardedWarnings(e.warnings, e.total # NoOffset)
  <2> HIDE DEF table
  <2> QED
    BY <1>7, <1>8
<1>10. Len(kept) \in Nat /\ \A i \in 1..Len(kept) : i \in 1..Len(q.rows) /\ i \in 1..Len(e.rows)
  BY <1>2, <1>3, <1>4
<1>11. \A i \in 1..Len(kept) : kept[i] = TableRow(q.rows[i])
  BY <1>2, <1>4, <1>10
<1> HIDE DEF table
<1>12. a.bound = BoundInfo(Len(a.rows), Len(q.rows))
  BY <1>2, <1>6, <1>9
<1>13. /\ a.node_ids = Tabled(a.rows, total).node_ids
       /\ a.relationships = Tabled(a.rows, total).relationships
       /\ a.graph_references_truncated = Tabled(a.rows, total).graph_references_truncated
  BY <1>6, <1>9 DEF table
<1>14. q.warnings \ {"row_limit"} \subseteq a.warnings
  BY <1>2, <1>9
<1> QED
  BY <1>4, <1>6, <1>9, <1>10, <1>11, <1>12, <1>13, <1>14 DEF a

-----------------------------------------------------------------------------
(* The graph of a table. *)

LEMMA FirstIsWhole ==
  ASSUME NEW S, NEW s \in Seq(S), NEW most \in Nat, ~(Len(s) > most)
  PROVE  First(s, most) = s
<1>1. /\ First(s, most) \in Seq(S) /\ Len(First(s, most)) = Least(Len(s), most)
      /\ \A i \in 1..Len(First(s, most)) : First(s, most)[i] = s[i]
  BY FirstIs
<1>2. Len(s) \in Nat /\ Least(Len(s), most) = Len(s)
  BY DEF Least
<1> QED
  BY <1>1, <1>2

\* What there is once is what there is.
LEMMA DistinctIs ==
  ASSUME NEW S, NEW s \in Seq(S)
  PROVE  Distinct(s) \in Seq(S) /\ ToSet(Distinct(s)) = ToSet(s)
<1> DEFINE n == Len(s)
           I == {i \in DOMAIN s : \A j \in 1..i - 1 : s[j] # s[i]}
           p == Picked(s, I)
           P == {s[i] : i \in I}
<1>1. n \in Nat /\ DOMAIN s = 1..n /\ I \in SUBSET (1..n) /\ \A i \in 1..n : s[i] \in S
  OBVIOUS
<1>2. Distinct(s) = p
  BY DEF Distinct
<1>3. ASSUME NEW i \in 1..n PROVE \E k \in I : s[k] = s[i]
  <2> DEFINE K == {k \in 1..n : s[k] = s[i]}
  <2>1. i \in K /\ K \in SUBSET Nat
    OBVIOUS
  <2>2. PICK k \in K : \A j \in K : k <= j
    <3> HIDE DEF K
    <3> QED
      BY <2>1, LeastOf
  <2>3. \A j \in 1..k - 1 : s[j] # s[k]
    <3> SUFFICES ASSUME NEW j \in 1..k - 1, s[j] = s[k] PROVE FALSE
      OBVIOUS
    <3>1. j \in K
      BY <1>1, <2>2
    <3> QED
      BY <2>2, <3>1
  <2> QED
    BY <1>1, <2>2, <2>3
<1> HIDE DEF I
<1>4. p \in Seq(P) /\ \A i \in I : \E k \in 1..Len(p) : p[k] = s[i]
  <2>1. I \in SUBSET (1..Len(s))
    BY <1>1
  <2> QED
    BY <2>1, PickedIs, Zenon
<1>5. P = {s[i] : i \in 1..n} /\ P \subseteq S
  BY <1>1, <1>3
<1> HIDE DEF p, n
<1>6. ToSet(p) = P
  <2> DEFINE Q == P
  <2>1. p \in Seq(Q) /\ \A x \in Q : \E k \in 1..Len(p) : p[k] = x
    BY <1>4
  <2> HIDE DEF Q
  <2>2. ToSet(p) = {p[k] : k \in 1..Len(p)} /\ ToSet(p) \subseteq Q
    BY <2>1, SetOf
  <2>3. Q \subseteq ToSet(p)
    BY <2>1, <2>2
  <2>4. ToSet(p) = Q
    BY <2>2, <2>3
  <2> QED
    BY <2>4 DEF Q
<1> HIDE DEF P
<1>7. p \in Seq(S)
  BY <1>4, <1>5, WiderIs
<1>8. ToSet(s) = {s[i] : i \in 1..n}
  BY <1>1 DEF ToSet
<1> QED
  BY <1>2, <1>5, <1>6, <1>7, <1>8

\* All of what some rows name, when nothing is left out.
LEMMA GatheredIs ==
  ASSUME NEW A, NEW n \in Nat, NEW seqs \in [1..n -> Seq(A)], NEW most \in Nat,
         ~(Len(Distinct(FlattenSeq(seqs))) > most)
  PROVE  /\ First(Distinct(FlattenSeq(seqs)), most) \in Seq(A)
         /\ ToSet(First(Distinct(FlattenSeq(seqs)), most)) = UNION {ToSet(seqs[i]) : i \in 1..n}
<1> DEFINE flat == FlattenSeq(seqs)
<1>1. flat \in Seq(A) /\ ToSet(flat) = UNION {ToSet(seqs[i]) : i \in 1..n}
  BY FlattenedSet
<1>2. ~(Len(Distinct(flat)) > most)
  OBVIOUS
<1> HIDE DEF flat
<1>3. Distinct(flat) \in Seq(A) /\ ToSet(Distinct(flat)) = ToSet(flat)
  BY <1>1, DistinctIs
<1>4. First(Distinct(flat), most) = Distinct(flat)
  BY <1>2, <1>3, FirstIsWhole
<1>5. /\ First(Distinct(flat), most) \in Seq(A)
      /\ ToSet(First(Distinct(flat), most)) = UNION {ToSet(seqs[i]) : i \in 1..n}
  BY <1>1, <1>3, <1>4
<1> QED
  BY <1>5 DEF flat

LEMMA RunsAre ==
  ASSUME NEW q, NEW limit
  PROVE  RunCypher(q, limit).state \in {"table", "refused"}
<1> DEFINE most == Least(limit, QueryRows)
           e == Engine(q, most)
           kept == KeptRows(e.rows, most)
           total == Total(Len(e.rows), e.total)
           table == Tabled(kept, total)
<1>1. RunCypher(q, limit) = Checked(q, e, table)
  BY DEF RunCypher, Shaped, ToTable
<1>2. table.state = "table" /\ [table EXCEPT !.warnings = ForwardedWarnings(e.warnings, e.total # NoOffset),
                                             !.explain = q.explain].state = "table"
  BY DEF Tabled, TableOf
<1>3. Refused.state = "refused"
  BY DEF Refused
<1> HIDE DEF table, e
<1> QED
  BY <1>1, <1>2, <1>3 DEF Checked

\* Every entity that a row that is shown names, and no other.
LEMMA GraphIs ==
  ASSUME NEW q \in Queries, NEW limit \in Limits, AsGraph(q, limit).state = "slice"
  PROVE  LET g == AsGraph(q, limit)
             rows == RunCypher(q, limit).rows
         IN  /\ ToSet(g.nodes) = InRows(q, Len(rows), NodesIn)
             /\ {r.id : r \in ToSet(g.links)} = InRows(q, Len(rows), RelsIn)
             /\ \A r \in ToSet(g.links) : {r.from, r.to} \subseteq ToSet(g.nodes)
             /\ \A i \in DOMAIN rows :
                  rows[i].references.truncated
                    \/ ToSet(rows[i].references.nodes) = UNION {NodesIn(x) : x \in ToSet(q.rows[i])}
<1> DEFINE a == RunCypher(q, limit)
           g == AsGraph(q, limit)
           kept == a.rows
           n == Len(kept)
           raw == [i \in 1..n |-> References(q.rows[i])]
           nodes == [i \in 1..n |-> raw[i].nodes]
           rels == [i \in 1..n |-> raw[i].rels]
           N == First(Distinct(FlattenSeq(nodes)), LoadedNodes + 1)
           L == First(Distinct(FlattenSeq(rels)), LoadedEdges + 1)
<1>1. g = [state |-> "slice", nodes |-> a.node_ids, links |-> a.relationships,
           bound |-> BoundInfo(Len(a.node_ids), Len(a.node_ids))]
      /\ a.state = "table" /\ ~a.graph_references_truncated
  BY RunsAre DEF AsGraph, Drawn, Refused
<1>2. /\ n \in Nat /\ DOMAIN kept = 1..n
      /\ \A i \in 1..n : i \in 1..Len(q.rows) /\ kept[i] = TableRow(q.rows[i])
  BY <1>1, TableIs
<1>3. PICK total : /\ a.node_ids = Tabled(kept, total).node_ids
                   /\ a.relationships = Tabled(kept, total).relationships
                   /\ a.graph_references_truncated = Tabled(kept, total).graph_references_truncated
  BY <1>1, TableIs
<1>4. g.nodes = a.node_ids /\ g.links = a.relationships
  BY <1>1
<1> HIDE DEF a, g
<1>5. \A i \in 1..n : IsRow(q.rows[i])
  <2>1. \A i \in 1..Len(q.rows) : q.rows[i] \in ToSet(q.rows)
    <3> DEFINE A == ToSet(q.rows)
    <3>1. q.rows \in Seq(A)
      BY QueriesAre
    <3> HIDE DEF A
    <3>2. \A i \in 1..Len(q.rows) : q.rows[i] \in A
      BY <3>1
    <3> QED
      BY <3>2 DEF A
  <2> QED
    BY <1>2, <2>1, QueriesAre
<1> HIDE DEF n
<1>6. \A i \in 1..n : /\ kept[i].raw = raw[i] /\ kept[i].references = Scoped(raw[i])
                      /\ raw[i] = References(q.rows[i])
  <2> HIDE DEF kept
  <2> SUFFICES ASSUME NEW i \in 1..n
               PROVE  /\ kept[i].raw = raw[i] /\ kept[i].references = Scoped(raw[i])
                      /\ raw[i] = References(q.rows[i])
    OBVIOUS
  <2>1. raw[i] = References(q.rows[i])
    OBVIOUS
  <2> HIDE DEF raw
  <2>2. kept[i] = TableRow(q.rows[i])
    BY <1>2
  <2>3. TableRow(q.rows[i]).raw = References(q.rows[i]) /\ TableRow(q.rows[i]).references = Scoped(References(q.rows[i]))
    BY DEF TableRow
  <2> QED
    BY <2>1, <2>2, <2>3, Zenon
<1> HIDE DEF kept
<1>7. \A i \in 1..n :
         /\ raw[i] \in RowNames
         /\ ~raw[i].incomplete =>
              /\ ToSet(raw[i].nodes) = UNION {NodesIn(v) : v \in ToSet(q.rows[i])}
              /\ {r.id : r \in ToSet(raw[i].rels)} = UNION {RelsIn(v) : v \in ToSet(q.rows[i])}
              /\ EndsNamed(raw[i].rels, raw[i].nodes)
  BY <1>5, <1>6, ReferencesAre
<1> HIDE DEF raw
<1>8. \A i \in 1..n : raw[i].nodes \in Seq(Nat) /\ raw[i].rels \in Seq(Link)
  <2> SUFFICES ASSUME NEW i \in 1..n PROVE raw[i].nodes \in Seq(Nat) /\ raw[i].rels \in Seq(Link)
    OBVIOUS
  <2>1. raw[i] \in [nodes : Seq(Nat), rels : Seq(Link), work : Nat, incomplete : BOOLEAN]
    BY <1>7 DEF RowNames
  <2> QED
    BY <2>1
<1>9. /\ nodes \in [1..n -> Seq(Nat)] /\ rels \in [1..n -> Seq(Link)]
      /\ \A i \in 1..n : nodes[i] = raw[i].nodes /\ rels[i] = raw[i].rels
  BY <1>8
<1>10. Flat(kept, LAMBDA r : r.raw.nodes) = FlattenSeq(nodes) /\ Flat(kept, LAMBDA r : r.raw.rels) = FlattenSeq(rels)
  <2>1. [i \in DOMAIN kept |-> kept[i].raw.nodes] = nodes /\ [i \in DOMAIN kept |-> kept[i].raw.rels] = rels
    BY <1>2, <1>6
  <2> QED
    BY <2>1 DEF Flat
<1> HIDE DEF nodes, rels
<1>11. /\ g.nodes = N /\ g.links = L
       /\ \A i \in 1..n : ~raw[i].incomplete
       /\ ~(Len(Distinct(FlattenSeq(nodes))) > LoadedNodes + 1)
       /\ ~(Len(Distinct(FlattenSeq(rels))) > LoadedEdges + 1)
  <2>1. a.node_ids = N /\ a.relationships = L
    BY <1>3, <1>10 DEF Tabled, TableOf
  <2>2. ~(\/ \E i \in DOMAIN kept : kept[i].raw.incomplete
          \/ Len(Distinct(FlattenSeq(nodes))) > LoadedNodes + 1 \/ Len(Distinct(FlattenSeq(rels))) > LoadedEdges + 1)
    BY <1>1, <1>3, <1>10 DEF Tabled, TableOf
  <2>3. \A i \in 1..n : ~raw[i].incomplete
    BY <1>2, <1>6, <2>2
  <2> QED
    BY <1>4, <2>1, <2>2, <2>3
<1>12. LoadedNodes + 1 \in Nat /\ LoadedEdges + 1 \in Nat /\ MaxReferences \in Nat
  BY QueryAssumption
<1>13. ToSet(g.nodes) = UNION {ToSet(nodes[i]) : i \in 1..n}
  <2> DEFINE most == LoadedNodes + 1
  <2>1. most \in Nat /\ ~(Len(Distinct(FlattenSeq(nodes))) > most)
    BY <1>11, <1>12
  <2> HIDE DEF most
  <2>2. /\ First(Distinct(FlattenSeq(nodes)), most) \in Seq(Nat)
        /\ ToSet(First(Distinct(FlattenSeq(nodes)), most)) = UNION {ToSet(nodes[i]) : i \in 1..n}
    <3> DEFINE B == Nat
    <3>1. n \in Nat /\ nodes \in [1..n -> Seq(B)]
      BY <1>2, <1>9
    <3> SUFFICES /\ First(Distinct(FlattenSeq(nodes)), most) \in Seq(B)
                 /\ ToSet(First(Distinct(FlattenSeq(nodes)), most)) = UNION {ToSet(nodes[i]) : i \in 1..n}
      OBVIOUS
    <3> HIDE DEF B
    <3> QED
      BY <2>1, <3>1, GatheredIs, SMTT(40)
  <2> QED
    BY <1>11, <2>2, Zenon DEF most
<1>14. ToSet(g.links) = UNION {ToSet(rels[i]) : i \in 1..n}
  <2> DEFINE most == LoadedEdges + 1
  <2>1. most \in Nat /\ ~(Len(Distinct(FlattenSeq(rels))) > most)
    BY <1>11, <1>12
  <2> HIDE DEF most
  <2>2. /\ First(Distinct(FlattenSeq(rels)), most) \in Seq(Link)
        /\ ToSet(First(Distinct(FlattenSeq(rels)), most)) = UNION {ToSet(rels[i]) : i \in 1..n}
    <3>1. n \in Nat /\ rels \in [1..n -> Seq(Link)]
      BY <1>2, <1>9
    <3> QED
      BY <2>1, <3>1, GatheredIs, SMTT(40)
  <2> QED
    BY <1>11, <2>2, Zenon DEF most
<1> HIDE DEF N, L
<1>15. ToSet(g.nodes) = InRows(q, n, NodesIn)
  <2>1. \A x : x \in ToSet(g.nodes) <=> \E i \in 1..n : x \in ToSet(raw[i].nodes)
    BY <1>9, <1>13
  <2>2. \A x : x \in InRows(q, n, NodesIn) <=> \E i \in 1..n : \E v \in ToSet(q.rows[i]) : x \in NodesIn(v)
    BY DEF InRows
  <2>3. \A i \in 1..n : \A x : x \in ToSet(raw[i].nodes) <=> \E v \in ToSet(q.rows[i]) : x \in NodesIn(v)
    BY <1>7, <1>11
  <2>4. \A x : x \in ToSet(g.nodes) <=> x \in InRows(q, n, NodesIn)
    BY <2>1, <2>2, <2>3
  <2> QED
    BY <2>4
<1>16. {r.id : r \in ToSet(g.links)} = InRows(q, n, RelsIn)
  <2>1. \A r : r \in ToSet(g.links) <=> \E i \in 1..n : r \in ToSet(raw[i].rels)
    BY <1>9, <1>14
  <2>2. \A x : x \in InRows(q, n, RelsIn) <=> \E i \in 1..n : \E v \in ToSet(q.rows[i]) : x \in RelsIn(v)
    BY DEF InRows
  <2>3. \A i \in 1..n : \A x : (\E r \in ToSet(raw[i].rels) : x = r.id) <=> \E v \in ToSet(q.rows[i]) : x \in RelsIn(v)
    <3> SUFFICES ASSUME NEW i \in 1..n, NEW x
                 PROVE  (\E r \in ToSet(raw[i].rels) : x = r.id) <=> \E v \in ToSet(q.rows[i]) : x \in RelsIn(v)
      OBVIOUS
    <3>1. {r.id : r \in ToSet(raw[i].rels)} = UNION {RelsIn(v) : v \in ToSet(q.rows[i])}
      BY <1>7, <1>11
    <3>2. x \in {r.id : r \in ToSet(raw[i].rels)} <=> \E r \in ToSet(raw[i].rels) : x = r.id
      OBVIOUS
    <3>3. x \in UNION {RelsIn(v) : v \in ToSet(q.rows[i])} <=> \E v \in ToSet(q.rows[i]) : x \in RelsIn(v)
      OBVIOUS
    <3> QED
      BY <3>1, <3>2, <3>3
  <2>4. \A x : x \in {r.id : r \in ToSet(g.links)} <=> \E r \in ToSet(g.links) : x = r.id
    OBVIOUS
  <2>5. \A x : x \in {r.id : r \in ToSet(g.links)} <=> x \in InRows(q, n, RelsIn)
    <3> SUFFICES ASSUME NEW x PROVE x \in {r.id : r \in ToSet(g.links)} <=> x \in InRows(q, n, RelsIn)
      OBVIOUS
    <3>1. x \in {r.id : r \in ToSet(g.links)} <=> \E i \in 1..n : \E r \in ToSet(raw[i].rels) : x = r.id
      <4>1. x \in {r.id : r \in ToSet(g.links)} <=> \E r \in ToSet(g.links) : x = r.id
        BY <2>4
      <4>2. ASSUME NEW r \in ToSet(g.links), x = r.id
            PROVE  \E i \in 1..n : \E s \in ToSet(raw[i].rels) : x = s.id
        <5>1. PICK i \in 1..n : r \in ToSet(raw[i].rels)
          BY <2>1
        <5> QED
          BY <4>2, <5>1
      <4>3. ASSUME NEW i \in 1..n, NEW r \in ToSet(raw[i].rels), x = r.id
            PROVE  \E s \in ToSet(g.links) : x = s.id
        <5>1. r \in ToSet(g.links)
          BY <2>1
        <5> QED
          BY <4>3, <5>1
      <4>4. (\E r \in ToSet(g.links) : x = r.id) => \E i \in 1..n : \E r \in ToSet(raw[i].rels) : x = r.id
        BY <4>2
      <4>5. (\E i \in 1..n : \E r \in ToSet(raw[i].rels) : x = r.id) => \E r \in ToSet(g.links) : x = r.id
        BY <4>3
      <4> QED
        BY <4>1, <4>4, <4>5, Zenon
    <3>2. x \in InRows(q, n, RelsIn) <=> \E i \in 1..n : \E v \in ToSet(q.rows[i]) : x \in RelsIn(v)
      BY <2>2
    <3>3. ASSUME NEW i \in 1..n
          PROVE  (\E r \in ToSet(raw[i].rels) : x = r.id) <=> \E v \in ToSet(q.rows[i]) : x \in RelsIn(v)
      BY <2>3
    <3> QED
      BY <3>1, <3>2, <3>3, ZenonT(30)
  <2> QED
    BY <2>5
<1>17. \A r \in ToSet(g.links) : {r.from, r.to} \subseteq ToSet(g.nodes)
  <2> SUFFICES ASSUME NEW r \in ToSet(g.links) PROVE {r.from, r.to} \subseteq ToSet(g.nodes)
    OBVIOUS
  <2>1. PICK i \in 1..n : r \in ToSet(raw[i].rels)
    BY <1>9, <1>14
  <2>2. {r.from, r.to} \subseteq ToSet(raw[i].nodes)
    BY <1>7, <1>11, <2>1 DEF EndsNamed
  <2> QED
    BY <1>9, <1>13, <2>2
<1>18. ASSUME NEW i \in DOMAIN kept, ~kept[i].references.truncated
       PROVE  ToSet(kept[i].references.nodes) = UNION {NodesIn(x) : x \in ToSet(q.rows[i])}
  <2>1. i \in 1..n
    BY <1>2
  <2>2. kept[i].references.nodes = First(raw[i].nodes, MaxReferences) /\ ~(Len(raw[i].nodes) > MaxReferences)
    <3> DEFINE w == raw[i]
    <3>1. kept[i].references = Scoped(w)
      BY <1>6, <2>1
    <3> HIDE DEF w
    <3>2. /\ Scoped(w).nodes = First(w.nodes, MaxReferences)
          /\ Scoped(w).truncated = (w.incomplete \/ Len(w.nodes) > MaxReferences \/ Len(w.rels) > MaxReferences)
      BY DEF Scoped
    <3> QED
      BY <1>18, <3>1, <3>2 DEF w
  <2>3. First(raw[i].nodes, MaxReferences) = raw[i].nodes
    BY <1>8, <1>12, <2>1, <2>2, FirstIsWhole
  <2> QED
    BY <1>7, <1>11, <2>1, <2>2, <2>3
<1>19. RunCypher(q, limit).rows = kept /\ Len(RunCypher(q, limit).rows) = n /\ AsGraph(q, limit) = g
  BY DEF kept, n, a, g
<1> QED
  BY <1>15, <1>16, <1>17, <1>18, <1>19

-----------------------------------------------------------------------------
(* Searches, drafts and the detail of a node. *)

\* All the numbers, in order, are the numbers.
LEMMA OrderedAll ==
  ASSUME NEW n \in Nat
  PROVE  LET at == Ordered(n, 1..n)
         IN  Len(at) = n /\ DOMAIN at = 1..n /\ \A k \in 1..n : at[k] = k
<1> DEFINE I == 1..n
           at == Ordered(n, 1..n)
           S == {k \in 0..n : k <= Len(at) /\ \A j \in 1..k : at[j] = j}
<1>1. /\ at \in Seq(I)
      /\ \A x \in I : \E k \in 1..Len(at) : at[k] = x
      /\ \A j, k \in 1..Len(at) : j < k => at[j] < at[k]
  <2>1. I \in SUBSET (1..n)
    OBVIOUS
  <2> QED
    BY <2>1, OrderedIs
<1> HIDE DEF at
<1>2. Len(at) \in Nat /\ \A k \in 1..Len(at) : at[k] \in 1..n
  <2> HIDE DEF I
  <2>1. Len(at) \in Nat /\ \A k \in 1..Len(at) : at[k] \in I
    BY <1>1
  <2> QED
    BY <2>1 DEF I
<1>3. 0 \in S
  BY <1>2
<1>4. ASSUME NEW k \in 1..n, k - 1 \in S PROVE k \in S
  <2>1. k - 1 <= Len(at) /\ \A j \in 1..(k - 1) : at[j] = j
    BY <1>4
  <2>2. PICK m \in 1..Len(at) : at[m] = k
    BY <1>1
  <2>3. m \notin 1..(k - 1)
    BY <2>1, <2>2
  <2>4. k <= m /\ k \in 1..Len(at)
    BY <1>2, <2>3
  <2>5. m = k
    <3> SUFFICES ASSUME k < m PROVE FALSE
      BY <2>4, <1>2
    <3>1. at[k] < k /\ at[k] \in 1..n
      BY <1>1, <1>2, <2>2, <2>4
    <3>2. at[k] \in 1..(k - 1) /\ at[k] \in 1..Len(at)
      BY <2>4, <3>1, <1>2
    <3>3. at[at[k]] = at[k]
      BY <2>1, <3>2
    <3>4. at[at[k]] < at[k]
      BY <1>1, <2>4, <3>1, <3>2
    <3> QED
      BY <3>1, <3>3, <3>4
  <2>6. \A j \in 1..k : j = k \/ j \in 1..(k - 1)
    OBVIOUS
  <2>7. \A j \in 1..k : at[j] = j
    BY <2>1, <2>2, <2>5, <2>6
  <2> QED
    BY <1>2, <2>4, <2>7
<1>5. n \in S
  <2>1. n \in Nat /\ n \in 0..n
    OBVIOUS
  <2>2. \A i \in 1..n : i - 1 \in S => i \in S
    BY <1>4
  <2> HIDE DEF S
  <2>3. \A i \in 0..n : i \in S
    BY <1>3, <2>1, <2>2, UpTo
  <2> QED
    BY <2>1, <2>3
<1>6. n <= Len(at) /\ \A j \in 1..n : at[j] = j
  BY <1>5
<1>7. Len(at) = n
  <2> SUFFICES ASSUME n < Len(at) PROVE FALSE
    BY <1>2, <1>6
  <2>1. n + 1 \in 1..Len(at) /\ at[n + 1] \in 1..n
    BY <1>2
  <2>2. at[n + 1] \in 1..Len(at) /\ at[n + 1] < n + 1
    BY <1>2, <2>1
  <2>3. at[at[n + 1]] = at[n + 1]
    BY <1>6, <2>1
  <2>4. at[at[n + 1]] < at[n + 1]
    BY <1>1, <2>1, <2>2
  <2> QED
    BY <2>1, <2>3, <2>4
<1>8. DOMAIN at = 1..Len(at)
  BY <1>1
<1> QED
  BY <1>6, <1>7, <1>8 DEF at

LEMMA PropertiesOfNone == Properties("node", <<>>) \in Seq(Met)
<1> DEFINE x == [t |-> "props", d |-> 0, at |-> 0, n |-> 0, of |-> "node"]
<1>1. x \in Met
  BY DEF Met
<1>2. Flat(<<>>, Keyed) = <<>>
  <2> DEFINE seqs == [i \in 1..0 |-> Keyed(<<>>[i])]
  <2>1. Flat(<<>>, Keyed) = FlattenSeq(seqs)
    BY DEF Flat
  <2>2. seqs \in [1..0 -> Seq(Met)]
    OBVIOUS
  <2> HIDE DEF seqs
  <2>3. FlattenSeq(seqs) \in Seq(Met) /\ ToSet(FlattenSeq(seqs)) = UNION {ToSet(seqs[i]) : i \in 1..0}
    BY <2>2, FlattenedSet
  <2> DEFINE flat == FlattenSeq(seqs)
  <2>4. flat \in Seq(Met) /\ ToSet(flat) = {}
    BY <2>3
  <2> HIDE DEF flat
  <2>5. flat = <<>>
    <3> DEFINE A == Met
    <3>1. flat \in Seq(A)
      BY <2>4
    <3> HIDE DEF A
    <3>2. \A k \in 1..Len(flat) : flat[k] \in ToSet(flat)
      BY <3>1 DEF ToSet
    <3>3. Len(flat) = 0
      BY <2>4, <3>1, <3>2
    <3> QED
      BY <3>1, <3>3
  <2> QED
    BY <2>1, <2>5 DEF flat
<1>3. Properties("node", <<>>) = Deeper(<<x>> \o <<>>, 1, 0)
  <2>1. Len(<<>>) = 0
    OBVIOUS
  <2> QED
    BY <1>2, <2>1 DEF Properties
<1> HIDE DEF x
<1> DEFINE w == <<x>> \o <<>>
<1>4. w \in Seq(Met)
  <2> DEFINE A == Met
  <2>1. x \in A
    BY <1>1
  <2> HIDE DEF A
  <2>2. w \in Seq(A)
    BY <2>1
  <2> QED
    BY <2>2 DEF A
<1>5. 1 \in Int /\ 0 \in Int
  OBVIOUS
<1>6. Properties("node", <<>>) = Deeper(w, 1, 0)
  BY <1>3
<1> HIDE DEF w
<1>7. Deeper(w, 1, 0) \in Seq(Met)
  BY <1>4, <1>5, DeeperIs
<1> QED
  BY <1>6, <1>7

\* The hits of a search are the first of the matches.
LEMMA SearchIs ==
  ASSUME NEW n \in Nat, NEW rows, DOMAIN rows = 1..n, NEW limit \in Nat
  PROVE  LET a == Search([i \in DOMAIN rows |-> [node |-> Node(i, <<>>), matched |-> rows[i]]], limit)
         IN  /\ DOMAIN a.hits = 1..Len(a.hits) /\ Len(a.hits) \in Nat
             /\ \A i \in 1..Len(a.hits) : a.hits[i].id = i
             /\ a.bound.truncated <=> Len(a.hits) < n
<1> DEFINE M(i) == [node |-> Node(i, <<>>), matched |-> rows[i]]
           all == [i \in 1..n |-> M(i)]
           A == {M(i) : i \in 1..n}
           most == Least(limit, SearchHits)
           some == First(all, most + 1)
           asked == First(some, most)
           m == Len(asked)
           I == {i \in DOMAIN asked : Kind(asked[i].node) = "node"}
           hits == Picked(asked, I)
           a == Search(all, limit)
<1>1. most \in Nat /\ most + 1 \in Nat
  BY QueryAssumption DEF Least
<1>2. all \in Seq(A) /\ Len(all) = n
  <2> HIDE DEF M
  <2> QED
    OBVIOUS
<1>3. \A i \in 1..n : Kind(M(i).node) = "node" /\ M(i).node[1].id = i
  <2> SUFFICES ASSUME NEW i \in 1..n PROVE Kind(Node(i, <<>>)) = "node" /\ Node(i, <<>>)[1].id = i
    OBVIOUS
  <2> DEFINE x == [t |-> "node", d |-> 0, at |-> 0, id |-> i, hop |-> FALSE]
             p == Properties("node", <<>>)
  <2>1. Node(i, <<>>) = <<x>> \o p /\ x.t = "node" /\ x.id = i
    BY DEF Node
  <2>2. Len(p) \in Nat
    <3>1. p \in Seq(Met)
      BY PropertiesOfNone
    <3> QED
      BY <3>1
  <2> HIDE DEF x, p
  <2>3. Node(i, <<>>)[1] = x
    BY <2>1, <2>2
  <2> QED
    BY <2>1, <2>3 DEF Kind
<1>4. \A i \in 1..n : all[i] = M(i)
  OBVIOUS
<1> HIDE DEF M, A, all
<1>5. /\ some \in Seq(A) /\ Len(some) = Least(n, most + 1) /\ Len(some) \in 0..n
      /\ \A i \in 1..Len(some) : some[i] = all[i]
  BY <1>1, <1>2, FirstIs
<1> HIDE DEF some
<1>6. /\ asked \in Seq(A) /\ m = Least(Len(some), most) /\ m \in 0..Len(some) /\ DOMAIN asked = 1..m
      /\ \A i \in 1..m : asked[i] = some[i]
  BY <1>1, <1>5, FirstIs
<1> HIDE DEF asked, m
<1>7. m \in Nat /\ \A i \in 1..m : i \in 1..n /\ i \in 1..Len(some) /\ asked[i] = M(i)
  <2>1. m \in Nat /\ \A i \in 1..m : i \in 1..n /\ i \in 1..Len(some)
    BY <1>5, <1>6
  <2> QED
    BY <1>4, <1>5, <1>6, <2>1
<1>8. I = 1..m
  BY <1>3, <1>6, <1>7
<1>9. Len(asked) = m
  BY <1>6 DEF m
<1> DEFINE at == Ordered(m, 1..m)
<1>10. Len(at) = m /\ DOMAIN at = 1..m /\ \A k \in 1..m : at[k] = k
  BY <1>7, OrderedAll
<1>11. hits = [k \in DOMAIN at |-> asked[at[k]]]
  <2> HIDE DEF I
  <2> QED
    BY <1>8, <1>9 DEF Picked
<1> HIDE DEF at
<1>12. hits = [k \in 1..m |-> asked[k]]
  <2> HIDE DEF hits
  <2> QED
    BY <1>10, <1>11
<1>13. DOMAIN hits = 1..m /\ Len(hits) = m /\ \A k \in 1..m : hits[k] = asked[k]
  <2> HIDE DEF hits
  <2> QED
    BY <1>7, <1>12
<1>14. a = [state |-> "search",
            hits |-> [i \in DOMAIN hits |-> [id |-> hits[i].node[1].id, label |-> SearchLabel(hits[i].matched)]],
            bound |-> BoundInfo(Len(hits), Len(some))]
  BY DEF Search, some, asked
<1> HIDE DEF hits, most
<1>15. /\ a.hits = [i \in 1..m |-> [id |-> hits[i].node[1].id, label |-> SearchLabel(hits[i].matched)]]
       /\ a.bound = BoundInfo(m, Len(some))
  <2> HIDE DEF a
  <2> QED
    BY <1>13, <1>14
<1> HIDE DEF a
<1>16. DOMAIN a.hits = 1..m /\ Len(a.hits) = m
  BY <1>7, <1>15
<1>17. \A i \in 1..m : a.hits[i].id = i
  <2> SUFFICES ASSUME NEW i \in 1..m PROVE a.hits[i].id = i
    OBVIOUS
  <2>1. a.hits[i].id = hits[i].node[1].id
    BY <1>15
  <2>2. hits[i] = M(i) /\ i \in 1..n
    BY <1>7, <1>13
  <2> QED
    BY <1>3, <2>1, <2>2
<1>18. a.bound.truncated <=> m < n
  <2> DEFINE k == Len(some)
  <2>1. BoundInfo(m, k).truncated <=> m < k
    <3> HIDE DEF k
    <3> QED
      BY DEF BoundInfo
  <2>2. a.bound.truncated <=> m < Len(some)
    BY <1>15, <2>1
  <2> QED
    BY <1>1, <1>5, <1>6, <1>7, <2>2 DEF Least
<1>19. [i \in DOMAIN rows |-> [node |-> Node(i, <<>>), matched |-> rows[i]]] = all
  BY DEF all, M
<1> QED
  BY <1>7, <1>16, <1>17, <1>18, <1>19 DEF a

\* What the editor marks as an error would be refused.
LEMMA DraftIs ==
  ASSUME NEW q, "error" \in Validate(q), NEW n
  PROVE  RunCypher(q, n) = Refused
<1> DEFINE most == Least(n, QueryRows)
           e == Engine(q, most)
           kept == KeptRows(e.rows, most)
           total == Total(Len(e.rows), e.total)
           table == Tabled(kept, total)
<1>1. RunCypher(q, n) = Checked(q, e, table)
  BY DEF RunCypher, Shaped, ToTable
<1>2. ~q.parses \/ q.writes
  BY DEF Validate
<1> HIDE DEF table, e
<1> QED
  BY <1>1, <1>2 DEF Checked

\* A node shows some of its properties, and says when it is not all.
LEMMA NodeDetailIs ==
  ASSUME NEW rows \in Tables, NEW title
  PROVE  LET a == NodeDetail([i \in DOMAIN rows |-> [key |-> 256 + (i % 2), value |-> rows[i]]], title)
         IN  a.bound.truncated <=> Len(a.properties) < Len(rows)
<1> DEFINE n == Len(rows)
           C(i) == [key |-> 256 + (i % 2), value |-> rows[i]]
           cells == [i \in 1..n |-> C(i)]
           A == {C(i) : i \in 1..n}
           I == {i \in DOMAIN cells : cells[i].key <= 256}
           picked == Picked(cells, I)
           P == {cells[i] : i \in I}
           shown == First(picked, MaxFields)
           m == Len(shown)
           a == NodeDetail(cells, title)
<1>1. n \in Nat /\ DOMAIN rows = 1..n
  BY TablesAre
<1>2. cells \in Seq(A) /\ Len(cells) = n /\ DOMAIN cells = 1..n
  <2> HIDE DEF C
  <2> QED
    BY <1>1
<1> HIDE DEF n, C, A, cells
<1>3. I \in SUBSET (1..Len(cells))
  BY <1>2
<1> HIDE DEF I
<1>4. picked \in Seq(P)
  BY <1>2, <1>3, PickedIs
<1> HIDE DEF picked, P
<1>5. shown \in Seq(P) /\ DOMAIN shown = 1..m /\ m \in Nat
  <2>1. MaxFields \in Nat
    BY PageAssumption
  <2>2. shown \in Seq(P) /\ DOMAIN shown = 1..m
    BY <1>4, <2>1, FirstIs
  <2> HIDE DEF shown
  <2> QED
    BY <2>2
<1>6. /\ a.properties = [i \in DOMAIN shown |-> LegacyCell(shown[i].value)]
      /\ a.bound = BoundInfo(m, n)
  <2>1. a = [state |-> "node", properties |-> [i \in DOMAIN shown |-> LegacyCell(shown[i].value)],
             bound |-> BoundInfo(m, n),
             title |-> Least(title, MaxCell), title_truncated |-> title > MaxCell]
    BY <1>2 DEF NodeDetail, picked, I
  <2> HIDE DEF a, shown, m
  <2> QED
    BY <2>1
<1> HIDE DEF shown, m, a
<1>7. Len(a.properties) = m
  <2> DEFINE f == [i \in 1..m |-> LegacyCell(shown[i].value)]
  <2>1. a.properties = f
    BY <1>5, <1>6
  <2>2. DOMAIN f = 1..m
    OBVIOUS
  <2>3. f \in Seq({f[i] : i \in 1..m}) /\ Len(f) = m
    BY <1>5
  <2> QED
    BY <2>1, <2>3
<1>8. a.bound.truncated <=> m < n
  <2>1. BoundInfo(m, n).truncated <=> m < n
    BY DEF BoundInfo
  <2> QED
    BY <1>6, <2>1
<1>9. [i \in DOMAIN rows |-> [key |-> 256 + (i % 2), value |-> rows[i]]] = cells
  BY <1>1 DEF cells, C
<1> QED
  BY <1>7, <1>8, <1>9 DEF n, a

\* An answer is to the question that is being read.
AnswersHold ==
  answer # None =>
    /\ inquiry.kind = "query" => answer = RunCypher(inquiry.query, inquiry.limit)
    /\ inquiry.kind = "graph" => answer = AsGraph(inquiry.query, inquiry.limit)
    /\ inquiry.kind = "search" =>
         answer = Search([i \in DOMAIN inquiry.rows |-> [node |-> Node(i, <<>>), matched |-> inquiry.rows[i]]],
                         inquiry.limit)
    /\ inquiry.kind = "draft" => answer = [state |-> "draft", found |-> Validate(inquiry.query)]
    /\ inquiry.kind = "node" =>
         \E title : answer = NodeDetail([i \in DOMAIN inquiry.rows |-> [key |-> 256 + (i % 2), value |-> inquiry.rows[i]]],
                                        title)

LEMMA ReceiveAnswers ==
  ASSUME Receive, inquiry' = inquiry PROVE AnswersHold'
<1>1. inquiry.kind = "query" => answer' = RunCypher(inquiry.query, inquiry.limit)
  BY AnsweredBy DEF RunQuery, Answered
<1>2. inquiry.kind = "graph" => answer' = AsGraph(inquiry.query, inquiry.limit)
  BY AnsweredBy DEF RunQuery, Answered
<1>3. inquiry.kind = "search" =>
        answer' = Search([i \in DOMAIN inquiry.rows |-> [node |-> Node(i, <<>>), matched |-> inquiry.rows[i]]],
                         inquiry.limit)
  BY AnsweredBy DEF RunSearch, Answered
<1>4. inquiry.kind = "draft" => answer' = [state |-> "draft", found |-> Validate(inquiry.query)]
  BY AnsweredBy DEF ValidateQuery, Answered
<1>5. inquiry.kind = "node" =>
        \E title : answer' = NodeDetail([i \in DOMAIN inquiry.rows |-> [key |-> 256 + (i % 2), value |-> inquiry.rows[i]]],
                                        title)
  BY AnsweredBy DEF ReadNode, Answered
<1> QED
  BY <1>1, <1>2, <1>3, <1>4, <1>5 DEF AnswersHold

(***************************************************************************)
(* A table is the first rows of the answer with the number of rows there   *)
(* were, search hits are the first matches, what the editor marks is       *)
(* refused, a node says what it leaves out, the graph of a query is its    *)
(* table, and a filter keeps what is in its range (query.rs,               *)
(* query_provenance.rs, subset.rs), whatever the ceilings are.             *)
(***************************************************************************)
THEOREM AnswersArePrefixesHolds == ReadSpec => []AnswersArePrefixes
<1>1. ReadInit => AnswersHold
  BY DEF ReadInit, AnswersHold
<1>2. Asked /\ AnswersHold /\ [ReadNext]_readVars => AnswersHold'
  <2> SUFFICES ASSUME AnswersHold, [ReadNext]_readVars PROVE AnswersHold'
    OBVIOUS
  <2>1. ASSUME NEW i \in Inquiries, Ask(i) PROVE AnswersHold'
    BY <2>1 DEF Ask, AnswersHold
  <2>2. ASSUME Receive, inquiry' = inquiry PROVE AnswersHold'
    BY <2>2, ReceiveAnswers
  <2>3. ASSUME UNCHANGED readVars PROVE AnswersHold'
    BY <2>3 DEF readVars, AnswersHold
  <2> QED
    BY <2>1, <2>2, <2>3, ReadingIs
<1>3. Asked /\ AnswersHold /\ FiltersAreExact => AnswersArePrefixes
  <2> SUFFICES ASSUME Asked, AnswersHold PROVE FiltersAreExact => AnswersArePrefixes
    OBVIOUS
  <2>1. inquiry = None \/ inquiry \in Inquiries
    BY DEF Asked
  <2>2. ASSUME inquiry.kind = "query", answer # None, answer.state = "table"
        PROVE  /\ answer.bound = BoundInfo(Len(answer.rows), Len(inquiry.query.rows))
               /\ \A i \in DOMAIN answer.rows : answer.rows[i] = TableRow(inquiry.query.rows[i])
               /\ inquiry.query.warnings \ {"row_limit"} \subseteq answer.warnings
    <3>1. inquiry.query \in Queries /\ inquiry.limit \in Limits
      BY <2>1, <2>2, InquiryIs DEF None
    <3>2. answer = RunCypher(inquiry.query, inquiry.limit)
      BY <2>2 DEF AnswersHold
    <3> QED
      BY <2>2, <3>1, <3>2, TableIs
  <2>3. ASSUME inquiry.kind = "search", answer # None
        PROVE  /\ \A i \in DOMAIN answer.hits : answer.hits[i].id = i
               /\ answer.bound.truncated <=> Len(answer.hits) < Len(inquiry.rows)
    <3>1. inquiry.rows \in Tables /\ inquiry.limit \in Limits
      BY <2>1, <2>3, InquiryIs DEF None
    <3>2. answer = Search([i \in DOMAIN inquiry.rows |-> [node |-> Node(i, <<>>), matched |-> inquiry.rows[i]]],
                          inquiry.limit)
      BY <2>3 DEF AnswersHold
    <3>3. Len(inquiry.rows) \in Nat /\ DOMAIN inquiry.rows = 1..Len(inquiry.rows) /\ inquiry.limit \in Nat
      BY <3>1, TablesAre, ReadingAssumption
    <3> DEFINE rows == inquiry.rows
               limit == inquiry.limit
               n == Len(inquiry.rows)
    <3>4. n \in Nat /\ DOMAIN rows = 1..n /\ limit \in Nat
      BY <3>3
    <3>5. answer = Search([i \in DOMAIN rows |-> [node |-> Node(i, <<>>), matched |-> rows[i]]], limit)
      BY <3>2
    <3> HIDE DEF rows, limit, n
    <3> DEFINE a == Search([i \in DOMAIN rows |-> [node |-> Node(i, <<>>), matched |-> rows[i]]], limit)
    <3>6. /\ DOMAIN a.hits = 1..Len(a.hits)
          /\ \A i \in 1..Len(a.hits) : a.hits[i].id = i
          /\ a.bound.truncated <=> Len(a.hits) < n
      BY <3>4, SearchIs, ZenonT(30)
    <3>7. answer = a
      BY <3>5
    <3> HIDE DEF a
    <3> QED
      BY <3>6, <3>7 DEF n
  <2>4. ASSUME inquiry.kind = "draft", answer # None, "error" \in answer.found, NEW n \in Limits
        PROVE  RunCypher(inquiry.query, n) = Refused
    <3>1. answer = [state |-> "draft", found |-> Validate(inquiry.query)]
      BY <2>4 DEF AnswersHold
    <3>2. "error" \in Validate(inquiry.query)
      BY <2>4, <3>1
    <3> QED
      BY <3>2, DraftIs
  <2>5. ASSUME inquiry.kind = "node", answer # None
        PROVE  answer.bound.truncated <=> Len(answer.properties) < Len(inquiry.rows)
    <3>1. inquiry.rows \in Tables
      BY <2>1, <2>5, InquiryIs DEF None
    <3>2. PICK title : answer = NodeDetail([i \in DOMAIN inquiry.rows |-> [key |-> 256 + (i % 2), value |-> inquiry.rows[i]]],
                                           title)
      BY <2>5 DEF AnswersHold
    <3> QED
      BY <3>1, <3>2, NodeDetailIs
  <2>6. GraphIsTheTable
    <3> SUFFICES ASSUME inquiry.kind = "graph", answer # None, answer.state = "slice" PROVE GraphIsTheTable
      BY DEF GraphIsTheTable
    <3>1. inquiry.query \in Queries /\ inquiry.limit \in Limits
      BY <2>1, InquiryIs DEF None
    <3>2. answer = AsGraph(inquiry.query, inquiry.limit)
      BY DEF AnswersHold
    <3> QED
      BY <3>1, <3>2, GraphIs DEF GraphIsTheTable
  <2> QED
    BY <2>2, <2>3, <2>4, <2>5, <2>6 DEF AnswersArePrefixes
<1> QED
  BY <1>1, <1>2, <1>3, ReadsAreAsked, FiltersAreExactHolds, PTL DEF ReadSpec
=============================================================================
