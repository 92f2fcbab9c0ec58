---------------------------- MODULE CatalogProofs ----------------------------
(***************************************************************************)
(* Proofs about Catalog, for every catalogue of BigQuery, every pattern,   *)
(* every configuration, any number of threads and every call.              *)
(*                                                                         *)
(* First what Selected and FlattenSeq give of a sequence; then the shape   *)
(* of the state; then, from the arguments of a call of SQLTables or        *)
(* SQLColumns, what its rounds ask for and what their answers hold         *)
(* whatever BigQuery does meanwhile (CallInv); then the rows with which    *)
(* such a call ends (EndInv).                                              *)
(***************************************************************************)
EXTENDS Catalog, WellFoundedInduction, SequenceTheorems, FiniteSetTheorems, TLAPS

-----------------------------------------------------------------------------
(* Subsequences.                                                           *)

Less == {ss \in Nat \X Nat : ss[1] < ss[2]}
LEMMA LeastNat ==
  ASSUME NEW T, T \subseteq Nat, T # {}
  PROVE  \E x \in T : \A y \in T : x <= y
<1>1. IsWellFoundedOn(Less, Nat)
  BY NatLessThanWellFounded, Zenon DEF OpToRel, Less
<1>2. PICK x \in T : \A y \in T : ~(<<y, x>> \in Less)
  BY <1>1, WFMin, Zenon
<1>3. ASSUME NEW y \in T
      PROVE  x <= y
  <2>1. x \in Nat /\ y \in Nat
    OBVIOUS
  <2>2. y < x => <<y, x>> \in Less
    BY <2>1 DEF Less
  <2> QED BY <1>2, <2>1, <2>2
<1> QED BY <1>3

\* Induction over a set of numbers.
LEMMA ByNumbers ==
  ASSUME NEW n \in Nat, NEW T, 0 \in T, \A i \in 1..n : i - 1 \in T => i \in T
  PROVE  0..n \subseteq T
<1> SUFFICES ASSUME 0..n \ T # {} PROVE FALSE
  OBVIOUS
<1> DEFINE U == 0..n \ T
<1>0. U \subseteq Nat /\ U # {}
  OBVIOUS
<1>1. PICK i \in U : \A j \in U : i <= j
  <2> HIDE DEF U
  <2> QED BY <1>0, LeastNat
<1>2. i # 0 /\ i \in 1..n /\ i - 1 \in 0..n
  BY <1>1
<1>3. i - 1 \in T
  BY <1>1, <1>2
<1> QED BY <1>1, <1>2, <1>3

-----------------------------------------------------------------------------

\* What the recursion of Selected adds for one more element.
More(seq, S, i, s) == IF seq[i] \in S THEN Append(s, seq[i]) ELSE s
Steps(seq, S, n, f) == [i \in 0..n |-> IF i = 0 THEN <<>> ELSE More(seq, S, i, f[i - 1])]

LEMMA SelectedSteps ==
  ASSUME NEW V, NEW seq \in Seq(V), NEW S
  PROVE  \E f : f = Steps(seq, S, Len(seq), f) /\ Selected(seq, S) = f[Len(seq)]
<1> DEFINE N == Len(seq)
<1> DEFINE T == {n \in 0..N : \E g : g = Steps(seq, S, n, g)}
<1>1. N \in Nat
  OBVIOUS
<1>2. 0 \in T
  <2> DEFINE g == [i \in 0..0 |-> <<>>]
  <2>1. g = Steps(seq, S, 0, g)
    BY DEF Steps
  <2> QED BY <1>1, <2>1
<1>3. ASSUME NEW n \in 1..N, n - 1 \in T
      PROVE  n \in T
  <2>1. PICK g : g = Steps(seq, S, n - 1, g)
    BY <1>3
  <2> DEFINE h == [i \in 0..n |-> IF i = n THEN More(seq, S, n, g[n - 1]) ELSE g[i]]
  <2>2. ASSUME NEW i \in 0..n
        PROVE  h[i] = IF i = 0 THEN <<>> ELSE More(seq, S, i, h[i - 1])
    <3>1. CASE i = n
      BY <3>1
    <3>2. CASE i # n /\ i = 0
      BY <2>1, <3>2 DEF Steps
    <3>3. CASE i # n /\ i # 0
      <4>1. i \in 0..(n - 1) /\ i - 1 \in 0..n /\ i - 1 # n
        BY <3>3
      <4>2. g[i] = More(seq, S, i, g[i - 1])
        BY <2>1, <3>3, <4>1 DEF Steps
      <4> QED BY <3>3, <4>1, <4>2
    <3> QED BY <3>1, <3>2, <3>3
  <2>3. h = Steps(seq, S, n, h)
    BY <2>2 DEF Steps
  <2> QED BY <2>3
<1>4. 0..N \subseteq T
  BY <1>1, <1>2, <1>3, ByNumbers
<1>5. PICK g : g = Steps(seq, S, N, g)
  BY <1>1, <1>4
<1> DEFINE f == CHOOSE f : f = Steps(seq, S, N, f)
<1>6. f = Steps(seq, S, N, f)
  BY <1>5
<1>7. Selected(seq, S) = f[N]
  BY DEF Selected, Steps, More
<1> QED BY <1>6, <1>7

\* Where the elements of a selection come from: all the matching places, in order.
Picks(e, seq, n, S, sel) ==
  /\ e \in [1..Len(sel) -> 1..n]
  /\ \A k \in 1..Len(sel) : sel[k] = seq[e[k]] /\ sel[k] \in S
  /\ \A k, l \in 1..Len(sel) : k < l => e[k] < e[l]
  /\ \A i \in 1..n : seq[i] \in S => \E k \in 1..Len(sel) : e[k] = i

LEMMA SelectedPlaces ==
  ASSUME NEW V, NEW seq \in Seq(V), NEW S
  PROVE  Selected(seq, S) \in Seq(V) /\ \E e : Picks(e, seq, Len(seq), S, Selected(seq, S))
<1> DEFINE N == Len(seq)
<1>1. PICK f : f = Steps(seq, S, N, f) /\ Selected(seq, S) = f[N]
  BY SelectedSteps
<1> DEFINE Good(n) == f[n] \in Seq(V) /\ \E e : Picks(e, seq, n, S, f[n])
           T == {n \in 0..N : Good(n)}
<1>2. N \in Nat /\ f[0] = <<>> /\ \A n \in 1..N : f[n] = More(seq, S, n, f[n - 1])
  BY <1>1 DEF Steps
<1> HIDE DEF N
<1>3. 0 \in T
  <2> DEFINE e == [k \in 1..0 |-> 0]
  <2>1. Picks(e, seq, 0, S, f[0]) /\ f[0] \in Seq(V)
    BY <1>2 DEF Picks
  <2>2. Good(0)
    BY <1>2, <2>1
  <2> HIDE DEF Good
  <2> QED BY <1>2, <2>2
<1>4. ASSUME NEW n \in 1..N, n - 1 \in T
      PROVE  n \in T
  <2>1. PICK e : Picks(e, seq, n - 1, S, f[n - 1])
    BY <1>4
  <2>5. n \in 0..N
    BY <1>2
  <2>2. f[n - 1] \in Seq(V) /\ seq[n] \in V /\ n \in Nat /\ n > 0 /\ f[n] = More(seq, S, n, f[n - 1])
    BY <1>2, <1>4 DEF N
  <2>3. CASE seq[n] \in S
    <3> DEFINE L == Len(f[n - 1])
               d == [k \in 1..(L + 1) |-> IF k = L + 1 THEN n ELSE e[k]]
    <3>1. /\ f[n] = Append(f[n - 1], seq[n]) /\ f[n] \in Seq(V) /\ L \in Nat /\ Len(f[n]) = L + 1
          /\ f[n][L + 1] = seq[n] /\ \A k \in 1..L : f[n][k] = f[n - 1][k]
      BY <2>2, <2>3 DEF More
    <3> HIDE DEF L
    <3>2. \A k \in 1..L : e[k] \in 1..(n - 1)
      BY <2>1 DEF Picks, L
    <3>3. d \in [1..(L + 1) -> 1..n]
      BY <2>2, <3>1, <3>2
    <3>4. ASSUME NEW k \in 1..(L + 1)
          PROVE  f[n][k] = seq[d[k]] /\ f[n][k] \in S
      BY <2>1, <2>3, <3>1 DEF Picks, L
    <3>5. ASSUME NEW k \in 1..(L + 1), NEW l \in 1..(L + 1), k < l
          PROVE  d[k] < d[l]
      BY <2>1, <2>2, <3>1, <3>2, <3>5 DEF Picks, L
    <3>6. ASSUME NEW i \in 1..n, seq[i] \in S
          PROVE  \E k \in 1..(L + 1) : d[k] = i
      <4>1. CASE i = n
        <5>1. L + 1 \in 1..(L + 1) /\ d[L + 1] = n
          BY <3>1
        <5> QED BY <4>1, <5>1
      <4>2. CASE i # n
        <5>0. i \in 1..(n - 1)
          BY <2>2, <4>2
        <5>1. PICK k \in 1..L : e[k] = i
          BY <2>1, <3>6, <5>0 DEF Picks, L
        <5>2. k \in 1..(L + 1) /\ d[k] = i
          BY <3>1, <5>1
        <5> QED BY <5>2
      <4> QED BY <4>1, <4>2
    <3>7. Picks(d, seq, n, S, f[n])
      BY <3>1, <3>3, <3>4, <3>5, <3>6 DEF Picks
    <3>8. Good(n)
      BY <3>1, <3>7
    <3> HIDE DEF Good
    <3> QED BY <2>5, <3>8
  <2>4. CASE seq[n] \notin S
    <3>1. f[n] = f[n - 1]
      BY <2>2, <2>4 DEF More
    <3>2. Picks(e, seq, n, S, f[n])
      BY <2>1, <2>2, <2>4, <3>1 DEF Picks
    <3>3. Good(n)
      BY <2>2, <3>1, <3>2
    <3> HIDE DEF Good
    <3> QED BY <2>5, <3>3
  <2> QED BY <2>3, <2>4
<1>5. 0..N \subseteq T
  <2> HIDE DEF T
  <2> QED BY <1>2, <1>3, <1>4, ByNumbers
<1> QED BY <1>1, <1>2, <1>5 DEF N

\* a comes before b in seq.
Precedes(seq, a, b) == \E i, j \in 1..Len(seq) : i < j /\ seq[i] = a /\ seq[j] = b

LEMMA SelectedOrder ==
  ASSUME NEW V, NEW seq \in Seq(V), NEW S
  PROVE  LET sel == Selected(seq, S) IN
         /\ sel \in Seq(V)
         /\ Range(sel) = Range(seq) \cap S
         /\ \A k, l \in 1..Len(sel) : k < l => Precedes(seq, sel[k], sel[l])
<1> DEFINE sel == Selected(seq, S)
<1>1. sel \in Seq(V)
  BY SelectedPlaces
<1>2. PICK e : Picks(e, seq, Len(seq), S, sel)
  BY SelectedPlaces
<1> HIDE DEF sel
<1>3. Len(seq) \in Nat /\ Len(sel) \in Nat /\ DOMAIN seq = 1..Len(seq) /\ DOMAIN sel = 1..Len(sel)
  BY <1>1
<1>4. Range(sel) \subseteq Range(seq) \cap S
  BY <1>2, <1>3 DEF Picks, Range
<1>5. Range(seq) \cap S \subseteq Range(sel)
  <2> SUFFICES ASSUME NEW i \in 1..Len(seq), seq[i] \in S
               PROVE  \E k \in 1..Len(sel) : sel[k] = seq[i]
    BY <1>3 DEF Range
  <2>1. PICK k \in 1..Len(sel) : e[k] = i
    BY <1>2 DEF Picks
  <2> QED BY <1>2, <2>1 DEF Picks
<1>6. ASSUME NEW k \in 1..Len(sel), NEW l \in 1..Len(sel), k < l
      PROVE  Precedes(seq, sel[k], sel[l])
  BY <1>2, <1>6 DEF Picks, Precedes
<1> QED BY <1>1, <1>4, <1>5, <1>6 DEF sel

Distinct(seq) == \A i, j \in 1..Len(seq) : seq[i] = seq[j] => i = j

LEMMA PrecedesOrder ==
  ASSUME NEW V, NEW seq \in Seq(V), Distinct(seq)
  PROVE  /\ \A a : ~Precedes(seq, a, a)
         /\ \A a, b, c : Precedes(seq, a, b) /\ Precedes(seq, b, c) => Precedes(seq, a, c)
<1>1. \A i \in 1..Len(seq) : i \in Nat
  OBVIOUS
<1>2. \A a : ~Precedes(seq, a, a)
  BY <1>1 DEF Distinct, Precedes
<1>3. ASSUME NEW a, NEW b, NEW c, Precedes(seq, a, b), Precedes(seq, b, c)
      PROVE  Precedes(seq, a, c)
  <2>1. PICK i \in 1..Len(seq), j \in 1..Len(seq) : i < j /\ seq[i] = a /\ seq[j] = b
    BY <1>3 DEF Precedes
  <2>2. PICK k \in 1..Len(seq), l \in 1..Len(seq) : k < l /\ seq[k] = b /\ seq[l] = c
    BY <1>3 DEF Precedes
  <2>3. j = k
    BY <2>1, <2>2 DEF Distinct
  <2>4. i < l
    BY <1>1, <2>1, <2>2, <2>3
  <2> QED BY <2>1, <2>2, <2>4 DEF Precedes
<1> QED BY <1>2, <1>3

\* An increasing function onto an interval is the identity.
LEMMA IncreasingOnto ==
  ASSUME NEW m \in Nat, NEW n \in Nat, NEW g \in [1..m -> 1..n],
         \A k, l \in 1..m : k < l => g[k] < g[l],
         \A i \in 1..n : \E k \in 1..m : g[k] = i
  PROVE  m = n /\ \A k \in 1..m : g[k] = k
<1> DEFINE U == {k \in 1..m : g[k] # k}
<1>1. U = {}
  <2> SUFFICES ASSUME U # {} PROVE FALSE
    OBVIOUS
  <2>1. U \subseteq Nat
    OBVIOUS
  <2>2. PICK k \in U : \A l \in U : k <= l
    <3> HIDE DEF U
    <3> QED BY <2>1, LeastNat
  <2>3. k \in 1..m /\ g[k] \in 1..n /\ g[k] # k
    OBVIOUS
  <2>4. g[k] > k
    <3>1. CASE k = 1
      BY <2>3, <3>1
    <3>2. CASE k # 1
      <4>1. k - 1 \in 1..m /\ k - 1 < k
        BY <2>3, <3>2
      <4>2. k - 1 \notin U
        BY <2>2, <2>3
      <4>3. g[k - 1] = k - 1
        BY <4>1, <4>2
      <4> QED BY <2>3, <4>1, <4>3
    <3> QED BY <3>1, <3>2
  <2>5. k \in 1..n
    BY <2>3, <2>4
  <2>6. PICK l \in 1..m : g[l] = k
    BY <2>5
  <2>7. CASE l < k
    <3>1. l \notin U
      BY <2>2, <2>7
    <3> QED BY <2>6, <2>7, <3>1
  <2>8. CASE ~(l < k)
    <3>1. k < l
      BY <2>3, <2>6, <2>8
    <3>2. g[k] < g[l]
      BY <2>3, <3>1
    <3> QED BY <2>3, <2>4, <2>6, <3>2
  <2> QED BY <2>7, <2>8
<1>2. \A k \in 1..m : g[k] = k
  BY <1>1
<1>3. m <= n
  <2>1. CASE m = 0
    BY <2>1
  <2>2. CASE m # 0
    <3>1. m \in 1..m
      BY <2>2
    <3> QED BY <1>2, <3>1
  <2> QED BY <2>1, <2>2
<1>4. n <= m
  <2>1. CASE n = 0
    BY <2>1
  <2>2. CASE n # 0
    <3>1. n \in 1..n
      BY <2>2
    <3>2. PICK k \in 1..m : g[k] = n
      BY <3>1
    <3> QED BY <1>2, <3>2
  <2> QED BY <2>1, <2>2
<1> QED BY <1>2, <1>3, <1>4

Joins(seqs, n, f) == [i \in 1..n |-> IF i = 1 THEN seqs[i] ELSE f[i - 1] \o seqs[i]]

LEMMA FlattenSteps ==
  ASSUME NEW V, NEW seqs \in Seq(Seq(V)), seqs # <<>>
  PROVE  \E f : f = Joins(seqs, Len(seqs), f) /\ FlattenSeq(seqs) = f[Len(seqs)]
<1> DEFINE N == Len(seqs)
           T == {n \in 0..N : \E g : g = Joins(seqs, n, g)}
<1>1. N \in Nat /\ N # 0
  OBVIOUS
<1>2. 0 \in T
  <2> DEFINE g == [i \in 1..0 |-> <<>>]
  <2>1. g = Joins(seqs, 0, g)
    BY DEF Joins
  <2> QED BY <1>1, <2>1
<1>3. ASSUME NEW n \in 1..N, n - 1 \in T
      PROVE  n \in T
  <2>1. PICK g : g = Joins(seqs, n - 1, g)
    BY <1>3
  <2> DEFINE h == [i \in 1..n |-> IF i = n THEN IF n = 1 THEN seqs[1] ELSE g[n - 1] \o seqs[n]
                                  ELSE g[i]]
  <2>2. ASSUME NEW i \in 1..n
        PROVE  h[i] = IF i = 1 THEN seqs[i] ELSE h[i - 1] \o seqs[i]
    <3>1. CASE i = n
      BY <3>1
    <3>2. CASE i # n
      <4>1. i \in 1..(n - 1)
        BY <3>2
      <4>2. g[i] = IF i = 1 THEN seqs[i] ELSE g[i - 1] \o seqs[i]
        BY <2>1, <4>1 DEF Joins
      <4>3. i # 1 => i - 1 \in 1..n /\ i - 1 # n
        BY <4>1
      <4> QED BY <3>2, <4>1, <4>2, <4>3
    <3> QED BY <3>1, <3>2
  <2>3. h = Joins(seqs, n, h)
    BY <2>2 DEF Joins
  <2> QED BY <2>3
<1>4. 0..N \subseteq T
  BY <1>1, <1>2, <1>3, ByNumbers
<1>5. PICK g : g = Joins(seqs, N, g)
  BY <1>1, <1>4
<1> DEFINE f == CHOOSE f : f = Joins(seqs, N, f)
<1>6. f = Joins(seqs, N, f)
  BY <1>5
<1>7. FlattenSeq(seqs) = f[N]
  BY <1>1 DEF FlattenSeq, Joins
<1> QED BY <1>6, <1>7

\* Where the elements of a flattened sequence come from: the p[i]-th place of
\* the b[i]-th sequence, all places, in order.
Walks(b, p, seqs, n, flat) ==
  /\ b \in [1..Len(flat) -> 1..n] /\ p \in [1..Len(flat) -> Nat]
  /\ \A i \in 1..Len(flat) : p[i] \in 1..Len(seqs[b[i]]) /\ flat[i] = seqs[b[i]][p[i]]
  /\ \A i, j \in 1..Len(flat) : i < j => b[i] < b[j] \/ (b[i] = b[j] /\ p[i] < p[j])
  /\ \A x \in 1..n : \A y \in 1..Len(seqs[x]) : \E i \in 1..Len(flat) : b[i] = x /\ p[i] = y

LEMMA WalkOn ==
  ASSUME NEW V, NEW seqs \in Seq(Seq(V)), NEW n \in Nat, n + 1 <= Len(seqs),
         NEW flat \in Seq(V), NEW b, NEW p, Walks(b, p, seqs, n, flat)
  PROVE  /\ flat \o seqs[n + 1] \in Seq(V)
         /\ \E c, q : Walks(c, q, seqs, n + 1, flat \o seqs[n + 1])
<1> DEFINE L == Len(flat)
           new == seqs[n + 1]
           M == Len(new)
           all == flat \o new
           c == [i \in 1..(L + M) |-> IF i <= L THEN b[i] ELSE n + 1]
           q == [i \in 1..(L + M) |-> IF i <= L THEN p[i] ELSE i - L]
<1>1. new \in Seq(V) /\ L \in Nat /\ M \in Nat
  OBVIOUS
<1>2. /\ all \in Seq(V) /\ Len(all) = L + M
      /\ \A i \in 1..(L + M) : all[i] = IF i <= L THEN flat[i] ELSE new[i - L]
  BY <1>1, ConcatProperties
<1>3. /\ b \in [1..L -> 1..n] /\ p \in [1..L -> Nat]
      /\ \A i \in 1..L : p[i] \in 1..Len(seqs[b[i]]) /\ flat[i] = seqs[b[i]][p[i]]
      /\ \A i, j \in 1..L : i < j => b[i] < b[j] \/ (b[i] = b[j] /\ p[i] < p[j])
      /\ \A x \in 1..n : \A y \in 1..Len(seqs[x]) : \E i \in 1..L : b[i] = x /\ p[i] = y
  BY DEF Walks
<1> HIDE DEF L, M, all
<1>4. c \in [1..(L + M) -> 1..(n + 1)] /\ q \in [1..(L + M) -> Nat]
  <2> SUFFICES ASSUME NEW i \in 1..(L + M)
               PROVE  (IF i <= L THEN b[i] ELSE n + 1) \in 1..(n + 1)
                      /\ (IF i <= L THEN p[i] ELSE i - L) \in Nat
    OBVIOUS
  <2>1. CASE i <= L
    <3>1. i \in 1..L
      BY <1>1, <2>1
    <3>2. b[i] \in 1..n /\ p[i] \in Nat
      BY <1>3, <3>1
    <3> QED BY <2>1, <3>2
  <2>2. CASE ~(i <= L)
    BY <1>1, <2>2
  <2> QED BY <2>1, <2>2
<1>5. ASSUME NEW i \in 1..(L + M)
      PROVE  q[i] \in 1..Len(seqs[c[i]]) /\ all[i] = seqs[c[i]][q[i]]
  <2>1. CASE i <= L
    <3>1. i \in 1..L
      BY <1>1, <2>1
    <3> QED BY <1>2, <1>3, <2>1, <3>1
  <2>2. CASE ~(i <= L)
    <3>1. i - L \in 1..M
      BY <1>1, <2>2
    <3> QED BY <1>2, <2>2, <3>1 DEF M
  <2> QED BY <2>1, <2>2
<1>6. ASSUME NEW i \in 1..(L + M), NEW j \in 1..(L + M), i < j
      PROVE  c[i] < c[j] \/ (c[i] = c[j] /\ q[i] < q[j])
  <2>1. CASE j <= L
    <3>1. i \in 1..L /\ j \in 1..L
      BY <1>1, <1>6, <2>1
    <3> QED BY <1>3, <1>6, <3>1
  <2>2. CASE ~(j <= L) /\ i <= L
    <3>1. i \in 1..L
      BY <1>1, <2>2
    <3>2. b[i] \in 1..n
      BY <1>3, <3>1
    <3> QED BY <2>2, <3>2
  <2>3. CASE ~(j <= L) /\ ~(i <= L)
    BY <1>1, <1>6, <2>3
  <2> QED BY <2>1, <2>2, <2>3
<1>7. ASSUME NEW x \in 1..(n + 1), NEW y \in 1..Len(seqs[x])
      PROVE  \E i \in 1..(L + M) : c[i] = x /\ q[i] = y
  <2>1. CASE x = n + 1
    <3>1. y \in 1..M
      BY <2>1 DEF M
    <3>2. L + y \in 1..(L + M) /\ ~(L + y <= L) /\ (L + y) - L = y
      BY <1>1, <3>1
    <3>3. c[L + y] = x /\ q[L + y] = y
      BY <2>1, <3>2
    <3> QED BY <3>2, <3>3
  <2>2. CASE x # n + 1
    <3>1. x \in 1..n
      BY <2>2
    <3>2. PICK i \in 1..L : b[i] = x /\ p[i] = y
      BY <1>3, <3>1
    <3>3. i \in 1..(L + M) /\ i <= L
      BY <1>1, <3>2
    <3> QED BY <3>2, <3>3
  <2> QED BY <2>1, <2>2
<1> HIDE DEF c, q
<1>8. Walks(c, q, seqs, n + 1, all)
  BY <1>2, <1>4, <1>5, <1>6, <1>7 DEF Walks
<1> QED BY <1>2, <1>8 DEF all

LEMMA FlattenPlaces ==
  ASSUME NEW V, NEW seqs \in Seq(Seq(V))
  PROVE  /\ FlattenSeq(seqs) \in Seq(V)
         /\ \E b, p : Walks(b, p, seqs, Len(seqs), FlattenSeq(seqs))
<1> DEFINE N == Len(seqs)
           none == [i \in 1..0 |-> 0]
<1>1. N \in Nat
  OBVIOUS
<1>0. <<>> \in Seq(V) /\ \E b, p : Walks(b, p, seqs, 0, <<>>)
  <2>1. Walks(none, none, seqs, 0, <<>>)
    BY DEF Walks
  <2> HIDE DEF none
  <2> QED BY <2>1
<1>2. CASE seqs = <<>>
  <2>1. FlattenSeq(seqs) = <<>> /\ N = 0
    BY <1>2 DEF FlattenSeq
  <2> QED BY <1>0, <2>1
<1>3. CASE seqs # <<>>
  <2>1. PICK f : f = Joins(seqs, N, f) /\ FlattenSeq(seqs) = f[N]
    BY <1>3, FlattenSteps
  <2>0. \A n \in 1..N : f[n] = IF n = 1 THEN seqs[n] ELSE f[n - 1] \o seqs[n]
    BY <2>1 DEF Joins
  <2>2. N # 0 /\ f[1] = seqs[1] /\ \A n \in 1..N : n # 1 => f[n] = f[n - 1] \o seqs[n]
    <3>1. N # 0 /\ 1 \in 1..N
      BY <1>1, <1>3
    <3> QED BY <2>0, <3>1
  <2> DEFINE Good(n) == f[n] \in Seq(V) /\ \E b, p : Walks(b, p, seqs, n, f[n])
             T == {n \in 0..N : n # 0 => Good(n)}
  <2> HIDE DEF N
  <2>3. 0 \in T
    BY <1>1
  <2>4. ASSUME NEW n \in 1..N, n - 1 \in T
        PROVE  n \in T
    <3>1. CASE n = 1
      <4>1. PICK b, p : Walks(b, p, seqs, 0, <<>>)
        BY <1>0
      <4>2. <<>> \o seqs[1] = seqs[1] /\ 0 + 1 <= Len(seqs) /\ 0 + 1 = 1
        BY <1>1, <2>2 DEF N
      <4>3. seqs[0 + 1] \in Seq(V) /\ \E c, q : Walks(c, q, seqs, 0 + 1, <<>> \o seqs[0 + 1])
        <5>1. /\ <<>> \o seqs[0 + 1] \in Seq(V)
              /\ \E c, q : Walks(c, q, seqs, 0 + 1, <<>> \o seqs[0 + 1])
          BY <1>0, <4>1, <4>2, WalkOn
        <5> QED BY <4>2, <5>1
      <4>4. Good(1)
        BY <2>2, <4>2, <4>3
      <4> HIDE DEF Good
      <4> QED BY <3>1, <4>4
    <3>2. CASE n # 1
      <4>1. n - 1 \in Nat /\ n - 1 # 0 /\ (n - 1) + 1 = n /\ n <= Len(seqs) /\ n \in 0..N
        BY <1>1, <3>2 DEF N
      <4>2. Good(n - 1)
        BY <2>4, <4>1
      <4>3. PICK b, p : Walks(b, p, seqs, n - 1, f[n - 1])
        BY <4>2
      <4>4. f[n - 1] \in Seq(V) /\ f[n] = f[n - 1] \o seqs[n]
        BY <2>2, <3>2, <4>2
      <4>5. f[n - 1] \o seqs[n] \in Seq(V) /\ \E c, q : Walks(c, q, seqs, n, f[n - 1] \o seqs[n])
        BY <4>1, <4>3, <4>4, WalkOn
      <4>6. Good(n)
        BY <4>4, <4>5
      <4> HIDE DEF Good
      <4> QED BY <4>1, <4>6
    <3> QED BY <3>1, <3>2
  <2>5. 0..N \subseteq T
    <3> HIDE DEF T
    <3> QED BY <1>1, <2>3, <2>4, ByNumbers
  <2>6. Good(N)
    <3> HIDE DEF Good
    <3> QED BY <1>1, <2>2, <2>5
  <2> QED BY <2>1, <2>6 DEF N
<1> QED BY <1>2, <1>3

\* Selecting the elements of one of the sequences gives that sequence back.
LEMMA BlockSelected ==
  ASSUME NEW V, NEW seqs \in Seq(Seq(V)), NEW S, NEW n \in 1..Len(seqs),
         \A x \in 1..Len(seqs) : \A y \in 1..Len(seqs[x]) : seqs[x][y] \in S <=> x = n
  PROVE  Selected(FlattenSeq(seqs), S) = seqs[n]
<1> DEFINE flat == FlattenSeq(seqs)
           sel == Selected(flat, S)
           block == seqs[n]
<1>1. flat \in Seq(V)
  BY FlattenPlaces
<1>2. PICK b, p : Walks(b, p, seqs, Len(seqs), flat)
  BY FlattenPlaces
<1> HIDE DEF flat
<1>3. sel \in Seq(V)
  BY <1>1, SelectedPlaces
<1>4. PICK e : Picks(e, flat, Len(flat), S, sel)
  BY <1>1, SelectedPlaces
<1> HIDE DEF sel
<1>5. block \in Seq(V) /\ Len(block) \in Nat /\ Len(sel) \in Nat /\ Len(flat) \in Nat
  BY <1>1, <1>3
<1> DEFINE g == [k \in 1..Len(sel) |-> p[e[k]]]
<1>6. ASSUME NEW k \in 1..Len(sel)
      PROVE  e[k] \in 1..Len(flat) /\ b[e[k]] = n /\ p[e[k]] \in 1..Len(block)
             /\ sel[k] = block[p[e[k]]]
  <2>1. e[k] \in 1..Len(flat) /\ sel[k] = flat[e[k]] /\ sel[k] \in S
    BY <1>4 DEF Picks
  <2>2. /\ b[e[k]] \in 1..Len(seqs) /\ p[e[k]] \in 1..Len(seqs[b[e[k]]])
        /\ flat[e[k]] = seqs[b[e[k]]][p[e[k]]]
    BY <1>2, <2>1 DEF Walks
  <2>3. b[e[k]] = n
    BY <2>1, <2>2
  <2> QED BY <2>1, <2>2, <2>3
<1>7. g \in [1..Len(sel) -> 1..Len(block)]
  BY <1>6
<1>8. ASSUME NEW k \in 1..Len(sel), NEW l \in 1..Len(sel), k < l
      PROVE  g[k] < g[l]
  <2>1. e[k] < e[l]
    BY <1>4, <1>8 DEF Picks
  <2>2. e[k] \in 1..Len(flat) /\ e[l] \in 1..Len(flat) /\ b[e[k]] = n /\ b[e[l]] = n
    BY <1>6
  <2>3. p[e[k]] < p[e[l]]
    BY <1>2, <2>1, <2>2 DEF Walks
  <2> QED BY <2>3
<1>9. ASSUME NEW y \in 1..Len(block)
      PROVE  \E k \in 1..Len(sel) : g[k] = y
  <2>1. PICK i \in 1..Len(flat) : b[i] = n /\ p[i] = y
    BY <1>2 DEF Walks
  <2>2. flat[i] = block[y] /\ flat[i] \in S
    BY <1>2, <2>1 DEF Walks
  <2>3. PICK k \in 1..Len(sel) : e[k] = i
    BY <1>4, <2>2 DEF Picks
  <2> QED BY <2>1, <2>3
<1> HIDE DEF g
<1>10. Len(sel) = Len(block) /\ \A k \in 1..Len(sel) : g[k] = k
  BY <1>5, <1>7, <1>8, <1>9, IncreasingOnto, ZenonT(60)
<1>11. ASSUME NEW k \in 1..Len(sel)
       PROVE  sel[k] = block[k]
  <2>1. p[e[k]] = k
    BY <1>10 DEF g
  <2> QED BY <1>6, <2>1
<1> QED BY <1>3, <1>5, <1>10, <1>11, SeqEqual DEF sel, flat

-----------------------------------------------------------------------------
(* The shape of the state.                                                 *)

IsSeq(s) == s \in Seq(Range(s))

TablesFns == {"projects", "schemas", "tables"}

\* The functions that pass through a stage of rounds.
StageFns ==
  [projects |-> TablesFns, validate |-> TablesFns,
   datasets |-> {"schemas", "tables", "columns", "procedures", "procedureColumns"},
   tables |-> {"tables", "columns"},
   table |-> {"columns", "primaryKeys", "foreignKeys", "statistics"},
   routines |-> {"procedures", "procedureColumns"}, keys |-> {"foreignKeys"}]

Kinds(stage) == IF stage = "routines" THEN {"routines", "routine"} ELSE {stage}

Codes == {"403", "404", "other"}

StoreShape ==
  /\ store = [open |-> store.open, datasets |-> store.datasets, tables |-> store.tables,
              routines |-> store.routines]
  /\ store.open \subseteq Range(ProjectSeq)
  /\ store.tables \subseteq DOMAIN TableInfo /\ store.routines \subseteq DOMAIN RoutineInfo

StmtShape ==
  /\ stmt = [state |-> stmt.state, result |-> stmt.result, ird |-> stmt.ird, job |-> stmt.job]
  /\ stmt.state \in {"notPrepared", "prepared", "executedWithRs"}
  /\ stmt.state # "executedWithRs" => stmt.result = <<>>

\* A round, and the place it has reached among its inputs.
RoundShape(p) ==
  /\ p = [threads |-> p.threads, inputs |-> p.inputs, next |-> p.next,
          running |-> p.running, done |-> p.done, error |-> p.error]
  /\ p.threads \in Nat \ {0} /\ p.error \in Codes \cup {"none"}
  /\ IsSeq(p.inputs) /\ p.next \in 1..(Len(p.inputs) + 1)
  /\ IsSeq(p.running) /\ Len(p.running) <= p.threads

\* A request under way: what it was given is well or an error, and none yet.
Underway(p, r) ==
  /\ r = [at |-> r.at, ready |-> r.ready, result |-> r.result]
  /\ r.at \in 1..(p.next - 1) /\ r.ready \in BOOLEAN
  /\ r.result = [ok |-> r.result.ok, code |-> r.result.code, value |-> r.result.value]
  /\ r.result.ok \in BOOLEAN
  /\ r.result.code \in IF r.result.ok THEN {"none"} ELSE Codes
  /\ ~r.ready => r.result = Ok(<<>>)
  /\ p.inputs[r.at].kind # "keys" => IsSeq(r.result.value)

\* The rows of foreign keys are sorted, which no list of objects is.
RunningShape(p) ==
  /\ (\A k \in 1..Len(p.inputs) : p.inputs[k].kind # "keys") => IsSeq(p.done)
  /\ \A i \in 1..Len(p.running) : Underway(p, p.running[i])
  /\ \A i, j \in 1..Len(p.running) : p.running[i].at = p.running[j].at => i = j

KindsOf(p, stage) == \A k \in 1..Len(p.inputs) : p.inputs[k].kind \in Kinds(stage)

CallShape ==
  /\ config \in [dsn : Dsns, max_threads : ThreadLimits]
  /\ call = [args |-> call.args, stage |-> call.stage, projects |-> call.projects]
  /\ call.stage \in Stages /\ answer.code \in {"none", SUCCESS, ERROR}
  /\ answer.refused \in BOOLEAN
  /\ Idle => pool = NoRequests
  /\ ~Idle => /\ stmt.state # "executedWithRs" /\ call.args.fn \in StageFns[call.stage]
              /\ KindsOf(pool, call.stage)
              /\ call.stage = "validate" => IsSeq(call.projects)

\* SQLColumns lists the tables of a dataset as one element, a sequence.
ListsBatches == call.stage = "tables" /\ call.args.fn = "columns"

BatchShape ==
  ListsBatches =>
    /\ \A i \in 1..Len(pool.running) : \A k \in 1..Len(pool.running[i].result.value) :
         IsSeq(pool.running[i].result.value[k])
    /\ \A j \in 1..Len(pool.done) : IsSeq(pool.done[j].what)

Shape ==
  /\ StoreShape /\ StmtShape /\ RoundShape(pool) /\ RunningShape(pool) /\ CallShape
  /\ BatchShape

LEMMA SeqOfAny ==
  ASSUME NEW V, NEW s \in Seq(V)
  PROVE  IsSeq(s)
<1>1. s \in [1..Len(s) -> V] /\ Len(s) \in Nat
  OBVIOUS
<1>2. s \in [1..Len(s) -> Range(s)]
  BY <1>1 DEF Range
<1>3. s \in Seq(Range(s))
  BY <1>1, <1>2, SeqDef
<1> QED BY <1>3 DEF IsSeq

LEMMA SeqShape ==
  ASSUME NEW s, IsSeq(s)
  PROVE  /\ Len(s) \in Nat /\ DOMAIN s = 1..Len(s)
         /\ s = [i \in 1..Len(s) |-> s[i]] /\ Range(s) = {s[i] : i \in 1..Len(s)}
<1>1. s \in Seq(Range(s))
  BY DEF IsSeq
<1>2. Len(s) \in Nat /\ DOMAIN s = 1..Len(s) /\ s \in [1..Len(s) -> Range(s)]
  BY <1>1
<1> QED BY <1>2 DEF Range

LEMMA FunctionSeq ==
  ASSUME NEW n \in Nat, NEW f, f = [i \in 1..n |-> f[i]]
  PROVE  IsSeq(f) /\ Len(f) = n /\ DOMAIN f = 1..n
<1>1. f \in [1..n -> Range(f)]
  BY DEF Range
<1>2. f \in Seq(Range(f))
  BY <1>1, SeqDef
<1> QED BY <1>1, <1>2 DEF IsSeq

LEMMA Joined ==
  ASSUME NEW s, NEW t, IsSeq(s), IsSeq(t)
  PROVE  /\ IsSeq(s \o t) /\ Len(s \o t) = Len(s) + Len(t)
         /\ \A i \in 1..Len(s) : (s \o t)[i] = s[i]
         /\ \A i \in 1..Len(t) : (s \o t)[Len(s) + i] = t[i]
         /\ \A i \in 1..(Len(s) + Len(t)) : i > Len(s) => (s \o t)[i] = t[i - Len(s)]
<1> DEFINE V == Range(s) \cup Range(t)
<1>1. Range(s) \subseteq V /\ Range(t) \subseteq V
  OBVIOUS
<1>2. s \in Seq(V) /\ t \in Seq(V)
  BY <1>1 DEF IsSeq
<1>3. s \o t \in Seq(V)
  BY <1>2
<1>4. IsSeq(s \o t)
  BY <1>3, SeqOfAny
<1> HIDE DEF V
<1>5. Len(s) \in Nat /\ Len(t) \in Nat /\ Len(s \o t) = Len(s) + Len(t)
  BY <1>2
<1>6. \A i \in 1..(Len(s) + Len(t)) : (s \o t)[i] = IF i <= Len(s) THEN s[i] ELSE t[i - Len(s)]
  BY <1>2, ConcatProperties
<1>7. \A i \in 1..Len(s) : (s \o t)[i] = s[i]
  BY <1>5, <1>6
<1>8. ASSUME NEW i \in 1..Len(t)
      PROVE  (s \o t)[Len(s) + i] = t[i]
  <2>1. Len(s) + i \in 1..(Len(s) + Len(t)) /\ ~(Len(s) + i <= Len(s)) /\ (Len(s) + i) - Len(s) = i
    BY <1>5
  <2> QED BY <1>6, <2>1
<1>9. \A i \in 1..(Len(s) + Len(t)) : i > Len(s) => (s \o t)[i] = t[i - Len(s)]
  BY <1>5, <1>6
<1> QED BY <1>4, <1>5, <1>7, <1>8, <1>9

LEMMA SelectedSeq ==
  ASSUME NEW s, IsSeq(s), NEW S
  PROVE  IsSeq(Selected(s, S)) /\ Range(Selected(s, S)) = Range(s) \cap S
<1>1. s \in Seq(Range(s))
  BY DEF IsSeq
<1>2. Selected(s, S) \in Seq(Range(s)) /\ Range(Selected(s, S)) = Range(s) \cap S
  BY <1>1, SelectedOrder, Zenon
<1> QED BY <1>2, SeqOfAny

\* A sequence without its i-th element.
LEMMA Removed ==
  ASSUME NEW s, IsSeq(s), NEW i \in 1..Len(s)
  PROVE  /\ IsSeq(RemoveAt(s, i)) /\ Len(RemoveAt(s, i)) = Len(s) - 1
         /\ \A k \in 1..(Len(s) - 1) : RemoveAt(s, i)[k] = IF k < i THEN s[k] ELSE s[k + 1]
<1> DEFINE V == Range(s)
           a == SubSeq(s, 1, i - 1)
           b == SubSeq(s, i + 1, Len(s))
<1>1. s \in Seq(V) /\ Len(s) \in Nat /\ i \in Nat /\ 1 <= i /\ i <= Len(s)
  BY DEF IsSeq
<1> HIDE DEF V
<1>2. /\ a \in Seq(V) /\ Len(a) = i - 1 /\ \A k \in 1..(i - 1) : a[k] = s[k]
  <2>1. \A k \in 1..(i - 1) : s[k] \in V
    BY <1>1
  <2> QED BY <1>1, <2>1, SubSeqProperties
<1>3. /\ b \in Seq(V) /\ Len(b) = Len(s) - i /\ \A k \in 1..(Len(s) - i) : b[k] = s[i + k]
  <2>1. \A k \in (i + 1)..Len(s) : s[k] \in V
    BY <1>1
  <2>2. CASE i = Len(s)
    BY <1>1, <2>2, SubSeqProperties
  <2>3. CASE i < Len(s)
    BY <1>1, <2>1, <2>3, SubSeqProperties
  <2> QED BY <1>1, <2>2, <2>3
<1> HIDE DEF a, b
<1>4. IsSeq(a) /\ IsSeq(b)
  BY <1>2, <1>3, SeqOfAny
<1>5. RemoveAt(s, i) = a \o b
  BY DEF RemoveAt, a, b
<1>0. /\ IsSeq(a \o b) /\ Len(a \o b) = Len(a) + Len(b)
      /\ \A k \in 1..Len(a) : (a \o b)[k] = a[k]
      /\ \A k \in 1..(Len(a) + Len(b)) : k > Len(a) => (a \o b)[k] = b[k - Len(a)]
  BY <1>4, Joined
<1>6. IsSeq(a \o b) /\ Len(a \o b) = Len(s) - 1
  BY <1>0, <1>1, <1>2, <1>3
<1>7. ASSUME NEW k \in 1..(Len(s) - 1)
      PROVE  (a \o b)[k] = IF k < i THEN s[k] ELSE s[k + 1]
  <2>1. CASE k < i
    <3>1. k \in 1..Len(a) /\ k \in 1..(i - 1)
      BY <1>1, <1>2, <2>1
    <3> QED BY <1>0, <1>2, <2>1, <3>1
  <2>2. CASE ~(k < i)
    <3>1. k \in 1..(Len(a) + Len(b)) /\ k > Len(a) /\ k - Len(a) \in 1..(Len(s) - i)
          /\ i + (k - Len(a)) = k + 1
      BY <1>1, <1>2, <1>3, <2>2
    <3> QED BY <1>0, <1>3, <2>2, <3>1
  <2> QED BY <2>1, <2>2
<1> QED BY <1>5, <1>6, <1>7

\* The k-th of the rest is the Back(i, k)-th of the whole, and none is lost.
Back(i, k) == IF k < i THEN k ELSE k + 1

LEMMA RestOf ==
  ASSUME NEW s, IsSeq(s), NEW i \in 1..Len(s)
  PROVE  /\ \A k \in 1..Len(RemoveAt(s, i)) :
              /\ Back(i, k) \in 1..Len(s) /\ Back(i, k) # i
              /\ RemoveAt(s, i)[k] = s[Back(i, k)]
         /\ \A k, l \in 1..Len(RemoveAt(s, i)) : Back(i, k) = Back(i, l) => k = l
         /\ \A j \in 1..Len(s) : j # i => \E k \in 1..Len(RemoveAt(s, i)) : Back(i, k) = j
<1>1. Len(s) \in Nat
  BY SeqShape
<1>2. Len(RemoveAt(s, i)) = Len(s) - 1
      /\ \A k \in 1..(Len(s) - 1) : RemoveAt(s, i)[k] = IF k < i THEN s[k] ELSE s[k + 1]
  BY Removed
<1>3. \A k \in 1..(Len(s) - 1) :
              /\ Back(i, k) \in 1..Len(s) /\ Back(i, k) # i
              /\ RemoveAt(s, i)[k] = s[Back(i, k)]
  BY <1>1, <1>2 DEF Back
<1>4. \A k, l \in 1..(Len(s) - 1) : Back(i, k) = Back(i, l) => k = l
  BY <1>1 DEF Back
<1>5. ASSUME NEW j \in 1..Len(s), j # i
      PROVE  \E k \in 1..(Len(s) - 1) : Back(i, k) = j
  <2>1. CASE j < i
    <3>1. j \in 1..(Len(s) - 1)
      BY <1>1, <2>1
    <3> QED BY <2>1, <3>1 DEF Back
  <2>2. CASE ~(j < i)
    <3>1. j - 1 \in 1..(Len(s) - 1) /\ ~(j - 1 < i) /\ (j - 1) + 1 = j
      BY <1>1, <1>5, <2>2
    <3> QED BY <3>1 DEF Back
  <2> QED BY <2>1, <2>2
<1> QED BY <1>2, <1>3, <1>4, <1>5

-----------------------------------------------------------------------------
(* The requests of a round.                                                *)

\* q has started requests that p has not, those that follow, and is p else.
Starts(p, q) ==
  /\ q.threads = p.threads /\ q.inputs = p.inputs /\ q.done = p.done /\ q.error = p.error
  /\ p.next <= q.next /\ Len(p.running) <= Len(q.running)
  /\ \A i \in 1..Len(p.running) : q.running[i] = p.running[i]
  /\ \A i \in 1..Len(q.running) : i > Len(p.running) =>
       q.running[i] = Start(q.running[i].at) /\ q.running[i].at \in p.next..(q.next - 1)
  /\ \A k \in p.next..(q.next - 1) :
       \E i \in 1..Len(q.running) : i > Len(p.running) /\ q.running[i].at = k

LEMMA StartFields ==
  /\ \A a : Start(a).at = a /\ Start(a).ready = FALSE /\ Start(a).result = Ok(<<>>)
  /\ Ok(<<>>).ok = TRUE /\ Ok(<<>>).code = "none" /\ Ok(<<>>).value = <<>>
  BY DEF Start, Ok

LEMMA LaunchedShape ==
  ASSUME NEW p, RoundShape(p), RunningShape(p), NEW n \in Nat,
         n <= Len(p.inputs) - p.next + 1, Len(p.running) + n <= p.threads
  PROVE  LET q == Launched(p, n) IN RoundShape(q) /\ RunningShape(q) /\ Starts(p, q)
<1> DEFINE q == Launched(p, n)
           new == [i \in 1..n |-> Start(p.next + i - 1)]
           L == Len(p.running)
           N == Len(p.inputs)
           X == p.next
<1>1. /\ IsSeq(p.running) /\ IsSeq(p.inputs) /\ L \in Nat /\ N \in Nat
      /\ X \in 1..(N + 1) /\ X \in Nat /\ n <= N - X + 1
  BY SeqShape DEF RoundShape
<1>0. p = [threads |-> p.threads, inputs |-> p.inputs, next |-> p.next,
           running |-> p.running, done |-> p.done, error |-> p.error]
  BY DEF RoundShape
<1>2. /\ q = [threads |-> p.threads, inputs |-> p.inputs, next |-> p.next + n,
              running |-> p.running \o new, done |-> p.done, error |-> p.error]
  <2>1. q = [p EXCEPT !.running = p.running \o new, !.next = p.next + n]
    BY DEF Launched
  <2> HIDE DEF new, q
  <2> QED BY <1>0, <2>1
<1>3. IsSeq(new) /\ Len(new) = n /\ \A i \in 1..n : new[i] = Start(X + i - 1)
  BY FunctionSeq
<1> HIDE DEF new, q, L, N, X
<1>4. /\ q.threads = p.threads /\ q.inputs = p.inputs /\ q.next = X + n
      /\ q.running = p.running \o new /\ q.done = p.done /\ q.error = p.error
  BY <1>2 DEF X
<1>5. /\ IsSeq(q.running) /\ Len(q.running) = L + n
      /\ \A i \in 1..L : q.running[i] = p.running[i]
      /\ \A i \in 1..(L + n) : i > L => q.running[i] = new[i - L]
  <2>1. LET s == p.running
        IN  /\ IsSeq(s \o new) /\ Len(s \o new) = Len(s) + Len(new)
            /\ \A i \in 1..Len(s) : (s \o new)[i] = s[i]
            /\ \A i \in 1..(Len(s) + Len(new)) : i > Len(s) => (s \o new)[i] = new[i - Len(s)]
    BY <1>1, <1>3, Joined
  <2> HIDE DEF new
  <2> QED BY <1>3, <1>4, <2>1 DEF L
<1>6. \A i \in 1..(L + n) : i > L => q.running[i] = Start(X + (i - L) - 1)
  <2> SUFFICES ASSUME NEW i \in 1..(L + n), i > L
               PROVE  q.running[i] = Start(X + (i - L) - 1)
    OBVIOUS
  <2>1. i - L \in 1..n
    BY <1>1
  <2> QED BY <1>3, <1>5, <2>1
<1>7. RoundShape(q)
  BY <1>1, <1>2, <1>4, <1>5 DEF RoundShape, L, N, X
<1>8. \A a : Start(a) = [at |-> a, ready |-> FALSE, result |-> Ok(<<>>)] /\ Start(a).at = a
  BY DEF Start
<1>9. \A i \in 1..(L + n) : i > L => q.running[i].at = X + (i - L) - 1
  BY <1>6, <1>8
<1>10. \A i \in 1..L : Underway(p, p.running[i])
  BY DEF RunningShape, L
<1>17. \A i \in 1..L : q.running[i].at \in 1..(X - 1)
  BY <1>5, <1>10 DEF Underway, X
<1>11. ASSUME NEW i \in 1..(L + n)
       PROVE  Underway(q, q.running[i])
  <2>1. CASE i <= L
    <3>1. i \in 1..L
      BY <1>1, <2>1
    <3>2. q.running[i] = p.running[i] /\ Underway(p, p.running[i])
      BY <1>5, <1>10, <3>1
    <3>3. \A a \in 1..(X - 1) : a \in 1..((X + n) - 1)
      BY <1>1
    <3>4. p.running[i].at \in 1..(q.next - 1)
      BY <1>4, <1>5, <1>17, <3>1, <3>3
    <3> QED BY <1>4, <3>2, <3>4 DEF Underway
  <2>2. CASE ~(i <= L)
    <3> DEFINE a == X + (i - L) - 1
    <3>1. a \in 1..((X + n) - 1)
      BY <1>1, <2>2
    <3>4. q.running[i] = Start(a)
      BY <1>6, <2>2, <1>1
    <3> HIDE DEF a
    <3>2. IsSeq(<<>>)
      BY DEF IsSeq
    <3>3. a \in 1..(q.next - 1)
      BY <1>4, <3>1
    <3> DEFINE r == q.running[i]
    <3>5. r = [at |-> a, ready |-> FALSE, result |-> Ok(<<>>)]
      BY <1>8, <3>4
    <3> HIDE DEF r
    <3>6. /\ r.result = [ok |-> TRUE, code |-> "none", value |-> <<>>] /\ r.at = a
          /\ r.ready = FALSE /\ r.result = Ok(<<>>)
      BY <3>5 DEF Ok
    <3>8. r.result.ok = TRUE /\ r.result.code = "none" /\ r.result.value = <<>>
      BY <3>6
    <3>9. /\ r = [at |-> r.at, ready |-> r.ready, result |-> r.result]
          /\ r.result = [ok |-> r.result.ok, code |-> r.result.code, value |-> r.result.value]
      BY <3>5, <3>6, <3>8
    <3>7. Underway(q, r)
      BY <3>2, <3>3, <3>6, <3>8, <3>9 DEF Underway
    <3> QED BY <3>7 DEF r
  <2> QED BY <2>1, <2>2
<1>12. ASSUME NEW i \in 1..(L + n), NEW j \in 1..(L + n), q.running[i].at = q.running[j].at
       PROVE  i = j
  <2>1. CASE i <= L /\ j <= L
    <3>1. i \in 1..L /\ j \in 1..L
      BY <1>1, <2>1
    <3> QED BY <1>5, <1>12, <3>1 DEF RunningShape, L
  <2>2. CASE i <= L /\ ~(j <= L)
    <3>1. i \in 1..L /\ q.running[j].at = X + (j - L) - 1
      BY <1>1, <1>9, <2>2
    <3>2. X + (j - L) - 1 \in 1..(X - 1)
      BY <1>12, <1>17, <3>1
    <3> QED BY <1>1, <2>2, <3>2
  <2>3. CASE ~(i <= L) /\ j <= L
    <3>1. j \in 1..L /\ q.running[i].at = X + (i - L) - 1
      BY <1>1, <1>9, <2>3
    <3>2. X + (i - L) - 1 \in 1..(X - 1)
      BY <1>12, <1>17, <3>1
    <3> QED BY <1>1, <2>3, <3>2
  <2>4. CASE ~(i <= L) /\ ~(j <= L)
    <3>1. X + (i - L) - 1 = X + (j - L) - 1
      BY <1>1, <1>9, <1>12, <2>4
    <3> QED BY <1>1, <3>1
  <2> QED BY <2>1, <2>2, <2>3, <2>4
<1>13. RunningShape(q)
  <2>1. (\A k \in 1..Len(q.inputs) : q.inputs[k].kind # "keys") => IsSeq(q.done)
    BY <1>4 DEF RunningShape
  <2> QED BY <1>5, <1>11, <1>12, <2>1 DEF RunningShape
<1>14. ASSUME NEW i \in 1..(L + n), i > L
       PROVE  q.running[i] = Start(q.running[i].at) /\ q.running[i].at \in X..((X + n) - 1)
  <2>1. q.running[i] = Start(X + (i - L) - 1) /\ q.running[i].at = X + (i - L) - 1
    BY <1>6, <1>9, <1>14
  <2>2. X + (i - L) - 1 \in X..((X + n) - 1)
    BY <1>1, <1>14
  <2> QED BY <2>1, <2>2
<1>15. ASSUME NEW k \in X..((X + n) - 1)
       PROVE  \E i \in 1..(L + n) : i > L /\ q.running[i].at = k
  <2> DEFINE i == L + (k - X) + 1
  <2>1. i \in 1..(L + n) /\ i > L /\ X + (i - L) - 1 = k
    BY <1>1
  <2> HIDE DEF i
  <2> QED BY <1>9, <2>1
<1>18. X <= X + n /\ L <= L + n
  BY <1>1
<1>16. Starts(p, q)
  BY <1>4, <1>5, <1>14, <1>15, <1>18, Zenon DEF Starts, L, X
<1> QED BY <1>7, <1>13, <1>16 DEF q

LEMMA FilledShape ==
  ASSUME NEW p, RoundShape(p), RunningShape(p)
  PROVE  RoundShape(Filled(p)) /\ RunningShape(Filled(p)) /\ Starts(p, Filled(p))
<1> DEFINE free == p.threads - Len(p.running)
           left == Len(p.inputs) - p.next + 1
           n == IF left < free THEN left ELSE free
<1>1. Len(p.running) \in Nat /\ Len(p.inputs) \in Nat /\ p.next \in 1..(Len(p.inputs) + 1)
      /\ p.threads \in Nat
  BY SeqShape DEF RoundShape
<1>2. CASE p.error # "none" \/ free <= 0
  <2>1. Filled(p) = p
    BY <1>2 DEF Filled
  <2>2. Starts(p, p)
    BY <1>1 DEF Starts
  <2> QED BY <2>1, <2>2
<1>3. CASE ~(p.error # "none" \/ free <= 0)
  <2>1. Filled(p) = Launched(p, n)
    BY <1>3 DEF Filled
  <2>2. n \in Nat /\ n <= left /\ Len(p.running) + n <= p.threads
    <3> DEFINE N == Len(p.inputs)
               L == Len(p.running)
               T == p.threads
               X == p.next
    <3>1. N \in Nat /\ L \in Nat /\ T \in Nat /\ X \in Nat /\ X <= N + 1 /\ ~(T - L <= 0)
      BY <1>1, <1>3
    <3>2. n = IF N - X + 1 < T - L THEN N - X + 1 ELSE T - L
      OBVIOUS
    <3>3. left = N - X + 1
      OBVIOUS
    <3> HIDE DEF N, L, T, X, n, left
    <3>4. n \in Nat /\ n <= N - X + 1 /\ L + n <= T
      BY <3>1, <3>2
    <3> QED BY <3>3, <3>4 DEF L, T
  <2> HIDE DEF n
  <2> QED BY <2>1, <2>2, LaunchedShape
<1> QED BY <1>2, <1>3

\* A round begins.
LEMMA RoundBegins ==
  ASSUME NEW n \in Nat, NEW tasks, IsSeq(tasks)
  PROVE  LET q == ExecuteParallelTasks(n, tasks) IN
         /\ RoundShape(q) /\ RunningShape(q)
         /\ q.inputs = tasks /\ q.done = <<>> /\ q.error = "none"
         /\ \A i \in 1..Len(q.running) :
              q.running[i] = Start(q.running[i].at)
         /\ \A k \in 1..(q.next - 1) : \E i \in 1..Len(q.running) : q.running[i].at = k
<1> DEFINE p == [threads |-> IF n = 0 THEN 1 ELSE n, inputs |-> tasks, next |-> 1,
                 running |-> <<>>, done |-> <<>>, error |-> "none"]
<1>1. Len(tasks) \in Nat /\ IsSeq(<<>>) /\ Len(<<>>) = 0
  BY SeqShape DEF IsSeq
<1>2. RoundShape(p)
  BY <1>1 DEF RoundShape
<1>3. RunningShape(p)
  BY <1>1 DEF RunningShape
<1>4. ExecuteParallelTasks(n, tasks) = Filled(p)
  BY DEF ExecuteParallelTasks
<1>5. p.inputs = tasks /\ p.next = 1 /\ p.running = <<>> /\ p.done = <<>> /\ p.error = "none"
  OBVIOUS
<1> HIDE DEF p
<1> DEFINE q == Filled(p)
<1>6. RoundShape(q) /\ RunningShape(q) /\ Starts(p, q)
  BY <1>2, <1>3, FilledShape
<1> HIDE DEF q
<1>7. Len(q.running) \in Nat
  BY <1>6, SeqShape DEF RoundShape
<1>8. \A i \in 1..Len(q.running) : q.running[i] = Start(q.running[i].at)
  BY <1>1, <1>5, <1>6, <1>7 DEF Starts
<1>9. \A k \in 1..(q.next - 1) : \E i \in 1..Len(q.running) : q.running[i].at = k
  BY <1>1, <1>5, <1>6 DEF Starts
<1>10. q.inputs = tasks /\ q.done = <<>> /\ q.error = "none"
  BY <1>5, <1>6 DEF Starts
<1> QED BY <1>4, <1>6, <1>8, <1>9, <1>10 DEF q

LEMMA NoRequestsShape ==
  /\ RoundShape(NoRequests) /\ RunningShape(NoRequests)
  /\ NoRequests.running = <<>> /\ NoRequests.inputs = <<>> /\ NoRequests.next = 1
  /\ Len(NoRequests.running) = 0 /\ Len(NoRequests.inputs) = 0
<1>1. IsSeq(<<>>) /\ Len(<<>>) = 0
  BY DEF IsSeq
<1>2. /\ NoRequests.running = <<>> /\ NoRequests.inputs = <<>> /\ NoRequests.next = 1
      /\ NoRequests.threads = 1 /\ NoRequests.error = "none" /\ NoRequests.done = <<>>
  BY DEF NoRequests
<1>3. RoundShape(NoRequests)
  BY <1>1 DEF RoundShape, NoRequests
<1>4. RunningShape(NoRequests)
  BY <1>1, <1>2 DEF RunningShape
<1> QED BY <1>1, <1>2, <1>3, <1>4

-----------------------------------------------------------------------------
(* The calls of a statement end or go on with a round.                     *)

\* The call goes on with a round of the function c.
Goes(c, stage, projects, n, tasks) ==
  /\ Round(c, stage, projects, n, tasks)
  /\ stage \in Stages \ {"idle"} /\ n \in Nat /\ IsSeq(tasks) /\ c.fn \in StageFns[stage]
  /\ \A k \in 1..Len(tasks) : tasks[k].kind \in Kinds(stage)
  /\ stage = "validate" => IsSeq(projects)

Ends(c) ==
  \/ \E rows : ReturnRows(c, rows)
  \/ \E refused \in BOOLEAN : ReturnError(c, refused)

GoesOn(c) == \E stage, projects, n, tasks : Goes(c, stage, projects, n, tasks)

LEMMA GoesShape ==
  ASSUME Shape, stmt.state # "executedWithRs", NEW c, GoesOn(c)
  PROVE  Shape' /\ ~Idle'
<1>1. PICK stage, projects, n, tasks : Goes(c, stage, projects, n, tasks)
  BY DEF GoesOn
<1>2. /\ stage \in Stages \ {"idle"} /\ n \in Nat /\ IsSeq(tasks) /\ c.fn \in StageFns[stage]
      /\ \A k \in 1..Len(tasks) : tasks[k].kind \in Kinds(stage)
      /\ stage = "validate" => IsSeq(projects)
  BY <1>1 DEF Goes
<1>3. /\ call' = [call EXCEPT !.args = c, !.stage = stage, !.projects = projects]
      /\ pool' = ExecuteParallelTasks(n, tasks)
      /\ UNCHANGED <<store, config, stmt, answer>>
  BY <1>1 DEF Goes, Round
<1>4. RoundShape(pool') /\ RunningShape(pool') /\ pool'.inputs = tasks
  BY <1>2, <1>3, RoundBegins
<1>5. call' = [args |-> c, stage |-> stage, projects |-> projects]
  <2>1. call = [args |-> call.args, stage |-> call.stage, projects |-> call.projects]
    BY DEF Shape, CallShape
  <2> QED BY <1>3, <2>1
<1>6. call'.args = c /\ call'.stage = stage /\ call'.projects = projects
  BY <1>5
<1>7. ~Idle'
  BY <1>2, <1>6 DEF Idle
<1>8. KindsOf(pool', stage)
  BY <1>2, <1>4 DEF KindsOf
<1>9. CallShape'
  BY <1>2, <1>3, <1>5, <1>6, <1>7, <1>8 DEF CallShape, Shape
<1>10. StoreShape' /\ StmtShape'
  BY <1>3 DEF StoreShape, StmtShape, Shape
<1>11. BatchShape'
  <2>1. /\ \A i \in 1..Len(pool'.running) : pool'.running[i] = Start(pool'.running[i].at)
        /\ pool'.done = <<>>
    BY <1>2, <1>3, RoundBegins
  <2>2. \A i \in 1..Len(pool'.running) : pool'.running[i].result = Ok(<<>>)
    BY <2>1, StartFields
  <2>3. Ok(<<>>).value = <<>> /\ Len(<<>>) = 0
    BY StartFields
  <2> QED BY <2>1, <2>2, <2>3 DEF BatchShape
<1> QED BY <1>4, <1>7, <1>9, <1>10, <1>11 DEF Shape

LEMMA EndsShape ==
  ASSUME Shape, NEW c, Ends(c)
  PROVE  Shape' /\ Idle'
<1>1. Ended(c, SUCCESS, FALSE) \/ \E refused \in BOOLEAN : Ended(c, ERROR, refused)
  BY DEF Ends, ReturnRows, ReturnError
<1>2. /\ call' = [call EXCEPT !.args = c, !.stage = "idle"] /\ pool' = NoRequests
      /\ answer'.code \in {SUCCESS, ERROR} /\ answer'.refused \in BOOLEAN
      /\ UNCHANGED <<store, config>>
  <2>1. PICK code \in {SUCCESS, ERROR}, refused \in BOOLEAN : Ended(c, code, refused)
    BY <1>1
  <2>2. answer' = [code |-> code, refused |-> refused]
    BY <2>1 DEF Ended
  <2>3. answer'.code = code /\ answer'.refused = refused
    BY <2>2
  <2> QED BY <2>1, <2>3 DEF Ended
<1>3. call' = [args |-> c, stage |-> "idle", projects |-> call.projects]
  <2>1. call = [args |-> call.args, stage |-> call.stage, projects |-> call.projects]
    BY DEF Shape, CallShape
  <2> QED BY <1>2, <2>1
<1>4. call'.stage = "idle" /\ Idle'
  BY <1>3 DEF Idle
<1>5. StmtShape'
  <2>1. CASE \E rows : ReturnRows(c, rows)
    <3>1. stmt = [state |-> stmt.state, result |-> stmt.result, ird |-> stmt.ird, job |-> stmt.job]
      BY DEF Shape, StmtShape
    <3>2. \E result, ird : stmt' = [stmt EXCEPT !.state = "executedWithRs", !.result = result, !.ird = ird]
      BY <2>1 DEF ReturnRows
    <3>3. \E result, ird :
            stmt' = [state |-> "executedWithRs", result |-> result, ird |-> ird, job |-> stmt.job]
      BY <3>1, <3>2
    <3> QED BY <3>3 DEF StmtShape
  <2>2. CASE UNCHANGED stmt
    BY <2>2 DEF Shape, StmtShape
  <2> QED BY <2>1, <2>2 DEF Ends, ReturnError
<1>6. CallShape'
  BY <1>2, <1>3, <1>4 DEF CallShape, Shape, Stages
<1>7. StoreShape'
  BY <1>2 DEF StoreShape, Shape
<1>8. BatchShape'
  BY <1>4 DEF BatchShape, ListsBatches
<1> QED BY <1>2, <1>4, <1>5, <1>6, <1>7, <1>8, NoRequestsShape DEF Shape

CallFields ==
  {"fn", "catalog", "schema", "table", "column", "types", "metadata_id", "max_rows",
   "fk_catalog", "fk_schema", "fk_table", "valid", "data_type"}

\* The schema that SQLTables and SQLColumns read: the default dataset for any.
SchemaRead(c, default) ==
  LET schema == ToCharStr(c.schema, "%")
  IN  IF ~c.metadata_id /\ schema = "%" /\ DefaultDataset # "" THEN default ELSE schema

\* The arguments that the functions read in place of those of the call.
LEMMA TablesArgsFields ==
  ASSUME NEW c \in Calls
  PROVE  LET a == TablesArgs(c)
         IN  /\ DOMAIN a = CallFields
             /\ a.catalog = ToCharStr(c.catalog, CurrentCatalog)
             /\ a.table = ToCharStr(c.table, "%")
             /\ a.schema = SchemaRead(c, EscapeOdbcPattern(DefaultDataset))
             /\ a.types = c.types /\ a.metadata_id = c.metadata_id /\ a.max_rows = c.max_rows
             /\ a.fn = Enumeration(a)
             /\ a.fn \in TablesFns \cup {"types"}
<1> DEFINE s == SchemaRead(c, EscapeOdbcPattern(DefaultDataset))
           b == [c EXCEPT !.catalog = ToCharStr(@, CurrentCatalog), !.table = ToCharStr(@, "%"),
                          !.schema = s]
           a == TablesArgs(c)
<1>1. DOMAIN c = CallFields
  BY CallsAssumption DEF CallFields
<1>2. a = [b EXCEPT !.fn = Enumeration(b)]
  BY DEF TablesArgs, SchemaRead
<1> HIDE DEF s, a
<1>3. /\ DOMAIN b = CallFields
      /\ b.catalog = ToCharStr(c.catalog, CurrentCatalog) /\ b.schema = s
      /\ b.table = ToCharStr(c.table, "%") /\ b.types = c.types
      /\ b.metadata_id = c.metadata_id /\ b.max_rows = c.max_rows
  BY <1>1 DEF CallFields
<1> HIDE DEF b
<1>4. /\ a.fn = Enumeration(b) /\ a.catalog = b.catalog /\ a.schema = b.schema
      /\ a.table = b.table /\ a.types = b.types /\ a.metadata_id = b.metadata_id
      /\ a.max_rows = b.max_rows /\ DOMAIN a = CallFields
  BY <1>2, <1>3 DEF CallFields
<1>5. Enumeration(a) = Enumeration(b)
  BY <1>4 DEF Enumeration
<1>6. Enumeration(a) \in TablesFns \cup {"types"}
  BY DEF Enumeration, TablesFns
<1> QED BY <1>3, <1>4, <1>5, <1>6 DEF a, s

LEMMA ColumnsArgsFields ==
  ASSUME NEW c \in Calls
  PROVE  LET a == ColumnsArgs(c)
             S(name) == SanitizeIdentifierArgument(name, c.metadata_id)
         IN  /\ DOMAIN a = CallFields
             /\ a.fn = c.fn /\ a.metadata_id = c.metadata_id /\ a.max_rows = c.max_rows
             /\ a.catalog = ToCharStr(c.catalog, CurrentCatalog)
             /\ a.schema = S(SchemaRead(c, DefaultDataset))
             /\ a.table = S(ToCharStr(c.table, "%"))
             /\ a.column = S(ToCharStr(c.column, "%"))
<1> DEFINE s == SchemaRead(c, DefaultDataset)
           a == [c EXCEPT !.catalog = ToCharStr(@, CurrentCatalog), !.schema = s,
                          !.table = ToCharStr(@, "%"), !.column = ToCharStr(@, "%")]
           S(name) == SanitizeIdentifierArgument(name, c.metadata_id)
           b == ColumnsArgs(c)
<1>0. DOMAIN c = CallFields
  BY CallsAssumption DEF CallFields
<1>1. b = [a EXCEPT !.schema = S(@), !.table = S(@), !.column = S(@)]
  BY DEF ColumnsArgs, SchemaRead
<1> HIDE DEF s, b, S
<1>2. /\ DOMAIN a = CallFields
      /\ a.fn = c.fn /\ a.metadata_id = c.metadata_id /\ a.max_rows = c.max_rows
      /\ a.catalog = ToCharStr(c.catalog, CurrentCatalog) /\ a.schema = s
      /\ a.table = ToCharStr(c.table, "%") /\ a.column = ToCharStr(c.column, "%")
  BY <1>0 DEF CallFields
<1> HIDE DEF a
<1>3. /\ DOMAIN b = CallFields
      /\ b.fn = a.fn /\ b.metadata_id = a.metadata_id /\ b.max_rows = a.max_rows
      /\ b.catalog = a.catalog /\ b.schema = S(a.schema) /\ b.table = S(a.table)
      /\ b.column = S(a.column)
  BY <1>1, <1>2 DEF CallFields
<1> QED BY <1>2, <1>3 DEF s, b, S

LEMMA OtherArgsFields ==
  ASSUME NEW c \in Calls
  PROVE  /\ ProceduresArgs(c).fn = c.fn
         /\ NamesArgs(c).fn = c.fn /\ DOMAIN NamesArgs(c) = CallFields
<1>1. DOMAIN c = CallFields
  BY CallsAssumption DEF CallFields
<1>2. NamesArgs(c).fn = c.fn /\ DOMAIN NamesArgs(c) = CallFields
  BY <1>1 DEF NamesArgs, CallFields
<1>3. ProceduresArgs(c).fn = c.fn
  <2> DEFINE a == [c EXCEPT !.catalog = ToCharStr(@, CurrentCatalog),
                     !.schema = ToCharStr(@, "%"), !.table = ToCharStr(@, "%"),
                     !.column = ToCharStr(@, "")]
  <2>1. DOMAIN a = CallFields /\ a.fn = c.fn
    BY <1>1 DEF CallFields
  <2>2. \/ ProceduresArgs(c) = a
        \/ \E s, t, n : ProceduresArgs(c) = [a EXCEPT !.schema = s, !.table = t, !.column = n]
    BY DEF ProceduresArgs
  <2> HIDE DEF a
  <2> QED BY <2>1, <2>2 DEF CallFields
<1> QED BY <1>2, <1>3

LEMMA ListSeqs ==
  /\ IsSeq(ProjectSeq) /\ IsSeq(DatasetSeq) /\ IsSeq(TableSeq) /\ IsSeq(RoutineSeq)
  /\ \A dsn \in Dsns : IsSeq(dsn.allowed) /\ IsSeq(dsn.additional)
<1>1. /\ ProjectSeq \in Seq(STRING) /\ DatasetSeq \in Seq(STRING) /\ TableSeq \in Seq(STRING)
      /\ RoutineSeq \in Seq(STRING)
  BY ListsAssumption
<1>2. \A dsn \in Dsns : dsn.allowed \in Seq(STRING) /\ dsn.additional \in Seq(STRING)
  BY CatalogAssumption
<1> QED BY <1>1, <1>2, SeqOfAny

LEMMA MatchingSeq ==
  ASSUME NEW names, IsSeq(names), NEW filter, NEW metadata_id
  PROVE  /\ IsSeq(Matching(names, filter, metadata_id))
         /\ Range(Matching(names, filter, metadata_id)) =
              {n \in Range(names) : FullMatch(n, filter, metadata_id)}
<1> DEFINE S == {n \in Range(names) : FullMatch(n, filter, metadata_id)}
<1>1. IsSeq(Selected(names, S)) /\ Range(Selected(names, S)) = Range(names) \cap S
  <2> HIDE DEF S
  <2> QED BY SelectedSeq
<1> QED BY <1>1 DEF Matching

\* The elements of a function over the places of a sequence.
LEMMA MapSeq ==
  ASSUME NEW s, IsSeq(s), NEW f, f = [i \in DOMAIN s |-> f[i]]
  PROVE  IsSeq(f) /\ Len(f) = Len(s) /\ DOMAIN f = 1..Len(s)
<1>1. Len(s) \in Nat /\ f = [i \in 1..Len(s) |-> f[i]]
  BY SeqShape
<1> QED BY <1>1, FunctionSeq

LEMMA Singleton ==
  ASSUME NEW x
  PROVE  IsSeq(<<x>>) /\ Len(<<x>>) = 1 /\ <<x>>[1] = x /\ \A i \in 1..1 : <<x>>[i] = x
<1>1. <<x>> \in Seq({x})
  OBVIOUS
<1>2. IsSeq(<<x>>)
  BY <1>1, SeqOfAny
<1> QED BY <1>2

-----------------------------------------------------------------------------
(* Each function begins with a round or ends at once.                      *)

LEMMA Threads ==
  ASSUME Shape
  PROVE  config.max_threads \in Nat /\ config.dsn \in Dsns
  BY CatalogAssumption DEF Shape, CallShape

LEMMA Validates ==
  ASSUME Shape, NEW c, NEW projects, IsSeq(projects), AppendAdditionalProjectsIfMissing(c, projects),
         c.fn \in TablesFns
  PROVE  GoesOn(c)
<1> DEFINE additional == config.dsn.additional
           new == Selected(additional, Range(additional) \ Range(projects))
           tasks == [i \in DOMAIN new |-> Task("validate", new[i], "", "")]
<1>1. Round(c, "validate", projects, 1, tasks)
  BY DEF AppendAdditionalProjectsIfMissing
<1>2. IsSeq(new)
  BY Threads, ListSeqs, SelectedSeq
<1> HIDE DEF new
<1>3. IsSeq(tasks) /\ Len(tasks) = Len(new) /\ DOMAIN new = 1..Len(new)
  BY <1>2, MapSeq, SeqShape
<1>4. \A k \in 1..Len(tasks) : tasks[k].kind = "validate"
  BY <1>3 DEF Task
<1> HIDE DEF tasks
<1>5. Goes(c, "validate", projects, 1, tasks)
  BY <1>1, <1>3, <1>4 DEF Goes, Stages, StageFns, Kinds
<1> QED BY <1>5 DEF GoesOn

LEMMA OneTask ==
  ASSUME NEW c, NEW stage \in Stages \ {"idle"}, NEW task, task.kind \in Kinds(stage),
         c.fn \in StageFns[stage], Round(c, stage, <<>>, 1, <<task>>)
  PROVE  GoesOn(c)
<1>1. IsSeq(<<>>)
  BY DEF IsSeq
<1>2. Goes(c, stage, <<>>, 1, <<task>>)
  BY <1>1, Singleton DEF Goes
<1> QED BY <1>2 DEF GoesOn

\* How the functions read the call.
ReadsAs(c, a) ==
  /\ c.fn = "tables" => a = TablesArgs(c)
  /\ c.fn = "columns" => a = ColumnsArgs(c)
  /\ c.fn # "tables" => a.fn = c.fn

LEMMA TablesOutcome ==
  ASSUME Shape, NEW c \in Calls, SQLTables(c)
  PROVE  LET a == TablesArgs(c) IN GoesOn(a) \/ Ends(a)
<1> DEFINE a == TablesArgs(c)
<1>1. a.fn \in TablesFns \cup {"types"}
  BY TablesArgsFields
<1> SUFFICES GoesOn(a) \/ Ends(a)
  OBVIOUS
<1> HIDE DEF a
<1>2. \/ ReturnError(a, TRUE)
      \/ \E rows : ReturnRows(a, rows)
      \/ a.fn # "types" /\ \E projects :
           IsSeq(projects) /\ AppendAdditionalProjectsIfMissing(a, projects)
      \/ a.fn # "types" /\ Round(a, "projects", <<>>, 1, <<Task("projects", "", "", "")>>)
  <2> DEFINE allowed == config.dsn.allowed
             filter == IF a.fn = "tables" THEN a.catalog ELSE "%"
             literal == LiteralFromOdbcPattern(filter, a.metadata_id)
  <2>1. IsSeq(allowed)
    BY Threads, ListSeqs
  <2>2. \A f, m : IsSeq(FilterAllowedProjects(allowed, f, m))
    BY <2>1, MatchingSeq DEF FilterAllowedProjects
  <2>3. IsSeq(<<literal>>)
    BY Singleton
  <2>4. \/ ReturnError(a, TRUE)
        \/ \E rows : ReturnRows(a, rows)
        \/ a.fn # "types" /\
             \/ AppendAdditionalProjectsIfMissing(a, <<literal>>)
             \/ AppendAdditionalProjectsIfMissing(a, FilterAllowedProjects(allowed, literal, TRUE))
             \/ AppendAdditionalProjectsIfMissing(a, FilterAllowedProjects(allowed, filter, FALSE))
             \/ Round(a, "projects", <<>>, 1, <<Task("projects", "", "", "")>>)
    BY DEF SQLTables, a
  <2> HIDE DEF literal, filter, allowed
  <2> QED BY <2>2, <2>3, <2>4
<1>3. CASE ReturnError(a, TRUE) \/ \E rows : ReturnRows(a, rows)
  BY <1>3 DEF Ends
<1>4. CASE a.fn # "types" /\ \E projects :
             IsSeq(projects) /\ AppendAdditionalProjectsIfMissing(a, projects)
  BY <1>1, <1>4, Validates
<1>5. CASE a.fn # "types" /\ Round(a, "projects", <<>>, 1, <<Task("projects", "", "", "")>>)
  <2>1. Task("projects", "", "", "").kind \in Kinds("projects") /\ a.fn \in StageFns["projects"]
        /\ "projects" \in Stages \ {"idle"}
    BY <1>1, <1>5 DEF Task, Kinds, StageFns, Stages
  <2> QED BY <1>5, <2>1, OneTask
<1> QED BY <1>2, <1>3, <1>4, <1>5

LEMMA ListsTables ==
  ASSUME Shape, NEW c, c.fn = "columns", NEW datasets, IsSeq(datasets), ListTables(c, datasets)
  PROVE  GoesOn(c) \/ Ends(c)
<1> DEFINE tasks == [i \in DOMAIN datasets |->
                       Task("tables", datasets[i][1], datasets[i][2], "")]
<1>1. CASE ReturnError(c, TRUE)
  BY <1>1 DEF Ends
<1>2. CASE Round(c, "tables", <<>>, config.max_threads, tasks)
  <2>1. IsSeq(tasks) /\ Len(tasks) = Len(datasets) /\ DOMAIN datasets = 1..Len(datasets)
    BY MapSeq, SeqShape
  <2>2. \A k \in 1..Len(tasks) : tasks[k].kind = "tables"
    BY <2>1 DEF Task
  <2> HIDE DEF tasks
  <2>3. Goes(c, "tables", <<>>, config.max_threads, tasks)
    BY <1>2, <2>1, <2>2, Threads DEF Goes, Stages, StageFns, Kinds
  <2> QED BY <2>3 DEF GoesOn
<1> QED BY <1>1, <1>2 DEF ListTables

LEMMA ColumnsOutcome ==
  ASSUME Shape, NEW c \in Calls, SQLColumns(c)
  PROVE  LET a == ColumnsArgs(c) IN GoesOn(a) \/ Ends(a)
<1> DEFINE a == ColumnsArgs(c)
<1>1. a.fn = "columns"
  BY ColumnsArgsFields DEF SQLColumns
<1> SUFFICES GoesOn(a) \/ Ends(a)
  OBVIOUS
<1> HIDE DEF a
<1>2. \/ ReturnError(a, TRUE)
      \/ \E d : ListTables(a, <<d>>)
      \/ Round(a, "table", <<>>, 1, <<Task("table", a.catalog, a.schema, a.table)>>)
      \/ Round(a, "datasets", <<>>, 1, <<Task("datasets", a.catalog, "", "")>>)
  BY DEF SQLColumns, a
<1>3. CASE ReturnError(a, TRUE)
  BY <1>3 DEF Ends
<1>4. CASE \E d : ListTables(a, <<d>>)
  BY <1>1, <1>4, ListsTables, Singleton
<1>5. CASE Round(a, "table", <<>>, 1, <<Task("table", a.catalog, a.schema, a.table)>>)
  <2> DEFINE t == Task("table", a.catalog, a.schema, a.table)
  <2>1. t.kind \in Kinds("table") /\ a.fn \in StageFns["table"] /\ "table" \in Stages \ {"idle"}
    BY <1>1 DEF Task, Kinds, StageFns, Stages
  <2> HIDE DEF t
  <2> QED BY <1>5, <2>1, OneTask DEF t
<1>6. CASE Round(a, "datasets", <<>>, 1, <<Task("datasets", a.catalog, "", "")>>)
  <2> DEFINE t == Task("datasets", a.catalog, "", "")
  <2>1. t.kind \in Kinds("datasets") /\ a.fn \in StageFns["datasets"]
        /\ "datasets" \in Stages \ {"idle"}
    BY <1>1 DEF Task, Kinds, StageFns, Stages
  <2> HIDE DEF t
  <2> QED BY <1>6, <2>1, OneTask DEF t
<1> QED BY <1>2, <1>3, <1>4, <1>5, <1>6

LEMMA OthersOutcome ==
  ASSUME Shape, NEW c \in Calls,
         \/ SQLProcedures(c) \/ SQLPrimaryKeys(c) \/ SQLForeignKeys(c) \/ SQLStatistics(c)
         \/ SQLSpecialColumns(c) \/ SQLGetTypeInfo(c)
  PROVE  c.fn \notin {"tables", "columns"} /\ \E a : a.fn = c.fn /\ (GoesOn(a) \/ Ends(a))
<1> DEFINE Done == \E a : a.fn = c.fn /\ (GoesOn(a) \/ Ends(a))
<1>1. CASE SQLProcedures(c)
  <2> DEFINE a == ProceduresArgs(c)
             t == Task("datasets", a.catalog, "", "")
  <2>1. a.fn = c.fn /\ c.fn \in {"procedures", "procedureColumns"}
    BY <1>1, OtherArgsFields DEF SQLProcedures
  <2>2. ReturnError(a, TRUE) \/ Round(a, "datasets", <<>>, 1, <<t>>)
    BY <1>1 DEF SQLProcedures
  <2>3. t.kind \in Kinds("datasets") /\ a.fn \in StageFns["datasets"]
        /\ "datasets" \in Stages \ {"idle"}
    BY <2>1 DEF Task, Kinds, StageFns, Stages
  <2> HIDE DEF a, t
  <2>4. GoesOn(a) \/ Ends(a)
    BY <2>2, <2>3, OneTask DEF Ends
  <2> QED BY <2>1, <2>4
<1>2. ASSUME NEW a, a.fn = c.fn, c.fn \in {"primaryKeys", "foreignKeys", "statistics"},
             NEW table, ReadTable(a, table)
      PROVE  Done
  <2> DEFINE t == Task("table", a.catalog, a.schema, table)
  <2>1. t.kind \in Kinds("table") /\ a.fn \in StageFns["table"] /\ "table" \in Stages \ {"idle"}
    BY <1>2 DEF Task, Kinds, StageFns, Stages
  <2>2. Round(a, "table", <<>>, 1, <<t>>)
    BY <1>2 DEF ReadTable
  <2> HIDE DEF t
  <2> QED BY <1>2, <2>1, <2>2, OneTask
<1>3. CASE SQLPrimaryKeys(c)
  <2> DEFINE a == NamesArgs(c)
  <2>1. a.fn = c.fn /\ c.fn = "primaryKeys"
    BY <1>3, OtherArgsFields DEF SQLPrimaryKeys
  <2>2. ReturnError(a, TRUE) \/ ReadTable(a, a.table)
    BY <1>3 DEF SQLPrimaryKeys
  <2> HIDE DEF a
  <2>3. ReturnError(a, TRUE) => Done
    BY <2>1 DEF Ends
  <2> QED BY <1>2, <2>1, <2>2, <2>3
<1>4. CASE SQLForeignKeys(c)
  <2> DEFINE a == NamesArgs(c)
             b == [a EXCEPT !.catalog = IF @ # "" THEN @ ELSE a.fk_catalog,
                            !.schema = IF @ # "" THEN @ ELSE a.fk_schema]
             t == Task("keys", b.catalog, b.schema, "")
  <2>1. a.fn = c.fn /\ c.fn = "foreignKeys" /\ DOMAIN a = CallFields
    BY <1>4, OtherArgsFields DEF SQLForeignKeys
  <2>2. ReturnError(a, TRUE) \/ ReadTable(b, b.fk_table) \/ Round(b, "keys", <<>>, 1, <<t>>)
    BY <1>4 DEF SQLForeignKeys, FetchForeignKeysFromDataSource
  <2> HIDE DEF a
  <2>3. b.fn = c.fn
    BY <2>1 DEF CallFields
  <2> HIDE DEF b
  <2>4. t.kind \in Kinds("keys") /\ b.fn \in StageFns["keys"] /\ "keys" \in Stages \ {"idle"}
    BY <2>1, <2>3 DEF Task, Kinds, StageFns, Stages
  <2> HIDE DEF t
  <2>5. ReturnError(a, TRUE) => Done
    BY <2>1 DEF Ends
  <2>6. Round(b, "keys", <<>>, 1, <<t>>) => Done
    BY <2>3, <2>4, OneTask
  <2> QED BY <1>2, <2>1, <2>2, <2>3, <2>5, <2>6
<1>5. CASE SQLStatistics(c)
  <2> DEFINE a == NamesArgs(c)
             b == [a EXCEPT !.schema = IF @ = "" THEN DefaultDataset ELSE @]
  <2>1. a.fn = c.fn /\ c.fn = "statistics" /\ DOMAIN a = CallFields
    BY <1>5, OtherArgsFields DEF SQLStatistics
  <2>2. ReturnError(b, TRUE) \/ ReturnRows(b, <<>>) \/ ReadTable(b, b.table)
    BY <1>5 DEF SQLStatistics
  <2> HIDE DEF a
  <2>3. b.fn = c.fn
    BY <2>1 DEF CallFields
  <2> HIDE DEF b
  <2>4. ReturnError(b, TRUE) \/ ReturnRows(b, <<>>) => Done
    BY <2>3 DEF Ends
  <2> QED BY <1>2, <2>1, <2>2, <2>3, <2>4
<1>6. CASE SQLSpecialColumns(c)
  <2>1. ReturnRows(c, <<>>) \/ ReturnError(c, TRUE)
    BY <1>6 DEF SQLSpecialColumns
  <2> QED BY <1>6, <2>1 DEF Ends, SQLSpecialColumns
<1>7. CASE SQLGetTypeInfo(c)
  <2>1. \E rows : ReturnRows(c, rows)
    BY <1>7 DEF SQLGetTypeInfo
  <2> QED BY <1>7, <2>1 DEF Ends, SQLGetTypeInfo
<1>8. c.fn \notin {"tables", "columns"}
  BY DEF SQLProcedures, SQLPrimaryKeys, SQLForeignKeys, SQLStatistics, SQLSpecialColumns,
         SQLGetTypeInfo
<1> QED BY <1>1, <1>3, <1>4, <1>5, <1>6, <1>7, <1>8

LEMMA CallOutcome ==
  ASSUME Shape, NEW c \in Calls, Call(c)
  PROVE  \E a : ReadsAs(c, a) /\ (GoesOn(a) \/ Ends(a))
<1>1. CASE SQLTables(c)
  <2>1. ReadsAs(c, TablesArgs(c))
    BY <1>1 DEF ReadsAs, SQLTables
  <2> QED BY <1>1, <2>1, TablesOutcome
<1>2. CASE SQLColumns(c)
  <2>1. ReadsAs(c, ColumnsArgs(c))
    BY <1>2, ColumnsArgsFields DEF ReadsAs, SQLColumns
  <2> QED BY <1>2, <2>1, ColumnsOutcome
<1>3. CASE \/ SQLProcedures(c) \/ SQLPrimaryKeys(c) \/ SQLForeignKeys(c) \/ SQLStatistics(c)
           \/ SQLSpecialColumns(c) \/ SQLGetTypeInfo(c)
  BY <1>3, OthersOutcome DEF ReadsAs
<1> QED BY <1>1, <1>2, <1>3 DEF Call

-----------------------------------------------------------------------------
(* A round that is over is followed by another or by the end of the call.  *)

LEMMA ElementsSeq ==
  ASSUME Shape, call.stage \notin {"idle", "keys"}
  PROVE  /\ IsSeq(pool.done) /\ IsSeq(Elements) /\ Len(Elements) = Len(pool.done)
         /\ \A i \in 1..Len(pool.done) : Elements[i] = pool.done[i].what
<1>1. \A k \in 1..Len(pool.inputs) : pool.inputs[k].kind # "keys"
  BY DEF Shape, CallShape, Idle, KindsOf, Kinds
<1>2. IsSeq(pool.done)
  BY <1>1 DEF Shape, RunningShape
<1>3. IsSeq(Elements) /\ Len(Elements) = Len(pool.done)
  BY <1>2, MapSeq DEF Elements
<1>4. DOMAIN pool.done = 1..Len(pool.done)
  BY <1>2, SeqShape
<1> QED BY <1>2, <1>3, <1>4 DEF Elements

\* The places among the inputs of the requests that gave an element, in order,
\* and an element of each.
LEMMA InOrderPlaces ==
  ASSUME Shape, IsSeq(pool.done)
  PROVE  LET places == Selected([k \in DOMAIN pool.inputs |-> k],
                                {pool.done[i].at : i \in DOMAIN pool.done})
         IN  /\ IsSeq(places) /\ IsSeq(InOrder) /\ Len(InOrder) = Len(places)
             /\ Range(places) = 1..Len(pool.inputs) \cap
                                  {pool.done[i].at : i \in 1..Len(pool.done)}
             /\ \A i \in 1..Len(places) : \E j \in 1..Len(pool.done) :
                  pool.done[j].at = places[i] /\ InOrder[i] = pool.done[j].what
             /\ \A i, j \in 1..Len(places) : i < j => places[i] < places[j]
<1> DEFINE nums == [k \in DOMAIN pool.inputs |-> k]
           S == {pool.done[i].at : i \in DOMAIN pool.done}
           places == Selected(nums, S)
           Given(k) == CHOOSE e \in Range(pool.done) : e.at = k
<1>1. IsSeq(pool.inputs) /\ DOMAIN pool.inputs = 1..Len(pool.inputs) /\ Len(pool.inputs) \in Nat
  BY SeqShape DEF Shape, RoundShape
<1>2. IsSeq(nums) /\ Len(nums) = Len(pool.inputs) /\ \A k \in 1..Len(nums) : nums[k] = k
  BY <1>1, FunctionSeq
<1>3. Range(nums) = 1..Len(pool.inputs)
  BY <1>1 DEF Range
<1>4. DOMAIN pool.done = 1..Len(pool.done) /\ Range(pool.done) = {pool.done[i] : i \in 1..Len(pool.done)}
  BY SeqShape
<1>5. InOrder = [i \in DOMAIN places |-> Given(places[i]).what]
  BY DEF InOrder
<1>6. nums \in Seq(Range(nums))
  BY <1>2 DEF IsSeq
<1> SUFFICES /\ IsSeq(places) /\ IsSeq(InOrder) /\ Len(InOrder) = Len(places)
             /\ Range(places) = 1..Len(pool.inputs) \cap S
             /\ \A i \in 1..Len(places) : \E j \in 1..Len(pool.done) :
                  pool.done[j].at = places[i] /\ InOrder[i] = pool.done[j].what
             /\ \A i, j \in 1..Len(places) : i < j => places[i] < places[j]
  BY <1>4
<1>7. S = {pool.done[i].at : i \in 1..Len(pool.done)}
  BY <1>4
<1> HIDE DEF nums, S
<1>8. IsSeq(places) /\ Range(places) = Range(nums) \cap S
  BY <1>2, SelectedSeq
<1>9. \A k, l \in 1..Len(places) : k < l => Precedes(nums, places[k], places[l])
  BY <1>6, SelectedOrder
<1> HIDE DEF places
<1>10. IsSeq(InOrder) /\ Len(InOrder) = Len(places) /\ DOMAIN places = 1..Len(places)
  BY <1>5, <1>8, MapSeq, SeqShape
<1>11. ASSUME NEW i \in 1..Len(places)
       PROVE  \E j \in 1..Len(pool.done) :
                pool.done[j].at = places[i] /\ InOrder[i] = pool.done[j].what
  <2>1. places[i] \in S
    BY <1>8, <1>10 DEF Range
  <2>2. PICK l \in 1..Len(pool.done) : pool.done[l].at = places[i]
    BY <1>7, <2>1
  <2>3. \E e \in Range(pool.done) : e.at = places[i]
    BY <1>4, <2>2
  <2>4. Given(places[i]) \in Range(pool.done) /\ Given(places[i]).at = places[i]
    BY <2>3
  <2>5. InOrder[i] = Given(places[i]).what
    BY <1>5, <1>10
  <2> HIDE DEF Given
  <2> QED BY <1>4, <2>4, <2>5
<1>12. ASSUME NEW i \in 1..Len(places), NEW j \in 1..Len(places), i < j
       PROVE  places[i] < places[j]
  <2>1. Precedes(nums, places[i], places[j])
    BY <1>9, <1>12
  <2>2. PICK k \in 1..Len(nums), l \in 1..Len(nums) :
          k < l /\ nums[k] = places[i] /\ nums[l] = places[j]
    BY <2>1 DEF Precedes
  <2> QED BY <1>2, <2>2
<1> QED BY <1>3, <1>8, <1>10, <1>11, <1>12

\* A sequence of sequences.
LEMMA SeqOfSeqs ==
  ASSUME NEW s, IsSeq(s), \A i \in 1..Len(s) : IsSeq(s[i])
  PROVE  \E V : s \in Seq(Seq(V))
<1> DEFINE V == UNION {Range(s[i]) : i \in 1..Len(s)}
<1>1. \A i \in 1..Len(s) : s[i] \in Seq(V)
  <2> SUFFICES ASSUME NEW i \in 1..Len(s) PROVE s[i] \in Seq(V)
    OBVIOUS
  <2>1. s[i] \in Seq(Range(s[i])) /\ Range(s[i]) \subseteq V
    BY DEF IsSeq
  <2> QED BY <2>1, SeqMonotonic
<1>2. s = [i \in 1..Len(s) |-> s[i]] /\ Len(s) \in Nat
  BY SeqShape
<1> HIDE DEF V
<1>3. s \in [1..Len(s) -> Seq(V)]
  BY <1>1, <1>2
<1>4. s \in Seq(Seq(V))
  BY <1>2, <1>3, SeqDef
<1> QED BY <1>4

LEMMA BatchesInOrder ==
  ASSUME Shape, ListsBatches
  PROVE  \E V : InOrder \in Seq(Seq(V))
<1>1. IsSeq(pool.done)
  BY ElementsSeq DEF ListsBatches
<1>2. \A j \in 1..Len(pool.done) : IsSeq(pool.done[j].what)
  BY DEF Shape, BatchShape
<1>3. IsSeq(InOrder) /\ \A i \in 1..Len(InOrder) : \E j \in 1..Len(pool.done) :
                          InOrder[i] = pool.done[j].what
  BY <1>1, InOrderPlaces
<1> QED BY <1>2, <1>3, SeqOfSeqs

\* A round with a task for each element of a sequence.
LEMMA TaskForEach ==
  ASSUME Shape, NEW c, NEW stage \in Stages \ {"idle"}, c.fn \in StageFns[stage],
         NEW projects, NEW n \in Nat, NEW s, IsSeq(s), NEW tasks,
         tasks = [i \in DOMAIN s |-> tasks[i]],
         \A i \in 1..Len(s) : tasks[i].kind \in Kinds(stage),
         Round(c, stage, projects, n, tasks), stage # "validate"
  PROVE  GoesOn(c)
<1>1. IsSeq(tasks) /\ Len(tasks) = Len(s)
  BY MapSeq
<1>2. Goes(c, stage, projects, n, tasks)
  BY <1>1 DEF Goes
<1> QED BY <1>2 DEF GoesOn

LEMMA AdvanceOutcome ==
  ASSUME Shape, Advance
  PROVE  ~Idle /\ (GoesOn(call.args) \/ Ends(call.args))
<1> DEFINE c == call.args
<1> SUFFICES ~Idle /\ (GoesOn(c) \/ Ends(c))
  OBVIOUS
<1>0. \A k, p, d, n : Task(k, p, d, n).kind = k
  BY DEF Task
<1>1. ~Idle
  BY DEF Advance, ProjectsListed, ProjectsValidated, DatasetsListed, TablesListed,
         ColumnTablesListed, TablesRead, RoutinesRead, KeysRead, RequestsFailed, Idle
<1>2. c.fn \in StageFns[call.stage]
  BY <1>1 DEF Shape, CallShape
<1> HIDE DEF c
<1>3. CASE ProjectsListed
  <2>1. AppendAdditionalProjectsIfMissing(c, Elements) /\ call.stage = "projects"
    BY <1>3 DEF ProjectsListed, c
  <2>2. c.fn \in TablesFns
    BY <1>2, <2>1 DEF StageFns
  <2>3. IsSeq(Elements)
    BY <2>1, ElementsSeq
  <2> QED BY <1>1, <2>1, <2>2, <2>3, Validates
<1>4. CASE ProjectsValidated
  <2> DEFINE projects == call.projects \o Elements
             dataset == LiteralFromOdbcPattern(c.schema, c.metadata_id)
             ForEach(kind, d) == [i \in DOMAIN projects |-> Task(kind, projects[i], d, "")]
  <2>a. call.stage = "validate"
    BY <1>4 DEF ProjectsValidated
  <2>0. call.stage = "validate" /\ c.fn \in TablesFns
    BY <1>2, <2>a DEF StageFns
  <2>1. \/ \E rows : ReturnRows(c, rows)
        \/ c.fn = "tables" /\ Round(c, "tables", projects, config.max_threads, ForEach("tables", dataset))
        \/ c.fn # "projects" /\ Round(c, "datasets", projects, config.max_threads, ForEach("datasets", ""))
    BY <1>4 DEF ProjectsValidated, c
  <2>2. IsSeq(projects)
    <3>1. IsSeq(call.projects) /\ IsSeq(Elements)
      BY <1>1, <2>0, ElementsSeq DEF Shape, CallShape
    <3> QED BY <3>1, Joined
  <2> HIDE DEF projects, dataset
  <2>3. DOMAIN projects = 1..Len(projects)
    BY <2>2, SeqShape
  <2>4. \A kind, d : \A i \in 1..Len(projects) : ForEach(kind, d)[i].kind = kind
    BY <1>0, <2>3, ZenonT(60)
  <2>5. \A kind, d : ForEach(kind, d) = [i \in DOMAIN projects |-> ForEach(kind, d)[i]]
    OBVIOUS
  <2> HIDE DEF ForEach
  <2>6. /\ {"tables", "datasets"} \subseteq Stages \ {"idle", "validate"}
        /\ c.fn = "tables" => c.fn \in StageFns["tables"]
        /\ c.fn # "projects" => c.fn \in StageFns["datasets"]
    BY <2>0 DEF Stages, StageFns, TablesFns
  <2>7. ASSUME c.fn = "tables",
               Round(c, "tables", projects, config.max_threads, ForEach("tables", dataset))
        PROVE  GoesOn(c)
    <3> DEFINE t == ForEach("tables", dataset)
    <3>1. t = [i \in DOMAIN projects |-> t[i]] /\ \A i \in 1..Len(projects) : t[i].kind \in Kinds("tables")
      BY <2>4, <2>5 DEF Kinds
    <3> HIDE DEF t
    <3>2. Round(c, "tables", projects, config.max_threads, t)
      BY <2>7 DEF t
    <3>3. "tables" \in Stages \ {"idle"} /\ "tables" # "validate" /\ c.fn \in StageFns["tables"]
      BY <2>6, <2>7
    <3> QED BY <2>2, <3>1, <3>2, <3>3, TaskForEach, Threads
  <2>8. ASSUME c.fn # "projects",
               Round(c, "datasets", projects, config.max_threads, ForEach("datasets", ""))
        PROVE  GoesOn(c)
    <3> DEFINE t == ForEach("datasets", "")
    <3>1. t = [i \in DOMAIN projects |-> t[i]] /\ \A i \in 1..Len(projects) : t[i].kind \in Kinds("datasets")
      BY <2>4, <2>5 DEF Kinds
    <3> HIDE DEF t
    <3>2. Round(c, "datasets", projects, config.max_threads, t)
      BY <2>8 DEF t
    <3>3. "datasets" \in Stages \ {"idle"} /\ "datasets" # "validate" /\ c.fn \in StageFns["datasets"]
      BY <2>6, <2>8
    <3> QED BY <2>2, <3>1, <3>2, <3>3, TaskForEach, Threads
  <2> QED BY <1>1, <2>1, <2>7, <2>8 DEF Ends
<1>5. CASE DatasetsListed
  <2> DEFINE found == Elements
             ForEach(kind, name) ==
               [i \in DOMAIN found |-> Task(kind, found[i][1], found[i][2], name)]
  <2>0. call.stage = "datasets"
    BY <1>5 DEF DatasetsListed
  <2>2. IsSeq(found)
    BY <2>0, ElementsSeq
  <2>1. \/ \E rows : ReturnRows(c, rows)
        \/ c.fn = "tables" /\ Round(c, "tables", <<>>, config.max_threads, ForEach("tables", ""))
        \/ c.fn = "columns" /\ ListTables(c, found)
        \/ c.fn \in {"procedures", "procedureColumns"} /\
             Round(c, "routines", <<>>, 1, ForEach("routines", c.table))
    <3>1. c.fn \in {"schemas", "tables", "columns", "procedures", "procedureColumns"}
      BY <1>2, <2>0 DEF StageFns
    <3> QED BY <1>5, <3>1 DEF DatasetsListed, c
  <2> HIDE DEF found
  <2>3. DOMAIN found = 1..Len(found)
    BY <2>2, SeqShape
  <2>4. \A kind, d : \A i \in 1..Len(found) : ForEach(kind, d)[i].kind = kind
    BY <1>0, <2>3
  <2>5. \A kind, d : ForEach(kind, d) = [i \in DOMAIN found |-> ForEach(kind, d)[i]]
    OBVIOUS
  <2> HIDE DEF ForEach
  <2>6. /\ {"tables", "routines"} \subseteq Stages \ {"idle", "validate"}
        /\ c.fn = "tables" => c.fn \in StageFns["tables"]
        /\ c.fn \in {"procedures", "procedureColumns"} => c.fn \in StageFns["routines"]
        /\ "tables" \in Kinds("tables") /\ "routines" \in Kinds("routines")
    BY DEF Stages, StageFns, Kinds
  <2>7. ASSUME c.fn = "tables",
               Round(c, "tables", <<>>, config.max_threads, ForEach("tables", ""))
        PROVE  GoesOn(c)
    <3> DEFINE t == ForEach("tables", "")
    <3>1. t = [i \in DOMAIN found |-> t[i]] /\ \A i \in 1..Len(found) : t[i].kind \in Kinds("tables")
      BY <2>4, <2>5, <2>6
    <3> HIDE DEF t
    <3>2. Round(c, "tables", <<>>, config.max_threads, t)
      BY <2>7 DEF t
    <3>3. "tables" \in Stages \ {"idle"} /\ "tables" # "validate" /\ c.fn \in StageFns["tables"]
      BY <2>6, <2>7
    <3> QED BY <2>2, <3>1, <3>2, <3>3, TaskForEach, Threads
  <2>8. ASSUME c.fn \in {"procedures", "procedureColumns"},
               Round(c, "routines", <<>>, 1, ForEach("routines", c.table))
        PROVE  GoesOn(c)
    <3> DEFINE t == ForEach("routines", c.table)
    <3>1. t = [i \in DOMAIN found |-> t[i]] /\ \A i \in 1..Len(found) : t[i].kind \in Kinds("routines")
      BY <2>4, <2>5, <2>6
    <3> HIDE DEF t
    <3>2. Round(c, "routines", <<>>, 1, t)
      BY <2>8 DEF t
    <3>3. "routines" \in Stages \ {"idle"} /\ "routines" # "validate" /\ c.fn \in StageFns["routines"]
      BY <2>6, <2>8
    <3> QED BY <2>2, <3>1, <3>2, <3>3, TaskForEach
  <2>9. ASSUME c.fn = "columns", ListTables(c, found)
        PROVE  GoesOn(c) \/ Ends(c)
    BY <2>2, <2>9, ListsTables
  <2> QED BY <1>1, <2>1, <2>7, <2>8, <2>9 DEF Ends
<1>6. CASE ColumnTablesListed
  <2> DEFINE tables == FlattenSeq(InOrder)
             tasks == [i \in DOMAIN tables |->
                         Task("table", tables[i][1], tables[i][2], tables[i][3])]
  <2>1. /\ call.stage = "tables" /\ c.fn = "columns"
        /\ Round(c, "table", <<>>, config.max_threads, tasks)
    BY <1>6 DEF ColumnTablesListed, c
  <2>2. PICK V : InOrder \in Seq(Seq(V))
    BY <2>1, BatchesInOrder DEF ListsBatches, c
  <2>3. tables \in Seq(V)
    BY <2>2, FlattenPlaces
  <2> HIDE DEF tables
  <2>4. IsSeq(tables) /\ DOMAIN tables = 1..Len(tables)
    BY <2>3, SeqOfAny, SeqShape
  <2>5. \A i \in 1..Len(tables) : tasks[i].kind \in Kinds("table")
    BY <1>0, <2>4 DEF Kinds
  <2>6. tasks = [i \in DOMAIN tables |-> tasks[i]]
    OBVIOUS
  <2> HIDE DEF tasks
  <2>7. "table" \in Stages \ {"idle", "validate"} /\ c.fn \in StageFns["table"]
    BY <2>1 DEF Stages, StageFns
  <2>8. GoesOn(c)
    BY <2>1, <2>4, <2>5, <2>6, <2>7, TaskForEach, Threads
  <2> QED BY <1>1, <2>8
<1>7. CASE TablesListed \/ TablesRead \/ RoutinesRead \/ KeysRead \/ RequestsFailed
  <2>1. \/ \E rows : ReturnRows(c, rows)
        \/ \E refused \in BOOLEAN : ReturnError(c, refused)
    BY <1>7 DEF TablesListed, TablesRead, ReturnColumns, RoutinesRead, KeysRead, RequestsFailed, c
  <2> QED BY <1>1, <2>1 DEF Ends
<1> QED BY <1>3, <1>4, <1>5, <1>6, <1>7 DEF Advance

-----------------------------------------------------------------------------
(* What BigQuery answers, and what a request makes of it.                  *)

GivenShape(g) ==
  /\ g = [ok |-> g.ok, code |-> g.code, value |-> g.value]
  /\ g.ok \in BOOLEAN /\ g.code \in IF g.ok THEN {"none"} ELSE Codes
  /\ ~g.ok => g.value = <<>>

AllKinds == {"projects", "validate", "datasets", "tables", "table", "routines", "routine", "keys"}

LEMMA OkShape ==
  /\ \A v : GivenShape(Ok(v)) /\ Ok(v).ok = TRUE /\ Ok(v).code = "none" /\ Ok(v).value = v
  /\ \A e \in Codes : GivenShape(Error(e)) /\ IsSeq(Error(e).value)
  /\ \A e : Error(e).ok = FALSE /\ Error(e).code = e /\ Error(e).value = <<>>
<1>1. \A v : Ok(v).ok = TRUE /\ Ok(v).code = "none" /\ Ok(v).value = v
  BY DEF Ok
<1>2. \A e : Error(e).ok = FALSE /\ Error(e).code = e /\ Error(e).value = <<>>
  BY DEF Error
<1>3. \A v : Ok(v) = [ok |-> Ok(v).ok, code |-> Ok(v).code, value |-> Ok(v).value]
  BY DEF Ok
<1>4. \A e : Error(e) = [ok |-> Error(e).ok, code |-> Error(e).code, value |-> Error(e).value]
  BY DEF Error
<1>5. IsSeq(<<>>)
  BY DEF IsSeq
<1> QED BY <1>1, <1>2, <1>3, <1>4, <1>5 DEF GivenShape

\* An answer, by the kind of the request.
LEMMA AnsweredKinds ==
  ASSUME NEW t, t.kind \in AllKinds
  PROVE  LET p == t.project
             d == t.dataset
         IN  \/ t.kind = "projects" /\ Answered(t) = Ok(Selected(ProjectSeq, store.open))
             \/ t.kind # "projects" /\ p \notin store.open /\ Answered(t) = Error("403")
             \/ t.kind \in {"datasets", "validate"} /\ p \in store.open /\ Answered(t) = Ok(DatasetsOf(p))
             \/ /\ t.kind \in {"tables", "table", "routines", "routine", "keys"}
                /\ p \in store.open /\ <<p, d>> \notin store.datasets /\ Answered(t) = Error("404")
             \/ t.kind = "table" /\ <<p, d, t.name>> \notin store.tables /\ Answered(t) = Error("404")
             \/ /\ t.kind \in {"tables", "table", "routines", "routine", "keys"}
                /\ p \in store.open /\ <<p, d>> \in store.datasets
                /\ \/ t.kind \in {"tables", "keys"} /\ Answered(t) = Ok(TablesOf(p, d))
                   \/ t.kind = "routines" /\ Answered(t) = Ok(RoutinesOf(p, d, t.name))
                   \/ /\ t.kind = "table" /\ Answered(t) = Ok(<<t.name>>)
                      /\ <<p, d, t.name>> \in store.tables
                   \/ t.kind = "routine" /\ Answered(t) \in {Ok(<<t.name>>), Ok(<<>>)}
  BY ZenonT(60) DEF Answered, AllKinds

LEMMA ListedSeqs ==
  /\ IsSeq(Selected(ProjectSeq, store.open))
  /\ \A p, d, n : IsSeq(DatasetsOf(p)) /\ IsSeq(TablesOf(p, d)) /\ IsSeq(RoutinesOf(p, d, n))
<1>1. \A s, S : IsSeq(s) => IsSeq(Selected(s, S))
  BY SelectedSeq
<1>2. \A s, f, m : IsSeq(s) => IsSeq(Matching(s, f, m))
  BY MatchingSeq
<1> QED BY <1>1, <1>2, ListSeqs DEF DatasetsOf, TablesOf, RoutinesOf

LEMMA AnsweredShape ==
  ASSUME NEW t, t.kind \in AllKinds
  PROVE  GivenShape(Answered(t)) /\ IsSeq(Answered(t).value)
<1>1. {"403", "404"} \subseteq Codes
  BY DEF Codes
<1>2. IsSeq(<<>>) /\ IsSeq(<<t.name>>)
  BY Singleton DEF IsSeq
<1>3. (\E v : Answered(t) = Ok(v) /\ IsSeq(v)) \/ \E e \in Codes : Answered(t) = Error(e)
  BY <1>1, <1>2, AnsweredKinds, ListedSeqs
<1> QED BY <1>3, OkShape

LEMMA KeptSeq ==
  ASSUME NEW c, NEW t, NEW names, IsSeq(names), t.kind \in AllKinds \ {"keys"},
         t.kind = "tables" => c.fn \in {"tables", "columns"}
  PROVE  /\ IsSeq(Kept(c, t, names))
         /\ t.kind = "tables" /\ c.fn = "columns" =>
              \A k \in 1..Len(Kept(c, t, names)) : IsSeq(Kept(c, t, names)[k])
<1> DEFINE p == t.project
           d == t.dataset
           Chosen(filter) == Matching(names, filter, c.metadata_id)
           datasets == Chosen(IF c.fn = "schemas" THEN "%" ELSE c.schema)
           Paired(seq) == [i \in DOMAIN seq |-> <<p, d, seq[i]>>]
<1>1. \A f : IsSeq(Chosen(f))
  BY MatchingSeq
<1> HIDE DEF Chosen
<1>2. \A seq : IsSeq(seq) => IsSeq(Paired(seq))
  <2> SUFFICES ASSUME NEW seq, IsSeq(seq) PROVE IsSeq(Paired(seq))
    OBVIOUS
  <2> DEFINE f == Paired(seq)
  <2>1. f = [i \in DOMAIN seq |-> f[i]]
    OBVIOUS
  <2> HIDE DEF f
  <2>2. IsSeq(f)
    BY <2>1, MapSeq
  <2> QED BY <2>2 DEF f
<1>3. IsSeq([i \in DOMAIN datasets |-> <<p, datasets[i]>>])
  <2>1. IsSeq(datasets)
    BY <1>1
  <2> HIDE DEF datasets
  <2> DEFINE f == [i \in DOMAIN datasets |-> <<p, datasets[i]>>]
  <2>2. f = [i \in DOMAIN datasets |-> f[i]]
    OBVIOUS
  <2> HIDE DEF f
  <2>3. IsSeq(f)
    BY <2>1, <2>2, MapSeq
  <2> QED BY <2>3 DEF f
<1>4. IsSeq(GetFilteredTables(c, p, d, names))
  <2> DEFINE f == GetFilteredTables(c, p, d, names)
  <2>1. \E s, S : f = [i \in DOMAIN Selected(s, S) |-> f[i]] /\ IsSeq(s)
    <3>1. IsSeq(Matching(names, c.table, c.metadata_id))
      BY MatchingSeq
    <3> QED BY <3>1 DEF GetFilteredTables
  <2> HIDE DEF f
  <2>2. IsSeq(f)
    BY <2>1, SelectedSeq, MapSeq
  <2> QED BY <2>2 DEF f
<1> DEFINE K == Kept(c, t, names)
<1> HIDE DEF Paired
<1>5. \/ \E f : K = Chosen(f)
      \/ K = <<p>>
      \/ K = [i \in DOMAIN datasets |-> <<p, datasets[i]>>]
      \/ K = GetFilteredTables(c, p, d, names)
      \/ K = <<Paired(Chosen(c.table))>>
      \/ K = Paired(names)
  BY DEF Kept, AllKinds, Chosen, Paired
<1>6. t.kind = "tables" /\ c.fn = "columns" => K = <<Paired(Chosen(c.table))>>
  BY DEF Kept, AllKinds, Chosen, Paired
<1> HIDE DEF K, datasets, p, d
<1>7. IsSeq(K)
  BY <1>1, <1>2, <1>3, <1>4, <1>5, Singleton
<1>8. ASSUME t.kind = "tables", c.fn = "columns"
      PROVE  \A k \in 1..Len(K) : IsSeq(K[k])
  <2> DEFINE x == Paired(Chosen(c.table))
  <2>1. IsSeq(x) /\ K = <<x>>
    BY <1>1, <1>2, <1>6, <1>8
  <2> HIDE DEF x
  <2>2. Len(K) = 1 /\ \A i \in 1..1 : K[i] = x
    BY <2>1, Singleton
  <2> QED BY <2>1, <2>2
<1> QED BY <1>7, <1>8 DEF K

LEMMA ResultShape ==
  ASSUME NEW c, NEW t, NEW g, GivenShape(g), IsSeq(g.value), t.kind \in AllKinds,
         t.kind = "tables" => c.fn \in {"tables", "columns"}
  PROVE  LET r == TaskResult(c, t, g) IN
         /\ GivenShape(r) /\ (t.kind # "keys" => IsSeq(r.value))
         /\ t.kind = "tables" /\ c.fn = "columns" =>
              \A k \in 1..Len(r.value) : IsSeq(r.value[k])
         /\ ~r.ok => r = g /\ ~g.ok /\ g.code \notin Tolerated(c, t.kind)
<1> DEFINE r == TaskResult(c, t, g)
           kept == IF Missing(c, t, g.value) THEN <<NoLiteral>> ELSE Kept(c, t, g.value)
<1>1. \/ g.ok /\ r = Ok(kept)
      \/ r = Ok(<<>>)
      \/ ~g.ok /\ g.code \notin Tolerated(c, t.kind) /\ r = g
  <2>1. g.ok \in BOOLEAN
    BY DEF GivenShape
  <2> QED BY <2>1 DEF TaskResult
<1>2. t.kind # "keys" => IsSeq(kept)
  BY KeptSeq, Singleton
<1>3. t.kind = "tables" /\ c.fn = "columns" => \A k \in 1..Len(kept) : IsSeq(kept[k])
  BY KeptSeq DEF Missing
<1> HIDE DEF kept, r
<1>4. IsSeq(<<>>) /\ Len(<<>>) = 0
  BY DEF IsSeq
<1>5. GivenShape(r) /\ (t.kind # "keys" => IsSeq(r.value))
  BY <1>1, <1>2, <1>4, OkShape
<1>6. t.kind = "tables" /\ c.fn = "columns" =>
              \A k \in 1..Len(r.value) : IsSeq(r.value[k])
  <2>1. ~g.ok => Len(g.value) = 0
    BY <1>4 DEF GivenShape
  <2> QED BY <1>1, <1>3, <1>4, <2>1, OkShape
<1>7. ~r.ok => r = g /\ ~g.ok /\ g.code \notin Tolerated(c, t.kind)
  BY <1>1, OkShape
<1> QED BY <1>5, <1>6, <1>7 DEF r

-----------------------------------------------------------------------------
(* A request is answered.                                                  *)

\* Requests are under way only in a call, and each is of a kind of its stage.
LEMMA RequestKind ==
  ASSUME Shape, NEW i \in DOMAIN pool.running
  PROVE  /\ ~Idle /\ i \in 1..Len(pool.running) /\ Underway(pool, pool.running[i])
         /\ pool.running[i].at \in 1..Len(pool.inputs)
         /\ Request(i) = pool.inputs[pool.running[i].at]
         /\ Request(i).kind \in Kinds(call.stage) /\ Request(i).kind \in AllKinds
         /\ call.args.fn \in StageFns[call.stage]
         /\ Request(i).kind = "tables" => call.stage = "tables" /\ call.args.fn \in {"tables", "columns"}
         /\ call.stage = "tables" => Request(i).kind = "tables"
<1>1. /\ IsSeq(pool.running) /\ IsSeq(pool.inputs) /\ Len(pool.inputs) \in Nat
      /\ Len(pool.running) \in Nat /\ pool.next \in 1..(Len(pool.inputs) + 1)
      /\ DOMAIN pool.running = 1..Len(pool.running)
  BY SeqShape DEF Shape, RoundShape
<1>2. ~Idle
  <2>1. Idle => Len(pool.running) = 0
    BY NoRequestsShape DEF Shape, CallShape
  <2> QED BY <1>1, <2>1
<1>3. i \in 1..Len(pool.running) /\ Underway(pool, pool.running[i])
  BY <1>1 DEF Shape, RunningShape
<1>4. pool.running[i].at \in 1..Len(pool.inputs)
  <2> DEFINE N == Len(pool.inputs)
             X == pool.next
             a == pool.running[i].at
  <2>1. N \in Nat /\ X \in 1..(N + 1) /\ a \in 1..(X - 1)
    BY <1>1, <1>3 DEF Underway
  <2> HIDE DEF N, X, a
  <2>2. a \in 1..N
    BY <2>1
  <2> QED BY <2>2 DEF a, N
<1>5. call.args.fn \in StageFns[call.stage] /\ call.stage \in Stages \ {"idle"}
  BY <1>2 DEF Shape, CallShape, Idle
<1>6. Request(i).kind \in Kinds(call.stage)
  BY <1>2, <1>4 DEF Shape, CallShape, KindsOf, Request
<1>7. Request(i).kind \in AllKinds
  BY <1>5, <1>6 DEF Stages, Kinds, AllKinds
<1>8. Request(i).kind = "tables" => call.stage = "tables"
  BY <1>6 DEF Kinds
<1>9. call.stage = "tables" => call.args.fn \in {"tables", "columns"} /\ Request(i).kind = "tables"
  BY <1>5, <1>6 DEF StageFns, Kinds
<1> QED BY <1>2, <1>3, <1>4, <1>5, <1>6, <1>7, <1>8, <1>9 DEF Request

LEMMA AnsweredRequest ==
  ASSUME NEW u, u = [at |-> u.at, ready |-> u.ready, result |-> u.result], NEW t, NEW r
  PROVE  [u EXCEPT !.ready = t, !.result = r] = [at |-> u.at, ready |-> t, result |-> r]
<1>1. PICK a, b, x : u = [at |-> a, ready |-> b, result |-> x]
  OBVIOUS
<1>2. u.at = a
  BY <1>1
<1> DEFINE v == [u EXCEPT !.ready = t]
<1>3. [u EXCEPT !.ready = t, !.result = r] = [v EXCEPT !.result = r]
  BY <1>1
<1>4. v = [at |-> a, ready |-> t, result |-> x]
  BY <1>1
<1> HIDE DEF v
<1>5. [v EXCEPT !.result = r] = [at |-> a, ready |-> t, result |-> r]
  BY <1>4
<1> QED BY <1>2, <1>3, <1>5

LEMMA RespondPool ==
  ASSUME Shape, NEW i \in DOMAIN pool.running, NEW given, Respond(i, given)
  PROVE  LET r == TaskResult(call.args, Request(i), given) IN
         /\ pool' = [threads |-> pool.threads, inputs |-> pool.inputs, next |-> pool.next,
                     running |-> pool'.running, done |-> pool.done, error |-> pool.error]
         /\ pool'.threads = pool.threads /\ pool'.inputs = pool.inputs /\ pool'.next = pool.next
         /\ pool'.done = pool.done /\ pool'.error = pool.error
         /\ IsSeq(pool'.running) /\ Len(pool'.running) = Len(pool.running)
         /\ \A j \in 1..Len(pool.running) : j # i => pool'.running[j] = pool.running[j]
         /\ pool'.running[i] = [at |-> pool.running[i].at, ready |-> TRUE, result |-> r]
<1> DEFINE r == TaskResult(call.args, Request(i), given)
           new == [pool.running[i] EXCEPT !.ready = TRUE, !.result = r]
           running == [pool.running EXCEPT ![i] = new]
<1>1. pool' = [pool EXCEPT !.running[i].ready = TRUE, !.running[i].result = r]
  BY DEF Respond
<1>2. pool = [threads |-> pool.threads, inputs |-> pool.inputs, next |-> pool.next,
              running |-> pool.running, done |-> pool.done, error |-> pool.error]
  BY DEF Shape, RoundShape
<1>3. /\ IsSeq(pool.running) /\ Len(pool.running) \in Nat /\ i \in 1..Len(pool.running)
      /\ DOMAIN pool.running = 1..Len(pool.running)
  BY SeqShape DEF Shape, RoundShape
<1>4. new = [at |-> pool.running[i].at, ready |-> TRUE, result |-> r]
  <2>1. pool.running[i] = [at |-> pool.running[i].at, ready |-> pool.running[i].ready,
                           result |-> pool.running[i].result]
    BY RequestKind DEF Underway
  <2> DEFINE u == pool.running[i]
  <2> HIDE DEF r, u
  <2>2. u = [at |-> u.at, ready |-> u.ready, result |-> u.result]
    BY <2>1 DEF u
  <2>3. \A t, s : [u EXCEPT !.ready = t, !.result = s] = [at |-> u.at, ready |-> t, result |-> s]
    BY <2>2, AnsweredRequest
  <2>4. [u EXCEPT !.ready = TRUE, !.result = r] = [at |-> u.at, ready |-> TRUE, result |-> r]
    BY <2>3, Zenon
  <2> QED BY <2>4 DEF u
<1> HIDE DEF r
<1>5. pool' = [pool EXCEPT !.running = running]
  BY <1>1, <1>2
<1> HIDE DEF new
<1>6. IsSeq(running) /\ Len(running) = Len(pool.running)
  <2>1. DOMAIN running = 1..Len(pool.running)
    BY <1>3
  <2>2. running = [j \in 1..Len(pool.running) |-> running[j]]
    BY <1>3
  <2> HIDE DEF running
  <2> QED BY <1>3, <2>2, FunctionSeq
<1>7. running[i] = new /\ \A j \in 1..Len(pool.running) : j # i => running[j] = pool.running[j]
  BY <1>3
<1> HIDE DEF running
<1>8. pool' = [threads |-> pool.threads, inputs |-> pool.inputs, next |-> pool.next,
               running |-> running, done |-> pool.done, error |-> pool.error]
  BY <1>2, <1>5
<1>9. pool'.running = running
  BY <1>8
<1>10. /\ pool' = [threads |-> pool.threads, inputs |-> pool.inputs, next |-> pool.next,
                     running |-> pool'.running, done |-> pool.done, error |-> pool.error]
       /\ pool'.threads = pool.threads /\ pool'.inputs = pool.inputs /\ pool'.next = pool.next
       /\ pool'.done = pool.done /\ pool'.error = pool.error
  BY <1>8, <1>9
<1> QED BY <1>4, <1>6, <1>7, <1>9, <1>10 DEF r

LEMMA RespondShape ==
  ASSUME Shape, NEW i \in DOMAIN pool.running, NEW given, Respond(i, given),
         GivenShape(given), IsSeq(given.value), StmtShape',
         stmt'.state = stmt.state
  PROVE  Shape'
<1> DEFINE task == Request(i)
           r == TaskResult(call.args, task, given)
<1>1. /\ pool' = [threads |-> pool.threads, inputs |-> pool.inputs, next |-> pool.next,
                     running |-> pool'.running, done |-> pool.done, error |-> pool.error]
      /\ pool'.threads = pool.threads /\ pool'.inputs = pool.inputs /\ pool'.next = pool.next
      /\ pool'.done = pool.done /\ pool'.error = pool.error
      /\ IsSeq(pool'.running) /\ Len(pool'.running) = Len(pool.running)
      /\ \A j \in 1..Len(pool.running) : j # i => pool'.running[j] = pool.running[j]
      /\ pool'.running[i] = [at |-> pool.running[i].at, ready |-> TRUE, result |-> r]
  BY RespondPool
<1>2. /\ ~Idle /\ i \in 1..Len(pool.running) /\ Underway(pool, pool.running[i])
      /\ task = pool.inputs[pool.running[i].at]
      /\ task.kind \in AllKinds
      /\ task.kind = "tables" => call.args.fn \in {"tables", "columns"}
      /\ call.stage = "tables" => task.kind = "tables"
  BY RequestKind
<1>3. /\ GivenShape(r) /\ (task.kind # "keys" => IsSeq(r.value))
      /\ task.kind = "tables" /\ call.args.fn = "columns" =>
           \A k \in 1..Len(r.value) : IsSeq(r.value[k])
      /\ ~r.ok => r = given
  BY <1>2, ResultShape
<1> HIDE DEF task, r
<1>4. UNCHANGED <<store, config, call, answer>>
  BY DEF Respond
<1>5. RoundShape(pool')
  BY <1>1 DEF Shape, RoundShape
<1> DEFINE u == pool'.running[i]
<1>6. u.at = pool.running[i].at /\ u.ready = TRUE /\ u.result = r
  BY <1>1
<1>7. Underway(pool', u)
  <2>1. u = [at |-> u.at, ready |-> u.ready, result |-> u.result]
    BY <1>1
  <2>2. u.at \in 1..(pool'.next - 1) /\ pool'.inputs[u.at] = task
    BY <1>1, <1>2, <1>6 DEF Underway
  <2> HIDE DEF u
  <2> QED BY <1>3, <1>6, <2>1, <2>2 DEF Underway, GivenShape
<1>8. \A j \in 1..Len(pool.running) : Underway(pool, pool.running[j])
  BY DEF Shape, RunningShape
<1>9. \A j \in 1..Len(pool.running) : j # i => Underway(pool', pool'.running[j])
  <2> SUFFICES ASSUME NEW j \in 1..Len(pool.running), j # i
               PROVE  Underway(pool', pool'.running[j])
    OBVIOUS
  <2>1. pool'.running[j] = pool.running[j] /\ Underway(pool, pool.running[j])
    BY <1>1, <1>8
  <2> QED BY <1>1, <2>1 DEF Underway
<1>10. \A j \in 1..Len(pool.running) : pool'.running[j].at = pool.running[j].at
  BY <1>1, <1>6
<1>11. RunningShape(pool')
  <2>1. \A j \in 1..Len(pool'.running) : Underway(pool', pool'.running[j])
    BY <1>1, <1>7, <1>9
  <2>2. \A j, k \in 1..Len(pool'.running) : pool'.running[j].at = pool'.running[k].at => j = k
    BY <1>1, <1>10 DEF Shape, RunningShape
  <2>3. (\A k \in 1..Len(pool'.inputs) : pool'.inputs[k].kind # "keys") => IsSeq(pool'.done)
    BY <1>1 DEF Shape, RunningShape
  <2> QED BY <2>1, <2>2, <2>3 DEF RunningShape
<1>12. CallShape'
  <2>1. ~Idle'
    BY <1>2, <1>4 DEF Idle
  <2>2. KindsOf(pool, call.stage) => KindsOf(pool', call.stage')
    BY <1>1, <1>4 DEF KindsOf
  <2> QED BY <1>2, <1>4, <2>1, <2>2 DEF Shape, CallShape
<1>13. BatchShape'
  <2> SUFFICES ASSUME ListsBatches
               PROVE  /\ \A j \in 1..Len(pool'.running) : \A k \in 1..Len(pool'.running[j].result.value) :
                           IsSeq(pool'.running[j].result.value[k])
                      /\ \A j \in 1..Len(pool'.done) : IsSeq(pool'.done[j].what)
    BY <1>4 DEF BatchShape, ListsBatches
  <2>1. /\ \A j \in 1..Len(pool.running) : \A k \in 1..Len(pool.running[j].result.value) :
             IsSeq(pool.running[j].result.value[k])
        /\ \A j \in 1..Len(pool.done) : IsSeq(pool.done[j].what)
    BY DEF Shape, BatchShape
  <2>2. task.kind = "tables" /\ call.args.fn = "columns"
    BY <1>2 DEF ListsBatches
  <2>3. \A k \in 1..Len(r.value) : IsSeq(r.value[k])
    BY <1>3, <2>2
  <2>4. ASSUME NEW j \in 1..Len(pool'.running), NEW k \in 1..Len(pool'.running[j].result.value)
        PROVE  IsSeq(pool'.running[j].result.value[k])
    <3>1. CASE j = i
      <4>1. pool'.running[j].result = r
        BY <1>6, <3>1
      <4> QED BY <2>3, <2>4, <4>1
    <3>2. CASE j # i
      <4>1. j \in 1..Len(pool.running) /\ pool'.running[j] = pool.running[j]
        BY <1>1, <3>2
      <4> QED BY <2>1, <2>4, <4>1
    <3> QED BY <3>1, <3>2
  <2> QED BY <1>1, <2>1, <2>4
<1>14. StoreShape'
  BY <1>4 DEF Shape, StoreShape
<1> QED BY <1>5, <1>11, <1>12, <1>13, <1>14 DEF Shape

-----------------------------------------------------------------------------
(* The driver takes the answer of a request.                               *)

Rest(i) == RemoveAt(pool.running, i)

\* The round m without the i-th request and with what that gave.
Takes(i, m) ==
  LET r == pool.running[i]
      task == Request(i)
  IN  /\ m = [threads |-> pool.threads, inputs |-> m.inputs, next |-> pool.next,
              running |-> Rest(i), done |-> m.done, error |-> m.error]
      /\ m.threads = pool.threads /\ m.next = pool.next /\ m.running = Rest(i)
      /\ \/ /\ ~r.result.ok /\ m.inputs = pool.inputs /\ m.done = pool.done
            /\ m.error = IF pool.error = "none" THEN r.result.code ELSE pool.error
         \/ /\ r.result.ok /\ pool.error # "none"
            /\ m.inputs = pool.inputs /\ m.done = pool.done /\ m.error = pool.error
         \/ /\ r.result.ok /\ pool.error = "none" /\ task.kind = "routines"
            /\ m.inputs = SubSeq(pool.inputs, 1, pool.next - 1)
                            \o Following(task, r.result.value)
                            \o SubSeq(pool.inputs, pool.next, Len(pool.inputs))
            /\ m.done = pool.done /\ m.error = pool.error
         \/ /\ r.result.ok /\ pool.error = "none" /\ task.kind # "routines"
            /\ m.inputs = pool.inputs /\ m.error = pool.error
            /\ m.done = pool.done \o Tagged(r.at, r.result.value)

LEMMA TakesSome ==
  ASSUME Shape, NEW i \in DOMAIN pool.running, Collect(i)
  PROVE  \E m : Takes(i, m) /\ pool' \in {m, Filled(m)}
<1> DEFINE r == pool.running[i]
           task == Request(i)
           rest == [pool EXCEPT !.running = RemoveAt(@, i)]
           R == RemoveAt(pool.running, i)
<1>1. pool' = Collected(i)
  BY DEF Collect
<1>2. task = pool.inputs[r.at] /\ Underway(pool, r)
  BY RequestKind
<1>3. pool = [threads |-> pool.threads, inputs |-> pool.inputs, next |-> pool.next,
              running |-> pool.running, done |-> pool.done, error |-> pool.error]
  BY DEF Shape, RoundShape
<1> DEFINE code == IF pool.error = "none" THEN r.result.code ELSE pool.error
           ins == SubSeq(pool.inputs, 1, pool.next - 1) \o Following(task, r.result.value)
                    \o SubSeq(pool.inputs, pool.next, Len(pool.inputs))
           added == pool.done \o Tagged(r.at, r.result.value)
<1>4. \/ ~r.result.ok /\ pool' = [rest EXCEPT !.error = IF @ = "none" THEN r.result.code ELSE @]
      \/ r.result.ok /\ pool.error # "none" /\ pool' = rest
      \/ r.result.ok /\ pool.error = "none" /\ task.kind = "routines" /\
           pool' = Filled([rest EXCEPT !.inputs =
                      SubSeq(@, 1, pool.next - 1) \o Following(task, r.result.value)
                        \o SubSeq(@, pool.next, Len(@))])
      \/ r.result.ok /\ pool.error = "none" /\ task.kind # "routines" /\
           pool' = Filled([rest EXCEPT !.done = @ \o Tagged(r.at, r.result.value)])
  BY <1>1, <1>2 DEF Collected
<1>5. /\ rest = [threads |-> pool.threads, inputs |-> pool.inputs, next |-> pool.next,
                 running |-> R, done |-> pool.done, error |-> pool.error]
      /\ rest.inputs = pool.inputs /\ rest.done = pool.done /\ rest.error = pool.error
  <2> DEFINE x == RemoveAt(pool.running, i)
  <2> HIDE DEF x
  <2>1. /\ [pool EXCEPT !.running = x] =
             [threads |-> pool.threads, inputs |-> pool.inputs, next |-> pool.next,
                 running |-> x, done |-> pool.done, error |-> pool.error]
    BY <1>3
  <2>2. rest = [pool EXCEPT !.running = x]
    BY DEF x
  <2>3. rest = [threads |-> pool.threads, inputs |-> pool.inputs, next |-> pool.next,
                 running |-> x, done |-> pool.done, error |-> pool.error]
    BY <2>1, <2>2
  <2> HIDE DEF rest
  <2> QED BY <2>3 DEF x
<1>6. \/ ~r.result.ok /\ pool' = [rest EXCEPT !.error = code]
      \/ r.result.ok /\ pool.error # "none" /\ pool' = rest
      \/ r.result.ok /\ pool.error = "none" /\ task.kind = "routines" /\
           pool' = Filled([rest EXCEPT !.inputs = ins])
      \/ r.result.ok /\ pool.error = "none" /\ task.kind # "routines" /\
           pool' = Filled([rest EXCEPT !.done = added])
  <2> HIDE DEF rest, r, task
  <2> QED BY <1>4, <1>5
<1> DEFINE ma == [rest EXCEPT !.error = code]
           mc == [rest EXCEPT !.inputs = ins]
           md == [rest EXCEPT !.done = added]
<1> HIDE DEF code, ins, added, rest, R
<1>7. /\ ma = [threads |-> pool.threads, inputs |-> pool.inputs, next |-> pool.next,
               running |-> R, done |-> pool.done, error |-> code]
      /\ mc = [threads |-> pool.threads, inputs |-> ins, next |-> pool.next,
               running |-> R, done |-> pool.done, error |-> pool.error]
      /\ md = [threads |-> pool.threads, inputs |-> pool.inputs, next |-> pool.next,
               running |-> R, done |-> added, error |-> pool.error]
  BY <1>5
<1> HIDE DEF ma, mc, md, r, task
<1>8. \A m, a, b, e : m = [threads |-> pool.threads, inputs |-> a, next |-> pool.next,
                           running |-> R, done |-> b, error |-> e] =>
        /\ m = [threads |-> pool.threads, inputs |-> m.inputs, next |-> pool.next,
                running |-> R, done |-> m.done, error |-> m.error]
        /\ m.threads = pool.threads /\ m.next = pool.next /\ m.running = R
        /\ m.inputs = a /\ m.done = b /\ m.error = e
  OBVIOUS
<1>9. R = Rest(i)
  BY DEF R, Rest
<1>10. CASE ~r.result.ok /\ pool' = ma
  <2>1. Takes(i, ma)
    BY <1>7, <1>8, <1>9, <1>10 DEF Takes, r, task, code
  <2> QED BY <1>10, <2>1
<1>11. CASE r.result.ok /\ pool.error # "none" /\ pool' = rest
  <2>1. Takes(i, rest)
    BY <1>5, <1>8, <1>9, <1>11 DEF Takes, r, task, R
  <2> QED BY <1>11, <2>1
<1>12. CASE r.result.ok /\ pool.error = "none" /\ task.kind = "routines" /\ pool' = Filled(mc)
  <2>1. Takes(i, mc)
    BY <1>7, <1>8, <1>9, <1>12 DEF Takes, r, task, ins
  <2> QED BY <1>12, <2>1
<1>13. CASE r.result.ok /\ pool.error = "none" /\ task.kind # "routines" /\ pool' = Filled(md)
  <2>1. Takes(i, md)
    BY <1>7, <1>8, <1>9, <1>13 DEF Takes, r, task, added
  <2> QED BY <1>13, <2>1
<1> QED BY <1>6, <1>10, <1>11, <1>12, <1>13 DEF ma, mc, md

LEMMA TagsOf ==
  ASSUME NEW at, NEW values, IsSeq(values)
  PROVE  /\ IsSeq(Tagged(at, values)) /\ Len(Tagged(at, values)) = Len(values)
         /\ \A k \in 1..Len(values) :
              Tagged(at, values)[k].at = at /\ Tagged(at, values)[k].what = values[k]
<1> DEFINE f == Tagged(at, values)
<1>1. f = [k \in DOMAIN values |-> f[k]]
  BY DEF Tagged
<1>2. DOMAIN values = 1..Len(values)
  BY SeqShape
<1>3. \A k \in 1..Len(values) : f[k] = [at |-> at, what |-> values[k]]
  BY <1>2 DEF Tagged
<1> HIDE DEF f
<1>4. IsSeq(f) /\ Len(f) = Len(values)
  BY <1>1, MapSeq
<1>6. ASSUME NEW k \in 1..Len(values)
      PROVE  f[k].at = at /\ f[k].what = values[k]
  <2>1. f[k] = [at |-> at, what |-> values[k]]
    BY <1>3
  <2> DEFINE e == f[k]
             v == values[k]
  <2>2. e = [at |-> at, what |-> v]
    BY <2>1
  <2> HIDE DEF e, v
  <2>3. e.at = at /\ e.what = v
    BY <2>2
  <2> QED BY <2>3 DEF e, v
<1> QED BY <1>4, <1>6 DEF f

\* The inputs with the reads of a dataset's routines.
LEMMA FollowedInputs ==
  ASSUME Shape, call.stage = "routines", NEW task, NEW routines, IsSeq(routines)
  PROVE  LET ins == SubSeq(pool.inputs, 1, pool.next - 1) \o Following(task, routines)
                      \o SubSeq(pool.inputs, pool.next, Len(pool.inputs))
         IN  /\ IsSeq(ins) /\ Len(pool.inputs) <= Len(ins)
             /\ \A k \in 1..(pool.next - 1) : ins[k] = pool.inputs[k]
             /\ \A k \in 1..Len(ins) : ins[k].kind \in {"routines", "routine"}
<1> DEFINE V == Range(pool.inputs)
           N == Len(pool.inputs)
           X == pool.next
           a == SubSeq(pool.inputs, 1, X - 1)
           b == SubSeq(pool.inputs, X, N)
           f == Following(task, routines)
<1>1. IsSeq(pool.inputs) /\ N \in Nat /\ X \in 1..(N + 1) /\ pool.inputs \in Seq(V)
  BY SeqShape DEF Shape, RoundShape, IsSeq
<1>2. \A k \in 1..N : pool.inputs[k].kind \in {"routines", "routine"}
  BY DEF Shape, CallShape, Idle, KindsOf, Kinds
<1>3. \A k \in 1..N : pool.inputs[k] \in V
  BY <1>1
<1> HIDE DEF V, N, X
<1>4. a \in Seq(V) /\ Len(a) = X - 1 /\ \A k \in 1..(X - 1) : a[k] = pool.inputs[k]
  <2>1. X \in Int /\ 1 \in Int /\ X - 1 \in Int /\ \A k \in 1..(X - 1) : k \in 1..N
    BY <1>1
  <2>2. \A k \in 1..(X - 1) : pool.inputs[k] \in V
    BY <1>3, <2>1
  <2>3. /\ SubSeq(pool.inputs, 1, X - 1) \in Seq(V)
        /\ Len(SubSeq(pool.inputs, 1, X - 1)) = IF 1 <= X - 1 THEN X - 1 - 1 + 1 ELSE 0
        /\ \A k \in 1..(X - 1 - 1 + 1) : SubSeq(pool.inputs, 1, X - 1)[k] = pool.inputs[1 + k - 1]
    BY <2>1, <2>2, SubSeqProperties
  <2>4. X - 1 - 1 + 1 = X - 1 /\ (~(1 <= X - 1) => X - 1 = 0) /\ \A k \in 1..(X - 1) : 1 + k - 1 = k
    BY <1>1
  <2> QED BY <2>3, <2>4
<1>5. b \in Seq(V) /\ Len(b) = N - X + 1 /\ \A k \in 1..(N - X + 1) : b[k] = pool.inputs[X + k - 1]
  <2>1. \A k \in X..N : pool.inputs[k] \in V
    BY <1>1, <1>3
  <2>2. X \in Int /\ N \in Int /\ (~(X <= N) => N - X + 1 = 0)
    BY <1>1
  <2> QED BY <2>1, <2>2, SubSeqProperties
<1>6. IsSeq(a) /\ IsSeq(b)
  BY <1>4, <1>5, SeqOfAny
<1>7. IsSeq(f) /\ Len(f) = Len(routines) /\ \A k \in 1..Len(f) : f[k].kind = "routine"
  <2>1. f = [k \in DOMAIN routines |-> f[k]]
    BY DEF Following
  <2>2. DOMAIN routines = 1..Len(routines)
    BY SeqShape
  <2>3. \A k \in 1..Len(routines) : f[k].kind = "routine"
    BY <2>2 DEF Following, Task
  <2> HIDE DEF f
  <2>4. IsSeq(f) /\ Len(f) = Len(routines)
    BY <2>1, MapSeq
  <2> QED BY <2>3, <2>4
<1>0. a \o f \o b = (a \o f) \o b
  OBVIOUS
<1> HIDE DEF a, b, f
<1> DEFINE g == a \o f
           ins == g \o b
<1>8. /\ IsSeq(g) /\ Len(g) = Len(a) + Len(f)
      /\ \A k \in 1..Len(a) : g[k] = a[k]
      /\ \A k \in 1..(Len(a) + Len(f)) : k > Len(a) => g[k] = f[k - Len(a)]
  BY <1>6, <1>7, Joined
<1> HIDE DEF g
<1>9. /\ IsSeq(ins) /\ Len(ins) = Len(g) + Len(b)
      /\ \A k \in 1..Len(g) : ins[k] = g[k]
      /\ \A k \in 1..(Len(g) + Len(b)) : k > Len(g) => ins[k] = b[k - Len(g)]
  BY <1>6, <1>8, Joined, SMTT(30)
<1> HIDE DEF ins
<1>10. Len(f) \in Nat
  BY <1>7, SeqShape
<1> DEFINE F == Len(f)
<1>11. /\ F \in Nat /\ Len(g) = X - 1 + F /\ Len(ins) = N + F /\ Len(a) = X - 1
       /\ Len(b) = N - X + 1
  BY <1>1, <1>4, <1>5, <1>8, <1>9, <1>10
<1> HIDE DEF F
<1>12. N <= Len(ins)
  BY <1>1, <1>11
<1>13. ASSUME NEW k \in 1..(X - 1)
       PROVE  ins[k] = pool.inputs[k]
  <2>1. k \in 1..Len(g) /\ k \in 1..Len(a)
    BY <1>1, <1>11
  <2> QED BY <1>4, <1>8, <1>9, <2>1
<1>14. ASSUME NEW k \in 1..Len(ins)
       PROVE  ins[k].kind \in {"routines", "routine"}
  <2>1. CASE k <= X - 1
    <3>1. k \in 1..(X - 1) /\ k \in 1..N
      BY <1>1, <1>11, <2>1
    <3> QED BY <1>2, <1>13, <3>1
  <2>2. CASE k > X - 1 /\ k <= X - 1 + F
    <3>1. k \in 1..Len(g) /\ k \in 1..(Len(a) + F) /\ k > Len(a) /\ k - Len(a) \in 1..F
      BY <1>1, <1>11, <2>2
    <3>2. ins[k] = f[k - Len(a)]
      BY <1>8, <1>9, <3>1 DEF F
    <3> QED BY <1>7, <3>1, <3>2 DEF F
  <2>3. CASE k > X - 1 + F
    <3>1. k \in 1..(Len(g) + Len(b)) /\ k > Len(g) /\ k - Len(g) \in 1..(N - X + 1)
          /\ X + (k - Len(g)) - 1 \in 1..N
      BY <1>1, <1>11, <2>3
    <3>2. ins[k] = pool.inputs[X + (k - Len(g)) - 1]
      BY <1>5, <1>9, <3>1
    <3> QED BY <1>2, <3>1, <3>2
  <2> QED BY <1>1, <1>11, <2>1, <2>2, <2>3
<1> QED BY <1>9, <1>12, <1>13, <1>14 DEF ins, g, a, b, f, N, X

LEMMA TakesShape ==
  ASSUME Shape, NEW i \in DOMAIN pool.running, NEW m, Takes(i, m)
  PROVE  /\ RoundShape(m) /\ RunningShape(m) /\ KindsOf(m, call.stage)
         /\ ListsBatches => \A j \in 1..Len(m.done) : IsSeq(m.done[j].what)
         /\ IsSeq(Rest(i)) /\ Len(pool.inputs) <= Len(m.inputs)
         /\ \A k \in 1..(pool.next - 1) : m.inputs[k] = pool.inputs[k]
<1> DEFINE r == pool.running[i]
           task == Request(i)
<1>1. /\ ~Idle /\ i \in 1..Len(pool.running) /\ Underway(pool, r)
      /\ task.kind \in Kinds(call.stage) /\ task = pool.inputs[r.at]
  BY RequestKind
<1>2. /\ IsSeq(Rest(i)) /\ Len(Rest(i)) = Len(pool.running) - 1
      /\ \A k \in 1..Len(Rest(i)) : Back(i, k) \in 1..Len(pool.running) /\ Rest(i)[k] = pool.running[Back(i, k)]
      /\ \A k, l \in 1..Len(Rest(i)) : Back(i, k) = Back(i, l) => k = l
  <2>1. IsSeq(pool.running)
    BY DEF Shape, RoundShape
  <2> DEFINE s == pool.running
  <2>2. IsSeq(s) /\ i \in 1..Len(s)
    BY <1>1, <2>1
  <2> HIDE DEF s
  <2>3. IsSeq(RemoveAt(s, i)) /\ Len(RemoveAt(s, i)) = Len(s) - 1
    BY <2>2, Removed
  <2>4. /\ \A k \in 1..Len(RemoveAt(s, i)) :
              Back(i, k) \in 1..Len(s) /\ RemoveAt(s, i)[k] = s[Back(i, k)]
        /\ \A k, l \in 1..Len(RemoveAt(s, i)) : Back(i, k) = Back(i, l) => k = l
    BY <2>2, RestOf
  <2> QED BY <2>3, <2>4 DEF Rest, s
<1>3. /\ m = [threads |-> pool.threads, inputs |-> m.inputs, next |-> pool.next,
              running |-> Rest(i), done |-> m.done, error |-> m.error]
      /\ m.threads = pool.threads /\ m.next = pool.next /\ m.running = Rest(i)
  BY DEF Takes
<1>4. /\ IsSeq(pool.inputs) /\ pool.next \in 1..(Len(pool.inputs) + 1) /\ Len(pool.inputs) \in Nat
      /\ Len(pool.running) <= pool.threads /\ Len(pool.running) \in Nat
      /\ pool.threads \in Nat \ {0} /\ pool.error \in Codes \cup {"none"}
      /\ KindsOf(pool, call.stage)
  BY <1>1, SeqShape DEF Shape, RoundShape, CallShape
<1>5. /\ IsSeq(m.inputs) /\ Len(pool.inputs) <= Len(m.inputs)
      /\ \A k \in 1..(pool.next - 1) : m.inputs[k] = pool.inputs[k]
      /\ KindsOf(m, call.stage)
  <2>1. CASE m.inputs = pool.inputs
    BY <1>4, <2>1 DEF KindsOf
  <2>2. CASE m.inputs # pool.inputs
    <3>1. /\ task.kind = "routines"
          /\ m.inputs = SubSeq(pool.inputs, 1, pool.next - 1)
                            \o Following(task, r.result.value)
                            \o SubSeq(pool.inputs, pool.next, Len(pool.inputs))
      BY <2>2 DEF Takes
    <3>2. call.stage = "routines" /\ IsSeq(r.result.value)
      BY <1>1, <3>1 DEF Kinds, Underway
    <3> DEFINE b == r.result.value
               ins == SubSeq(pool.inputs, 1, pool.next - 1) \o Following(task, b)
                        \o SubSeq(pool.inputs, pool.next, Len(pool.inputs))
    <3>3. IsSeq(b) /\ m.inputs = ins
      BY <3>1, <3>2
    <3> HIDE DEF task, r, b
    <3>4. /\ IsSeq(ins) /\ Len(pool.inputs) <= Len(ins)
          /\ \A k \in 1..(pool.next - 1) : ins[k] = pool.inputs[k]
          /\ \A k \in 1..Len(ins) : ins[k].kind \in {"routines", "routine"}
      BY <3>2, <3>3, FollowedInputs
    <3> HIDE DEF ins
    <3> QED BY <3>2, <3>3, <3>4 DEF KindsOf, Kinds
  <2> QED BY <2>1, <2>2
<1>6. m.error \in Codes \cup {"none"}
  BY <1>1, <1>4 DEF Takes, Underway
<1>7. RoundShape(m)
  <2>1. \A x, n, k \in Nat : n <= k /\ x \in 1..(n + 1) => x \in 1..(k + 1)
    OBVIOUS
  <2>2. Len(m.inputs) \in Nat
    BY <1>5, SeqShape
  <2>3. pool.next \in 1..(Len(m.inputs) + 1)
    <3> DEFINE X == pool.next
    <3>1. X \in Nat /\ X \in 1..(Len(pool.inputs) + 1)
      BY <1>4
    <3> HIDE DEF X
    <3>2. X \in 1..(Len(m.inputs) + 1)
      BY <1>4, <1>5, <2>1, <2>2, <3>1
    <3> QED BY <3>2 DEF X
  <2>4. Len(Rest(i)) <= pool.threads
    BY <1>2, <1>4
  <2> QED BY <1>2, <1>3, <1>4, <1>5, <1>6, <2>3, <2>4 DEF RoundShape
<1>8. ASSUME NEW k \in 1..Len(Rest(i))
      PROVE  Underway(m, Rest(i)[k])
  <2>1. Underway(pool, Rest(i)[k])
    BY <1>2 DEF Shape, RunningShape
  <2>2. m.inputs[Rest(i)[k].at] = pool.inputs[Rest(i)[k].at]
    BY <1>5, <2>1 DEF Underway
  <2> QED BY <1>3, <2>1, <2>2 DEF Underway
<1>9. ASSUME NEW k \in 1..Len(Rest(i)), NEW l \in 1..Len(Rest(i)), Rest(i)[k].at = Rest(i)[l].at
      PROVE  k = l
  <2>1. \A a, b \in 1..Len(pool.running) : pool.running[a].at = pool.running[b].at => a = b
    BY DEF Shape, RunningShape
  <2>2. Back(i, k) \in 1..Len(pool.running) /\ Back(i, l) \in 1..Len(pool.running)
        /\ pool.running[Back(i, k)].at = pool.running[Back(i, l)].at
    BY <1>2, <1>9
  <2>3. Back(i, k) = Back(i, l)
    BY <2>1, <2>2
  <2> QED BY <1>2, <2>3
<1>10. /\ (\A k \in 1..Len(m.inputs) : m.inputs[k].kind # "keys") => IsSeq(m.done)
       /\ ListsBatches => \A j \in 1..Len(m.done) : IsSeq(m.done[j].what)
  <2>1. /\ (\A k \in 1..Len(pool.inputs) : pool.inputs[k].kind # "keys") => IsSeq(pool.done)
        /\ ListsBatches => \A j \in 1..Len(pool.done) : IsSeq(pool.done[j].what)
    BY DEF Shape, RunningShape, BatchShape
  <2>2. CASE m.done = pool.done
    <3>1. (\E k \in 1..Len(pool.inputs) : pool.inputs[k].kind = "keys") =>
            \E k \in 1..Len(m.inputs) : m.inputs[k].kind = "keys"
      <4> SUFFICES ASSUME NEW k \in 1..Len(pool.inputs), pool.inputs[k].kind = "keys",
                          m.inputs # pool.inputs
                   PROVE  FALSE
        OBVIOUS
      <4>1. task.kind = "routines"
        BY DEF Takes
      <4>2. call.stage = "routines"
        BY <1>1, <4>1 DEF Kinds
      <4> QED BY <1>4, <4>2 DEF KindsOf, Kinds
    <3> QED BY <2>1, <2>2, <3>1
  <2>3. CASE m.done # pool.done
    <3>1. m.inputs = pool.inputs /\ m.done = pool.done \o Tagged(r.at, r.result.value)
      BY <2>3 DEF Takes
    <3> HIDE DEF r
    <3>2. ASSUME \A k \in 1..Len(m.inputs) : m.inputs[k].kind # "keys"
          PROVE  /\ IsSeq(m.done)
                 /\ ListsBatches => \A j \in 1..Len(m.done) : IsSeq(m.done[j].what)
      <4>1. IsSeq(pool.done)
        BY <2>1, <3>1, <3>2
      <4>2. IsSeq(r.result.value)
        <5>1. r.at \in 1..Len(pool.inputs)
          BY RequestKind DEF r
        <5> QED BY <1>1, <3>1, <3>2, <5>1 DEF Underway
      <4> DEFINE a == r.at
                 b == r.result.value
                 t == Tagged(a, b)
      <4> HIDE DEF a, b
      <4>6. IsSeq(b)
        BY <4>2 DEF b
      <4>7. /\ IsSeq(Tagged(a, b)) /\ Len(Tagged(a, b)) = Len(b)
            /\ \A k \in 1..Len(b) : Tagged(a, b)[k].what = b[k]
        BY <4>6, TagsOf
      <4> HIDE DEF t
      <4>3. /\ IsSeq(t) /\ Len(t) = Len(r.result.value)
            /\ \A k \in 1..Len(t) : t[k].what = r.result.value[k]
        BY <4>7 DEF b, t
      <4>8. m.done = pool.done \o t
        BY <3>1 DEF t, a, b
      <4> DEFINE D == pool.done
      <4>9. IsSeq(D)
        BY <4>1
      <4> HIDE DEF D
      <4>10. /\ IsSeq(D \o t) /\ Len(D \o t) = Len(D) + Len(t)
             /\ \A k \in 1..Len(D) : (D \o t)[k] = D[k]
             /\ \A k \in 1..(Len(D) + Len(t)) : k > Len(D) => (D \o t)[k] = t[k - Len(D)]
        BY <4>3, <4>9, Joined
      <4>4. /\ IsSeq(pool.done \o t) /\ Len(pool.done \o t) = Len(pool.done) + Len(t)
            /\ \A k \in 1..Len(pool.done) : (pool.done \o t)[k] = pool.done[k]
            /\ \A k \in 1..(Len(pool.done) + Len(t)) : k > Len(pool.done) =>
                 (pool.done \o t)[k] = t[k - Len(pool.done)]
        BY <4>10 DEF D
      <4>5. ASSUME ListsBatches, NEW j \in 1..Len(m.done)
            PROVE  IsSeq(m.done[j].what)
        <5>0. Len(pool.done) \in Nat /\ Len(t) \in Nat /\ m.done = pool.done \o t
          BY <4>1, <4>3, <4>8, SeqShape
        <5>1. CASE j <= Len(pool.done)
          <6>1. j \in 1..Len(pool.done)
            BY <5>0, <5>1
          <6> QED BY <2>1, <4>4, <4>5, <5>0, <6>1
        <5>2. CASE ~(j <= Len(pool.done))
          <6>1. j \in 1..(Len(pool.done) + Len(t)) /\ j > Len(pool.done)
                /\ j - Len(pool.done) \in 1..Len(t)
            BY <4>4, <5>0, <5>2
          <6>2. m.done[j].what = r.result.value[j - Len(pool.done)]
            BY <4>3, <4>4, <5>0, <6>1
          <6>3. \A k \in 1..Len(r.result.value) : IsSeq(r.result.value[k])
            BY <1>1, <4>5 DEF Shape, BatchShape, r
          <6> QED BY <4>3, <6>1, <6>2, <6>3
        <5> QED BY <5>1, <5>2
      <4> QED BY <4>4, <4>5, <4>8
    <3>3. ListsBatches => \A k \in 1..Len(m.inputs) : m.inputs[k].kind # "keys"
      BY <1>5 DEF ListsBatches, KindsOf, Kinds
    <3> QED BY <3>2, <3>3
  <2> QED BY <2>2, <2>3
<1>11. RunningShape(m)
  BY <1>3, <1>8, <1>9, <1>10 DEF RunningShape
<1> QED BY <1>2, <1>5, <1>7, <1>10, <1>11

LEMMA CollectShape ==
  ASSUME Shape, NEW i \in DOMAIN pool.running, Collect(i)
  PROVE  Shape'
<1>1. PICK m : Takes(i, m) /\ pool' \in {m, Filled(m)}
  BY TakesSome
<1>2. /\ RoundShape(m) /\ RunningShape(m) /\ KindsOf(m, call.stage)
      /\ ListsBatches => \A j \in 1..Len(m.done) : IsSeq(m.done[j].what)
      /\ IsSeq(Rest(i)) /\ m.running = Rest(i)
  BY <1>1, TakesShape DEF Takes
<1>3. Starts(m, m)
  <2>1. Len(m.running) \in Nat /\ m.next \in Nat
    BY <1>2, SeqShape DEF RoundShape
  <2> QED BY <2>1 DEF Starts
<1>4. RoundShape(pool') /\ RunningShape(pool') /\ Starts(m, pool')
  BY <1>1, <1>2, <1>3, FilledShape
<1>5. UNCHANGED <<store, config, stmt, call, answer>> /\ ~Idle
  BY RequestKind DEF Collect
<1>6. KindsOf(pool', call.stage)
  BY <1>2, <1>4 DEF KindsOf, Starts
<1>7. CallShape'
  <2>1. ~Idle'
    BY <1>5 DEF Idle
  <2> QED BY <1>5, <1>6, <2>1 DEF Shape, CallShape
<1>8. BatchShape'
  <2> SUFFICES ASSUME ListsBatches
               PROVE  /\ \A j \in 1..Len(pool'.running) :
                           \A k \in 1..Len(pool'.running[j].result.value) :
                             IsSeq(pool'.running[j].result.value[k])
                      /\ \A j \in 1..Len(pool'.done) : IsSeq(pool'.done[j].what)
    BY <1>5 DEF BatchShape, ListsBatches
  <2>1. \A j \in 1..Len(pool'.done) : IsSeq(pool'.done[j].what)
    BY <1>2, <1>4 DEF Starts
  <2>2. \A j \in 1..Len(pool.running) : \A k \in 1..Len(pool.running[j].result.value) :
             IsSeq(pool.running[j].result.value[k])
    BY DEF Shape, BatchShape
  <2>3. ASSUME NEW j \in 1..Len(pool'.running), NEW k \in 1..Len(pool'.running[j].result.value)
        PROVE  IsSeq(pool'.running[j].result.value[k])
    <3>0. Len(m.running) \in Nat /\ Len(pool'.running) \in Nat
      BY <1>2, <1>4, SeqShape DEF RoundShape
    <3>1. CASE j <= Len(m.running)
      <4>1. j \in 1..Len(m.running)
        BY <3>0, <3>1
      <4>2. pool'.running[j] = Rest(i)[j]
        BY <1>2, <1>4, <4>1 DEF Starts
      <4>3. Back(i, j) \in 1..Len(pool.running) /\ Rest(i)[j] = pool.running[Back(i, j)]
        <5>1. IsSeq(pool.running) /\ i \in 1..Len(pool.running)
          BY <1>2, RequestKind DEF Shape, RoundShape
        <5>2. \A n \in 1..Len(Rest(i)) :
                Back(i, n) \in 1..Len(pool.running) /\ Rest(i)[n] = pool.running[Back(i, n)]
          BY <5>1, RestOf DEF Rest
        <5> QED BY <1>2, <4>1, <5>2
      <4> QED BY <2>2, <2>3, <4>2, <4>3
    <3>2. CASE ~(j <= Len(m.running))
      <4>1. pool'.running[j] = Start(pool'.running[j].at)
        BY <1>4, <3>0, <3>2 DEF Starts
      <4>2. pool'.running[j].result.value = <<>>
        BY <4>1, StartFields
      <4> QED BY <2>3, <4>2
    <3> QED BY <3>1, <3>2
  <2> QED BY <2>1, <2>3
<1>9. StoreShape' /\ StmtShape'
  BY <1>5 DEF Shape, StoreShape, StmtShape
<1> QED BY <1>4, <1>7, <1>8, <1>9 DEF Shape

-----------------------------------------------------------------------------
(* Every step keeps the shape of the state.                                *)

LEMMA ReplacedJob ==
  ASSUME StmtShape, NEW t, NEW ird, stmt' = [stmt EXCEPT !.job = t, !.ird = ird]
  PROVE  /\ StmtShape' /\ stmt'.state = stmt.state /\ stmt'.result = stmt.result
         /\ stmt'.job = t /\ stmt'.ird = ird
<1>1. stmt = [state |-> stmt.state, result |-> stmt.result, ird |-> stmt.ird, job |-> stmt.job]
  BY DEF StmtShape
<1>2. stmt' = [state |-> stmt.state, result |-> stmt.result, ird |-> ird, job |-> t]
  BY <1>1
<1>3. /\ stmt'.state = stmt.state /\ stmt'.result = stmt.result
      /\ stmt'.job = t /\ stmt'.ird = ird
  BY <1>2
<1> QED BY <1>2, <1>3 DEF StmtShape

LEMMA FetchShape ==
  ASSUME StmtShape, NEW task, NEW given, FetchBQData(task, given)
  PROVE  StmtShape' /\ stmt'.state = stmt.state /\ stmt'.result = stmt.result
<1>1. CASE UNCHANGED stmt
  BY <1>1 DEF StmtShape
<1>2. CASE stmt' # stmt
  <2>1. \E ird : stmt' = [stmt EXCEPT !.job = TRUE, !.ird = ird]
    BY <1>2 DEF FetchBQData
  <2>2. \A t, ird : stmt' = [stmt EXCEPT !.job = t, !.ird = ird] =>
          StmtShape' /\ stmt'.state = stmt.state /\ stmt'.result = stmt.result
    BY ReplacedJob
  <2> QED BY <2>1, <2>2, Zenon
<1> QED BY <1>1, <1>2

LEMMA ReplyShape ==
  ASSUME Shape, NEW i \in DOMAIN pool.running, Reply(i)
  PROVE  Shape'
<1>1. /\ Respond(i, Answered(Request(i))) /\ FetchBQData(Request(i), Answered(Request(i)))
  BY DEF Reply
<1>2. GivenShape(Answered(Request(i))) /\ IsSeq(Answered(Request(i)).value)
  BY RequestKind, AnsweredShape
<1>3. StmtShape' /\ stmt'.state = stmt.state
  BY <1>1, FetchShape DEF Shape
<1> QED BY <1>1, <1>2, <1>3, RespondShape

LEMMA ReplyFailsShape ==
  ASSUME Shape, NEW i \in DOMAIN pool.running, ReplyFails(i)
  PROVE  Shape'
<1>1. Respond(i, Error("other")) /\ UNCHANGED stmt
  BY DEF ReplyFails
<1>2. GivenShape(Error("other")) /\ IsSeq(Error("other").value)
  BY OkShape DEF Codes
<1>3. StmtShape' /\ stmt'.state = stmt.state
  BY <1>1 DEF Shape, StmtShape
<1> QED BY <1>1, <1>2, <1>3, RespondShape

LEMMA CloseShape ==
  ASSUME Shape, CloseCursor
  PROVE  Shape'
<1>1. /\ Idle /\ UNCHANGED <<store, config, call, pool, answer>>
      /\ stmt' = [stmt EXCEPT !.state = IF stmt.job THEN "prepared" ELSE "notPrepared",
                              !.result = <<>>]
  BY DEF CloseCursor
<1>2. PICK s \in {"prepared", "notPrepared"} : stmt' = [stmt EXCEPT !.state = s, !.result = <<>>]
  BY <1>1
<1>3. stmt = [state |-> stmt.state, result |-> stmt.result, ird |-> stmt.ird, job |-> stmt.job]
  BY DEF Shape, StmtShape
<1>4. stmt' = [state |-> s, result |-> <<>>, ird |-> stmt.ird, job |-> stmt.job]
  BY <1>2, <1>3
<1>5. StmtShape'
  BY <1>4 DEF StmtShape
<1>6. StoreShape' /\ RoundShape(pool') /\ RunningShape(pool')
  BY <1>1 DEF Shape, StoreShape
<1>7. Idle' /\ CallShape' /\ BatchShape'
  BY <1>1 DEF Shape, CallShape, Idle, BatchShape, ListsBatches
<1> QED BY <1>5, <1>6, <1>7 DEF Shape

\* What the environment takes from BigQuery or adds to it.
LEMMA EnvironmentStores ==
  ASSUME StoreShape, Environment
  PROVE  \E s : /\ StoreChanges(s)
                /\ s = [open |-> s.open, datasets |-> s.datasets, tables |-> s.tables,
                        routines |-> s.routines]
                /\ s.open \subseteq store.open /\ s.datasets \subseteq store.datasets
                /\ s.tables \subseteq DOMAIN TableInfo /\ s.routines \subseteq store.routines
<1>1. /\ store = [open |-> store.open, datasets |-> store.datasets, tables |-> store.tables,
                  routines |-> store.routines]
      /\ store.tables \subseteq DOMAIN TableInfo
  BY DEF StoreShape
<1>2. ASSUME NEW x \in DOMAIN TableInfo, DropTable(x) \/ CreateTable(x)
      PROVE  \E T : T \subseteq DOMAIN TableInfo /\ StoreChanges([store EXCEPT !.tables = T])
  <2>1. CASE DropTable(x)
    <3>1. StoreChanges([store EXCEPT !.tables = store.tables \ {x}])
      BY <2>1 DEF DropTable
    <3> QED BY <1>1, <3>1
  <2>2. CASE CreateTable(x)
    <3>1. StoreChanges([store EXCEPT !.tables = store.tables \cup {x}])
      BY <2>2 DEF CreateTable
    <3> QED BY <1>1, <3>1
  <2> QED BY <1>2, <2>1, <2>2
<1>3. ASSUME NEW x, DropDataset(x)
      PROVE  \E T : T \subseteq store.datasets /\ StoreChanges([store EXCEPT !.datasets = T])
  <2>1. StoreChanges([store EXCEPT !.datasets = store.datasets \ {x}])
    BY <1>3 DEF DropDataset
  <2> QED BY <2>1
<1>4. ASSUME NEW x, DropRoutine(x)
      PROVE  \E T : T \subseteq store.routines /\ StoreChanges([store EXCEPT !.routines = T])
  <2>1. StoreChanges([store EXCEPT !.routines = store.routines \ {x}])
    BY <1>4 DEF DropRoutine
  <2> QED BY <2>1
<1>5. ASSUME NEW x, RevokeProject(x)
      PROVE  \E T : T \subseteq store.open /\ StoreChanges([store EXCEPT !.open = T])
  <2>1. StoreChanges([store EXCEPT !.open = store.open \ {x}])
    BY <1>5 DEF RevokeProject
  <2> QED BY <2>1
<1>6. \/ \E T : T \subseteq DOMAIN TableInfo /\ StoreChanges([store EXCEPT !.tables = T])
      \/ \E T : T \subseteq store.datasets /\ StoreChanges([store EXCEPT !.datasets = T])
      \/ \E T : T \subseteq store.routines /\ StoreChanges([store EXCEPT !.routines = T])
      \/ \E T : T \subseteq store.open /\ StoreChanges([store EXCEPT !.open = T])
  BY <1>2, <1>3, <1>4, <1>5 DEF Environment
<1>7. \A T :
        /\ [store EXCEPT !.tables = T] =
             [open |-> store.open, datasets |-> store.datasets, tables |-> T,
              routines |-> store.routines]
        /\ [store EXCEPT !.datasets = T] =
             [open |-> store.open, datasets |-> T, tables |-> store.tables,
              routines |-> store.routines]
        /\ [store EXCEPT !.routines = T] =
             [open |-> store.open, datasets |-> store.datasets, tables |-> store.tables,
              routines |-> T]
        /\ [store EXCEPT !.open = T] =
             [open |-> T, datasets |-> store.datasets, tables |-> store.tables,
              routines |-> store.routines]
  BY <1>1
<1>8. \E a, b, t, r :
        /\ StoreChanges([open |-> a, datasets |-> b, tables |-> t, routines |-> r])
        /\ a \subseteq store.open /\ b \subseteq store.datasets
        /\ t \subseteq DOMAIN TableInfo /\ r \subseteq store.routines
  <2>1. CASE \E T : T \subseteq DOMAIN TableInfo /\ StoreChanges([store EXCEPT !.tables = T])
    <3>1. PICK T : T \subseteq DOMAIN TableInfo /\ StoreChanges([store EXCEPT !.tables = T])
      BY <2>1
    <3>2. StoreChanges([open |-> store.open, datasets |-> store.datasets, tables |-> T,
                        routines |-> store.routines])
      BY <1>7, <3>1, Zenon
    <3> QED BY <3>1, <3>2
  <2>2. CASE \E T : T \subseteq store.datasets /\ StoreChanges([store EXCEPT !.datasets = T])
    <3>1. PICK T : T \subseteq store.datasets /\ StoreChanges([store EXCEPT !.datasets = T])
      BY <2>2
    <3>2. StoreChanges([open |-> store.open, datasets |-> T, tables |-> store.tables,
                        routines |-> store.routines])
      BY <1>7, <3>1, Zenon
    <3> QED BY <1>1, <3>1, <3>2
  <2>3. CASE \E T : T \subseteq store.routines /\ StoreChanges([store EXCEPT !.routines = T])
    <3>1. PICK T : T \subseteq store.routines /\ StoreChanges([store EXCEPT !.routines = T])
      BY <2>3
    <3>2. StoreChanges([open |-> store.open, datasets |-> store.datasets,
                        tables |-> store.tables, routines |-> T])
      BY <1>7, <3>1, Zenon
    <3> QED BY <1>1, <3>1, <3>2
  <2>4. CASE \E T : T \subseteq store.open /\ StoreChanges([store EXCEPT !.open = T])
    <3>1. PICK T : T \subseteq store.open /\ StoreChanges([store EXCEPT !.open = T])
      BY <2>4
    <3>2. StoreChanges([open |-> T, datasets |-> store.datasets, tables |-> store.tables,
                        routines |-> store.routines])
      BY <1>7, <3>1, Zenon
    <3> QED BY <1>1, <3>1, <3>2
  <2> QED BY <1>6, <2>1, <2>2, <2>3, <2>4
<1>9. PICK a, b, t, r :
        /\ StoreChanges([open |-> a, datasets |-> b, tables |-> t, routines |-> r])
        /\ a \subseteq store.open /\ b \subseteq store.datasets
        /\ t \subseteq DOMAIN TableInfo /\ r \subseteq store.routines
  BY <1>8
<1> DEFINE s == [open |-> a, datasets |-> b, tables |-> t, routines |-> r]
<1>10. s.open = a /\ s.datasets = b /\ s.tables = t /\ s.routines = r
  OBVIOUS
<1>11. s = [open |-> s.open, datasets |-> s.datasets, tables |-> s.tables, routines |-> s.routines]
  OBVIOUS
<1>12. StoreChanges(s)
  BY <1>9
<1> HIDE DEF s
<1> QED BY <1>9, <1>10, <1>11, <1>12

LEMMA EnvironmentShape ==
  ASSUME Shape, Environment
  PROVE  Shape'
<1>1. PICK s : /\ StoreChanges(s)
               /\ s = [open |-> s.open, datasets |-> s.datasets, tables |-> s.tables,
                       routines |-> s.routines]
               /\ s.open \subseteq store.open /\ s.datasets \subseteq store.datasets
               /\ s.tables \subseteq DOMAIN TableInfo /\ s.routines \subseteq store.routines
  BY EnvironmentStores DEF Shape
<1>2. store' = s /\ ~Idle /\ UNCHANGED <<config, stmt, call, pool, answer>>
  BY <1>1 DEF StoreChanges
<1>3. StoreShape'
  BY <1>1, <1>2 DEF Shape, StoreShape
<1>4. StmtShape' /\ RoundShape(pool') /\ RunningShape(pool')
  BY <1>2 DEF Shape, StmtShape
<1>5. CallShape' /\ BatchShape'
  BY <1>2 DEF Shape, CallShape, Idle, BatchShape, ListsBatches
<1> QED BY <1>3, <1>4, <1>5 DEF Shape

LEMMA ShapeInit ==
  ASSUME Init
  PROVE  Shape
<1>1. StoreShape
  <2>1. FirstTables \subseteq DOMAIN TableInfo
    BY CatalogAssumption
  <2>2. /\ store = [open |-> Range(ProjectSeq),
              datasets |-> {<<x[1], x[2]>> : x \in DOMAIN TableInfo \cup DOMAIN RoutineInfo},
              tables |-> FirstTables, routines |-> DOMAIN RoutineInfo]
    BY DEF Init
  <2> DEFINE D == {<<x[1], x[2]>> : x \in DOMAIN TableInfo \cup DOMAIN RoutineInfo}
  <2> HIDE DEF D
  <2>3. store = [open |-> Range(ProjectSeq), datasets |-> D, tables |-> FirstTables,
                 routines |-> DOMAIN RoutineInfo]
    BY <2>2 DEF D
  <2> QED BY <2>1, <2>3 DEF StoreShape
<1>2. StmtShape
  <2>1. \A f : stmt = [state |-> "notPrepared", result |-> <<>>, ird |-> <<>>, job |-> f] => StmtShape
    BY DEF StmtShape
  <2> QED BY <2>1, Zenon DEF Init
<1>3. RoundShape(pool) /\ RunningShape(pool)
  BY NoRequestsShape DEF Init
<1>4. Idle /\ call = [args |-> CHOOSE c \in Calls : TRUE, stage |-> "idle", projects |-> <<>>]
  BY DEF Init, Idle
<1>5. answer.code = "none" /\ answer.refused \in BOOLEAN
  <2>1. \A f : answer = [code |-> "none", refused |-> f] => answer.code = "none" /\ answer.refused = f
    OBVIOUS
  <2> QED BY <2>1, Zenon DEF Init
<1>6. CallShape
  <2> DEFINE c == CHOOSE c \in Calls : TRUE
  <2> HIDE DEF c
  <2>1. call = [args |-> c, stage |-> "idle", projects |-> <<>>]
    BY <1>4 DEF c
  <2>2. /\ call = [args |-> call.args, stage |-> call.stage, projects |-> call.projects]
        /\ call.stage = "idle"
    BY <2>1
  <2>3. config \in [dsn : Dsns, max_threads : ThreadLimits] /\ pool = NoRequests
    BY DEF Init
  <2> QED BY <1>4, <1>5, <2>2, <2>3 DEF CallShape, Stages
<1>7. BatchShape
  BY <1>4 DEF BatchShape, ListsBatches
<1> QED BY <1>1, <1>2, <1>3, <1>6, <1>7 DEF Shape

LEMMA ShapeNext ==
  ASSUME Shape, Next
  PROVE  Shape'
<1>1. ASSUME NEW c \in Calls, Call(c)
      PROVE  Shape'
  <2>1. stmt.state # "executedWithRs"
    BY <1>1 DEF Call
  <2> QED BY <1>1, <2>1, CallOutcome, GoesShape, EndsShape
<1>2. CASE Advance
  <2>1. stmt.state # "executedWithRs"
    BY <1>2, AdvanceOutcome DEF Shape, CallShape
  <2> QED BY <1>2, <2>1, AdvanceOutcome, GoesShape, EndsShape
<1>3. ASSUME NEW i \in DOMAIN pool.running, Collect(i) \/ Reply(i) \/ ReplyFails(i)
      PROVE  Shape'
  BY <1>3, CollectShape, ReplyShape, ReplyFailsShape
<1> QED BY <1>1, <1>2, <1>3, CloseShape, EnvironmentShape DEF Next, Driver, Server

LEMMA ShapeStutter ==
  ASSUME Shape, UNCHANGED vars
  PROVE  Shape'
  BY DEF vars, Shape, StoreShape, StmtShape, CallShape, BatchShape, ListsBatches, Idle

\* In every state of the driver and of BigQuery the statement, the call, its
\* round of requests and its threads have their shape: the batch of
\* ExecuteParallelTasks holds the answers of its threads, a request is in the
\* hands of one thread at most, and the kinds of the requests are those of
\* the stage at which SQLTables or SQLColumns is.
THEOREM ShapeAlways == Spec => []Shape
<1>1. Init => Shape
  BY ShapeInit
<1>2. Shape /\ [Next]_vars => Shape'
  BY ShapeNext, ShapeStutter
<1> QED BY <1>1, <1>2, PTL DEF Spec

LEMMA ShapeIsTypeOK ==
  ASSUME Shape
  PROVE  TypeOK
<1>1. Idle => RoundOver
  <2> SUFFICES ASSUME Idle PROVE RoundOver
    OBVIOUS
  <2>1. pool = NoRequests
    BY DEF Shape, CallShape
  <2>2. pool.running = <<>> /\ pool.next = 1 /\ Len(pool.inputs) = 0
    BY <2>1, NoRequestsShape
  <2> QED BY <2>2 DEF RoundOver, Starting
<1>2. Len(pool.running) <= pool.threads
  BY DEF Shape, RoundShape
<1> QED BY <1>1, <1>2 DEF TypeOK, Shape, StoreShape, StmtShape, CallShape

\* The type invariant: an idle driver has no request under way, and
\* ExecuteParallelTasks never has more than max_threads of them running.
THEOREM TypeCorrect == Spec => []TypeOK
  BY ShapeAlways, ShapeIsTypeOK, PTL

-----------------------------------------------------------------------------
(* What holds during a call of SQLTables or SQLColumns.                    *)

\* What the driver looks for: an identifier that BigQuery is asked for is taken
\* as it is given.
SoughtAs(arg, name, metadata_id) ==
  IF metadata_id THEN name = arg ELSE FullMatch(name, ToCharStr(arg, "%"), FALSE)

CatalogSought(q, p) ==
  IF q.catalog = NULL THEN p = CurrentCatalog ELSE SoughtAs(q.catalog, p, q.metadata_id)

ProjectSought(q, p) ==
  LET allowed == config.dsn.allowed
      literal == LiteralFromOdbcPattern(ToCharStr(q.catalog, CurrentCatalog), q.metadata_id)
  IN  IF allowed # <<>> /\ literal # NoLiteral
      THEN p \in Range(allowed) /\ ToUpper(p) = ToUpper(literal)
      ELSE CatalogSought(q, p) /\ (allowed = <<>> \/ p \in Range(allowed))

TablesSought(q, x) ==
  /\ ProjectSought(q, x[1]) \/ x[1] \in Range(config.dsn.additional)
  /\ IF UsesDefault(q) THEN x[2] = DefaultDataset ELSE SoughtAs(q.schema, x[2], q.metadata_id)
  /\ FullMatch(x[3], ToCharStr(q.table, "%"), q.metadata_id)
  /\ q.types = {"%"} \/ NormalizeRestTableType(TableInfo[x].type) \in q.types

ColumnsSought(q, x) ==
  /\ CatalogSought(q, x[1])
  /\ FullMatch(x[2], IF UsesDefault(q) THEN DefaultDataset ELSE ToCharStr(q.schema, "%"),
               q.metadata_id)
  /\ FullMatch(x[3], ToCharStr(q.table, "%"), q.metadata_id)

Asked == seen.asked
Args == call.args

\* The arguments are those of the call, and were not refused.
ArgsInv ==
  \/ Idle /\ answer.code = "none" /\ stmt.state # "executedWithRs"
  \/ /\ Asked \in Calls /\ ReadsAs(Asked, Args)
     /\ ~Idle /\ Asked.fn = "tables" => ~NullIdentifier(Asked)
     /\ ~Idle /\ Asked.fn = "columns" => ValidateColumnParameters(Asked, Args)

\* What was visible during the call.
SeenShape ==
  /\ seen = [asked |-> seen.asked, always |-> seen.always, ever |-> seen.ever,
             failed |-> seen.failed, doubtful |-> seen.doubtful]
  /\ seen.failed \in BOOLEAN

Sees ==
  /\ SeenShape
  /\ seen.always \subseteq DOMAIN TableInfo /\ seen.ever \subseteq DOMAIN TableInfo
  /\ ~Idle => seen.always \subseteq Visible(store) /\ Visible(store) \subseteq seen.ever

\* The driver has met the error, or will.
Failing(code) ==
  \/ pool.error = code
  \/ \E i \in 1..Len(pool.running) :
       ~pool.running[i].result.ok /\ pool.running[i].result.code = code

FailInv ==
  ~Idle =>
    /\ seen.failed => \E code \in Codes : Failing(code)
    /\ Args.fn \in TablesFns => \A code \in Codes : Failing(code) => seen.failed
    /\ Args.fn = "columns" =>
         \A code \in Codes : Failing(code) =>
           seen.failed \/ \A x \in seen.always : x[1] # Args.catalog
    /\ call.stage = "validate" => \A code \in Codes : ~Failing(code)

Listing == ~Idle /\ Args.fn \in {"tables", "columns"}

AsksFor(x) == IF Args.fn = "tables" THEN TablesSought(Asked, x) ELSE ColumnsSought(Asked, x)

\* The tables that the call has to find.
Lasting == {x \in seen.always : AsksFor(x) /\ (Args.fn = "tables" => x[1] \notin seen.doubtful)}

ProjectListed(p) ==
  IF Args.fn = "tables" THEN ProjectSought(Asked, p) \/ p \in Range(config.dsn.additional)
  ELSE p = Args.catalog

DatasetAsked(d) ==
  IF Args.fn = "tables"
  THEN IF UsesDefault(Asked) THEN d = DefaultDataset
       ELSE SoughtAs(Asked.schema, d, Asked.metadata_id)
  ELSE FullMatch(d, Args.schema, Args.metadata_id)

\* The request t looks where the table x is.
Aims(t, x) ==
  /\ t.kind = "projects" => ProjectSought(Asked, x[1])
  /\ t.kind \in {"validate", "datasets"} => t.project = x[1]
  /\ t.kind = "tables" => t.project = x[1] /\ t.dataset = x[2]
  /\ t.kind = "table" => <<t.project, t.dataset, t.name>> = x

\* What the request t gave, w, is of the table x.
Shows(t, w, x) ==
  /\ t.kind \in {"projects", "validate"} => w = x[1]
  /\ t.kind = "datasets" => w = <<x[1], x[2]>>
  /\ t.kind = "tables" => IF Args.fn = "tables" THEN <<w[1], w[2], w[3]>> = x ELSE x \in Range(w)
  /\ t.kind = "table" => w = x

\* What the request t gave, w, is asked for and was there.
Sound(t, w) ==
  /\ t.kind = "projects" => ProjectSought(Asked, w)
  /\ t.kind = "validate" => w = t.project
  /\ t.kind = "datasets" => w = <<t.project, w[2]>> /\ DatasetAsked(w[2])
  /\ t.kind = "tables" /\ Args.fn = "tables" =>
       /\ w[1] = t.project /\ w[2] = t.dataset
       /\ <<w[1], w[2], w[3]>> \in seen.ever /\ TablesSought(Asked, <<w[1], w[2], w[3]>>)
  /\ t.kind = "tables" /\ Args.fn = "columns" =>
       /\ IsSeq(w)
       /\ \A i \in 1..Len(w) :
            w[i] = <<t.project, t.dataset, w[i][3]>> /\ ColumnsSought(Asked, w[i])
       /\ \A i, j \in 1..Len(w) : i < j => Precedes(TableSeq, w[i][3], w[j][3])
  /\ t.kind = "table" => w = <<t.project, t.dataset, t.name>> /\ w \in seen.ever

\* The order of two values of one answer.
InTurn(t, v, w) ==
  CASE t.kind = "projects" -> Precedes(ProjectSeq, v, w)
    [] t.kind = "datasets" -> Precedes(DatasetSeq, v[2], w[2])
    [] t.kind = "tables" /\ Args.fn = "tables" -> Precedes(TableSeq, v[3], w[3])
    [] OTHER -> FALSE

Right(t, given) ==
  /\ \A w \in given : Sound(t, w)
  /\ \A x \in Lasting : Aims(t, x) => \E w \in given : Shows(t, w, x)

\* The request looks where the call asks to look.
Fitting(t) ==
  /\ t.kind = "validate" => t.project \in Range(config.dsn.additional)
  /\ t.kind \in {"datasets", "tables", "table"} => ProjectListed(t.project)
  /\ t.kind \in {"tables", "table"} => DatasetAsked(t.dataset)
  /\ t.kind = "table" => ColumnsSought(Asked, <<t.project, t.dataset, t.name>>)
  /\ t.kind = "projects" =>
       /\ config.dsn.allowed = <<>>
       /\ LiteralFromOdbcPattern(Args.catalog, Args.metadata_id) = NoLiteral
  /\ t.kind = "datasets" /\ Args.fn = "tables" =>
       LiteralFromOdbcPattern(Args.schema, Args.metadata_id) = NoLiteral
  /\ t.kind = "validate" => t = Task("validate", t.project, "", "")
  /\ t.kind = "datasets" => t = Task("datasets", t.project, "", "")
  /\ t.kind = "tables" => t = Task("tables", t.project, t.dataset, "")
  /\ t.kind = "table" => t = Task("table", t.project, t.dataset, t.name)

\* A request of the round looks where the table x is, or its project is known.
Covered(x) ==
  \/ \E k \in 1..Len(pool.inputs) : Aims(pool.inputs[k], x)
  \/ call.stage = "projects" /\ x[1] \in Range(config.dsn.additional)
  \/ call.stage = "validate" /\ x[1] \in Range(call.projects)

InputsInv == Listing =>
  /\ Distinct(pool.inputs)
  /\ \A k \in 1..Len(pool.inputs) : Fitting(pool.inputs[k])
  /\ \A x \in Lasting : Covered(x)
  /\ call.stage = "projects" => Len(pool.inputs) = 1
  /\ call.stage = "validate" =>
       /\ Distinct(call.projects)
       /\ \A p \in Range(call.projects) : ProjectSought(Asked, p)
       /\ \A k \in 1..Len(pool.inputs) : pool.inputs[k].project \notin Range(call.projects)

DoneAt(k) == {pool.done[j].what : j \in {j \in 1..Len(pool.done) : pool.done[j].at = k}}
IsRunning(k) == \E i \in 1..Len(pool.running) : pool.running[i].at = k

\* What a request gave is right, and in the order of BigQuery's lists.
Answers(t, r) ==
  r.ready /\ r.result.ok =>
    /\ Right(t, Range(r.result.value))
    /\ \A a, b \in 1..Len(r.result.value) :
         a < b => InTurn(t, r.result.value[a], r.result.value[b])

AnswersInv == Listing =>
  /\ \A i \in 1..Len(pool.running) : Answers(pool.inputs[pool.running[i].at], pool.running[i])
  /\ \A j \in 1..Len(pool.done) :
       pool.done[j].at \in 1..(pool.next - 1) /\ ~IsRunning(pool.done[j].at)
  /\ \A i, j \in 1..Len(pool.done) :
       i < j /\ pool.done[i].at = pool.done[j].at =>
         InTurn(pool.inputs[pool.done[i].at], pool.done[i].what, pool.done[j].what)
  /\ pool.error = "none" =>
       \A k \in 1..(pool.next - 1) : ~IsRunning(k) => Right(pool.inputs[k], DoneAt(k))

\* SQLColumns asks in the order of BigQuery's lists.
ColumnOrderInv == Listing /\ Args.fn = "columns" =>
  /\ call.stage = "datasets" => Len(pool.inputs) = 1
  /\ \A k, l \in 1..Len(pool.inputs) :
       k < l => LET s == pool.inputs[k]
                    t == pool.inputs[l]
                IN  \/ Precedes(DatasetSeq, s.dataset, t.dataset)
                    \/ /\ call.stage = "table" /\ s.dataset = t.dataset
                       /\ Precedes(TableSeq, s.name, t.name)

-----------------------------------------------------------------------------
(* What the steps leave alone.                                             *)

LEMMA GoesFields ==
  ASSUME Shape, NEW c, GoesOn(c)
  PROVE  call'.args = c /\ UNCHANGED <<store, config, stmt, answer>>
<1>1. PICK stage, projects, n, tasks : Round(c, stage, projects, n, tasks)
  BY DEF GoesOn, Goes
<1>2. call' = [call EXCEPT !.args = c, !.stage = stage, !.projects = projects]
      /\ UNCHANGED <<store, config, stmt, answer>>
  BY <1>1 DEF Round
<1>3. call = [args |-> call.args, stage |-> call.stage, projects |-> call.projects]
  BY DEF Shape, CallShape
<1>4. call' = [args |-> c, stage |-> stage, projects |-> projects]
  BY <1>2, <1>3
<1> QED BY <1>2, <1>4

LEMMA EndsFields ==
  ASSUME Shape, NEW c, Ends(c)
  PROVE  call'.args = c /\ UNCHANGED <<store, config>>
<1>1. call' = [call EXCEPT !.args = c, !.stage = "idle"] /\ UNCHANGED <<store, config>>
  BY DEF Ends, ReturnRows, ReturnError, Ended
<1>2. call = [args |-> call.args, stage |-> call.stage, projects |-> call.projects]
  BY DEF Shape, CallShape
<1>3. call' = [args |-> c, stage |-> "idle", projects |-> call.projects]
  BY <1>1, <1>2
<1> QED BY <1>1, <1>3

LEMMA AdvanceFields ==
  ASSUME Shape, Advance
  PROVE  call'.args = call.args /\ UNCHANGED <<store, config, seen>> /\ ~Idle
<1>1. ~Idle /\ (GoesOn(call.args) \/ Ends(call.args))
  BY AdvanceOutcome
<1> QED BY <1>1, GoesFields, EndsFields DEF Advance

\* What a call shows of itself at once.
LEMMA SeenFailed ==
  ASSUME SeenShape, NEW t
  PROVE  LET s == [seen EXCEPT !.failed = t]
         IN  /\ s = [asked |-> seen.asked, always |-> seen.always, ever |-> seen.ever,
                     failed |-> t, doubtful |-> seen.doubtful]
             /\ s.asked = seen.asked /\ s.always = seen.always /\ s.ever = seen.ever
             /\ s.doubtful = seen.doubtful /\ s.failed = t
<1> DEFINE s == [seen EXCEPT !.failed = t]
<1>1. s = [asked |-> seen.asked, always |-> seen.always, ever |-> seen.ever,
           failed |-> t, doubtful |-> seen.doubtful]
  BY DEF SeenShape
<1> HIDE DEF s
<1>2. /\ s.asked = seen.asked /\ s.always = seen.always /\ s.ever = seen.ever
      /\ s.doubtful = seen.doubtful /\ s.failed = t
  BY <1>1
<1> QED BY <1>1, <1>2 DEF s

LEMMA RespondSeen ==
  ASSUME SeenShape, NEW i, NEW given, Respond(i, given)
  PROVE  /\ SeenShape' /\ seen'.asked = seen.asked
         /\ seen'.always = seen.always /\ seen'.ever = seen.ever
         /\ seen.doubtful \subseteq seen'.doubtful
         /\ Request(i).kind = "validate" /\ ~given.ok =>
              seen'.failed = seen.failed /\ Request(i).project \in seen'.doubtful
         /\ ~(Request(i).kind = "validate" /\ ~given.ok) =>
              seen'.failed = (seen.failed \/ given.code = "other")
<1>1. CASE Request(i).kind = "validate" /\ ~given.ok
  <2>1. seen' = [seen EXCEPT !.doubtful = seen.doubtful \cup {Request(i).project}]
    BY <1>1 DEF Respond
  <2>2. seen' = [asked |-> seen.asked, always |-> seen.always, ever |-> seen.ever,
                 failed |-> seen.failed, doubtful |-> seen.doubtful \cup {Request(i).project}]
    BY <2>1 DEF SeenShape
  <2>3. /\ seen'.asked = seen.asked /\ seen'.always = seen.always /\ seen'.ever = seen.ever
        /\ seen'.failed = seen.failed /\ seen'.doubtful = seen.doubtful \cup {Request(i).project}
    BY <2>2
  <2> QED BY <1>1, <2>2, <2>3 DEF SeenShape
<1>2. CASE ~(Request(i).kind = "validate" /\ ~given.ok)
  <2> DEFINE b == (seen.failed \/ given.code = "other")
  <2>1. seen' = [seen EXCEPT !.failed = b]
    BY <1>2 DEF Respond
  <2>2. b \in BOOLEAN
    OBVIOUS
  <2>3. \A t : LET s == [seen EXCEPT !.failed = t]
         IN  /\ s = [asked |-> seen.asked, always |-> seen.always, ever |-> seen.ever,
                     failed |-> t, doubtful |-> seen.doubtful]
             /\ s.asked = seen.asked /\ s.always = seen.always /\ s.ever = seen.ever
             /\ s.doubtful = seen.doubtful /\ s.failed = t
    BY SeenFailed
  <2>6. b = (seen.failed \/ given.code = "other")
    OBVIOUS
  <2> HIDE DEF b
  <2>4. /\ seen' = [asked |-> seen.asked, always |-> seen.always, ever |-> seen.ever,
                    failed |-> b, doubtful |-> seen.doubtful]
        /\ seen'.asked = seen.asked /\ seen'.always = seen.always /\ seen'.ever = seen.ever
        /\ seen'.doubtful = seen.doubtful /\ seen'.failed = b
    BY <2>1, <2>3, Zenon
  <2>5. SeenShape'
    BY <2>2, <2>4, Zenon DEF SeenShape
  <2> QED BY <1>2, <2>4, <2>5, <2>6, Zenon
<1> QED BY <1>1, <1>2

LEMMA StoreSeen ==
  ASSUME SeenShape, NEW s, StoreChanges(s)
  PROVE  /\ SeenShape' /\ seen'.asked = seen.asked
         /\ seen'.always = seen.always \cap Visible(s) /\ seen'.ever = seen.ever \cup Visible(s)
         /\ seen'.failed = seen.failed /\ seen'.doubtful = seen.doubtful
         /\ store' = s /\ UNCHANGED <<config, stmt, call, pool, answer>> /\ ~Idle
<1> DEFINE a == seen.always \cap Visible(s)
           e == seen.ever \cup Visible(s)
<1>1. seen' = [seen EXCEPT !.always = a, !.ever = e]
  BY DEF StoreChanges
<1> HIDE DEF a, e
<1>2. seen' = [asked |-> seen.asked, always |-> a, ever |-> e,
               failed |-> seen.failed, doubtful |-> seen.doubtful]
  BY <1>1 DEF SeenShape
<1>3. /\ seen'.asked = seen.asked /\ seen'.always = a /\ seen'.ever = e
      /\ seen'.failed = seen.failed /\ seen'.doubtful = seen.doubtful
  BY <1>2
<1>4. SeenShape'
  BY <1>2, <1>3 DEF SeenShape
<1>5. store' = s /\ UNCHANGED <<config, stmt, call, pool, answer>> /\ ~Idle
  BY DEF StoreChanges
<1> QED BY <1>3, <1>4, <1>5 DEF a, e

LEMMA CallSeen ==
  ASSUME NEW c, Call(c)
  PROVE  /\ SeenShape' /\ seen'.asked = c /\ seen'.always = Visible(store)
         /\ seen'.ever = Visible(store) /\ seen'.failed = FALSE /\ seen'.doubtful = {}
<1> DEFINE v == Visible(store)
<1>0. seen' = [asked |-> c, always |-> v, ever |-> v, failed |-> FALSE, doubtful |-> {}]
  BY DEF Call
<1> HIDE DEF v
<1>1. \A t \in BOOLEAN :
        seen' = [asked |-> c, always |-> v, ever |-> v, failed |-> t, doubtful |-> {}] =>
         /\ SeenShape' /\ seen'.asked = c /\ seen'.always = v
         /\ seen'.ever = v /\ seen'.failed = t /\ seen'.doubtful = {}
  <2> SUFFICES ASSUME NEW t \in BOOLEAN,
                 seen' = [asked |-> c, always |-> v, ever |-> v, failed |-> t, doubtful |-> {}]
               PROVE  /\ SeenShape' /\ seen'.asked = c /\ seen'.always = v
                      /\ seen'.ever = v /\ seen'.failed = t /\ seen'.doubtful = {}
    OBVIOUS
  <2>1. /\ seen'.asked = c /\ seen'.always = v
        /\ seen'.ever = v /\ seen'.failed = t /\ seen'.doubtful = {}
    OBVIOUS
  <2> QED BY <2>1 DEF SeenShape
<1>2. FALSE \in BOOLEAN
  OBVIOUS
<1>3. /\ SeenShape' /\ seen'.asked = c /\ seen'.always = v
      /\ seen'.ever = v /\ seen'.failed = FALSE /\ seen'.doubtful = {}
  BY <1>0, <1>1, <1>2, Zenon
<1> QED BY <1>3 DEF v

-----------------------------------------------------------------------------
LEMMA ArgsOfCall ==
  ASSUME Shape, NEW c \in Calls, Call(c)
  PROVE  ArgsInv'
<1>1. PICK a : ReadsAs(c, a) /\ (GoesOn(a) \/ Ends(a))
  BY CallOutcome
<1>2. call'.args = a /\ seen'.asked = c
  BY <1>1, GoesFields, EndsFields, CallSeen
<1>3. ReadsAs(c, a)'
  BY <1>1, <1>2, GoesFields, EndsFields DEF ReadsAs, TablesArgs, ColumnsArgs, DefaultDataset
<1>4. ASSUME NullIdentifier(c), c.fn = "tables"
      PROVE  Idle'
  <2>1. SQLTables(c)
    BY <1>4 DEF Call, SQLColumns, SQLProcedures, SQLPrimaryKeys, SQLForeignKeys, SQLStatistics,
                SQLSpecialColumns, SQLGetTypeInfo
  <2>2. ReturnError(TablesArgs(c), TRUE)
    BY <1>4, <2>1 DEF SQLTables
  <2>3. Ends(TablesArgs(c))
    BY <2>2 DEF Ends
  <2> QED BY <2>3, EndsShape
<1>5. ASSUME ~ValidateColumnParameters(c, ColumnsArgs(c)), c.fn = "columns"
      PROVE  Idle'
  <2>1. SQLColumns(c)
    BY <1>5 DEF Call, SQLTables, SQLProcedures, SQLPrimaryKeys, SQLForeignKeys, SQLStatistics,
                SQLSpecialColumns, SQLGetTypeInfo
  <2>2. ReturnError(ColumnsArgs(c), TRUE)
    BY <1>5, <2>1 DEF SQLColumns
  <2>3. Ends(ColumnsArgs(c))
    BY <2>2 DEF Ends
  <2> QED BY <2>3, EndsShape
<1>6. c.fn = "columns" => a = ColumnsArgs(c)
  BY <1>1 DEF ReadsAs
<1>7. ReadsAs(c, a)' <=> ReadsAs(Asked, Args)'
  BY <1>2 DEF Asked, Args
<1>8. Asked' = c /\ Args' = a
  BY <1>2 DEF Asked, Args
<1> QED BY <1>3, <1>4, <1>5, <1>6, <1>8 DEF ArgsInv

\* The same call goes on.
Same == UNCHANGED config /\ Args' = Args /\ Asked' = Asked

LEMMA ArgsOfRest ==
  ASSUME ArgsInv, Same, ~Idle
  PROVE  ArgsInv'
<1>1. Asked \in Calls /\ ReadsAs(Asked, Args)
      /\ (Asked.fn = "tables" => ~NullIdentifier(Asked))
      /\ (Asked.fn = "columns" => ValidateColumnParameters(Asked, Args))
  BY DEF ArgsInv
<1>2. ReadsAs(Asked, Args)'
  BY <1>1 DEF Same, ReadsAs, TablesArgs, ColumnsArgs, DefaultDataset
<1>3. Asked' = Asked /\ Args' = Args
  BY DEF Same
<1> QED BY <1>1, <1>2, <1>3 DEF ArgsInv

LEMMA SameSteps ==
  ASSUME Shape, Sees,
         \/ Advance \/ Environment
         \/ \E i \in DOMAIN pool.running : Collect(i) \/ Reply(i) \/ ReplyFails(i)
  PROVE  Same /\ ~Idle
<1>1. CASE Advance
  BY <1>1, AdvanceFields DEF Same, Asked, Args
<1>2. CASE Environment
  <2>1. PICK s : StoreChanges(s)
    BY <1>2, EnvironmentStores DEF Shape
  <2> QED BY <2>1, StoreSeen DEF Same, Asked, Args, Sees
<1>3. ASSUME NEW i \in DOMAIN pool.running, Collect(i) \/ Reply(i) \/ ReplyFails(i)
      PROVE  Same /\ ~Idle
  <2>1. ~Idle
    BY RequestKind
  <2>2. CASE Collect(i)
    BY <2>1, <2>2 DEF Collect, Same, Asked, Args
  <2>3. ASSUME NEW given, Respond(i, given)
        PROVE  Same
    <3>1. seen'.asked = seen.asked
      BY <2>3, RespondSeen DEF Sees
    <3>2. UNCHANGED <<config, call>>
      BY <2>3 DEF Respond
    <3> QED BY <3>1, <3>2 DEF Same, Asked, Args
  <2> QED BY <1>3, <2>1, <2>2, <2>3 DEF Reply, ReplyFails
<1> QED BY <1>1, <1>2, <1>3

\* Of an idle driver only the cursor and the next call move.
LEMMA NextSteps ==
  ASSUME Next
  PROVE  \/ \E c \in Calls : Call(c)
         \/ CloseCursor \/ Advance \/ Environment
         \/ \E i \in DOMAIN pool.running : Collect(i) \/ Reply(i) \/ ReplyFails(i)
  BY DEF Next, Driver, Server

LEMMA ClosesOnly ==
  ASSUME CloseCursor, Shape
  PROVE  /\ Idle /\ Idle' /\ stmt'.state # "executedWithRs"
         /\ UNCHANGED <<store, config, call, pool, answer, seen>>
<1>1. /\ Idle /\ UNCHANGED <<store, config, call, pool, answer, seen>>
      /\ stmt' = [stmt EXCEPT !.state = IF stmt.job THEN "prepared" ELSE "notPrepared",
                              !.result = <<>>]
  BY DEF CloseCursor
<1>2. PICK s \in {"prepared", "notPrepared"} : stmt' = [stmt EXCEPT !.state = s, !.result = <<>>]
  BY <1>1
<1>3. stmt = [state |-> stmt.state, result |-> stmt.result, ird |-> stmt.ird, job |-> stmt.job]
  BY DEF Shape, StmtShape
<1>4. stmt' = [state |-> s, result |-> <<>>, ird |-> stmt.ird, job |-> stmt.job]
  BY <1>2, <1>3
<1> QED BY <1>1, <1>4 DEF Idle

LEMMA ArgsNext ==
  ASSUME Shape, Sees, ArgsInv, Next
  PROVE  ArgsInv'
<1>1. ASSUME NEW c \in Calls, Call(c)
      PROVE  ArgsInv'
  BY <1>1, ArgsOfCall
<1>2. CASE CloseCursor
  <2>1. /\ Idle /\ Idle' /\ stmt'.state # "executedWithRs"
        /\ UNCHANGED <<store, config, call, pool, answer, seen>>
    BY <1>2, ClosesOnly
  <2>2. CASE answer.code = "none"
    BY <2>1, <2>2 DEF ArgsInv
  <2>3. CASE Asked \in Calls /\ ReadsAs(Asked, Args)
    <3>1. ReadsAs(Asked, Args)'
      BY <2>1, <2>3 DEF ReadsAs, TablesArgs, ColumnsArgs, DefaultDataset, Asked, Args
    <3>2. Asked' = Asked
      BY <2>1 DEF Asked
    <3> QED BY <2>1, <2>3, <3>1, <3>2 DEF ArgsInv
  <2> QED BY <2>2, <2>3 DEF ArgsInv
<1>3. CASE \/ Advance \/ Environment
           \/ \E i \in DOMAIN pool.running : Collect(i) \/ Reply(i) \/ ReplyFails(i)
  BY <1>3, SameSteps, ArgsOfRest
<1> QED BY <1>1, <1>2, <1>3, NextSteps

LEMMA SeesNext ==
  ASSUME Shape, Sees, Next
  PROVE  Sees'
<1>0. \A s : s.tables \subseteq DOMAIN TableInfo => Visible(s) \subseteq DOMAIN TableInfo
  BY DEF Visible
<1>9. store.tables \subseteq DOMAIN TableInfo
  BY DEF Shape, StoreShape
<1>1. ASSUME NEW c \in Calls, Call(c)
      PROVE  Sees'
  <2>1. PICK a : GoesOn(a) \/ Ends(a)
    BY <1>1, CallOutcome
  <2>2. store' = store
    BY <2>1, GoesFields, EndsFields
  <2>3. /\ SeenShape' /\ seen'.always = Visible(store) /\ seen'.ever = Visible(store)
    BY <1>1, CallSeen
  <2> QED BY <1>0, <1>9, <2>2, <2>3 DEF Sees
<1>2. CASE CloseCursor
  BY <1>2, ClosesOnly DEF Sees, SeenShape
<1>3. CASE Advance
  <2>1. UNCHANGED <<store, seen>> /\ ~Idle
    BY <1>3, AdvanceFields
  <2> QED BY <2>1 DEF Sees, SeenShape
<1>4. CASE Environment
  <2>1. PICK s : StoreChanges(s) /\ s.tables \subseteq DOMAIN TableInfo
    BY <1>4, EnvironmentStores DEF Shape
  <2>2. /\ SeenShape' /\ store' = s /\ ~Idle
        /\ seen'.always = seen.always \cap Visible(s) /\ seen'.ever = seen.ever \cup Visible(s)
    BY <2>1, StoreSeen DEF Sees
  <2> QED BY <1>0, <2>1, <2>2 DEF Sees
<1>5. ASSUME NEW i \in DOMAIN pool.running, Collect(i) \/ Reply(i) \/ ReplyFails(i)
      PROVE  Sees'
  <2>1. ~Idle
    BY RequestKind
  <2>2. CASE Collect(i)
    BY <2>1, <2>2 DEF Collect, Sees, SeenShape
  <2>3. ASSUME NEW given, Respond(i, given)
        PROVE  Sees'
    <3>1. SeenShape' /\ seen'.always = seen.always /\ seen'.ever = seen.ever
      BY <2>3, RespondSeen DEF Sees
    <3>2. store' = store
      BY <2>3 DEF Respond
    <3> QED BY <2>1, <3>1, <3>2 DEF Sees
  <2> QED BY <1>5, <2>2, <2>3 DEF Reply, ReplyFails
<1> QED BY <1>1, <1>2, <1>3, <1>4, <1>5, NextSteps

-----------------------------------------------------------------------------
(* Errors.                                                                 *)

LEMMA FreshRound ==
  ASSUME Shape, NEW c, GoesOn(c)
  PROVE  /\ pool'.error = "none" /\ pool'.done = <<>>
         /\ \A i \in 1..Len(pool'.running) :
              pool'.running[i].ready = FALSE /\ pool'.running[i].result = Ok(<<>>)
         /\ \A k \in 1..(pool'.next - 1) : \E i \in 1..Len(pool'.running) : pool'.running[i].at = k
<1>1. PICK stage, projects, n, tasks : Goes(c, stage, projects, n, tasks)
  BY DEF GoesOn
<1>2. n \in Nat /\ IsSeq(tasks) /\ pool' = ExecuteParallelTasks(n, tasks)
  BY <1>1 DEF Goes, Round
<1>3. /\ pool'.error = "none" /\ pool'.done = <<>>
      /\ \A i \in 1..Len(pool'.running) : pool'.running[i] = Start(pool'.running[i].at)
      /\ \A k \in 1..(pool'.next - 1) : \E i \in 1..Len(pool'.running) : pool'.running[i].at = k
  BY <1>2, RoundBegins
<1>4. \A i \in 1..Len(pool'.running) :
        pool'.running[i].ready = FALSE /\ pool'.running[i].result = Ok(<<>>)
  BY <1>3, StartFields
<1> QED BY <1>3, <1>4

LEMMA RoundHasNoErrors ==
  ASSUME Shape, NEW c, GoesOn(c)
  PROVE  \A code \in Codes : ~Failing(code)'
<1>1. /\ pool'.error = "none"
      /\ \A i \in 1..Len(pool'.running) : pool'.running[i].result = Ok(<<>>)
  BY FreshRound
<1>2. \A i \in 1..Len(pool'.running) : pool'.running[i].result.ok = TRUE
  BY <1>1, StartFields
<1> QED BY <1>1, <1>2 DEF Failing, Codes

\* A round that is over without an error had none.
LEMMA OverWithoutError ==
  ASSUME RoundOver, pool.error = "none"
  PROVE  \A code \in Codes : ~Failing(code)
<1>1. pool.running = <<>>
  BY DEF RoundOver
<1>2. 1..Len(pool.running) = {}
  BY <1>1
<1> QED BY <1>2 DEF Failing, Codes

LEMMA AdvanceFrom ==
  ASSUME Advance
  PROVE  \/ RoundOver /\ pool.error = "none"
         \/ RoundOver /\ ProjectsValidated
         \/ RequestsFailed
  BY DEF Advance, ProjectsListed, ProjectsValidated, DatasetsListed, TablesListed,
         ColumnTablesListed, TablesRead, RoutinesRead, KeysRead

LEMMA AdvanceWithoutError ==
  ASSUME Shape, FailInv, Advance
  PROVE  RequestsFailed \/ ~seen.failed
<1>1. ~Idle
  BY AdvanceFields
<1>2. CASE RoundOver /\ pool.error = "none"
  BY <1>1, <1>2, OverWithoutError DEF FailInv
<1>3. CASE ProjectsValidated
  <2>1. call.stage = "validate"
    BY <1>3 DEF ProjectsValidated
  <2> QED BY <1>1, <2>1 DEF FailInv
<1> QED BY <1>2, <1>3, AdvanceFrom

\* A request that fails without being excused.
LEMMA Unexcused ==
  ASSUME NEW t, t.kind \in AllKinds, NEW c,
         NEW g, g = Answered(t) \/ g = Error("other"), ~TaskResult(c, t, g).ok
  PROVE  /\ TaskResult(c, t, g) = g /\ t.kind # "validate"
         /\ \/ g = Error("other")
            \/ /\ t.kind \notin {"projects", "datasets", "tables", "routines"}
               /\ t.kind = "table" /\ c.fn = "columns" => t.project \notin store.open
<1>1. GivenShape(g) /\ IsSeq(g.value)
  BY AnsweredShape, OkShape DEF Codes
<1>2. TaskResult(c, t, g) = g /\ ~g.ok /\ g.code \notin Tolerated(c, t.kind)
  <2>1. CASE g.ok
    <3>1. \E k : TaskResult(c, t, g) = Ok(k)
      BY <2>1 DEF TaskResult
    <3> QED BY <3>1, OkShape
  <2>2. CASE ~g.ok /\ g.code \in Tolerated(c, t.kind)
    <3>1. TaskResult(c, t, g) = Ok(<<>>)
      BY <2>2 DEF TaskResult
    <3> QED BY <3>1, OkShape
  <2>3. CASE ~g.ok /\ g.code \notin Tolerated(c, t.kind)
    <3>1. TaskResult(c, t, g) = g
      BY <2>3 DEF TaskResult
    <3> QED BY <2>3, <3>1
  <2> QED BY <2>1, <2>2, <2>3
<1>3. g.code \in Codes
  BY <1>1, <1>2 DEF GivenShape
<1>4. t.kind # "validate"
  BY <1>2, <1>3 DEF Tolerated, Codes
<1>5. CASE g = Answered(t)
  <2>1. \/ g = Error("403") /\ t.project \notin store.open
        \/ g = Error("404")
        \/ \E v : g = Ok(v)
    BY <1>5, AnsweredKinds
  <2>2. \A v : Ok(v).ok = TRUE
    BY OkShape
  <2>3. \/ g.code = "403" /\ t.project \notin store.open
        \/ g.code = "404"
    BY <1>2, <2>1, <2>2, OkShape
  <2>4. t.kind \notin {"datasets", "tables", "routines"}
    BY <1>2, <2>3 DEF Tolerated
  <2>5. t.kind # "projects"
    <3> SUFFICES ASSUME t.kind = "projects" PROVE FALSE
      OBVIOUS
    <3>1. Answered(t) = Ok(Selected(ProjectSeq, store.open))
      BY AnsweredKinds
    <3> QED BY <1>2, <1>5, <2>2, <3>1
  <2>6. t.kind = "table" /\ c.fn = "columns" => "404" \in Tolerated(c, t.kind)
    BY DEF Tolerated
  <2> QED BY <1>2, <1>4, <2>3, <2>4, <2>5, <2>6
<1> QED BY <1>2, <1>4, <1>5

LEMMA RespondFailing ==
  ASSUME Shape, NEW i \in DOMAIN pool.running, NEW given, Respond(i, given), GivenShape(given),
         IsSeq(given.value)
  PROVE  LET r == TaskResult(Args, Request(i), given) IN
         \A code \in Codes :
           /\ Failing(code) => Failing(code)'
           /\ Failing(code)' => Failing(code) \/ (~r.ok /\ r.code = code)
           /\ ~r.ok /\ r.code = code => Failing(code)'
<1> DEFINE r == TaskResult(Args, Request(i), given)
<1>1. /\ pool'.error = pool.error
      /\ IsSeq(pool'.running) /\ Len(pool'.running) = Len(pool.running)
      /\ \A j \in 1..Len(pool.running) : j # i => pool'.running[j] = pool.running[j]
      /\ pool'.running[i] = [at |-> pool.running[i].at, ready |-> TRUE, result |-> r]
  BY RespondPool DEF Args
<1>2. i \in 1..Len(pool.running) /\ Underway(pool, pool.running[i]) /\ ~pool.running[i].ready
  BY RequestKind DEF Respond
<1> HIDE DEF r
<1>3. pool'.running[i].result = r
  BY <1>1
<1>4. pool.running[i].result.ok = TRUE
  BY <1>2, StartFields DEF Underway
<1> SUFFICES ASSUME NEW code \in Codes
             PROVE  /\ Failing(code) => Failing(code)'
                    /\ Failing(code)' => Failing(code) \/ (~r.ok /\ r.code = code)
                    /\ ~r.ok /\ r.code = code => Failing(code)'
  BY DEF r
<1>5. ASSUME Failing(code)
      PROVE  Failing(code)'
  <2>1. CASE pool.error = code
    BY <1>1, <2>1 DEF Failing
  <2>2. CASE pool.error # code
    <3>1. PICK j \in 1..Len(pool.running) :
            ~pool.running[j].result.ok /\ pool.running[j].result.code = code
      BY <1>5, <2>2 DEF Failing
    <3>2. j # i
      BY <1>4, <3>1
    <3> QED BY <1>1, <3>1, <3>2 DEF Failing
  <2> QED BY <2>1, <2>2
<1>6. ASSUME Failing(code)'
      PROVE  Failing(code) \/ (~r.ok /\ r.code = code)
  <2>1. CASE pool'.error = code
    BY <1>1, <2>1 DEF Failing
  <2>2. CASE pool'.error # code
    <3>1. PICK j \in 1..Len(pool'.running) :
            ~pool'.running[j].result.ok /\ pool'.running[j].result.code = code
      BY <1>6, <2>2 DEF Failing
    <3>2. CASE j = i
      BY <1>3, <3>1, <3>2
    <3>3. CASE j # i
      BY <1>1, <3>1, <3>3 DEF Failing
    <3> QED BY <3>2, <3>3
  <2> QED BY <2>1, <2>2
<1>7. ~r.ok /\ r.code = code => Failing(code)'
  BY <1>1, <1>2, <1>3 DEF Failing
<1> QED BY <1>5, <1>6, <1>7

LEMMA CollectFailing ==
  ASSUME Shape, NEW i \in DOMAIN pool.running, Collect(i)
  PROVE  /\ \A code \in Codes : Failing(code)' => Failing(code)
         /\ (\E code \in Codes : Failing(code)) => \E code \in Codes : Failing(code)'
<1>1. PICK m : Takes(i, m) /\ pool' \in {m, Filled(m)}
  BY TakesSome
<1>2. /\ RoundShape(m) /\ RunningShape(m) /\ IsSeq(Rest(i)) /\ m.running = Rest(i)
  BY <1>1, TakesShape DEF Takes
<1>3. Starts(m, m)
  <2>1. Len(m.running) \in Nat /\ m.next \in Nat
    BY <1>2, SeqShape DEF RoundShape
  <2> QED BY <2>1 DEF Starts
<1>4. RoundShape(pool') /\ Starts(m, pool')
  BY <1>1, <1>2, <1>3, FilledShape
<1> DEFINE r == pool.running[i]
<1>5. /\ i \in 1..Len(pool.running) /\ Underway(pool, r) /\ IsSeq(pool.running)
      /\ pool.error \in Codes \cup {"none"}
  BY RequestKind DEF Shape, RoundShape
<1>6. /\ \A k \in 1..Len(Rest(i)) :
           /\ Back(i, k) \in 1..Len(pool.running) /\ Rest(i)[k] = pool.running[Back(i, k)]
      /\ \A j \in 1..Len(pool.running) : j # i => \E k \in 1..Len(Rest(i)) : Rest(i)[k] = pool.running[j]
  <2> DEFINE s == pool.running
  <2>1. IsSeq(s) /\ i \in 1..Len(s)
    BY <1>5
  <2> HIDE DEF s
  <2>2. /\ \A k \in 1..Len(RemoveAt(s, i)) :
              /\ Back(i, k) \in 1..Len(s) /\ RemoveAt(s, i)[k] = s[Back(i, k)]
        /\ \A j \in 1..Len(s) : j # i => \E k \in 1..Len(RemoveAt(s, i)) : Back(i, k) = j
    BY <2>1, RestOf
  <2>3. \A j \in 1..Len(s) : j # i => \E k \in 1..Len(RemoveAt(s, i)) : RemoveAt(s, i)[k] = s[j]
    <3> SUFFICES ASSUME NEW j \in 1..Len(s), j # i
                 PROVE  \E k \in 1..Len(RemoveAt(s, i)) : RemoveAt(s, i)[k] = s[j]
      OBVIOUS
    <3>1. PICK k \in 1..Len(RemoveAt(s, i)) : Back(i, k) = j
      BY <2>2
    <3>2. RemoveAt(s, i)[k] = s[Back(i, k)]
      BY <2>2
    <3> QED BY <3>1, <3>2
  <2> QED BY <2>2, <2>3 DEF Rest, s
<1>7. \A code \in Codes : pool'.error = code =>
        pool.error = code \/ (~r.result.ok /\ r.result.code = code)
  <2>1. m.error = pool.error \/ (~r.result.ok /\ m.error = r.result.code)
    BY <1>1 DEF Takes
  <2>2. pool'.error = m.error
    BY <1>4 DEF Starts
  <2> QED BY <2>1, <2>2
<1>8. Len(m.running) \in Nat /\ Len(pool'.running) \in Nat /\ Len(m.running) <= Len(pool'.running)
  BY <1>2, <1>4, SeqShape DEF RoundShape, Starts
<1>9. ASSUME NEW code \in Codes, Failing(code)'
      PROVE  Failing(code)
  <2>1. CASE pool'.error = code
    BY <1>5, <1>7, <2>1 DEF Failing
  <2>2. CASE pool'.error # code
    <3>1. PICK j \in 1..Len(pool'.running) :
            ~pool'.running[j].result.ok /\ pool'.running[j].result.code = code
      BY <1>9, <2>2 DEF Failing
    <3>2. CASE j <= Len(m.running)
      <4>1. j \in 1..Len(m.running)
        BY <1>8, <3>2
      <4>2. pool'.running[j] = pool.running[Back(i, j)] /\ Back(i, j) \in 1..Len(pool.running)
        BY <1>2, <1>4, <1>6, <4>1 DEF Starts
      <4> QED BY <3>1, <4>2 DEF Failing
    <3>3. CASE ~(j <= Len(m.running))
      <4>1. pool'.running[j] = Start(pool'.running[j].at)
        BY <1>4, <1>8, <3>3 DEF Starts
      <4>2. pool'.running[j].result.ok = TRUE
        BY <4>1, StartFields
      <4> QED BY <3>1, <4>2
    <3> QED BY <3>2, <3>3
  <2> QED BY <2>1, <2>2
<1>10. ASSUME NEW code \in Codes, Failing(code)
       PROVE  \E e \in Codes : Failing(e)'
  <2>1. CASE pool.error # "none"
    <3>1. pool'.error = pool.error
      BY <1>1, <1>4, <2>1 DEF Takes, Starts
    <3> QED BY <1>5, <2>1, <3>1 DEF Failing
  <2>2. CASE pool.error = "none"
    <3>1. PICK j \in 1..Len(pool.running) :
            ~pool.running[j].result.ok /\ pool.running[j].result.code = code
      BY <1>10, <2>2 DEF Failing, Codes
    <3>2. CASE j = i
      <4>1. pool'.error = code
        BY <1>1, <1>4, <2>2, <3>1, <3>2 DEF Takes, Starts
      <4> QED BY <4>1 DEF Failing
    <3>3. CASE j # i
      <4>1. PICK k \in 1..Len(Rest(i)) : Rest(i)[k] = pool.running[j]
        BY <1>6, <3>3
      <4>2. pool'.running[k] = pool.running[j] /\ k \in 1..Len(pool'.running)
        BY <1>2, <1>4, <1>8, <4>1 DEF Starts
      <4> QED BY <3>1, <4>2 DEF Failing
    <3> QED BY <3>2, <3>3
  <2> QED BY <2>1, <2>2
<1> QED BY <1>9, <1>10

LEMMA FailRespond ==
  ASSUME Shape, Sees, FailInv, InputsInv, NEW i \in DOMAIN pool.running,
         NEW given, given = Answered(Request(i)) \/ given = Error("other"), Respond(i, given)
  PROVE  FailInv'
<1> DEFINE t == Request(i)
           r == TaskResult(Args, t, given)
<1>1. /\ ~Idle /\ t.kind \in Kinds(call.stage) /\ t.kind \in AllKinds
      /\ Args.fn \in StageFns[call.stage] /\ call.stage \in Stages \ {"idle"}
  BY RequestKind DEF Args, Shape, CallShape, Idle
<1>2. UNCHANGED <<store, config, call, answer>> /\ Args' = Args
  BY DEF Respond, Args
<1>3. GivenShape(given) /\ IsSeq(given.value)
  BY <1>1, AnsweredShape, OkShape DEF Codes
<1>4. \A code \in Codes :
        /\ Failing(code) => Failing(code)'
        /\ Failing(code)' => Failing(code) \/ (~r.ok /\ r.code = code)
        /\ ~r.ok /\ r.code = code => Failing(code)'
  BY <1>3, RespondFailing
<1>5. /\ seen'.always = seen.always
      /\ t.kind = "validate" /\ ~given.ok => seen'.failed = seen.failed
      /\ ~(t.kind = "validate" /\ ~given.ok) =>
           seen'.failed = (seen.failed \/ given.code = "other")
  BY RespondSeen DEF Sees
<1>6. ~r.ok => /\ r = given /\ t.kind # "validate"
               /\ \/ given = Error("other")
                  \/ /\ t.kind \notin {"projects", "datasets", "tables", "routines"}
                     /\ t.kind = "table" /\ Args.fn = "columns" => t.project \notin store.open
  BY <1>1, Unexcused
<1>7. t.kind = "table" /\ Args.fn = "columns" => t.project = Args.catalog
  <2> SUFFICES ASSUME t.kind = "table", Args.fn = "columns" PROVE t.project = Args.catalog
    OBVIOUS
  <2>1. \A k \in 1..Len(pool.inputs) : Fitting(pool.inputs[k])
    BY <1>1 DEF InputsInv, Listing
  <2>2. Fitting(t)
    BY <2>1, RequestKind
  <2> QED BY <2>2 DEF Fitting, ProjectListed
<1>8. t.kind = "validate" => r.ok
  BY <1>6
<1>9. ~given.ok /\ t.kind # "validate" /\ given = Error("other") => ~r.ok
  <2> SUFFICES ASSUME ~given.ok, t.kind # "validate", given = Error("other") PROVE ~r.ok
    OBVIOUS
  <2>1. given.code = "other"
    BY OkShape
  <2>2. given.code \notin Tolerated(Args, t.kind)
    BY <2>1 DEF Tolerated
  <2>3. r = given
    BY <2>2 DEF TaskResult
  <2> QED BY <2>3
<1>14. given.code = "other" => given = Error("other") /\ ~given.ok
  <2>1. Error("other").ok = FALSE /\ \A v : Ok(v).code = "none"
    BY OkShape
  <2>2. Error("403").code = "403" /\ Error("404").code = "404"
    BY OkShape
  <2>3. \/ given = Error("other") \/ given = Error("403") \/ given = Error("404")
        \/ \E v : given = Ok(v)
    <3>1. \/ Answered(t) = Error("403") \/ Answered(t) = Error("404")
          \/ \E v : Answered(t) = Ok(v)
      BY <1>1, AnsweredKinds
    <3> QED BY <3>1
  <2> QED BY <2>1, <2>2, <2>3
<1> HIDE DEF t, r
<1>15. r.ok \/ r.code \in Codes
  BY <1>3, <1>6 DEF GivenShape
<1>10. seen'.failed => \E code \in Codes : Failing(code)'
  <2> SUFFICES ASSUME seen'.failed PROVE \E code \in Codes : Failing(code)'
    OBVIOUS
  <2>1. CASE seen.failed
    BY <1>1, <1>4, <2>1 DEF FailInv
  <2>2. CASE ~seen.failed
    <3>1. ~(t.kind = "validate" /\ ~given.ok) /\ given.code = "other"
      BY <1>5, <2>2
    <3>2. ~r.ok
      BY <1>9, <1>14, <3>1
    <3> QED BY <1>4, <1>15, <3>2
  <2> QED BY <2>1, <2>2
<1>16. ~r.ok /\ given = Error("other") => seen'.failed
  <2>1. Error("other").code = "other"
    BY OkShape
  <2> QED BY <1>5, <1>6, <2>1
<1>17. seen.failed => seen'.failed
  BY <1>5
<1>11. ASSUME Args.fn \in TablesFns, NEW code \in Codes, Failing(code)'
       PROVE  seen'.failed
  <2>1. CASE Failing(code)
    BY <1>1, <1>11, <1>17, <2>1 DEF FailInv
  <2>2. CASE ~r.ok
    <3>1. t.kind \in {"projects", "validate", "datasets", "tables"}
      BY <1>1, <1>11 DEF StageFns, TablesFns, Kinds, Stages
    <3> QED BY <1>6, <1>16, <2>2, <3>1
  <2> QED BY <1>4, <1>11, <2>1, <2>2
<1>12. ASSUME Args.fn = "columns", NEW code \in Codes, Failing(code)'
       PROVE  seen'.failed \/ \A x \in seen.always : x[1] # Args.catalog
  <2>1. CASE Failing(code)
    BY <1>1, <1>12, <1>17, <2>1 DEF FailInv
  <2>2. CASE ~r.ok /\ given # Error("other")
    <3>1. t.kind \in {"datasets", "tables", "table"}
      BY <1>1, <1>12 DEF StageFns, TablesFns, Kinds, Stages
    <3>2. Args.catalog \notin store.open
      BY <1>6, <1>7, <1>12, <2>2, <3>1
    <3>3. \A x \in seen.always : x[1] \in store.open
      BY <1>1 DEF Sees, Visible
    <3> QED BY <3>2, <3>3
  <2> QED BY <1>4, <1>12, <1>16, <2>1, <2>2
<1>13. ASSUME call.stage = "validate", NEW code \in Codes, Failing(code)'
       PROVE  FALSE
  <2>1. t.kind = "validate"
    BY <1>1, <1>13 DEF Kinds
  <2> QED BY <1>1, <1>4, <1>8, <1>13, <2>1 DEF FailInv
<1> QED BY <1>2, <1>5, <1>10, <1>11, <1>12, <1>13 DEF FailInv

LEMMA FailNext ==
  ASSUME Shape, Sees, FailInv, InputsInv, Next
  PROVE  FailInv'
<1>1. ASSUME NEW c \in Calls, Call(c)
      PROVE  FailInv'
  <2>1. PICK a : GoesOn(a) \/ Ends(a)
    BY <1>1, CallOutcome
  <2>2. CASE GoesOn(a)
    BY <1>1, <2>2, RoundHasNoErrors, CallSeen DEF FailInv
  <2>3. CASE Ends(a)
    BY <2>3, EndsShape DEF FailInv
  <2> QED BY <2>1, <2>2, <2>3
<1>2. CASE CloseCursor
  BY <1>2, ClosesOnly DEF FailInv
<1>3. CASE Advance
  <2>1. GoesOn(call.args) \/ Ends(call.args)
    BY <1>3, AdvanceOutcome
  <2>2. CASE Ends(call.args)
    BY <2>2, EndsShape DEF FailInv
  <2>3. CASE GoesOn(call.args) /\ ~Ends(call.args)
    <3>1. ~RequestsFailed
      BY <2>3 DEF RequestsFailed, Ends
    <3>2. ~seen.failed /\ seen' = seen
      BY <1>3, <3>1, AdvanceWithoutError, AdvanceFields
    <3> QED BY <2>3, <3>2, RoundHasNoErrors DEF FailInv
  <2> QED BY <2>1, <2>2, <2>3
<1>4. CASE Environment
  <2>1. PICK s : StoreChanges(s)
    BY <1>4, EnvironmentStores DEF Shape
  <2>2. /\ seen'.always \subseteq seen.always /\ seen'.failed = seen.failed
        /\ UNCHANGED <<call, pool>> /\ ~Idle
    BY <2>1, StoreSeen DEF Sees
  <2>3. \A code : Failing(code)' <=> Failing(code)
    BY <2>2 DEF Failing
  <2> QED BY <2>2, <2>3 DEF FailInv, Args
<1>5. ASSUME NEW i \in DOMAIN pool.running, Collect(i)
      PROVE  FailInv'
  <2>1. UNCHANGED <<call, seen>> /\ ~Idle
    BY <1>5, RequestKind DEF Collect
  <2>2. /\ \A code \in Codes : Failing(code)' => Failing(code)
        /\ (\E code \in Codes : Failing(code)) => \E code \in Codes : Failing(code)'
    BY <1>5, CollectFailing
  <2> QED BY <2>1, <2>2 DEF FailInv, Args
<1>6. ASSUME NEW i \in DOMAIN pool.running, Reply(i) \/ ReplyFails(i)
      PROVE  FailInv'
  BY <1>6, FailRespond DEF Reply, ReplyFails
<1> QED BY <1>1, <1>2, <1>3, <1>4, <1>5, <1>6, NextSteps

-----------------------------------------------------------------------------
(* What is asked for stays the same during a call.                         *)

LEMMA SameWanted ==
  ASSUME Same
  PROVE  /\ \A p : ProjectSought(Asked, p)' <=> ProjectSought(Asked, p)
         /\ \A x : TablesSought(Asked, x)' <=> TablesSought(Asked, x)
         /\ \A x : ColumnsSought(Asked, x)' <=> ColumnsSought(Asked, x)
         /\ UsesDefault(Asked)' <=> UsesDefault(Asked)
         /\ DefaultDataset' = DefaultDataset
<1> USE DEF Same
<1>1. Asked' = Asked /\ config' = config
  OBVIOUS
<1>2. \A p : CatalogSought(Asked, p)' <=> CatalogSought(Asked, p)
  BY <1>1 DEF CatalogSought
<1>3. \A p : ProjectSought(Asked, p)' <=> ProjectSought(Asked, p)
  BY <1>1, <1>2 DEF ProjectSought
<1>4. DefaultDataset' = DefaultDataset
  BY <1>1 DEF DefaultDataset
<1>5. UsesDefault(Asked)' <=> UsesDefault(Asked)
  BY <1>1, <1>4 DEF UsesDefault
<1>6. \A x : TablesSought(Asked, x)' <=> TablesSought(Asked, x)
  BY <1>1, <1>3, <1>4, <1>5 DEF TablesSought
<1>7. \A x : ColumnsSought(Asked, x)' <=> ColumnsSought(Asked, x)
  BY <1>1, <1>2, <1>4, <1>5 DEF ColumnsSought
<1> QED BY <1>3, <1>4, <1>5, <1>6, <1>7

LEMMA SameAsks ==
  ASSUME Same
  PROVE  /\ \A x : AsksFor(x)' <=> AsksFor(x)
         /\ \A p : ProjectListed(p)' <=> ProjectListed(p)
         /\ \A d : DatasetAsked(d)' <=> DatasetAsked(d)
         /\ \A t, x : Aims(t, x)' <=> Aims(t, x)
         /\ \A t, w, x : Shows(t, w, x)' <=> Shows(t, w, x)
         /\ \A t : Fitting(t)' <=> Fitting(t)
         /\ \A t, v, w : InTurn(t, v, w)' <=> InTurn(t, v, w)
<1>1. Asked' = Asked /\ Args' = Args /\ config' = config
  BY DEF Same
<1>2. /\ \A p : ProjectSought(Asked, p)' <=> ProjectSought(Asked, p)
      /\ \A x : TablesSought(Asked, x)' <=> TablesSought(Asked, x)
      /\ \A x : ColumnsSought(Asked, x)' <=> ColumnsSought(Asked, x)
      /\ UsesDefault(Asked)' <=> UsesDefault(Asked)
      /\ DefaultDataset' = DefaultDataset
  BY SameWanted
<1>3. \A x : AsksFor(x)' <=> AsksFor(x)
  BY <1>1, <1>2 DEF AsksFor
<1>4. \A p : ProjectListed(p)' <=> ProjectListed(p)
  BY <1>1, <1>2 DEF ProjectListed
<1>5. \A d : DatasetAsked(d)' <=> DatasetAsked(d)
  BY <1>1, <1>2 DEF DatasetAsked
<1>6. \A t, x : Aims(t, x)' <=> Aims(t, x)
  BY <1>1, <1>2 DEF Aims
<1>7. \A t, w, x : Shows(t, w, x)' <=> Shows(t, w, x)
  BY <1>1 DEF Shows
<1>8. \A t : Fitting(t)' <=> Fitting(t)
  <2> SUFFICES ASSUME NEW t PROVE Fitting(t)' <=> Fitting(t)
    OBVIOUS
  <2>1. ProjectListed(t.project)' <=> ProjectListed(t.project)
    BY <1>4
  <2>2. DatasetAsked(t.dataset)' <=> DatasetAsked(t.dataset)
    BY <1>5
  <2>3. ColumnsSought(Asked, <<t.project, t.dataset, t.name>>)' <=>
          ColumnsSought(Asked, <<t.project, t.dataset, t.name>>)
    BY <1>2
  <2> QED BY <1>1, <2>1, <2>2, <2>3 DEF Fitting
<1>9. \A t, v, w : InTurn(t, v, w)' <=> InTurn(t, v, w)
  BY <1>1 DEF InTurn
<1> QED BY <1>3, <1>4, <1>5, <1>6, <1>7, <1>8, <1>9

\* What lasts becomes less, what was ever there more.
Later ==
  /\ Same /\ seen'.always \subseteq seen.always /\ seen.ever \subseteq seen'.ever
  /\ seen.doubtful \subseteq seen'.doubtful

LEMMA LaterRight ==
  ASSUME Later
  PROVE  /\ Lasting' \subseteq Lasting
         /\ \A t, w : Sound(t, w) => Sound(t, w)'
         /\ \A t, given : Right(t, given) => Right(t, given)'
<1>1. Same /\ Args' = Args
  BY DEF Later, Same
<1>2. Lasting' \subseteq Lasting
  BY <1>1, SameAsks DEF Later, Lasting
<1>3. \A t, w : Sound(t, w) => Sound(t, w)'
  <2> SUFFICES ASSUME NEW t, NEW w, Sound(t, w)
               PROVE  Sound(t, w)'
    OBVIOUS
  <2>1. /\ \A p : ProjectSought(Asked, p)' <=> ProjectSought(Asked, p)
        /\ \A x : TablesSought(Asked, x)' <=> TablesSought(Asked, x)
        /\ \A x : ColumnsSought(Asked, x)' <=> ColumnsSought(Asked, x)
        /\ \A d : DatasetAsked(d)' <=> DatasetAsked(d)
    BY <1>1, SameAsks, SameWanted
  <2>2. seen.ever \subseteq seen'.ever
    BY DEF Later
  <2> QED BY <1>1, <2>1, <2>2 DEF Sound
<1>4. ASSUME NEW t, NEW given, Right(t, given)
      PROVE  Right(t, given)'
  <2>1. \A x : Aims(t, x)' <=> Aims(t, x)
    BY <1>1, SameAsks
  <2>2. \A w, x : Shows(t, w, x)' <=> Shows(t, w, x)
    BY <1>1, SameAsks
  <2> QED BY <1>2, <1>3, <1>4, <2>1, <2>2 DEF Right
<1> QED BY <1>2, <1>3, <1>4

LEMMA LaterAnswers ==
  ASSUME Later
  PROVE  \A t, r : Answers(t, r) => Answers(t, r)'
<1>1. Same
  BY DEF Later
<1>2. \A t, given : Right(t, given) => Right(t, given)'
  BY LaterRight
<1>3. \A t, v, w : InTurn(t, v, w)' <=> InTurn(t, v, w)
  BY <1>1, SameAsks
<1> QED BY <1>2, <1>3 DEF Answers

LEMMA SameListing ==
  ASSUME Same, call'.stage = call.stage
  PROVE  Listing' <=> Listing
  BY DEF Same, Listing, Idle

\* The rounds of the same call.
LEMMA InputsStay ==
  ASSUME InputsInv, Later, call' = call, pool'.inputs = pool.inputs
  PROVE  InputsInv'
<1>1. Same
  BY DEF Later
<1>2. Listing' <=> Listing
  BY <1>1, SameListing
<1>3. \A x : Covered(x) => Covered(x)'
  BY <1>1, SameAsks DEF Covered, Same
<1>4. Lasting' \subseteq Lasting
  BY LaterRight
<1>5. \A t : Fitting(t)' <=> Fitting(t)
  BY <1>1, SameAsks
<1>6. \A p : ProjectSought(Asked, p)' <=> ProjectSought(Asked, p)
  BY <1>1, SameWanted
<1>7. ASSUME Listing
      PROVE  (\A k \in 1..Len(pool.inputs) : Fitting(pool.inputs[k]))'
  <2> DEFINE ins == pool.inputs
  <2>1. ins' = ins
    OBVIOUS
  <2>2. \A k \in 1..Len(ins) : Fitting(ins[k])
    BY <1>7 DEF InputsInv
  <2> HIDE DEF ins
  <2>3. (\A k \in 1..Len(ins) : Fitting(ins[k]))'
    BY <1>5, <2>1, <2>2
  <2> QED BY <2>3 DEF ins
<1>8. ASSUME Listing
      PROVE  (\A x \in Lasting : Covered(x))'
  BY <1>3, <1>4, <1>8 DEF InputsInv
<1>9. ASSUME Listing
      PROVE  (/\ Distinct(pool.inputs)
              /\ call.stage = "projects" => Len(pool.inputs) = 1)'
  BY <1>9 DEF InputsInv, Distinct
<1>10. ASSUME Listing
       PROVE  (call.stage = "validate" =>
                 /\ Distinct(call.projects)
                 /\ \A p \in Range(call.projects) : ProjectSought(Asked, p)
                 /\ \A k \in 1..Len(pool.inputs) :
                      pool.inputs[k].project \notin Range(call.projects))'
  BY <1>6, <1>10 DEF InputsInv, Distinct
<1> QED BY <1>2, <1>7, <1>8, <1>9, <1>10 DEF InputsInv

LEMMA OrderStays ==
  ASSUME ColumnOrderInv, Same, call' = call, pool'.inputs = pool.inputs
  PROVE  ColumnOrderInv'
<1>1. Listing' <=> Listing
  BY SameListing
<1> QED BY <1>1 DEF ColumnOrderInv, Same

\* Answers may come, and be taken, without the round being touched.
LEMMA AnswersStay ==
  ASSUME AnswersInv, Later, call' = call, pool' = pool
  PROVE  AnswersInv'
<1>1. Same
  BY DEF Later
<1>2. Listing' <=> Listing
  BY <1>1, SameListing
<1>3. /\ \A t, r : Answers(t, r) => Answers(t, r)'
      /\ \A t, given : Right(t, given) => Right(t, given)'
  BY LaterAnswers, LaterRight
<1>4. \A t, v, w : InTurn(t, v, w)' <=> InTurn(t, v, w)
  BY <1>1, SameAsks
<1>5. \A k : IsRunning(k)' <=> IsRunning(k)
  BY DEF IsRunning
<1>6. \A k : DoneAt(k)' = DoneAt(k)
  BY DEF DoneAt
<1> SUFFICES ASSUME Listing
             PROVE  /\ \A i \in 1..Len(pool.running) : Answers(pool.inputs[pool.running[i].at], pool.running[i])'
                    /\ \A j \in 1..Len(pool.done) :
                         pool.done[j].at \in 1..(pool.next - 1) /\ ~IsRunning(pool.done[j].at)'
                    /\ \A i, j \in 1..Len(pool.done) :
                         i < j /\ pool.done[i].at = pool.done[j].at =>
                           InTurn(pool.inputs[pool.done[i].at], pool.done[i].what, pool.done[j].what)'
                    /\ pool.error = "none" =>
                         \A k \in 1..(pool.next - 1) : ~IsRunning(k)' => Right(pool.inputs[k], DoneAt(k))'
  BY <1>2 DEF AnswersInv
<1>7. \A i \in 1..Len(pool.running) : Answers(pool.inputs[pool.running[i].at], pool.running[i])'
  <2> SUFFICES ASSUME NEW i \in 1..Len(pool.running)
               PROVE  Answers(pool.inputs[pool.running[i].at], pool.running[i])'
    OBVIOUS
  <2>1. Answers(pool.inputs[pool.running[i].at], pool.running[i])
    BY DEF AnswersInv
  <2> DEFINE t == pool.inputs[pool.running[i].at]
             r == pool.running[i]
  <2>2. t' = t /\ r' = r
    OBVIOUS
  <2> HIDE DEF t, r
  <2> QED BY <1>3, <2>1, <2>2 DEF t, r
<1> QED BY <1>3, <1>4, <1>5, <1>6, <1>7 DEF AnswersInv

-----------------------------------------------------------------------------
(* What the arguments that are read ask for is what the call asked for.    *)

\* A pattern that spells out a name matches that name only.
\* An escaped name spells out itself.
LEMMA EscapedLiteral ==
  ASSUME config.dsn \in Dsns, DefaultDataset # ""
  PROVE  /\ DefaultDataset # NoLiteral
         /\ LiteralFromOdbcPattern(EscapeOdbcPattern(DefaultDataset), FALSE) = DefaultDataset
<1> PICK name : name = DefaultDataset
  OBVIOUS
<1>1. /\ name # NoLiteral
      /\ IsSearchPatternArgument(name) =>
           /\ IsSearchPatternArgument(Patterns[name].escaped)
           /\ Patterns[Patterns[name].escaped].literal = name
  BY PatternsAssumption DEF DefaultDataset
<1>2. CASE IsSearchPatternArgument(name)
  <2> PICK e : e = Patterns[name].escaped
    OBVIOUS
  <2>1. EscapeOdbcPattern(name) = e
    BY <1>2 DEF EscapeOdbcPattern
  <2>2. e \in DOMAIN Patterns /\ e # "" /\ Patterns[e].literal = name
    BY <1>1, <1>2, PatternsAssumption DEF IsSearchPatternArgument
  <2>3. LiteralFromOdbcPattern(e, FALSE) = name
    BY <2>2 DEF LiteralFromOdbcPattern, IsSearchPatternArgument
  <2> QED BY <1>1, <2>1, <2>3
<1>3. CASE ~IsSearchPatternArgument(name)
  BY <1>1, <1>3 DEF EscapeOdbcPattern, LiteralFromOdbcPattern
<1> QED BY <1>1, <1>2, <1>3

LEMMA LiteralMatch ==
  ASSUME NEW f, LiteralFromOdbcPattern(f, FALSE) # NoLiteral
  PROVE  \A d : FullMatch(d, f, FALSE) <=> d = LiteralFromOdbcPattern(f, FALSE)
<1>1. CASE IsSearchPatternArgument(f)
  <2>0. f \in DOMAIN Patterns /\ f # ""
    BY <1>1, PatternsAssumption DEF IsSearchPatternArgument
  <2>1. LiteralFromOdbcPattern(f, FALSE) = Patterns[f].literal
    BY <1>1, <2>0 DEF LiteralFromOdbcPattern
  <2>2. Patterns[f].matches = {Patterns[f].literal}
    BY <2>0, <2>1, PatternsAssumption
  <2>3. \A d : FullMatch(d, f, FALSE) <=> d \in Patterns[f].matches
    BY <1>1 DEF FullMatch
  <2> QED BY <2>1, <2>2, <2>3
<1>2. CASE ~IsSearchPatternArgument(f)
  <2>1. \A d : FullMatch(d, f, FALSE) <=> d = f
    BY <1>2 DEF FullMatch
  <2>2. f # "" => LiteralFromOdbcPattern(f, FALSE) = f
    BY <1>2 DEF LiteralFromOdbcPattern
  <2>3. f = "" => LiteralFromOdbcPattern(f, FALSE) = NoLiteral
    BY <1>2 DEF LiteralFromOdbcPattern
  <2> QED BY <2>1, <2>2, <2>3
<1> QED BY <1>1, <1>2

LEMMA LiteralOfName ==
  \A f : LiteralFromOdbcPattern(f, TRUE) = f
  BY DEF LiteralFromOdbcPattern

LEMMA CapitalsOnce ==
  \A n : ToUpper(ToUpper(n)) = ToUpper(n)
<1>1. \A n \in DOMAIN UpperOf : UpperOf[n] \notin DOMAIN UpperOf
  BY PatternsAssumption
<1> QED BY <1>1 DEF ToUpper

LEMMA CallTypes ==
  ASSUME NEW c \in Calls
  PROVE  /\ c.metadata_id \in BOOLEAN /\ c.catalog # NoLiteral /\ c.schema # NoLiteral
         /\ c.fn \in Functions
  BY CallsAssumption

LEMMA ListingCall ==
  ASSUME ArgsInv, Listing
  PROVE  /\ Asked \in Calls /\ ~Idle /\ Asked.metadata_id \in BOOLEAN
         /\ Args.metadata_id = Asked.metadata_id
         /\ Args.fn = "tables" => /\ Asked.fn = "tables" /\ Args = TablesArgs(Asked)
                                  /\ ~NullIdentifier(Asked)
         /\ Args.fn = "columns" => /\ Asked.fn = "columns" /\ Args = ColumnsArgs(Asked)
                                   /\ ValidateColumnParameters(Asked, Args)
<1>1. /\ Asked \in Calls /\ ReadsAs(Asked, Args) /\ ~Idle /\ Args.fn \in {"tables", "columns"}
      /\ Asked.fn = "tables" => ~NullIdentifier(Asked)
      /\ Asked.fn = "columns" => ValidateColumnParameters(Asked, Args)
  BY DEF ArgsInv, Listing
<1>2. TablesArgs(Asked).fn # "columns"
  BY <1>1, TablesArgsFields DEF TablesFns
<1>3. Args.fn = "tables" => Asked.fn = "tables"
  BY <1>1 DEF ReadsAs
<1>4. Args.fn = "columns" => Asked.fn = "columns"
  BY <1>1, <1>2 DEF ReadsAs
<1>5. Args.metadata_id = Asked.metadata_id
  BY <1>1, <1>3, <1>4, TablesArgsFields, ColumnsArgsFields DEF ReadsAs
<1> QED BY <1>1, <1>3, <1>4, <1>5, CallTypes DEF ReadsAs

\* What the literals p1 of the catalog and d1 of the schema say of the call.
TablesAsked(p1, d1) ==
  /\ p1 # NoLiteral => \A p : CatalogSought(Asked, p) <=> p = p1
  /\ p1 = NoLiteral => /\ ~Args.metadata_id
                       /\ \A p : CatalogSought(Asked, p) <=> FullMatch(p, Args.catalog, FALSE)
  /\ d1 # NoLiteral => \A d : DatasetAsked(d) <=> d = d1
  /\ d1 = NoLiteral => /\ ~Args.metadata_id
                       /\ \A d : DatasetAsked(d) <=> FullMatch(d, Args.schema, FALSE)
  /\ \A p : ProjectSought(Asked, p) <=>
       IF config.dsn.allowed # <<>> /\ p1 # NoLiteral
       THEN p \in Range(config.dsn.allowed) /\ ToUpper(p) = ToUpper(p1)
       ELSE CatalogSought(Asked, p)
              /\ (config.dsn.allowed = <<>> \/ p \in Range(config.dsn.allowed))
  /\ \A x : TablesSought(Asked, x) <=>
       /\ ProjectListed(x[1]) /\ DatasetAsked(x[2])
       /\ FullMatch(x[3], Args.table, Args.metadata_id)
       /\ Args.types = {"%"} \/ NormalizeRestTableType(TableInfo[x].type) \in Args.types

LEMMA TablesMeaning ==
  ASSUME Shape, ArgsInv, Listing, Args.fn = "tables"
  PROVE  TablesAsked(LiteralFromOdbcPattern(Args.catalog, Args.metadata_id),
                     LiteralFromOdbcPattern(Args.schema, Args.metadata_id))
<1> DEFINE p1 == LiteralFromOdbcPattern(Args.catalog, Args.metadata_id)
           d1 == LiteralFromOdbcPattern(Args.schema, Args.metadata_id)
<1> SUFFICES TablesAsked(p1, d1)
  OBVIOUS
<1>1. /\ Asked \in Calls /\ Args = TablesArgs(Asked) /\ ~NullIdentifier(Asked)
      /\ Asked.metadata_id \in BOOLEAN
  BY ListingCall
<1>2. /\ Args.catalog = ToCharStr(Asked.catalog, CurrentCatalog)
      /\ Args.table = ToCharStr(Asked.table, "%")
      /\ Args.schema = SchemaRead(Asked, EscapeOdbcPattern(DefaultDataset))
      /\ Args.types = Asked.types /\ Args.metadata_id = Asked.metadata_id
  BY <1>1, TablesArgsFields
<1>3. CurrentCatalog \notin DOMAIN Patterns \cup {"", NULL, NoLiteral}
  BY PatternsAssumption
<1>4. Asked.catalog # NoLiteral /\ Asked.schema # NoLiteral
  BY <1>1, CallTypes
<1>5. Asked.metadata_id => Asked.catalog # NULL /\ Asked.schema # NULL
  BY <1>1 DEF NullIdentifier
<1>6. CASE Asked.metadata_id
  <2>1. Args.metadata_id = TRUE
    BY <1>1, <1>2, <1>6
  <2>2. p1 = Asked.catalog /\ Asked.catalog # NULL
    BY <1>2, <1>5, <1>6, <2>1, LiteralOfName DEF ToCharStr
  <2>3. d1 = Asked.schema /\ ~UsesDefault(Asked)
    BY <1>2, <1>5, <1>6, <2>1, LiteralOfName DEF ToCharStr, SchemaRead, UsesDefault
  <2>4. \A p : CatalogSought(Asked, p) <=> p = p1
    BY <1>6, <2>2 DEF CatalogSought, SoughtAs
  <2>5. \A d : DatasetAsked(d) <=> d = d1
    BY <1>6, <2>3 DEF DatasetAsked, SoughtAs
  <2>6. p1 # NoLiteral /\ d1 # NoLiteral
    BY <1>4, <2>2, <2>3
  <2>7. LiteralFromOdbcPattern(ToCharStr(Asked.catalog, CurrentCatalog), Asked.metadata_id) = p1
    BY <1>2
  <2> HIDE DEF p1, d1
  <2>8. \A p : ProjectSought(Asked, p) <=>
                  IF config.dsn.allowed # <<>> /\ p1 # NoLiteral
                  THEN p \in Range(config.dsn.allowed) /\ ToUpper(p) = ToUpper(p1)
                  ELSE CatalogSought(Asked, p)
                         /\ (config.dsn.allowed = <<>> \/ p \in Range(config.dsn.allowed))
    BY <2>7 DEF ProjectSought
  <2>9. \A x : TablesSought(Asked, x) <=>
                  /\ ProjectListed(x[1]) /\ DatasetAsked(x[2])
                  /\ FullMatch(x[3], Args.table, Args.metadata_id)
                  /\ Args.types = {"%"} \/ NormalizeRestTableType(TableInfo[x].type) \in Args.types
    BY <1>2 DEF TablesSought, ProjectListed, DatasetAsked
  <2> QED BY <2>4, <2>5, <2>6, <2>8, <2>9 DEF TablesAsked
<1>7. CASE ~Asked.metadata_id
  <2>1. Args.metadata_id = FALSE
    BY <1>1, <1>2, <1>7
  <2>2. p1 = LiteralFromOdbcPattern(Args.catalog, FALSE) /\ d1 = LiteralFromOdbcPattern(Args.schema, FALSE)
    BY <2>1
  <2>3. \A p : CatalogSought(Asked, p) <=> FullMatch(p, Args.catalog, FALSE)
    <3>1. CASE Asked.catalog = NULL
      <4>1. Args.catalog = CurrentCatalog
        BY <1>2, <3>1 DEF ToCharStr
      <4>2. \A p : FullMatch(p, CurrentCatalog, FALSE) <=> p = CurrentCatalog
        BY <1>3 DEF FullMatch, IsSearchPatternArgument
      <4> QED BY <3>1, <4>1, <4>2 DEF CatalogSought
    <3>2. CASE Asked.catalog # NULL
      <4>1. Args.catalog = Asked.catalog
        BY <1>2, <3>2 DEF ToCharStr
      <4>2. ToCharStr(Asked.catalog, "%") = Asked.catalog
        BY <3>2 DEF ToCharStr
      <4> QED BY <1>7, <3>2, <4>1, <4>2 DEF CatalogSought, SoughtAs
    <3> QED BY <3>1, <3>2
  <2>4. p1 # NoLiteral => \A p : CatalogSought(Asked, p) <=> p = p1
    BY <2>2, <2>3, LiteralMatch
  <2>5. \A d : DatasetAsked(d) <=> FullMatch(d, Args.schema, FALSE)
    <3>1. CASE UsesDefault(Asked)
      <4>1. Args.schema = EscapeOdbcPattern(DefaultDataset) /\ DefaultDataset # ""
        BY <1>2, <1>7, <3>1 DEF UsesDefault, SchemaRead, ToCharStr
      <4>2. DefaultDataset # NoLiteral /\ LiteralFromOdbcPattern(EscapeOdbcPattern(DefaultDataset), FALSE) = DefaultDataset
        BY <4>1, EscapedLiteral, Threads
      <4> DEFINE f == Args.schema
      <4> HIDE DEF f
      <4>3. LiteralFromOdbcPattern(f, FALSE) = DefaultDataset
        BY <4>1, <4>2 DEF f
      <4>4. \A d : FullMatch(d, f, FALSE) <=> d = DefaultDataset
        BY <4>2, <4>3, LiteralMatch
      <4> QED BY <3>1, <4>4 DEF DatasetAsked, f
    <3>2. CASE ~UsesDefault(Asked)
      <4>1. Args.schema = ToCharStr(Asked.schema, "%")
        BY <1>2, <1>7, <3>2 DEF UsesDefault, SchemaRead, ToCharStr
      <4> QED BY <1>7, <3>2, <4>1 DEF DatasetAsked, SoughtAs
    <3> QED BY <3>1, <3>2
  <2>6. d1 # NoLiteral => \A d : DatasetAsked(d) <=> d = d1
    BY <2>2, <2>5, LiteralMatch
  <2>7. LiteralFromOdbcPattern(ToCharStr(Asked.catalog, CurrentCatalog), Asked.metadata_id) = p1
    BY <1>2
  <2> HIDE DEF p1, d1
  <2>8. \A p : ProjectSought(Asked, p) <=>
                  IF config.dsn.allowed # <<>> /\ p1 # NoLiteral
                  THEN p \in Range(config.dsn.allowed) /\ ToUpper(p) = ToUpper(p1)
                  ELSE CatalogSought(Asked, p)
                         /\ (config.dsn.allowed = <<>> \/ p \in Range(config.dsn.allowed))
    BY <2>7 DEF ProjectSought
  <2>9. \A x : TablesSought(Asked, x) <=>
                  /\ ProjectListed(x[1]) /\ DatasetAsked(x[2])
                  /\ FullMatch(x[3], Args.table, Args.metadata_id)
                  /\ Args.types = {"%"} \/ NormalizeRestTableType(TableInfo[x].type) \in Args.types
    BY <1>2 DEF TablesSought, ProjectListed, DatasetAsked
  <2> QED BY <2>1, <2>3, <2>4, <2>5, <2>6, <2>8, <2>9 DEF TablesAsked
<1> QED BY <1>6, <1>7

LEMMA ColumnsMeaning ==
  ASSUME Shape, ArgsInv, Listing, Args.fn = "columns"
  PROVE  /\ \A p : CatalogSought(Asked, p) <=> p = Args.catalog
         /\ \A x : ColumnsSought(Asked, x) <=>
              /\ x[1] = Args.catalog /\ DatasetAsked(x[2])
              /\ FullMatch(x[3], Args.table, Args.metadata_id)
<1>1. /\ Asked \in Calls /\ Args = ColumnsArgs(Asked) /\ ValidateColumnParameters(Asked, Args)
      /\ Asked.metadata_id \in BOOLEAN
  BY ListingCall
<1>2. /\ Args.metadata_id = Asked.metadata_id
      /\ Args.catalog = ToCharStr(Asked.catalog, CurrentCatalog)
      /\ Args.schema = SanitizeIdentifierArgument(SchemaRead(Asked, DefaultDataset), Asked.metadata_id)
      /\ Args.table = SanitizeIdentifierArgument(ToCharStr(Asked.table, "%"), Asked.metadata_id)
  BY <1>1, ColumnsArgsFields
<1>3. ~IsSearchPatternArgument(Args.catalog)
  BY <1>1 DEF ValidateColumnParameters
<1>4. \A p : CatalogSought(Asked, p) <=> p = Args.catalog
  <2>1. CASE Asked.catalog = NULL
    BY <1>2, <2>1 DEF CatalogSought, ToCharStr
  <2>2. CASE Asked.catalog # NULL
    <3>1. Args.catalog = Asked.catalog /\ ToCharStr(Asked.catalog, "%") = Asked.catalog
      BY <1>2, <2>2 DEF ToCharStr
    <3>2. \A p : FullMatch(p, Args.catalog, FALSE) <=> p = Args.catalog
      BY <1>3 DEF FullMatch
    <3> QED BY <2>2, <3>1, <3>2 DEF CatalogSought, SoughtAs
  <2> QED BY <2>1, <2>2
\* A name asked for is read as it is, or in capitals where they make no difference.
<1>5. \A n, f : FullMatch(n, SanitizeIdentifierArgument(f, Asked.metadata_id), Asked.metadata_id)
                  <=> FullMatch(n, f, Asked.metadata_id)
  <2>1. CASE Asked.metadata_id
    <3>1. Asked.metadata_id = TRUE
      BY <1>1, <2>1
    <3>2. \A n, f : FullMatch(n, f, TRUE) <=> ToUpper(n) = ToUpper(f)
      BY DEF FullMatch
    <3>3. \A f : SanitizeIdentifierArgument(f, TRUE) = ToUpper(f)
      BY DEF SanitizeIdentifierArgument
    <3> QED BY <3>1, <3>2, <3>3, CapitalsOnce
  <2>2. CASE ~Asked.metadata_id
    BY <2>2 DEF SanitizeIdentifierArgument
  <2> QED BY <2>1, <2>2
<1>6. SchemaRead(Asked, DefaultDataset) =
        IF UsesDefault(Asked) THEN DefaultDataset ELSE ToCharStr(Asked.schema, "%")
  BY DEF SchemaRead, UsesDefault, ToCharStr
<1>7. \A d : DatasetAsked(d) <=>
        FullMatch(d, IF UsesDefault(Asked) THEN DefaultDataset ELSE ToCharStr(Asked.schema, "%"),
                  Asked.metadata_id)
  BY <1>2, <1>5, <1>6 DEF DatasetAsked
<1>8. \A n : FullMatch(n, Args.table, Args.metadata_id) <=>
               FullMatch(n, ToCharStr(Asked.table, "%"), Asked.metadata_id)
  BY <1>2, <1>5
<1> QED BY <1>4, <1>7, <1>8 DEF ColumnsSought

\* What lasts is in a project, and in a dataset, that is asked for.
LEMMA LastingAsked ==
  ASSUME Shape, Sees, ArgsInv, Listing, NEW x \in Lasting
  PROVE  /\ x \in store.tables /\ x[1] \in store.open /\ <<x[1], x[2]>> \in store.datasets
         /\ x = <<x[1], x[2], x[3]>> /\ x[1] \in Range(ProjectSeq)
         /\ x[2] \in Range(DatasetSeq) /\ x[3] \in Range(TableSeq)
         /\ ProjectListed(x[1]) /\ DatasetAsked(x[2])
         /\ FullMatch(x[3], Args.table, Args.metadata_id)
         /\ Args.fn = "tables" =>
              Args.types = {"%"} \/ NormalizeRestTableType(TableInfo[x].type) \in Args.types
<1>1. x \in seen.always /\ AsksFor(x)
  BY DEF Lasting
<1>2. /\ x \in DOMAIN TableInfo /\ x \in Visible(store)
  BY <1>1 DEF Sees, Listing
<1>3. x \in Range(ProjectSeq) \X Range(DatasetSeq) \X Range(TableSeq)
  BY <1>2, ListsAssumption
<1>4. /\ x \in store.tables /\ x[1] \in store.open /\ <<x[1], x[2]>> \in store.datasets
  BY <1>2 DEF Visible
<1>5. x = <<x[1], x[2], x[3]>> /\ x[1] \in Range(ProjectSeq)
         /\ x[2] \in Range(DatasetSeq) /\ x[3] \in Range(TableSeq)
  BY <1>3
<1>6. CASE Args.fn = "tables"
  <2>1. TablesSought(Asked, x)
    BY <1>1, <1>6 DEF AsksFor
  <2>2. /\ ProjectListed(x[1]) /\ DatasetAsked(x[2])
        /\ FullMatch(x[3], Args.table, Args.metadata_id)
        /\ Args.types = {"%"} \/ NormalizeRestTableType(TableInfo[x].type) \in Args.types
    BY <1>6, <2>1, TablesMeaning DEF TablesAsked
  <2> QED BY <1>4, <1>5, <2>2
<1>7. CASE Args.fn = "columns"
  <2>1. ColumnsSought(Asked, x)
    BY <1>1, <1>7 DEF AsksFor
  <2>2. /\ x[1] = Args.catalog /\ DatasetAsked(x[2])
        /\ FullMatch(x[3], Args.table, Args.metadata_id)
    BY <1>7, <2>1, ColumnsMeaning
  <2> QED BY <1>4, <1>5, <1>7, <2>2 DEF ProjectListed
<1> QED BY <1>6, <1>7 DEF Listing

-----------------------------------------------------------------------------
(* What a request gives is right.                                          *)

LEMMA SelectedTurn ==
  ASSUME NEW s, IsSeq(s), NEW S
  PROVE  LET sel == Selected(s, S) IN
         /\ IsSeq(sel) /\ Range(sel) = Range(s) \cap S
         /\ \A k, l \in 1..Len(sel) : k < l => Precedes(s, sel[k], sel[l])
         /\ \A a, b : Precedes(sel, a, b) => Precedes(s, a, b)
<1> DEFINE sel == Selected(s, S)
           V == Range(s)
<1>1. s \in Seq(V)
  BY DEF IsSeq
<1> HIDE DEF V
<1>2. \A k, l \in 1..Len(sel) : k < l => Precedes(s, sel[k], sel[l])
  BY <1>1, SelectedOrder, Zenon
<1>3. IsSeq(sel) /\ Range(sel) = Range(s) \cap S
  BY SelectedSeq
<1> HIDE DEF sel
<1>4. \A a, b : Precedes(sel, a, b) => Precedes(s, a, b)
  BY <1>2 DEF Precedes
<1> QED BY <1>2, <1>3, <1>4 DEF sel

\* The names of a list that exist and match, in the order of the list.
LEMMA MatchedNames ==
  ASSUME NEW s, IsSeq(s), NEW S, NEW f, NEW m
  PROVE  LET got == Matching(Selected(s, S), f, m) IN
         /\ IsSeq(got) /\ DOMAIN got = 1..Len(got) /\ Len(got) \in Nat
         /\ \A n : n \in Range(got) <=> n \in Range(s) /\ n \in S /\ FullMatch(n, f, m)
         /\ \A k, l \in 1..Len(got) : k < l => Precedes(s, got[k], got[l])
<1> DEFINE sel == Selected(s, S)
           T == {n \in Range(sel) : FullMatch(n, f, m)}
           got == Selected(sel, T)
<1>1. /\ IsSeq(sel) /\ Range(sel) = Range(s) \cap S
      /\ \A a, b : Precedes(sel, a, b) => Precedes(s, a, b)
  BY SelectedTurn
<1>2. /\ IsSeq(got) /\ Range(got) = Range(sel) \cap T
      /\ \A k, l \in 1..Len(got) : k < l => Precedes(sel, got[k], got[l])
  <2> HIDE DEF sel, T
  <2> QED BY <1>1, SelectedTurn DEF sel
<1>3. Matching(Selected(s, S), f, m) = got
  BY DEF Matching
<1>4. \A n : n \in T <=> n \in Range(sel) /\ FullMatch(n, f, m)
  OBVIOUS
<1> HIDE DEF sel, T, got
<1>5. \A n : n \in Range(got) <=> n \in Range(s) /\ n \in S /\ FullMatch(n, f, m)
  BY <1>1, <1>2, <1>4
<1>6. DOMAIN got = 1..Len(got) /\ Len(got) \in Nat
  BY <1>2, SeqShape
<1> QED BY <1>1, <1>2, <1>3, <1>5, <1>6

\* What the request t gives is asked for, complete and in order.
Gives(t, v) ==
  /\ \A w \in Range(v) : Sound(t, w)
  /\ \A x \in Lasting : Aims(t, x) => \E w \in Range(v) : Shows(t, w, x)
  /\ \A a, b \in 1..Len(v) : a < b => InTurn(t, v[a], v[b])

LEMMA ProjectsGiven ==
  ASSUME Shape, Sees, ArgsInv, Listing, NEW t, Fitting(t), t.kind = "projects", Args.fn = "tables"
  PROVE  Gives(t, Kept(Args, t, Selected(ProjectSeq, store.open)))
<1> DEFINE got == Matching(Selected(ProjectSeq, store.open), Args.catalog, Args.metadata_id)
<1>1. Kept(Args, t, Selected(ProjectSeq, store.open)) = got
  BY DEF Kept
<1>2. /\ IsSeq(got)
      /\ \A n : n \in Range(got) <=> /\ n \in Range(ProjectSeq) /\ n \in store.open
                                     /\ FullMatch(n, Args.catalog, Args.metadata_id)
      /\ \A k, l \in 1..Len(got) : k < l => Precedes(ProjectSeq, got[k], got[l])
  BY MatchedNames, ListSeqs
<1> HIDE DEF got
<1>3. /\ ~Args.metadata_id /\ config.dsn.allowed = <<>>
      /\ \A p : ProjectSought(Asked, p) <=> FullMatch(p, Args.catalog, FALSE)
  <2> DEFINE p1 == LiteralFromOdbcPattern(Args.catalog, Args.metadata_id)
             d1 == LiteralFromOdbcPattern(Args.schema, Args.metadata_id)
  <2>1. p1 = NoLiteral /\ config.dsn.allowed = <<>>
    BY DEF Fitting
  <2>2. TablesAsked(p1, d1)
    BY TablesMeaning
  <2> HIDE DEF p1, d1
  <2> QED BY <2>1, <2>2 DEF TablesAsked
<1>4. Args.metadata_id = FALSE
  BY <1>3, ListingCall
<1>5. \A w \in Range(got) : Sound(t, w)
  BY <1>2, <1>3, <1>4 DEF Sound
<1>6. ASSUME NEW x \in Lasting, Aims(t, x)
      PROVE  x[1] \in Range(got)
  BY <1>2, <1>3, <1>4, <1>6, LastingAsked DEF Aims
<1>7. \A x \in Lasting : Aims(t, x) => \E w \in Range(got) : Shows(t, w, x)
  BY <1>6 DEF Shows
<1>8. \A a, b \in 1..Len(got) : a < b => InTurn(t, got[a], got[b])
  BY <1>2 DEF InTurn
<1> QED BY <1>1, <1>5, <1>7, <1>8 DEF Gives

LEMMA ValidateGiven ==
  ASSUME Listing, NEW t, t.kind = "validate", NEW names
  PROVE  Gives(t, Kept(Args, t, names))
<1> DEFINE v == <<t.project>>
<1>1. Kept(Args, t, names) = v
  BY DEF Kept
<1>2. Len(v) = 1 /\ \A w : w \in Range(v) <=> w = t.project
  BY Singleton, SeqShape
<1> HIDE DEF v
<1>3. \A w \in Range(v) : Sound(t, w)
  BY <1>2 DEF Sound
<1>4. \A x \in Lasting : Aims(t, x) => \E w \in Range(v) : Shows(t, w, x)
  BY <1>2 DEF Aims, Shows
<1>5. \A a, b \in 1..1 : ~(a < b)
  OBVIOUS
<1> QED BY <1>1, <1>2, <1>3, <1>4, <1>5 DEF Gives

LEMMA DatasetsGiven ==
  ASSUME Shape, Sees, ArgsInv, Listing, NEW t, Fitting(t), t.kind = "datasets"
  PROVE  Gives(t, Kept(Args, t, DatasetsOf(t.project)))
<1> DEFINE S == {d \in Range(DatasetSeq) : <<t.project, d>> \in store.datasets}
           got == Matching(Selected(DatasetSeq, S), Args.schema, Args.metadata_id)
           v == [i \in DOMAIN got |-> <<t.project, got[i]>>]
<1>1. Kept(Args, t, DatasetsOf(t.project)) = v
  BY DEF Kept, DatasetsOf, Listing
<1>2. /\ IsSeq(got) /\ DOMAIN got = 1..Len(got)
      /\ \A n : n \in Range(got) <=> /\ n \in Range(DatasetSeq) /\ n \in S
                                     /\ FullMatch(n, Args.schema, Args.metadata_id)
      /\ \A k, l \in 1..Len(got) : k < l => Precedes(DatasetSeq, got[k], got[l])
  <2> HIDE DEF S
  <2> QED BY MatchedNames, ListSeqs
<1>3. \A n : n \in S <=> n \in Range(DatasetSeq) /\ <<t.project, n>> \in store.datasets
  OBVIOUS
<1> HIDE DEF S, got
<1>4. v = [i \in DOMAIN got |-> v[i]]
  OBVIOUS
<1>5. \A i \in 1..Len(got) : v[i] = <<t.project, got[i]>> /\ got[i] \in Range(got)
  BY <1>2, SeqShape
<1> HIDE DEF v
<1>6. Len(v) = Len(got) /\ IsSeq(v)
  BY <1>2, <1>4, MapSeq
<1>7. Range(v) = {v[i] : i \in 1..Len(v)} /\ Range(got) = {got[i] : i \in 1..Len(got)}
  BY <1>2, <1>6, SeqShape
<1>8. \A d : DatasetAsked(d) <=> FullMatch(d, Args.schema, Args.metadata_id)
  <2>1. CASE Args.fn = "tables"
    <3> DEFINE p1 == LiteralFromOdbcPattern(Args.catalog, Args.metadata_id)
               d1 == LiteralFromOdbcPattern(Args.schema, Args.metadata_id)
    <3>1. d1 = NoLiteral
      BY <2>1 DEF Fitting
    <3>2. TablesAsked(p1, d1)
      BY <2>1, TablesMeaning
    <3> HIDE DEF p1, d1
    <3>3. ~Args.metadata_id /\ \A d : DatasetAsked(d) <=> FullMatch(d, Args.schema, FALSE)
      BY <3>1, <3>2 DEF TablesAsked
    <3>4. Args.metadata_id = FALSE
      BY <3>3, ListingCall
    <3> QED BY <3>3, <3>4
  <2>2. CASE Args.fn # "tables"
    BY <2>2 DEF DatasetAsked
  <2> QED BY <2>1, <2>2
<1>9. \A i \in 1..Len(v) : v[i] = <<t.project, v[i][2]>> /\ DatasetAsked(v[i][2])
  BY <1>2, <1>5, <1>6, <1>8
<1>10. \A w \in Range(v) : Sound(t, w)
  BY <1>7, <1>9 DEF Sound
<1>11. ASSUME NEW x \in Lasting, Aims(t, x)
       PROVE  \E w \in Range(v) : Shows(t, w, x)
  <2>1. t.project = x[1]
    BY <1>11 DEF Aims
  <2>2. x[2] \in Range(got)
    BY <1>2, <1>3, <1>8, <2>1, LastingAsked
  <2>3. PICK i \in 1..Len(got) : got[i] = x[2]
    BY <1>7, <2>2
  <2>4. v[i] = <<x[1], x[2]>> /\ v[i] \in Range(v)
    BY <1>5, <1>6, <1>7, <2>1, <2>3
  <2> QED BY <2>4 DEF Shows
<1>12. \A a, b \in 1..Len(v) : a < b => InTurn(t, v[a], v[b])
  <2>1. ASSUME NEW a \in 1..Len(v), NEW b \in 1..Len(v), a < b
        PROVE  Precedes(DatasetSeq, v[a][2], v[b][2])
    <3>1. v[a][2] = got[a] /\ v[b][2] = got[b]
      BY <1>5, <1>6
    <3>2. Precedes(DatasetSeq, got[a], got[b])
      BY <1>2, <1>6, <2>1
    <3> QED BY <3>1, <3>2
  <2> QED BY <2>1 DEF InTurn
<1> QED BY <1>1, <1>10, <1>11, <1>12 DEF Gives

LEMMA TablesGiven ==
  ASSUME Shape, Sees, ArgsInv, Listing, NEW t, Fitting(t), t.kind = "tables", Args.fn = "tables",
         t.project \in store.open, <<t.project, t.dataset>> \in store.datasets
  PROVE  Gives(t, Kept(Args, t, TablesOf(t.project, t.dataset)))
<1> DEFINE p == t.project
           d == t.dataset
           S == {n \in Range(TableSeq) : <<p, d, n>> \in store.tables}
           names == Selected(TableSeq, S)
           Row(n) == <<p, d, n, NormalizeRestTableType(TableInfo[<<p, d, n>>].type)>>
           T == {n \in Range(names) : Args.types = {"%"} \/ Row(n)[4] \in Args.types}
           matching == Matching(names, Args.table, Args.metadata_id)
           got == Selected(matching, T)
           v == [i \in DOMAIN got |-> Row(got[i])]
<1>1. Kept(Args, t, TablesOf(t.project, t.dataset)) = v
  BY DEF Kept, TablesOf, GetFilteredTables
<1>2. /\ IsSeq(matching)
      /\ \A n : n \in Range(matching) <=> /\ n \in Range(TableSeq) /\ n \in S
                                          /\ FullMatch(n, Args.table, Args.metadata_id)
      /\ \A k, l \in 1..Len(matching) : k < l => Precedes(TableSeq, matching[k], matching[l])
  <2> HIDE DEF S
  <2> QED BY MatchedNames, ListSeqs
<1>3. \A n : n \in S <=> n \in Range(TableSeq) /\ <<p, d, n>> \in store.tables
  OBVIOUS
<1>4. Range(names) = Range(TableSeq) \cap S
  <2> HIDE DEF S
  <2> QED BY SelectedTurn, ListSeqs
<1>5. \A n : n \in T <=> /\ n \in Range(TableSeq) /\ n \in S
                         /\ Args.types = {"%"}
                              \/ NormalizeRestTableType(TableInfo[<<p, d, n>>].type) \in Args.types
  <2> HIDE DEF S, names
  <2> QED BY <1>4
<1> HIDE DEF S, names, T, matching
<1>6. /\ IsSeq(got) /\ Range(got) = Range(matching) \cap T
      /\ \A k, l \in 1..Len(got) : k < l => Precedes(matching, got[k], got[l])
  BY <1>2, SelectedTurn
<1> HIDE DEF got
<1>7. \A k, l \in 1..Len(got) : k < l => Precedes(TableSeq, got[k], got[l])
  <2>1. ASSUME NEW a, NEW b, Precedes(matching, a, b)
        PROVE  Precedes(TableSeq, a, b)
    <3>1. PICK i \in 1..Len(matching), j \in 1..Len(matching) :
             i < j /\ matching[i] = a /\ matching[j] = b
      BY <2>1 DEF Precedes
    <3>2. Precedes(TableSeq, matching[i], matching[j])
      BY <1>2, <3>1
    <3> QED BY <3>1, <3>2
  <2> QED BY <1>6, <2>1
<1>8. DOMAIN got = 1..Len(got) /\ Range(got) = {got[i] : i \in 1..Len(got)}
  BY <1>6, SeqShape
<1>9. v = [i \in DOMAIN got |-> v[i]]
  OBVIOUS
<1>10. \A i \in 1..Len(got) :
         /\ v[i][1] = p /\ v[i][2] = d /\ v[i][3] = got[i] /\ got[i] \in Range(got)
  BY <1>8
<1> HIDE DEF v, p, d
<1>11. IsSeq(v) /\ Len(v) = Len(got)
  BY <1>6, <1>9, MapSeq
<1>12. Range(v) = {v[i] : i \in 1..Len(v)}
  BY <1>11, SeqShape
<1>13. p = t.project /\ d = t.dataset /\ ProjectListed(p) /\ DatasetAsked(d)
  BY DEF Fitting, p, d
<1>14. \A x : TablesSought(Asked, x) <=>
                /\ ProjectListed(x[1]) /\ DatasetAsked(x[2])
                /\ FullMatch(x[3], Args.table, Args.metadata_id)
                /\ Args.types = {"%"} \/ NormalizeRestTableType(TableInfo[x].type) \in Args.types
  BY TablesMeaning DEF TablesAsked
<1>15. \A n \in S : <<p, d, n>> \in seen.ever
  BY <1>3, <1>13 DEF Sees, Visible, Listing
<1>16. \A n \in Range(got) : TablesSought(Asked, <<p, d, n>>) /\ <<p, d, n>> \in seen.ever
  BY <1>2, <1>5, <1>6, <1>13, <1>14, <1>15
<1>17. \A w \in Range(v) : Sound(t, w)
  <2>1. ASSUME NEW i \in 1..Len(v)
        PROVE  Sound(t, v[i])
    <3> DEFINE w == v[i]
    <3>1. w[1] = p /\ w[2] = d /\ w[3] \in Range(got)
      BY <1>10, <1>11
    <3> HIDE DEF w
    <3>2. TablesSought(Asked, <<w[1], w[2], w[3]>>) /\ <<w[1], w[2], w[3]>> \in seen.ever
      BY <1>16, <3>1
    <3>3. Sound(t, w)
      BY <1>13, <3>1, <3>2 DEF Sound
    <3> QED BY <3>3 DEF w
  <2> QED BY <1>12, <2>1
<1>18. ASSUME NEW x \in Lasting, Aims(t, x)
       PROVE  \E w \in Range(v) : Shows(t, w, x)
  <2>1. p = x[1] /\ d = x[2]
    BY <1>13, <1>18 DEF Aims
  <2>2. /\ x \in store.tables /\ x = <<x[1], x[2], x[3]>> /\ x[3] \in Range(TableSeq)
        /\ FullMatch(x[3], Args.table, Args.metadata_id)
        /\ Args.types = {"%"} \/ NormalizeRestTableType(TableInfo[x].type) \in Args.types
    BY LastingAsked
  <2>3. x = <<p, d, x[3]>>
    BY <2>1, <2>2
  <2>4. x[3] \in S
    BY <1>3, <2>2, <2>3
  <2>5. x[3] \in T
    BY <1>5, <2>2, <2>3, <2>4
  <2>6. x[3] \in Range(got)
    BY <1>2, <1>6, <2>2, <2>4, <2>5
  <2>7. PICK i \in 1..Len(got) : got[i] = x[3]
    BY <1>8, <2>6
  <2>8. v[i] \in Range(v) /\ <<v[i][1], v[i][2], v[i][3]>> = x
    BY <1>10, <1>11, <1>12, <2>3, <2>7
  <2> QED BY <2>8 DEF Shows
<1>19. \A a, b \in 1..Len(v) : a < b => InTurn(t, v[a], v[b])
  <2>1. ASSUME NEW a \in 1..Len(v), NEW b \in 1..Len(v), a < b
        PROVE  Precedes(TableSeq, v[a][3], v[b][3])
    <3>1. v[a][3] = got[a] /\ v[b][3] = got[b]
      BY <1>10, <1>11
    <3>2. Precedes(TableSeq, got[a], got[b])
      BY <1>7, <1>11, <2>1
    <3> QED BY <3>1, <3>2
  <2> QED BY <2>1 DEF InTurn
<1> QED BY <1>1, <1>17, <1>18, <1>19 DEF Gives

LEMMA OneValue ==
  ASSUME NEW y
  PROVE  Len(<<y>>) = 1 /\ \A z : z \in Range(<<y>>) <=> z = y
<1> DEFINE v == <<y>>
<1>1. IsSeq(v) /\ Len(v) = 1 /\ v[1] = y
  BY Singleton
<1> HIDE DEF v
<1>2. Range(v) = {v[i] : i \in 1..1}
  BY <1>1, SeqShape
<1> QED BY <1>1, <1>2 DEF v

\* The tables of a dataset stay together.
LEMMA BatchGiven ==
  ASSUME Shape, Sees, ArgsInv, Listing, NEW t, Fitting(t), t.kind = "tables", Args.fn = "columns"
  PROVE  Gives(t, Kept(Args, t, TablesOf(t.project, t.dataset)))
<1> DEFINE p == t.project
           d == t.dataset
           S == {n \in Range(TableSeq) : <<p, d, n>> \in store.tables}
           got == Matching(Selected(TableSeq, S), Args.table, Args.metadata_id)
           w == [i \in DOMAIN got |-> <<p, d, got[i]>>]
           v == <<w>>
<1>1. Kept(Args, t, TablesOf(t.project, t.dataset)) = v
  BY DEF Kept, TablesOf
<1>2. /\ IsSeq(got) /\ DOMAIN got = 1..Len(got)
      /\ \A n : n \in Range(got) <=> /\ n \in Range(TableSeq) /\ n \in S
                                     /\ FullMatch(n, Args.table, Args.metadata_id)
      /\ \A k, l \in 1..Len(got) : k < l => Precedes(TableSeq, got[k], got[l])
  <2> HIDE DEF S
  <2> QED BY MatchedNames, ListSeqs
<1>3. \A n : n \in S <=> n \in Range(TableSeq) /\ <<p, d, n>> \in store.tables
  OBVIOUS
<1> HIDE DEF S, got
<1>4. w = [i \in DOMAIN got |-> w[i]]
  OBVIOUS
<1>5. \A i \in 1..Len(got) : w[i] = <<p, d, got[i]>> /\ w[i][3] = got[i] /\ got[i] \in Range(got)
  BY <1>2, SeqShape
<1> HIDE DEF w, p, d
<1>6. IsSeq(w) /\ Len(w) = Len(got)
  BY <1>2, <1>4, MapSeq
<1>7. Range(w) = {w[i] : i \in 1..Len(w)} /\ Range(got) = {got[i] : i \in 1..Len(got)}
  BY <1>2, <1>6, SeqShape
<1>8. p = t.project /\ d = t.dataset /\ p = Args.catalog /\ DatasetAsked(d)
  BY DEF Fitting, ProjectListed, p, d
<1>9. \A x : ColumnsSought(Asked, x) <=>
              /\ x[1] = Args.catalog /\ DatasetAsked(x[2])
              /\ FullMatch(x[3], Args.table, Args.metadata_id)
  BY ColumnsMeaning
<1>10. \A n \in Range(got) : ColumnsSought(Asked, <<p, d, n>>)
  BY <1>2, <1>8, <1>9
<1>11. \A i \in 1..Len(w) : w[i] = <<p, d, w[i][3]>> /\ ColumnsSought(Asked, w[i])
  BY <1>5, <1>6, <1>10
<1>12. \A i, j \in 1..Len(w) : i < j => Precedes(TableSeq, w[i][3], w[j][3])
  BY <1>2, <1>5, <1>6
<1>13. Sound(t, w)
  BY <1>6, <1>8, <1>11, <1>12 DEF Sound
<1>14. ASSUME NEW x \in Lasting, Aims(t, x)
       PROVE  x \in Range(w)
  <2>1. p = x[1] /\ d = x[2]
    BY <1>8, <1>14 DEF Aims
  <2>2. /\ x \in store.tables /\ x = <<x[1], x[2], x[3]>> /\ x[3] \in Range(TableSeq)
        /\ FullMatch(x[3], Args.table, Args.metadata_id)
    BY LastingAsked
  <2>3. x = <<p, d, x[3]>>
    BY <2>1, <2>2
  <2>4. x[3] \in Range(got)
    BY <1>2, <1>3, <2>2, <2>3
  <2>5. PICK i \in 1..Len(got) : got[i] = x[3]
    BY <1>7, <2>4
  <2>6. w[i] = x /\ i \in 1..Len(w)
    BY <1>5, <1>6, <2>3, <2>5
  <2> QED BY <1>7, <2>6
<1>15. \A x \in Lasting : Aims(t, x) => Shows(t, w, x)
  BY <1>14 DEF Shows
<1>16. Len(v) = 1 /\ \A y : y \in Range(v) <=> y = w
  BY OneValue
<1> HIDE DEF v
<1>17. \A a, b \in 1..1 : ~(a < b)
  OBVIOUS
<1> QED BY <1>1, <1>13, <1>15, <1>16, <1>17 DEF Gives

LEMMA TableGiven ==
  ASSUME Shape, Sees, ArgsInv, Listing, NEW t, Fitting(t), t.kind = "table",
         t.project \in store.open, <<t.project, t.dataset>> \in store.datasets,
         <<t.project, t.dataset, t.name>> \in store.tables
  PROVE  Gives(t, Kept(Args, t, <<t.name>>))
<1> DEFINE y == <<t.project, t.dataset, t.name>>
           v == <<y>>
           names == <<t.name>>
           u == [i \in DOMAIN names |-> <<t.project, t.dataset, names[i]>>]
<1>1. Kept(Args, t, <<t.name>>) = u
  BY DEF Kept
<1>2. u = v
  <2>1. DOMAIN names = {1} /\ names[1] = t.name
    BY Singleton
  <2>2. u = [i \in {1} |-> y]
    BY <2>1
  <2>3. v = [i \in {1} |-> y]
    OBVIOUS
  <2> QED BY <2>2, <2>3
<1>3. y[1] = t.project /\ y[2] = t.dataset
  OBVIOUS
<1>4. y \in seen.ever
  BY <1>3 DEF Sees, Visible, Listing
<1>5. Len(v) = 1 /\ \A z : z \in Range(v) <=> z = y
  BY Singleton, SeqShape, SMTT(30)
<1> HIDE DEF v, u
<1>6. Sound(t, y)
  BY <1>4 DEF Sound
<1>7. \A x \in Lasting : Aims(t, x) => Shows(t, y, x)
  BY DEF Aims, Shows
<1>8. \A a, b \in 1..1 : ~(a < b)
  OBVIOUS
<1> QED BY <1>1, <1>2, <1>5, <1>6, <1>7, <1>8 DEF Gives

\* Where a table that lasts may be, BigQuery answers; a validation may fail.
LEMMA LastingAnswered ==
  ASSUME Shape, Sees, ArgsInv, Listing, NEW t, t.kind \in {"projects", "datasets", "tables", "table"},
         NEW x \in Lasting, Aims(t, x)
  PROVE  Answered(t).ok
<1>1. /\ x \in store.tables /\ x[1] \in store.open /\ <<x[1], x[2]>> \in store.datasets
      /\ x = <<x[1], x[2], x[3]>>
  BY LastingAsked
<1>2. t.kind \in AllKinds
  BY DEF AllKinds
<1>3. t.kind # "projects" => t.project = x[1]
  BY <1>1 DEF Aims
<1>4. t.kind \in {"tables", "table"} => t.dataset = x[2]
  BY <1>1 DEF Aims
<1>5. t.kind = "table" => t.name = x[3]
  BY <1>1 DEF Aims
<1>6. \E v : Answered(t) = Ok(v)
  BY <1>1, <1>2, <1>3, <1>4, <1>5, AnsweredKinds
<1> QED BY <1>6, OkShape

LEMMA NothingGiven ==
  ASSUME NEW t, \A x \in Lasting : ~Aims(t, x)
  PROVE  Gives(t, <<>>)
<1>1. Len(<<>>) = 0 /\ Range(<<>>) = {}
  BY DEF Range
<1> QED BY <1>1 DEF Gives

LEMMA ResultRight ==
  ASSUME Shape, Sees, ArgsInv, Listing, NEW t, Fitting(t),
         t.kind \in {"projects", "validate", "datasets", "tables", "table"},
         t.kind = "projects" => Args.fn = "tables",
         NEW given, given = Answered(t) \/ given = Error("other"),
         TaskResult(Args, t, given).ok,
         t.kind = "validate" /\ ~given.ok => \A x \in Lasting : ~Aims(t, x)
  PROVE  Gives(t, TaskResult(Args, t, given).value)
<1> DEFINE r == TaskResult(Args, t, given)
<1>1. t.kind \in AllKinds /\ "other" \in Codes
  BY DEF AllKinds, Codes
<1>2. GivenShape(given)
  BY <1>1, AnsweredShape, OkShape
<1>3. \/ given.ok = TRUE /\ r = Ok(Kept(Args, t, given.value))
      \/ given.ok = FALSE /\ given.code \in Tolerated(Args, t.kind) /\ r = Ok(<<>>)
      \/ given.ok = FALSE /\ r = given
  BY <1>2 DEF TaskResult, Missing, GivenShape, Listing
<1>4. CASE given.ok = FALSE
  <2>1. given.code \in Tolerated(Args, t.kind) /\ r.value = <<>>
    BY <1>3, <1>4, OkShape
  <2>2. t.kind # "validate" => given.code # "other"
    BY <2>1 DEF Tolerated
  <2>3. t.kind # "validate" => given = Answered(t)
    BY <2>2, OkShape
  <2>4. \A x \in Lasting : ~Aims(t, x)
    BY <1>4, <2>3, LastingAnswered
  <2> QED BY <2>1, <2>4, NothingGiven
<1>5. CASE given.ok = TRUE
  <2>1. given = Answered(t)
    BY <1>5, OkShape
  <2>2. r.value = Kept(Args, t, given.value)
    BY <1>3, <1>5, OkShape
  <2>3. CASE t.kind = "validate"
    BY <2>2, <2>3, ValidateGiven
  <2>4. CASE t.kind # "validate"
    <3> DEFINE v == given.value
    <3>1. \/ t.kind = "projects" /\ v = Selected(ProjectSeq, store.open)
          \/ t.kind = "datasets" /\ v = DatasetsOf(t.project)
          \/ /\ t.kind \in {"tables", "table"}
             /\ t.project \in store.open /\ <<t.project, t.dataset>> \in store.datasets
             /\ \/ t.kind = "tables" /\ v = TablesOf(t.project, t.dataset)
                \/ /\ t.kind = "table" /\ <<t.project, t.dataset, t.name>> \in store.tables
                   /\ v = <<t.name>>
      BY <1>1, <1>5, <2>1, <2>4, AnsweredKinds, OkShape
    <3> HIDE DEF v
    <3>2. r.value = Kept(Args, t, v)
      BY <2>2 DEF v
    <3>3. Gives(t, Kept(Args, t, v))
      BY <3>1, ProjectsGiven, DatasetsGiven, TablesGiven, BatchGiven, TableGiven DEF Listing
    <3> QED BY <3>2, <3>3
  <2> QED BY <2>3, <2>4
<1>6. given.ok \in BOOLEAN
  BY <1>2 DEF GivenShape
<1> QED BY <1>4, <1>5, <1>6

-----------------------------------------------------------------------------
(* The answers of a round are right.                                       *)

\* An answer is taken: the round without the request, with what it gave and
\* with the requests that follow.
LEMMA CollectRound ==
  ASSUME Shape, Listing, NEW i \in DOMAIN pool.running, Collect(i)
  PROVE  LET r == pool.running[i] IN
         /\ pool'.inputs = pool.inputs /\ pool.next <= pool'.next /\ r.ready
         /\ \A j \in 1..Len(pool'.running) :
              \/ \E l \in 1..Len(pool.running) : l # i /\ pool'.running[j] = pool.running[l]
              \/ /\ pool'.running[j] = Start(pool'.running[j].at)
                 /\ pool'.running[j].at \in pool.next..(pool'.next - 1)
         /\ \A l \in 1..Len(pool.running) : l # i =>
              \E j \in 1..Len(pool'.running) : pool'.running[j] = pool.running[l]
         /\ \A k \in pool.next..(pool'.next - 1) :
              \E j \in 1..Len(pool'.running) : pool'.running[j].at = k
         /\ \/ pool'.done = pool.done /\ pool'.error # "none"
            \/ /\ r.result.ok /\ pool.error = "none" /\ pool'.error = "none"
               /\ pool'.done = pool.done \o Tagged(r.at, r.result.value)
<1> DEFINE r == pool.running[i]
<1>1. PICK m : Takes(i, m) /\ pool' \in {m, Filled(m)}
  BY TakesSome
<1>2. /\ RoundShape(m) /\ RunningShape(m) /\ IsSeq(Rest(i)) /\ m.running = Rest(i)
  BY <1>1, TakesShape DEF Takes
<1>3. Starts(m, m)
  <2>1. Len(m.running) \in Nat /\ m.next \in Nat
    BY <1>2, SeqShape DEF RoundShape
  <2> QED BY <2>1 DEF Starts
<1>4. RoundShape(pool') /\ Starts(m, pool')
  BY <1>1, <1>2, <1>3, FilledShape
<1>5. /\ i \in 1..Len(pool.running) /\ Underway(pool, r) /\ IsSeq(pool.running)
      /\ pool.error \in Codes \cup {"none"}
      /\ Request(i).kind \in Kinds(call.stage) /\ Args.fn \in StageFns[call.stage]
      /\ call.stage \in Stages \ {"idle"}
  BY RequestKind DEF Shape, RoundShape, CallShape, Args, Idle
<1>6. Request(i).kind # "routines"
  <2>1. call.stage # "routines"
    BY <1>5 DEF Listing, StageFns, Stages
  <2> QED BY <1>5, <2>1 DEF Kinds
<1>7. /\ \A k \in 1..Len(Rest(i)) :
           /\ Back(i, k) \in 1..Len(pool.running) /\ Back(i, k) # i
           /\ Rest(i)[k] = pool.running[Back(i, k)]
      /\ \A j \in 1..Len(pool.running) : j # i => \E k \in 1..Len(Rest(i)) : Rest(i)[k] = pool.running[j]
  <2> DEFINE s == pool.running
  <2>1. IsSeq(s) /\ i \in 1..Len(s)
    BY <1>5
  <2> HIDE DEF s
  <2>2. /\ \A k \in 1..Len(RemoveAt(s, i)) :
              /\ Back(i, k) \in 1..Len(s) /\ Back(i, k) # i /\ RemoveAt(s, i)[k] = s[Back(i, k)]
        /\ \A j \in 1..Len(s) : j # i => \E k \in 1..Len(RemoveAt(s, i)) : Back(i, k) = j
    BY <2>1, RestOf
  <2>3. \A j \in 1..Len(s) : j # i => \E k \in 1..Len(RemoveAt(s, i)) : RemoveAt(s, i)[k] = s[j]
    <3> SUFFICES ASSUME NEW j \in 1..Len(s), j # i
                 PROVE  \E k \in 1..Len(RemoveAt(s, i)) : RemoveAt(s, i)[k] = s[j]
      OBVIOUS
    <3>1. PICK k \in 1..Len(RemoveAt(s, i)) : Back(i, k) = j
      BY <2>2
    <3>2. RemoveAt(s, i)[k] = s[Back(i, k)]
      BY <2>2
    <3> QED BY <3>1, <3>2
  <2> QED BY <2>2, <2>3 DEF Rest, s
<1>8. m.next = pool.next /\ pool'.inputs = m.inputs /\ pool'.done = m.done /\ pool'.error = m.error
      /\ m.next <= pool'.next
  BY <1>1, <1>4 DEF Takes, Starts
<1>9. m.inputs = pool.inputs
  BY <1>1, <1>6 DEF Takes
<1>10. r.ready
  BY DEF Collect, MayCollect
<1>11. r.result.ok \in BOOLEAN /\ (~r.result.ok => r.result.code # "none")
  BY <1>5 DEF Underway, Codes
<1>12. \/ pool'.done = pool.done /\ pool'.error # "none"
       \/ /\ r.result.ok /\ pool.error = "none" /\ pool'.error = "none"
          /\ pool'.done = pool.done \o Tagged(r.at, r.result.value)
  <2>1. m.done = pool.done \/ m.done = pool.done \o Tagged(r.at, r.result.value)
    BY <1>1, <1>6 DEF Takes
  <2> QED BY <1>1, <1>6, <1>8, <1>11, <2>1 DEF Takes
<1>13. Len(m.running) \in Nat /\ Len(pool'.running) \in Nat /\ Len(m.running) <= Len(pool'.running)
  BY <1>2, <1>4, SeqShape DEF RoundShape, Starts
<1> DEFINE q == pool'
           L == Len(m.running)
           M == Len(q.running)
<1>14. /\ \A j \in 1..L : q.running[j] = m.running[j]
       /\ \A j \in 1..M : j > L =>
            q.running[j] = Start(q.running[j].at) /\ q.running[j].at \in m.next..(q.next - 1)
       /\ \A k \in m.next..(q.next - 1) : \E j \in 1..M : j > L /\ q.running[j].at = k
  BY <1>4 DEF Starts
<1>15. \A j \in 1..M : j \in 1..L \/ j > L
  <2> HIDE DEF M, L
  <2> QED BY <1>13 DEF M, L
<1>16. \A j \in 1..L : j \in 1..M
  <2> HIDE DEF M, L
  <2> QED BY <1>13 DEF M, L
<1>17. ASSUME NEW j \in 1..M
       PROVE  \/ \E l \in 1..Len(pool.running) : l # i /\ q.running[j] = pool.running[l]
              \/ /\ q.running[j] = Start(q.running[j].at)
                 /\ q.running[j].at \in pool.next..(q.next - 1)
  <2>1. CASE j \in 1..L
    <3>1. q.running[j] = Rest(i)[j] /\ j \in 1..Len(Rest(i))
      BY <1>2, <1>14, <2>1
    <3> QED BY <1>7, <3>1
  <2>2. CASE j > L
    BY <1>8, <1>14, <2>2
  <2> QED BY <1>15, <2>1, <2>2
<1>18. ASSUME NEW l \in 1..Len(pool.running), l # i
       PROVE  \E j \in 1..M : q.running[j] = pool.running[l]
  <2>1. PICK k \in 1..Len(Rest(i)) : Rest(i)[k] = pool.running[l]
    BY <1>7, <1>18
  <2>2. k \in 1..L /\ q.running[k] = Rest(i)[k]
    BY <1>2, <1>14
  <2> QED BY <1>16, <2>1, <2>2
<1>19. \A k \in pool.next..(q.next - 1) : \E j \in 1..M : q.running[j].at = k
  BY <1>8, <1>14
<1> QED BY <1>8, <1>9, <1>10, <1>12, <1>17, <1>18, <1>19

\* The answer of a request is right.
LEMMA RespondAnswers ==
  ASSUME Shape, Sees, ArgsInv, InputsInv, Listing, NEW i \in DOMAIN pool.running,
         NEW given, given = Answered(Request(i)) \/ given = Error("other"), Respond(i, given),
         Later, NEW t, t = Request(i), NEW r, r = TaskResult(Args, t, given), r.ok
  PROVE  /\ Right(t, Range(r.value))'
         /\ \A a, b \in 1..Len(r.value) : a < b => InTurn(t, r.value[a], r.value[b])'
<1>1. /\ t.kind \in Kinds(call.stage) /\ t.kind \in AllKinds /\ Args.fn \in StageFns[call.stage]
      /\ call.stage \in Stages \ {"idle"} /\ pool.running[i].at \in 1..Len(pool.inputs)
      /\ t = pool.inputs[pool.running[i].at]
  BY RequestKind DEF Args, Shape, CallShape, Idle
<1>2. Fitting(t)
  BY <1>1 DEF InputsInv
<1>3. t.kind \in {"projects", "validate", "datasets", "tables", "table"}
      /\ (t.kind \in {"projects", "validate"} => Args.fn = "tables")
  BY <1>1, SMTT(30) DEF Kinds, StageFns, TablesFns, Stages, Listing
<1>4. GivenShape(given)
  BY <1>1, AnsweredShape, OkShape DEF Codes
<1>5. \A a, b \in 1..Len(r.value) : InTurn(t, r.value[a], r.value[b])' <=>
                                    InTurn(t, r.value[a], r.value[b])
  BY SameAsks DEF Later
<1>6. CASE t.kind = "validate" /\ ~given.ok
  <2>1. t.project \in seen'.doubtful
    BY <1>6, RespondSeen DEF Sees
  <2>2. \A x \in Lasting' : ~Aims(t, x)
    <3>1. Args' = Args
      BY DEF Later, Same
    <3>2. \A x \in Lasting' : x[1] \notin seen'.doubtful
      BY <1>3, <1>6, <3>1 DEF Lasting
    <3> QED BY <1>6, <2>1, <3>2 DEF Aims
  <2>3. \A x : Aims(t, x)' <=> Aims(t, x)
    BY SameAsks DEF Later
  <2>4. r.value = <<>> /\ Len(<<>>) = 0 /\ Range(<<>>) = {}
    <3>1. given.code \in {"403", "404", "other"}
      BY <1>4, <1>6 DEF GivenShape, Codes
    <3>2. r = Ok(<<>>)
      BY <1>6, <3>1 DEF TaskResult, Tolerated
    <3> QED BY <3>2, OkShape DEF Range
  <2>5. Right(t, {})'
    BY <2>2, <2>3 DEF Right
  <2>6. Range(r.value) = {} /\ 1..Len(r.value) = {}
    <3>1. Range(r.value) = {} /\ Len(r.value) = 0
      BY <2>4
    <3> QED BY <3>1
  <2>7. Right(t, Range(r.value))'
    BY <2>5, <2>6
  <2> QED BY <2>6, <2>7
<1>7. CASE ~(t.kind = "validate" /\ ~given.ok)
  <2>1. Gives(t, r.value)
    BY <1>1, <1>2, <1>3, <1>7, ResultRight
  <2>2. Right(t, Range(r.value))
    BY <2>1 DEF Gives, Right
  <2>3. Right(t, Range(r.value))'
    BY <2>2, LaterRight
  <2> QED BY <1>5, <2>1, <2>3 DEF Gives
<1> QED BY <1>6, <1>7

LEMMA AnswersRespond ==
  ASSUME Shape, Sees, ArgsInv, InputsInv, AnswersInv, NEW i \in DOMAIN pool.running,
         NEW given, given = Answered(Request(i)) \/ given = Error("other"), Respond(i, given),
         Later
  PROVE  AnswersInv'
<1>1. Same /\ call' = call
  BY DEF Later, Respond
<1>2. Listing' <=> Listing
  BY <1>1, SameListing
<1> SUFFICES ASSUME Listing PROVE AnswersInv'
  BY <1>2 DEF AnswersInv
<1>3. PICK t : t = Request(i)
  OBVIOUS
<1>4. PICK r : r = TaskResult(Args, t, given)
  OBVIOUS
<1>5. /\ pool'.inputs = pool.inputs /\ pool'.next = pool.next
      /\ pool'.done = pool.done /\ pool'.error = pool.error
      /\ Len(pool'.running) = Len(pool.running)
      /\ \A j \in 1..Len(pool.running) : j # i => pool'.running[j] = pool.running[j]
      /\ pool'.running[i] = [at |-> pool.running[i].at, ready |-> TRUE, result |-> r]
  BY <1>3, <1>4, RespondPool DEF Args
<1>6. t = pool.inputs[pool.running[i].at] /\ i \in 1..Len(pool.running)
  BY <1>3, RequestKind
<1>7. /\ \A u, s : Answers(u, s) => Answers(u, s)'
      /\ \A u, g : Right(u, g) => Right(u, g)'
  BY LaterAnswers, LaterRight
<1>8. \A u, v, w : InTurn(u, v, w)' <=> InTurn(u, v, w)
  BY <1>1, SameAsks
<1>9. \A j \in 1..Len(pool.running) : pool'.running[j].at = pool.running[j].at
  <2>1. pool'.running[i].at = pool.running[i].at
    BY <1>5
  <2> QED BY <1>5, <2>1
<1>10. \A k : IsRunning(k)' <=> IsRunning(k)
  BY <1>5, <1>9 DEF IsRunning
<1>11. \A k : DoneAt(k)' = DoneAt(k)
  BY <1>5 DEF DoneAt
<1>12. ASSUME NEW c, c = pool'.running[i]
       PROVE  Answers(t, c)'
  <2>1. c.result = r /\ c.ready = TRUE
    BY <1>5, <1>12
  <2>2. r.ok => Right(t, Range(r.value))'
    BY <1>3, <1>4, RespondAnswers
  <2>3. r.ok => \A a, b \in 1..Len(r.value) : a < b => InTurn(t, r.value[a], r.value[b])'
    BY <1>3, <1>4, RespondAnswers
  <2> QED BY <2>1, <2>2, <2>3 DEF Answers
<1>13. ASSUME NEW j \in 1..Len(pool.running), NEW u, NEW c,
              u = pool.inputs[pool.running[j].at], c = pool'.running[j]
       PROVE  Answers(u, c)'
  <2>1. CASE j = i
    BY <1>6, <1>12, <1>13, <2>1
  <2>2. CASE j # i
    <3>1. c = pool.running[j]
      BY <1>5, <1>13, <2>2
    <3>2. Answers(u, c)
      BY <1>13, <3>1 DEF AnswersInv
    <3> QED BY <1>7, <3>2
  <2> QED BY <2>1, <2>2
<1>14. (\A j \in 1..Len(pool.running) : Answers(pool.inputs[pool.running[j].at], pool.running[j]))'
  <2> SUFFICES ASSUME NEW j \in 1..Len(pool'.running)
               PROVE  Answers(pool.inputs[pool.running[j].at], pool.running[j])'
    OBVIOUS
  <2>1. \A u, c : u = pool'.inputs[pool'.running[j].at] /\ c = pool'.running[j] => Answers(u, c)'
    BY <1>5, <1>9, <1>13
  <2> QED BY <2>1
<1>15. (\A j \in 1..Len(pool.done) :
          pool.done[j].at \in 1..(pool.next - 1) /\ ~IsRunning(pool.done[j].at))'
  <2> SUFFICES ASSUME NEW j \in 1..Len(pool.done)
               PROVE  pool.done[j].at \in 1..(pool.next - 1) /\ ~IsRunning(pool.done[j].at)'
    BY <1>5
  <2>1. pool.done[j].at \in 1..(pool.next - 1) /\ ~IsRunning(pool.done[j].at)
    BY DEF AnswersInv
  <2>2. \A k : k = pool'.done[j].at => ~IsRunning(k)'
    BY <1>5, <1>10, <2>1
  <2> QED BY <1>5, <2>1, <2>2
<1>16. (\A k, l \in 1..Len(pool.done) :
          k < l /\ pool.done[k].at = pool.done[l].at =>
            InTurn(pool.inputs[pool.done[k].at], pool.done[k].what, pool.done[l].what))'
  <2> SUFFICES ASSUME NEW k \in 1..Len(pool.done), NEW l \in 1..Len(pool.done), k < l,
                      pool.done[k].at = pool.done[l].at
               PROVE  InTurn(pool.inputs[pool.done[k].at], pool.done[k].what, pool.done[l].what)'
    BY <1>5
  <2>1. InTurn(pool.inputs[pool.done[k].at], pool.done[k].what, pool.done[l].what)
    BY DEF AnswersInv
  <2>2. \A u, v, w : u = pool'.inputs[pool'.done[k].at] /\ v = pool'.done[k].what /\ w = pool'.done[l].what
          => InTurn(u, v, w)'
    BY <1>5, <1>8, <2>1
  <2> QED BY <2>2
<1>17. (pool.error = "none" =>
          \A k \in 1..(pool.next - 1) : ~IsRunning(k) => Right(pool.inputs[k], DoneAt(k)))'
  <2> SUFFICES ASSUME pool.error = "none", NEW k \in 1..(pool.next - 1), ~IsRunning(k)
               PROVE  Right(pool.inputs[k], DoneAt(k))'
    BY <1>5, <1>10
  <2>1. Right(pool.inputs[k], DoneAt(k))
    BY DEF AnswersInv
  <2>2. \A u, g : u = pool'.inputs[k] /\ g = DoneAt(k)' => Right(u, g)'
    BY <1>5, <1>7, <1>11, <2>1
  <2> QED BY <2>2
<1> QED BY <1>14, <1>15, <1>16, <1>17 DEF AnswersInv

LEMMA AnswersCollect ==
  ASSUME Shape, AnswersInv, NEW i \in DOMAIN pool.running, Collect(i)
  PROVE  AnswersInv'
<1>1. Later /\ Same /\ call' = call
  BY DEF Later, Same, Collect, Args, Asked
<1>2. Listing' <=> Listing
  BY <1>1, SameListing
<1> SUFFICES ASSUME Listing PROVE AnswersInv'
  BY <1>2 DEF AnswersInv
<1>3. /\ \A u, s : Answers(u, s) => Answers(u, s)'
      /\ \A u, g : Right(u, g) => Right(u, g)'
  BY <1>1, LaterAnswers, LaterRight
<1>4. \A u, v, w : InTurn(u, v, w)' <=> InTurn(u, v, w)
  BY <1>1, SameAsks
<1> DEFINE r == pool.running[i]
           X == pool.next
           Y == pool'.next
<1>5. /\ pool'.inputs = pool.inputs /\ X <= Y /\ r.ready
      /\ \A j \in 1..Len(pool'.running) :
           \/ \E l \in 1..Len(pool.running) : l # i /\ pool'.running[j] = pool.running[l]
           \/ /\ pool'.running[j] = Start(pool'.running[j].at) /\ pool'.running[j].at \in X..(Y - 1)
      /\ \A l \in 1..Len(pool.running) : l # i =>
           \E j \in 1..Len(pool'.running) : pool'.running[j] = pool.running[l]
      /\ \A k \in X..(Y - 1) : \E j \in 1..Len(pool'.running) : pool'.running[j].at = k
      /\ \/ pool'.done = pool.done /\ pool'.error # "none"
         \/ /\ r.result.ok /\ pool.error = "none" /\ pool'.error = "none"
            /\ pool'.done = pool.done \o Tagged(r.at, r.result.value)
  BY CollectRound
<1>6. /\ i \in 1..Len(pool.running) /\ Underway(pool, r) /\ r.at \in 1..Len(pool.inputs)
      /\ Request(i).kind \in Kinds(call.stage) /\ call.stage \in Stages \ {"idle"}
      /\ call.args.fn \in StageFns[call.stage] /\ Request(i) = pool.inputs[r.at]
  BY RequestKind DEF Shape, CallShape, Idle
<1>7. call.stage \notin {"idle", "keys", "routines"} /\ pool.inputs[r.at].kind # "keys"
  BY <1>6 DEF Listing, StageFns, Stages, Args, Kinds, TablesFns
<1>8. IsSeq(pool.done) /\ IsSeq(r.result.value) /\ r.at \in 1..(X - 1)
  BY <1>6, <1>7, ElementsSeq DEF Underway
<1>9. X \in Nat /\ Y \in Nat /\ X >= 1
  <2>1. RoundShape(pool) /\ RoundShape(pool')
    BY CollectShape DEF Shape
  <2>2. \A p : RoundShape(p) => p.next \in Nat /\ p.next >= 1
    <3> SUFFICES ASSUME NEW p, RoundShape(p) PROVE p.next \in Nat /\ p.next >= 1
      OBVIOUS
    <3>1. Len(p.inputs) \in Nat /\ p.next \in 1..(Len(p.inputs) + 1)
      BY SeqShape DEF RoundShape
    <3> QED BY <3>1
  <2>3. X \in Nat /\ X >= 1
    BY <2>1, <2>2
  <2>4. \A p : p = pool' => p.next \in Nat /\ p.next >= 1
    BY <2>1, <2>2
  <2> QED BY <2>3, <2>4
<1> HIDE DEF X, Y
<1>10. \A k : k \in 1..(Y - 1) <=> k \in 1..(X - 1) \/ k \in X..(Y - 1)
  BY <1>5, <1>9
<1>11. \A k \in X..(Y - 1) : k \notin 1..(X - 1)
  BY <1>9
<1>12. \A j, l \in 1..Len(pool.running) : pool.running[j].at = pool.running[l].at => j = l
  BY DEF Shape, RunningShape
\* The request no longer runs, the others of those started before still do.
<1>13. ASSUME NEW k \in 1..(X - 1)
       PROVE  IsRunning(k)' <=> IsRunning(k) /\ k # r.at
  <2>1. ASSUME NEW j \in 1..Len(pool'.running), pool'.running[j].at = k
        PROVE  IsRunning(k) /\ k # r.at
    <3>1. PICK l \in 1..Len(pool.running) : l # i /\ pool'.running[j] = pool.running[l]
      BY <1>5, <1>11, <2>1
    <3>2. pool.running[l].at = k
      BY <2>1, <3>1
    <3> QED BY <1>6, <1>12, <3>1, <3>2 DEF IsRunning
  <2>2. ASSUME NEW l \in 1..Len(pool.running), pool.running[l].at = k, k # r.at
        PROVE  IsRunning(k)'
    <3>1. l # i
      BY <2>2
    <3>2. PICK j \in 1..Len(pool'.running) : pool'.running[j] = pool.running[l]
      BY <1>5, <3>1
    <3> QED BY <2>2, <3>2 DEF IsRunning
  <2> QED BY <2>1, <2>2 DEF IsRunning
<1>14. \A k \in X..(Y - 1) : IsRunning(k)'
  BY <1>5 DEF IsRunning
<1>15. IsRunning(r.at)
  BY <1>6 DEF IsRunning
<1>16. \A j \in 1..Len(pool.done) :
         /\ pool.done[j].at \in 1..(X - 1) /\ ~IsRunning(pool.done[j].at) /\ pool.done[j].at # r.at
  BY <1>15 DEF AnswersInv, X
<1>17. (\A j \in 1..Len(pool.running) : Answers(pool.inputs[pool.running[j].at], pool.running[j]))'
  <2> SUFFICES ASSUME NEW j \in 1..Len(pool'.running)
               PROVE  Answers(pool.inputs[pool.running[j].at], pool.running[j])'
    OBVIOUS
  <2>1. CASE pool'.running[j] = Start(pool'.running[j].at)
    <3>1. pool'.running[j].ready = FALSE
      BY <2>1, StartFields
    <3> QED BY <3>1 DEF Answers
  <2>2. ASSUME NEW l \in 1..Len(pool.running), pool'.running[j] = pool.running[l]
        PROVE  Answers(pool.inputs[pool.running[j].at], pool.running[j])'
    <3>1. Answers(pool.inputs[pool.running[l].at], pool.running[l])
      BY DEF AnswersInv
    <3>2. \A u, c : u = pool'.inputs[pool'.running[j].at] /\ c = pool'.running[j] => Answers(u, c)'
      BY <1>3, <1>5, <2>2, <3>1, SMTT(30)
    <3> QED BY <3>2
  <2> QED BY <1>5, <2>1, <2>2
\* The values that were given, each as it was kept.
<1> DEFINE D == Len(pool.done)
           v == r.result.value
           tags == Tagged(r.at, v)
<1>18. /\ D \in Nat /\ Len(v) \in Nat
       /\ IsSeq(tags) /\ Len(tags) = Len(v)
       /\ \A k \in 1..Len(v) : tags[k].at = r.at /\ tags[k].what = v[k]
  BY <1>8, SeqShape, TagsOf
<1>19. /\ Len(pool.done \o tags) = D + Len(v)
       /\ \A j \in 1..D : (pool.done \o tags)[j] = pool.done[j]
       /\ \A j \in 1..(D + Len(v)) : j > D => (pool.done \o tags)[j] = tags[j - D]
  <2>1. IsSeq(pool.done) /\ IsSeq(tags)
    BY <1>8, <1>18
  <2> DEFINE s == pool.done
  <2> HIDE DEF s, tags
  <2>2. /\ Len(s \o tags) = Len(s) + Len(tags)
        /\ \A j \in 1..Len(s) : (s \o tags)[j] = s[j]
        /\ \A j \in 1..(Len(s) + Len(tags)) : j > Len(s) => (s \o tags)[j] = tags[j - Len(s)]
    BY <2>1, Joined DEF s
  <2> QED BY <1>18, <2>2 DEF s
<1> DEFINE added == r.result.ok /\ pool'.error = "none" /\ pool'.done = pool.done \o tags
<1>20. \/ pool'.done = pool.done /\ pool'.error # "none"
       \/ added /\ pool.error = "none"
  BY <1>5
<1> HIDE DEF tags, D, v
<1>21. added => \A j \in 1..Len(pool'.done) :
         \/ j \in 1..D /\ pool'.done[j] = pool.done[j]
         \/ j > D /\ j - D \in 1..Len(v) /\ pool'.done[j].at = r.at /\ pool'.done[j].what = v[j - D]
  <2> SUFFICES ASSUME added, NEW j \in 1..Len(pool'.done)
               PROVE  \/ j \in 1..D /\ pool'.done[j] = pool.done[j]
                      \/ j > D /\ j - D \in 1..Len(v) /\ pool'.done[j].at = r.at
                           /\ pool'.done[j].what = v[j - D]
    OBVIOUS
  <2>1. j \in 1..(D + Len(v)) /\ pool'.done[j] = (pool.done \o tags)[j]
    BY <1>19
  <2> DEFINE M == Len(v)
  <2>2. M \in Nat /\ D \in Nat
    BY <1>18
  <2>3. j \in 1..D \/ (j > D /\ j - D \in 1..M)
    <3> HIDE DEF M
    <3>1. j \in 1..(D + M)
      BY <2>1 DEF M
    <3> QED BY <2>2, <3>1
  <2> QED BY <1>18, <1>19, <2>1, <2>3
<1>22. (\A j \in 1..Len(pool.done) :
          pool.done[j].at \in 1..(pool.next - 1) /\ ~IsRunning(pool.done[j].at))'
  <2> SUFFICES ASSUME NEW j \in 1..Len(pool'.done)
               PROVE  pool'.done[j].at \in 1..(Y - 1) /\ ~IsRunning(pool.done[j].at)'
    BY DEF Y
  <2>1. pool'.done[j].at = r.at \/ \E l \in 1..Len(pool.done) : pool'.done[j] = pool.done[l]
    BY <1>20, <1>21 DEF D
  <2>2. pool'.done[j].at \in 1..(X - 1) /\ (pool'.done[j].at = r.at \/ ~IsRunning(pool'.done[j].at))
    BY <1>8, <1>16, <2>1
  <2>3. \A k : k = pool'.done[j].at => k \in 1..(Y - 1) /\ ~IsRunning(k)'
    BY <1>10, <1>13, <2>2
  <2> QED BY <2>3
<1>23. Answers(pool.inputs[r.at], r)
  BY <1>6 DEF AnswersInv
<1>24. r.result.ok => /\ Right(pool.inputs[r.at], Range(v))
                      /\ \A a, b \in 1..Len(v) : a < b => InTurn(pool.inputs[r.at], v[a], v[b])
  BY <1>5, <1>23 DEF Answers, v
<1>25. (\A k, l \in 1..Len(pool.done) :
          k < l /\ pool.done[k].at = pool.done[l].at =>
            InTurn(pool.inputs[pool.done[k].at], pool.done[k].what, pool.done[l].what))'
  <2> SUFFICES ASSUME NEW k \in 1..Len(pool'.done), NEW l \in 1..Len(pool'.done), k < l,
                      pool'.done[k].at = pool'.done[l].at
               PROVE  InTurn(pool.inputs[pool.done[k].at], pool.done[k].what, pool.done[l].what)'
    OBVIOUS
  <2> SUFFICES InTurn(pool.inputs[pool'.done[k].at], pool'.done[k].what, pool'.done[l].what)
    <3>1. \A u, y, w : u = pool'.inputs[pool'.done[k].at] /\ y = pool'.done[k].what /\ w = pool'.done[l].what
          => InTurn(u, y, w)'
      BY <1>4, <1>5
    <3> QED BY <3>1
  <2>1. CASE /\ k \in 1..D /\ pool'.done[k] = pool.done[k]
             /\ l \in 1..D /\ pool'.done[l] = pool.done[l]
    BY <2>1 DEF AnswersInv, D
  <2>2. CASE pool'.done = pool.done
    BY <2>2 DEF AnswersInv
  <2>3. CASE added
    <3>1. /\ \/ k \in 1..D /\ pool'.done[k] = pool.done[k]
             \/ k > D /\ k - D \in 1..Len(v) /\ pool'.done[k].at = r.at /\ pool'.done[k].what = v[k - D]
          /\ \/ l \in 1..D /\ pool'.done[l] = pool.done[l]
             \/ l > D /\ l - D \in 1..Len(v) /\ pool'.done[l].at = r.at /\ pool'.done[l].what = v[l - D]
      BY <1>21, <2>3
    <3>2. k \in Int /\ l \in Int
      OBVIOUS
    <3>3. CASE k > D /\ l > D
      <4>1. k - D \in 1..Len(v) /\ l - D \in 1..Len(v) /\ k - D < l - D
        BY <1>18, <3>1, <3>2, <3>3
      <4>2. pool'.done[k].at = r.at /\ pool'.done[k].what = v[k - D] /\ pool'.done[l].what = v[l - D]
        BY <1>18, <3>1, <3>3
      <4>3. InTurn(pool.inputs[r.at], v[k - D], v[l - D])
        BY <1>24, <2>3, <4>1
      <4> QED BY <4>2, <4>3
    <3>4. CASE k \in 1..D /\ l > D
      <4>1. pool'.done[k] = pool.done[k] /\ pool'.done[l].at = r.at
        BY <1>18, <3>1, <3>4
      <4> QED BY <1>16, <3>4, <4>1 DEF D
    <3>5. ~(k > D /\ l \in 1..D)
      BY <1>18, <3>2
    <3> QED BY <1>18, <2>1, <3>1, <3>3, <3>4, <3>5
  <2> QED BY <1>20, <2>2, <2>3
<1>26. (pool.error = "none" =>
          \A k \in 1..(pool.next - 1) : ~IsRunning(k) => Right(pool.inputs[k], DoneAt(k)))'
  <2> SUFFICES ASSUME pool'.error = "none", NEW k \in 1..(Y - 1), ~IsRunning(k)'
               PROVE  Right(pool.inputs[k], DoneAt(k))'
    BY DEF Y
  <2>1. added /\ pool.error = "none"
    BY <1>20
  <2>2. k \in 1..(X - 1) /\ (k = r.at \/ ~IsRunning(k))
    BY <1>10, <1>13, <1>14
  <2>3. \A x \in 1..Len(v) : /\ x + D \in 1..Len(pool'.done) /\ pool'.done[x + D].at = r.at
                             /\ pool'.done[x + D].what = v[x]
    <3> SUFFICES ASSUME NEW x \in 1..Len(v)
                 PROVE  /\ x + D \in 1..Len(pool'.done) /\ pool'.done[x + D].at = r.at
                        /\ pool'.done[x + D].what = v[x]
      OBVIOUS
    <3> DEFINE M == Len(v)
    <3>1. M \in Nat /\ x \in 1..M
      BY <1>18
    <3>2. x + D \in 1..(D + M) /\ x + D > D /\ (x + D) - D = x
      <4> HIDE DEF M
      <4> QED BY <1>18, <3>1
    <3>3. Len(pool'.done) = D + M
      BY <1>19, <2>1
    <3>4. x + D \in 1..Len(pool'.done)
      BY <3>2, <3>3
    <3>5. ~(x + D \in 1..D)
      BY <1>18, <3>2
    <3> QED BY <1>21, <2>1, <3>2, <3>4, <3>5
  <2>4. \A j \in 1..D : j \in 1..Len(pool'.done) /\ pool'.done[j] = pool.done[j]
    <3> SUFFICES ASSUME NEW j \in 1..D
                 PROVE  j \in 1..Len(pool'.done) /\ pool'.done[j] = pool.done[j]
      OBVIOUS
    <3> DEFINE M == Len(v)
    <3>1. j \in 1..(D + M)
      <4>1. M \in Nat
        BY <1>18
      <4> HIDE DEF M
      <4> QED BY <1>18, <4>1
    <3> QED BY <1>19, <2>1, <3>1
  <2>5. DoneAt(k)' = {pool'.done[j].what : j \in {j \in 1..Len(pool'.done) : pool'.done[j].at = k}}
    BY DEF DoneAt
  <2>6. CASE k = r.at
    <3>1. DoneAt(k)' = {v[x] : x \in 1..Len(v)}
      <4>1. \A j \in 1..Len(pool'.done) : pool'.done[j].at = k =>
              \E x \in 1..Len(v) : pool'.done[j].what = v[x]
        BY <1>16, <1>21, <2>1, <2>6 DEF D
      <4>2. \A x \in 1..Len(v) : \E j \in 1..Len(pool'.done) :
              pool'.done[j].at = k /\ pool'.done[j].what = v[x]
        BY <2>3, <2>6
      <4>3. \A w : w \in DoneAt(k)' <=>
              \E j \in 1..Len(pool'.done) : pool'.done[j].at = k /\ w = pool'.done[j].what
        BY <2>5
      <4>4. \A w : w \in DoneAt(k)' <=> \E x \in 1..Len(v) : w = v[x]
        <5> SUFFICES ASSUME NEW w
                     PROVE  w \in DoneAt(k)' <=> \E x \in 1..Len(v) : w = v[x]
          OBVIOUS
        <5>1. ASSUME NEW j \in 1..Len(pool'.done), pool'.done[j].at = k, w = pool'.done[j].what
              PROVE  \E x \in 1..Len(v) : w = v[x]
          BY <4>1, <5>1
        <5>2. ASSUME NEW x \in 1..Len(v), w = v[x]
              PROVE  \E j \in 1..Len(pool'.done) : pool'.done[j].at = k /\ w = pool'.done[j].what
          BY <4>2, <5>2
        <5> QED BY <4>3, <5>1, <5>2
      <4> QED BY <4>4
    <3>2. Range(v) = {v[x] : x \in 1..Len(v)}
      BY <1>8, SeqShape DEF v
    <3>3. Right(pool.inputs[k], Range(v))
      BY <1>24, <2>1, <2>6
    <3>4. \A u, g : u = pool'.inputs[k] /\ g = DoneAt(k)' => Right(u, g)'
      BY <1>3, <1>5, <3>1, <3>2, <3>3
    <3> QED BY <3>4
  <2>7. CASE k # r.at
    <3>1. DoneAt(k)' = DoneAt(k)
      <4>1. DoneAt(k) = {pool.done[j].what : j \in {j \in 1..D : pool.done[j].at = k}}
        BY DEF DoneAt, D
      <4>2. \A j \in 1..Len(pool'.done) : pool'.done[j].at = k => j \in 1..D /\ pool'.done[j] = pool.done[j]
        BY <1>21, <2>1, <2>7
      <4> QED BY <2>4, <2>5, <4>1, <4>2
    <3>2. Right(pool.inputs[k], DoneAt(k))
      BY <2>1, <2>2, <2>7 DEF AnswersInv, X
    <3>3. \A u, g : u = pool'.inputs[k] /\ g = DoneAt(k)' => Right(u, g)'
      BY <1>3, <1>5, <3>1, <3>2
    <3> QED BY <3>3
  <2> QED BY <2>6, <2>7
<1> QED BY <1>17, <1>22, <1>25, <1>26 DEF AnswersInv

LEMMA FreshAnswers ==
  ASSUME Shape, NEW c, GoesOn(c)
  PROVE  AnswersInv'
<1>1. /\ pool'.error = "none" /\ pool'.done = <<>>
      /\ \A i \in 1..Len(pool'.running) : pool'.running[i].ready = FALSE
      /\ \A k \in 1..(pool'.next - 1) : \E i \in 1..Len(pool'.running) : pool'.running[i].at = k
  BY FreshRound
<1>2. \A j \in 1..Len(pool'.done) : FALSE
  BY <1>1
<1>3. (\A i \in 1..Len(pool.running) : Answers(pool.inputs[pool.running[i].at], pool.running[i]))'
  BY <1>1 DEF Answers
<1>4. (\A j \in 1..Len(pool.done) :
         pool.done[j].at \in 1..(pool.next - 1) /\ ~IsRunning(pool.done[j].at))'
  BY <1>2
<1>5. (\A i, j \in 1..Len(pool.done) :
         i < j /\ pool.done[i].at = pool.done[j].at =>
           InTurn(pool.inputs[pool.done[i].at], pool.done[i].what, pool.done[j].what))'
  BY <1>2
<1>6. \A k \in 1..(pool'.next - 1) : IsRunning(k)'
  BY <1>1 DEF IsRunning
<1> QED BY <1>3, <1>4, <1>5, <1>6 DEF AnswersInv

\* What happens elsewhere makes what lasts less, and what was ever there more.
LEMMA LaterSteps ==
  ASSUME Shape, Sees,
         \/ Environment
         \/ \E i \in DOMAIN pool.running : Collect(i) \/ Reply(i) \/ ReplyFails(i)
  PROVE  Later /\ call' = call
<1>1. Same
  BY SameSteps
<1>2. CASE Environment
  <2>1. PICK s : StoreChanges(s)
    BY <1>2, EnvironmentStores DEF Shape
  <2> QED BY <1>1, <2>1, StoreSeen DEF Sees, Later
<1>3. ASSUME NEW i \in DOMAIN pool.running, Collect(i)
      PROVE  Later /\ call' = call
  BY <1>1, <1>3 DEF Collect, Later
<1>4. ASSUME NEW i, NEW given, Respond(i, given)
      PROVE  Later /\ call' = call
  <2>1. call' = call
    BY <1>4 DEF Respond
  <2> QED BY <1>1, <1>4, <2>1, RespondSeen DEF Sees, Later
<1> QED BY <1>2, <1>3, <1>4 DEF Reply, ReplyFails

LEMMA AnswersNext ==
  ASSUME Shape, Sees, ArgsInv, InputsInv, AnswersInv, Next
  PROVE  AnswersInv'
<1>1. ASSUME NEW a, GoesOn(a) \/ Ends(a)
      PROVE  AnswersInv'
  <2>1. CASE GoesOn(a)
    BY <2>1, FreshAnswers
  <2>2. CASE Ends(a)
    BY <2>2, EndsShape DEF AnswersInv, Listing
  <2> QED BY <1>1, <2>1, <2>2
<1>2. ASSUME NEW c \in Calls, Call(c)
      PROVE  AnswersInv'
  <2>1. PICK a : GoesOn(a) \/ Ends(a)
    BY <1>2, CallOutcome
  <2> QED BY <1>1, <2>1
<1>3. CASE Advance
  BY <1>1, <1>3, AdvanceOutcome
<1>4. CASE CloseCursor
  BY <1>4, ClosesOnly DEF AnswersInv, Listing
<1>5. CASE Environment
  <2>1. Later /\ call' = call
    BY <1>5, LaterSteps
  <2>2. pool' = pool
    <3>1. PICK s : StoreChanges(s)
      BY <1>5, EnvironmentStores DEF Shape
    <3> QED BY <3>1 DEF StoreChanges
  <2> QED BY <2>1, <2>2, AnswersStay
<1>6. ASSUME NEW i \in DOMAIN pool.running, Collect(i) \/ Reply(i) \/ ReplyFails(i)
      PROVE  AnswersInv'
  <2>1. CASE Collect(i)
    BY <2>1, AnswersCollect
  <2>2. ASSUME NEW given, given = Answered(Request(i)) \/ given = Error("other"), Respond(i, given)
        PROVE  AnswersInv'
    <3>1. Later
      BY <1>6, LaterSteps
    <3> QED BY <2>2, <3>1, AnswersRespond
  <2> QED BY <1>6, <2>1, <2>2 DEF Reply, ReplyFails
<1> QED BY <1>2, <1>3, <1>4, <1>5, <1>6, NextSteps

-----------------------------------------------------------------------------
(* Each round asks where the call asks to look.                            *)

\* The requests of a round are those that the call needs.
RoundRight(stage, projects, ins) ==
  /\ Distinct(ins)
  /\ \A k \in 1..Len(ins) : Fitting(ins[k])
  /\ \A x \in Lasting :
       \/ \E k \in 1..Len(ins) : Aims(ins[k], x)
       \/ stage = "projects" /\ x[1] \in Range(config.dsn.additional)
       \/ stage = "validate" /\ x[1] \in Range(projects)
  /\ stage = "projects" => Len(ins) = 1
  /\ stage = "validate" =>
       /\ Distinct(projects) /\ \A p \in Range(projects) : ProjectSought(Asked, p)
       /\ \A k \in 1..Len(ins) : ins[k].project \notin Range(projects)
  /\ Args.fn = "columns" =>
       /\ stage = "datasets" => Len(ins) = 1
       /\ \A k, l \in 1..Len(ins) :
            k < l => \/ Precedes(DatasetSeq, ins[k].dataset, ins[l].dataset)
                     \/ /\ stage = "table" /\ ins[k].dataset = ins[l].dataset
                        /\ Precedes(TableSeq, ins[k].name, ins[l].name)

LEMMA RoundIsRight ==
  RoundRight(call.stage, call.projects, pool.inputs) => InputsInv /\ ColumnOrderInv
  BY DEF RoundRight, InputsInv, ColumnOrderInv, Covered

LEMMA RoundStaysRight ==
  ASSUME Same, seen' = seen, NEW stage, NEW projects, NEW ins, RoundRight(stage, projects, ins)
  PROVE  RoundRight(stage, projects, ins)'
<1>1. /\ \A t, x : Aims(t, x)' <=> Aims(t, x)
      /\ \A t : Fitting(t)' <=> Fitting(t)
      /\ \A p : ProjectSought(Asked, p)' <=> ProjectSought(Asked, p)
  BY SameAsks, SameWanted
<1>2. Lasting' = Lasting
  BY SameAsks DEF Lasting, Same
<1>3. (\A x \in Lasting :
         \/ \E k \in 1..Len(ins) : Aims(ins[k], x)
         \/ stage = "projects" /\ x[1] \in Range(config.dsn.additional)
         \/ stage = "validate" /\ x[1] \in Range(projects))'
  <2>1. \A x \in Lasting :
         \/ \E k \in 1..Len(ins) : Aims(ins[k], x)
         \/ stage = "projects" /\ x[1] \in Range(config.dsn.additional)
         \/ stage = "validate" /\ x[1] \in Range(projects)
    BY DEF RoundRight
  <2> QED BY <1>1, <1>2, <2>1 DEF Same
<1>4. (\A k \in 1..Len(ins) : Fitting(ins[k]))'
  BY <1>1 DEF RoundRight
<1>5. (stage = "validate" => \A p \in Range(projects) : ProjectSought(Asked, p))'
  BY <1>1 DEF RoundRight
<1> QED BY <1>3, <1>4, <1>5 DEF RoundRight, Same

\* The call goes on with the round.
LEMMA RoundEntered ==
  ASSUME Shape, NEW c, NEW stage, NEW projects, NEW n \in Nat, NEW ins, IsSeq(ins),
         Round(c, stage, projects, n, ins), RoundRight(stage, projects, ins)'
  PROVE  InputsInv' /\ ColumnOrderInv'
<1>1. call' = [args |-> c, stage |-> stage, projects |-> projects]
  BY DEF Round, Shape, CallShape
<1>2. pool'.inputs = ins
  BY RoundBegins DEF Round
<1>3. RoundRight(call.stage, call.projects, pool.inputs)'
  <2>1. call'.stage = stage /\ call'.projects = projects
    BY <1>1
  <2>2. \A s, p, i : s = call'.stage /\ p = call'.projects /\ i = pool'.inputs => RoundRight(s, p, i)'
    BY <1>2, <2>1
  <2> QED BY <2>2
<1>4. RoundRight(call.stage, call.projects, pool.inputs)' => InputsInv' /\ ColumnOrderInv'
  BY RoundIsRight, PTL
<1> QED BY <1>3, <1>4

-----------------------------------------------------------------------------
(* What a round that is over has given.                                    *)

LEMMA RoundFinished ==
  ASSUME Shape, AnswersInv, Listing, RoundOver, pool.error = "none"
  PROVE  /\ \A k \in 1..Len(pool.inputs) : Right(pool.inputs[k], DoneAt(k))
         /\ \A j \in 1..Len(pool.done) : pool.done[j].at \in 1..Len(pool.inputs)
<1>1. pool.running = <<>> /\ ~Starting
  BY DEF RoundOver
<1>2. Len(pool.inputs) \in Nat /\ pool.next \in 1..(Len(pool.inputs) + 1)
  BY SeqShape DEF Shape, RoundShape
<1> DEFINE N == Len(pool.inputs)
           X == pool.next
<1>3. ~(X <= N)
  BY <1>1 DEF Starting
<1>4. X = N + 1
  <2>1. N \in Nat /\ X \in 1..(N + 1)
    BY <1>2
  <2> HIDE DEF N, X
  <2> QED BY <1>3, <2>1
<1>5. X - 1 = N
  <2>1. N \in Nat
    BY <1>2
  <2> HIDE DEF N, X
  <2> QED BY <1>4, <2>1
<1>6. \A k : ~IsRunning(k)
  <2>1. Len(pool.running) = 0
    BY <1>1
  <2> QED BY <2>1 DEF IsRunning
<1>7. /\ \A k \in 1..(X - 1) : Right(pool.inputs[k], DoneAt(k))
      /\ \A j \in 1..Len(pool.done) : pool.done[j].at \in 1..(X - 1)
  BY <1>6 DEF AnswersInv
<1> HIDE DEF X
<1> QED BY <1>5, <1>7

\* Every value was given by a request, and is right; where a table that lasts
\* may be, it was found.
LEMMA ValuesGiven ==
  ASSUME Shape, AnswersInv, Listing, RoundOver, pool.error = "none"
  PROVE  /\ \A j \in 1..Len(pool.done) :
              /\ pool.done[j].at \in 1..Len(pool.inputs)
              /\ Sound(pool.inputs[pool.done[j].at], pool.done[j].what)
         /\ \A x \in Lasting : \A k \in 1..Len(pool.inputs) : Aims(pool.inputs[k], x) =>
              \E j \in 1..Len(pool.done) :
                pool.done[j].at = k /\ Shows(pool.inputs[k], pool.done[j].what, x)
         /\ \A i, j \in 1..Len(pool.done) :
              i < j /\ pool.done[i].at = pool.done[j].at =>
                InTurn(pool.inputs[pool.done[i].at], pool.done[i].what, pool.done[j].what)
<1>1. /\ \A k \in 1..Len(pool.inputs) : Right(pool.inputs[k], DoneAt(k))
      /\ \A j \in 1..Len(pool.done) : pool.done[j].at \in 1..Len(pool.inputs)
  BY RoundFinished
<1>2. \A j \in 1..Len(pool.done) : pool.done[j].what \in DoneAt(pool.done[j].at)
  BY DEF DoneAt
<1>3. \A j \in 1..Len(pool.done) : Sound(pool.inputs[pool.done[j].at], pool.done[j].what)
  BY <1>1, <1>2 DEF Right
<1>4. ASSUME NEW x \in Lasting, NEW k \in 1..Len(pool.inputs), Aims(pool.inputs[k], x)
      PROVE  \E j \in 1..Len(pool.done) :
                pool.done[j].at = k /\ Shows(pool.inputs[k], pool.done[j].what, x)
  <2>1. PICK w \in DoneAt(k) : Shows(pool.inputs[k], w, x)
    BY <1>1, <1>4 DEF Right
  <2>2. PICK j \in 1..Len(pool.done) : pool.done[j].at = k /\ pool.done[j].what = w
    BY DEF DoneAt
  <2> QED BY <2>1, <2>2
<1>5. \A i, j \in 1..Len(pool.done) :
              i < j /\ pool.done[i].at = pool.done[j].at =>
                InTurn(pool.inputs[pool.done[i].at], pool.done[i].what, pool.done[j].what)
  BY DEF AnswersInv
<1> QED BY <1>1, <1>3, <1>4, <1>5

\* No two values are given by one request unless one comes before the other.
LEMMA ListsDistinct ==
  /\ Distinct(ProjectSeq) /\ Distinct(DatasetSeq) /\ Distinct(TableSeq)
  /\ \A dsn \in Dsns : Distinct(dsn.allowed) /\ Distinct(dsn.additional)
<1>1. \A s : IsSeq(s) /\ IsInjective(s) => Distinct(s)
  <2> SUFFICES ASSUME NEW s, IsSeq(s), IsInjective(s) PROVE Distinct(s)
    OBVIOUS
  <2>1. DOMAIN s = 1..Len(s)
    BY SeqShape
  <2>2. \A i, j \in DOMAIN s : s[i] = s[j] => i = j
    BY DEF IsInjective
  <2> QED BY <2>1, <2>2 DEF Distinct
<1>2. IsInjective(ProjectSeq) /\ IsInjective(DatasetSeq) /\ IsInjective(TableSeq)
  BY ListsAssumption
<1>3. \A dsn \in Dsns : IsInjective(dsn.allowed) /\ IsInjective(dsn.additional)
  BY CatalogAssumption
<1> QED BY <1>1, <1>2, <1>3, ListSeqs

LEMMA NoneTwice ==
  /\ \A a : ~Precedes(ProjectSeq, a, a) /\ ~Precedes(DatasetSeq, a, a) /\ ~Precedes(TableSeq, a, a)
  /\ \A dsn \in Dsns : \A a : ~Precedes(dsn.allowed, a, a) /\ ~Precedes(dsn.additional, a, a)
<1>1. \A s, a : IsSeq(s) /\ Distinct(s) => ~Precedes(s, a, a)
  <2> SUFFICES ASSUME NEW s, NEW a, IsSeq(s), Distinct(s), Precedes(s, a, a) PROVE FALSE
    OBVIOUS
  <2>1. PICK i \in 1..Len(s), j \in 1..Len(s) : i < j /\ s[i] = a /\ s[j] = a
    BY DEF Precedes
  <2>2. i = j
    BY <2>1 DEF Distinct
  <2>3. Len(s) \in Nat
    BY SeqShape
  <2> QED BY <2>1, <2>2, <2>3
<1> QED BY <1>1, ListSeqs, ListsDistinct

LEMMA SelectedDistinct ==
  ASSUME NEW s, IsSeq(s), Distinct(s), NEW S
  PROVE  Distinct(Selected(s, S))
<1> DEFINE sel == Selected(s, S)
<1>1. IsSeq(sel) /\ \A k, l \in 1..Len(sel) : k < l => Precedes(s, sel[k], sel[l])
  BY SelectedTurn
<1> HIDE DEF sel
<1>2. \A a : ~Precedes(s, a, a)
  <2>1. s \in Seq(Range(s))
    BY DEF IsSeq
  <2> DEFINE V == Range(s)
  <2>2. s \in Seq(V)
    BY <2>1
  <2> HIDE DEF V
  <2> QED BY <2>2, PrecedesOrder
<1>3. Len(sel) \in Nat
  BY <1>1, SeqShape
<1>4. Distinct(sel)
  BY <1>1, <1>2, <1>3 DEF Distinct
<1> QED BY <1>4 DEF sel

-----------------------------------------------------------------------------
(* The rounds of SQLTables.                                                *)

\* The projects that are asked for, each once.
ProjectsRight(projects) ==
  /\ IsSeq(projects) /\ Distinct(projects)
  /\ \A p \in Range(projects) : ProjectSought(Asked, p)
  /\ \A x \in Lasting : ProjectSought(Asked, x[1]) => x[1] \in Range(projects)

FirstProjects ==
  LET allowed == config.dsn.allowed
      literal == LiteralFromOdbcPattern(Args.catalog, Args.metadata_id)
  IN  CASE literal # NoLiteral /\ allowed = <<>> -> <<literal>>
        [] literal # NoLiteral /\ allowed # <<>> -> FilterAllowedProjects(allowed, literal, TRUE)
        [] OTHER -> FilterAllowedProjects(allowed, Args.catalog, FALSE)

LEMMA MatchingDistinct ==
  ASSUME NEW s, IsSeq(s), Distinct(s), NEW f, NEW m
  PROVE  /\ IsSeq(Matching(s, f, m)) /\ Distinct(Matching(s, f, m))
         /\ \A n : n \in Range(Matching(s, f, m)) <=> n \in Range(s) /\ FullMatch(n, f, m)
<1> DEFINE S == {n \in Range(s) : FullMatch(n, f, m)}
           got == Matching(s, f, m)
<1>1. Distinct(Selected(s, S))
  <2> HIDE DEF S
  <2> QED BY SelectedDistinct
<1>2. Distinct(got)
  BY <1>1 DEF Matching
<1>3. IsSeq(got) /\ Range(got) = S
  BY MatchingSeq
<1>4. \A n : n \in Range(got) <=> n \in Range(s) /\ FullMatch(n, f, m)
  <2> HIDE DEF got
  <2> QED BY <1>3
<1> QED BY <1>2, <1>3, <1>4

LEMMA FirstProjectsRight ==
  Shape /\ Sees /\ ArgsInv /\ Listing /\ Args.fn = "tables"
    /\ (config.dsn.allowed # <<>> \/ LiteralFromOdbcPattern(Args.catalog, Args.metadata_id) # NoLiteral)
    => ProjectsRight(FirstProjects)
<1> SUFFICES ASSUME Shape, Sees, ArgsInv, Listing, Args.fn = "tables",
                    config.dsn.allowed # <<>>
                      \/ LiteralFromOdbcPattern(Args.catalog, Args.metadata_id) # NoLiteral
             PROVE  ProjectsRight(FirstProjects)
  OBVIOUS
<1> DEFINE p1 == LiteralFromOdbcPattern(Args.catalog, Args.metadata_id)
           d1 == LiteralFromOdbcPattern(Args.schema, Args.metadata_id)
           allowed == config.dsn.allowed
<1>1. TablesAsked(p1, d1)
  BY TablesMeaning
<1>2. IsSeq(allowed) /\ Distinct(allowed)
  BY Threads, ListSeqs, ListsDistinct
<1>3. /\ p1 # NoLiteral /\ allowed = <<>> => FirstProjects = <<p1>>
      /\ p1 # NoLiteral /\ allowed # <<>> => FirstProjects = Matching(allowed, p1, TRUE)
      /\ p1 = NoLiteral => FirstProjects = Matching(allowed, Args.catalog, FALSE)
  BY DEF FirstProjects, FilterAllowedProjects
<1>4. allowed # <<>> \/ p1 # NoLiteral
  OBVIOUS
<1> HIDE DEF p1, d1
<1>5. CASE p1 # NoLiteral /\ allowed = <<>>
  <2>1. \A p : ProjectSought(Asked, p) <=> p = p1
    BY <1>1, <1>5 DEF TablesAsked
  <2> DEFINE s == <<p1>>
  <2>2. IsSeq(s) /\ Len(s) = 1 /\ \A z : z \in Range(s) <=> z = p1
    BY Singleton, OneValue
  <2>3. FirstProjects = s
    BY <1>3, <1>5
  <2> HIDE DEF s
  <2>4. \A i, j \in 1..1 : i = j
    OBVIOUS
  <2>5. Distinct(s)
    BY <2>2, <2>4 DEF Distinct
  <2> QED BY <2>1, <2>2, <2>3, <2>5 DEF ProjectsRight
<1>6. CASE p1 # NoLiteral /\ allowed # <<>>
  <2> DEFINE s == Matching(allowed, p1, TRUE)
  <2>1. \A p : ProjectSought(Asked, p) <=> p \in Range(allowed) /\ ToUpper(p) = ToUpper(p1)
    BY <1>1, <1>6 DEF TablesAsked
  <2>2. /\ IsSeq(s) /\ Distinct(s)
        /\ \A n : n \in Range(s) <=> n \in Range(allowed) /\ FullMatch(n, p1, TRUE)
    <3> HIDE DEF allowed
    <3> QED BY <1>2, MatchingDistinct
  <2>3. \A n : FullMatch(n, p1, TRUE) <=> ToUpper(n) = ToUpper(p1)
    BY DEF FullMatch
  <2>4. FirstProjects = s
    BY <1>3, <1>6
  <2> HIDE DEF s
  <2> QED BY <2>1, <2>2, <2>3, <2>4 DEF ProjectsRight
<1>7. CASE p1 = NoLiteral /\ allowed # <<>>
  <2> DEFINE s == Matching(allowed, Args.catalog, FALSE)
  <2>1. \A p : ProjectSought(Asked, p) <=> p \in Range(allowed) /\ FullMatch(p, Args.catalog, FALSE)
    BY <1>1, <1>7 DEF TablesAsked
  <2>2. /\ IsSeq(s) /\ Distinct(s)
        /\ \A n : n \in Range(s) <=> n \in Range(allowed) /\ FullMatch(n, Args.catalog, FALSE)
    <3> HIDE DEF allowed
    <3> QED BY <1>2, MatchingDistinct
  <2>3. FirstProjects = s
    BY <1>3, <1>7
  <2> HIDE DEF s
  <2> QED BY <2>1, <2>2, <2>3 DEF ProjectsRight
<1> QED BY <1>4, <1>5, <1>6, <1>7

\* The additional projects that are not listed yet.
Missed(projects) ==
  Selected(config.dsn.additional, Range(config.dsn.additional) \ Range(projects))
Validations(projects) ==
  LET new == Missed(projects) IN [i \in DOMAIN new |-> Task("validate", new[i], "", "")]

LEMMA ValidationsRight ==
  Shape /\ Sees /\ ArgsInv /\ Listing /\ Args.fn = "tables" =>
    \A projects : ProjectsRight(projects) =>
      /\ IsSeq(Validations(projects)) /\ RoundRight("validate", projects, Validations(projects))
<1> SUFFICES ASSUME Shape, Sees, ArgsInv, Listing, Args.fn = "tables", NEW projects,
                    ProjectsRight(projects)
             PROVE  IsSeq(Validations(projects)) /\ RoundRight("validate", projects, Validations(projects))
  OBVIOUS
<1> DEFINE additional == config.dsn.additional
           new == Missed(projects)
           ins == Validations(projects)
<1>1. IsSeq(additional) /\ Distinct(additional)
  BY Threads, ListSeqs, ListsDistinct
<1>2. /\ IsSeq(new) /\ Distinct(new)
      /\ \A p : p \in Range(new) <=> p \in Range(additional) /\ p \notin Range(projects)
  <2> HIDE DEF additional
  <2>1. Range(new) = Range(additional) \cap (Range(additional) \ Range(projects)) /\ IsSeq(new)
    BY <1>1, SelectedSeq DEF Missed, additional
  <2>2. Distinct(new)
    BY <1>1, SelectedDistinct DEF Missed, additional
  <2> QED BY <2>1, <2>2
<1>3. ins = [i \in DOMAIN new |-> Task("validate", new[i], "", "")]
  BY DEF Validations
<1> HIDE DEF additional, new, ins
<1>4. DOMAIN new = 1..Len(new) /\ Range(new) = {new[i] : i \in 1..Len(new)}
  BY <1>2, SeqShape
<1>5. IsSeq(ins) /\ Len(ins) = Len(new)
  <2>1. ins = [i \in DOMAIN new |-> ins[i]]
    BY <1>3
  <2> QED BY <1>2, <2>1, MapSeq
<1>6. \A k \in 1..Len(ins) : ins[k] = Task("validate", new[k], "", "")
  BY <1>3, <1>4, <1>5
<1>7. \A k \in 1..Len(ins) : ins[k].kind = "validate" /\ ins[k].project = new[k] /\ new[k] \in Range(new)
  <2> SUFFICES ASSUME NEW k \in 1..Len(ins)
               PROVE  ins[k].kind = "validate" /\ ins[k].project = new[k] /\ new[k] \in Range(new)
    OBVIOUS
  <2>1. ins[k] = Task("validate", new[k], "", "")
    BY <1>6
  <2> DEFINE t == ins[k]
             p == new[k]
  <2>3. t = Task("validate", p, "", "")
    BY <2>1
  <2>2. t.kind = "validate" /\ t.project = p
    <3> HIDE DEF t, p
    <3> QED BY <2>3 DEF Task
  <2> QED BY <1>4, <1>5, <2>2
<1>8. Distinct(ins)
  BY <1>2, <1>5, <1>7 DEF Distinct
<1>9. \A k \in 1..Len(ins) : Fitting(ins[k])
  <2> SUFFICES ASSUME NEW k \in 1..Len(ins) PROVE Fitting(ins[k])
    OBVIOUS
  <2> DEFINE t == ins[k]
  <2>1. t.kind = "validate" /\ t = Task("validate", t.project, "", "")
        /\ t.project \in Range(config.dsn.additional)
    BY <1>2, <1>6, <1>7 DEF additional
  <2> HIDE DEF t
  <2>2. Fitting(t)
    BY <2>1 DEF Fitting
  <2> QED BY <2>2 DEF t
<1>10. ASSUME NEW x \in Lasting
       PROVE  (\E k \in 1..Len(ins) : Aims(ins[k], x)) \/ x[1] \in Range(projects)
  <2>1. ProjectSought(Asked, x[1]) \/ x[1] \in Range(additional)
    BY LastingAsked DEF ProjectListed, additional
  <2>2. CASE x[1] \in Range(new)
    <3>1. PICK k \in 1..Len(ins) : new[k] = x[1]
      BY <1>4, <1>5, <2>2
    <3>2. Aims(ins[k], x)
      BY <1>7, <3>1 DEF Aims
    <3> QED BY <3>2
  <2> QED BY <1>2, <2>1, <2>2 DEF ProjectsRight
<1>11. /\ Distinct(projects) /\ \A p \in Range(projects) : ProjectSought(Asked, p)
       /\ \A k \in 1..Len(ins) : ins[k].project \notin Range(projects)
  BY <1>2, <1>7 DEF ProjectsRight
<1>12. RoundRight("validate", projects, ins)
  BY <1>8, <1>9, <1>10, <1>11 DEF RoundRight
<1> QED BY <1>5, <1>12 DEF ins

LEMMA ProjectsRoundRight ==
  Shape /\ Sees /\ ArgsInv /\ Listing /\ Args.fn = "tables" /\ config.dsn.allowed = <<>>
    /\ LiteralFromOdbcPattern(Args.catalog, Args.metadata_id) = NoLiteral
    => RoundRight("projects", <<>>, <<Task("projects", "", "", "")>>)
<1> SUFFICES ASSUME Shape, Sees, ArgsInv, Listing, Args.fn = "tables", config.dsn.allowed = <<>>,
                    LiteralFromOdbcPattern(Args.catalog, Args.metadata_id) = NoLiteral
             PROVE  RoundRight("projects", <<>>, <<Task("projects", "", "", "")>>)
  OBVIOUS
<1> DEFINE t == Task("projects", "", "", "")
           ins == <<t>>
<1>1. t.kind = "projects"
  BY DEF Task
<1> HIDE DEF t
<1>2. Len(ins) = 1 /\ \A i \in 1..1 : ins[i] = t
  BY Singleton
<1> HIDE DEF ins
<1>3. \A i, j \in 1..1 : i = j
  OBVIOUS
<1>4. Fitting(t)
  BY <1>1 DEF Fitting
<1>5. \A x \in Lasting : Aims(t, x) \/ x[1] \in Range(config.dsn.additional)
  BY <1>1, LastingAsked DEF Aims, ProjectListed
<1>6. 1 \in 1..1
  OBVIOUS
<1>7. \A x \in Lasting : (\E k \in 1..Len(ins) : Aims(ins[k], x)) \/ x[1] \in Range(config.dsn.additional)
  BY <1>2, <1>5, <1>6
<1>8. RoundRight("projects", <<>>, ins)
  BY <1>2, <1>3, <1>4, <1>7 DEF RoundRight, Distinct
<1> QED BY <1>8 DEF ins, t

-----------------------------------------------------------------------------
\* The projects that were listed.
LEMMA ListedProjectsRight ==
  ASSUME Shape, Sees, ArgsInv, InputsInv, AnswersInv, Listing, RoundOver, pool.error = "none",
         call.stage = "projects"
  PROVE  ProjectsRight(Elements)
<1>1. Args.fn = "tables" /\ \A k \in 1..Len(pool.inputs) : pool.inputs[k].kind = "projects"
  BY DEF Shape, CallShape, Listing, StageFns, TablesFns, KindsOf, Kinds, Args
<1>2. /\ IsSeq(pool.done) /\ IsSeq(Elements) /\ Len(Elements) = Len(pool.done)
      /\ \A i \in 1..Len(pool.done) : Elements[i] = pool.done[i].what
  BY ElementsSeq
<1>3. Len(pool.inputs) = 1
  BY DEF InputsInv
<1>4. \A i \in 1..1 : i = 1
  OBVIOUS
<1>5. \A j \in 1..Len(pool.done) :
        pool.done[j].at = 1 /\ pool.inputs[pool.done[j].at].kind = "projects"
        /\ ProjectSought(Asked, pool.done[j].what)
  BY <1>1, <1>3, <1>4, ValuesGiven DEF Sound
<1>6. \A i, j \in 1..Len(pool.done) : i < j =>
        Precedes(ProjectSeq, pool.done[i].what, pool.done[j].what)
  BY <1>1, <1>3, <1>5, ValuesGiven DEF InTurn
<1>7. Range(Elements) = {Elements[i] : i \in 1..Len(pool.done)} /\ Len(pool.done) \in Nat
  BY <1>2, SeqShape
<1>8. Distinct(Elements)
  <2>1. ASSUME NEW i \in 1..Len(pool.done), NEW j \in 1..Len(pool.done), Elements[i] = Elements[j]
        PROVE  i = j
    <3>1. ~(i < j) /\ ~(j < i)
      BY <1>2, <1>6, <2>1, NoneTwice
    <3>2. i \in Int /\ j \in Int
      OBVIOUS
    <3> QED BY <3>1, <3>2
  <2> QED BY <1>2, <2>1 DEF Distinct
<1>9. ASSUME NEW x \in Lasting, ProjectSought(Asked, x[1])
      PROVE  x[1] \in Range(Elements)
  <2> DEFINE t == pool.inputs[1]
  <2>1. 1 \in 1..Len(pool.inputs) /\ t.kind = "projects"
    BY <1>1, <1>3
  <2>2. Aims(t, x)
    <3> HIDE DEF t
    <3> QED BY <1>9, <2>1 DEF Aims
  <2>3. PICK j \in 1..Len(pool.done) : pool.done[j].at = 1 /\ Shows(t, pool.done[j].what, x)
    BY <2>1, <2>2, ValuesGiven
  <2>4. pool.done[j].what = x[1]
    BY <2>1, <2>3 DEF Shows
  <2> QED BY <1>2, <1>7, <2>4
<1> QED BY <1>2, <1>5, <1>7, <1>8, <1>9 DEF ProjectsRight

-----------------------------------------------------------------------------
(* The lists that follow.                                                  *)

AskProjects(ins, s, kind, d) ==
  /\ IsSeq(ins) /\ Len(ins) = Len(s)
  /\ \A k \in 1..Len(s) :
       /\ ins[k] = Task(kind, s[k], d, "") /\ s[k] \in Range(s)
       /\ ins[k].kind = kind /\ ins[k].project = s[k] /\ ins[k].dataset = d

LEMMA MappedSeq ==
  ASSUME NEW s, IsSeq(s), NEW ins, ins = [i \in DOMAIN s |-> ins[i]]
  PROVE  IsSeq(ins) /\ Len(ins) = Len(s)
BY MapSeq

LEMMA ProjectTasks ==
  ASSUME NEW s, IsSeq(s), NEW kind, NEW d, NEW ins,
         ins = [i \in DOMAIN s |-> Task(kind, s[i], d, "")]
  PROVE  AskProjects(ins, s, kind, d)
<1>1. DOMAIN s = 1..Len(s) /\ Range(s) = {s[i] : i \in 1..Len(s)}
  BY SeqShape
<1>2. ins = [i \in DOMAIN s |-> ins[i]]
  OBVIOUS
<1>3. IsSeq(ins) /\ Len(ins) = Len(s)
  BY <1>2, MappedSeq
<1>4. ASSUME NEW k \in 1..Len(s)
      PROVE  /\ ins[k] = Task(kind, s[k], d, "") /\ s[k] \in Range(s)
             /\ ins[k].kind = kind /\ ins[k].project = s[k] /\ ins[k].dataset = d
  <2>1. ins[k] = Task(kind, s[k], d, "")
    BY <1>1
  <2> DEFINE t == ins[k]
             p == s[k]
  <2>2. t = Task(kind, p, d, "")
    BY <2>1
  <2>3. t.kind = kind /\ t.project = p /\ t.dataset = d
    <3> HIDE DEF t, p
    <3> QED BY <2>2 DEF Task
  <2> QED BY <1>1, <2>1, <2>3
<1> QED BY <1>3, <1>4 DEF AskProjects

AskDatasets(ins, s) ==
  /\ IsSeq(ins) /\ Len(ins) = Len(s)
  /\ \A k \in 1..Len(s) :
       /\ ins[k] = Task("tables", s[k][1], s[k][2], "")
       /\ ins[k].kind = "tables" /\ ins[k].project = s[k][1] /\ ins[k].dataset = s[k][2]

LEMMA DatasetTasks ==
  ASSUME NEW s, IsSeq(s), NEW ins,
         ins = [i \in DOMAIN s |-> Task("tables", s[i][1], s[i][2], "")]
  PROVE  AskDatasets(ins, s)
<1>1. DOMAIN s = 1..Len(s)
  BY SeqShape
<1>2. ins = [i \in DOMAIN s |-> ins[i]]
  OBVIOUS
<1>3. IsSeq(ins) /\ Len(ins) = Len(s)
  BY <1>2, MappedSeq
<1>4. ASSUME NEW k \in 1..Len(s)
      PROVE  /\ ins[k] = Task("tables", s[k][1], s[k][2], "")
             /\ ins[k].kind = "tables" /\ ins[k].project = s[k][1] /\ ins[k].dataset = s[k][2]
  <2>1. ins[k] = Task("tables", s[k][1], s[k][2], "")
    BY <1>1
  <2> DEFINE t == ins[k]
             p == s[k][1]
             d == s[k][2]
  <2>2. t = Task("tables", p, d, "")
    BY <2>1
  <2>3. t.kind = "tables" /\ t.project = p /\ t.dataset = d
    <3> HIDE DEF t, p, d
    <3> QED BY <2>2 DEF Task
  <2> QED BY <2>1, <2>3
<1> QED BY <1>3, <1>4 DEF AskDatasets

\* What follows the projects.
ProjectsKnown(projects) ==
  /\ IsSeq(projects) /\ Distinct(projects)
  /\ \A p \in Range(projects) : ProjectListed(p)
  /\ \A x \in Lasting : x[1] \in Range(projects)

LEMMA ForEachProject ==
  ASSUME Shape, ArgsInv, Listing, Args.fn = "tables", NEW projects, ProjectsKnown(projects),
         NEW kind \in {"datasets", "tables"}, NEW d,
         kind = "datasets" => /\ d = ""
                              /\ LiteralFromOdbcPattern(Args.schema, Args.metadata_id) = NoLiteral,
         kind = "tables" => /\ d # NoLiteral
                            /\ d = LiteralFromOdbcPattern(Args.schema, Args.metadata_id),
         Sees, NEW ins, AskProjects(ins, projects, kind, d)
  PROVE  IsSeq(ins) /\ RoundRight(kind, projects, ins)
<1>1. /\ IsSeq(projects) /\ Distinct(projects)
      /\ \A p \in Range(projects) : ProjectListed(p)
      /\ \A x \in Lasting : x[1] \in Range(projects)
  BY DEF ProjectsKnown
<1>2. Range(projects) = {projects[i] : i \in 1..Len(projects)}
  BY <1>1, SeqShape
<1>3. /\ IsSeq(ins) /\ Len(ins) = Len(projects)
      /\ \A k \in 1..Len(projects) :
           /\ ins[k] = Task(kind, projects[k], d, "") /\ projects[k] \in Range(projects)
           /\ ins[k].kind = kind /\ ins[k].project = projects[k] /\ ins[k].dataset = d
  BY DEF AskProjects
<1>4. kind = "tables" => \A e : DatasetAsked(e) <=> e = d
  BY TablesMeaning DEF TablesAsked
<1>5. Distinct(ins)
  <2>1. \A i, j \in 1..Len(projects) : ins[i] = ins[j] => projects[i] = projects[j]
    BY <1>3
  <2>2. \A i, j \in 1..Len(projects) : projects[i] = projects[j] => i = j
    BY <1>1 DEF Distinct
  <2>3. \A i, j \in 1..Len(ins) : ins[i] = ins[j] => i = j
    <3>1. Len(ins) = Len(projects)
      BY <1>3
    <3> QED BY <2>1, <2>2, <3>1
  <2> QED BY <2>3 DEF Distinct
<1>6. ASSUME NEW k \in 1..Len(ins) PROVE Fitting(ins[k])
  <2> DEFINE t == ins[k]
             p == projects[k]
  <2>1. t.kind = kind /\ t.project = p /\ t.dataset = d /\ t = Task(kind, p, d, "") /\ ProjectListed(p)
    BY <1>1, <1>3
  <2> HIDE DEF t, p
  <2>2. t.kind = "tables" => DatasetAsked(t.dataset)
    BY <1>4, <2>1
  <2>3. Fitting(t)
    BY <2>1, <2>2 DEF Fitting
  <2> QED BY <2>3 DEF t
<1>7. ASSUME NEW x \in Lasting PROVE \E k \in 1..Len(ins) : Aims(ins[k], x)
  <2>1. PICK k \in 1..Len(projects) : projects[k] = x[1]
    BY <1>1, <1>2
  <2>2. DatasetAsked(x[2])
    BY LastingAsked
  <2> DEFINE t == ins[k]
  <2>3. t.kind = kind /\ t.project = x[1] /\ t.dataset = d
    BY <1>3, <2>1
  <2>4. Aims(t, x)
    <3> HIDE DEF t
    <3> QED BY <1>4, <2>2, <2>3 DEF Aims
  <2> QED BY <1>3, <2>4
<1>8. RoundRight(kind, projects, ins)
  BY <1>5, <1>6, <1>7 DEF RoundRight
<1> QED BY <1>3, <1>8

LEMMA JoinedDistinct ==
  ASSUME NEW a, NEW b, IsSeq(a), IsSeq(b), Distinct(a), Distinct(b),
         \A i \in 1..Len(b) : b[i] \notin Range(a)
  PROVE  IsSeq(a \o b) /\ Distinct(a \o b) /\ Range(a \o b) = Range(a) \cup Range(b)
<1> DEFINE s == a \o b
           M == Len(a)
           N == Len(b)
<1>1. M \in Nat /\ N \in Nat /\ Range(a) = {a[i] : i \in 1..M} /\ Range(b) = {b[i] : i \in 1..N}
  BY SeqShape
<1>2. /\ IsSeq(s) /\ Len(s) = M + N
      /\ \A i \in 1..M : s[i] = a[i]
      /\ \A i \in 1..N : s[M + i] = b[i]
      /\ \A i \in 1..(M + N) : i > M => s[i] = b[i - M]
  BY Joined
<1>3. Range(s) = {s[i] : i \in 1..Len(s)}
  BY <1>2, SeqShape
<1>4. \A i \in 1..N : b[i] \notin Range(a)
  OBVIOUS
<1>5. /\ \A i, j \in 1..M : a[i] = a[j] => i = j
      /\ \A i, j \in 1..N : b[i] = b[j] => i = j
  BY DEF Distinct
<1> HIDE DEF M, N, s
<1>6. ASSUME NEW i \in 1..(M + N), NEW j \in 1..(M + N), s[i] = s[j]
      PROVE  i = j
  <2>1. CASE i <= M /\ j <= M
    BY <1>1, <1>2, <1>5, <1>6, <2>1
  <2>2. CASE i > M /\ j > M
    <3>1. i - M \in 1..N /\ j - M \in 1..N /\ b[i - M] = b[j - M]
      BY <1>1, <1>2, <1>6, <2>2
    <3>2. i - M = j - M
      BY <1>5, <3>1
    <3> QED BY <1>1, <3>2
  <2>3. CASE i <= M /\ j > M
    <3>1. i \in 1..M /\ j - M \in 1..N /\ a[i] = b[j - M]
      BY <1>1, <1>2, <1>6, <2>3
    <3> QED BY <1>1, <1>4, <3>1
  <2>4. CASE i > M /\ j <= M
    <3>1. j \in 1..M /\ i - M \in 1..N /\ a[j] = b[i - M]
      BY <1>1, <1>2, <1>6, <2>4
    <3> QED BY <1>1, <1>4, <3>1
  <2> QED BY <1>1, <2>1, <2>2, <2>3, <2>4
<1>7. Distinct(s)
  BY <1>2, <1>6 DEF Distinct
<1>8. ASSUME NEW z PROVE z \in Range(s) <=> z \in Range(a) \/ z \in Range(b)
  <2>1. ASSUME z \in Range(s) PROVE z \in Range(a) \/ z \in Range(b)
    <3>1. PICK i \in 1..(M + N) : s[i] = z
      BY <1>2, <1>3, <2>1
    <3>2. CASE i <= M
      BY <1>1, <1>2, <3>1, <3>2
    <3>3. CASE i > M
      <4>1. i - M \in 1..N /\ b[i - M] = z
        BY <1>1, <1>2, <3>1, <3>3
      <4> QED BY <1>1, <4>1
    <3> QED BY <1>1, <3>2, <3>3
  <2>2. ASSUME z \in Range(a) PROVE z \in Range(s)
    <3>1. PICK i \in 1..M : a[i] = z
      BY <1>1, <2>2
    <3>2. i \in 1..(M + N) /\ s[i] = z
      BY <1>1, <1>2, <3>1
    <3> QED BY <1>2, <1>3, <3>2
  <2>3. ASSUME z \in Range(b) PROVE z \in Range(s)
    <3>1. PICK i \in 1..N : b[i] = z
      BY <1>1, <2>3
    <3>2. M + i \in 1..(M + N) /\ s[M + i] = z
      BY <1>1, <1>2, <3>1
    <3> QED BY <1>2, <1>3, <3>2
  <2> QED BY <2>1, <2>2, <2>3
<1> QED BY <1>2, <1>7, <1>8 DEF s

\* The projects after their validation.
LEMMA ValidatedProjects ==
  ASSUME Shape, FailInv, InputsInv, AnswersInv, Listing, RoundOver, call.stage = "validate"
  PROVE  Args.fn = "tables" /\ ProjectsKnown(call.projects \o Elements)
<1>1. Args.fn = "tables" /\ \A k \in 1..Len(pool.inputs) : pool.inputs[k].kind = "validate"
  BY DEF Shape, CallShape, Listing, StageFns, TablesFns, KindsOf, Kinds, Args
<1>2. pool.error = "none"
  BY DEF FailInv, Listing, Failing, Shape, RoundShape
<1>3. /\ IsSeq(pool.done) /\ IsSeq(Elements) /\ Len(Elements) = Len(pool.done)
      /\ \A i \in 1..Len(pool.done) : Elements[i] = pool.done[i].what
  BY ElementsSeq DEF Listing, Idle
<1>4. /\ IsSeq(call.projects) /\ Distinct(call.projects)
      /\ \A p \in Range(call.projects) : ProjectSought(Asked, p)
      /\ \A k \in 1..Len(pool.inputs) :
           /\ pool.inputs[k].project \notin Range(call.projects)
           /\ pool.inputs[k] = Task("validate", pool.inputs[k].project, "", "")
           /\ pool.inputs[k].project \in Range(config.dsn.additional)
      /\ Distinct(pool.inputs)
  BY <1>1 DEF InputsInv, Shape, CallShape, Listing, Fitting
<1>5. \A j \in 1..Len(pool.done) :
        /\ pool.done[j].at \in 1..Len(pool.inputs)
        /\ pool.done[j].what = pool.inputs[pool.done[j].at].project
  BY <1>1, <1>2, ValuesGiven DEF Sound
<1>6. \A i, j \in 1..Len(pool.done) : i < j => pool.done[i].at # pool.done[j].at
  <2>1. \A t, v, w : t.kind = "validate" => ~InTurn(t, v, w)
    BY DEF InTurn
  <2> QED BY <1>1, <1>2, <1>5, <2>1, ValuesGiven, SMTT(30)
<1>7. \A i, j \in 1..Len(pool.done) : pool.done[i].what = pool.done[j].what => i = j
  <2> SUFFICES ASSUME NEW i \in 1..Len(pool.done), NEW j \in 1..Len(pool.done),
                      pool.done[i].what = pool.done[j].what
               PROVE  i = j
    OBVIOUS
  <2> DEFINE k == pool.done[i].at
             l == pool.done[j].at
  <2>1. k \in 1..Len(pool.inputs) /\ l \in 1..Len(pool.inputs)
        /\ pool.inputs[k].project = pool.inputs[l].project
    BY <1>5
  <2>2. pool.inputs[k] = pool.inputs[l]
    BY <1>4, <2>1
  <2>3. k = l
    BY <1>4, <2>1, <2>2 DEF Distinct
  <2>4. ~(i < j) /\ ~(j < i)
    BY <1>6, <2>3
  <2>5. i \in Int /\ j \in Int
    OBVIOUS
  <2> QED BY <2>4, <2>5
<1> DEFINE a == call.projects
           b == Elements
           s == a \o b
<1>8. /\ IsSeq(a) /\ IsSeq(b) /\ Len(b) = Len(pool.done)
      /\ Range(a) = {a[i] : i \in 1..Len(a)} /\ Range(b) = {b[i] : i \in 1..Len(b)}
  BY <1>3, <1>4, SeqShape
<1>9. /\ \A i \in 1..Len(b) : b[i] \notin Range(a) /\ b[i] \in Range(config.dsn.additional)
      /\ Distinct(a) /\ Distinct(b)
  <2>1. \A i \in 1..Len(b) : \E k \in 1..Len(pool.inputs) : b[i] = pool.inputs[k].project
    BY <1>3, <1>5
  <2>2. \A i, j \in 1..Len(b) : b[i] = b[j] => i = j
    BY <1>3, <1>7
  <2> HIDE DEF b
  <2>3. Distinct(b)
    BY <2>2 DEF Distinct
  <2> QED BY <1>4, <2>1, <2>3
<1>10. \A p \in Range(b) : ProjectListed(p)
  BY <1>1, <1>8, <1>9 DEF ProjectListed
<1>11. \A p \in Range(a) : ProjectListed(p)
  BY <1>1, <1>4 DEF ProjectListed
<1>12. ASSUME NEW x \in Lasting PROVE x[1] \in Range(a) \cup Range(b)
  <2>1. (\E k \in 1..Len(pool.inputs) : Aims(pool.inputs[k], x)) \/ x[1] \in Range(a)
    BY DEF InputsInv, Covered
  <2>2. ASSUME NEW k \in 1..Len(pool.inputs), Aims(pool.inputs[k], x) PROVE x[1] \in Range(b)
    <3>1. PICK j \in 1..Len(pool.done) : Shows(pool.inputs[k], pool.done[j].what, x)
      BY <1>2, <2>2, ValuesGiven
    <3>2. pool.done[j].what = x[1]
      BY <1>1, <3>1 DEF Shows
    <3> QED BY <1>3, <1>8, <3>2
  <2> QED BY <2>1, <2>2
<1> HIDE DEF a, b
<1>13. IsSeq(s) /\ Distinct(s) /\ Range(s) = Range(a) \cup Range(b)
  BY <1>8, <1>9, JoinedDistinct
<1>14. ProjectsKnown(s)
  BY <1>10, <1>11, <1>12, <1>13 DEF ProjectsKnown
<1> QED BY <1>1, <1>14 DEF a, b

\* The datasets that were listed.
LEMMA DatasetsFound ==
  ASSUME Shape, Sees, ArgsInv, InputsInv, ColumnOrderInv, AnswersInv, Listing, RoundOver,
         pool.error = "none", call.stage = "datasets", NEW ins, AskDatasets(ins, Elements)
  PROVE  IsSeq(ins) /\ RoundRight("tables", <<>>, ins)
<1> DEFINE s == Elements
<1>1. Args.fn \in {"tables", "columns"}
      /\ \A k \in 1..Len(pool.inputs) : pool.inputs[k].kind = "datasets"
  BY DEF Shape, CallShape, Listing, KindsOf, Kinds, Args
<1>2. /\ IsSeq(s) /\ Len(s) = Len(pool.done)
      /\ \A i \in 1..Len(pool.done) : s[i] = pool.done[i].what
  BY ElementsSeq
<1>3. /\ IsSeq(ins) /\ Len(ins) = Len(s)
      /\ \A k \in 1..Len(s) :
           /\ ins[k] = Task("tables", s[k][1], s[k][2], "")
           /\ ins[k].kind = "tables" /\ ins[k].project = s[k][1] /\ ins[k].dataset = s[k][2]
  BY DEF AskDatasets
<1>4. \A k \in 1..Len(pool.inputs) :
        /\ ProjectListed(pool.inputs[k].project)
        /\ pool.inputs[k] = Task("datasets", pool.inputs[k].project, "", "")
  BY <1>1 DEF InputsInv, Fitting
<1>5. \A j \in 1..Len(pool.done) :
        /\ pool.done[j].at \in 1..Len(pool.inputs)
        /\ pool.done[j].what = <<pool.inputs[pool.done[j].at].project, pool.done[j].what[2]>>
        /\ DatasetAsked(pool.done[j].what[2])
  BY <1>1, ValuesGiven DEF Sound
<1>6. \A i, j \in 1..Len(pool.done) : i < j /\ pool.done[i].at = pool.done[j].at =>
        Precedes(DatasetSeq, pool.done[i].what[2], pool.done[j].what[2])
  <2>1. \A t, v, w : t.kind = "datasets" /\ InTurn(t, v, w) => Precedes(DatasetSeq, v[2], w[2])
    BY DEF InTurn
  <2> QED BY <1>1, <1>5, <2>1, ValuesGiven, SMTT(30)
<1>7. \A i \in 1..Len(s) :
        /\ s[i] = <<s[i][1], s[i][2]>> /\ DatasetAsked(s[i][2]) /\ ProjectListed(s[i][1])
        /\ s[i][1] = pool.inputs[pool.done[i].at].project
  <2> SUFFICES ASSUME NEW i \in 1..Len(s)
               PROVE  /\ s[i] = <<s[i][1], s[i][2]>> /\ DatasetAsked(s[i][2]) /\ ProjectListed(s[i][1])
                      /\ s[i][1] = pool.inputs[pool.done[i].at].project
    OBVIOUS
  <2> DEFINE w == s[i]
             q == pool.inputs[pool.done[i].at].project
  <2>1. w = <<q, w[2]>> /\ DatasetAsked(w[2]) /\ ProjectListed(q)
    BY <1>2, <1>4, <1>5
  <2>2. w = <<w[1], w[2]>> /\ w[1] = q
    <3> HIDE DEF w, q
    <3> QED BY <2>1
  <2> QED BY <2>1, <2>2
<1> HIDE DEF s
<1>8. \A i, j \in 1..Len(s) : s[i][1] = s[j][1] => pool.done[i].at = pool.done[j].at
  <2> SUFFICES ASSUME NEW i \in 1..Len(s), NEW j \in 1..Len(s), s[i][1] = s[j][1]
               PROVE  pool.done[i].at = pool.done[j].at
    OBVIOUS
  <2> DEFINE k == pool.done[i].at
             l == pool.done[j].at
  <2>1. k \in 1..Len(pool.inputs) /\ l \in 1..Len(pool.inputs)
        /\ pool.inputs[k].project = pool.inputs[l].project
    BY <1>2, <1>5, <1>7
  <2>2. pool.inputs[k] = pool.inputs[l]
    BY <1>4, <2>1
  <2> HIDE DEF k, l
  <2>3. k = l
    BY <2>1, <2>2 DEF InputsInv, Distinct
  <2> QED BY <2>3 DEF k, l
<1>9. \A i, j \in 1..Len(s) : i < j /\ s[i][1] = s[j][1] => Precedes(DatasetSeq, s[i][2], s[j][2])
  BY <1>2, <1>6, <1>8
<1>10. \A i, j \in 1..Len(s) : ins[i] = ins[j] => i = j
  <2> SUFFICES ASSUME NEW i \in 1..Len(s), NEW j \in 1..Len(s), ins[i] = ins[j]
               PROVE  i = j
    OBVIOUS
  <2>1. s[i][1] = s[j][1] /\ s[i][2] = s[j][2]
    BY <1>3
  <2>2. ~(i < j) /\ ~(j < i)
    BY <1>9, <2>1, NoneTwice
  <2>3. i \in Int /\ j \in Int
    OBVIOUS
  <2> QED BY <2>2, <2>3
<1>11. ASSUME NEW k \in 1..Len(ins) PROVE Fitting(ins[k])
  <2> DEFINE t == ins[k]
             p == s[k][1]
             d == s[k][2]
  <2>1. t.kind = "tables" /\ t.project = p /\ t.dataset = d /\ t = Task("tables", p, d, "")
        /\ ProjectListed(p) /\ DatasetAsked(d)
    BY <1>3, <1>7
  <2> HIDE DEF t, p, d
  <2>2. Fitting(t)
    BY <2>1 DEF Fitting
  <2> QED BY <2>2 DEF t
<1>12. ASSUME NEW x \in Lasting PROVE \E k \in 1..Len(ins) : Aims(ins[k], x)
  <2>1. PICK k \in 1..Len(pool.inputs) : Aims(pool.inputs[k], x)
    BY DEF InputsInv, Covered
  <2>2. PICK j \in 1..Len(pool.done) : Shows(pool.inputs[k], pool.done[j].what, x)
    BY <2>1, ValuesGiven
  <2>3. pool.done[j].what = <<x[1], x[2]>>
    BY <1>1, <2>2 DEF Shows
  <2>4. j \in 1..Len(s) /\ s[j] = <<x[1], x[2]>>
    BY <1>2, <2>3
  <2> DEFINE t == ins[j]
             w == s[j]
  <2>7. w[1] = x[1] /\ w[2] = x[2]
    BY <2>4
  <2>5. t.kind = "tables" /\ t.project = x[1] /\ t.dataset = x[2]
    BY <1>3, <2>4, <2>7
  <2>6. Aims(t, x)
    <3> HIDE DEF t
    <3> QED BY <2>5 DEF Aims
  <2> QED BY <1>3, <2>4, <2>6
<1>13. Args.fn = "columns" =>
         \A k, l \in 1..Len(ins) : k < l => Precedes(DatasetSeq, ins[k].dataset, ins[l].dataset)
  <2> SUFFICES ASSUME Args.fn = "columns", NEW k \in 1..Len(ins), NEW l \in 1..Len(ins), k < l
               PROVE  Precedes(DatasetSeq, ins[k].dataset, ins[l].dataset)
    OBVIOUS
  <2>1. Len(pool.inputs) = 1
    BY DEF ColumnOrderInv
  <2>4. \A i \in 1..1 : i = 1
    OBVIOUS
  <2>5. k \in 1..Len(pool.done) /\ l \in 1..Len(pool.done)
    BY <1>2, <1>3
  <2>2. pool.done[k].at = 1 /\ pool.done[l].at = 1
    BY <1>5, <2>1, <2>4, <2>5
  <2>3. Precedes(DatasetSeq, s[k][2], s[l][2])
    <3>1. Precedes(DatasetSeq, pool.done[k].what[2], pool.done[l].what[2])
      BY <1>6, <2>2, <2>5
    <3>2. s[k] = pool.done[k].what /\ s[l] = pool.done[l].what
      BY <1>2, <2>5
    <3> QED BY <3>1, <3>2
  <2> QED BY <1>3, <2>3
<1>14. Distinct(ins)
  BY <1>3, <1>10 DEF Distinct
<1>15. RoundRight("tables", <<>>, ins)
  BY <1>11, <1>12, <1>13, <1>14 DEF RoundRight
<1> QED BY <1>3, <1>15

-----------------------------------------------------------------------------
(* The first rounds of SQLColumns.                                         *)

\* A round with one request.
LEMMA OneRequest ==
  ASSUME NEW stage \in {"datasets", "tables", "table"}, NEW ins, NEW t,
         Len(ins) = 1, ins[1] = t, Fitting(t), \A x \in Lasting : Aims(t, x)
  PROVE  RoundRight(stage, <<>>, ins)
<1>1. \A i \in 1..1 : i = 1
  OBVIOUS
<1>2. \A i \in 1..Len(ins) : i = 1
  BY <1>1
<1>3. 1 \in 1..Len(ins)
  OBVIOUS
<1>4. Distinct(ins)
  BY <1>2 DEF Distinct
<1>5. \A k, l \in 1..Len(ins) : ~(k < l)
  OBVIOUS
<1> QED BY <1>2, <1>3, <1>4, <1>5 DEF RoundRight

LEMMA NotPattern ==
  ASSUME NEW f, ~IsSearchPatternArgument(f)
  PROVE  \A n : FullMatch(n, f, FALSE) <=> n = f
  BY DEF FullMatch

LEMMA FastRound ==
  Shape /\ Sees /\ ArgsInv /\ Listing /\ Args.fn = "columns" /\ FastPath(Args) =>
    RoundRight("table", <<>>, <<Task("table", Args.catalog, Args.schema, Args.table)>>)
<1> SUFFICES ASSUME Shape, Sees, ArgsInv, Listing, Args.fn = "columns", FastPath(Args)
             PROVE  RoundRight("table", <<>>, <<Task("table", Args.catalog, Args.schema, Args.table)>>)
  OBVIOUS
<1> DEFINE p == Args.catalog
           d == Args.schema
           n == Args.table
           t == Task("table", p, d, n)
           ins == <<t>>
<1>1. Args.metadata_id = FALSE
  BY ListingCall DEF FastPath
<1>2. \A e : FullMatch(e, d, FALSE) <=> e = d
  BY NotPattern DEF FastPath
<1>3. \A e : FullMatch(e, n, FALSE) <=> e = n
  BY NotPattern DEF FastPath
<1>4. \A e : DatasetAsked(e) <=> e = d
  BY <1>1, <1>2 DEF DatasetAsked
<1>5. \A x : ColumnsSought(Asked, x) <=> x[1] = p /\ x[2] = d /\ x[3] = n
  BY <1>1, <1>3, <1>4, ColumnsMeaning
<1>6. ProjectListed(p)
  BY DEF ProjectListed
<1> HIDE DEF p, d, n
<1>7. t.kind = "table" /\ t.project = p /\ t.dataset = d /\ t.name = n /\ t = Task("table", p, d, n)
  BY DEF Task
<1> HIDE DEF t
<1>8. ColumnsSought(Asked, <<p, d, n>>)
  BY <1>5
<1>9. Fitting(t)
  BY <1>4, <1>6, <1>7, <1>8 DEF Fitting
<1>10. ASSUME NEW x \in Lasting PROVE Aims(t, x)
  <2>1. x = <<x[1], x[2], x[3]>> /\ ColumnsSought(Asked, x)
    BY LastingAsked DEF Lasting, AsksFor
  <2>2. x[1] = p /\ x[2] = d /\ x[3] = n
    BY <1>5, <2>1
  <2>3. <<t.project, t.dataset, t.name>> = x
    BY <1>7, <2>1, <2>2
  <2> QED BY <1>7, <2>3 DEF Aims
<1>11. Len(ins) = 1 /\ ins[1] = t
  BY Singleton
<1> HIDE DEF ins
<1>12. RoundRight("table", <<>>, ins)
  BY <1>9, <1>10, <1>11, OneRequest
<1> QED BY <1>12 DEF ins, t, p, d, n

LEMMA NamedRound ==
  Shape /\ Sees /\ ArgsInv /\ Listing /\ Args.fn = "columns" /\ ~Args.metadata_id
    /\ ~IsSearchPatternArgument(Args.schema) =>
    \A ins : AskDatasets(ins, <<<<Args.catalog, Args.schema>>>>) => RoundRight("tables", <<>>, ins)
<1> SUFFICES ASSUME Shape, Sees, ArgsInv, Listing, Args.fn = "columns", ~Args.metadata_id,
                    ~IsSearchPatternArgument(Args.schema), NEW ins,
                    AskDatasets(ins, <<<<Args.catalog, Args.schema>>>>)
             PROVE  RoundRight("tables", <<>>, ins)
  OBVIOUS
<1> DEFINE p == Args.catalog
           d == Args.schema
           pair == <<p, d>>
           s == <<pair>>
           t == ins[1]
<1>1. Args.metadata_id = FALSE
  BY ListingCall
<1>2. \A e : FullMatch(e, d, FALSE) <=> e = d
  BY NotPattern
<1>3. \A e : DatasetAsked(e) <=> e = d
  BY <1>1, <1>2 DEF DatasetAsked
<1>4. \A e : ProjectListed(e) <=> e = p
  BY DEF ProjectListed
<1>5. Len(s) = 1 /\ s[1] = pair /\ 1 \in 1..1
  BY Singleton
<1>6. AskDatasets(ins, s)
  OBVIOUS
<1>11. pair[1] = p /\ pair[2] = d
  OBVIOUS
<1> HIDE DEF p, d, s, pair
<1>7. Len(ins) = 1 /\ t.kind = "tables" /\ t.project = p /\ t.dataset = d
      /\ t = Task("tables", p, d, "")
  BY <1>5, <1>6, <1>11 DEF AskDatasets
<1> HIDE DEF t
<1>8. Fitting(t)
  BY <1>3, <1>4, <1>7 DEF Fitting
<1>9. \A x \in Lasting : Aims(t, x)
  BY <1>3, <1>4, <1>7, LastingAsked DEF Aims
<1>10. Len(ins) = 1 /\ ins[1] = t
  BY <1>7 DEF t
<1> QED BY <1>8, <1>9, <1>10, OneRequest

LEMMA DatasetsRound ==
  Shape /\ Sees /\ ArgsInv /\ Listing /\ Args.fn = "columns" =>
    RoundRight("datasets", <<>>, <<Task("datasets", Args.catalog, "", "")>>)
<1> SUFFICES ASSUME Shape, Sees, ArgsInv, Listing, Args.fn = "columns"
             PROVE  RoundRight("datasets", <<>>, <<Task("datasets", Args.catalog, "", "")>>)
  OBVIOUS
<1> DEFINE p == Args.catalog
           t == Task("datasets", p, "", "")
           ins == <<t>>
<1>1. \A e : ProjectListed(e) <=> e = p
  BY DEF ProjectListed
<1> HIDE DEF p
<1>2. t.kind = "datasets" /\ t.project = p /\ t = Task("datasets", p, "", "")
  BY DEF Task
<1>3. Len(ins) = 1 /\ ins[1] = t
  BY Singleton
<1> HIDE DEF t, ins
<1>4. Fitting(t)
  BY <1>1, <1>2 DEF Fitting
<1>5. \A x \in Lasting : Aims(t, x)
  BY <1>1, <1>2, LastingAsked DEF Aims
<1>6. RoundRight("datasets", <<>>, ins)
  BY <1>3, <1>4, <1>5, OneRequest
<1> QED BY <1>6 DEF ins, t, p

-----------------------------------------------------------------------------
(* The answers in the order of the requests.                               *)

\* The i-th value in order was given by the request at[i].
OrderedBy(at) ==
  /\ IsSeq(InOrder) /\ DOMAIN InOrder = 1..Len(InOrder) /\ Len(InOrder) \in Nat
  /\ \A i \in 1..Len(InOrder) :
       at[i] \in 1..Len(pool.inputs) /\ Sound(pool.inputs[at[i]], InOrder[i])
  /\ \A i, j \in 1..Len(InOrder) : i < j => at[i] < at[j]
  /\ \A x \in Lasting : \A k \in 1..Len(pool.inputs) : Aims(pool.inputs[k], x) =>
       \E i \in 1..Len(InOrder) : at[i] = k /\ Shows(pool.inputs[k], InOrder[i], x)

LEMMA InOrderGiven ==
  ASSUME Shape, AnswersInv, Listing, RoundOver, pool.error = "none",
         Args.fn = "columns", call.stage \in {"tables", "table"}
  PROVE  \E at : OrderedBy(at)
<1> DEFINE at == Selected([k \in DOMAIN pool.inputs |-> k], {pool.done[i].at : i \in DOMAIN pool.done})
<1>1. \A k \in 1..Len(pool.inputs) : pool.inputs[k].kind \in {"tables", "table"}
  BY DEF Shape, CallShape, Listing, KindsOf, Kinds
<1>2. IsSeq(pool.done)
  BY ElementsSeq
<1>3. /\ IsSeq(at) /\ IsSeq(InOrder) /\ Len(InOrder) = Len(at)
      /\ Range(at) = 1..Len(pool.inputs) \cap {pool.done[i].at : i \in 1..Len(pool.done)}
      /\ \A i \in 1..Len(at) : \E j \in 1..Len(pool.done) :
           pool.done[j].at = at[i] /\ InOrder[i] = pool.done[j].what
      /\ \A i, j \in 1..Len(at) : i < j => at[i] < at[j]
  BY <1>2, InOrderPlaces
<1> HIDE DEF at
<1>4. /\ DOMAIN InOrder = 1..Len(InOrder) /\ Len(InOrder) \in Nat
      /\ Range(at) = {at[i] : i \in 1..Len(at)}
  BY <1>3, SeqShape
<1>5. /\ \A j \in 1..Len(pool.done) :
           /\ pool.done[j].at \in 1..Len(pool.inputs)
           /\ Sound(pool.inputs[pool.done[j].at], pool.done[j].what)
      /\ \A x \in Lasting : \A k \in 1..Len(pool.inputs) : Aims(pool.inputs[k], x) =>
           \E j \in 1..Len(pool.done) :
             pool.done[j].at = k /\ Shows(pool.inputs[k], pool.done[j].what, x)
      /\ \A i, j \in 1..Len(pool.done) :
           i < j /\ pool.done[i].at = pool.done[j].at =>
             InTurn(pool.inputs[pool.done[i].at], pool.done[i].what, pool.done[j].what)
  BY ValuesGiven
<1>6. \A i, j \in 1..Len(pool.done) : pool.done[i].at = pool.done[j].at => i = j
  <2>1. \A t, v, w : t.kind \in {"tables", "table"} => ~InTurn(t, v, w)
    BY DEF InTurn
  <2>2. \A i, j \in 1..Len(pool.done) : i < j => pool.done[i].at # pool.done[j].at
    BY <1>1, <1>5, <2>1, SMTT(30)
  <2> SUFFICES ASSUME NEW i \in 1..Len(pool.done), NEW j \in 1..Len(pool.done),
                      pool.done[i].at = pool.done[j].at
               PROVE  i = j
    OBVIOUS
  <2>3. ~(i < j) /\ ~(j < i)
    BY <2>2
  <2>4. i \in Int /\ j \in Int
    OBVIOUS
  <2> QED BY <2>3, <2>4
<1>7. \A i \in 1..Len(InOrder) :
        at[i] \in 1..Len(pool.inputs) /\ Sound(pool.inputs[at[i]], InOrder[i])
  BY <1>3, <1>5
<1>8. ASSUME NEW x \in Lasting, NEW k \in 1..Len(pool.inputs), Aims(pool.inputs[k], x)
      PROVE  \E i \in 1..Len(InOrder) : at[i] = k /\ Shows(pool.inputs[k], InOrder[i], x)
  <2>1. PICK j \in 1..Len(pool.done) :
          pool.done[j].at = k /\ Shows(pool.inputs[k], pool.done[j].what, x)
    BY <1>5, <1>8
  <2>2. k \in Range(at)
    BY <1>3, <2>1
  <2>3. PICK i \in 1..Len(at) : at[i] = k
    BY <1>4, <2>2
  <2>4. PICK l \in 1..Len(pool.done) : pool.done[l].at = k /\ InOrder[i] = pool.done[l].what
    BY <1>3, <2>3
  <2>5. l = j
    BY <1>6, <2>1, <2>4
  <2> QED BY <1>3, <2>1, <2>3, <2>4, <2>5
<1>9. OrderedBy(at)
  BY <1>3, <1>4, <1>7, <1>8 DEF OrderedBy
<1> QED BY <1>9

-----------------------------------------------------------------------------
(* SQLColumns reads the tables that were listed.                           *)

AskTables(ins, s) ==
  /\ IsSeq(ins) /\ Len(ins) = Len(s)
  /\ \A k \in 1..Len(s) :
       /\ ins[k] = Task("table", s[k][1], s[k][2], s[k][3])
       /\ ins[k].kind = "table" /\ ins[k].project = s[k][1]
       /\ ins[k].dataset = s[k][2] /\ ins[k].name = s[k][3]

LEMMA TableTasks ==
  ASSUME NEW s, IsSeq(s), NEW ins,
         ins = [i \in DOMAIN s |-> Task("table", s[i][1], s[i][2], s[i][3])]
  PROVE  AskTables(ins, s)
<1>1. DOMAIN s = 1..Len(s)
  BY SeqShape
<1>2. ins = [i \in DOMAIN s |-> ins[i]]
  OBVIOUS
<1>3. IsSeq(ins) /\ Len(ins) = Len(s)
  BY <1>2, MappedSeq
<1>4. ASSUME NEW k \in 1..Len(s)
      PROVE  /\ ins[k] = Task("table", s[k][1], s[k][2], s[k][3])
             /\ ins[k].kind = "table" /\ ins[k].project = s[k][1]
             /\ ins[k].dataset = s[k][2] /\ ins[k].name = s[k][3]
  <2>1. ins[k] = Task("table", s[k][1], s[k][2], s[k][3])
    BY <1>1
  <2> DEFINE t == ins[k]
             p == s[k][1]
             d == s[k][2]
             n == s[k][3]
  <2>2. t = Task("table", p, d, n)
    BY <2>1
  <2>3. t.kind = "table" /\ t.project = p /\ t.dataset = d /\ t.name = n
    <3> HIDE DEF t, p, d, n
    <3> QED BY <2>2 DEF Task
  <2> QED BY <2>1, <2>3
<1> QED BY <1>3, <1>4 DEF AskTables

LEMMA ColumnTables ==
  ASSUME Shape, Sees, ArgsInv, InputsInv, ColumnOrderInv, AnswersInv, Listing, RoundOver,
         pool.error = "none", Args.fn = "columns", call.stage = "tables",
         NEW ins, AskTables(ins, FlattenSeq(InOrder))
  PROVE  IsSeq(ins) /\ RoundRight("table", <<>>, ins)
<1> DEFINE io == InOrder
           s == FlattenSeq(io)
<1>1. \A k \in 1..Len(pool.inputs) : pool.inputs[k].kind = "tables"
  BY DEF Shape, CallShape, Listing, KindsOf, Kinds
<1>2. PICK at : OrderedBy(at)
  BY InOrderGiven
<1>3. /\ \A i \in 1..Len(io) : at[i] \in 1..Len(pool.inputs) /\ Sound(pool.inputs[at[i]], io[i])
      /\ \A i, j \in 1..Len(io) : i < j => at[i] < at[j]
      /\ \A x \in Lasting : \A k \in 1..Len(pool.inputs) : Aims(pool.inputs[k], x) =>
           \E i \in 1..Len(io) : at[i] = k /\ Shows(pool.inputs[k], io[i], x)
  BY <1>2 DEF OrderedBy
<1>4. PICK V : io \in Seq(Seq(V))
  BY BatchesInOrder DEF ListsBatches, Args
<1>5. AskTables(ins, s)
  OBVIOUS
<1> HIDE DEF io
<1>6. s \in Seq(V) /\ \E b, p : Walks(b, p, io, Len(io), s)
  BY <1>4, FlattenPlaces
<1> HIDE DEF s
<1>7. PICK b, p : Walks(b, p, io, Len(io), s)
  BY <1>6
<1>8. /\ \A i \in 1..Len(s) :
           b[i] \in 1..Len(io) /\ p[i] \in 1..Len(io[b[i]]) /\ s[i] = io[b[i]][p[i]]
      /\ \A i, j \in 1..Len(s) : i < j => b[i] < b[j] \/ (b[i] = b[j] /\ p[i] < p[j])
      /\ \A x \in 1..Len(io) : \A y \in 1..Len(io[x]) : \E i \in 1..Len(s) : b[i] = x /\ p[i] = y
  BY <1>7 DEF Walks
<1>9. /\ IsSeq(ins) /\ Len(ins) = Len(s)
      /\ \A k \in 1..Len(s) :
           /\ ins[k] = Task("table", s[k][1], s[k][2], s[k][3])
           /\ ins[k].kind = "table" /\ ins[k].project = s[k][1]
           /\ ins[k].dataset = s[k][2] /\ ins[k].name = s[k][3]
  BY <1>5 DEF AskTables
<1>10. \A m \in 1..Len(io) :
         LET w == io[m]
             t == pool.inputs[at[m]]
         IN  /\ at[m] \in 1..Len(pool.inputs) /\ ProjectListed(t.project) /\ DatasetAsked(t.dataset)
             /\ IsSeq(w)
             /\ \A i \in 1..Len(w) :
                  w[i] = <<t.project, t.dataset, w[i][3]>> /\ ColumnsSought(Asked, w[i])
             /\ \A i, j \in 1..Len(w) : i < j => Precedes(TableSeq, w[i][3], w[j][3])
  <2> SUFFICES ASSUME NEW m \in 1..Len(io)
               PROVE LET w == io[m]
                         t == pool.inputs[at[m]]
                     IN  /\ at[m] \in 1..Len(pool.inputs)
                         /\ ProjectListed(t.project) /\ DatasetAsked(t.dataset)
                         /\ IsSeq(w)
                         /\ \A i \in 1..Len(w) :
                              w[i] = <<t.project, t.dataset, w[i][3]>> /\ ColumnsSought(Asked, w[i])
                         /\ \A i, j \in 1..Len(w) : i < j => Precedes(TableSeq, w[i][3], w[j][3])
    OBVIOUS
  <2> DEFINE v == io[m]
             u == pool.inputs[at[m]]
  <2>1. at[m] \in 1..Len(pool.inputs) /\ Sound(u, v) /\ u.kind = "tables"
    BY <1>1, <1>3
  <2>2. Fitting(u)
    BY <2>1 DEF InputsInv
  <2>3. ProjectListed(u.project) /\ DatasetAsked(u.dataset)
    <3> HIDE DEF u, v
    <3> QED BY <2>1, <2>2 DEF Fitting
  <2>4. /\ IsSeq(v)
        /\ \A i \in 1..Len(v) :
             v[i] = <<u.project, u.dataset, v[i][3]>> /\ ColumnsSought(Asked, v[i])
        /\ \A i, j \in 1..Len(v) : i < j => Precedes(TableSeq, v[i][3], v[j][3])
    <3> HIDE DEF u, v
    <3> QED BY <2>1 DEF Sound
  <2> QED BY <2>1, <2>3, <2>4
<1>11. ASSUME NEW i \in 1..Len(s)
       PROVE  /\ s[i] = <<s[i][1], s[i][2], s[i][3]>>
              /\ s[i][2] = pool.inputs[at[b[i]]].dataset
              /\ ProjectListed(s[i][1]) /\ DatasetAsked(s[i][2]) /\ ColumnsSought(Asked, s[i])
  <2> DEFINE m == b[i]
             t == pool.inputs[at[m]]
             w == s[i]
  <2>1. m \in 1..Len(io) /\ p[i] \in 1..Len(io[m]) /\ w = io[m][p[i]]
    BY <1>8
  <2>2. w = <<t.project, t.dataset, w[3]>> /\ ColumnsSought(Asked, w)
        /\ ProjectListed(t.project) /\ DatasetAsked(t.dataset)
    <3> HIDE DEF m, w
    <3> QED BY <1>10, <2>1
  <2>3. w = <<w[1], w[2], w[3]>> /\ w[1] = t.project /\ w[2] = t.dataset
    <3> HIDE DEF w, t
    <3> QED BY <2>2
  <2> QED BY <2>2, <2>3
<1>12. ASSUME NEW i \in 1..Len(s), NEW j \in 1..Len(s), i < j
       PROVE  \/ Precedes(DatasetSeq, s[i][2], s[j][2])
              \/ s[i][2] = s[j][2] /\ Precedes(TableSeq, s[i][3], s[j][3])
  <2>1. CASE b[i] < b[j]
    <3> DEFINE k == at[b[i]]
               l == at[b[j]]
    <3>1. k \in 1..Len(pool.inputs) /\ l \in 1..Len(pool.inputs) /\ k < l
      BY <1>3, <1>8, <2>1
    <3>2. Precedes(DatasetSeq, pool.inputs[k].dataset, pool.inputs[l].dataset)
      <4> HIDE DEF k, l
      <4> QED BY <3>1 DEF ColumnOrderInv
    <3> QED BY <1>11, <3>2
  <2>2. CASE b[i] = b[j] /\ p[i] < p[j]
    <3> DEFINE m == b[i]
               w == io[m]
               x == p[i]
               y == p[j]
    <3>1. m \in 1..Len(io) /\ x \in 1..Len(w) /\ y \in 1..Len(w) /\ x < y
          /\ s[i] = w[x] /\ s[j] = w[y]
      BY <1>8, <2>2
    <3>2. \A e, f \in 1..Len(w) : e < f => Precedes(TableSeq, w[e][3], w[f][3])
      <4> HIDE DEF m
      <4> QED BY <1>10, <3>1
    <3>3. Precedes(TableSeq, s[i][3], s[j][3])
      <4> HIDE DEF w, x, y
      <4> QED BY <3>1, <3>2
    <3> QED BY <1>11, <2>2, <3>3
  <2> QED BY <1>8, <1>12, <2>1, <2>2
<1>13. Distinct(ins)
  <2>1. ASSUME NEW i \in 1..Len(s), NEW j \in 1..Len(s), ins[i] = ins[j] PROVE i = j
    <3>1. s[i][2] = s[j][2] /\ s[i][3] = s[j][3]
      BY <1>9, <2>1
    <3>2. ~(i < j) /\ ~(j < i)
      BY <1>12, <3>1, NoneTwice
    <3>3. i \in Int /\ j \in Int
      OBVIOUS
    <3> QED BY <3>2, <3>3
  <2>2. \A i, j \in 1..Len(ins) : ins[i] = ins[j] => i = j
    BY <1>9, <2>1
  <2> QED BY <2>2 DEF Distinct
<1>14. ASSUME NEW k \in 1..Len(ins) PROVE Fitting(ins[k])
  <2> DEFINE t == ins[k]
             w == s[k]
             e == w[1]
             d == w[2]
             n == w[3]
  <2>1. /\ t.kind = "table" /\ t.project = e /\ t.dataset = d /\ t.name = n
        /\ t = Task("table", e, d, n) /\ ProjectListed(e) /\ DatasetAsked(d)
        /\ w = <<e, d, n>> /\ ColumnsSought(Asked, w)
    BY <1>9, <1>11
  <2> HIDE DEF t, e, d, n, w
  <2>2. ColumnsSought(Asked, <<e, d, n>>)
    BY <2>1
  <2>3. Fitting(t)
    BY <2>1, <2>2 DEF Fitting
  <2> QED BY <2>3 DEF t
<1>15. ASSUME NEW x \in Lasting PROVE \E k \in 1..Len(ins) : Aims(ins[k], x)
  <2>1. PICK k \in 1..Len(pool.inputs) : Aims(pool.inputs[k], x)
    BY DEF InputsInv, Covered
  <2>2. PICK m \in 1..Len(io) : at[m] = k /\ Shows(pool.inputs[k], io[m], x)
    BY <1>3, <2>1
  <2>3. x \in Range(io[m])
    BY <1>1, <2>2 DEF Shows
  <2>4. IsSeq(io[m])
    BY <1>10
  <2> DEFINE v == io[m]
  <2>5. PICK y \in 1..Len(v) : v[y] = x
    <3>1. Range(v) = {v[y] : y \in 1..Len(v)}
      <4> HIDE DEF v
      <4> QED BY <2>4, SeqShape DEF v
    <3> QED BY <2>3, <3>1
  <2>6. PICK i \in 1..Len(s) : b[i] = m /\ p[i] = y
    BY <1>8, <2>5
  <2>7. s[i] = x
    BY <1>8, <2>5, <2>6
  <2>8. x = <<x[1], x[2], x[3]>>
    BY LastingAsked
  <2> DEFINE t == ins[i]
  <2>9. t.kind = "table" /\ t.project = x[1] /\ t.dataset = x[2] /\ t.name = x[3]
    BY <1>9, <2>7
  <2>10. Aims(t, x)
    <3> HIDE DEF t
    <3> QED BY <2>8, <2>9 DEF Aims
  <2> QED BY <1>9, <2>10
<1>16. \A k, l \in 1..Len(ins) :
         k < l => \/ Precedes(DatasetSeq, ins[k].dataset, ins[l].dataset)
                  \/ /\ ins[k].dataset = ins[l].dataset
                     /\ Precedes(TableSeq, ins[k].name, ins[l].name)
  BY <1>9, <1>12
<1>17. RoundRight("table", <<>>, ins)
  BY <1>13, <1>14, <1>15, <1>16 DEF RoundRight
<1> QED BY <1>9, <1>17

-----------------------------------------------------------------------------
(* Every step leaves the requests in order.                                *)

Entered == InputsInv /\ ColumnOrderInv

LEMMA NotListing ==
  ASSUME ~Listing'
  PROVE  Entered'
  BY DEF Entered, InputsInv, ColumnOrderInv

LEMMA EndedNotListing ==
  ASSUME Shape, NEW c, Ends(c)
  PROVE  Entered'
<1>1. Idle'
  BY EndsShape
<1> QED BY <1>1, NotListing DEF Listing

LEMMA Validating ==
  ASSUME NEW c, NEW projects, AppendAdditionalProjectsIfMissing(c, projects)
  PROVE  Round(c, "validate", projects, 1, Validations(projects))
  BY DEF AppendAdditionalProjectsIfMissing, Validations, Missed

LEMMA ListingTables ==
  ASSUME NEW c, NEW datasets, IsSeq(datasets), ListTables(c, datasets)
  PROVE  \/ Ends(c)
         \/ \E ins : /\ AskDatasets(ins, datasets)
                     /\ Round(c, "tables", <<>>, config.max_threads, ins)
<1> DEFINE ins == [i \in DOMAIN datasets |-> Task("tables", datasets[i][1], datasets[i][2], "")]
<1>1. AskDatasets(ins, datasets)
  BY DatasetTasks
<1>2. ReturnError(c, TRUE) \/ Round(c, "tables", <<>>, config.max_threads, ins)
  BY DEF ListTables
<1> HIDE DEF ins
<1> QED BY <1>1, <1>2 DEF Ends

-----------------------------------------------------------------------------
(* The first round of a call.                                              *)

FirstRoundRight ==
  \A projects, ins :
    /\ config.dsn.allowed # <<>> \/ LiteralFromOdbcPattern(Args.catalog, Args.metadata_id) # NoLiteral
    /\ projects = FirstProjects /\ ins = Validations(projects)
    => IsSeq(ins) /\ RoundRight("validate", projects, ins)

LEMMA FirstValidation ==
  Shape /\ Sees /\ ArgsInv /\ Listing /\ Args.fn = "tables" => FirstRoundRight
  BY FirstProjectsRight, ValidationsRight DEF FirstRoundRight

LEMMA CallTables ==
  ASSUME Shape, NEW c \in Calls, SQLTables(c), Listing',
         Shape', Sees', ArgsInv', Args' = TablesArgs(c), Args'.fn = "tables"
  PROVE  Entered'
<1> DEFINE a == TablesArgs(c)
           allowed == config.dsn.allowed
           literal == LiteralFromOdbcPattern(a.catalog, a.metadata_id)
<1>1. Args' = a /\ a.fn = "tables"
  OBVIOUS
<1>2. \/ Ends(a)
      \/ literal # NoLiteral /\ allowed = <<>> /\ AppendAdditionalProjectsIfMissing(a, <<literal>>)
      \/ literal # NoLiteral /\ allowed # <<>> /\
           AppendAdditionalProjectsIfMissing(a, FilterAllowedProjects(allowed, literal, TRUE))
      \/ literal = NoLiteral /\ allowed # <<>> /\
           AppendAdditionalProjectsIfMissing(a, FilterAllowedProjects(allowed, a.catalog, FALSE))
      \/ literal = NoLiteral /\ allowed = <<>> /\
           Round(a, "projects", <<>>, 1, <<Task("projects", "", "", "")>>)
  <2> HIDE DEF a
  <2>1. a = TablesArgs(c)
    BY DEF a
  <2>2. \/ ReturnError(a, TRUE)
        \/ literal # NoLiteral /\ allowed = <<>> /\ AppendAdditionalProjectsIfMissing(a, <<literal>>)
        \/ literal # NoLiteral /\ allowed # <<>> /\
             AppendAdditionalProjectsIfMissing(a, FilterAllowedProjects(allowed, literal, TRUE))
        \/ literal = NoLiteral /\ allowed # <<>> /\
             AppendAdditionalProjectsIfMissing(a, FilterAllowedProjects(allowed, a.catalog, FALSE))
        \/ literal = NoLiteral /\ allowed = <<>> /\
             Round(a, "projects", <<>>, 1, <<Task("projects", "", "", "")>>)
    <3>1. NullIdentifier(c) => ReturnError(a, TRUE)
      BY <2>1 DEF SQLTables
    <3>2. ~NullIdentifier(c) /\ literal # NoLiteral =>
            AppendAdditionalProjectsIfMissing(a,
              IF allowed = <<>> THEN <<literal>> ELSE FilterAllowedProjects(allowed, literal, TRUE))
      BY <1>1, <2>1 DEF SQLTables
    <3>3. ~NullIdentifier(c) /\ literal = NoLiteral /\ allowed # <<>> =>
            AppendAdditionalProjectsIfMissing(a, FilterAllowedProjects(allowed, a.catalog, FALSE))
      BY <1>1, <2>1 DEF SQLTables
    <3>4. ~NullIdentifier(c) /\ literal = NoLiteral /\ allowed = <<>> =>
            Round(a, "projects", <<>>, 1, <<Task("projects", "", "", "")>>)
      BY <1>1, <2>1 DEF SQLTables
    <3> HIDE DEF literal, allowed
    <3> QED BY <3>1, <3>2, <3>3, <3>4
  <2> QED BY <2>2 DEF Ends
<1>3. CASE Ends(a)
  BY <1>3, EndedNotListing
<1>4. ASSUME NEW projects, AppendAdditionalProjectsIfMissing(a, projects),
             allowed # <<>> \/ literal # NoLiteral,
             /\ literal # NoLiteral /\ allowed = <<>> => projects = <<literal>>
             /\ literal # NoLiteral /\ allowed # <<>> =>
                  projects = FilterAllowedProjects(allowed, literal, TRUE)
             /\ literal = NoLiteral /\ allowed # <<>> =>
                  projects = FilterAllowedProjects(allowed, a.catalog, FALSE)
      PROVE  Entered'
  <2>0. PICK ins : ins = Validations(projects)
    OBVIOUS
  <2>1. Round(a, "validate", projects, 1, ins)
    BY <1>4, <2>0, Validating
  <2>2. config' = config
    BY <2>1 DEF Round
  <2>3. projects = FirstProjects'
    <3>1. FirstProjects' = LET p1 == LiteralFromOdbcPattern(Args'.catalog, Args'.metadata_id)
                           IN  CASE p1 # NoLiteral /\ config'.dsn.allowed = <<>> -> <<p1>>
        [] p1 # NoLiteral /\ config'.dsn.allowed # <<>> -> FilterAllowedProjects(config'.dsn.allowed, p1, TRUE)
        [] OTHER -> FilterAllowedProjects(config'.dsn.allowed, Args'.catalog, FALSE)
      BY DEF FirstProjects
    <3>2. FirstProjects' = CASE literal # NoLiteral /\ allowed = <<>> -> <<literal>>
        [] literal # NoLiteral /\ allowed # <<>> -> FilterAllowedProjects(allowed, literal, TRUE)
        [] OTHER -> FilterAllowedProjects(allowed, a.catalog, FALSE)
      BY <1>1, <2>2, <3>1
    <3> HIDE DEF a, literal, allowed
    <3> QED BY <1>4, <3>2
  <2>4. ins = Validations(projects)'
    BY <2>0, <2>2 DEF Validations, Missed
  <2>5. (config.dsn.allowed # <<>>
           \/ LiteralFromOdbcPattern(Args.catalog, Args.metadata_id) # NoLiteral)'
    BY <1>1, <1>4, <2>2
  <2>6. IsSeq(ins) /\ RoundRight("validate", projects, ins)'
    <3>1. FirstRoundRight'
      <4>1. (Shape /\ Sees /\ ArgsInv /\ Listing /\ Args.fn = "tables")'
        OBVIOUS
      <4> QED BY <4>1, FirstValidation, PTL
    <3> QED BY <2>3, <2>4, <2>5, <3>1 DEF FirstRoundRight
  <2> QED BY <2>1, <2>6, RoundEntered DEF Entered
<1>5. CASE literal = NoLiteral /\ allowed = <<>> /\
           Round(a, "projects", <<>>, 1, <<Task("projects", "", "", "")>>)
  <2> DEFINE ins == <<Task("projects", "", "", "")>>
  <2>1. config' = config
    BY <1>5 DEF Round
  <2>2. (config.dsn.allowed = <<>>
           /\ LiteralFromOdbcPattern(Args.catalog, Args.metadata_id) = NoLiteral)'
    BY <1>1, <1>5, <2>1
  <2>3. (Shape /\ Sees /\ ArgsInv /\ Listing /\ Args.fn = "tables" /\ config.dsn.allowed = <<>>
          /\ LiteralFromOdbcPattern(Args.catalog, Args.metadata_id) = NoLiteral)'
    BY <2>2
  <2>4. RoundRight("projects", <<>>, <<Task("projects", "", "", "")>>)'
    BY <2>3, ProjectsRoundRight, PTL
  <2>5. RoundRight("projects", <<>>, ins)'
    BY <2>4
  <2>6. IsSeq(ins) /\ Round(a, "projects", <<>>, 1, ins)
    BY <1>5, Singleton
  <2> HIDE DEF ins
  <2> QED BY <2>5, <2>6, RoundEntered DEF Entered
<1> HIDE DEF a, literal, allowed
<1> QED BY <1>2, <1>3, <1>4, <1>5

NamedRight ==
  \A ins : AskDatasets(ins, <<<<Args.catalog, Args.schema>>>>) => RoundRight("tables", <<>>, ins)

LEMMA NamedIsRight ==
  Shape /\ Sees /\ ArgsInv /\ Listing /\ Args.fn = "columns" /\ ~Args.metadata_id
    /\ ~IsSearchPatternArgument(Args.schema) => NamedRight
  BY NamedRound DEF NamedRight

LEMMA CallColumns ==
  ASSUME Shape, NEW c \in Calls, SQLColumns(c), Listing',
         Shape', Sees', ArgsInv', Args' = ColumnsArgs(c), Args'.fn = "columns"
  PROVE  Entered'
<1> DEFINE a == ColumnsArgs(c)
           pair == <<a.catalog, a.schema>>
           s == <<pair>>
<1>1. Args' = a /\ a.fn = "columns"
  OBVIOUS
<1>2. \/ Ends(a)
      \/ FastPath(a) /\ Round(a, "table", <<>>, 1, <<Task("table", a.catalog, a.schema, a.table)>>)
      \/ ~a.metadata_id /\ ~IsSearchPatternArgument(a.schema) /\ ListTables(a, s)
      \/ Round(a, "datasets", <<>>, 1, <<Task("datasets", a.catalog, "", "")>>)
  <2> HIDE DEF a
  <2>1. a = ColumnsArgs(c)
    BY DEF a
  <2>2. \/ ReturnError(a, TRUE)
        \/ FastPath(a) /\ Round(a, "table", <<>>, 1, <<Task("table", a.catalog, a.schema, a.table)>>)
        \/ ~a.metadata_id /\ ~IsSearchPatternArgument(a.schema) /\ ListTables(a, s)
        \/ Round(a, "datasets", <<>>, 1, <<Task("datasets", a.catalog, "", "")>>)
    BY <2>1 DEF SQLColumns
  <2> QED BY <2>2 DEF Ends
<1>3. (Shape /\ Sees /\ ArgsInv /\ Listing /\ Args.fn = "columns")'
  OBVIOUS
<1>4. CASE Ends(a)
  BY <1>4, EndedNotListing
<1>5. CASE FastPath(a) /\ Round(a, "table", <<>>, 1, <<Task("table", a.catalog, a.schema, a.table)>>)
  <2> PICK t : t = Task("table", a.catalog, a.schema, a.table)
    OBVIOUS
  <2>1. (Shape /\ Sees /\ ArgsInv /\ Listing /\ Args.fn = "columns" /\ FastPath(Args))'
    BY <1>1, <1>3, <1>5
  <2>2. RoundRight("table", <<>>, <<Task("table", Args.catalog, Args.schema, Args.table)>>)'
    BY <2>1, FastRound, PTL
  <2>3. t = Task("table", Args.catalog, Args.schema, Args.table)'
    BY <1>1
  <2>4. RoundRight("table", <<>>, <<t>>)'
    BY <2>2, <2>3
  <2>5. IsSeq(<<t>>) /\ Round(a, "table", <<>>, 1, <<t>>)
    BY <1>5, Singleton
  <2> QED BY <2>4, <2>5, RoundEntered DEF Entered
<1>6. CASE Round(a, "datasets", <<>>, 1, <<Task("datasets", a.catalog, "", "")>>)
  <2> PICK t : t = Task("datasets", a.catalog, "", "")
    OBVIOUS
  <2>1. RoundRight("datasets", <<>>, <<Task("datasets", Args.catalog, "", "")>>)'
    BY <1>3, DatasetsRound, PTL
  <2>2. t = Task("datasets", Args.catalog, "", "")'
    BY <1>1
  <2>3. RoundRight("datasets", <<>>, <<t>>)'
    BY <2>1, <2>2
  <2>4. IsSeq(<<t>>) /\ Round(a, "datasets", <<>>, 1, <<t>>)
    BY <1>6, Singleton
  <2> QED BY <2>3, <2>4, RoundEntered DEF Entered
<1>7. CASE ~a.metadata_id /\ ~IsSearchPatternArgument(a.schema) /\ ListTables(a, s)
  <2>1. IsSeq(s)
    BY Singleton
  <2>2. CASE Ends(a)
    BY <2>2, EndedNotListing
  <2>3. ASSUME NEW ins, AskDatasets(ins, s), Round(a, "tables", <<>>, config.max_threads, ins)
        PROVE  Entered'
    <3>1. (Shape /\ Sees /\ ArgsInv /\ Listing /\ Args.fn = "columns" /\ ~Args.metadata_id
             /\ ~IsSearchPatternArgument(Args.schema))'
      BY <1>1, <1>3, <1>7
    <3>2. NamedRight'
      BY <3>1, NamedIsRight, PTL
    <3>3. AskDatasets(ins, <<<<Args.catalog, Args.schema>>>>)'
      BY <1>1, <2>3 DEF AskDatasets
    <3>4. RoundRight("tables", <<>>, ins)'
      BY <3>2, <3>3 DEF NamedRight
    <3>5. IsSeq(ins) /\ config.max_threads \in Nat
      BY <2>3, Threads DEF AskDatasets
    <3> PICK n : n = config.max_threads
      OBVIOUS
    <3>6. n \in Nat /\ Round(a, "tables", <<>>, n, ins)
      BY <2>3, <3>5
    <3> QED BY <3>4, <3>5, <3>6, RoundEntered DEF Entered
  <2> HIDE DEF a, s
  <2> QED BY <1>7, <2>1, <2>2, <2>3, ListingTables
<1> HIDE DEF a, s
<1> QED BY <1>2, <1>4, <1>5, <1>6, <1>7

-----------------------------------------------------------------------------
(* The round that follows.                                                 *)

LEMMA GoesOnRight ==
  ASSUME Shape, Same, seen' = seen, NEW c, NEW stage, NEW projects, NEW n \in Nat, NEW ins,
         IsSeq(ins), Round(c, stage, projects, n, ins), RoundRight(stage, projects, ins)
  PROVE  Entered'
<1>1. RoundRight(stage, projects, ins)'
  BY RoundStaysRight
<1> QED BY <1>1, RoundEntered DEF Entered

LEMMA AfterProjects ==
  ASSUME Shape, Sees, ArgsInv, InputsInv, AnswersInv, Listing, Same, seen' = seen,
         ProjectsListed
  PROVE  Entered'
<1>1. Args.fn = "tables" /\ RoundOver /\ pool.error = "none" /\ call.stage = "projects"
  BY DEF ProjectsListed, Shape, CallShape, StageFns, TablesFns, Listing, Args
<1>2. ProjectsRight(Elements)
  BY <1>1, ListedProjectsRight
<1> PICK projects : projects = Elements
  OBVIOUS
<1>3. ProjectsRight(projects)
  BY <1>2
<1> PICK ins : ins = Validations(projects)
  OBVIOUS
<1>4. IsSeq(ins) /\ RoundRight("validate", projects, ins)
  BY <1>1, <1>3, ValidationsRight
<1>5. Round(call.args, "validate", projects, 1, ins)
  BY Validating DEF ProjectsListed
<1> QED BY <1>4, <1>5, GoesOnRight

LEMMA AfterValidation ==
  ASSUME Shape, Sees, ArgsInv, FailInv, InputsInv, AnswersInv, Listing, Same, seen' = seen,
         ProjectsValidated
  PROVE  Entered'
<1>1. RoundOver /\ call.stage = "validate"
  BY DEF ProjectsValidated
<1>2. Args.fn = "tables" /\ ProjectsKnown(call.projects \o Elements)
  BY <1>1, ValidatedProjects
<1> PICK projects : projects = call.projects \o Elements
  OBVIOUS
<1> PICK d : d = LiteralFromOdbcPattern(Args.schema, Args.metadata_id)
  OBVIOUS
<1> PICK n : n = config.max_threads
  OBVIOUS
<1> PICK tables : tables = [i \in DOMAIN projects |-> Task("tables", projects[i], d, "")]
  OBVIOUS
<1> PICK datasets : datasets = [i \in DOMAIN projects |-> Task("datasets", projects[i], "", "")]
  OBVIOUS
<1>3. n \in Nat /\ ProjectsKnown(projects)
  BY <1>2, Threads
<1>4. d # NoLiteral => Round(call.args, "tables", projects, n, tables)
  BY <1>2 DEF ProjectsValidated, Args
<1>5. d = NoLiteral => Round(call.args, "datasets", projects, n, datasets)
  BY <1>2 DEF ProjectsValidated, Args
<1>8. IsSeq(projects)
  BY <1>3 DEF ProjectsKnown
<1>9. AskProjects(tables, projects, "tables", d)
  BY <1>8, ProjectTasks
<1>10. AskProjects(datasets, projects, "datasets", "")
  BY <1>8, ProjectTasks
<1>6. CASE d # NoLiteral
  <2>1. IsSeq(tables) /\ RoundRight("tables", projects, tables)
    BY <1>2, <1>3, <1>6, <1>9, ForEachProject
  <2> QED BY <1>3, <1>4, <1>6, <2>1, GoesOnRight
<1>7. CASE d = NoLiteral
  <2>1. IsSeq(datasets) /\ RoundRight("datasets", projects, datasets)
    BY <1>2, <1>3, <1>7, <1>10, ForEachProject
  <2> QED BY <1>3, <1>5, <1>7, <2>1, GoesOnRight
<1> QED BY <1>6, <1>7

LEMMA AfterDatasets ==
  ASSUME Shape, Sees, ArgsInv, InputsInv, ColumnOrderInv, AnswersInv, Listing, Same, seen' = seen,
         DatasetsListed
  PROVE  Entered'
<1>1. RoundOver /\ call.stage = "datasets" /\ pool.error = "none" /\ call.args.fn \in {"tables", "columns"}
  BY DEF DatasetsListed, Listing, Args
<1> PICK found : found = Elements
  OBVIOUS
<1> PICK n : n = config.max_threads
  OBVIOUS
<1>2. IsSeq(found) /\ n \in Nat
  BY <1>1, ElementsSeq, Threads
<1>3. \A ins : AskDatasets(ins, found) => IsSeq(ins) /\ RoundRight("tables", <<>>, ins)
  BY <1>1, DatasetsFound
<1>4. CASE call.args.fn = "tables"
  <2> PICK ins : ins = [i \in DOMAIN found |-> Task("tables", found[i][1], found[i][2], "")]
    OBVIOUS
  <2>1. Round(call.args, "tables", <<>>, n, ins)
    BY <1>4 DEF DatasetsListed
  <2>2. AskDatasets(ins, found)
    BY <1>2, DatasetTasks
  <2> QED BY <1>2, <1>3, <2>1, <2>2, GoesOnRight
<1>5. CASE call.args.fn = "columns"
  <2>1. ListTables(call.args, found)
    BY <1>5 DEF DatasetsListed
  <2> PICK c : c = call.args
    OBVIOUS
  <2>2. \/ Ends(c)
        \/ \E ins : AskDatasets(ins, found) /\ Round(c, "tables", <<>>, config.max_threads, ins)
    BY <1>2, <2>1, ListingTables
  <2>3. CASE Ends(c)
    BY <2>3, EndedNotListing
  <2>4. ASSUME NEW ins, AskDatasets(ins, found), Round(c, "tables", <<>>, n, ins)
        PROVE  Entered'
    BY <1>2, <1>3, <2>4, GoesOnRight
  <2> QED BY <2>2, <2>3, <2>4
<1> QED BY <1>1, <1>4, <1>5

LEMMA AfterColumnTables ==
  ASSUME Shape, Sees, ArgsInv, InputsInv, ColumnOrderInv, AnswersInv, Listing, Same, seen' = seen,
         ColumnTablesListed
  PROVE  Entered'
<1>1. RoundOver /\ call.stage = "tables" /\ pool.error = "none" /\ Args.fn = "columns"
  BY DEF ColumnTablesListed, Args
<1> PICK s : s = FlattenSeq(InOrder)
  OBVIOUS
<1> PICK n : n = config.max_threads
  OBVIOUS
<1> PICK ins : ins = [i \in DOMAIN s |-> Task("table", s[i][1], s[i][2], s[i][3])]
  OBVIOUS
<1>2. n \in Nat
  BY Threads
<1>3. IsSeq(s)
  <2>1. PICK V : InOrder \in Seq(Seq(V))
    BY <1>1, BatchesInOrder DEF ListsBatches, Args
  <2>2. FlattenSeq(InOrder) \in Seq(V)
    BY <2>1, FlattenPlaces
  <2>3. s \in Seq(V)
    BY <2>2
  <2> QED BY <2>3, SeqOfAny
<1>4. AskTables(ins, s)
  BY <1>3, TableTasks
<1>5. AskTables(ins, FlattenSeq(InOrder))
  BY <1>4
<1>6. IsSeq(ins) /\ RoundRight("table", <<>>, ins)
  BY <1>1, <1>5, ColumnTables
<1>7. Round(call.args, "table", <<>>, n, ins)
  BY DEF ColumnTablesListed
<1> QED BY <1>2, <1>6, <1>7, GoesOnRight

-----------------------------------------------------------------------------
(* Every step keeps what is known of the requests.                         *)

LEMMA EnteredByCall ==
  ASSUME Shape, Shape', Sees', ArgsInv', NEW c \in Calls, Call(c)
  PROVE  Entered'
<1>1. PICK a : ReadsAs(c, a) /\ (GoesOn(a) \/ Ends(a))
  BY CallOutcome
<1>2. CASE Ends(a)
  BY <1>2, EndedNotListing
<1>3. CASE ~Listing'
  BY <1>3, NotListing
<1>4. CASE Listing' /\ GoesOn(a)
  <2>1. Args' = a /\ a.fn \in {"tables", "columns"}
    BY <1>4, GoesFields DEF Listing, Args
  <2>2. CASE c.fn = "tables"
    <3>1. SQLTables(c)
      BY <2>2 DEF Call, SQLColumns, SQLProcedures, SQLPrimaryKeys, SQLForeignKeys, SQLStatistics,
                  SQLSpecialColumns, SQLGetTypeInfo
    <3>2. Args' = TablesArgs(c) /\ a = TablesArgs(c)
      BY <1>1, <2>1, <2>2 DEF ReadsAs
    <3> DEFINE b == TablesArgs(c)
    <3>3. b.fn \in TablesFns \cup {"types"}
      BY TablesArgsFields
    <3> HIDE DEF b
    <3>4. Args'.fn = "tables"
      BY <2>1, <3>2, <3>3 DEF TablesFns, b
    <3> QED BY <1>4, <3>1, <3>2, <3>4, CallTables
  <2>3. CASE c.fn = "columns"
    <3>1. SQLColumns(c)
      BY <2>3 DEF Call, SQLTables, SQLProcedures, SQLPrimaryKeys, SQLForeignKeys, SQLStatistics,
                  SQLSpecialColumns, SQLGetTypeInfo
    <3>2. Args' = ColumnsArgs(c) /\ a = ColumnsArgs(c)
      BY <1>1, <2>1, <2>3 DEF ReadsAs
    <3>3. a.fn = c.fn
      BY <1>1, <2>3 DEF ReadsAs
    <3>4. Args'.fn = "columns"
      BY <2>1, <2>3, <3>3
    <3> QED BY <1>4, <3>1, <3>2, <3>4, CallColumns
  <2>4. CASE c.fn \notin {"tables", "columns"}
    BY <1>1, <2>1, <2>4 DEF ReadsAs
  <2> QED BY <2>2, <2>3, <2>4
<1> QED BY <1>1, <1>2, <1>3, <1>4

LEMMA EnteredByAdvance ==
  ASSUME Shape, Sees, ArgsInv, FailInv, InputsInv, ColumnOrderInv, AnswersInv, Advance
  PROVE  Entered'
<1>1. Same /\ ~Idle /\ seen' = seen
  BY SameSteps, AdvanceFields
<1>2. CASE Ends(call.args)
  BY <1>2, EndedNotListing
<1>3. CASE ~Listing'
  BY <1>3, NotListing
<1>4. CASE Listing' /\ ~Ends(call.args)
  <2>1. Listing
    BY <1>1, <1>4 DEF Listing, Same
  <2>2. ~RequestsFailed /\ ~TablesListed /\ ~TablesRead /\ ~RoutinesRead /\ ~KeysRead
    <3>1. \A rows : ~ReturnRows(call.args, rows)
      BY <1>4 DEF Ends
    <3>2. ~ReturnError(call.args, FALSE)
      BY <1>4 DEF Ends
    <3>3. \A tables : ~ReturnColumns(call.args, tables)
      BY <3>1, <3>2 DEF ReturnColumns
    <3> QED BY <3>1, <3>2, <3>3 DEF RequestsFailed, TablesListed, TablesRead, RoutinesRead, KeysRead
  <2>3. ProjectsListed \/ ProjectsValidated \/ DatasetsListed \/ ColumnTablesListed
    BY <2>2 DEF Advance
  <2> QED BY <1>1, <2>1, <2>3, AfterProjects, AfterValidation, AfterDatasets, AfterColumnTables
<1> QED BY <1>2, <1>3, <1>4

LEMMA EnteredNext ==
  ASSUME Shape, Sees, ArgsInv, FailInv, InputsInv, ColumnOrderInv, AnswersInv, Next
  PROVE  Entered'
<1>1. ASSUME NEW c \in Calls, Call(c)
      PROVE  Entered'
  BY <1>1, ShapeNext, SeesNext, ArgsNext, EnteredByCall
<1>2. CASE Advance
  BY <1>2, EnteredByAdvance
<1>3. CASE CloseCursor
  <2>1. Idle'
    BY <1>3, ClosesOnly
  <2> QED BY <2>1, NotListing DEF Listing
<1>4. ASSUME Later, call' = call, pool'.inputs = pool.inputs
      PROVE  Entered'
  BY <1>4, InputsStay, OrderStays DEF Entered, Later
<1>5. CASE Environment
  <2>1. Later /\ call' = call
    BY <1>5, LaterSteps
  <2>2. PICK s : StoreChanges(s)
    BY <1>5, EnvironmentStores DEF Shape
  <2>3. pool'.inputs = pool.inputs
    BY <2>2 DEF StoreChanges
  <2> QED BY <1>4, <2>1, <2>3
<1>6. ASSUME NEW i \in DOMAIN pool.running, Collect(i) \/ Reply(i) \/ ReplyFails(i)
      PROVE  Entered'
  <2>1. Later /\ call' = call
    BY <1>6, LaterSteps
  <2>2. CASE ~Listing
    <3>1. ~Listing'
      BY <2>1, <2>2 DEF Later, SameListing, Listing, Idle, Same
    <3> QED BY <3>1, NotListing
  <2>3. CASE Listing
    <3>1. pool'.inputs = pool.inputs
      <4>1. CASE Collect(i)
        BY <2>3, <4>1, CollectRound
      <4>2. ASSUME NEW given, Respond(i, given)
            PROVE  pool'.inputs = pool.inputs
        BY <4>2, RespondPool
      <4> QED BY <1>6, <4>1, <4>2 DEF Reply, ReplyFails
    <3> QED BY <1>4, <2>1, <3>1
  <2> QED BY <2>2, <2>3
<1> QED BY <1>1, <1>2, <1>3, <1>5, <1>6, NextSteps

-----------------------------------------------------------------------------
(* What holds in every state during a call.                                *)

CallInv ==
  /\ Shape /\ Sees /\ ArgsInv /\ FailInv /\ InputsInv /\ ColumnOrderInv /\ AnswersInv

LEMMA CallInvInit ==
  ASSUME Init
  PROVE  CallInv
<1>1. Shape /\ Idle
  BY ShapeInit DEF Init, Idle
<1>2. Sees
  BY <1>1 DEF Init, Sees, SeenShape
<1>3. ArgsInv
  BY <1>1 DEF Init, ArgsInv
<1> QED BY <1>1, <1>2, <1>3 DEF CallInv, FailInv, InputsInv, ColumnOrderInv, AnswersInv, Listing

LEMMA CallInvNext ==
  ASSUME CallInv, Next
  PROVE  CallInv'
  BY ShapeNext, SeesNext, ArgsNext, FailNext, EnteredNext, AnswersNext DEF CallInv, Entered

LEMMA CallInvStutter ==
  ASSUME CallInv, UNCHANGED vars
  PROVE  CallInv'
<1>1. Later /\ call' = call /\ pool' = pool
  BY DEF vars, Later, Same, Args, Asked
<1>2. Shape'
  BY ShapeStutter DEF CallInv
<1>3. Sees'
  BY DEF vars, CallInv, Sees, SeenShape, Idle, Visible
<1>4. ArgsInv'
  <2>1. ReadsAs(Asked, Args) => ReadsAs(Asked, Args)'
    BY DEF vars, ReadsAs, TablesArgs, ColumnsArgs, DefaultDataset, Asked, Args
  <2>2. Asked' = Asked /\ Args' = Args
    BY <1>1 DEF Later, Same
  <2>3. CASE Idle /\ answer.code = "none" /\ stmt.state # "executedWithRs"
    BY <2>3 DEF vars, ArgsInv, Idle
  <2>4. CASE /\ Asked \in Calls /\ ReadsAs(Asked, Args)
             /\ ~Idle /\ Asked.fn = "tables" => ~NullIdentifier(Asked)
             /\ ~Idle /\ Asked.fn = "columns" => ValidateColumnParameters(Asked, Args)
    BY <1>1, <2>1, <2>2, <2>4 DEF ArgsInv, Idle
  <2> QED BY <2>3, <2>4 DEF CallInv, ArgsInv
<1>5. FailInv'
  BY <1>1 DEF vars, CallInv, FailInv, Failing, Idle, Args
<1>6. InputsInv' /\ ColumnOrderInv'
  BY <1>1, InputsStay, OrderStays DEF CallInv, Later
<1>7. AnswersInv'
  BY <1>1, AnswersStay DEF CallInv
<1> QED BY <1>2, <1>3, <1>4, <1>5, <1>6, <1>7 DEF CallInv

LEMMA CallInvAlways == Spec => []CallInv
<1>1. Init => CallInv
  BY CallInvInit
<1>2. CallInv /\ [Next]_vars => CallInv'
  BY CallInvNext, CallInvStutter
<1> QED BY <1>1, <1>2, PTL DEF Spec

-----------------------------------------------------------------------------
(* The tables of types agree.                                              *)

\* The types of a fixed size, and all types, as the driver spells them.
FixedTypes == {"INT64", "BOOL", "NUMERIC", "BIGNUMERIC", "DATE", "TIME", "DATETIME", "TIMESTAMP"}
PlainTypes == FixedTypes \cup {"FLOAT64", "STRING", "BYTES", "GEOGRAPHY", "STRUCT", "JSON",
                               "INTERVAL", "RANGE"}
SizeOf(t) ==
  CASE t = "INT64" -> 19 [] t = "BOOL" -> 1 [] t = "NUMERIC" -> 38 [] t = "BIGNUMERIC" -> 77
    [] t = "DATE" -> 10 [] t = "TIME" -> 15 [] t \in {"DATETIME", "TIMESTAMP"} -> 26
    [] OTHER -> 0
SqlOf(t) ==
  CASE t = "INT64" -> "SQL_BIGINT" [] t = "BOOL" -> "SQL_BIT"
    [] t \in {"NUMERIC", "BIGNUMERIC"} -> "SQL_NUMERIC"
    [] t = "DATE" -> "SQL_TYPE_DATE" [] t = "TIME" -> "SQL_TYPE_TIME"
    [] t \in {"DATETIME", "TIMESTAMP"} -> "SQL_TYPE_TIMESTAMP"
    [] t = "FLOAT64" -> "SQL_DOUBLE" [] t = "BYTES" -> "SQL_VARBINARY"
    [] OTHER -> "SQL_VARCHAR"

LEMMA Spellings == \A t \in RestTypes : ConvertDSType(t) \in PlainTypes
  BY DEF RestTypes, ConvertDSType, Synonyms, PlainTypes, FixedTypes

LEMMA InfoTypes ==
  /\ \A t \in PlainTypes : /\ TypeInfoOf(t).data_type = SqlOf(t)
                           /\ t \in FixedTypes => TypeInfoOf(t).col_size = SizeOf(t)
  /\ TypeInfoOf("ARRAY").data_type = "SQL_VARCHAR"
<1>1. \A t \in PlainTypes : /\ TypeInfoOf(t).data_type = SqlOf(t)
                            /\ t \in FixedTypes => TypeInfoOf(t).col_size = SizeOf(t)
  BY DEF TypeInfoOf, ExactTypes, DateTypes, FloatTypes, ClockTypes, StringTypes, DocumentTypes,
         BytesTypes, TypeInfo, SqlOf, PlainTypes, SizeOf, FixedTypes
<1>2. TypeInfoOf("ARRAY").data_type = "SQL_VARCHAR"
  BY DEF TypeInfoOf, ExactTypes, DateTypes, FloatTypes, ClockTypes, StringTypes, DocumentTypes,
         BytesTypes, TypeInfo
<1> QED BY <1>1, <1>2

LEMMA SqlTypes ==
  /\ \A t : ConvertDSType(t) \in PlainTypes => GetSQLDataType(t, FALSE) = SqlOf(ConvertDSType(t))
  /\ \A t : GetSQLDataType(t, TRUE) = "SQL_VARCHAR"
<1>1. \A t : ConvertDSType(t) \in PlainTypes => GetSQLDataType(t, FALSE) = SqlOf(ConvertDSType(t))
  BY DEF GetSQLDataType, SqlOf, PlainTypes, FixedTypes
<1>2. \A t : GetSQLDataType(t, TRUE) = "SQL_VARCHAR"
  BY DEF GetSQLDataType
<1> QED BY <1>1, <1>2

LEMMA ColumnSizes ==
  \A t, size : ConvertDSType(t) \in FixedTypes =>
    GetFixedColumnMetadata(t, size).precision = SizeOf(ConvertDSType(t))
  BY DEF GetFixedColumnMetadata, TextTypes, NumberMetadata, TimeMetadata, Metadata, FixedTypes, SizeOf

LEMMA ListedTypes ==
  \A t \in FixedTypes :
    \E i \in DOMAIN kSqlToBqDataTypes[SqlOf(t)] : kSqlToBqDataTypes[SqlOf(t)][i] = t
<1> DEFINE K == kSqlToBqDataTypes
<1>1. /\ K["SQL_BIT"] = <<"BOOL">> /\ K["SQL_BIGINT"] = <<"INT64">>
      /\ K["SQL_NUMERIC"] = <<"BIGNUMERIC", "NUMERIC">> /\ K["SQL_TYPE_DATE"] = <<"DATE">>
      /\ K["SQL_TYPE_TIME"] = <<"TIME">> /\ K["SQL_TYPE_TIMESTAMP"] = <<"DATETIME", "TIMESTAMP">>
  BY DEF kSqlToBqDataTypes
<1>2. /\ SqlOf("INT64") = "SQL_BIGINT" /\ SqlOf("BOOL") = "SQL_BIT" /\ SqlOf("NUMERIC") = "SQL_NUMERIC"
      /\ SqlOf("BIGNUMERIC") = "SQL_NUMERIC" /\ SqlOf("DATE") = "SQL_TYPE_DATE"
      /\ SqlOf("TIME") = "SQL_TYPE_TIME" /\ SqlOf("DATETIME") = "SQL_TYPE_TIMESTAMP"
      /\ SqlOf("TIMESTAMP") = "SQL_TYPE_TIMESTAMP"
  BY DEF SqlOf
<1> HIDE DEF K
<1>3. /\ \A x : 1 \in DOMAIN <<x>> /\ <<x>>[1] = x
      /\ \A x, y : 1 \in DOMAIN <<x, y>> /\ <<x, y>>[1] = x /\ 2 \in DOMAIN <<x, y>> /\ <<x, y>>[2] = y
  OBVIOUS
<1>4. ASSUME NEW t \in FixedTypes PROVE \E i \in DOMAIN K[SqlOf(t)] : K[SqlOf(t)][i] = t
  BY <1>1, <1>2, <1>3 DEF FixedTypes
<1> QED BY <1>4 DEF K

LEMMA IrdTypes ==
  \A t \in RestTypes : ConvertDSType(t) \in FixedTypes =>
    GetTypeInfoFromBQType(SqlOf(ConvertDSType(t)), t, FALSE) = TypeInfoOf(ConvertDSType(t))
<1>1. \A t \in RestTypes : ConvertDSType(t) \in FixedTypes =>
        \/ t \in {"INTEGER", "BOOLEAN"}
        \/ /\ ConvertDSType(t) = t /\ t \in FixedTypes
           /\ t \notin {"INTEGER", "BOOLEAN", "FLOAT", "STRUCT", "RECORD"}
  BY DEF FixedTypes, RestTypes, ConvertDSType, Synonyms
<1> QED BY <1>1, ListedTypes DEF GetTypeInfoFromBQType

\* The types whose SQL type is none of three are of a fixed size.
LEMMA FixedSql ==
  /\ \A t \in PlainTypes :
       SqlOf(t) \notin {"SQL_VARCHAR", "SQL_VARBINARY", "SQL_DOUBLE"} <=> t \in FixedTypes
  /\ \A t : \/ SqlOf(t) \in Datetimes /\ GetSQLDateTimeSub(SqlOf(t)) \in {1, 2, 3}
            \/ /\ SqlOf(t) \notin Datetimes /\ GetSQLDateTimeSub(SqlOf(t)) = None
               /\ SqlOf(t) # "SQL_DATETIME"
<1>1. \A t \in PlainTypes :
        SqlOf(t) \notin {"SQL_VARCHAR", "SQL_VARBINARY", "SQL_DOUBLE"} <=> t \in FixedTypes
  BY DEF SqlOf, PlainTypes, FixedTypes
<1>2. \A t : SqlOf(t) \in {"SQL_BIGINT", "SQL_BIT", "SQL_NUMERIC", "SQL_TYPE_DATE", "SQL_TYPE_TIME",
                           "SQL_TYPE_TIMESTAMP", "SQL_DOUBLE", "SQL_VARBINARY", "SQL_VARCHAR"}
  BY DEF SqlOf
<1>3. \A s \in {"SQL_BIGINT", "SQL_BIT", "SQL_NUMERIC", "SQL_TYPE_DATE", "SQL_TYPE_TIME",
                "SQL_TYPE_TIMESTAMP", "SQL_DOUBLE", "SQL_VARBINARY", "SQL_VARCHAR"} :
        \/ s \in Datetimes /\ GetSQLDateTimeSub(s) \in {1, 2, 3}
        \/ s \notin Datetimes /\ GetSQLDateTimeSub(s) = None /\ s # "SQL_DATETIME"
  BY DEF Datetimes, GetSQLDateTimeSub
<1> QED BY <1>1, <1>2, <1>3

AlikeRow(row, f) ==
  LET ird == IrdRecord(f)
      info == TypeInfoOf(IF IsRepeated(f) THEN "ARRAY" ELSE ConvertDSType(f.type))
      fixed == row.data_type \notin {"SQL_VARCHAR", "SQL_VARBINARY", "SQL_DOUBLE"}
               /\ f.precision = 0 /\ f.max_length = 0
  IN  /\ row.data_type = ird.concise_type /\ row.data_type = info.data_type
      /\ fixed => row.column_size = ird.length /\ row.column_size = info.col_size
      /\ row.sql_data_type = "SQL_DATETIME" <=> row.sql_datetime_sub # None

LEMMA RowFields ==
  ASSUME NEW x, NEW f, NEW pos, NEW row, row = CreateResultSetDSRow(x, f, pos)
  PROVE  /\ row.table = x /\ row.column = f.name /\ row.ordinal = pos
         /\ row.data_type = GetSQLDataType(f.type, IsRepeated(f))
         /\ row.column_size = GetColSize(f, DefaultStringColumnLength)
         /\ row.sql_data_type = VerboseType(row.data_type)
         /\ row.sql_datetime_sub = GetSQLDateTimeSub(row.data_type)
  BY DEF CreateResultSetDSRow

LEMMA DescribedField ==
  ASSUME NEW x, NEW f, f.type \in RestTypes, NEW pos, NEW row, row = CreateResultSetDSRow(x, f, pos)
  PROVE  AlikeRow(row, f)
<1> DEFINE t == ConvertDSType(f.type)
           sql == row.data_type
           size == DefaultStringColumnLength
           rec == GetTypeInfoFromBQType(sql, f.type, IsRepeated(f))
           ird == IrdRecord(f)
<1>1. /\ sql = GetSQLDataType(f.type, IsRepeated(f))
      /\ row.column_size = GetColSize(f, size)
      /\ row.sql_data_type = VerboseType(sql) /\ row.sql_datetime_sub = GetSQLDateTimeSub(sql)
  BY RowFields
<1>2. t \in PlainTypes
  BY Spellings
<1>3. /\ ird.concise_type = sql
      /\ sql \notin {"SQL_VARCHAR", "SQL_VARBINARY", "SQL_DOUBLE"} => ird.length = rec.col_size
  <2> DEFINE b == GetSQLDataType(f.type, IsRepeated(f))
  <2>1. b = sql
    BY <1>1
  <2> HIDE DEF sql
  <2>2. rec = GetTypeInfoFromBQType(b, f.type, IsRepeated(f))
    BY <2>1
  <2> QED BY <2>1, <2>2 DEF IrdRecord
<1> HIDE DEF sql, rec, ird
<1>4. CASE IsRepeated(f)
  <2>1. sql = "SQL_VARCHAR"
    BY <1>1, <1>4, SqlTypes
  <2>2. /\ VerboseType("SQL_VARCHAR") = "SQL_VARCHAR"
        /\ GetSQLDateTimeSub("SQL_VARCHAR") = None
    BY DEF VerboseType, Datetimes, GetSQLDateTimeSub
  <2> QED BY <1>1, <1>3, <1>4, <2>1, <2>2, InfoTypes DEF AlikeRow, sql, ird
<1>5. CASE ~IsRepeated(f)
  <2>1. IsRepeated(f) = FALSE
    BY <1>5 DEF IsRepeated
  <2>2. sql = SqlOf(t)
    BY <1>1, <1>2, <2>1, SqlTypes
  <2>3. TypeInfoOf(t).data_type = sql
    BY <1>2, <2>2, InfoTypes
  <2>4. row.sql_data_type = "SQL_DATETIME" <=> row.sql_datetime_sub # None
    <3>1. \/ sql \in Datetimes /\ GetSQLDateTimeSub(sql) \in {1, 2, 3}
          \/ sql \notin Datetimes /\ GetSQLDateTimeSub(sql) = None /\ sql # "SQL_DATETIME"
      BY <2>2, FixedSql
    <3> QED BY <1>1, <3>1 DEF VerboseType, None
  <2>5. ASSUME sql \notin {"SQL_VARCHAR", "SQL_VARBINARY", "SQL_DOUBLE"},
               f.precision = 0, f.max_length = 0
        PROVE  row.column_size = ird.length /\ row.column_size = TypeInfoOf(t).col_size
    <3>1. t \in FixedTypes
      BY <1>2, <2>2, <2>5, FixedSql
    <3>2. row.column_size = GetFixedColumnMetadata(f.type, size).precision
      BY <1>1, <2>1, <2>5 DEF GetColSize, FixedFor
    <3>3. row.column_size = SizeOf(t)
      BY <3>1, <3>2, ColumnSizes
    <3>4. TypeInfoOf(t).col_size = SizeOf(t)
      BY <1>2, <3>1, InfoTypes
    <3>5. rec = TypeInfoOf(t)
      BY <2>1, <2>2, <3>1, IrdTypes DEF rec
    <3> QED BY <1>3, <2>5, <3>3, <3>4, <3>5
  <2> HIDE DEF t
  <2>6. TypeInfoOf(IF IsRepeated(f) THEN "ARRAY" ELSE ConvertDSType(f.type)) = TypeInfoOf(t)
    BY <2>1 DEF t
  <2> QED BY <1>3, <2>3, <2>4, <2>5, <2>6 DEF AlikeRow, sql, ird
<1> QED BY <1>4, <1>5

-----------------------------------------------------------------------------
(* The rows of SQLColumns.                                                 *)

\* The row r shows a column of the table x that matches the argument of the call.
ShowsAMatch(c, r, x) ==
  \E k \in DOMAIN TableInfo[x].columns :
    /\ AllColumns(c) \/ FullMatch(TableInfo[x].columns[k].name, c.column, c.metadata_id)
    /\ r.column = TableInfo[x].columns[k].name

RowsOf(c, rows, x) ==
  /\ IsSeq(rows)
  /\ \A i \in 1..Len(rows) :
       /\ rows[i].table = x /\ ShowsAMatch(c, rows[i], x)
       /\ \E k \in DOMAIN TableInfo[x].columns : \E pos :
            rows[i] = CreateResultSetDSRow(x, TableInfo[x].columns[k], pos)
  /\ \A i, j \in 1..Len(rows) : i < j => rows[i].ordinal < rows[j].ordinal

LEMMA TableRows ==
  ASSUME NEW x \in DOMAIN TableInfo, NEW c
  PROVE  RowsOf(c, ProcessTableResults(c, x), x)
<1> DEFINE fields == TableInfo[x].columns
           rows == ProcessTableResults(c, x)
           Row(f, pos) == CreateResultSetDSRow(x, f, pos)
           chosen == Selected(fields, MatchingFields(c, fields))
           all == [i \in DOMAIN fields |-> Row(fields[i], i)]
           first == <<Row(chosen[1], 1)>>
<1>1. IsSeq(fields)
  <2>1. fields \in Seq([name : STRING, type : RestTypes, mode : STRING,
                        precision : Nat, scale : Nat, max_length : Nat])
    BY FieldsAssumption
  <2> HIDE DEF fields
  <2> QED BY <2>1, SeqOfAny
<1>2. /\ AllColumns(c) => rows = all
      /\ ~AllColumns(c) /\ chosen # <<>> => rows = first
      /\ ~AllColumns(c) /\ chosen = <<>> => rows = <<>>
  BY DEF ProcessTableResults
<1>3. IsSeq(chosen) /\ Range(chosen) \subseteq Range(fields)
  BY <1>1, SelectedSeq
<1>4. /\ DOMAIN fields = 1..Len(fields) /\ Range(fields) = {fields[i] : i \in 1..Len(fields)}
      /\ Len(chosen) \in Nat /\ Range(chosen) = {chosen[i] : i \in 1..Len(chosen)}
      /\ Len(fields) \in Nat
  <2> HIDE DEF fields, chosen
  <2> QED BY <1>1, <1>3, SeqShape
<1>5. \A f, pos : Row(f, pos).table = x /\ Row(f, pos).ordinal = pos /\ Row(f, pos).column = f.name
  BY RowFields
<1> HIDE DEF rows
<1>6. CASE AllColumns(c)
  <2>1. IsSeq(all) /\ Len(all) = Len(fields) /\ \A i \in 1..Len(fields) : all[i] = Row(fields[i], i)
    <3>1. all = [i \in DOMAIN fields |-> all[i]] /\ \A i \in 1..Len(fields) : all[i] = Row(fields[i], i)
      BY <1>4
    <3> HIDE DEF all, Row
    <3> QED BY <1>1, <3>1, MapSeq
  <2> HIDE DEF all, Row
  <2>2. \A i \in 1..Len(fields) : all[i].table = x /\ all[i].ordinal = i
    BY <1>5, <2>1
  <2>3. \A i \in 1..Len(fields) : \E k \in DOMAIN fields : \E pos : all[i] = Row(fields[k], pos)
    BY <1>4, <2>1
  <2>4. ASSUME NEW i \in 1..Len(fields) PROVE ShowsAMatch(c, all[i], x)
    BY <1>4, <1>5, <1>6, <2>1 DEF ShowsAMatch
  <2>5. RowsOf(c, all, x)
    BY <2>1, <2>2, <2>3, <2>4 DEF RowsOf, Row
  <2> QED BY <1>2, <1>6, <2>5 DEF rows
<1>7. CASE ~AllColumns(c) /\ chosen # <<>>
  <2>1. 1 \in 1..Len(chosen)
    <3>1. chosen = [i \in 1..Len(chosen) |-> chosen[i]]
      BY <1>3, SeqShape
    <3>2. Len(chosen) # 0
      BY <1>3, <1>7 DEF IsSeq
    <3> QED BY <1>4, <3>2
  <2>2. PICK k \in DOMAIN fields : chosen[1] = fields[k]
    <3> HIDE DEF fields, chosen
    <3> QED BY <1>3, <1>4, <2>1
  <2>3. IsSeq(first) /\ Len(first) = 1 /\ \A i \in 1..1 : first[i] = Row(fields[k], 1)
    BY <2>2, Singleton
  <2>4. \A i, j \in 1..1 : ~(i < j)
    OBVIOUS
  <2> HIDE DEF first, Row
  <2>5. \A i \in 1..1 : first[i].table = x
    BY <1>5, <2>3
  <2>6. FullMatch(fields[k].name, c.column, c.metadata_id)
    <3>1. chosen[1] \in MatchingFields(c, fields)
      BY <1>1, <1>3, <1>4, <2>1, SelectedSeq
    <3> QED BY <2>2, <3>1 DEF MatchingFields
  <2>7. \A i \in 1..1 : ShowsAMatch(c, first[i], x)
    BY <1>5, <2>2, <2>3, <2>6 DEF ShowsAMatch
  <2>8. RowsOf(c, first, x)
    BY <2>2, <2>3, <2>4, <2>5, <2>7 DEF RowsOf, Row
  <2> QED BY <1>2, <1>7, <2>8 DEF rows
<1>8. CASE ~AllColumns(c) /\ chosen = <<>>
  <2>1. IsSeq(<<>>) /\ Len(<<>>) = 0
    BY DEF IsSeq
  <2>2. RowsOf(c, <<>>, x)
    BY <2>1 DEF RowsOf
  <2> QED BY <1>2, <1>8, <2>2 DEF rows
<1> QED BY <1>6, <1>7, <1>8

\* The row r comes before the row s.
ColumnBefore(r, s) ==
  \/ Precedes(DatasetSeq, r.table[2], s.table[2])
  \/ r.table[2] = s.table[2] /\ Precedes(TableSeq, r.table[3], s.table[3])
  \/ r.table = s.table /\ r.ordinal < s.ordinal

ColumnRows(c, rows) ==
  /\ IsSeq(rows)
  /\ \A x \in Lasting :
       Selected(rows, {r \in Range(rows) : r.table = x}) = ProcessTableResults(c, x)
  /\ \A i \in 1..Len(rows) :
       /\ rows[i].table \in seen.ever /\ ColumnsSought(Asked, rows[i].table)
       /\ rows[i].table[2] \in Range(DatasetSeq) /\ rows[i].table[3] \in Range(TableSeq)
       /\ ShowsAMatch(c, rows[i], rows[i].table)
       /\ \E k \in DOMAIN TableInfo[rows[i].table].columns : \E pos :
            rows[i] = CreateResultSetDSRow(rows[i].table, TableInfo[rows[i].table].columns[k], pos)
  /\ \A i, j \in 1..Len(rows) : i < j => ColumnBefore(rows[i], rows[j])

\* The rows of each table read, in the order of the answers.
BlocksOf(c, blocks) ==
  /\ IsSeq(blocks) /\ Len(blocks) = Len(InOrder)
  /\ \A m \in 1..Len(InOrder) : blocks[m] = ProcessTableResults(c, InOrder[m])

LEMMA BlocksRead ==
  ASSUME NEW c, NEW blocks, IsSeq(InOrder),
         blocks = [i \in DOMAIN InOrder |-> ProcessTableResults(c, InOrder[i])]
  PROVE  BlocksOf(c, blocks)
<1> PICK io : io = InOrder
  OBVIOUS
<1>1. DOMAIN io = 1..Len(io)
  BY SeqShape
<1>2. blocks = [i \in DOMAIN io |-> blocks[i]]
  OBVIOUS
<1>3. IsSeq(blocks) /\ Len(blocks) = Len(io)
  BY <1>2, MappedSeq
<1>4. \A m \in 1..Len(io) : blocks[m] = ProcessTableResults(c, io[m])
  BY <1>1
<1> QED BY <1>3, <1>4 DEF BlocksOf

LEMMA ColumnsRead ==
  ASSUME CallInv, Listing, RoundOver, pool.error = "none", Args.fn = "columns",
         call.stage = "table", NEW c, NEW blocks, BlocksOf(c, blocks)
  PROVE  /\ ColumnRows(c, FlattenSeq(blocks))
         /\ FlattenSeq(blocks) = <<>> =>
              \A x \in Lasting : ProcessTableResults(c, x) = <<>>
<1> DEFINE io == InOrder
           rows == FlattenSeq(blocks)
<1>0. /\ Shape /\ Sees /\ ArgsInv /\ InputsInv /\ ColumnOrderInv /\ AnswersInv
  BY DEF CallInv
<1>1. \A k \in 1..Len(pool.inputs) :
        pool.inputs[k].kind = "table" /\ Fitting(pool.inputs[k])
  BY <1>0 DEF Shape, CallShape, Listing, KindsOf, Kinds, InputsInv
<1>2. PICK at : OrderedBy(at)
  BY <1>0, InOrderGiven
<1>3. /\ IsSeq(io) /\ DOMAIN io = 1..Len(io) /\ Len(io) \in Nat
      /\ \A i \in 1..Len(io) : at[i] \in 1..Len(pool.inputs) /\ Sound(pool.inputs[at[i]], io[i])
      /\ \A i, j \in 1..Len(io) : i < j => at[i] < at[j]
      /\ \A x \in Lasting : \A k \in 1..Len(pool.inputs) : Aims(pool.inputs[k], x) =>
           \E i \in 1..Len(io) : at[i] = k /\ Shows(pool.inputs[k], io[i], x)
  BY <1>2 DEF OrderedBy
<1>4. /\ IsSeq(blocks) /\ Len(blocks) = Len(io)
      /\ \A m \in 1..Len(io) : blocks[m] = ProcessTableResults(c, io[m])
  BY DEF BlocksOf
<1> HIDE DEF io
<1>5. ASSUME NEW m \in 1..Len(io)
      PROVE  /\ at[m] \in 1..Len(pool.inputs)
             /\ io[m][2] = pool.inputs[at[m]].dataset /\ io[m][3] = pool.inputs[at[m]].name
             /\ pool.inputs[at[m]] = Task("table", io[m][1], io[m][2], io[m][3])
             /\ io[m] \in seen.ever /\ ColumnsSought(Asked, io[m])
  <2> DEFINE t == pool.inputs[at[m]]
             w == io[m]
  <2>1. at[m] \in 1..Len(pool.inputs) /\ t.kind = "table" /\ Fitting(t) /\ Sound(t, w)
    BY <1>1, <1>3
  <2> HIDE DEF t, w
  <2>2. w = <<t.project, t.dataset, t.name>> /\ w \in seen.ever
    BY <2>1 DEF Sound
  <2>3. t = Task("table", t.project, t.dataset, t.name)
        /\ ColumnsSought(Asked, <<t.project, t.dataset, t.name>>)
    BY <2>1 DEF Fitting
  <2>4. w[1] = t.project /\ w[2] = t.dataset /\ w[3] = t.name
    BY <2>2
  <2>5. t = Task("table", w[1], w[2], w[3])
    BY <2>3, <2>4
  <2>6. ColumnsSought(Asked, w)
    BY <2>2, <2>3
  <2> QED BY <2>1, <2>2, <2>4, <2>5, <2>6 DEF t, w
<1>6. \A m \in 1..Len(io) :
        /\ io[m] \in DOMAIN TableInfo
        /\ io[m][2] \in Range(DatasetSeq) /\ io[m][3] \in Range(TableSeq)
  <2>1. \A x \in DOMAIN TableInfo : x[2] \in Range(DatasetSeq) /\ x[3] \in Range(TableSeq)
    BY ListsAssumption
  <2> QED BY <1>0, <1>5, <2>1 DEF Sees
<1>7. /\ IsSeq(blocks) /\ Len(blocks) = Len(io)
      /\ \A m \in 1..Len(io) : blocks[m] = ProcessTableResults(c, io[m])
  BY <1>4
<1>8. \A m \in 1..Len(io) : RowsOf(c, blocks[m], io[m])
  BY <1>6, <1>7, TableRows
<1>9. \A m, n \in 1..Len(io) : io[m] = io[n] => m = n
  <2> SUFFICES ASSUME NEW m \in 1..Len(io), NEW n \in 1..Len(io), io[m] = io[n] PROVE m = n
    OBVIOUS
  <2>1. pool.inputs[at[m]] = pool.inputs[at[n]]
    BY <1>5
  <2>2. at[m] = at[n]
    BY <1>0, <1>5, <2>1 DEF InputsInv, Distinct
  <2>3. at[m] \in Int /\ m \in Int /\ n \in Int
    BY <1>5
  <2>4. ~(m < n) /\ ~(n < m)
    BY <1>3, <2>2, <2>3
  <2> QED BY <2>3, <2>4
<1>10. PICK V : blocks \in Seq(Seq(V))
  BY <1>7, <1>8, SeqOfSeqs DEF RowsOf
<1>11. rows \in Seq(V) /\ \E b, p : Walks(b, p, blocks, Len(blocks), rows)
  BY <1>10, FlattenPlaces
<1>12. ASSUME NEW x \in Lasting PROVE \E n \in 1..Len(io) : io[n] = x
  <2>1. PICK k \in 1..Len(pool.inputs) : Aims(pool.inputs[k], x)
    BY <1>0 DEF InputsInv, Covered
  <2>2. PICK n \in 1..Len(io) : at[n] = k /\ Shows(pool.inputs[k], io[n], x)
    BY <1>3, <2>1
  <2>3. io[n] = x
    BY <1>1, <2>2 DEF Shows
  <2> QED BY <2>3
<1>13. \A S : \A n \in 1..Len(blocks) :
         (\A x \in 1..Len(blocks) : \A y \in 1..Len(blocks[x]) : blocks[x][y] \in S <=> x = n)
         => Selected(rows, S) = blocks[n]
  BY <1>10, BlockSelected
<1> HIDE DEF rows
<1>14. PICK b, p : Walks(b, p, blocks, Len(blocks), rows)
  BY <1>11
<1>15. /\ \A i \in 1..Len(rows) :
            b[i] \in 1..Len(blocks) /\ p[i] \in 1..Len(blocks[b[i]]) /\ rows[i] = blocks[b[i]][p[i]]
       /\ \A i, j \in 1..Len(rows) : i < j => b[i] < b[j] \/ (b[i] = b[j] /\ p[i] < p[j])
       /\ \A x \in 1..Len(blocks) : \A y \in 1..Len(blocks[x]) :
            \E i \in 1..Len(rows) : b[i] = x /\ p[i] = y
  BY <1>14 DEF Walks
<1>16. IsSeq(rows) /\ Range(rows) = {rows[i] : i \in 1..Len(rows)}
  BY <1>11, SeqOfAny, SeqShape
<1>17. ASSUME NEW x \in Lasting
       PROVE  Selected(rows, {r \in Range(rows) : r.table = x}) = ProcessTableResults(c, x)
  <2>1. PICK n \in 1..Len(io) : io[n] = x
    BY <1>12
  <2> DEFINE S == {r \in Range(rows) : r.table = x}
  <2>2. ASSUME NEW m \in 1..Len(blocks), NEW y \in 1..Len(blocks[m])
        PROVE  blocks[m][y] \in S <=> m = n
    <3>1. blocks[m][y].table = io[m]
      BY <1>7, <1>8 DEF RowsOf
    <3>2. blocks[m][y] \in Range(rows)
      <4>1. PICK i \in 1..Len(rows) : b[i] = m /\ p[i] = y
        BY <1>15
      <4>2. rows[i] = blocks[m][y]
        BY <1>15, <4>1
      <4> QED BY <1>16, <4>2
    <3>3. io[m] = x <=> m = n
      BY <1>7, <1>9, <2>1
    <3> QED BY <3>1, <3>2, <3>3
  <2> HIDE DEF S
  <2>3. Selected(rows, S) = blocks[n]
    BY <1>7, <1>13, <2>2
  <2> QED BY <1>7, <2>1, <2>3 DEF S
<1>18. ASSUME NEW i \in 1..Len(rows)
       PROVE  /\ b[i] \in 1..Len(io) /\ rows[i].table = io[b[i]]
              /\ ShowsAMatch(c, rows[i], rows[i].table)
              /\ \E k \in DOMAIN TableInfo[rows[i].table].columns : \E pos :
                   rows[i] = CreateResultSetDSRow(rows[i].table, TableInfo[rows[i].table].columns[k], pos)
  <2> DEFINE m == b[i]
  <2>1. m \in 1..Len(io) /\ p[i] \in 1..Len(blocks[m]) /\ rows[i] = blocks[m][p[i]]
    BY <1>7, <1>15
  <2> DEFINE v == blocks[m]
             x == io[m]
             q == p[i]
             r == rows[i]
  <2>2. RowsOf(c, v, x) /\ q \in 1..Len(v) /\ r = v[q]
    BY <1>8, <2>1
  <2>3. r.table = x /\ ShowsAMatch(c, r, x)
    <3> HIDE DEF v, x, q, r
    <3> QED BY <2>2 DEF RowsOf
  <2>4. \E k \in DOMAIN TableInfo[x].columns : \E pos :
          r = CreateResultSetDSRow(x, TableInfo[x].columns[k], pos)
    <3> HIDE DEF v, x, q, r
    <3> QED BY <2>2 DEF RowsOf
  <2> QED BY <2>1, <2>3, <2>4
<1>19. ASSUME NEW i \in 1..Len(rows), NEW j \in 1..Len(rows), i < j
       PROVE  ColumnBefore(rows[i], rows[j])
  <2>1. CASE b[i] < b[j]
    <3> DEFINE k == at[b[i]]
               l == at[b[j]]
    <3>1. k \in 1..Len(pool.inputs) /\ l \in 1..Len(pool.inputs) /\ k < l
      BY <1>3, <1>18, <2>1
    <3>2. \/ Precedes(DatasetSeq, pool.inputs[k].dataset, pool.inputs[l].dataset)
          \/ /\ pool.inputs[k].dataset = pool.inputs[l].dataset
             /\ Precedes(TableSeq, pool.inputs[k].name, pool.inputs[l].name)
      <4> HIDE DEF k, l
      <4> QED BY <1>0, <3>1 DEF ColumnOrderInv
    <3>3. /\ rows[i].table = io[b[i]] /\ rows[j].table = io[b[j]]
          /\ io[b[i]][2] = pool.inputs[k].dataset /\ io[b[j]][2] = pool.inputs[l].dataset
          /\ io[b[i]][3] = pool.inputs[k].name /\ io[b[j]][3] = pool.inputs[l].name
      BY <1>5, <1>18
    <3> QED BY <3>2, <3>3 DEF ColumnBefore
  <2>2. CASE b[i] = b[j] /\ p[i] < p[j]
    <3> DEFINE m == b[i]
               v == blocks[m]
    <3>1. m \in 1..Len(io) /\ p[i] \in 1..Len(v) /\ p[j] \in 1..Len(v)
          /\ rows[i] = v[p[i]] /\ rows[j] = v[p[j]]
      BY <1>7, <1>15, <2>2
    <3>2. \A x, y \in 1..Len(v) : x < y => v[x].ordinal < v[y].ordinal
      BY <1>8, <3>1 DEF RowsOf
    <3>3. rows[i].ordinal < rows[j].ordinal
      <4> HIDE DEF v
      <4> QED BY <2>2, <3>1, <3>2
    <3>4. rows[i].table = rows[j].table
      BY <1>18, <2>2
    <3> QED BY <3>3, <3>4 DEF ColumnBefore
  <2> QED BY <1>15, <1>19, <2>1, <2>2
<1>20. ColumnRows(c, rows)
  <2>1. \A i \in 1..Len(rows) :
          /\ rows[i].table \in seen.ever /\ ColumnsSought(Asked, rows[i].table)
          /\ rows[i].table[2] \in Range(DatasetSeq) /\ rows[i].table[3] \in Range(TableSeq)
    BY <1>5, <1>6, <1>18
  <2> QED BY <1>16, <1>17, <1>18, <1>19, <2>1 DEF ColumnRows
<1>21. ASSUME rows = <<>>, NEW x \in Lasting PROVE ProcessTableResults(c, x) = <<>>
  <2>1. PICK n \in 1..Len(io) : io[n] = x
    BY <1>12
  <2>2. Len(rows) = 0
    BY <1>21
  <2>3. \A y \in 1..Len(blocks[n]) : FALSE
    BY <1>7, <1>15, <2>2
  <2> DEFINE v == blocks[n]
  <2>4. IsSeq(v) /\ \A y \in 1..Len(v) : FALSE
    BY <1>8, <2>3 DEF RowsOf
  <2> HIDE DEF v
  <2>5. v = [y \in 1..Len(v) |-> v[y]] /\ Len(v) \in Nat
    BY <2>4, SeqShape
  <2>6. Len(v) = 0
    <3> DEFINE L == Len(v)
    <3>1. L \in Nat /\ 1 \notin 1..L
      BY <2>4, <2>5
    <3> HIDE DEF L
    <3>2. L = 0
      BY <3>1
    <3> QED BY <3>2 DEF L
  <2>7. v = <<>>
    BY <2>4, <2>6 DEF IsSeq
  <2> QED BY <1>7, <2>1, <2>7 DEF v
<1> QED BY <1>20, <1>21 DEF rows

-----------------------------------------------------------------------------
(* The rows of SQLTables.                                                  *)

TableNamed(r) == <<r[1], r[2], r[3]>>

ListedOnce(rows) ==
  /\ IsSeq(rows)
  /\ \A x \in Lasting :
       \E j \in 1..Len(rows) : \A i \in 1..Len(rows) : TableNamed(rows[i]) = x <=> i = j
  /\ \A i \in 1..Len(rows) :
       TableNamed(rows[i]) \in seen.ever /\ TablesSought(Asked, TableNamed(rows[i]))

LEMMA TablesToldOnce ==
  ASSUME CallInv, Listing, RoundOver, pool.error = "none", Args.fn = "tables",
         call.stage = "tables"
  PROVE  ListedOnce(Elements)
<1> PICK rows : rows = Elements
  OBVIOUS
<1> DEFINE done == pool.done
           ins == pool.inputs
<1>0. /\ Shape /\ InputsInv /\ AnswersInv
  BY DEF CallInv
<1>1. IsSeq(rows) /\ Len(rows) = Len(done) /\ \A i \in 1..Len(done) : rows[i] = done[i].what
  BY <1>0, ElementsSeq
<1>2. \A k \in 1..Len(ins) : /\ ins[k].kind = "tables"
                             /\ ins[k] = Task("tables", ins[k].project, ins[k].dataset, "")
  BY <1>0 DEF Shape, CallShape, Listing, KindsOf, Kinds, InputsInv, Fitting
<1>3. /\ \A j \in 1..Len(done) : done[j].at \in 1..Len(ins) /\ Sound(ins[done[j].at], done[j].what)
      /\ \A x \in Lasting : \A k \in 1..Len(ins) : Aims(ins[k], x) =>
           \E j \in 1..Len(done) : done[j].at = k /\ Shows(ins[k], done[j].what, x)
      /\ \A i, j \in 1..Len(done) :
           i < j /\ done[i].at = done[j].at => InTurn(ins[done[i].at], done[i].what, done[j].what)
  BY <1>0, ValuesGiven
<1>4. Len(done) \in Nat
  BY <1>1, SeqShape
<1>5. ASSUME NEW j \in 1..Len(done)
      PROVE  /\ done[j].at \in 1..Len(ins)
             /\ rows[j][1] = ins[done[j].at].project /\ rows[j][2] = ins[done[j].at].dataset
             /\ TableNamed(rows[j]) \in seen.ever /\ TablesSought(Asked, TableNamed(rows[j]))
  <2> DEFINE k == done[j].at
             t == ins[k]
             w == rows[j]
  <2>1. k \in 1..Len(ins) /\ t.kind = "tables" /\ Sound(t, w)
    BY <1>1, <1>2, <1>3
  <2> HIDE DEF t, w
  <2>2. /\ w[1] = t.project /\ w[2] = t.dataset
        /\ <<w[1], w[2], w[3]>> \in seen.ever /\ TablesSought(Asked, <<w[1], w[2], w[3]>>)
    BY <2>1 DEF Sound
  <2> QED BY <2>1, <2>2 DEF TableNamed, t, w
<1>6. ASSUME NEW i \in 1..Len(done), NEW j \in 1..Len(done), TableNamed(rows[i]) = TableNamed(rows[j])
      PROVE  ~(i < j)
  <2> SUFFICES ASSUME i < j PROVE FALSE
    OBVIOUS
  <2> DEFINE k == done[i].at
             l == done[j].at
  <2>1. rows[i][1] = rows[j][1] /\ rows[i][2] = rows[j][2] /\ rows[i][3] = rows[j][3]
    BY <1>6 DEF TableNamed
  <2>2. k \in 1..Len(ins) /\ l \in 1..Len(ins)
        /\ ins[k].project = ins[l].project /\ ins[k].dataset = ins[l].dataset
    BY <1>5, <2>1
  <2>3. k = l
    <3> HIDE DEF k, l
    <3>1. ins[k] = ins[l]
      <4> DEFINE p == ins[k].project
                 d == ins[k].dataset
      <4>1. ins[k] = Task("tables", p, d, "") /\ ins[l] = Task("tables", p, d, "")
        BY <1>2, <2>2
      <4> QED BY <4>1
    <3> QED BY <1>0, <2>2, <3>1 DEF InputsInv, Distinct
  <2>4. InTurn(ins[k], rows[i], rows[j])
    BY <1>1, <1>3, <2>3
  <2>5. Precedes(TableSeq, rows[i][3], rows[j][3])
    <3> DEFINE t == ins[k]
    <3>1. t.kind = "tables" /\ InTurn(t, rows[i], rows[j])
      BY <1>2, <2>2, <2>4
    <3> HIDE DEF t
    <3> QED BY <3>1 DEF InTurn
  <2> QED BY <2>1, <2>5, NoneTwice
<1>7. ASSUME NEW x \in Lasting
      PROVE  \E j \in 1..Len(done) : \A i \in 1..Len(done) : TableNamed(rows[i]) = x <=> i = j
  <2>1. PICK k \in 1..Len(ins) : Aims(ins[k], x)
    BY <1>0 DEF InputsInv, Covered
  <2>2. PICK j \in 1..Len(done) : Shows(ins[k], rows[j], x)
    BY <1>1, <1>3, <2>1
  <2>3. TableNamed(rows[j]) = x
    BY <1>2, <2>2 DEF Shows, TableNamed
  <2>4. ASSUME NEW i \in 1..Len(done), TableNamed(rows[i]) = x PROVE i = j
    <3>1. ~(i < j) /\ ~(j < i)
      BY <1>6, <2>3, <2>4
    <3>2. i \in Int /\ j \in Int
      OBVIOUS
    <3> QED BY <3>1, <3>2
  <2> QED BY <2>3, <2>4
<1>8. ListedOnce(rows)
  BY <1>1, <1>5, <1>7 DEF ListedOnce
<1> QED BY <1>8

-----------------------------------------------------------------------------
(* The rows that a call shows.                                             *)

LEMMA LimitedRows ==
  ASSUME NEW rows, IsSeq(rows), NEW n \in Nat
  PROVE  /\ IsSeq(Limited(rows, n)) /\ Len(Limited(rows, n)) <= Len(rows)
         /\ \A i \in 1..Len(Limited(rows, n)) : Limited(rows, n)[i] = rows[i]
         /\ n = 0 => Limited(rows, n) = rows
<1>1. Len(rows) \in Nat /\ rows \in Seq(Range(rows))
  BY SeqShape DEF IsSeq
<1>2. CASE n > 0 /\ n < Len(rows)
  <2> DEFINE s == SubSeq(rows, 1, n)
  <2>1. s \in Seq(Range(rows)) /\ Len(s) = n /\ \A i \in 1..n : s[i] = rows[i]
    BY <1>1, <1>2
  <2>2. IsSeq(s)
    BY <2>1, SeqOfAny
  <2>3. Limited(rows, n) = s
    BY <1>2 DEF Limited
  <2> HIDE DEF s
  <2> QED BY <1>1, <1>2, <2>1, <2>2, <2>3
<1>3. CASE ~(n > 0 /\ n < Len(rows))
  BY <1>1, <1>3 DEF Limited
<1> QED BY <1>2, <1>3

-----------------------------------------------------------------------------
(* The parts of the properties.                                            *)

TablesExact ==
  /\ \A x \in seen.always :
       TablesSought(Asked, x) /\ x[1] \notin seen.doubtful =>
         Cardinality({i \in DOMAIN stmt.result : TableNamed(stmt.result[i]) = x}) = 1
  /\ \A i \in DOMAIN stmt.result :
       TableNamed(stmt.result[i]) \in seen.ever /\ TablesSought(Asked, TableNamed(stmt.result[i]))

ColumnsExact ==
  /\ \A x \in seen.always : ColumnsSought(Asked, x) =>
       Selected(stmt.result, {r \in Range(stmt.result) : r.table = x}) = ProcessTableResults(Args, x)
  /\ \A i \in DOMAIN stmt.result :
       /\ stmt.result[i].table \in seen.ever /\ ColumnsSought(Asked, stmt.result[i].table)
       /\ ShowsAMatch(Args, stmt.result[i], stmt.result[i].table)

ListsSought ==
  /\ Returned("tables") => TablesExact
  /\ Returned("columns") => ColumnsExact

\* The function fn has just ended with rows.
ShowsRowsOf(fn) == Idle /\ stmt.state = "executedWithRs" /\ Args.fn = fn

PlaceIn(seq, name) == CHOOSE i \in DOMAIN seq : seq[i] = name
RowKey(r) == <<PlaceIn(DatasetSeq, r.table[2]), PlaceIn(TableSeq, r.table[3]), r.ordinal>>
KeyBefore(a, b) == \E k \in 1..3 : a[k] < b[k] /\ \A l \in 1..(k - 1) : a[l] = b[l]
RowsInOrder ==
  \A i \in DOMAIN stmt.result :
    i > 1 => KeyBefore(RowKey(stmt.result[i - 1]), RowKey(stmt.result[i]))

LEMMA OrderParts == (ShowsRowsOf("columns") => RowsInOrder) <=> ColumnsInOrder
  BY DEF ColumnsInOrder, RowsInOrder, KeyBefore, RowKey, PlaceIn, ShowsRowsOf, Args

FieldOf(row) == CHOOSE c \in Range(TableInfo[row.table].columns) : c.name = row.column
RowsAlike == \A i \in DOMAIN stmt.result : AlikeRow(stmt.result[i], FieldOf(stmt.result[i]))

LEMMA AlikeParts == (ShowsRowsOf("columns") => RowsAlike) <=> DescribedAlike
  BY DEF DescribedAlike, RowsAlike, AlikeRow, FieldOf, ShowsRowsOf, Args

Explained == answer.refused \/ seen.failed
Reported ==
  /\ answer.code = SUCCESS => ~seen.failed
  /\ answer.code = ERROR /\ Asked.fn = "tables" => Explained
  /\ answer.code = ERROR /\ Asked.fn = "columns" /\ ~Explained =>
       \A x \in seen.always : ColumnsSought(Asked, x) => ProcessTableResults(Args, x) = <<>>

EndInv == ListsSought /\ ColumnsInOrder /\ (Idle => Reported) /\ DescribedAlike

-----------------------------------------------------------------------------
(* Rows in order, and alike.                                               *)

LEMMA PlaceOf ==
  ASSUME NEW V, NEW seq \in Seq(V), Distinct(seq), NEW i \in 1..Len(seq)
  PROVE  PlaceIn(seq, seq[i]) = i
<1>1. DOMAIN seq = 1..Len(seq)
  OBVIOUS
<1> DEFINE n == PlaceIn(seq, seq[i])
<1>2. n \in 1..Len(seq) /\ seq[n] = seq[i]
  BY <1>1 DEF PlaceIn
<1> HIDE DEF n
<1>3. n = i
  BY <1>2 DEF Distinct
<1> QED BY <1>3 DEF n

LEMMA PlacesPrecede ==
  ASSUME NEW V, NEW seq \in Seq(V), Distinct(seq), NEW a, NEW b, Precedes(seq, a, b)
  PROVE  PlaceIn(seq, a) < PlaceIn(seq, b)
<1>1. PICK i \in 1..Len(seq), j \in 1..Len(seq) : i < j /\ seq[i] = a /\ seq[j] = b
  BY DEF Precedes
<1>2. PlaceIn(seq, seq[i]) = i /\ PlaceIn(seq, seq[j]) = j
  BY PlaceOf
<1> QED BY <1>1, <1>2

LEMMA KeysInOrder ==
  ASSUME NEW r, NEW s, ColumnBefore(r, s)
  PROVE  KeyBefore(RowKey(r), RowKey(s))
<1> DEFINE a == RowKey(r)
           b == RowKey(s)
<1>0. /\ DatasetSeq \in Seq(STRING) /\ Distinct(DatasetSeq)
      /\ TableSeq \in Seq(STRING) /\ Distinct(TableSeq)
  BY ListsAssumption, ListsDistinct
<1>1. /\ a[1] = PlaceIn(DatasetSeq, r.table[2]) /\ a[2] = PlaceIn(TableSeq, r.table[3])
      /\ a[3] = r.ordinal
      /\ b[1] = PlaceIn(DatasetSeq, s.table[2]) /\ b[2] = PlaceIn(TableSeq, s.table[3])
      /\ b[3] = s.ordinal
  BY DEF RowKey
<1>2. \A l \in 1..(1 - 1) : FALSE
  OBVIOUS
<1>3. \A l \in 1..(2 - 1) : l = 1
  OBVIOUS
<1>4. \A l \in 1..(3 - 1) : l = 1 \/ l = 2
  OBVIOUS
<1> HIDE DEF a, b
<1>5. CASE Precedes(DatasetSeq, r.table[2], s.table[2])
  <2>1. PlaceIn(DatasetSeq, r.table[2]) < PlaceIn(DatasetSeq, s.table[2])
    BY <1>0, <1>5, PlacesPrecede
  <2>2. a[1] < b[1]
    BY <1>1, <2>1
  <2> QED BY <1>2, <2>2 DEF KeyBefore, a, b
<1>6. CASE r.table[2] = s.table[2] /\ Precedes(TableSeq, r.table[3], s.table[3])
  <2>0. PlaceIn(TableSeq, r.table[3]) < PlaceIn(TableSeq, s.table[3])
    BY <1>0, <1>6, PlacesPrecede
  <2>1. a[1] = b[1] /\ a[2] < b[2]
    BY <1>1, <1>6, <2>0
  <2>2. \E k \in 1..3 : a[k] < b[k] /\ \A l \in 1..(k - 1) : a[l] = b[l]
    BY <1>3, <2>1
  <2> QED BY <2>2 DEF KeyBefore, a, b
<1>7. CASE r.table = s.table /\ r.ordinal < s.ordinal
  <2>1. a[1] = b[1] /\ a[2] = b[2] /\ a[3] < b[3]
    BY <1>1, <1>7
  <2>2. \E k \in 1..3 : a[k] < b[k] /\ \A l \in 1..(k - 1) : a[l] = b[l]
    BY <1>4, <2>1
  <2> QED BY <2>2 DEF KeyBefore, a, b
<1> QED BY <1>5, <1>6, <1>7 DEF ColumnBefore

LEMMA FieldChosen ==
  ASSUME NEW x \in DOMAIN TableInfo, NEW k \in DOMAIN TableInfo[x].columns, NEW pos,
         NEW row, row = CreateResultSetDSRow(x, TableInfo[x].columns[k], pos)
  PROVE  AlikeRow(row, FieldOf(row))
<1> DEFINE fields == TableInfo[x].columns
           f == fields[k]
           g == FieldOf(row)
<1>1. row.table = x /\ row.column = f.name
  BY RowFields
<1>2. /\ fields \in Seq([name : STRING, type : RestTypes, mode : STRING,
                         precision : Nat, scale : Nat, max_length : Nat])
      /\ \A i, j \in DOMAIN fields : fields[i].name = fields[j].name => i = j
  BY FieldsAssumption
<1>3. g = CHOOSE c \in Range(fields) : c.name = f.name
  BY <1>1 DEF FieldOf
<1> HIDE DEF fields, g
<1>4. f \in Range(fields) /\ f.type \in RestTypes
  <2>1. k \in DOMAIN fields
    BY DEF fields
  <2>2. \A i \in DOMAIN fields : fields[i] \in Range(fields) /\ fields[i].type \in RestTypes
    <3> DEFINE R == [name : STRING, type : RestTypes, mode : STRING,
                     precision : Nat, scale : Nat, max_length : Nat]
    <3>1. fields \in Seq(R)
      BY <1>2
    <3>2. \A e \in R : e.type \in RestTypes
      OBVIOUS
    <3> HIDE DEF R
    <3>3. fields \in [1..Len(fields) -> R]
      BY <3>1
    <3> QED BY <3>2, <3>3 DEF Range
  <2> QED BY <2>1, <2>2
<1>5. g \in Range(fields) /\ g.name = f.name
  BY <1>3, <1>4
<1>6. g = f
  BY <1>2, <1>5 DEF Range, fields
<1>7. AlikeRow(row, f)
  BY <1>4, DescribedField DEF fields
<1> QED BY <1>6, <1>7 DEF g

-----------------------------------------------------------------------------
(* How a call ends.                                                        *)

EndFacts ==
  /\ ShowsRowsOf("tables") /\ Args.max_rows = 0 => TablesExact
  /\ ShowsRowsOf("columns") => (Args.max_rows = 0 => ColumnsExact) /\ RowsInOrder /\ RowsAlike
  /\ Idle => Reported

LEMMA EndParts == EndFacts => EndInv
<1> SUFFICES ASSUME EndFacts PROVE EndInv
  OBVIOUS
<1>1. \A fn : Returned(fn) => ShowsRowsOf(fn) /\ Args.max_rows = 0
  BY DEF Returned, ShowsRowsOf, Args
<1>2. ListsSought
  BY <1>1 DEF EndFacts, ListsSought
<1>3. ColumnsInOrder /\ DescribedAlike
  BY OrderParts, AlikeParts DEF EndFacts
<1>4. Idle => Reported
  BY DEF EndFacts
<1> QED BY <1>2, <1>3, <1>4 DEF EndInv

LEMMA EndsQuietly ==
  ASSUME stmt'.state # "executedWithRs" \/ Args'.fn \notin {"tables", "columns"},
         Idle' => Reported'
  PROVE  EndInv'
<1>1. EndFacts'
  BY DEF EndFacts, ShowsRowsOf
<1> QED BY <1>1, EndParts, PTL

LEMMA ErrorEnds ==
  ASSUME Shape, stmt.state # "executedWithRs", NEW c, NEW refused \in BOOLEAN,
         ReturnError(c, refused)
  PROVE  /\ Idle' /\ Args' = c /\ stmt'.state # "executedWithRs" /\ config' = config
         /\ answer'.code = ERROR /\ answer'.refused = refused /\ ERROR # SUCCESS
<1>1. Ends(c)
  BY DEF Ends
<1>2. Idle' /\ call'.args = c /\ config' = config
  BY <1>1, EndsShape, EndsFields
<1>3. answer' = [code |-> ERROR, refused |-> refused] /\ stmt' = stmt
  BY DEF ReturnError, Ended
<1>4. answer'.code = ERROR /\ answer'.refused = refused
  BY <1>3
<1> QED BY <1>2, <1>3, <1>4 DEF Args, ERROR, SUCCESS

LEMMA RowsEnd ==
  ASSUME Shape, NEW c, NEW rows, ReturnRows(c, rows)
  PROVE  /\ Idle' /\ Args' = c /\ config' = config
         /\ stmt'.result = Limited(rows, c.max_rows)
         /\ answer'.code = SUCCESS /\ ERROR # SUCCESS
<1>1. Ends(c)
  BY DEF Ends
<1>2. Idle' /\ call'.args = c /\ config' = config
  BY <1>1, EndsShape, EndsFields
<1>3. answer' = [code |-> SUCCESS, refused |-> FALSE]
  BY DEF ReturnRows, Ended
<1>4. answer'.code = SUCCESS
  BY <1>3
<1>5. stmt'.result = Limited(rows, c.max_rows)
  <2> DEFINE r == Limited(rows, c.max_rows)
  <2>1. stmt = [state |-> stmt.state, result |-> stmt.result, ird |-> stmt.ird, job |-> stmt.job]
    BY DEF Shape, StmtShape
  <2>2. \E ird : stmt' = [stmt EXCEPT !.state = "executedWithRs", !.result = r, !.ird = ird]
    BY DEF ReturnRows
  <2> HIDE DEF r
  <2>3. \E ird : stmt' = [state |-> "executedWithRs", result |-> r, ird |-> ird, job |-> stmt.job]
    BY <2>1, <2>2
  <2>4. stmt'.result = r
    BY <2>3
  <2> QED BY <2>4 DEF r
<1> QED BY <1>2, <1>4, <1>5 DEF Args, ERROR, SUCCESS

LEMMA RoundGoesOn ==
  ASSUME Shape, NEW c, NEW stage, stage # "idle", NEW projects, NEW n, NEW tasks,
         Round(c, stage, projects, n, tasks)
  PROVE  ~Idle'
<1>1. call' = [call EXCEPT !.args = c, !.stage = stage, !.projects = projects]
  BY DEF Round
<1>2. call = [args |-> call.args, stage |-> call.stage, projects |-> call.projects]
  BY DEF Shape, CallShape
<1>3. call' = [args |-> c, stage |-> stage, projects |-> projects]
  BY <1>1, <1>2
<1> QED BY <1>3 DEF Idle

-----------------------------------------------------------------------------
(* A call that ends at once.                                               *)

LEMMA EndedAtOnce ==
  ASSUME Shape, NEW c \in Calls, Call(c)
  PROVE  \/ ~Idle'
         \/ \E a : ReturnError(a, TRUE)
         \/ \E a, rows : ReturnRows(a, rows) /\ a.fn \notin {"tables", "columns"}
         \/ c.fn \notin {"tables", "columns"} /\ \E a : a.fn = c.fn /\ Ends(a)
<1> DEFINE Result ==
             \/ ~Idle'
             \/ \E a : ReturnError(a, TRUE)
             \/ \E a, rows : ReturnRows(a, rows) /\ a.fn \notin {"tables", "columns"}
             \/ c.fn \notin {"tables", "columns"} /\ \E a : a.fn = c.fn /\ Ends(a)
<1>1. CASE SQLTables(c)
  <2> PICK a : a = TablesArgs(c)
    OBVIOUS
  <2> DEFINE allowed == config.dsn.allowed
             filter == IF a.fn = "tables" THEN a.catalog ELSE "%"
             literal == LiteralFromOdbcPattern(filter, a.metadata_id)
  <2>1. \/ ReturnError(a, TRUE)
        \/ a.fn = "types" /\ \E rows : ReturnRows(a, rows)
        \/ \E projects : AppendAdditionalProjectsIfMissing(a, projects)
        \/ Round(a, "projects", <<>>, 1, <<Task("projects", "", "", "")>>)
    <3>1. \/ ReturnError(a, TRUE)
          \/ a.fn = "types" /\ \E rows : ReturnRows(a, rows)
          \/ AppendAdditionalProjectsIfMissing(a, <<literal>>)
          \/ AppendAdditionalProjectsIfMissing(a, FilterAllowedProjects(allowed, literal, TRUE))
          \/ AppendAdditionalProjectsIfMissing(a, FilterAllowedProjects(allowed, filter, FALSE))
          \/ Round(a, "projects", <<>>, 1, <<Task("projects", "", "", "")>>)
      BY <1>1 DEF SQLTables
    <3> HIDE DEF literal, filter, allowed
    <3> QED BY <3>1
  <2>2. ASSUME NEW projects, AppendAdditionalProjectsIfMissing(a, projects) PROVE ~Idle'
    <3>1. Round(a, "validate", projects, 1, Validations(projects))
      BY <2>2, Validating
    <3> QED BY <3>1, RoundGoesOn
  <2>3. CASE Round(a, "projects", <<>>, 1, <<Task("projects", "", "", "")>>)
    BY <2>3, RoundGoesOn
  <2>4. CASE a.fn = "types" /\ \E rows : ReturnRows(a, rows)
    BY <2>4
  <2> QED BY <2>1, <2>2, <2>3, <2>4
<1>2. CASE SQLColumns(c)
  <2> PICK a : a = ColumnsArgs(c)
    OBVIOUS
  <2>1. \/ ReturnError(a, TRUE)
        \/ Round(a, "table", <<>>, 1, <<Task("table", a.catalog, a.schema, a.table)>>)
        \/ ListTables(a, <<<<a.catalog, a.schema>>>>)
        \/ Round(a, "datasets", <<>>, 1, <<Task("datasets", a.catalog, "", "")>>)
    BY <1>2 DEF SQLColumns
  <2>2. CASE ListTables(a, <<<<a.catalog, a.schema>>>>)
    <3>1. ReturnError(a, TRUE) \/ \E n, tasks : Round(a, "tables", <<>>, n, tasks)
      BY <2>2 DEF ListTables
    <3> QED BY <3>1, RoundGoesOn
  <2> QED BY <2>1, <2>2, RoundGoesOn
<1>3. CASE ~SQLTables(c) /\ ~SQLColumns(c)
  <2>1. c.fn \notin {"tables", "columns"}
    BY <1>3 DEF Call, SQLTables, SQLColumns, SQLProcedures, SQLPrimaryKeys, SQLForeignKeys,
                SQLStatistics, SQLSpecialColumns, SQLGetTypeInfo
  <2>2. PICK a : ReadsAs(c, a) /\ (GoesOn(a) \/ Ends(a))
    BY CallOutcome
  <2>3. a.fn = c.fn
    BY <2>1, <2>2 DEF ReadsAs
  <2>4. CASE GoesOn(a)
    <3>1. ~Idle'
      BY <2>4, GoesShape DEF Call
    <3> QED BY <3>1
  <2> QED BY <2>1, <2>2, <2>3, <2>4
<1> QED BY <1>1, <1>2, <1>3

LEMMA EndsByCall ==
  ASSUME Shape, NEW c \in Calls, Call(c)
  PROVE  EndInv'
<1>1. stmt.state # "executedWithRs" /\ seen'.failed = FALSE /\ Asked' = c
  BY CallSeen DEF Call, Asked
<1>2. CASE ~Idle'
  <2>1. EndFacts'
    BY <1>2 DEF EndFacts, ShowsRowsOf
  <2> QED BY <2>1, EndParts, PTL
<1>3. ASSUME NEW a, ReturnError(a, TRUE) PROVE EndInv'
  <2>1. /\ stmt'.state # "executedWithRs" /\ answer'.code = ERROR /\ answer'.refused = TRUE
        /\ ERROR # SUCCESS
    BY <1>1, <1>3, ErrorEnds
  <2>2. Reported'
    BY <2>1 DEF Reported, Explained
  <2> QED BY <2>1, <2>2, EndsQuietly
<1>4. ASSUME NEW a, NEW rows, ReturnRows(a, rows), a.fn \notin {"tables", "columns"}
      PROVE  EndInv'
  <2>1. Args' = a /\ answer'.code = SUCCESS /\ ERROR # SUCCESS
    BY <1>4, RowsEnd
  <2>2. Reported'
    BY <1>1, <2>1 DEF Reported
  <2>3. Args'.fn \notin {"tables", "columns"}
    BY <1>4, <2>1
  <2> QED BY <2>2, <2>3, EndsQuietly
<1>5. ASSUME c.fn \notin {"tables", "columns"}, NEW a, a.fn = c.fn, Ends(a)
      PROVE  EndInv'
  <2>1. Args' = a
    BY <1>5, EndsFields DEF Args
  <2>2. Args'.fn \notin {"tables", "columns"} /\ Asked'.fn \notin {"tables", "columns"}
    BY <1>1, <1>5, <2>1
  <2>3. Reported'
    BY <1>1, <2>2 DEF Reported
  <2> QED BY <2>2, <2>3, EndsQuietly
<1> QED BY <1>2, <1>3, <1>4, <1>5, EndedAtOnce

-----------------------------------------------------------------------------
(* A call that ends with the last round.                                   *)

LEMMA EndedByAdvance ==
  ASSUME Shape, Advance, Idle'
  PROVE  \/ RequestsFailed
         \/ TablesListed
         \/ Args.fn = "columns" /\ TablesRead
         \/ ReturnError(Args, TRUE)
         \/ Args.fn \notin {"tables", "columns"} /\ \E rows : ReturnRows(Args, rows)
<1> PICK c : c = call.args
  OBVIOUS
<1> SUFFICES \/ RequestsFailed
             \/ TablesListed
             \/ c.fn = "columns" /\ TablesRead
             \/ ReturnError(c, TRUE)
             \/ c.fn \notin {"tables", "columns"} /\ \E rows : ReturnRows(c, rows)
  BY DEF Args
<1>1. c.fn \in StageFns[call.stage]
  BY AdvanceFields DEF Shape, CallShape
<1>2. ASSUME NEW stage, stage # "idle", NEW projects, NEW n, NEW tasks
      PROVE  ~Round(c, stage, projects, n, tasks)
  BY <1>2, RoundGoesOn
<1>3. CASE ProjectsListed
  <2>1. AppendAdditionalProjectsIfMissing(c, Elements)
    BY <1>3 DEF ProjectsListed
  <2>2. Round(c, "validate", Elements, 1, Validations(Elements))
    BY <2>1, Validating
  <2> QED BY <1>2, <2>2
<1>4. CASE ProjectsValidated
  <2>1. (\E rows : c.fn = "projects" /\ ReturnRows(c, rows))
        \/ (\E projects, n, tasks : Round(c, "tables", projects, n, tasks))
        \/ (\E projects, n, tasks : Round(c, "datasets", projects, n, tasks))
    BY <1>4 DEF ProjectsValidated
  <2> QED BY <1>2, <2>1
<1>5. CASE DatasetsListed
  <2>1. \/ \E rows : c.fn = "schemas" /\ ReturnRows(c, rows)
        \/ \E n, tasks : Round(c, "tables", <<>>, n, tasks)
        \/ ListTables(c, Elements)
        \/ \E n, tasks : Round(c, "routines", <<>>, n, tasks)
    BY <1>5 DEF DatasetsListed
  <2>2. ListTables(c, Elements) => \/ ReturnError(c, TRUE)
                                   \/ \E n, tasks : Round(c, "tables", <<>>, n, tasks)
    BY DEF ListTables
  <2> QED BY <1>2, <2>1, <2>2
<1>6. CASE ColumnTablesListed
  <2>1. \E n, tasks : Round(c, "table", <<>>, n, tasks)
    BY <1>6 DEF ColumnTablesListed
  <2> QED BY <1>2, <2>1
<1>7. CASE TablesRead
  <2>1. c.fn # "columns" => \E rows : ReturnRows(c, rows)
    BY <1>7 DEF TablesRead
  <2>2. c.fn # "tables"
    BY <1>1, <1>7 DEF TablesRead, StageFns
  <2> QED BY <1>7, <2>1, <2>2
<1>8. CASE RoutinesRead
  <2>1. \E rows : ReturnRows(c, rows)
    BY <1>8 DEF RoutinesRead
  <2>2. call.stage = "routines"
    BY <1>8 DEF RoutinesRead
  <2>3. c.fn \notin {"tables", "columns"}
    BY <1>1, <2>2 DEF StageFns
  <2> QED BY <2>1, <2>3
<1>9. CASE KeysRead
  <2>1. \E rows : ReturnRows(c, rows)
    BY <1>9 DEF KeysRead
  <2>2. call.stage = "keys"
    BY <1>9 DEF KeysRead
  <2>3. c.fn \notin {"tables", "columns"}
    BY <1>1, <2>2 DEF StageFns
  <2> QED BY <2>1, <2>3
<1> QED BY <1>3, <1>4, <1>5, <1>6, <1>7, <1>8, <1>9 DEF Advance

LEMMA FailedRoundEnds ==
  ASSUME CallInv, RequestsFailed, Advance
  PROVE  EndInv'
<1>1. ~Idle /\ pool.error # "none" /\ ReturnError(call.args, FALSE)
  BY DEF RequestsFailed
<1>2. /\ Shape /\ ArgsInv /\ FailInv
  BY DEF CallInv
<1>3. stmt.state # "executedWithRs" /\ pool.error \in Codes /\ Args.fn \in StageFns[call.stage]
  BY <1>1, <1>2 DEF Shape, CallShape, RoundShape, Args
<1>4. Same /\ seen' = seen
  BY <1>2, SameSteps, AdvanceFields DEF CallInv
<1>5. /\ stmt'.state # "executedWithRs" /\ answer'.code = ERROR /\ ERROR # SUCCESS
      /\ Args' = Args /\ Asked' = Asked
  BY <1>1, <1>2, <1>3, <1>4, ErrorEnds DEF Same
<1>6. Failing(pool.error)
  BY DEF Failing
<1>7. ASSUME Asked.fn = "tables" PROVE seen.failed
  <2>1. Args.fn \in TablesFns
    <3>1. Asked \in Calls /\ ReadsAs(Asked, Args)
      BY <1>1, <1>2 DEF ArgsInv
    <3>2. Args.fn \in TablesFns \cup {"types"}
      BY <1>7, <3>1, TablesArgsFields DEF ReadsAs
    <3>3. Args.fn # "types"
      BY <1>1, <1>3, <1>2 DEF StageFns, TablesFns, Shape, CallShape, Stages, Idle
    <3> QED BY <3>2, <3>3
  <2> QED BY <1>1, <1>2, <1>3, <1>6, <2>1 DEF FailInv
<1>8. ASSUME Asked.fn = "columns", ~seen.failed, NEW x \in seen.always, ColumnsSought(Asked, x)
      PROVE  FALSE
  <2>1. Asked \in Calls /\ ReadsAs(Asked, Args)
    BY <1>1, <1>2 DEF ArgsInv
  <2>2. Args.fn = "columns"
    BY <1>8, <2>1 DEF ReadsAs
  <2>3. x[1] = Args.catalog
    BY <1>1, <1>2, <1>8, <2>2, ColumnsMeaning DEF Listing
  <2> QED BY <1>1, <1>2, <1>3, <1>6, <1>8, <2>2, <2>3 DEF FailInv
<1>9. \A x : ColumnsSought(Asked, x)' <=> ColumnsSought(Asked, x)
  BY <1>4, SameWanted
<1>10. Reported'
  BY <1>4, <1>5, <1>7, <1>8, <1>9 DEF Reported, Explained
<1> QED BY <1>5, <1>10, EndsQuietly

LEMMA TablesEnd ==
  ASSUME CallInv, TablesListed, Advance
  PROVE  EndInv'
<1>1. /\ call.stage = "tables" /\ Args.fn = "tables" /\ RoundOver /\ pool.error = "none"
      /\ ReturnRows(Args, Elements)
  BY DEF TablesListed, Args
<1>2. Shape /\ FailInv /\ Same /\ seen' = seen /\ ~Idle
  BY SameSteps, AdvanceFields DEF CallInv
<1>3. /\ Idle' /\ Args' = Args /\ stmt'.result = Limited(Elements, Args.max_rows)
      /\ answer'.code = SUCCESS /\ ERROR # SUCCESS
  BY <1>1, <1>2, RowsEnd
<1>4. ~seen.failed
  <2>1. \A code \in Codes : ~Failing(code)
    BY <1>1, OverWithoutError
  <2> QED BY <1>2, <2>1 DEF FailInv
<1>5. Reported'
  BY <1>2, <1>3, <1>4 DEF Reported
<1>6. ASSUME Args.max_rows = 0 PROVE TablesExact'
  <2> PICK rows : rows = Elements
    OBVIOUS
  <2>1. ListedOnce(rows)
    BY <1>1, <1>2, TablesToldOnce DEF Listing
  <2>2. IsSeq(rows) /\ DOMAIN rows = 1..Len(rows)
    BY <2>1, SeqShape DEF ListedOnce
  <2>3. stmt'.result = rows
    BY <1>3, <1>6, <2>2, LimitedRows
  <2>4. /\ \A x : TablesSought(Asked, x)' <=> TablesSought(Asked, x)
        /\ Asked' = Asked
    BY <1>2, SameWanted DEF Same
  <2>5. ASSUME NEW x \in seen.always, TablesSought(Asked, x), x[1] \notin seen.doubtful
        PROVE  Cardinality({i \in DOMAIN rows : TableNamed(rows[i]) = x}) = 1
    <3>1. x \in Lasting
      BY <1>1, <2>5 DEF Lasting, AsksFor
    <3>2. PICK j \in 1..Len(rows) : \A i \in 1..Len(rows) : TableNamed(rows[i]) = x <=> i = j
      BY <2>1, <3>1 DEF ListedOnce
    <3>3. {i \in DOMAIN rows : TableNamed(rows[i]) = x} = {j}
      BY <2>2, <3>2
    <3> QED BY <3>3, FS_Singleton
  <2>6. \A i \in DOMAIN rows :
          TableNamed(rows[i]) \in seen.ever /\ TablesSought(Asked, TableNamed(rows[i]))
    BY <2>1, <2>2 DEF ListedOnce
  <2> QED BY <1>2, <2>3, <2>4, <2>5, <2>6 DEF TablesExact
<1>7. EndFacts'
  BY <1>1, <1>3, <1>5, <1>6 DEF EndFacts, ShowsRowsOf
<1> QED BY <1>7, EndParts, PTL

LEMMA RowsToldInOrder ==
  ASSUME NEW c, NEW all, ColumnRows(c, all), NEW rows, IsSeq(rows), Len(rows) <= Len(all),
         \A i \in 1..Len(rows) : rows[i] = all[i]
  PROVE  \A i \in DOMAIN rows : i > 1 => KeyBefore(RowKey(rows[i - 1]), RowKey(rows[i]))
<1>1. /\ IsSeq(all)
      /\ \A i, j \in 1..Len(all) : i < j => ColumnBefore(all[i], all[j])
  BY DEF ColumnRows
<1>2. DOMAIN rows = 1..Len(rows) /\ Len(rows) \in Nat /\ Len(all) \in Nat
  BY <1>1, SeqShape
<1>3. ASSUME NEW i \in DOMAIN rows, i > 1
      PROVE  KeyBefore(RowKey(rows[i - 1]), RowKey(rows[i]))
  <2> DEFINE N == Len(rows)
             M == Len(all)
  <2>1. i \in 1..N /\ N \in Nat /\ M \in Nat /\ N <= M
    BY <1>2
  <2> HIDE DEF N, M
  <2>2. i - 1 \in 1..N /\ i - 1 \in 1..M /\ i \in 1..M /\ i - 1 < i
    BY <1>3, <2>1
  <2>3. ColumnBefore(all[i - 1], all[i])
    BY <1>1, <2>2 DEF M
  <2>4. rows[i - 1] = all[i - 1] /\ rows[i] = all[i]
    BY <2>1, <2>2 DEF N
  <2> QED BY <2>3, <2>4, KeysInOrder
<1> QED BY <1>3

LEMMA RowsToldAlike ==
  ASSUME Sees, NEW c, NEW all, ColumnRows(c, all), NEW rows, IsSeq(rows), Len(rows) <= Len(all),
         \A i \in 1..Len(rows) : rows[i] = all[i]
  PROVE  \A i \in DOMAIN rows : AlikeRow(rows[i], FieldOf(rows[i]))
<1>1. /\ IsSeq(all)
      /\ \A i \in 1..Len(all) :
           /\ all[i].table \in seen.ever
           /\ \E k \in DOMAIN TableInfo[all[i].table].columns : \E pos :
                all[i] = CreateResultSetDSRow(all[i].table, TableInfo[all[i].table].columns[k], pos)
  BY DEF ColumnRows
<1>2. DOMAIN rows = 1..Len(rows) /\ Len(rows) \in Nat /\ Len(all) \in Nat
  BY <1>1, SeqShape
<1>3. ASSUME NEW i \in DOMAIN rows PROVE AlikeRow(rows[i], FieldOf(rows[i]))
  <2> DEFINE r == rows[i]
             x == r.table
  <2>1. i \in 1..Len(all) /\ r = all[i]
    <3> DEFINE N == Len(rows)
               M == Len(all)
    <3>1. i \in 1..N /\ N \in Nat /\ M \in Nat /\ N <= M
      BY <1>2
    <3> HIDE DEF N, M
    <3>2. i \in 1..M
      BY <3>1
    <3> QED BY <3>1, <3>2 DEF N, M
  <2>2. x \in DOMAIN TableInfo
    BY <1>1, <2>1 DEF Sees
  <2>3. PICK k \in DOMAIN TableInfo[x].columns :
          \E pos : r = CreateResultSetDSRow(x, TableInfo[x].columns[k], pos)
    BY <1>1, <2>1
  <2>4. PICK pos : r = CreateResultSetDSRow(x, TableInfo[x].columns[k], pos)
    BY <2>3
  <2> HIDE DEF r, x
  <2>5. AlikeRow(r, FieldOf(r))
    BY <2>2, <2>4, FieldChosen
  <2> QED BY <2>5 DEF r
<1> QED BY <1>3

LEMMA ColumnsTold ==
  ASSUME CallInv, TablesRead, Advance, Args.fn = "columns", NEW c, c = Args
  PROVE  \E all : /\ ColumnRows(c, all)
                  /\ all = <<>> => \A x \in Lasting : ProcessTableResults(c, x) = <<>>
                  /\ IF all = <<>> THEN ReturnError(c, FALSE) ELSE ReturnRows(c, all)
<1>1. call.stage = "table" /\ RoundOver /\ pool.error = "none" /\ ReturnColumns(Args, InOrder)
  BY DEF TablesRead, Args
<1>2. Shape /\ ~Idle
  BY AdvanceFields DEF CallInv
<1> PICK blocks : blocks = [i \in DOMAIN InOrder |-> ProcessTableResults(c, InOrder[i])]
  OBVIOUS
<1> PICK all : all = FlattenSeq(blocks)
  OBVIOUS
<1>3. /\ ColumnRows(c, all)
      /\ all = <<>> => \A x \in Lasting : ProcessTableResults(c, x) = <<>>
  <2>1. PICK at : OrderedBy(at)
    BY InOrderGiven, <1>1, <1>2 DEF CallInv, Listing
  <2>2. IsSeq(InOrder)
    BY <2>1 DEF OrderedBy
  <2>3. BlocksOf(c, blocks)
    BY <2>2, BlocksRead
  <2>4. /\ ColumnRows(c, FlattenSeq(blocks))
        /\ FlattenSeq(blocks) = <<>> => \A x \in Lasting : ProcessTableResults(c, x) = <<>>
    BY <1>1, <1>2, <2>3, ColumnsRead DEF Listing
  <2> QED BY <2>4
<1>4. IF all = <<>> THEN ReturnError(c, FALSE) ELSE ReturnRows(c, all)
  BY <1>1 DEF ReturnColumns
<1> QED BY <1>3, <1>4

LEMMA ColumnsEnd ==
  ASSUME CallInv, TablesRead, Advance, Args.fn = "columns"
  PROVE  EndInv'
<1>1. call.stage = "table" /\ RoundOver /\ pool.error = "none" /\ ReturnColumns(Args, InOrder)
  BY DEF TablesRead, Args
<1>2. Shape /\ FailInv /\ Sees /\ Same /\ seen' = seen /\ ~Idle /\ stmt.state # "executedWithRs"
  BY SameSteps, AdvanceFields DEF CallInv, Shape, CallShape
<1> PICK c : c = Args
  OBVIOUS
<1> PICK all : /\ ColumnRows(c, all)
               /\ all = <<>> => \A x \in Lasting : ProcessTableResults(c, x) = <<>>
               /\ IF all = <<>> THEN ReturnError(c, FALSE) ELSE ReturnRows(c, all)
  BY ColumnsTold
<1>3. /\ ColumnRows(c, all)
      /\ all = <<>> => \A x \in Lasting : ProcessTableResults(c, x) = <<>>
  OBVIOUS
<1>4. IF all = <<>> THEN ReturnError(c, FALSE) ELSE ReturnRows(c, all)
  OBVIOUS
<1>5. ~seen.failed
  <2>1. \A code \in Codes : ~Failing(code)
    BY <1>1, OverWithoutError
  <2> QED BY <1>2, <2>1 DEF FailInv
<1>6. /\ \A x : ColumnsSought(Asked, x)' <=> ColumnsSought(Asked, x)
      /\ Asked' = Asked /\ Args' = c
  BY <1>2, SameWanted DEF Same
<1>7. \A x \in seen.always : ColumnsSought(Asked, x) => x \in Lasting
  BY DEF Lasting, AsksFor
<1>8. CASE all = <<>>
  <2>1. /\ stmt'.state # "executedWithRs" /\ answer'.code = ERROR /\ ERROR # SUCCESS
    BY <1>2, <1>4, <1>8, ErrorEnds
  <2>2. Asked.fn = "columns"
    BY <1>2, ListingCall DEF CallInv, Listing
  <2>3. \A x \in seen.always : ColumnsSought(Asked, x) => ProcessTableResults(c, x) = <<>>
    BY <1>3, <1>7, <1>8
  <2>4. Reported'
    BY <1>2, <1>6, <2>1, <2>2, <2>3 DEF Reported
  <2> QED BY <2>1, <2>4, EndsQuietly
<1>9. CASE all # <<>>
  <2> PICK rows : rows = Limited(all, c.max_rows)
    OBVIOUS
  <2>1. /\ Idle' /\ stmt'.result = rows /\ answer'.code = SUCCESS /\ ERROR # SUCCESS
    BY <1>2, <1>4, <1>9, RowsEnd
  <2>2. IsSeq(all)
    BY <1>3 DEF ColumnRows
  <2>3. c.max_rows \in Nat
    <3>1. Asked \in Calls /\ c = ColumnsArgs(Asked)
      BY <1>2, ListingCall DEF CallInv, Listing
    <3>2. c.max_rows = Asked.max_rows
      BY <3>1, ColumnsArgsFields
    <3> QED BY <3>1, <3>2, CallsAssumption
  <2>4. /\ IsSeq(rows) /\ Len(rows) <= Len(all) /\ \A i \in 1..Len(rows) : rows[i] = all[i]
        /\ c.max_rows = 0 => rows = all
    BY <2>2, <2>3, LimitedRows
  <2>5. RowsInOrder'
    <3>1. \A i \in DOMAIN rows : i > 1 => KeyBefore(RowKey(rows[i - 1]), RowKey(rows[i]))
      BY <1>3, <2>4, RowsToldInOrder
    <3> QED BY <2>1, <3>1 DEF RowsInOrder
  <2>6. RowsAlike'
    <3>1. \A i \in DOMAIN rows : AlikeRow(rows[i], FieldOf(rows[i]))
      BY <1>2, <1>3, <2>4, RowsToldAlike
    <3> QED BY <2>1, <3>1 DEF RowsAlike
  <2>7. ASSUME c.max_rows = 0 PROVE ColumnsExact'
    <3>1. stmt'.result = all
      BY <2>1, <2>4, <2>7
    <3>2. \A x \in seen.always : ColumnsSought(Asked, x) =>
            Selected(all, {r \in Range(all) : r.table = x}) = ProcessTableResults(c, x)
      BY <1>3, <1>7 DEF ColumnRows
    <3>3. DOMAIN all = 1..Len(all)
      BY <2>2, SeqShape
    <3>4. \A i \in DOMAIN all :
            /\ all[i].table \in seen.ever /\ ColumnsSought(Asked, all[i].table)
            /\ ShowsAMatch(c, all[i], all[i].table)
      BY <1>3, <3>3 DEF ColumnRows
    <3> QED BY <1>2, <1>6, <3>1, <3>2, <3>4 DEF ColumnsExact
  <2>8. Reported'
    BY <1>2, <1>5, <2>1 DEF Reported
  <2>9. EndFacts'
    BY <1>6, <2>5, <2>6, <2>7, <2>8 DEF EndFacts, ShowsRowsOf
  <2> QED BY <2>9, EndParts, PTL
<1> QED BY <1>8, <1>9

LEMMA OtherEnds ==
  ASSUME CallInv, Advance, Idle', ReturnError(Args, TRUE)
  PROVE  EndInv'
<1>1. Shape /\ stmt.state # "executedWithRs"
  BY AdvanceFields DEF CallInv, Shape, CallShape
<1>2. /\ stmt'.state # "executedWithRs" /\ answer'.code = ERROR /\ answer'.refused = TRUE
      /\ ERROR # SUCCESS
  BY <1>1, ErrorEnds
<1>3. Reported'
  BY <1>2 DEF Reported, Explained
<1> QED BY <1>2, <1>3, EndsQuietly

LEMMA OtherRows ==
  ASSUME CallInv, Advance, Args.fn \notin {"tables", "columns"}, NEW rows, ReturnRows(Args, rows)
  PROVE  EndInv'
<1>1. Shape /\ FailInv /\ seen' = seen
  BY AdvanceFields DEF CallInv
<1>2. Args' = Args /\ answer'.code = SUCCESS /\ ERROR # SUCCESS
  BY <1>1, RowsEnd
<1>3. RequestsFailed \/ ~seen.failed
  BY <1>1, AdvanceWithoutError
<1>4. CASE RequestsFailed
  BY <1>4, FailedRoundEnds
<1>5. CASE ~seen.failed
  <2>1. Reported'
    BY <1>1, <1>2, <1>5 DEF Reported
  <2> QED BY <1>2, <2>1, EndsQuietly
<1> QED BY <1>3, <1>4, <1>5

LEMMA EndStays ==
  ASSUME EndInv, Shape, CloseCursor
  PROVE  EndInv'
<1>1. /\ Idle /\ Idle' /\ stmt'.state # "executedWithRs"
      /\ UNCHANGED <<store, config, call, pool, answer, seen>>
  BY ClosesOnly
<1>2. Reported
  BY <1>1 DEF EndInv
<1>3. Same
  BY <1>1 DEF Same, Args, Asked
<1>4. \A x : ColumnsSought(Asked, x)' <=> ColumnsSought(Asked, x)
  BY <1>3, SameWanted
<1>5. Reported'
  BY <1>1, <1>2, <1>4 DEF Reported, Explained, Args, Asked
<1> QED BY <1>1, <1>5, EndsQuietly

LEMMA EndStutter ==
  ASSUME EndInv, UNCHANGED vars
  PROVE  EndInv'
<1>1. UNCHANGED <<store, config, stmt, call, pool, answer, seen, budget>>
  BY DEF vars
<1>2. Same
  BY <1>1 DEF Same, Args, Asked
<1>3. /\ \A x : TablesSought(Asked, x)' <=> TablesSought(Asked, x)
      /\ \A x : ColumnsSought(Asked, x)' <=> ColumnsSought(Asked, x)
  BY <1>2, SameWanted
<1>4. ListsSought'
  BY <1>1, <1>3 DEF EndInv, ListsSought, TablesExact, ColumnsExact, ShowsAMatch, TableNamed,
                    Asked, Args, Returned, Idle
<1>5. ColumnsInOrder'
  <2>1. ShowsRowsOf("columns") => RowsInOrder
    BY OrderParts DEF EndInv
  <2>2. (ShowsRowsOf("columns") => RowsInOrder)'
    BY <1>1, <2>1 DEF ShowsRowsOf, RowsInOrder, Idle, Args
  <2> QED BY <2>2, OrderParts, PTL
<1>6. (Idle => Reported)'
  BY <1>1, <1>3 DEF EndInv, Reported, Explained, Asked, Args, Idle
<1>7. DescribedAlike'
  <2>1. ShowsRowsOf("columns") => RowsAlike
    BY AlikeParts DEF EndInv
  <2>2. (ShowsRowsOf("columns") => RowsAlike)'
    BY <1>1, <2>1 DEF ShowsRowsOf, RowsAlike, Idle, Args
  <2> QED BY <2>2, AlikeParts, PTL
<1> QED BY <1>4, <1>5, <1>6, <1>7 DEF EndInv

LEMMA EndInit ==
  ASSUME Init
  PROVE  EndInv
<1>1. /\ stmt.state = "notPrepared" /\ answer.code = "none"
  BY DEF Init
<1>2. EndFacts
  BY <1>1 DEF EndFacts, ShowsRowsOf, Reported, SUCCESS, ERROR
<1> QED BY <1>2, EndParts

LEMMA EndNext ==
  ASSUME EndInv, CallInv, Next
  PROVE  EndInv'
<1>0. Shape /\ Sees
  BY DEF CallInv
<1>1. ASSUME NEW c \in Calls, Call(c)
      PROVE  EndInv'
  BY <1>0, <1>1, EndsByCall
<1>2. CASE ~Idle'
  <2>1. EndFacts'
    BY <1>2 DEF EndFacts, ShowsRowsOf
  <2> QED BY <2>1, EndParts, PTL
<1>3. CASE CloseCursor
  BY <1>0, <1>3, EndStays
<1>4. CASE Advance /\ Idle'
  <2>1. CASE RequestsFailed
    BY <1>4, <2>1, FailedRoundEnds
  <2>2. CASE TablesListed
    BY <1>4, <2>2, TablesEnd
  <2>3. CASE Args.fn = "columns" /\ TablesRead
    BY <1>4, <2>3, ColumnsEnd
  <2>4. CASE ReturnError(Args, TRUE)
    BY <1>4, <2>4, OtherEnds
  <2>5. CASE Args.fn \notin {"tables", "columns"} /\ \E rows : ReturnRows(Args, rows)
    BY <1>4, <2>5, OtherRows
  <2> QED BY <1>0, <1>4, <2>1, <2>2, <2>3, <2>4, <2>5, EndedByAdvance
<1>5. CASE Environment \/ \E i \in DOMAIN pool.running : Collect(i) \/ Reply(i) \/ ReplyFails(i)
  <2>1. call' = call /\ ~Idle
    BY <1>0, <1>5, LaterSteps, SameSteps
  <2>2. ~Idle'
    BY <2>1 DEF Idle
  <2> QED BY <1>2, <2>2
<1> QED BY <1>1, <1>2, <1>3, <1>4, <1>5, NextSteps

LEMMA EndAlways == Spec => []EndInv
<1>1. Init => EndInv
  BY EndInit
<1>2. EndInv /\ CallInv /\ [Next]_vars => EndInv'
  BY EndNext, EndStutter
<1> QED BY <1>1, <1>2, CallInvAlways, PTL DEF Spec

-----------------------------------------------------------------------------
(* What the driver looks for is what the call asks for, but for the        *)
(* departures.                                                             *)

LEMMA ArgumentsRead ==
  ASSUME CallInv, answer.code # "none"
  PROVE  /\ Asked \in Calls /\ config.dsn \in Dsns
         /\ Asked.metadata_id \in BOOLEAN /\ Asked.catalog # NoLiteral
         /\ Args.fn = "tables" => Asked.fn = "tables"
         /\ Args.fn = "columns" => Asked.fn = "columns"
         /\ Asked.fn = "columns" => Args = ColumnsArgs(Asked)
<1>1. Asked \in Calls /\ ReadsAs(Asked, Args) /\ config.dsn \in Dsns
  BY Threads DEF CallInv, ArgsInv
<1>2. TablesArgs(Asked).fn # "columns"
  BY <1>1, TablesArgsFields DEF TablesFns
<1> QED BY <1>1, <1>2, CallTypes DEF ReadsAs

LEMMA ProjectsMeant ==
  ASSUME NEW q \in Calls, NEW p
  PROVE  /\ CatalogSought(q, p) => CatalogAsked(q, p)
         /\ ProjectSought(q, p) => ProjectAsked(q, p)
         /\ CatalogAsked(q, p) /\ (q.metadata_id => p = ToCharStr(q.catalog, CurrentCatalog))
              => CatalogSought(q, p)
<1>1. CatalogSought(q, p) => CatalogAsked(q, p)
  BY CallTypes DEF CatalogSought, CatalogAsked, SoughtAs, Named, FullMatch, ToCharStr
<1>2. CatalogAsked(q, p) /\ (q.metadata_id => p = ToCharStr(q.catalog, CurrentCatalog))
        => CatalogSought(q, p)
  BY CallTypes DEF CatalogSought, CatalogAsked, SoughtAs, Named, ToCharStr
<1>3. ProjectSought(q, p) => ProjectAsked(q, p)
  BY <1>1 DEF ProjectSought, ProjectAsked
<1> QED BY <1>1, <1>2, <1>3

LEMMA TablesFound ==
  ASSUME NEW q \in Calls, q.fn = "tables", NEW x, TablesWanted(q, x), InItsCase(q, x)
  PROVE  TablesSought(q, x)
<1> DEFINE literal == LiteralFromOdbcPattern(ToCharStr(q.catalog, CurrentCatalog), q.metadata_id)
<1>1. CASE q.metadata_id
  <2>1. q.metadata_id = TRUE /\ ~UsesDefault(q)
    BY <1>1, CallTypes DEF UsesDefault
  <2>2. literal = ToCharStr(q.catalog, CurrentCatalog) /\ literal # NoLiteral
    <3>1. literal = ToCharStr(q.catalog, CurrentCatalog)
      BY <2>1, LiteralOfName
    <3>2. CurrentCatalog # NoLiteral /\ q.catalog # NoLiteral
      BY CallTypes, PatternsAssumption
    <3> QED BY <3>1, <3>2 DEF ToCharStr
  <2>3. ProjectSought(q, x[1]) \/ x[1] \in Range(config.dsn.additional)
    <3>1. CASE config.dsn.allowed # <<>>
      BY <2>2, <3>1 DEF TablesWanted, ProjectAsked, ProjectSought
    <3>2. CASE config.dsn.allowed = <<>>
      <4>1. Range(config.dsn.allowed) = {}
        BY <3>2 DEF Range
      <4>2. x[1] = ToCharStr(q.catalog, CurrentCatalog) \/ x[1] \in Range(config.dsn.additional)
        BY <1>1, <4>1 DEF InItsCase
      <4>3. ASSUME ProjectAsked(q, x[1]), x[1] = ToCharStr(q.catalog, CurrentCatalog)
            PROVE  ProjectSought(q, x[1])
        BY <3>2, <4>3, ProjectsMeant DEF ProjectAsked, ProjectSought
      <4> QED BY <4>2, <4>3 DEF TablesWanted
    <3> QED BY <3>1, <3>2
  <2>4. SoughtAs(q.schema, x[2], q.metadata_id)
    BY <1>1 DEF InItsCase, SoughtAs
  <2> QED BY <2>1, <2>3, <2>4 DEF TablesWanted, TablesSought, Named
<1>2. CASE ~q.metadata_id
  <2>1. q.metadata_id = FALSE
    BY <1>2, CallTypes
  <2>2. \A p : ProjectAsked(q, p) => ProjectSought(q, p)
    BY <2>1, ProjectsMeant DEF ProjectAsked, ProjectSought
  <2> QED BY <2>1, <2>2 DEF TablesWanted, TablesSought, Named, SoughtAs
<1> QED BY <1>1, <1>2

LEMMA TablesMeant ==
  ASSUME NEW q \in Calls, NEW x \in DOMAIN TableInfo, TablesSought(q, x)
  PROVE  TablesWanted(q, x)
<1>1. ProjectSought(q, x[1]) => ProjectAsked(q, x[1])
  BY ProjectsMeant
<1>2. SoughtAs(q.schema, x[2], q.metadata_id) => Named(q.schema, x[2], q.metadata_id)
  <2>1. x[2] # NULL
    BY ListsAssumption, NamesAssumption
  <2> QED BY <2>1, CallTypes DEF SoughtAs, Named, FullMatch, ToCharStr
<1> QED BY <1>1, <1>2 DEF TablesSought, TablesWanted, Named

LEMMA ColumnsFound ==
  ASSUME NEW q \in Calls, q.fn = "columns", config.dsn \in Dsns,
         NEW x, ColumnsWanted(q, x), InItsCase(q, x)
  PROVE  ColumnsSought(q, x)
<1>1. CatalogSought(q, x[1])
  BY ProjectsMeant DEF ColumnsWanted, InItsCase
<1>2. UsesDefault(q) => FullMatch(DefaultDataset, DefaultDataset, q.metadata_id)
  BY NamesAssumption DEF UsesDefault, FullMatch, DefaultDataset
<1> QED BY <1>1, <1>2 DEF ColumnsWanted, ColumnsSought, Named

LEMMA ColumnsMeant ==
  ASSUME NEW q \in Calls, NEW x, ColumnsSought(q, x)
  PROVE  ColumnsWanted(q, x) \/ DefaultAsPattern(q, x)
<1>1. CatalogAsked(q, x[1])
  BY ProjectsMeant DEF ColumnsSought
<1>2. UsesDefault(q) => q.metadata_id = FALSE
  BY CallTypes DEF UsesDefault
<1> QED BY <1>1, <1>2 DEF ColumnsSought, ColumnsWanted, DefaultAsPattern, Named

-----------------------------------------------------------------------------
(* The columns shown of a table are those asked for.                       *)

LEMMA ColumnArgument ==
  ASSUME NEW q \in Calls, q.fn = "columns", NEW a, a = ColumnsArgs(q)
  PROVE  /\ AllColumns(a) <=> EveryColumn(q)
         /\ \A n : FullMatch(n, a.column, a.metadata_id) <=> Named(q.column, n, q.metadata_id)
<1>1. /\ a.metadata_id = q.metadata_id /\ q.metadata_id \in BOOLEAN
      /\ a.column = SanitizeIdentifierArgument(ToCharStr(q.column, "%"), q.metadata_id)
  BY ColumnsArgsFields, CallTypes
<1>2. CASE q.metadata_id
  <2>1. q.metadata_id = TRUE /\ a.column = ToUpper(ToCharStr(q.column, "%"))
    BY <1>1, <1>2 DEF SanitizeIdentifierArgument
  <2>2. \A n, f : FullMatch(n, f, TRUE) <=> ToUpper(n) = ToUpper(f)
    BY DEF FullMatch
  <2>3. \A n : FullMatch(n, a.column, TRUE) <=> FullMatch(n, ToCharStr(q.column, "%"), TRUE)
    BY <2>1, <2>2, CapitalsOnce
  <2> QED BY <1>1, <2>1, <2>3 DEF AllColumns, EveryColumn, Named
<1>3. CASE ~q.metadata_id
  <2>1. a.column = ToCharStr(q.column, "%")
    BY <1>1, <1>3 DEF SanitizeIdentifierArgument
  <2>2. AllColumns(a) <=> EveryColumn(q)
    BY <1>1, <2>1 DEF AllColumns, EveryColumn, ToCharStr
  <2> QED BY <1>1, <2>1, <2>2 DEF Named
<1> QED BY <1>2, <1>3

ColumnNames(rows) == [i \in DOMAIN rows |-> rows[i].column]
FieldNames(fields) == [i \in DOMAIN fields |-> fields[i].name]

LEMMA ColumnsShown ==
  ASSUME NEW q \in Calls, q.fn = "columns", NEW a, a = ColumnsArgs(q), NEW x \in DOMAIN TableInfo,
         NEW rows, rows = ProcessTableResults(a, x)
  PROVE  /\ rows = <<>> => FieldsWanted(q, x) = <<>>
         /\ ~LaterMatchesLost(q, x) => ColumnNames(rows) = FieldNames(FieldsWanted(q, x))
<1> DEFINE fields == TableInfo[x].columns
           Row(f, pos) == CreateResultSetDSRow(x, f, pos)
           chosen == Selected(fields, MatchingFields(a, fields))
           all == [i \in DOMAIN fields |-> Row(fields[i], i)]
           first == <<Row(chosen[1], 1)>>
           wanted == FieldsWanted(q, x)
<1>1. IsSeq(fields)
  <2>1. fields \in Seq([name : STRING, type : RestTypes, mode : STRING,
                        precision : Nat, scale : Nat, max_length : Nat])
    BY FieldsAssumption
  <2> HIDE DEF fields
  <2> QED BY <2>1, SeqOfAny
<1>2. \A f, pos : Row(f, pos).column = f.name
  BY RowFields
<1>3. MatchingFields(a, fields) = {f \in Range(fields) : Named(q.column, f.name, q.metadata_id)}
  BY ColumnArgument DEF MatchingFields
<1>4. wanted = IF EveryColumn(q) THEN fields ELSE chosen
  BY <1>3 DEF FieldsWanted
<1>5. /\ EveryColumn(q) => rows = all
      /\ ~EveryColumn(q) /\ chosen # <<>> => rows = first
      /\ ~EveryColumn(q) /\ chosen = <<>> => rows = <<>>
  BY ColumnArgument DEF ProcessTableResults
<1>6. IsSeq(chosen)
  BY <1>1, SelectedSeq
<1> SUFFICES /\ rows = <<>> => wanted = <<>>
             /\ ~LaterMatchesLost(q, x) => ColumnNames(rows) = FieldNames(wanted)
  OBVIOUS
<1>7. LaterMatchesLost(q, x) <=> ~EveryColumn(q) /\ Len(chosen) > 1
  BY <1>4 DEF LaterMatchesLost
<1> HIDE DEF wanted, fields, chosen, Row
<1>8. CASE EveryColumn(q)
  <2>1. DOMAIN rows = DOMAIN fields /\ \A i \in DOMAIN fields : rows[i].column = fields[i].name
    BY <1>2, <1>5, <1>8
  <2>2. wanted = fields
    BY <1>4, <1>8
  <2>3. rows = <<>> => fields = <<>>
    <3>1. DOMAIN <<>> = {}
      OBVIOUS
    <3>2. DOMAIN fields = {} => fields = <<>>
      <4>1. fields = [i \in 1..Len(fields) |-> fields[i]] /\ Len(fields) \in Nat
            /\ DOMAIN fields = 1..Len(fields)
        BY <1>1, SeqShape
      <4>2. DOMAIN fields = {} => Len(fields) = 0
        BY <4>1
      <4>3. Len(fields) = 0 => fields = <<>>
        BY <1>1 DEF IsSeq
      <4> QED BY <4>2, <4>3
    <3> QED BY <2>1, <3>1, <3>2
  <2> QED BY <2>1, <2>2, <2>3 DEF ColumnNames, FieldNames
<1>9. CASE ~EveryColumn(q) /\ chosen # <<>>
  <2>1. rows = <<Row(chosen[1], 1)>> /\ wanted = chosen
    BY <1>4, <1>5, <1>9
  <2>2. rows # <<>> /\ DOMAIN rows = 1..1 /\ rows[1].column = chosen[1].name
    BY <1>2, <2>1
  <2>3. ASSUME Len(chosen) <= 1 PROVE DOMAIN chosen = 1..1
    <3>1. Len(chosen) \in Nat /\ DOMAIN chosen = 1..Len(chosen)
      BY <1>6, SeqShape
    <3>2. Len(chosen) # 0
      BY <1>6, <1>9 DEF IsSeq
    <3>3. Len(chosen) = 1
      BY <2>3, <3>1, <3>2
    <3> QED BY <3>1, <3>3
  <2>4. ~LaterMatchesLost(q, x) => Len(chosen) <= 1
    <3>1. Len(chosen) \in Nat
      BY <1>6, SeqShape
    <3> QED BY <1>7, <1>9, <3>1
  <2>5. ASSUME ~LaterMatchesLost(q, x)
        PROVE  ColumnNames(rows) = FieldNames(chosen)
    <3>1. DOMAIN chosen = 1..1
      BY <2>3, <2>4, <2>5
    <3>2. \A i \in 1..1 : i = 1
      OBVIOUS
    <3> QED BY <2>2, <3>1, <3>2 DEF ColumnNames, FieldNames
  <2> QED BY <2>1, <2>2, <2>5
<1>10. CASE ~EveryColumn(q) /\ chosen = <<>>
  <2>1. rows = <<>> /\ wanted = <<>>
    BY <1>4, <1>5, <1>10
  <2> QED BY <2>1 DEF ColumnNames, FieldNames
<1> QED BY <1>8, <1>9, <1>10

-----------------------------------------------------------------------------
(* The properties.                                                         *)

LEMMA ListsExact ==
  ASSUME CallInv, EndInv
  PROVE  ExactListing
<1> DEFINE q == Asked
           rows == stmt.result
           Of(x) == Selected(rows, {r \in Range(rows) : r.table = x})
<1>1. seen.always \subseteq DOMAIN TableInfo /\ seen.ever \subseteq DOMAIN TableInfo
  BY DEF CallInv, Sees
<1>2. ASSUME Returned("tables")
      PROVE  /\ \A x \in seen.always :
                  TablesWanted(q, x) /\ InItsCase(q, x) /\ x[1] \notin seen.doubtful =>
                    Cardinality({i \in DOMAIN rows : TableNamed(rows[i]) = x}) = 1
             /\ \A i \in DOMAIN rows :
                  TableNamed(rows[i]) \in seen.ever /\ TablesWanted(q, TableNamed(rows[i]))
  <2>1. q \in Calls /\ q.fn = "tables"
    BY <1>2, ArgumentsRead DEF Returned, Args, SUCCESS
  <2>2. TablesExact
    BY <1>2 DEF EndInv, ListsSought
  <2>3. \A x : TablesWanted(q, x) /\ InItsCase(q, x) => TablesSought(q, x)
    BY <2>1, TablesFound
  <2>4. \A x \in DOMAIN TableInfo : TablesSought(q, x) => TablesWanted(q, x)
    BY <2>1, TablesMeant
  <2> QED BY <1>1, <2>2, <2>3, <2>4 DEF TablesExact
<1>3. ASSUME Returned("columns")
      PROVE  /\ \A x \in seen.always :
                  ColumnsWanted(q, x) /\ InItsCase(q, x) /\ ~LaterMatchesLost(q, x) =>
                    ColumnNames(Of(x)) = FieldNames(FieldsWanted(q, x))
             /\ \A i \in DOMAIN rows :
                  /\ rows[i].table \in seen.ever
                  /\ ColumnsWanted(q, rows[i].table) \/ DefaultAsPattern(q, rows[i].table)
                  /\ \E f \in Range(FieldsWanted(q, rows[i].table)) : f.name = rows[i].column
  <2>1. /\ q \in Calls /\ q.fn = "columns" /\ config.dsn \in Dsns /\ Args = ColumnsArgs(q)
    BY <1>3, ArgumentsRead DEF Returned, Args, SUCCESS
  <2>2. ColumnsExact
    BY <1>3 DEF EndInv, ListsSought
  <2>3. ASSUME NEW x \in seen.always, ColumnsWanted(q, x), InItsCase(q, x), ~LaterMatchesLost(q, x)
        PROVE  ColumnNames(Of(x)) = FieldNames(FieldsWanted(q, x))
    <3>1. Of(x) = ProcessTableResults(Args, x)
      BY <2>1, <2>2, <2>3, ColumnsFound DEF ColumnsExact
    <3> QED BY <1>1, <2>1, <2>3, <3>1, ColumnsShown
  <2>4. ASSUME NEW i \in DOMAIN rows
        PROVE  /\ rows[i].table \in seen.ever
               /\ ColumnsWanted(q, rows[i].table) \/ DefaultAsPattern(q, rows[i].table)
               /\ \E f \in Range(FieldsWanted(q, rows[i].table)) : f.name = rows[i].column
    <3> DEFINE r == rows[i]
               x == r.table
               fields == TableInfo[x].columns
    <3>1. /\ x \in seen.ever /\ ColumnsSought(q, x) /\ ShowsAMatch(Args, r, x)
      BY <2>2 DEF ColumnsExact
    <3>2. ColumnsWanted(q, x) \/ DefaultAsPattern(q, x)
      BY <2>1, <3>1, ColumnsMeant
    <3>3. PICK k \in DOMAIN fields :
            /\ EveryColumn(q) \/ Named(q.column, fields[k].name, q.metadata_id)
            /\ r.column = fields[k].name
      BY <2>1, <3>1, ColumnArgument DEF ShowsAMatch
    <3>4. fields[k] \in Range(FieldsWanted(q, x))
      <4>1. fields \in Seq([name : STRING, type : RestTypes, mode : STRING,
                            precision : Nat, scale : Nat, max_length : Nat])
        BY <1>1, <3>1, FieldsAssumption
      <4> HIDE DEF fields
      <4>2. IsSeq(fields) /\ fields[k] \in Range(fields)
        BY <4>1, SeqOfAny DEF Range
      <4>3. \A S : Range(Selected(fields, S)) = Range(fields) \cap S
        BY <4>2, SelectedSeq
      <4>4. FieldsWanted(q, x) =
              IF EveryColumn(q) THEN fields
              ELSE Selected(fields, {f \in Range(fields) : Named(q.column, f.name, q.metadata_id)})
        BY DEF FieldsWanted, fields
      <4> QED BY <3>3, <4>2, <4>3, <4>4
    <3> QED BY <3>1, <3>2, <3>3, <3>4
  <2> QED BY <2>3, <2>4
<1> QED BY <1>2, <1>3 DEF ExactListing, TableNamed, Asked, ColumnNames, FieldNames

LEMMA FailuresTold ==
  ASSUME CallInv, EndInv
  PROVE  FailuresReported
<1>1. ASSUME Idle, answer.code = ERROR, Asked.fn = "columns", ~Explained,
             NEW x \in seen.always, ColumnsWanted(Asked, x), InItsCase(Asked, x)
      PROVE  FieldsWanted(Asked, x) = <<>>
  <2>1. Asked \in Calls /\ config.dsn \in Dsns /\ Args = ColumnsArgs(Asked)
    BY <1>1, ArgumentsRead DEF ERROR
  <2>2. ColumnsSought(Asked, x)
    BY <1>1, <2>1, ColumnsFound
  <2>3. ProcessTableResults(Args, x) = <<>>
    BY <1>1, <2>2 DEF EndInv, Reported
  <2>4. x \in DOMAIN TableInfo
    BY <1>1 DEF CallInv, Sees
  <2> QED BY <1>1, <2>1, <2>3, <2>4, ColumnsShown
<1>2. Idle => Reported
  BY DEF EndInv
<1> QED BY <1>1, <1>2 DEF FailuresReported, Reported, Explained, Asked

\* SQLTables and SQLColumns list every object that is asked for and visible
\* all the time, once, and nothing else, whatever becomes of the others in
\* BigQuery and in whatever order the threads are answered, but for the
\* departures that ExactListing names.
THEOREM ListsExactly == Spec => []ExactListing
  BY ListsExact, EndAlways, CallInvAlways, PTL

\* The rows of SQLColumns come in the order of BigQuery's lists and of the
\* columns of a table, with any number of threads.
THEOREM ListsInOrder == Spec => []ColumnsInOrder
<1>1. EndInv => ColumnsInOrder
  BY DEF EndInv
<1> QED BY <1>1, EndAlways, PTL

\* SQL_SUCCESS hides no failed request of any round, and an object that
\* vanishes between two rounds does not fail the call.
THEOREM ReportsFailures == Spec => []FailuresReported
  BY FailuresTold, EndAlways, CallInvAlways, PTL

\* SQLColumns, SQLGetTypeInfo and the descriptor of a result set give a column
\* the same SQL type, for every type of BigQuery, and the same size where
\* DescribedAlike compares it.
THEOREM DescribesAlike == Spec => []DescribedAlike
<1>1. EndInv => DescribedAlike
  BY DEF EndInv
<1> QED BY <1>1, EndAlways, PTL

=============================================================================
