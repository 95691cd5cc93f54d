--------------------------- MODULE KvStoreProofs ----------------------------
(***************************************************************************)
(* Theorems about KvStore for all values of its constants: its types, that *)
(* its index is the one its records rebuild, that what is read is what was *)
(* written, and that the store implements AppliedStore.                    *)
(***************************************************************************)
EXTENDS KvStore, FiniteSetTheorems, WellFoundedInduction, TLAPS

-----------------------------------------------------------------------------
(* Numbers and recursive functions over them.                              *)

LEMMA Smallest ==
  ASSUME NEW S \in SUBSET Nat, S # {}
  PROVE  \E x \in S : \A y \in S : x <= y
<1> DEFINE R == { p \in Nat \X Nat : p[1] < p[2] }
<1>1. IsWellFoundedOn(R, Nat)
  BY NatLessThanWellFounded, Zenon DEF OpToRel
<1>2. PICK x \in S : \A y \in S : <<y, x>> \notin R
  BY <1>1, WFMin
<1>3. ASSUME NEW y \in S, y < x PROVE FALSE
  <2>1. <<y, x>> \in R
    BY <1>3
  <2> QED
    BY <1>2, <2>1
<1> HIDE DEF R
<1> QED
  BY <1>3

(* What holds of 0 and is handed on holds up to n.                         *)
LEMMA Climb ==
  ASSUME NEW n \in Nat, NEW P, 0 \in P,
         \A i \in 1..n : i - 1 \in P => i \in P
  PROVE  \A i \in 0..n : i \in P
<1> DEFINE Bad == { i \in 0..n : i \notin P }
<1> SUFFICES ASSUME Bad # {} PROVE FALSE
  OBVIOUS
<1>1. Bad \in SUBSET Nat
  OBVIOUS
<1>2. PICK i \in Bad : \A j \in Bad : i <= j
  BY <1>1, Smallest
<1>3. i \in 0..n /\ i \notin P /\ i # 0
  OBVIOUS
<1>4. i \in 1..n /\ i - 1 \in 0..n /\ ~(i <= i - 1)
  BY <1>3
<1>5. i - 1 \in P
  BY <1>2, <1>4
<1> QED
  BY <1>3, <1>4, <1>5

LEMMA Largest ==
  ASSUME NEW S \in SUBSET Nat, S # {}, NEW n \in Nat, \A x \in S : x <= n
  PROVE  Max(S) \in S /\ \A y \in S : y <= Max(S)
<1> DEFINE U == { u \in 0..n : \A y \in S : y <= u }
<1>1. n \in U /\ U \in SUBSET Nat
  OBVIOUS
<1>2. PICK u \in U : \A v \in U : u <= v
  BY <1>1, Smallest
<1>3. u \in S
  <2> SUFFICES ASSUME u \notin S PROVE FALSE
    OBVIOUS
  <2>1. PICK y \in S : TRUE
    OBVIOUS
  <2>2. u > 0 /\ \A x \in S : x <= u - 1
    BY <1>2, <2>1
  <2>3. u - 1 \in U
    BY <1>2, <2>2
  <2> QED
    BY <1>2, <2>3
<1> QED
  BY <1>2, <1>3 DEF Max

(* What makes a step, and the function of steps from a first value.        *)
Steps(S, n) == [(1..n) \X S -> S]

Runs(S, n, a, F) ==
  \E g \in [0..n -> S] : g[0] = a /\ \A i \in 1..n : g[i] = F[<<i, g[i - 1]>>]

LEMMA Iterated ==
  ASSUME NEW S, NEW n \in Nat, NEW a \in S, NEW F \in Steps(S, n)
  PROVE  Runs(S, n, a, F)
<1> USE DEF Steps
<1> DEFINE Reaches(m) == \E g \in [0..m -> S] :
                           g[0] = a /\ \A i \in 1..m : g[i] = F[<<i, g[i - 1]>>]
           P == { m \in 0..n : Reaches(m) }
<1>1. Reaches(0)
  <2> DEFINE g == [i \in 0..0 |-> a]
  <2>1. g \in [0..0 -> S] /\ g[0] = a /\ 1..0 = {}
    OBVIOUS
  <2> QED
    BY <2>1
<1>2. ASSUME NEW m \in 1..n, Reaches(m - 1) PROVE Reaches(m)
  <2>1. PICK g \in [0..m - 1 -> S] :
          g[0] = a /\ \A i \in 1..m - 1 : g[i] = F[<<i, g[i - 1]>>]
    BY <1>2
  <2> DEFINE h == [i \in 0..m |-> IF i = m THEN F[<<m, g[m - 1]>>] ELSE g[i]]
  <2>2. h \in [0..m -> S] /\ h[0] = a /\ h[m] = F[<<m, g[m - 1]>>]
    BY <2>1
  <2>3. \A i \in 0..m - 1 : h[i] = g[i]
    OBVIOUS
  <2> HIDE DEF h
  <2>4. \A i \in 1..m : h[i] = F[<<i, h[i - 1]>>]
    <3> SUFFICES ASSUME NEW i \in 1..m PROVE h[i] = F[<<i, h[i - 1]>>]
      OBVIOUS
    <3>1. i - 1 \in 0..m - 1 /\ h[i - 1] = g[i - 1]
      BY <2>3
    <3>2. CASE i = m
      BY <2>2, <3>1, <3>2
    <3>3. CASE i # m
      <4>1. i \in 1..m - 1 /\ i \in 0..m - 1
        BY <3>3
      <4> QED
        BY <2>1, <2>3, <3>1, <4>1
    <3> QED
      BY <3>2, <3>3
  <2> QED
    BY <2>2, <2>4
<1> HIDE DEF Reaches
<1>3. 0 \in P /\ \A i \in 1..n : i - 1 \in P => i \in P
  BY <1>1, <1>2
<1> HIDE DEF P
<1>4. n \in P
  BY <1>3, Climb, n \in 0..n
<1>5. Reaches(n)
  BY <1>4 DEF P
<1> QED
  BY <1>5 DEF Reaches, Runs

(* What holds of the elements is not said with EXCEPT: a sequence and what *)
(* it was cut from, place by place.                                        *)
LEMMA SelectedEnd ==
  ASSUME NEW E, NEW seq \in Seq(E), NEW a \in 0..Len(seq), NEW places,
         \A i \in 1..Len(seq) : i \in places <=> i > a
  PROVE  /\ Selected(seq, places) \in Seq(E)
         /\ Len(Selected(seq, places)) = Len(seq) - a
         /\ \A j \in 1..Len(seq) - a : Selected(seq, places)[j] = seq[a + j]
<1> DEFINE n == Len(seq)
           B(u, i) == IF i = 0 THEN <<>>
                      ELSE IF i \in places THEN Append(u[i - 1], seq[i]) ELSE u[i - 1]
           upto == CHOOSE u : u = [i \in 0..n |-> B(u, i)]
           F == [p \in (1..n) \X Seq(E) |->
                   IF p[1] \in places THEN Append(p[2], seq[p[1]]) ELSE p[2]]
<1>1. n \in Nat /\ \A i \in 1..n : seq[i] \in E
  OBVIOUS
<1>2. PICK g \in [0..n -> Seq(E)] :
        g[0] = <<>> /\ \A i \in 1..n : g[i] = F[<<i, g[i - 1]>>]
  <2>1. F \in [(1..n) \X Seq(E) -> Seq(E)]
    <3> SUFFICES ASSUME NEW p \in (1..n) \X Seq(E)
                 PROVE  (IF p[1] \in places THEN Append(p[2], seq[p[1]]) ELSE p[2]) \in Seq(E)
      OBVIOUS
    <3>1. p[1] \in 1..n /\ p[2] \in Seq(E)
      OBVIOUS
    <3> DEFINE i == p[1]
               x == p[2]
    <3> HIDE DEF i, x
    <3>2. i \in 1..n /\ x \in Seq(E)
      BY <3>1 DEF i, x
    <3>3. Append(x, seq[i]) \in Seq(E)
      BY <1>1, <3>2
    <3>4. (IF i \in places THEN Append(x, seq[i]) ELSE x) \in Seq(E)
      BY <3>2, <3>3
    <3> QED
      BY <3>4 DEF i, x
  <2>2. F \in Steps(Seq(E), n) /\ n \in Nat
    BY <1>1, <2>1 DEF Steps
  <2>3. <<>> \in Seq(E)
    OBVIOUS
  <2> HIDE DEF F, n
  <2>4. Runs(Seq(E), n, <<>>, F)
    BY <2>2, <2>3, Iterated
  <2> QED
    BY <2>4 DEF Runs
<1>3. \A i \in 1..n : g[i] = IF i \in places THEN Append(g[i - 1], seq[i]) ELSE g[i - 1]
  <2> SUFFICES ASSUME NEW i \in 1..n
               PROVE  g[i] = IF i \in places THEN Append(g[i - 1], seq[i]) ELSE g[i - 1]
    OBVIOUS
  <2>1. i - 1 \in 0..n
    BY <1>1
  <2>2. g[i - 1] \in Seq(E)
    BY <1>2, <2>1
  <2> DEFINE x == g[i - 1]
  <2>3. g[i] = F[<<i, x>>]
    BY <1>2
  <2>4. x \in Seq(E)
    BY <2>2
  <2> HIDE DEF x
  <2>5. F[<<i, x>>] = IF i \in places THEN Append(x, seq[i]) ELSE x
    BY <2>4
  <2> QED
    BY <2>3, <2>5 DEF x
<1>4. g = [i \in 0..n |-> B(g, i)]
  <2>1. g = [i \in 0..n |-> g[i]]
    BY <1>2
  <2>2. \A i \in 0..n : g[i] = B(g, i)
    <3> HIDE DEF n
    <3>1. g[0] = B(g, 0)
      BY <1>2
    <3>2. \A i \in 1..n : g[i] = B(g, i)
      BY <1>3
    <3> QED
      <4>1. \A i \in 0..n : i = 0 \/ i \in 1..n
        BY <1>1
      <4> HIDE DEF B
      <4> QED
        BY <3>1, <3>2, <4>1
  <2> QED
    BY <2>1, <2>2
<1>5. upto = [i \in 0..n |-> B(upto, i)]
  BY <1>4
<1>6. Selected(seq, places) = upto[n]
  BY DEF Selected
<1> HIDE DEF upto
<1>7. /\ upto[0] = <<>>
      /\ \A i \in 1..n : upto[i] = IF i \in places THEN Append(upto[i - 1], seq[i]) ELSE upto[i - 1]
  <2>1. \A i \in 0..n : upto[i] = B(upto, i)
    BY <1>5
  <2> QED
    BY <1>1, <2>1
<1> DEFINE Good(u, i) == /\ u \in Seq(E)
                         /\ Len(u) = IF i <= a THEN 0 ELSE i - a
                         /\ \A j \in 1..Len(u) : u[j] = seq[a + j]
           P == { i \in 0..n : Good(upto[i], i) }
<1>8. Good(upto[0], 0)
  BY <1>7
<1>9. ASSUME NEW i \in 1..n, Good(upto[i - 1], i - 1) PROVE Good(upto[i], i)
  <2> DEFINE u == upto[i - 1]
  <2>1. CASE i > a
    <3>1. upto[i] = Append(u, seq[i])
      BY <1>7, <2>1
    <3>2. u \in Seq(E) /\ Len(u) = i - 1 - a /\ seq[i] \in E /\ a \in Nat
      BY <1>1, <1>9, <2>1
    <3>3. \A j \in 1..Len(u) : u[j] = seq[a + j]
      BY <1>9
    <3> HIDE DEF u
    <3> DEFINE v == Append(u, seq[i])
    <3>4. v \in Seq(E) /\ Len(v) = Len(u) + 1 /\ v[Len(u) + 1] = seq[i]
          /\ \A j \in 1..Len(u) : v[j] = u[j]
      BY <3>2
    <3> HIDE DEF v
    <3>5. \A j \in 1..Len(v) : v[j] = seq[a + j]
      <4> SUFFICES ASSUME NEW j \in 1..Len(v) PROVE v[j] = seq[a + j]
        OBVIOUS
      <4>1. CASE j = Len(u) + 1
        <5>1. a + j = i
          BY <3>2, <4>1
        <5> QED
          BY <3>4, <4>1, <5>1
      <4>2. CASE j # Len(u) + 1
        <5>1. j \in 1..Len(u)
          BY <3>2, <3>4, <4>2
        <5> QED
          BY <3>3, <3>4, <5>1
      <4> QED
        BY <4>1, <4>2
    <3>6. upto[i] = v
      BY <3>1 DEF v
    <3>7. v \in Seq(E) /\ Len(v) = IF i <= a THEN 0 ELSE i - a
      BY <2>1, <3>2, <3>4
    <3> QED
      BY <3>5, <3>6, <3>7
  <2>2. CASE ~(i > a)
    <3>1. upto[i] = upto[i - 1]
      BY <1>1, <1>7, <2>2
    <3>2. i <= a /\ i - 1 <= a
      BY <1>1, <2>2
    <3> QED
      BY <1>9, <3>1, <3>2
  <2> QED
    BY <2>1, <2>2
<1> HIDE DEF Good
<1>10. 0 \in P /\ \A i \in 1..n : i - 1 \in P => i \in P
  BY <1>1, <1>8, <1>9
<1> HIDE DEF P
<1>11. n \in P
  BY <1>1, <1>10, Climb, n \in 0..n
<1>12. Good(upto[n], n)
  BY <1>11 DEF P
<1> QED
  BY <1>1, <1>6, <1>12 DEF Good

-----------------------------------------------------------------------------
(* Histories, by their places: a generation and an index into it.          *)

Size(h, g) == Len(h[g].revs)
Rev(h, g, i) == h[g].revs[i]
Shut(h, g) == h[g].closed
Born(h, g) == h[g].created
Count(h, g) == h[g].ver

(* The place of a deletion. *)
Tomb(h, g, i) == Shut(h, g) /\ i = Size(h, g)

(* Generations end in a deletion, all but the last one; they have a put    *)
(* before it, and revisions ascend through them.                           *)
Ordered(h) ==
  /\ h \in Seq(Generation)
  /\ \A g \in 1..Len(h) :
       /\ Shut(h, g) => Size(h, g) >= 2
       /\ g < Len(h) => Shut(h, g)
  /\ \A g, f \in 1..Len(h) : \A i \in 1..Size(h, g), j \in 1..Size(h, f) :
       g < f \/ (g = f /\ i < j) => Rev(h, g, i) < Rev(h, f, j)

(* A revision is listed, as a put or as a deletion. *)
Lists(h, q, deletion) ==
  \E g \in 1..Len(h) : \E i \in 1..Size(h, g) :
    Rev(h, g, i) = q /\ (deletion <=> Tomb(h, g, i))

Located(h, at, g, i) ==
  /\ g \in 1..Len(h) /\ i \in 1..Size(h, g)
  /\ Rev(h, g, i) <= at /\ ~Tomb(h, g, i)
  /\ i < Size(h, g) => Rev(h, g, i + 1) > at
  /\ g < Len(h) => Rev(h, g + 1, 1) > at

(* A read at a revision finds this one. *)
Finds(h, at, q) == \E g, i \in Nat : Located(h, at, g, i) /\ Rev(h, g, i) = q

Observed(h, g, i) ==
  [modified |-> Rev(h, g, i), created |-> Born(h, g),
   version |-> Count(h, g) - (Size(h, g) - i)]

LEMMA Parts ==
  ASSUME NEW h \in Seq(Generation)
  PROVE  /\ Len(h) \in Nat /\ DOMAIN h = 1..Len(h)
         /\ \A g \in 1..Len(h) :
              /\ h[g] \in Generation
              /\ h[g].revs \in Seq(Nat) /\ DOMAIN h[g].revs = 1..Size(h, g)
              /\ Size(h, g) \in Nat \ {0} /\ Shut(h, g) \in BOOLEAN
              /\ Born(h, g) \in Nat /\ Count(h, g) \in Nat
              /\ \A i \in 1..Size(h, g) : Rev(h, g, i) \in Nat
<1>1. Len(h) \in Nat /\ DOMAIN h = 1..Len(h) /\ \A g \in 1..Len(h) : h[g] \in Generation
  OBVIOUS
<1> SUFFICES ASSUME NEW g \in 1..Len(h)
             PROVE  /\ h[g].revs \in Seq(Nat) /\ DOMAIN h[g].revs = 1..Size(h, g)
                    /\ Size(h, g) \in Nat \ {0} /\ Shut(h, g) \in BOOLEAN
                    /\ Born(h, g) \in Nat /\ Count(h, g) \in Nat
                    /\ \A i \in 1..Size(h, g) : Rev(h, g, i) \in Nat
  BY <1>1
<1> DEFINE x == h[g]
<1>2. x \in Generation
  BY <1>1
<1> HIDE DEF x
<1>3. /\ x.revs \in Seq(Nat) /\ x.revs # <<>> /\ x.closed \in BOOLEAN
      /\ x.created \in Nat /\ x.ver \in Nat
  BY <1>2 DEF Generation, Revision
<1> DEFINE s == x.revs
<1>4. s \in Seq(Nat) /\ s # <<>>
  BY <1>3
<1> HIDE DEF s
<1>5. /\ Len(s) \in Nat /\ Len(s) # 0 /\ DOMAIN s = 1..Len(s)
      /\ \A i \in 1..Len(s) : s[i] \in Nat
  BY <1>4
<1> QED
  BY <1>3, <1>5 DEF x, s, Size, Rev, Shut, Born, Count

(* What is ascending counts its places below a bound. *)
LEMMA CountBelow ==
  ASSUME NEW s \in Seq(Nat), NEW at \in Nat, NEW c \in 1..Len(s),
         \A i, j \in 1..Len(s) : i < j => s[i] < s[j],
         s[c] <= at, c < Len(s) => s[c + 1] > at
  PROVE  Cardinality({ j \in DOMAIN s : s[j] <= at }) = c
<1>1. Len(s) \in Nat /\ DOMAIN s = 1..Len(s) /\ \A j \in 1..Len(s) : s[j] \in Nat
  OBVIOUS
<1>2. \A j \in 1..Len(s) : s[j] <= at <=> j <= c
  <2> SUFFICES ASSUME NEW j \in 1..Len(s) PROVE s[j] <= at <=> j <= c
    OBVIOUS
  <2>1. CASE j <= c
    <3>1. j = c \/ s[j] < s[c]
      BY <1>1, <2>1
    <3> QED
      BY <1>1, <2>1, <3>1
  <2>2. CASE j > c
    <3>1. c + 1 \in 1..Len(s) /\ s[c + 1] > at
      BY <1>1, <2>2
    <3>2. j = c + 1 \/ s[c + 1] < s[j]
      BY <1>1, <2>2, <3>1
    <3> QED
      BY <1>1, <2>2, <3>1, <3>2
  <2> QED
    BY <1>1, <2>1, <2>2
<1>3. { j \in DOMAIN s : s[j] <= at } = 1..c
  BY <1>1, <1>2
<1>4. Cardinality(1..c) = c
  BY FS_Interval
<1> QED
  BY <1>3, <1>4

LEMMA LastBelow ==
  ASSUME NEW s \in Seq(Nat), NEW at \in Nat, s # <<>>,
         \A i, j \in 1..Len(s) : i < j => s[i] < s[j], s[1] <= at
  PROVE  \E c \in 1..Len(s) : s[c] <= at /\ (c < Len(s) => s[c + 1] > at)
<1>1. Len(s) \in Nat /\ Len(s) # 0 /\ \A j \in 1..Len(s) : s[j] \in Nat
  OBVIOUS
<1> DEFINE T == { j \in 1..Len(s) : s[j] <= at }
<1>2. T \in SUBSET Nat /\ 1 \in T /\ \A j \in T : j <= Len(s)
  BY <1>1
<1> DEFINE c == Max(T)
<1>3. c \in T /\ \A y \in T : y <= c
  <2> HIDE DEF T
  <2> QED
    BY <1>1, <1>2, Largest
<1> HIDE DEF c
<1>4. c \in 1..Len(s) /\ s[c] <= at
  BY <1>3
<1>5. c < Len(s) => s[c + 1] > at
  <2> SUFFICES ASSUME c < Len(s), ~(s[c + 1] > at) PROVE FALSE
    OBVIOUS
  <2>1. c + 1 \in 1..Len(s) /\ s[c + 1] \in Nat
    BY <1>1, <1>4
  <2>2. c + 1 \in T
    BY <2>1
  <2> QED
    BY <1>3, <1>4, <2>2
<1> QED
  BY <1>4, <1>5

LEMMA LocateIs ==
  ASSUME NEW h, Ordered(h), NEW at \in Nat, NEW p
  PROVE  p \in Locate(h, at) <=>
           \E g, i \in Nat : p = <<g, i>> /\ Located(h, at, g, i)
<1>1. h \in Seq(Generation)
  BY DEF Ordered
<1>2. /\ Len(h) \in Nat /\ DOMAIN h = 1..Len(h)
      /\ \A g \in 1..Len(h) :
           /\ h[g].revs \in Seq(Nat) /\ DOMAIN h[g].revs = 1..Size(h, g)
           /\ Size(h, g) \in Nat \ {0}
           /\ \A i \in 1..Size(h, g) : Rev(h, g, i) \in Nat
  BY <1>1, Parts
<1> DEFINE C(g) == Cardinality({ j \in DOMAIN h[g].revs : h[g].revs[j] <= at })
           G(n) == /\ Rev(h, n, 1) <= at
                   /\ \A m \in 1..Len(h) : m > n => Rev(h, m, 1) > at
                   /\ Shut(h, n) => Rev(h, n, Size(h, n)) > at
<1>3. p \in Locate(h, at) <=> \E g \in 1..Len(h) : G(g) /\ p = <<g, C(g)>>
  BY <1>2 DEF Locate, Rev, Shut, Size, Last
<1>4. ASSUME NEW g \in 1..Len(h)
      PROVE  \A i, j \in 1..Len(h[g].revs) : i < j => h[g].revs[i] < h[g].revs[j]
  BY <1>2 DEF Ordered, Rev, Size
<1>5. ASSUME NEW g \in 1..Len(h), G(g)
      PROVE  C(g) \in Nat /\ Located(h, at, g, C(g))
  <2> DEFINE s == h[g].revs
  <2>1. s \in Seq(Nat) /\ Len(s) \in Nat \ {0} /\ s[1] <= at
    BY <1>2, <1>5 DEF Rev, Size
  <2>2. \A i, j \in 1..Len(s) : i < j => s[i] < s[j]
    BY <1>4
  <2> HIDE DEF s
  <2>3. PICK c \in 1..Len(s) : s[c] <= at /\ (c < Len(s) => s[c + 1] > at)
    <3>1. s # <<>>
      BY <2>1
    <3> QED
      BY <2>1, <2>2, <3>1, LastBelow
  <2>4. Cardinality({ j \in DOMAIN s : s[j] <= at }) = c
    BY <2>1, <2>2, <2>3, CountBelow
  <2>5. C(g) = c
    BY <2>4 DEF s
  <2>6. /\ c \in 1..Size(h, g) /\ c \in Nat /\ Rev(h, g, c) <= at
        /\ c < Size(h, g) => Rev(h, g, c + 1) > at
    BY <2>1, <2>3 DEF s, Rev, Size
  <2>7. ~Tomb(h, g, c)
    <3>1. Rev(h, g, c) \in Nat
      BY <1>2, <2>6
    <3> QED
      BY <1>5, <2>6, <3>1 DEF Tomb
  <2>8. g < Len(h) => Rev(h, g + 1, 1) > at
    BY <1>2, <1>5
  <2> HIDE DEF C, G
  <2> QED
    BY <2>5, <2>6, <2>7, <2>8 DEF Located
<1>6. ASSUME NEW g \in Nat, NEW i \in Nat, Located(h, at, g, i)
      PROVE  g \in 1..Len(h) /\ G(g) /\ C(g) = i
  <2>1. /\ g \in 1..Len(h) /\ i \in 1..Size(h, g) /\ Rev(h, g, i) <= at /\ ~Tomb(h, g, i)
        /\ i < Size(h, g) => Rev(h, g, i + 1) > at
        /\ g < Len(h) => Rev(h, g + 1, 1) > at
    BY <1>6 DEF Located
  <2>2. Rev(h, g, 1) <= at
    <3>1. i = 1 \/ Rev(h, g, 1) < Rev(h, g, i)
      BY <1>2, <2>1, SMTT(30) DEF Ordered
    <3>2. Rev(h, g, 1) \in Nat /\ Rev(h, g, i) \in Nat
      BY <1>2, <2>1
    <3> QED
      BY <2>1, <3>1, <3>2
  <2>3. ASSUME NEW m \in 1..Len(h), m > g PROVE Rev(h, m, 1) > at
    <3>1. g + 1 \in 1..Len(h) /\ Rev(h, g + 1, 1) > at
      BY <1>2, <2>1, <2>3
    <3>2. m = g + 1 \/ Rev(h, g + 1, 1) < Rev(h, m, 1)
      <4>1. m = g + 1 \/ g + 1 < m
        BY <1>2, <2>1, <2>3
      <4>2. 1 \in 1..Size(h, g + 1) /\ 1 \in 1..Size(h, m)
        BY <1>2, <3>1
      <4> QED
        BY <2>3, <3>1, <4>1, <4>2 DEF Ordered
    <3>3. Rev(h, m, 1) \in Nat /\ Rev(h, g + 1, 1) \in Nat
      BY <1>2, <3>1
    <3> QED
      BY <3>1, <3>2, <3>3
  <2>4. Shut(h, g) => Rev(h, g, Size(h, g)) > at
    <3> SUFFICES ASSUME Shut(h, g) PROVE Rev(h, g, Size(h, g)) > at
      OBVIOUS
    <3>1. i + 1 \in 1..Size(h, g) /\ Size(h, g) \in 1..Size(h, g) /\ Rev(h, g, i + 1) > at
      BY <1>2, <2>1 DEF Tomb
    <3>2. i + 1 = Size(h, g) \/ Rev(h, g, i + 1) < Rev(h, g, Size(h, g))
      BY <1>2, <2>1, <3>1 DEF Ordered
    <3>3. Rev(h, g, i + 1) \in Nat /\ Rev(h, g, Size(h, g)) \in Nat
      BY <1>2, <2>1, <3>1
    <3> QED
      BY <3>1, <3>2, <3>3
  <2>5. C(g) = i
    <3> DEFINE s == h[g].revs
    <3>1. s \in Seq(Nat) /\ i \in 1..Len(s) /\ s[i] <= at /\ (i < Len(s) => s[i + 1] > at)
      BY <1>2, <2>1 DEF Rev, Size
    <3>2. \A n, j \in 1..Len(s) : n < j => s[n] < s[j]
      BY <1>4, <2>1
    <3> HIDE DEF s
    <3>3. Cardinality({ j \in DOMAIN s : s[j] <= at }) = i
      BY <3>1, <3>2, CountBelow
    <3> QED
      BY <3>3 DEF s
  <2> QED
    BY <2>1, <2>2, <2>3, <2>4, <2>5
<1> HIDE DEF C, G
<1>7. \A g \in 1..Len(h) : g \in Nat
  BY <1>2
<1> QED
  BY <1>3, <1>5, <1>6, <1>7

LEMMA FoundIs ==
  ASSUME NEW h, Ordered(h), NEW at \in Nat, NEW x
  PROVE  x \in Found(h, at) <=>
           \E g, i \in Nat : Located(h, at, g, i) /\ x = Observed(h, g, i)
<1> DEFINE O(p) == LET gen == h[p[1]] IN
                   [modified |-> gen.revs[p[2]], created |-> gen.created,
                    version |-> gen.ver - (Len(gen.revs) - p[2])]
<1>1. x \in Found(h, at) <=> \E p \in Locate(h, at) : x = O(p)
  BY DEF Found
<1>2. \A g, i \in Nat : O(<<g, i>>) = Observed(h, g, i)
  BY DEF Observed, Rev, Born, Count, Size
<1> HIDE DEF O
<1>3. \A p : p \in Locate(h, at) <=> \E g, i \in Nat : p = <<g, i>> /\ Located(h, at, g, i)
  BY LocateIs
<1>4. ASSUME x \in Found(h, at)
      PROVE  \E g, i \in Nat : Located(h, at, g, i) /\ x = Observed(h, g, i)
  <2>1. PICK p \in Locate(h, at) : x = O(p)
    BY <1>1, <1>4
  <2>2. PICK g \in Nat, i \in Nat : p = <<g, i>> /\ Located(h, at, g, i)
    BY <1>3, <2>1
  <2> QED
    BY <1>2, <2>1, <2>2
<1>5. ASSUME NEW g \in Nat, NEW i \in Nat, Located(h, at, g, i), x = Observed(h, g, i)
      PROVE  x \in Found(h, at)
  <2>1. <<g, i>> \in Locate(h, at)
    BY <1>3, <1>5
  <2> QED
    BY <1>1, <1>2, <1>5, <2>1
<1> QED
  BY <1>4, <1>5

(* What an order of places says, place against place. *)
LEMMA Apart ==
  ASSUME NEW h, Ordered(h),
         NEW g \in 1..Len(h), NEW i \in 1..Size(h, g),
         NEW f \in 1..Len(h), NEW j \in 1..Size(h, f)
  PROVE  /\ Rev(h, g, i) \in Nat /\ Rev(h, f, j) \in Nat
         /\ g \in Nat /\ i \in Nat /\ Size(h, g) \in Nat /\ Len(h) \in Nat
         /\ Rev(h, g, i) < Rev(h, f, j) <=> (g < f \/ (g = f /\ i < j))
         /\ Rev(h, g, i) = Rev(h, f, j) <=> (g = f /\ i = j)
<1>1. h \in Seq(Generation)
  BY DEF Ordered
<1>2. /\ Rev(h, g, i) \in Nat /\ Rev(h, f, j) \in Nat /\ Size(h, g) \in Nat
      /\ Size(h, f) \in Nat /\ Len(h) \in Nat
  BY <1>1, Parts
<1>3. g < f \/ (g = f /\ i < j) => Rev(h, g, i) < Rev(h, f, j)
  BY DEF Ordered
<1>4. f < g \/ (f = g /\ j < i) => Rev(h, f, j) < Rev(h, g, i)
  BY DEF Ordered
<1> QED
  BY <1>2, <1>3, <1>4

LEMMA LocatedOnce ==
  ASSUME NEW h, Ordered(h), NEW at \in Nat,
         NEW g, NEW i, Located(h, at, g, i), NEW f \in 1..Len(h), NEW j \in 1..Size(h, f),
         Rev(h, f, j) <= at
  PROVE  Rev(h, f, j) <= Rev(h, g, i)
<1>1. /\ g \in 1..Len(h) /\ i \in 1..Size(h, g) /\ Rev(h, g, i) <= at
      /\ i < Size(h, g) => Rev(h, g, i + 1) > at
      /\ g < Len(h) => Rev(h, g + 1, 1) > at
  BY DEF Located
<1>2. h \in Seq(Generation)
  BY DEF Ordered
<1>3. /\ Len(h) \in Nat /\ Size(h, g) \in Nat \ {0} /\ Size(h, f) \in Nat \ {0}
      /\ g < Len(h) => Size(h, g + 1) \in Nat \ {0}
  <2>1. g < Len(h) => g + 1 \in 1..Len(h)
    BY <1>1
  <2> QED
    BY <1>1, <1>2, <2>1, Parts
<1> SUFFICES ASSUME ~(Rev(h, f, j) <= Rev(h, g, i)) PROVE FALSE
  OBVIOUS
<1>4. g < f \/ (g = f /\ i < j)
  BY <1>1, Apart
<1>5. CASE g < f
  <2>1. g + 1 \in 1..Len(h) /\ 1 \in 1..Size(h, g + 1) /\ Rev(h, g + 1, 1) > at
    BY <1>1, <1>3, <1>5
  <2>2. ~(Rev(h, f, j) < Rev(h, g + 1, 1)) /\ Rev(h, f, j) \in Nat /\ Rev(h, g + 1, 1) \in Nat
    <3>1. ~(f < g + 1) /\ ~(j < 1)
      BY <1>1, <1>3, <1>5
    <3> QED
      BY <2>1, <3>1, Apart
  <2> QED
    BY <2>1, <2>2
<1>6. CASE g = f /\ i < j
  <2>1. i + 1 \in 1..Size(h, g) /\ Rev(h, g, i + 1) > at
    BY <1>1, <1>3, <1>6
  <2>2. ~(Rev(h, f, j) < Rev(h, g, i + 1)) /\ Rev(h, f, j) \in Nat /\ Rev(h, g, i + 1) \in Nat
    <3>1. ~(j < i + 1) /\ ~(f < g)
      BY <1>1, <1>3, <1>6
    <3> QED
      BY <1>1, <2>1, <3>1, Apart
  <2> QED
    BY <2>1, <2>2
<1> QED
  BY <1>4, <1>5, <1>6

(* A read finds the last revision listed at or below its own, if that is   *)
(* a put.                                                                  *)
LEMMA FindsListed ==
  ASSUME NEW h, Ordered(h), NEW at \in Nat, NEW q
  PROVE  Finds(h, at, q) <=>
           /\ q \in Nat /\ q <= at /\ Lists(h, q, FALSE)
           /\ \A u \in q + 1..at : ~Lists(h, u, FALSE) /\ ~Lists(h, u, TRUE)
<1>1. h \in Seq(Generation)
  BY DEF Ordered
<1>2. /\ Len(h) \in Nat
      /\ \A g \in 1..Len(h) : /\ Size(h, g) \in Nat \ {0}
                              /\ \A i \in 1..Size(h, g) : Rev(h, g, i) \in Nat
  BY <1>1, Parts
<1>3. ASSUME NEW g \in Nat, NEW i \in Nat, Located(h, at, g, i), Rev(h, g, i) = q
      PROVE  /\ q \in Nat /\ q <= at /\ Lists(h, q, FALSE)
             /\ \A u \in q + 1..at : ~Lists(h, u, FALSE) /\ ~Lists(h, u, TRUE)
  <2>1. g \in 1..Len(h) /\ i \in 1..Size(h, g) /\ Rev(h, g, i) <= at /\ ~Tomb(h, g, i)
    BY <1>3 DEF Located
  <2>2. q \in Nat /\ q <= at /\ Lists(h, q, FALSE)
    BY <1>2, <1>3, <2>1 DEF Lists
  <2>3. ASSUME NEW u \in q + 1..at, NEW f \in 1..Len(h), NEW j \in 1..Size(h, f), Rev(h, f, j) = u
        PROVE  FALSE
    <3>1. Rev(h, f, j) <= at /\ Rev(h, f, j) > Rev(h, g, i)
      BY <1>3, <2>2, <2>3
    <3>2. Rev(h, f, j) <= Rev(h, g, i)
      BY <1>3, <3>1, LocatedOnce
    <3>3. u \in Nat
      BY <2>2
    <3> QED
      BY <1>3, <2>2, <2>3, <3>1, <3>2, <3>3
  <2> QED
    BY <2>2, <2>3 DEF Lists
<1>4. ASSUME q \in Nat, q <= at, Lists(h, q, FALSE),
             \A u \in q + 1..at : ~Lists(h, u, FALSE) /\ ~Lists(h, u, TRUE)
      PROVE  Finds(h, at, q)
  <2>0. PICK g \in 1..Len(h) : \E i \in 1..Size(h, g) : Rev(h, g, i) = q /\ ~Tomb(h, g, i)
    BY <1>4 DEF Lists, Tomb
  <2>1. PICK i \in 1..Size(h, g) : Rev(h, g, i) = q /\ ~Tomb(h, g, i)
    BY <2>0
  <2>2. ASSUME NEW f \in 1..Len(h), NEW j \in 1..Size(h, f), g < f \/ (g = f /\ i < j)
        PROVE  Rev(h, f, j) > at
    <3>1. Rev(h, f, j) > q /\ Rev(h, f, j) \in Nat
      BY <2>1, <2>2, Apart
    <3>2. Lists(h, Rev(h, f, j), FALSE) \/ Lists(h, Rev(h, f, j), TRUE)
      BY DEF Lists
    <3>3. Rev(h, f, j) \notin q + 1..at
      BY <1>4, <3>2
    <3> QED
      BY <1>4, <3>1, <3>3
  <2>3. i < Size(h, g) => Rev(h, g, i + 1) > at
    <3> SUFFICES ASSUME i < Size(h, g) PROVE Rev(h, g, i + 1) > at
      OBVIOUS
    <3>1. i + 1 \in 1..Size(h, g) /\ i < i + 1
      BY <1>2
    <3> QED
      BY <2>2, <3>1
  <2>4. g < Len(h) => Rev(h, g + 1, 1) > at
    <3> SUFFICES ASSUME g < Len(h) PROVE Rev(h, g + 1, 1) > at
      OBVIOUS
    <3>1. g + 1 \in 1..Len(h) /\ g < g + 1
      BY <1>2
    <3>2. 1 \in 1..Size(h, g + 1)
      BY <1>2, <3>1
    <3> QED
      BY <2>2, <3>1, <3>2
  <2>5. g \in Nat /\ i \in Nat
    BY <1>2
  <2>6. Located(h, at, g, i)
    BY <1>4, <2>1, <2>3, <2>4 DEF Located
  <2> QED
    BY <2>1, <2>5, <2>6 DEF Finds
<1> QED
  BY <1>3, <1>4 DEF Finds

-----------------------------------------------------------------------------
(* Recording one more revision.                                            *)

(* Two generations with the same revisions. *)
SameAt(h, g, k, f) ==
  /\ Size(k, f) = Size(h, g) /\ Shut(k, f) = Shut(h, g)
  /\ Born(k, f) = Born(h, g) /\ Count(k, f) = Count(h, g)
  /\ \A i \in 1..Size(h, g) : Rev(k, f, i) = Rev(h, g, i)

LEMMA SameGeneration ==
  ASSUME NEW h, NEW g, NEW k, NEW f, k[f] = h[g]
  PROVE  SameAt(h, g, k, f)
BY DEF SameAt, Size, Shut, Born, Count, Rev

(* The last generation takes a revision. *)
Joined(h, k, r, closed) ==
  /\ h # <<>> /\ ~Shut(h, Len(h))
  /\ Len(k) = Len(h)
  /\ \A g \in 1..Len(h) : g < Len(h) => SameAt(h, g, k, g)
  /\ Size(k, Len(h)) = Size(h, Len(h)) + 1
  /\ \A i \in 1..Size(h, Len(h)) : Rev(k, Len(h), i) = Rev(h, Len(h), i)
  /\ Rev(k, Len(h), Size(h, Len(h)) + 1) = r
  /\ Shut(k, Len(h)) = closed
  /\ Born(k, Len(h)) = Born(h, Len(h)) /\ Count(k, Len(h)) = Count(h, Len(h)) + 1

(* A generation begins with it. *)
Begun(h, k, r) ==
  /\ h # <<>> => Shut(h, Len(h))
  /\ Len(k) = Len(h) + 1
  /\ \A g \in 1..Len(h) : SameAt(h, g, k, g)
  /\ Size(k, Len(h) + 1) = 1 /\ Rev(k, Len(h) + 1, 1) = r
  /\ Shut(k, Len(h) + 1) = FALSE
  /\ Born(k, Len(h) + 1) = r /\ Count(k, Len(h) + 1) = 1

(* The history of one key after a record. *)
HistoryAfter(h, r, deletion) ==
  IF deletion THEN IF IsOpen(h) THEN Extended(h, r, TRUE) ELSE h
  ELSE IF IsOpen(h) THEN Extended(h, r, FALSE)
  ELSE Append(h, [created |-> r, ver |-> 1, revs |-> <<r>>, closed |-> FALSE])

LEMMA OpenIs ==
  ASSUME NEW h \in Seq(Generation)
  PROVE  IsOpen(h) <=> (h # <<>> /\ ~Shut(h, Len(h)))
BY DEF IsOpen, Shut, Last

LEMMA ExtendedJoins ==
  ASSUME NEW h \in Seq(Generation), IsOpen(h), NEW r \in Nat, NEW closed \in BOOLEAN
  PROVE  Extended(h, r, closed) \in Seq(Generation) /\ Joined(h, Extended(h, r, closed), r, closed)
<1> DEFINE n == Len(h)
           x == h[n]
           y == [created |-> x.created, ver |-> x.ver + 1,
                 revs |-> Append(x.revs, r), closed |-> closed]
           k == Extended(h, r, closed)
<1>1. h # <<>> /\ ~Shut(h, n)
  BY OpenIs
<1>2. n \in Nat /\ n \in 1..n /\ x \in Generation /\ DOMAIN h = 1..n
  BY <1>1
<1>3. k = [h EXCEPT ![n] = y]
  BY DEF Extended, Last
<1>4. x.created \in Nat /\ x.ver \in Nat /\ x.revs \in Seq(Nat)
  <2> HIDE DEF x
  <2> QED
    BY <1>2 DEF Generation, Revision
<1> DEFINE s == x.revs
           t == Append(s, r)
<1>6. s \in Seq(Nat)
  BY <1>4
<1> HIDE DEF s
<1>7. /\ t \in Seq(Nat) /\ t # <<>> /\ Len(t) = Len(s) + 1 /\ t[Len(s) + 1] = r
      /\ \A i \in 1..Len(s) : t[i] = s[i]
  BY <1>6
<1> HIDE DEF t
<1>8. y.created = x.created /\ y.ver = x.ver + 1 /\ y.revs = t /\ y.closed = closed
  BY DEF s, t
<1>9. y \in Generation
  <2>1. y = [created |-> x.created, ver |-> x.ver + 1, revs |-> t, closed |-> closed]
    BY DEF s, t
  <2> HIDE DEF y, x
  <2> QED
    BY <1>4, <1>7, <2>1 DEF Generation, Revision
<1> HIDE DEF y
<1>10. k \in Seq(Generation) /\ Len(k) = n /\ k[n] = y /\ \A g \in 1..n : g < n => k[g] = h[g]
  <2> HIDE DEF x, k, n
  <2>1. h \in Seq(Generation) /\ Len(h) = n
    BY DEF n
  <2>2. k \in Seq(Generation) /\ Len(k) = n
    BY <1>2, <1>3, <1>9, <2>1
  <2> QED
    BY <1>2, <1>3, <2>2
<1> HIDE DEF k
<1>11. \A g \in 1..n : g < n => SameAt(h, g, k, g)
  BY <1>10, SameGeneration
<1>12. Size(h, n) = Len(s)
  BY DEF Size, s
<1>13. /\ Size(k, n) = Len(t) /\ Shut(k, n) = closed /\ Born(k, n) = Born(h, n)
       /\ Count(k, n) = Count(h, n) + 1 /\ \A i : Rev(k, n, i) = t[i]
       /\ \A i : Rev(h, n, i) = s[i]
  BY <1>8, <1>10 DEF Size, Shut, Born, Count, Rev, s
<1>14. Joined(h, k, r, closed)
  BY <1>1, <1>7, <1>10, <1>11, <1>12, <1>13 DEF Joined
<1> QED
  BY <1>10, <1>14 DEF k

LEMMA AppendBegins ==
  ASSUME NEW h \in Seq(Generation), ~IsOpen(h), NEW r \in Nat
  PROVE  LET x == [created |-> r, ver |-> 1, revs |-> <<r>>, closed |-> FALSE]
         IN  Append(h, x) \in Seq(Generation) /\ Begun(h, Append(h, x), r)
<1> DEFINE x == [created |-> r, ver |-> 1, revs |-> <<r>>, closed |-> FALSE]
           k == Append(h, x)
<1>1. h # <<>> => Shut(h, Len(h))
  BY OpenIs
<1> DEFINE t == <<r>>
<1>2. t \in Seq(Nat) /\ t # <<>> /\ Len(t) = 1 /\ t[1] = r
  OBVIOUS
<1> HIDE DEF t
<1>3. x.created = r /\ x.ver = 1 /\ x.revs = t /\ x.closed = FALSE
  BY DEF t
<1>4. x \in Generation
  <2>1. x = [created |-> r, ver |-> 1, revs |-> t, closed |-> FALSE]
    BY DEF t
  <2> HIDE DEF x
  <2> QED
    BY <1>2, <2>1 DEF Generation, Revision
<1> HIDE DEF x
<1>5. /\ k \in Seq(Generation) /\ Len(k) = Len(h) + 1 /\ k[Len(h) + 1] = x
      /\ \A g \in 1..Len(h) : k[g] = h[g]
  BY <1>4
<1> HIDE DEF k
<1>6. \A g \in 1..Len(h) : SameAt(h, g, k, g)
  BY <1>5, SameGeneration
<1>7. /\ Size(k, Len(h) + 1) = Len(t) /\ Rev(k, Len(h) + 1, 1) = t[1]
      /\ Shut(k, Len(h) + 1) = FALSE /\ Born(k, Len(h) + 1) = r /\ Count(k, Len(h) + 1) = 1
  BY <1>3, <1>5 DEF Size, Shut, Born, Count, Rev
<1>8. Begun(h, k, r)
  BY <1>1, <1>2, <1>5, <1>6, <1>7 DEF Begun
<1> QED
  BY <1>5, <1>8 DEF k, x

(* The places after a record: those of before, and a last one.             *)
Grown(h, k, r, deletion) ==
  /\ Len(k) \in 1..Len(h) + 1 /\ Len(k) >= Len(h)
  /\ Rev(k, Len(k), Size(k, Len(k))) = r
  /\ deletion <=> Tomb(k, Len(k), Size(k, Len(k)))
  /\ \A g \in 1..Len(h) : \A i \in 1..Size(h, g) :
       /\ i <= Size(k, g) /\ g <= Len(k)
       /\ ~(g = Len(k) /\ i = Size(k, g))
       /\ Rev(k, g, i) = Rev(h, g, i) /\ (Tomb(k, g, i) <=> Tomb(h, g, i))
       /\ Observed(k, g, i) = Observed(h, g, i)
  /\ \A g \in 1..Len(k) : \A i \in 1..Size(k, g) :
       \/ g = Len(k) /\ i = Size(k, g)
       \/ g <= Len(h) /\ i <= Size(h, g)
  /\ \A g \in 1..Len(k) : /\ Shut(k, g) => Size(k, g) >= 2
                          /\ g < Len(k) => Shut(k, g)

LEMMA JoinedGrows ==
  ASSUME NEW h, Ordered(h), NEW k \in Seq(Generation), NEW r, NEW deletion \in BOOLEAN,
         Joined(h, k, r, deletion)
  PROVE  Grown(h, k, r, deletion)
<1> DEFINE n == Len(h)
<1>1. h \in Seq(Generation)
  BY DEF Ordered
<1>2. /\ n \in Nat
      /\ \A g \in 1..n : Size(h, g) \in Nat \ {0} /\ Shut(h, g) \in BOOLEAN /\ Count(h, g) \in Nat
  BY <1>1, Parts
<1>3. n \in 1..n /\ n # 0
  BY <1>1, <1>2 DEF Joined
<1>4. /\ Len(k) = n /\ ~Shut(h, n) /\ Size(k, n) = Size(h, n) + 1
      /\ \A i \in 1..Size(h, n) : Rev(k, n, i) = Rev(h, n, i)
      /\ Rev(k, n, Size(h, n) + 1) = r /\ Shut(k, n) = deletion
      /\ Born(k, n) = Born(h, n) /\ Count(k, n) = Count(h, n) + 1
  BY DEF Joined
<1>5. \A g \in 1..n : g # n =>
        /\ Size(k, g) = Size(h, g) /\ Shut(k, g) = Shut(h, g)
        /\ Born(k, g) = Born(h, g) /\ Count(k, g) = Count(h, g)
        /\ \A i \in 1..Size(h, g) : Rev(k, g, i) = Rev(h, g, i)
  BY <1>2 DEF Joined, SameAt
<1>6. ASSUME NEW g \in 1..n, NEW i \in 1..Size(h, g)
      PROVE  /\ i <= Size(k, g) /\ g <= Len(k)
             /\ ~(g = Len(k) /\ i = Size(k, g))
             /\ Rev(k, g, i) = Rev(h, g, i) /\ (Tomb(k, g, i) <=> Tomb(h, g, i))
             /\ Observed(k, g, i) = Observed(h, g, i)
  <2>1. CASE g = n
    <3>1. i # Size(h, n) + 1 /\ i <= Size(h, n) + 1
      BY <1>2, <2>1
    <3>2. Count(h, n) + 1 - (Size(h, n) + 1 - i) = Count(h, n) - (Size(h, n) - i)
      BY <1>2, <2>1
    <3> QED
      BY <1>2, <1>4, <2>1, <3>1, <3>2 DEF Tomb, Observed
  <2>2. CASE g # n
    BY <1>2, <1>4, <1>5, <2>2 DEF Tomb, Observed
  <2> QED
    BY <2>1, <2>2
<1>7. \A g \in 1..n : \A i \in 1..Size(k, g) : (g = n /\ i = Size(k, g)) \/ i <= Size(h, g)
  BY <1>2, <1>4, <1>5
<1>8. ASSUME NEW g \in 1..n
      PROVE  (Shut(k, g) => Size(k, g) >= 2) /\ (g < n => Shut(k, g))
  <2>1. CASE g = n
    BY <1>2, <1>4, <2>1
  <2>2. CASE g # n
    BY <1>5, <2>2 DEF Ordered
  <2> QED
    BY <2>1, <2>2
<1>9. deletion <=> Tomb(k, n, Size(k, n))
  BY <1>4 DEF Tomb
<1>10. n <= n + 1 /\ n \in 1..n + 1
  BY <1>2, <1>3
<1> HIDE DEF n
<1> QED
  BY <1>2, <1>4, <1>6, <1>7, <1>8, <1>9, <1>10 DEF Grown, n

LEMMA BegunGrows ==
  ASSUME NEW h, Ordered(h), NEW k \in Seq(Generation), NEW r, Begun(h, k, r)
  PROVE  Grown(h, k, r, FALSE)
<1> DEFINE n == Len(h)
<1>1. h \in Seq(Generation)
  BY DEF Ordered
<1>2. /\ n \in Nat
      /\ \A g \in 1..n : Size(h, g) \in Nat \ {0} /\ Shut(h, g) \in BOOLEAN /\ Count(h, g) \in Nat
  BY <1>1, Parts
<1>3. /\ Len(k) = n + 1 /\ (n # 0 => Shut(h, n)) /\ Size(k, n + 1) = 1
      /\ Rev(k, n + 1, 1) = r /\ Shut(k, n + 1) = FALSE
  BY <1>1 DEF Begun
<1>4. \A g \in 1..n :
        /\ Size(k, g) = Size(h, g) /\ Shut(k, g) = Shut(h, g)
        /\ Born(k, g) = Born(h, g) /\ Count(k, g) = Count(h, g)
        /\ \A i \in 1..Size(h, g) : Rev(k, g, i) = Rev(h, g, i)
  BY DEF Begun, SameAt
<1>5. ASSUME NEW g \in 1..n, NEW i \in 1..Size(h, g)
      PROVE  /\ i <= Size(k, g) /\ g <= Len(k)
             /\ ~(g = Len(k) /\ i = Size(k, g))
             /\ Rev(k, g, i) = Rev(h, g, i) /\ (Tomb(k, g, i) <=> Tomb(h, g, i))
             /\ Observed(k, g, i) = Observed(h, g, i)
  BY <1>2, <1>3, <1>4 DEF Tomb, Observed
<1>6. \A g \in 1..n + 1 : g = n + 1 \/ g \in 1..n
  BY <1>2
<1>7. \A g \in 1..n + 1 : \A i \in 1..Size(k, g) :
        (g = n + 1 /\ i = Size(k, g)) \/ (g <= n /\ i <= Size(h, g))
  <2> SUFFICES ASSUME NEW g \in 1..n + 1, NEW i \in 1..Size(k, g)
               PROVE  (g = n + 1 /\ i = Size(k, g)) \/ (g <= n /\ i <= Size(h, g))
    OBVIOUS
  <2>1. CASE g = n + 1
    BY <1>3, <2>1
  <2>2. CASE g \in 1..n
    BY <1>2, <1>4, <2>2
  <2> QED
    BY <1>6, <2>1, <2>2
<1>8. ASSUME NEW g \in 1..n + 1
      PROVE  (Shut(k, g) => Size(k, g) >= 2) /\ (g < n + 1 => Shut(k, g))
  <2>1. CASE g = n + 1
    BY <1>2, <1>3, <2>1
  <2>2. CASE g \in 1..n
    <3>1. (Shut(h, g) => Size(h, g) >= 2) /\ (g < n => Shut(h, g))
      BY <2>2 DEF Ordered
    <3>2. g = n \/ g < n
      BY <1>2, <2>2
    <3> QED
      BY <1>3, <1>4, <2>2, <3>1, <3>2
  <2> QED
    BY <1>6, <2>1, <2>2
<1>9. ~Tomb(k, n + 1, 1)
  BY <1>3 DEF Tomb
<1>10. n + 1 >= n /\ n + 1 \in 1..n + 1
  BY <1>2
<1> HIDE DEF n
<1> QED
  BY <1>2, <1>3, <1>5, <1>7, <1>8, <1>9, <1>10 DEF Grown, n

LEMMA GrownOrdered ==
  ASSUME NEW h, Ordered(h), NEW k \in Seq(Generation), NEW r \in Nat, NEW deletion \in BOOLEAN,
         Grown(h, k, r, deletion),
         \A g \in 1..Len(h) : \A i \in 1..Size(h, g) : Rev(h, g, i) < r
  PROVE  Ordered(k)
<1>1. h \in Seq(Generation)
  BY DEF Ordered
<1>2. Len(h) \in Nat /\ Len(k) \in Nat /\ \A g \in 1..Len(k) : Size(k, g) \in Nat \ {0}
  BY <1>1, Parts
<1>3. ASSUME NEW g \in 1..Len(k), NEW f \in 1..Len(k),
             NEW i \in 1..Size(k, g), NEW j \in 1..Size(k, f), g < f \/ (g = f /\ i < j)
      PROVE  Rev(k, g, i) < Rev(k, f, j)
  <2>1. ~(g = Len(k) /\ i = Size(k, g))
    BY <1>2, <1>3
  <2>2. g \in 1..Len(h) /\ i \in 1..Size(h, g) /\ Rev(k, g, i) = Rev(h, g, i)
    <3>1. g <= Len(h) /\ i <= Size(h, g)
      BY <2>1 DEF Grown
    <3>2. g \in 1..Len(h)
      BY <1>2, <3>1
    <3>3. i \in 1..Size(h, g)
      BY <1>1, <1>2, <3>1, <3>2, Parts
    <3> QED
      BY <3>2, <3>3 DEF Grown
  <2>3. CASE f = Len(k) /\ j = Size(k, f)
    BY <2>2, <2>3 DEF Grown
  <2>4. CASE ~(f = Len(k) /\ j = Size(k, f))
    <3>1. f <= Len(h) /\ j <= Size(h, f)
      BY <2>4 DEF Grown
    <3>2. f \in 1..Len(h)
      BY <1>2, <3>1
    <3>3. j \in 1..Size(h, f)
      BY <1>1, <1>2, <3>1, <3>2, Parts
    <3>4. Rev(k, f, j) = Rev(h, f, j)
      BY <3>2, <3>3 DEF Grown
    <3> QED
      BY <1>3, <2>2, <3>2, <3>3, <3>4 DEF Ordered
  <2> QED
    BY <2>3, <2>4
<1>4. \A g \in 1..Len(k) : (Shut(k, g) => Size(k, g) >= 2) /\ (g < Len(k) => Shut(k, g))
  BY DEF Grown
<1> QED
  BY <1>3, <1>4 DEF Ordered

(* What a record adds to a listing. *)
LEMMA GrownLists ==
  ASSUME NEW h, Ordered(h), NEW k \in Seq(Generation), NEW r \in Nat, NEW deletion \in BOOLEAN,
         Grown(h, k, r, deletion), NEW q, NEW d \in BOOLEAN
  PROVE  Lists(k, q, d) <=> (Lists(h, q, d) \/ (q = r /\ (d <=> deletion)))
<1>1. h \in Seq(Generation)
  BY DEF Ordered
<1>2. /\ Len(h) \in Nat /\ Len(k) \in Nat
      /\ \A g \in 1..Len(k) : Size(k, g) \in Nat \ {0}
      /\ \A g \in 1..Len(h) : Size(h, g) \in Nat \ {0}
  BY <1>1, Parts
<1>3. ASSUME NEW g \in 1..Len(k), NEW i \in 1..Size(k, g), Rev(k, g, i) = q, d <=> Tomb(k, g, i)
      PROVE  Lists(h, q, d) \/ (q = r /\ (d <=> deletion))
  <2>1. CASE g = Len(k) /\ i = Size(k, g)
    BY <1>3, <2>1 DEF Grown, Tomb
  <2>2. CASE g <= Len(h) /\ i <= Size(h, g)
    <3>1. g \in 1..Len(h)
      BY <1>2, <2>2
    <3>2. i \in 1..Size(h, g)
      BY <1>2, <2>2, <3>1
    <3>3. Rev(k, g, i) = Rev(h, g, i) /\ (Tomb(k, g, i) <=> Tomb(h, g, i))
      BY <3>1, <3>2 DEF Grown
    <3> QED
      BY <1>3, <3>1, <3>2, <3>3 DEF Lists, Tomb
  <2> QED
    BY <2>1, <2>2 DEF Grown
<1>4. ASSUME NEW g \in 1..Len(h), NEW i \in 1..Size(h, g), Rev(h, g, i) = q, d <=> Tomb(h, g, i)
      PROVE  Lists(k, q, d)
  <2>1. /\ i <= Size(k, g) /\ g <= Len(k)
        /\ Rev(k, g, i) = Rev(h, g, i) /\ (Tomb(k, g, i) <=> Tomb(h, g, i))
    BY DEF Grown
  <2>2. g \in 1..Len(k)
    BY <1>2, <2>1
  <2>3. i \in 1..Size(k, g)
    BY <1>2, <2>1, <2>2
  <2> QED
    BY <1>4, <2>1, <2>2, <2>3 DEF Lists, Tomb
<1>5. ASSUME q = r, d <=> deletion PROVE Lists(k, q, d)
  <2>1. Len(k) \in 1..Len(k) /\ Size(k, Len(k)) \in 1..Size(k, Len(k))
    BY <1>2 DEF Grown
  <2> QED
    BY <1>5, <2>1 DEF Lists, Grown, Tomb
<1> QED
  BY <1>3, <1>4, <1>5 DEF Lists

LEMMA GrownLocatedBefore ==
  ASSUME NEW h, Ordered(h), NEW k, Ordered(k), NEW r \in Nat, NEW deletion \in BOOLEAN,
         Grown(h, k, r, deletion), NEW at \in Nat, at < r, NEW g \in Nat, NEW i \in Nat
  PROVE  /\ Located(k, at, g, i) <=> Located(h, at, g, i)
         /\ Located(h, at, g, i) => Observed(k, g, i) = Observed(h, g, i)
<1>1. h \in Seq(Generation) /\ k \in Seq(Generation)
  BY DEF Ordered
<1>2. /\ Len(h) \in Nat /\ Len(k) \in Nat
      /\ \A f \in 1..Len(k) : /\ Size(k, f) \in Nat \ {0}
                              /\ \A j \in 1..Size(k, f) : Rev(k, f, j) \in Nat
      /\ \A f \in 1..Len(h) : /\ Size(h, f) \in Nat \ {0}
                              /\ \A j \in 1..Size(h, f) : Rev(h, f, j) \in Nat
  BY <1>1, Parts
<1>3. ASSUME NEW f \in 1..Len(h), NEW j \in 1..Size(h, f)
      PROVE  /\ f \in 1..Len(k) /\ j \in 1..Size(k, f)
             /\ Rev(k, f, j) = Rev(h, f, j) /\ (Tomb(k, f, j) <=> Tomb(h, f, j))
             /\ Observed(k, f, j) = Observed(h, f, j)
             /\ f < Len(k) \/ (f = Len(k) /\ j < Size(k, f))
  <2>1. /\ j <= Size(k, f) /\ f <= Len(k) /\ ~(f = Len(k) /\ j = Size(k, f))
        /\ Rev(k, f, j) = Rev(h, f, j) /\ (Tomb(k, f, j) <=> Tomb(h, f, j))
        /\ Observed(k, f, j) = Observed(h, f, j)
    BY DEF Grown
  <2>2. f \in 1..Len(k)
    BY <1>2, <2>1
  <2>3. j \in 1..Size(k, f)
    BY <1>2, <2>1, <2>2
  <2> QED
    BY <1>2, <2>1, <2>2, <2>3
<1>4. ASSUME NEW f \in 1..Len(k), NEW j \in 1..Size(k, f)
      PROVE  \/ f = Len(k) /\ j = Size(k, f) /\ Rev(k, f, j) = r
             \/ f \in 1..Len(h) /\ j \in 1..Size(h, f)
  <2>1. CASE f <= Len(h) /\ j <= Size(h, f)
    <3>1. f \in 1..Len(h)
      BY <1>2, <2>1
    <3>2. j \in 1..Size(h, f)
      BY <1>2, <2>1, <3>1
    <3> QED
      BY <3>1, <3>2
  <2> QED
    BY <2>1 DEF Grown
<1>5. ASSUME Located(k, at, g, i) PROVE Located(h, at, g, i)
  <2>1. /\ g \in 1..Len(k) /\ i \in 1..Size(k, g) /\ Rev(k, g, i) <= at /\ ~Tomb(k, g, i)
        /\ i < Size(k, g) => Rev(k, g, i + 1) > at
        /\ g < Len(k) => Rev(k, g + 1, 1) > at
    BY <1>5 DEF Located
  <2>2. g \in 1..Len(h) /\ i \in 1..Size(h, g)
    BY <1>4, <2>1
  <2>3. Rev(h, g, i) <= at /\ ~Tomb(h, g, i)
    BY <1>3, <2>1, <2>2 DEF Tomb
  <2>4. i < Size(h, g) => Rev(h, g, i + 1) > at
    <3> SUFFICES ASSUME i < Size(h, g) PROVE Rev(h, g, i + 1) > at
      OBVIOUS
    <3>1. i + 1 \in 1..Size(h, g)
      BY <1>2, <2>2
    <3>2. i + 1 \in 1..Size(k, g) /\ Rev(k, g, i + 1) = Rev(h, g, i + 1)
      BY <1>3, <2>2, <3>1
    <3>3. i < Size(k, g)
      BY <1>2, <2>1, <3>2
    <3> QED
      BY <2>1, <3>2, <3>3
  <2>5. g < Len(h) => Rev(h, g + 1, 1) > at
    <3> SUFFICES ASSUME g < Len(h) PROVE Rev(h, g + 1, 1) > at
      OBVIOUS
    <3>1. g + 1 \in 1..Len(h)
      BY <1>2, <2>2
    <3>2. 1 \in 1..Size(h, g + 1)
      BY <1>2, <3>1
    <3>3. g + 1 \in 1..Len(k) /\ Rev(k, g + 1, 1) = Rev(h, g + 1, 1)
      BY <1>3, <3>1, <3>2
    <3>4. g < Len(k)
      BY <1>2, <2>1, <3>3
    <3> QED
      BY <2>1, <3>3, <3>4
  <2> QED
    BY <2>2, <2>3, <2>4, <2>5 DEF Located
<1>6. ASSUME Located(h, at, g, i) PROVE Located(k, at, g, i)
  <2>1. /\ g \in 1..Len(h) /\ i \in 1..Size(h, g) /\ Rev(h, g, i) <= at /\ ~Tomb(h, g, i)
        /\ i < Size(h, g) => Rev(h, g, i + 1) > at
        /\ g < Len(h) => Rev(h, g + 1, 1) > at
    BY <1>6 DEF Located
  <2>2. g \in 1..Len(k) /\ i \in 1..Size(k, g) /\ Rev(k, g, i) <= at /\ ~Tomb(k, g, i)
    BY <1>3, <2>1 DEF Tomb
  <2>3. i < Size(k, g) => Rev(k, g, i + 1) > at
    <3> SUFFICES ASSUME i < Size(k, g) PROVE Rev(k, g, i + 1) > at
      OBVIOUS
    <3>1. i + 1 \in 1..Size(k, g)
      BY <1>2, <2>2
    <3>2. CASE Rev(k, g, i + 1) = r
      BY <3>2
    <3>3. CASE i + 1 \in 1..Size(h, g)
      <4>1. i < Size(h, g) /\ Rev(k, g, i + 1) = Rev(h, g, i + 1)
        BY <1>2, <1>3, <2>1, <3>3
      <4> QED
        BY <2>1, <4>1
    <3> QED
      BY <1>4, <2>2, <3>1, <3>2, <3>3
  <2>4. g < Len(k) => Rev(k, g + 1, 1) > at
    <3> SUFFICES ASSUME g < Len(k) PROVE Rev(k, g + 1, 1) > at
      OBVIOUS
    <3>1. g + 1 \in 1..Len(k)
      BY <1>2, <2>2
    <3>2. 1 \in 1..Size(k, g + 1)
      BY <1>2, <3>1
    <3>3. CASE Rev(k, g + 1, 1) = r
      BY <3>3
    <3>4. CASE g + 1 \in 1..Len(h) /\ 1 \in 1..Size(h, g + 1)
      <4>1. g < Len(h) /\ Rev(k, g + 1, 1) = Rev(h, g + 1, 1)
        BY <1>2, <1>3, <2>1, <3>4
      <4> QED
        BY <2>1, <4>1
    <3> QED
      BY <1>4, <3>1, <3>2, <3>3, <3>4
  <2> QED
    BY <2>2, <2>3, <2>4 DEF Located
<1>7. ASSUME Located(h, at, g, i) PROVE Observed(k, g, i) = Observed(h, g, i)
  BY <1>3, <1>7 DEF Located
<1> QED
  BY <1>5, <1>6, <1>7

(* At or after every revision, only the last place can be current.         *)
LEMMA LocatedLast ==
  ASSUME NEW h, Ordered(h), NEW at \in Nat, NEW g \in Nat, NEW i \in Nat,
         \A f \in 1..Len(h) : \A j \in 1..Size(h, f) : Rev(h, f, j) <= at
  PROVE  Located(h, at, g, i) <=>
           (h # <<>> /\ ~Shut(h, Len(h)) /\ g = Len(h) /\ i = Size(h, g))
<1>1. h \in Seq(Generation)
  BY DEF Ordered
<1>2. /\ Len(h) \in Nat
      /\ \A f \in 1..Len(h) : /\ Size(h, f) \in Nat \ {0}
                              /\ \A j \in 1..Size(h, f) : Rev(h, f, j) \in Nat
  BY <1>1, Parts
<1>3. ASSUME Located(h, at, g, i)
      PROVE  h # <<>> /\ ~Shut(h, Len(h)) /\ g = Len(h) /\ i = Size(h, g)
  <2>1. /\ g \in 1..Len(h) /\ i \in 1..Size(h, g) /\ ~Tomb(h, g, i)
        /\ i < Size(h, g) => Rev(h, g, i + 1) > at
        /\ g < Len(h) => Rev(h, g + 1, 1) > at
    BY <1>3 DEF Located
  <2>2. g = Len(h)
    <3> SUFFICES ASSUME g # Len(h) PROVE FALSE
      OBVIOUS
    <3>1. g < Len(h) /\ g + 1 \in 1..Len(h)
      BY <1>2, <2>1
    <3>2. 1 \in 1..Size(h, g + 1) /\ Rev(h, g + 1, 1) \in Nat
      BY <1>2, <3>1
    <3>3. Rev(h, g + 1, 1) <= at
      BY <3>1, <3>2
    <3> QED
      BY <2>1, <3>1, <3>2, <3>3
  <2>3. i = Size(h, g)
    <3> SUFFICES ASSUME i # Size(h, g) PROVE FALSE
      OBVIOUS
    <3>1. i < Size(h, g) /\ i + 1 \in 1..Size(h, g)
      BY <1>2, <2>1
    <3>2. Rev(h, g, i + 1) \in Nat /\ Rev(h, g, i + 1) <= at
      BY <1>2, <2>1, <3>1
    <3> QED
      BY <2>1, <3>1, <3>2
  <2>4. h # <<>>
    BY <1>1, <1>2, <2>1
  <2> QED
    BY <2>1, <2>2, <2>3, <2>4 DEF Tomb
<1>4. ASSUME h # <<>>, ~Shut(h, Len(h)), g = Len(h), i = Size(h, g)
      PROVE  Located(h, at, g, i)
  <2>1. g \in 1..Len(h)
    BY <1>1, <1>2, <1>4
  <2>2. i \in 1..Size(h, g) /\ ~(i < Size(h, g)) /\ ~(g < Len(h))
    BY <1>2, <1>4, <2>1
  <2> QED
    BY <1>4, <2>1, <2>2 DEF Located, Tomb
<1> QED
  BY <1>3, <1>4

(* What is current at or after every revision. *)
LatestOf(h) ==
  IF h # <<>> /\ ~Shut(h, Len(h))
  THEN { [modified |-> Rev(h, Len(h), Size(h, Len(h))), created |-> Born(h, Len(h)),
          version |-> Count(h, Len(h))] }
  ELSE {}

LEMMA FoundLatest ==
  ASSUME NEW h, Ordered(h), NEW at \in Nat,
         \A f \in 1..Len(h) : \A j \in 1..Size(h, f) : Rev(h, f, j) <= at
  PROVE  Found(h, at) = LatestOf(h)
<1>1. h \in Seq(Generation)
  BY DEF Ordered
<1> DEFINE n == Len(h)
           s == Size(h, n)
           Unclosed == h # <<>> /\ ~Shut(h, n)
<1>2. Unclosed => n \in Nat /\ s \in Nat /\ Count(h, n) \in Nat
  <2>1. h # <<>> => n \in 1..n /\ n \in Nat
    BY <1>1
  <2> QED
    BY <1>1, <2>1, Parts
<1>3. \A x : x \in Found(h, at) <=> \E g, i \in Nat : Located(h, at, g, i) /\ x = Observed(h, g, i)
  BY FoundIs
<1>4. \A g, i \in Nat : Located(h, at, g, i) <=> (Unclosed /\ g = n /\ i = Size(h, g))
  BY LocatedLast
<1>5. Unclosed => Observed(h, n, s) = [modified |-> Rev(h, n, s), created |-> Born(h, n),
                                      version |-> Count(h, n)]
  <2> SUFFICES ASSUME Unclosed PROVE Count(h, n) - (s - s) = Count(h, n)
    BY DEF Observed
  <2> HIDE DEF n, s
  <2> QED
    BY <1>2
<1> HIDE DEF n, s, Unclosed
<1>6. \A x : x \in Found(h, at) <=> (Unclosed /\ x = Observed(h, n, s))
  BY <1>2, <1>3, <1>4 DEF s
<1>7. LatestOf(h) = IF Unclosed THEN { Observed(h, n, s) } ELSE {}
  BY <1>5 DEF LatestOf, Unclosed, n, s
<1> QED
  BY <1>6, <1>7

Below(h, n) == \A g \in 1..Len(h) : \A i \in 1..Size(h, g) : Rev(h, g, i) <= n

First(r) == [modified |-> r, created |-> r, version |-> 1]
Following(r, x) == [modified |-> r, created |-> x.created, version |-> x.version + 1]

(* What a record does to what there is to read of its key: nothing before  *)
(* its revision, and from there on a deletion leaves nothing, a put the    *)
(* next version.                                                           *)
Advances(h, k, n, deletion) ==
  /\ Ordered(k) /\ Below(k, n + 1)
  /\ \A q : \A d \in BOOLEAN :
       Lists(k, q, d) <=>
         (Lists(h, q, d) \/ (q = n + 1 /\ (d <=> deletion) /\ (deletion => IsOpen(h))))
  /\ \A at \in Nat : at <= n => Found(k, at) = Found(h, at)
  /\ \A at \in Nat : at > n =>
       /\ deletion => Found(k, at) = {}
       /\ ~deletion /\ Found(h, n) = {} => Found(k, at) = { First(n + 1) }
       /\ ~deletion => \A x \in Found(h, n) : Found(k, at) = { Following(n + 1, x) }
  /\ k = <<>> => h = <<>> /\ deletion

LEMMA FoundBefore ==
  ASSUME NEW h, Ordered(h), NEW k, Ordered(k), NEW r \in Nat, NEW deletion \in BOOLEAN,
         Grown(h, k, r, deletion), NEW at \in Nat, at < r
  PROVE  Found(k, at) = Found(h, at)
<1>1. \A x : x \in Found(h, at) <=> \E g, i \in Nat : Located(h, at, g, i) /\ x = Observed(h, g, i)
  BY FoundIs
<1>2. \A x : x \in Found(k, at) <=> \E g, i \in Nat : Located(k, at, g, i) /\ x = Observed(k, g, i)
  BY FoundIs
<1>3. \A g, i \in Nat : /\ Located(k, at, g, i) <=> Located(h, at, g, i)
                        /\ Located(h, at, g, i) => Observed(k, g, i) = Observed(h, g, i)
  BY GrownLocatedBefore
<1>4. \A x : x \in Found(k, at) <=> x \in Found(h, at)
  BY <1>1, <1>2, <1>3
<1> QED
  BY <1>4

LEMMA GrownBelow ==
  ASSUME NEW h, Ordered(h), NEW k \in Seq(Generation), NEW n \in Nat, NEW deletion \in BOOLEAN,
         Grown(h, k, n + 1, deletion), Below(h, n)
  PROVE  Below(k, n + 1)
<1>1. h \in Seq(Generation)
  BY DEF Ordered
<1>2. /\ Len(h) \in Nat /\ Len(k) \in Nat
      /\ \A f \in 1..Len(h) : /\ Size(h, f) \in Nat \ {0}
                              /\ \A j \in 1..Size(h, f) : Rev(h, f, j) \in Nat
  BY <1>1, Parts
<1> SUFFICES ASSUME NEW g \in 1..Len(k), NEW i \in 1..Size(k, g) PROVE Rev(k, g, i) <= n + 1
  BY DEF Below
<1>3. CASE g = Len(k) /\ i = Size(k, g)
  BY <1>3 DEF Grown
<1>4. CASE g <= Len(h) /\ i <= Size(h, g)
  <2>1. g \in 1..Len(h)
    BY <1>2, <1>4
  <2>2. i \in 1..Size(h, g)
    BY <1>2, <1>4, <2>1
  <2>3. Rev(k, g, i) = Rev(h, g, i) /\ Rev(h, g, i) <= n
    BY <2>1, <2>2 DEF Grown, Below
  <2> QED
    BY <1>2, <2>1, <2>2, <2>3
<1> QED
  BY <1>3, <1>4 DEF Grown

LEMMA HistoryAdvances ==
  ASSUME NEW h, Ordered(h), NEW n \in Nat, Below(h, n), NEW deletion \in BOOLEAN
  PROVE  Advances(h, HistoryAfter(h, n + 1, deletion), n, deletion)
<1> DEFINE k == HistoryAfter(h, n + 1, deletion)
           m == Len(h)
           s == Size(h, m)
<1>1. h \in Seq(Generation)
  BY DEF Ordered
<1>2. IsOpen(h) <=> (h # <<>> /\ ~Shut(h, m))
  BY <1>1, OpenIs
<1>3. Found(h, n) = LatestOf(h)
  BY FoundLatest DEF Below
<1>4. CASE deletion /\ ~IsOpen(h)
  <2>1. k = h
    BY <1>4 DEF HistoryAfter
  <2>2. Below(h, n + 1)
    <3>1. \A f \in 1..Len(h) : \A j \in 1..Size(h, f) : Rev(h, f, j) \in Nat
      BY <1>1, Parts
    <3> QED
      BY <3>1 DEF Below
  <2>3. ASSUME NEW at \in Nat, at > n PROVE Found(h, at) = {}
    <3>1. \A f \in 1..Len(h) : \A j \in 1..Size(h, f) : Rev(h, f, j) <= at
      <4>1. \A f \in 1..Len(h) : \A j \in 1..Size(h, f) : Rev(h, f, j) \in Nat
        BY <1>1, Parts
      <4> QED
        BY <2>3, <4>1 DEF Below
    <3>2. Found(h, at) = LatestOf(h)
      BY <3>1, FoundLatest
    <3> QED
      BY <1>2, <1>4, <3>2 DEF LatestOf
  <2> HIDE DEF k
  <2> QED
    BY <1>4, <2>1, <2>2, <2>3 DEF Advances, k
<1>5. CASE IsOpen(h)
  <2>1. k = Extended(h, n + 1, deletion)
    BY <1>5 DEF HistoryAfter
  <2>2. k \in Seq(Generation) /\ Joined(h, k, n + 1, deletion)
    BY <1>1, <1>5, <2>1, ExtendedJoins, n + 1 \in Nat
  <2> HIDE DEF k
  <2>3. Grown(h, k, n + 1, deletion)
    BY <2>2, JoinedGrows
  <2>4. Below(k, n + 1)
    BY <2>2, <2>3, GrownBelow
  <2>5. Ordered(k)
    <3>1. \A g \in 1..Len(h) : \A i \in 1..Size(h, g) : Rev(h, g, i) < n + 1
      <4>1. \A f \in 1..Len(h) : \A j \in 1..Size(h, f) : Rev(h, f, j) \in Nat
        BY <1>1, Parts
      <4> QED
        BY <4>1 DEF Below
    <3> QED
      BY <2>2, <2>3, <3>1, GrownOrdered, n + 1 \in Nat
  <2>6. \A q : \A d \in BOOLEAN :
          Lists(k, q, d) <=> (Lists(h, q, d) \/ (q = n + 1 /\ (d <=> deletion)))
    BY <2>2, <2>3, GrownLists, n + 1 \in Nat
  <2>7. \A at \in Nat : at <= n => Found(k, at) = Found(h, at)
    <3>1. n + 1 \in Nat /\ \A at \in Nat : at <= n => at < n + 1
      OBVIOUS
    <3> QED
      BY <2>3, <2>5, <3>1, FoundBefore
  <2>8. ASSUME NEW at \in Nat, at > n PROVE Found(k, at) = LatestOf(k)
    <3>1. \A f \in 1..Len(k) : \A j \in 1..Size(k, f) : Rev(k, f, j) <= at
      <4>1. \A f \in 1..Len(k) : \A j \in 1..Size(k, f) : Rev(k, f, j) \in Nat
        BY <2>2, Parts
      <4> QED
        BY <2>4, <2>8, <4>1 DEF Below
    <3> QED
      BY <2>5, <3>1, FoundLatest
  <2>9. /\ Len(k) = m /\ k # <<>> /\ Shut(k, m) = deletion /\ Rev(k, m, Size(k, m)) = n + 1
        /\ Born(k, m) = Born(h, m) /\ Count(k, m) = Count(h, m) + 1
    <3>1. h # <<>> /\ Len(k) = m
      BY <2>2 DEF Joined
    <3>2. k # <<>>
      BY <1>1, <2>2, <3>1
    <3> QED
      BY <2>2, <3>1, <3>2 DEF Joined
  <2>10. LatestOf(k) = IF deletion THEN {}
                       ELSE { [modified |-> n + 1, created |-> Born(h, m), version |-> Count(h, m) + 1] }
    BY <2>9 DEF LatestOf
  <2>11. LatestOf(h) = { [modified |-> Rev(h, m, s), created |-> Born(h, m), version |-> Count(h, m)] }
    BY <1>2, <1>5 DEF LatestOf
  <2>12. \A x \in Found(h, n) : Following(n + 1, x) =
           [modified |-> n + 1, created |-> Born(h, m), version |-> Count(h, m) + 1]
    <3> HIDE DEF m, s
    <3> QED
      BY <1>3, <2>11 DEF Following
  <2>13. Found(h, n) # {}
    BY <1>3, <2>11
  <2> HIDE DEF m, s
  <2> QED
    BY <1>5, <2>4, <2>5, <2>6, <2>7, <2>8, <2>9, <2>10, <2>12, <2>13 DEF Advances, k
<1>6. CASE ~deletion /\ ~IsOpen(h)
  <2>1. k = Append(h, [created |-> n + 1, ver |-> 1, revs |-> <<n + 1>>, closed |-> FALSE])
    BY <1>6 DEF HistoryAfter
  <2>2. k \in Seq(Generation) /\ Begun(h, k, n + 1)
    BY <1>1, <1>6, <2>1, AppendBegins, n + 1 \in Nat
  <2> HIDE DEF k
  <2>3. Grown(h, k, n + 1, deletion)
    <3>1. deletion = FALSE
      BY <1>6
    <3>2. Grown(h, k, n + 1, FALSE)
      BY <2>2, BegunGrows
    <3> QED
      BY <3>1, <3>2
  <2>4. Below(k, n + 1)
    BY <2>2, <2>3, GrownBelow
  <2>5. Ordered(k)
    <3>1. \A g \in 1..Len(h) : \A i \in 1..Size(h, g) : Rev(h, g, i) < n + 1
      <4>1. \A f \in 1..Len(h) : \A j \in 1..Size(h, f) : Rev(h, f, j) \in Nat
        BY <1>1, Parts
      <4> QED
        BY <4>1 DEF Below
    <3> QED
      BY <2>2, <2>3, <3>1, GrownOrdered, n + 1 \in Nat
  <2>6. \A q : \A d \in BOOLEAN :
          Lists(k, q, d) <=> (Lists(h, q, d) \/ (q = n + 1 /\ (d <=> deletion)))
    BY <2>2, <2>3, GrownLists, n + 1 \in Nat
  <2>7. \A at \in Nat : at <= n => Found(k, at) = Found(h, at)
    <3>1. n + 1 \in Nat /\ \A at \in Nat : at <= n => at < n + 1
      OBVIOUS
    <3> QED
      BY <2>3, <2>5, <3>1, FoundBefore
  <2>8. ASSUME NEW at \in Nat, at > n PROVE Found(k, at) = LatestOf(k)
    <3>1. \A f \in 1..Len(k) : \A j \in 1..Size(k, f) : Rev(k, f, j) <= at
      <4>1. \A f \in 1..Len(k) : \A j \in 1..Size(k, f) : Rev(k, f, j) \in Nat
        BY <2>2, Parts
      <4> QED
        BY <2>4, <2>8, <4>1 DEF Below
    <3> QED
      BY <2>5, <3>1, FoundLatest
  <2>9. /\ Len(k) = m + 1 /\ k # <<>> /\ Shut(k, m + 1) = FALSE
        /\ Rev(k, m + 1, Size(k, m + 1)) = n + 1
        /\ Born(k, m + 1) = n + 1 /\ Count(k, m + 1) = 1
    <3>1. Len(k) = m + 1 /\ m \in Nat
      BY <1>1, <2>2 DEF Begun
    <3>2. k # <<>>
      BY <2>2, <3>1
    <3> QED
      BY <2>2, <3>1, <3>2 DEF Begun
  <2>10. LatestOf(k) = { First(n + 1) }
    BY <2>9 DEF LatestOf, First
  <2>11. Found(h, n) = {}
    BY <1>2, <1>3, <1>6 DEF LatestOf
  <2> HIDE DEF m, s
  <2> QED
    BY <1>6, <2>4, <2>5, <2>6, <2>7, <2>8, <2>9, <2>10, <2>11 DEF Advances, k
<1> QED
  BY <1>4, <1>5, <1>6

-----------------------------------------------------------------------------
(* Compacting a history cuts its beginning.                                *)

Off(g, e) == IF g = 1 THEN e ELSE 0

(* k is h without its first d generations and e revisions of the next.     *)
Cut(h, k, d, e) ==
  /\ d \in 0..Len(h) /\ e \in Nat
  /\ Len(k) = Len(h) - d
  /\ d < Len(h) => e < Size(h, d + 1)
  /\ \A g \in 1..Len(k) :
       /\ Size(k, g) = Size(h, d + g) - Off(g, e)
       /\ Shut(k, g) = Shut(h, d + g)
       /\ Born(k, g) = Born(h, d + g) /\ Count(k, g) = Count(h, d + g)
       /\ \A i \in 1..Size(k, g) : Rev(k, g, i) = Rev(h, d + g, i + Off(g, e))

(* What is kept are the places from there on. *)
KeptFrom(h, at, d, e) ==
  \A g \in 1..Len(h) : \A i \in 1..Size(h, g) :
    Kept(h, at, g, i) <=> (g > d + 1 \/ (g = d + 1 /\ i > e))

LEMMA KeptIs ==
  ASSUME NEW h, Ordered(h), NEW at \in Nat, NEW g \in 1..Len(h), NEW i \in 1..Size(h, g)
  PROVE  Kept(h, at, g, i) <=> (Rev(h, g, i) > at \/ Located(h, at, g, i))
<1>1. h \in Seq(Generation)
  BY DEF Ordered
<1>2. g \in Nat /\ i \in Nat
  BY <1>1, Parts
<1>3. <<g, i>> \in Locate(h, at) <=> \E f, j \in Nat : <<g, i>> = <<f, j>> /\ Located(h, at, f, j)
  BY LocateIs
<1>4. <<g, i>> \in Locate(h, at) <=> Located(h, at, g, i)
  BY <1>2, <1>3
<1>5. Located(h, at, g, i) => ~Tomb(h, g, i)
  BY DEF Located
<1>6. Kept(h, at, g, i) <=> (Rev(h, g, i) > at \/ (<<g, i>> \in Locate(h, at) /\ ~Tomb(h, g, i)))
  BY DEF Kept, Rev, Tomb, Shut, Size
<1> QED
  BY <1>4, <1>5, <1>6

LEMMA KeptOnward ==
  ASSUME NEW h, Ordered(h), NEW at \in Nat,
         NEW g \in 1..Len(h), NEW i \in 1..Size(h, g), Kept(h, at, g, i),
         NEW f \in 1..Len(h), NEW j \in 1..Size(h, f), g < f \/ (g = f /\ i < j)
  PROVE  Rev(h, f, j) > at /\ Kept(h, at, f, j)
<1>1. /\ Rev(h, g, i) \in Nat /\ Rev(h, f, j) \in Nat
      /\ Rev(h, g, i) < Rev(h, f, j)
  BY Apart
<1>2. Rev(h, f, j) > at
  <2>1. CASE Rev(h, g, i) > at
    BY <1>1, <2>1
  <2>2. CASE Located(h, at, g, i)
    <3> SUFFICES ASSUME ~(Rev(h, f, j) > at) PROVE FALSE
      OBVIOUS
    <3>1. Rev(h, f, j) <= at
      BY <1>1
    <3>2. Rev(h, f, j) <= Rev(h, g, i)
      BY <2>2, <3>1, LocatedOnce
    <3> QED
      BY <1>1, <3>2
  <2> QED
    BY <2>1, <2>2, KeptIs
<1> QED
  BY <1>2, KeptIs

LEMMA KeptPlaces ==
  ASSUME NEW h, Ordered(h), NEW at \in Nat
  PROVE  \E d \in 0..Len(h) : \E e \in Nat :
           (d < Len(h) => e < Size(h, d + 1)) /\ KeptFrom(h, at, d, e)
<1>1. h \in Seq(Generation)
  BY DEF Ordered
<1>2. Len(h) \in Nat /\ \A g \in 1..Len(h) : Size(h, g) \in Nat \ {0}
  BY <1>1, Parts
<1> DEFINE K == { g \in 1..Len(h) : \E i \in 1..Size(h, g) : Kept(h, at, g, i) }
<1>3. CASE K = {}
  <2>1. KeptFrom(h, at, Len(h), 0)
    <3> SUFFICES ASSUME NEW g \in 1..Len(h), NEW i \in 1..Size(h, g)
                 PROVE  ~Kept(h, at, g, i) /\ ~(g > Len(h) + 1) /\ g # Len(h) + 1
      BY DEF KeptFrom
    <3>1. ~Kept(h, at, g, i)
      BY <1>3
    <3> QED
      BY <1>2, <3>1
  <2> QED
    BY <1>2, <2>1
<1>4. CASE K # {}
  <2>1. PICK m \in K : \A g \in K : m <= g
    <3>1. K \in SUBSET Nat
      BY <1>2
    <3> HIDE DEF K
    <3> QED
      BY <1>4, <3>1, Smallest
  <2>2. m \in 1..Len(h)
    BY <2>1
  <2> DEFINE I == { i \in 1..Size(h, m) : Kept(h, at, m, i) }
  <2>3. PICK n \in I : \A i \in I : n <= i
    <3>1. I \in SUBSET Nat /\ I # {}
      BY <1>2, <2>1
    <3> HIDE DEF I
    <3> QED
      BY <3>1, Smallest
  <2>4. n \in 1..Size(h, m) /\ Kept(h, at, m, n)
    BY <2>3
  <2>5. ASSUME NEW g \in 1..Len(h), NEW i \in 1..Size(h, g)
        PROVE  Kept(h, at, g, i) <=> (g > m \/ (g = m /\ i > n - 1))
    <3>1. Kept(h, at, g, i) => g >= m /\ (g = m => i >= n)
      <4>1. Kept(h, at, g, i) => g \in K /\ (g = m => i \in I)
        OBVIOUS
      <4> HIDE DEF K, I
      <4> QED
        BY <1>2, <2>1, <2>2, <2>3, <2>4, <4>1
    <3>2. (g > m \/ (g = m /\ i > n)) => Kept(h, at, g, i)
      BY <1>2, <2>2, <2>4, KeptOnward
    <3>3. g = m /\ i = n => Kept(h, at, g, i)
      BY <2>4
    <3>4. g \in Nat /\ m \in Nat /\ i \in Nat /\ n \in Nat
      BY <1>2, <2>2, <2>4
    <3> HIDE DEF K, I
    <3> QED
      BY <3>1, <3>2, <3>3, <3>4
  <2>6. m - 1 \in 0..Len(h) /\ n - 1 \in Nat /\ n - 1 < Size(h, (m - 1) + 1) /\ (m - 1) + 1 = m
    BY <1>2, <2>2, <2>4
  <2>7. KeptFrom(h, at, m - 1, n - 1)
    BY <2>5, <2>6 DEF KeptFrom
  <2> QED
    BY <2>6, <2>7
<1> QED
  BY <1>3, <1>4

LEMMA TrimmedGeneration ==
  ASSUME NEW x \in Generation, NEW s \in Seq(Nat)
  PROVE  LET y == [x EXCEPT !.revs = s]
         IN  /\ y \in [created : Nat, ver : Nat, revs : Seq(Nat), closed : BOOLEAN]
             /\ y.created = x.created /\ y.ver = x.ver /\ y.revs = s /\ y.closed = x.closed
             /\ s # <<>> => y \in Generation
<1> DEFINE y == [x EXCEPT !.revs = s]
<1>1. y = [created |-> x.created, ver |-> x.ver, revs |-> s, closed |-> x.closed]
  BY DEF Generation
<1>2. x.created \in Nat /\ x.ver \in Nat /\ x.closed \in BOOLEAN
  BY DEF Generation, Revision
<1> HIDE DEF y
<1>3. y.created = x.created /\ y.ver = x.ver /\ y.revs = s /\ y.closed = x.closed
  BY <1>1
<1>4. y \in [created : Nat, ver : Nat, revs : Seq(Nat), closed : BOOLEAN]
  BY <1>1, <1>2
<1>5. s # <<>> => y \in Generation
  BY <1>1, <1>2 DEF Generation, Revision
<1> QED
  BY <1>3, <1>4, <1>5 DEF y

LEMMA CompactCuts ==
  ASSUME NEW h, Ordered(h), NEW at \in Nat, NEW d \in 0..Len(h), NEW e \in Nat,
         d < Len(h) => e < Size(h, d + 1), KeptFrom(h, at, d, e)
  PROVE  /\ CompactHistory(h, at) \in Seq(Generation)
         /\ Cut(h, CompactHistory(h, at), d, e)
<1>1. h \in Seq(Generation)
  BY DEF Ordered
<1>2. /\ Len(h) \in Nat /\ DOMAIN h = 1..Len(h)
      /\ \A g \in 1..Len(h) : /\ Size(h, g) \in Nat \ {0} /\ h[g] \in Generation
                              /\ h[g].revs \in Seq(Nat) /\ DOMAIN h[g].revs = 1..Size(h, g)
  BY <1>1, Parts
<1> DEFINE E == [created : Nat, ver : Nat, revs : Seq(Nat), closed : BOOLEAN]
           trimmed == [g \in DOMAIN h |-> [h[g] EXCEPT !.revs = KeptRevs(h, at, g)]]
           places == { g \in DOMAIN h : trimmed[g].revs # <<>> }
           k == Selected(trimmed, places)
           Gone(g) == IF g > d + 1 THEN 0 ELSE IF g = d + 1 THEN e ELSE Size(h, g)
<1>3. CompactHistory(h, at) = k
  BY DEF CompactHistory
<1>4. ASSUME NEW g \in 1..Len(h)
      PROVE  /\ KeptRevs(h, at, g) \in Seq(Nat)
             /\ Gone(g) \in 0..Size(h, g)
             /\ Len(KeptRevs(h, at, g)) = Size(h, g) - Gone(g)
             /\ \A i \in 1..Size(h, g) - Gone(g) : KeptRevs(h, at, g)[i] = Rev(h, g, i + Gone(g))
  <2> DEFINE s == h[g].revs
             P == { i \in DOMAIN s : Kept(h, at, g, i) }
  <2>1. s \in Seq(Nat) /\ Len(s) = Size(h, g) /\ DOMAIN s = 1..Len(s)
    BY <1>2 DEF Size
  <2>2. Gone(g) \in 0..Len(s)
    <3>1. g = d + 1 => d < Len(h)
      BY <1>2
    <3>2. e \in Nat /\ Size(h, g) \in Nat
      BY <1>2
    <3> QED
      BY <2>1, <3>1, <3>2
  <2>3. \A i \in 1..Len(s) : i \in P <=> i > Gone(g)
    <3> SUFFICES ASSUME NEW i \in 1..Len(s) PROVE i \in P <=> i > Gone(g)
      OBVIOUS
    <3>1. i \in P <=> (g > d + 1 \/ (g = d + 1 /\ i > e))
      BY <2>1 DEF KeptFrom
    <3>2. g \in Nat /\ d \in Nat /\ i \in Nat /\ Size(h, g) \in Nat /\ i <= Size(h, g) /\ i > 0
      BY <1>2, <2>1
    <3> HIDE DEF P, s
    <3> QED
      BY <3>1, <3>2
  <2>4. KeptRevs(h, at, g) = Selected(s, P)
    BY DEF KeptRevs
  <2> HIDE DEF P, Gone
  <2>5. /\ Selected(s, P) \in Seq(Nat)
        /\ Len(Selected(s, P)) = Len(s) - Gone(g)
        /\ \A i \in 1..Len(s) - Gone(g) : Selected(s, P)[i] = s[Gone(g) + i]
    <3> DEFINE a == Gone(g)
    <3>1. a \in 0..Len(s) /\ s \in Seq(Nat) /\ \A i \in 1..Len(s) : i \in P <=> i > a
      BY <2>1, <2>2, <2>3
    <3> HIDE DEF s, a
    <3>2. /\ Selected(s, P) \in Seq(Nat)
          /\ Len(Selected(s, P)) = Len(s) - a
          /\ \A i \in 1..Len(s) - a : Selected(s, P)[i] = s[a + i]
      BY <3>1, SelectedEnd
    <3> QED
      BY <3>2 DEF a
  <2>6. ASSUME NEW i \in 1..Size(h, g) - Gone(g) PROVE Gone(g) + i = i + Gone(g)
    BY <2>1, <2>2
  <2>7. \A i : s[i] = Rev(h, g, i)
    BY DEF Rev
  <2> QED
    BY <2>1, <2>2, <2>4, <2>5, <2>6, <2>7
<1>5. ASSUME NEW g \in 1..Len(h)
      PROVE  /\ trimmed[g] \in E
             /\ trimmed[g].created = Born(h, g) /\ trimmed[g].ver = Count(h, g)
             /\ trimmed[g].closed = Shut(h, g) /\ trimmed[g].revs = KeptRevs(h, at, g)
             /\ KeptRevs(h, at, g) # <<>> => trimmed[g] \in Generation
  <2>1. trimmed[g] = [h[g] EXCEPT !.revs = KeptRevs(h, at, g)]
    BY <1>2
  <2>2. h[g] \in Generation /\ KeptRevs(h, at, g) \in Seq(Nat)
    BY <1>2, <1>4
  <2> HIDE DEF trimmed
  <2> QED
    BY <2>1, <2>2, TrimmedGeneration DEF Born, Count, Shut
<1>6. trimmed \in Seq(E) /\ Len(trimmed) = Len(h)
  <2>1. trimmed \in [1..Len(h) -> E]
    <3>1. \A g \in 1..Len(h) : trimmed[g] \in E
      BY <1>5
    <3>2. DOMAIN trimmed = 1..Len(h) /\ trimmed = [g \in 1..Len(h) |-> trimmed[g]]
      BY <1>2
    <3> HIDE DEF trimmed, E
    <3> QED
      BY <3>1, <3>2
  <2> HIDE DEF trimmed, E
  <2> QED
    BY <1>2, <2>1
<1>7. \A g \in 1..Len(h) : g \in places <=> g > d
  <2> SUFFICES ASSUME NEW g \in 1..Len(h) PROVE g \in places <=> g > d
    OBVIOUS
  <2>1. g \in places <=> KeptRevs(h, at, g) # <<>>
    BY <1>2, <1>5
  <2>2. KeptRevs(h, at, g) # <<>> <=> Size(h, g) - Gone(g) # 0
    <3> DEFINE s == KeptRevs(h, at, g)
    <3>1. s \in Seq(Nat) /\ Len(s) = Size(h, g) - Gone(g)
      BY <1>4
    <3> HIDE DEF s, Gone
    <3>2. s # <<>> <=> Len(s) # 0
      BY <3>1
    <3> QED
      BY <3>1, <3>2 DEF s
  <2>3. Size(h, g) - Gone(g) # 0 <=> g > d
    <3>1. g = d + 1 => e < Size(h, g)
      BY <1>2
    <3>2. g \in Nat /\ d \in Nat /\ e \in Nat /\ Size(h, g) \in Nat \ {0}
      BY <1>2
    <3> QED
      BY <3>1, <3>2
  <2> QED
    BY <2>1, <2>2, <2>3
<1> HIDE DEF E, trimmed, places
<1>8. /\ k \in Seq(E) /\ Len(k) = Len(h) - d
      /\ \A j \in 1..Len(h) - d : k[j] = trimmed[d + j]
  BY <1>6, <1>7, SelectedEnd
<1> HIDE DEF k
<1>9. ASSUME NEW g \in 1..Len(k)
      PROVE  /\ k[g] \in Generation
             /\ Size(k, g) = Size(h, d + g) - Off(g, e)
             /\ Shut(k, g) = Shut(h, d + g)
             /\ Born(k, g) = Born(h, d + g) /\ Count(k, g) = Count(h, d + g)
             /\ \A i \in 1..Size(k, g) : Rev(k, g, i) = Rev(h, d + g, i + Off(g, e))
  <2>1. d + g \in 1..Len(h) /\ g \in 1..Len(h) - d /\ d + g > d
    BY <1>2, <1>8
  <2>2. Gone(d + g) = Off(g, e)
    <3>1. d \in Nat /\ g \in Nat /\ g > 0
      BY <1>2, <1>8
    <3> QED
      BY <3>1 DEF Off
  <2> DEFINE f == d + g
             s == KeptRevs(h, at, f)
  <2>3. /\ s \in Seq(Nat) /\ Len(s) = Size(h, f) - Off(g, e)
        /\ \A i \in 1..Size(h, f) - Off(g, e) : s[i] = Rev(h, f, i + Off(g, e))
    BY <1>4, <2>1, <2>2
  <2>4. k[g] = trimmed[f]
    BY <1>8, <2>1
  <2>5. /\ k[g].created = Born(h, f) /\ k[g].ver = Count(h, f)
        /\ k[g].closed = Shut(h, f) /\ k[g].revs = s
        /\ s # <<>> => k[g] \in Generation
    BY <1>5, <2>1, <2>4
  <2>6. s # <<>>
    BY <1>5, <1>7, <2>1 DEF places
  <2> HIDE DEF s, f
  <2>7. /\ k[g] \in Generation /\ Size(k, g) = Size(h, f) - Off(g, e) /\ Shut(k, g) = Shut(h, f)
        /\ Born(k, g) = Born(h, f) /\ Count(k, g) = Count(h, f)
        /\ \A i \in 1..Size(k, g) : Rev(k, g, i) = Rev(h, f, i + Off(g, e))
    BY <2>3, <2>5, <2>6 DEF Size, Shut, Born, Count, Rev
  <2> QED
    BY <2>7 DEF f
<1>10. k \in Seq(Generation)
  <2>1. \A g \in 1..Len(k) : k[g] \in Generation
    BY <1>9
  <2> QED
    BY <1>8, <2>1
<1>11. Cut(h, k, d, e)
  BY <1>8, <1>9 DEF Cut
<1> QED
  BY <1>3, <1>10, <1>11

LEMMA CutPlaces ==
  ASSUME NEW h, Ordered(h), NEW k \in Seq(Generation), NEW d, NEW e, Cut(h, k, d, e),
         NEW g \in 1..Len(k), NEW i \in 1..Size(k, g)
  PROVE  /\ d \in Nat /\ e \in Nat /\ Off(g, e) \in Nat /\ g \in Nat /\ i \in Nat
         /\ d + g \in 1..Len(h) /\ i + Off(g, e) \in 1..Size(h, d + g)
         /\ d + g > d + 1 \/ (d + g = d + 1 /\ i + Off(g, e) > e)
         /\ Rev(k, g, i) = Rev(h, d + g, i + Off(g, e))
         /\ Tomb(k, g, i) <=> Tomb(h, d + g, i + Off(g, e))
         /\ Observed(k, g, i) = Observed(h, d + g, i + Off(g, e))
         /\ Size(k, g) = Size(h, d + g) - Off(g, e) /\ Size(h, d + g) \in Nat
<1>1. h \in Seq(Generation)
  BY DEF Ordered
<1>2. d \in 0..Len(h) /\ e \in Nat /\ Len(k) = Len(h) - d /\ Len(h) \in Nat
  BY <1>1 DEF Cut
<1>3. d + g \in 1..Len(h) /\ g \in Nat /\ d \in Nat /\ g > 0
  BY <1>2
<1>4. /\ Size(h, d + g) \in Nat \ {0} /\ Count(h, d + g) \in Nat
      /\ Size(k, g) \in Nat \ {0} /\ i \in Nat /\ i > 0
  BY <1>1, <1>3, Parts
<1>5. /\ Size(k, g) = Size(h, d + g) - Off(g, e)
      /\ Shut(k, g) = Shut(h, d + g)
      /\ Born(k, g) = Born(h, d + g) /\ Count(k, g) = Count(h, d + g)
      /\ Rev(k, g, i) = Rev(h, d + g, i + Off(g, e))
  BY DEF Cut
<1>6. Off(g, e) \in Nat /\ (g = 1 => Off(g, e) = e)
  BY <1>2 DEF Off
<1>7. i + Off(g, e) \in 1..Size(h, d + g) /\ (i + Off(g, e) = Size(h, d + g) <=> i = Size(k, g))
  BY <1>4, <1>5, <1>6
<1>8. d + g > d + 1 \/ (d + g = d + 1 /\ i + Off(g, e) > e)
  BY <1>2, <1>3, <1>4, <1>6
<1>9. Tomb(k, g, i) <=> Tomb(h, d + g, i + Off(g, e))
  BY <1>5, <1>7 DEF Tomb
<1>10. Observed(k, g, i) = Observed(h, d + g, i + Off(g, e))
  <2>1. Count(k, g) - (Size(k, g) - i) = Count(h, d + g) - (Size(h, d + g) - (i + Off(g, e)))
    BY <1>4, <1>5, <1>6
  <2> QED
    BY <1>5, <2>1 DEF Observed
<1> QED
  BY <1>2, <1>3, <1>4, <1>5, <1>6, <1>7, <1>8, <1>9, <1>10

LEMMA CutReaches ==
  ASSUME NEW h, Ordered(h), NEW k \in Seq(Generation), NEW d, NEW e, Cut(h, k, d, e),
         NEW f \in 1..Len(h), NEW j \in 1..Size(h, f), f > d + 1 \/ (f = d + 1 /\ j > e)
  PROVE  /\ f - d \in 1..Len(k) /\ j - Off(f - d, e) \in 1..Size(k, f - d)
         /\ d + (f - d) = f /\ (j - Off(f - d, e)) + Off(f - d, e) = j
<1>1. h \in Seq(Generation)
  BY DEF Ordered
<1>2. d \in 0..Len(h) /\ e \in Nat /\ Len(k) = Len(h) - d /\ Len(h) \in Nat
  BY <1>1 DEF Cut
<1>3. f - d \in 1..Len(k) /\ d + (f - d) = f /\ (f - d = 1 <=> f = d + 1)
  BY <1>2
<1>4. Size(k, f - d) = Size(h, f) - Off(f - d, e)
  BY <1>3 DEF Cut
<1>5. Off(f - d, e) \in Nat /\ Off(f - d, e) < j
  <2>1. Size(h, f) \in Nat /\ j \in Nat /\ j > 0
    BY <1>1, Parts
  <2> QED
    BY <1>2, <1>3, <2>1 DEF Off
<1>6. Size(h, f) \in Nat /\ j \in Nat /\ j <= Size(h, f)
  BY <1>1, Parts
<1> QED
  BY <1>3, <1>4, <1>5, <1>6

LEMMA CutOrdered ==
  ASSUME NEW h, Ordered(h), NEW at \in Nat, NEW k \in Seq(Generation), NEW d, NEW e,
         Cut(h, k, d, e), KeptFrom(h, at, d, e)
  PROVE  Ordered(k)
<1>1. h \in Seq(Generation)
  BY DEF Ordered
<1>2. /\ Len(k) \in Nat /\ Len(h) \in Nat
      /\ \A g \in 1..Len(k) : Size(k, g) \in Nat \ {0} /\ Shut(k, g) \in BOOLEAN
      /\ \A g \in 1..Len(h) : /\ Size(h, g) \in Nat \ {0}
                              /\ \A i \in 1..Size(h, g) : Rev(h, g, i) \in Nat
  BY <1>1, Parts
<1>3. d \in 0..Len(h) /\ e \in Nat /\ Len(k) = Len(h) - d
  BY DEF Cut
<1>4. ASSUME NEW g \in 1..Len(k), NEW f \in 1..Len(k),
             NEW i \in 1..Size(k, g), NEW j \in 1..Size(k, f), g < f \/ (g = f /\ i < j)
      PROVE  Rev(k, g, i) < Rev(k, f, j)
  <2>1. /\ d + g \in 1..Len(h) /\ i + Off(g, e) \in 1..Size(h, d + g)
        /\ Rev(k, g, i) = Rev(h, d + g, i + Off(g, e))
        /\ d \in Nat /\ g \in Nat /\ Off(g, e) \in Nat /\ i \in Nat
    BY CutPlaces
  <2>2. /\ d + f \in 1..Len(h) /\ j + Off(f, e) \in 1..Size(h, d + f)
        /\ Rev(k, f, j) = Rev(h, d + f, j + Off(f, e))
        /\ f \in Nat /\ j \in Nat
    BY CutPlaces
  <2>3. d + g < d + f \/ (d + g = d + f /\ i + Off(g, e) < j + Off(f, e))
    BY <1>4, <2>1, <2>2
  <2> QED
    BY <2>1, <2>2, <2>3 DEF Ordered
<1>5. ASSUME NEW g \in 1..Len(k) PROVE g < Len(k) => Shut(k, g)
  <2> SUFFICES ASSUME g < Len(k) PROVE Shut(k, g)
    OBVIOUS
  <2>1. d + g \in 1..Len(h) /\ d + g < Len(h)
    BY <1>2, <1>3
  <2>2. Shut(h, d + g)
    BY <2>1 DEF Ordered
  <2>3. Shut(k, g) = Shut(h, d + g)
    BY DEF Cut
  <2> QED
    BY <2>2, <2>3
<1>6. ASSUME NEW g \in 1..Len(k), Shut(k, g) PROVE Size(k, g) >= 2
  <2> DEFINE f == d + g
             s == Size(h, f)
  <2>1. f \in 1..Len(h) /\ Shut(h, f) /\ Size(k, g) = s - Off(g, e)
    BY <1>2, <1>3, <1>6 DEF Cut
  <2>2. s >= 2 /\ s \in Nat
    BY <1>2, <2>1 DEF Ordered
  <2>3. CASE g # 1
    BY <2>1, <2>2, <2>3 DEF Off
  <2>4. CASE g = 1
    <3> SUFFICES ASSUME ~(Size(k, g) >= 2) PROVE FALSE
      OBVIOUS
    <3>1. Size(k, g) = s - e /\ f = d + 1 /\ Size(k, g) \in Nat \ {0} /\ f \in Nat
      BY <1>2, <1>3, <2>1, <2>4 DEF Off
    <3>2. e = s - 1
      BY <1>3, <2>2, <3>1
    <3>3. s - 1 \in 1..s /\ s \in 1..s /\ s - 1 \in Nat
      BY <2>2
    <3>4. ~Kept(h, at, f, s - 1)
      <4>1. ~(f > d + 1 \/ (f = d + 1 /\ s - 1 > e))
        BY <1>3, <2>2, <3>1, <3>2
      <4> QED
        BY <2>1, <3>3, <4>1 DEF KeptFrom
    <3>5. Kept(h, at, f, s)
      <4>1. f = d + 1 /\ s > e
        BY <1>3, <2>2, <3>1, <3>2
      <4> QED
        BY <2>1, <3>3, <4>1 DEF KeptFrom
    <3>6. Rev(h, f, s) > at
      <4>1. ~Located(h, at, f, s)
        BY <2>1 DEF Located, Tomb
      <4> QED
        BY <2>1, <3>3, <3>5, <4>1, KeptIs
    <3>7. Located(h, at, f, s - 1)
      <4>1. Rev(h, f, s - 1) <= at
        <5>1. ~(Rev(h, f, s - 1) > at) /\ Rev(h, f, s - 1) \in Nat
          BY <1>2, <2>1, <3>3, <3>4, KeptIs
        <5> QED
          BY <5>1
      <4>2. ~Tomb(h, f, s - 1)
        BY <2>2 DEF Tomb
      <4>3. (s - 1) + 1 = s
        BY <2>2
      <4>4. f < Len(h) => Rev(h, f + 1, 1) > at
        <5> SUFFICES ASSUME f < Len(h) PROVE Rev(h, f + 1, 1) > at
          OBVIOUS
        <5>1. f + 1 \in 1..Len(h) /\ f < f + 1
          BY <1>2, <2>1
        <5>2. 1 \in 1..Size(h, f + 1)
          BY <1>2, <5>1
        <5>3. Rev(h, f, s) < Rev(h, f + 1, 1)
          BY <2>1, <3>3, <5>1, <5>2 DEF Ordered
        <5>4. Rev(h, f, s) \in Nat /\ Rev(h, f + 1, 1) \in Nat
          BY <1>2, <2>1, <3>3, <5>1, <5>2
        <5> QED
          BY <3>6, <5>3, <5>4
      <4> HIDE DEF s
      <4> QED
        BY <2>1, <3>3, <3>6, <4>1, <4>2, <4>3, <4>4 DEF Located, s
    <3> QED
      BY <2>1, <3>3, <3>4, <3>7, KeptIs
  <2> QED
    BY <2>3, <2>4
<1> QED
  BY <1>4, <1>5, <1>6 DEF Ordered

LEMMA CutLocated ==
  ASSUME NEW h, Ordered(h), NEW k, Ordered(k), NEW d, NEW e, Cut(h, k, d, e), NEW at \in Nat,
         NEW g \in 1..Len(k), NEW i \in 1..Size(k, g)
  PROVE  Located(k, at, g, i) <=> Located(h, at, d + g, i + Off(g, e))
<1>1. h \in Seq(Generation) /\ k \in Seq(Generation)
  BY DEF Ordered
<1>2. Len(k) \in Nat /\ Len(h) \in Nat /\ Len(k) = Len(h) - d /\ d \in Nat
  BY <1>1 DEF Cut
<1>3. /\ d + g \in 1..Len(h) /\ i + Off(g, e) \in 1..Size(h, d + g)
      /\ Rev(k, g, i) = Rev(h, d + g, i + Off(g, e))
      /\ Tomb(k, g, i) <=> Tomb(h, d + g, i + Off(g, e))
      /\ g \in Nat /\ Off(g, e) \in Nat /\ i \in Nat
      /\ Size(k, g) = Size(h, d + g) - Off(g, e) /\ Size(h, d + g) \in Nat
  BY <1>1, CutPlaces
<1>4. i < Size(k, g) <=> i + Off(g, e) < Size(h, d + g)
  BY <1>3
<1>5. i < Size(k, g) => Rev(k, g, i + 1) = Rev(h, d + g, i + Off(g, e) + 1)
  <2> SUFFICES ASSUME i < Size(k, g) PROVE Rev(k, g, i + 1) = Rev(h, d + g, i + Off(g, e) + 1)
    OBVIOUS
  <2>1. i + 1 \in 1..Size(k, g) /\ (i + 1) + Off(g, e) = i + Off(g, e) + 1
    BY <1>3
  <2>2. Rev(k, g, i + 1) = Rev(h, d + g, (i + 1) + Off(g, e))
    BY <1>1, <2>1, CutPlaces
  <2> QED
    BY <2>1, <2>2
<1>6. g < Len(k) <=> d + g < Len(h)
  BY <1>2, <1>3
<1>7. g < Len(k) => Rev(k, g + 1, 1) = Rev(h, d + g + 1, 1)
  <2> SUFFICES ASSUME g < Len(k) PROVE Rev(k, g + 1, 1) = Rev(h, d + g + 1, 1)
    OBVIOUS
  <2>1. g + 1 \in 1..Len(k) /\ d + (g + 1) = d + g + 1 /\ g + 1 # 1
    BY <1>2, <1>3
  <2>2. 1 \in 1..Size(k, g + 1)
    BY <1>1, <2>1, Parts
  <2>3. Rev(k, g + 1, 1) = Rev(h, d + (g + 1), 1 + Off(g + 1, e))
    BY <1>1, <2>1, <2>2, CutPlaces, SMTT(30)
  <2>4. 1 + Off(g + 1, e) = 1
    BY <2>1 DEF Off
  <2> QED
    BY <2>1, <2>3, <2>4
<1> QED
  BY <1>3, <1>4, <1>5, <1>6, <1>7 DEF Located

LEMMA LocatedKept ==
  ASSUME NEW h, Ordered(h), NEW at \in Nat, NEW a \in Nat, at <= a,
         NEW g \in Nat, NEW i \in Nat, Located(h, a, g, i)
  PROVE  Kept(h, at, g, i)
<1>1. h \in Seq(Generation)
  BY DEF Ordered
<1>2. /\ g \in 1..Len(h) /\ i \in 1..Size(h, g) /\ Rev(h, g, i) <= a /\ ~Tomb(h, g, i)
      /\ i < Size(h, g) => Rev(h, g, i + 1) > a
      /\ g < Len(h) => Rev(h, g + 1, 1) > a
  BY DEF Located
<1>3. /\ Len(h) \in Nat
      /\ \A f \in 1..Len(h) : /\ Size(h, f) \in Nat \ {0}
                              /\ \A j \in 1..Size(h, f) : Rev(h, f, j) \in Nat
  BY <1>1, Parts
<1>4. i < Size(h, g) => Rev(h, g, i + 1) > at
  <2>1. i < Size(h, g) => i + 1 \in 1..Size(h, g)
    BY <1>2, <1>3
  <2> QED
    BY <1>2, <1>3, <2>1
<1>5. g < Len(h) => Rev(h, g + 1, 1) > at
  <2> SUFFICES ASSUME g < Len(h) PROVE Rev(h, g + 1, 1) > at
    OBVIOUS
  <2>1. g + 1 \in 1..Len(h)
    BY <1>2, <1>3
  <2>2. 1 \in 1..Size(h, g + 1)
    BY <1>3, <2>1
  <2>3. Rev(h, g + 1, 1) \in Nat
    BY <1>3, <2>1, <2>2
  <2> QED
    BY <1>2, <2>3
<1>6. Rev(h, g, i) > at \/ Located(h, at, g, i)
  <2>1. Rev(h, g, i) \in Nat
    BY <1>2, <1>3
  <2> QED
    BY <1>2, <1>4, <1>5, <2>1 DEF Located
<1> QED
  BY <1>2, <1>6, KeptIs

LEMMA DroppedPlace ==
  ASSUME NEW h, Ordered(h), NEW at, NEW q
  PROVE  q \in DroppedOf(h, at) <=>
           \E g \in 1..Len(h) : \E i \in 1..Size(h, g) : Rev(h, g, i) = q /\ ~Kept(h, at, g, i)
<1>1. h \in Seq(Generation)
  BY DEF Ordered
<1>2. DOMAIN h = 1..Len(h) /\ \A g \in 1..Len(h) : DOMAIN h[g].revs = 1..Size(h, g)
  BY <1>1, Parts
<1>3. q \in DroppedOf(h, at) <=>
        \E g \in DOMAIN h : \E i \in DOMAIN h[g].revs : Rev(h, g, i) = q /\ ~Kept(h, at, g, i)
  BY DEF DroppedOf, Rev
<1> QED
  BY <1>2, <1>3

(* Dropped is what is listed up to the watermark and not found there.      *)
LEMMA DroppedIs ==
  ASSUME NEW h, Ordered(h), NEW at \in Nat, NEW q
  PROVE  q \in DroppedOf(h, at) <=>
           /\ q \in Nat /\ q <= at /\ ~Finds(h, at, q)
           /\ Lists(h, q, FALSE) \/ Lists(h, q, TRUE)
<1>1. h \in Seq(Generation)
  BY DEF Ordered
<1>2. /\ Len(h) \in Nat
      /\ \A f \in 1..Len(h) : /\ Size(h, f) \in Nat
                              /\ \A j \in 1..Size(h, f) : Rev(h, f, j) \in Nat
  BY <1>1, Parts
<1>3. ASSUME NEW g \in 1..Len(h), NEW i \in 1..Size(h, g), Rev(h, g, i) = q
      PROVE  ~Kept(h, at, g, i) <=> q <= at /\ ~Finds(h, at, q)
  <2>1. q \in Nat /\ g \in Nat /\ i \in Nat
    BY <1>2, <1>3
  <2>2. Finds(h, at, q) <=> Located(h, at, g, i)
    <3>1. Located(h, at, g, i) => Finds(h, at, q)
      BY <1>3, <2>1 DEF Finds
    <3>2. ASSUME NEW f \in Nat, NEW j \in Nat, Located(h, at, f, j), Rev(h, f, j) = q
          PROVE  f = g /\ j = i
      <4>1. f \in 1..Len(h) /\ j \in 1..Size(h, f)
        BY <3>2 DEF Located
      <4> QED
        BY <1>3, <3>2, <4>1, Apart
    <3> QED
      BY <3>1, <3>2 DEF Finds
  <2>3. Kept(h, at, g, i) <=> (q > at \/ Located(h, at, g, i))
    BY <1>3, KeptIs
  <2> QED
    BY <2>1, <2>2, <2>3
<1>4. (Lists(h, q, FALSE) \/ Lists(h, q, TRUE)) <=>
        \E g \in 1..Len(h) : \E i \in 1..Size(h, g) : Rev(h, g, i) = q
  BY DEF Lists, Tomb
<1>5. q \in DroppedOf(h, at) <=>
        \E g \in 1..Len(h) : \E i \in 1..Size(h, g) : Rev(h, g, i) = q /\ ~Kept(h, at, g, i)
  BY DroppedPlace
<1> QED
  BY <1>2, <1>3, <1>4, <1>5

LEMMA HistoryCompacts ==
  ASSUME NEW h, Ordered(h), NEW at \in Nat
  PROVE  /\ Ordered(CompactHistory(h, at))
         /\ \A q : \A t \in BOOLEAN :
              Lists(CompactHistory(h, at), q, t) <=> (Lists(h, q, t) /\ q \notin DroppedOf(h, at))
         /\ \A a \in Nat : a >= at => Found(CompactHistory(h, at), a) = Found(h, a)
<1> DEFINE k == CompactHistory(h, at)
<1>1. h \in Seq(Generation)
  BY DEF Ordered
<1>2. PICK d \in 0..Len(h), e \in Nat :
        (d < Len(h) => e < Size(h, d + 1)) /\ KeptFrom(h, at, d, e)
  BY KeptPlaces
<1>3. k \in Seq(Generation) /\ Cut(h, k, d, e)
  BY <1>2, CompactCuts
<1> HIDE DEF k
<1>4. Ordered(k)
  BY <1>2, <1>3, CutOrdered
<1>5. /\ Len(h) \in Nat /\ d \in Nat
      /\ \A f \in 1..Len(h) : f \in Nat /\ Size(h, f) \in Nat
  BY <1>1, Parts
<1>6. ASSUME NEW g \in 1..Len(k), NEW i \in 1..Size(k, g)
      PROVE  /\ d + g \in 1..Len(h) /\ i + Off(g, e) \in 1..Size(h, d + g)
             /\ Kept(h, at, d + g, i + Off(g, e))
             /\ Rev(k, g, i) = Rev(h, d + g, i + Off(g, e))
             /\ Tomb(k, g, i) <=> Tomb(h, d + g, i + Off(g, e))
             /\ Observed(k, g, i) = Observed(h, d + g, i + Off(g, e))
  <2>1. /\ d + g \in 1..Len(h) /\ i + Off(g, e) \in 1..Size(h, d + g)
        /\ d + g > d + 1 \/ (d + g = d + 1 /\ i + Off(g, e) > e)
        /\ Rev(k, g, i) = Rev(h, d + g, i + Off(g, e))
        /\ Tomb(k, g, i) <=> Tomb(h, d + g, i + Off(g, e))
        /\ Observed(k, g, i) = Observed(h, d + g, i + Off(g, e))
    BY <1>3, CutPlaces, SMTT(30)
  <2>2. Kept(h, at, d + g, i + Off(g, e))
    BY <1>2, <2>1 DEF KeptFrom
  <2> QED
    BY <2>1, <2>2
<1>7. ASSUME NEW f \in 1..Len(h), NEW j \in 1..Size(h, f), Kept(h, at, f, j)
      PROVE  \E g \in 1..Len(k) : \E i \in 1..Size(k, g) : d + g = f /\ i + Off(g, e) = j
  <2>1. f > d + 1 \/ (f = d + 1 /\ j > e)
    BY <1>2, <1>7 DEF KeptFrom
  <2> QED
    BY <1>3, <2>1, CutReaches
<1>8. ASSUME NEW q, NEW t \in BOOLEAN
      PROVE  Lists(k, q, t) <=> (Lists(h, q, t) /\ q \notin DroppedOf(h, at))
  <2>1. q \in DroppedOf(h, at) <=>
          \E g \in 1..Len(h) : \E i \in 1..Size(h, g) : Rev(h, g, i) = q /\ ~Kept(h, at, g, i)
    BY DroppedPlace
  <2>2. ASSUME NEW g \in 1..Len(k), NEW i \in 1..Size(k, g), Rev(k, g, i) = q, t <=> Tomb(k, g, i)
        PROVE  Lists(h, q, t) /\ q \notin DroppedOf(h, at)
    <3> DEFINE f == d + g
               j == i + Off(g, e)
    <3>1. /\ f \in 1..Len(h) /\ j \in 1..Size(h, f) /\ Kept(h, at, f, j)
          /\ Rev(h, f, j) = q /\ (t <=> Tomb(h, f, j))
      BY <1>6, <2>2 DEF Tomb
    <3> HIDE DEF f, j
    <3>2. Lists(h, q, t)
      BY <3>1 DEF Lists, Tomb
    <3>3. ASSUME NEW b \in 1..Len(h), NEW c \in 1..Size(h, b), Rev(h, b, c) = q
          PROVE  Kept(h, at, b, c)
      <4>1. b = f /\ c = j
        BY <3>1, <3>3, Apart
      <4> QED
        BY <3>1, <4>1
    <3> QED
      BY <2>1, <3>2, <3>3
  <2>3. ASSUME NEW f \in 1..Len(h), NEW j \in 1..Size(h, f), Rev(h, f, j) = q,
               t <=> Tomb(h, f, j), q \notin DroppedOf(h, at)
        PROVE  Lists(k, q, t)
    <3>1. Kept(h, at, f, j)
      BY <2>1, <2>3
    <3>2. PICK g \in 1..Len(k) : \E i \in 1..Size(k, g) : d + g = f /\ i + Off(g, e) = j
      BY <1>7, <3>1
    <3>3. PICK i \in 1..Size(k, g) : d + g = f /\ i + Off(g, e) = j
      BY <3>2
    <3>4. Rev(k, g, i) = q /\ (t <=> Tomb(k, g, i))
      BY <1>6, <2>3, <3>3 DEF Tomb
    <3> QED
      BY <3>4 DEF Lists, Tomb
  <2> QED
    BY <2>2, <2>3 DEF Lists
<1>9. ASSUME NEW a \in Nat, a >= at PROVE Found(k, a) = Found(h, a)
  <2>1. \A x : x \in Found(h, a) <=> \E g, i \in Nat : Located(h, a, g, i) /\ x = Observed(h, g, i)
    BY FoundIs
  <2>2. \A x : x \in Found(k, a) <=> \E g, i \in Nat : Located(k, a, g, i) /\ x = Observed(k, g, i)
    BY <1>4, FoundIs
  <2>3. ASSUME NEW x, NEW g \in Nat, NEW i \in Nat, Located(k, a, g, i), x = Observed(k, g, i)
        PROVE  x \in Found(h, a)
    <3>1. g \in 1..Len(k) /\ i \in 1..Size(k, g)
      BY <2>3 DEF Located
    <3> DEFINE f == d + g
               j == i + Off(g, e)
    <3>2. Located(h, a, f, j) /\ x = Observed(h, f, j) /\ f \in 1..Len(h) /\ j \in 1..Size(h, f)
      BY <1>3, <1>4, <1>6, <2>3, <3>1, CutLocated
    <3> HIDE DEF f, j
    <3>3. f \in Nat /\ j \in Nat
      BY <1>5, <3>2
    <3> QED
      BY <2>1, <3>2, <3>3
  <2>4. ASSUME NEW x, NEW f \in Nat, NEW j \in Nat, Located(h, a, f, j), x = Observed(h, f, j)
        PROVE  x \in Found(k, a)
    <3>1. f \in 1..Len(h) /\ j \in 1..Size(h, f)
      BY <2>4 DEF Located
    <3>2. Kept(h, at, f, j)
      BY <1>9, <2>4, LocatedKept
    <3>3. PICK g \in 1..Len(k) : \E i \in 1..Size(k, g) : d + g = f /\ i + Off(g, e) = j
      BY <1>7, <3>1, <3>2
    <3>4. PICK i \in 1..Size(k, g) : d + g = f /\ i + Off(g, e) = j
      BY <3>3
    <3>5. Located(k, a, g, i) /\ x = Observed(k, g, i)
      BY <1>3, <1>4, <1>6, <2>4, <3>4, CutLocated
    <3>6. g \in Nat /\ i \in Nat
      BY <1>3, Parts
    <3> QED
      BY <2>2, <3>5, <3>6
  <2>5. \A x : x \in Found(k, a) <=> x \in Found(h, a)
    BY <2>1, <2>2, <2>3, <2>4
  <2> QED
    BY <2>5
<1> QED
  BY <1>4, <1>8, <1>9 DEF k

(* Before what is dropped everything is, and a put is dropped for what     *)
(* follows it.                                                             *)
LEMMA DroppedFirst ==
  ASSUME NEW h, Ordered(h), NEW at \in Nat, NEW q \in DroppedOf(h, at)
  PROVE  /\ q \in Nat /\ q <= at
         /\ Lists(h, q, FALSE) =>
              \E u \in q + 1..at : Lists(h, u, FALSE) \/ Lists(h, u, TRUE)
         /\ \A r \in Nat : r < q /\ Lists(h, r, FALSE) => r \in DroppedOf(h, at)
<1>1. /\ q \in Nat /\ q <= at /\ ~Finds(h, at, q)
      /\ Lists(h, q, FALSE) \/ Lists(h, q, TRUE)
  BY DroppedIs
<1>2. \A r : Finds(h, at, r) <=>
           /\ r \in Nat /\ r <= at /\ Lists(h, r, FALSE)
           /\ \A u \in r + 1..at : ~Lists(h, u, FALSE) /\ ~Lists(h, u, TRUE)
  BY FindsListed
<1>3. ASSUME NEW r \in Nat, r < q, Lists(h, r, FALSE) PROVE r \in DroppedOf(h, at)
  <2>1. r <= at /\ q \in r + 1..at
    BY <1>1, <1>3
  <2>2. ~Finds(h, at, r)
    BY <1>1, <1>2, <2>1
  <2> QED
    BY <1>3, <2>1, <2>2, DroppedIs
<1> QED
  BY <1>1, <1>2, <1>3

-----------------------------------------------------------------------------
(* A listing determines its history, but for the counts.                   *)

SameLists(h, k) == \A q : \A t \in BOOLEAN : Lists(h, q, t) <=> Lists(k, q, t)

Has(h, g, i) == g \in 1..Len(h) /\ i \in 1..Size(h, g)

Agree(h, k, g, i) ==
  /\ Has(h, g, i) <=> Has(k, g, i)
  /\ Has(h, g, i) => Rev(h, g, i) = Rev(k, g, i)

LEMMA NextPlace ==
  ASSUME NEW h, Ordered(h), NEW k, Ordered(k), SameLists(h, k), NEW g \in Nat, NEW i \in Nat,
         \A f, j \in Nat : f < g \/ (f = g /\ j < i) => Agree(h, k, f, j), Has(h, g, i)
  PROVE  Has(k, g, i) /\ Rev(k, g, i) <= Rev(h, g, i)
<1>1. h \in Seq(Generation) /\ k \in Seq(Generation)
  BY DEF Ordered
<1>2. /\ Len(h) \in Nat /\ Len(k) \in Nat
      /\ \A f \in 1..Len(k) : /\ Size(k, f) \in Nat \ {0}
                              /\ \A j \in 1..Size(k, f) : Rev(k, f, j) \in Nat
      /\ \A f \in 1..Len(h) : /\ Size(h, f) \in Nat \ {0}
                              /\ \A j \in 1..Size(h, f) : Rev(h, f, j) \in Nat
  BY <1>1, Parts
<1> DEFINE r == Rev(h, g, i)
<1>3. g \in 1..Len(h) /\ i \in 1..Size(h, g) /\ r \in Nat
  BY <1>2 DEF Has
<1>4. PICK f \in 1..Len(k) : \E j \in 1..Size(k, f) : Rev(k, f, j) = r
  <2>1. Lists(h, r, TRUE) \/ Lists(h, r, FALSE)
    BY <1>3 DEF Lists, Tomb
  <2>2. Lists(k, r, TRUE) \/ Lists(k, r, FALSE)
    BY <2>1 DEF SameLists
  <2> QED
    BY <2>2 DEF Lists
<1>5. PICK j \in 1..Size(k, f) : Rev(k, f, j) = r
  BY <1>4
<1>6. f \in Nat /\ j \in Nat /\ Has(k, f, j)
  BY <1>2 DEF Has
<1>7. ~(f < g \/ (f = g /\ j < i))
  <2> SUFFICES ASSUME f < g \/ (f = g /\ j < i) PROVE FALSE
    OBVIOUS
  <2>1. f \in 1..Len(h) /\ j \in 1..Size(h, f) /\ Rev(h, f, j) = r
    BY <1>5, <1>6 DEF Agree, Has
  <2>2. f = g /\ j = i
    BY <1>3, <2>1, Apart
  <2> QED
    BY <1>6, <2>2
<1>8. g \in 1..Len(k)
  BY <1>2, <1>3, <1>6, <1>7
<1>9. i <= Size(k, g)
  <2> SUFFICES ASSUME ~(i <= Size(k, g)) PROVE FALSE
    OBVIOUS
  <2>1. Size(k, g) \in Nat \ {0} /\ i > Size(k, g)
    BY <1>2, <1>8
  <2>2. i - 1 \in 1..Size(h, g) /\ i - 1 \in Nat /\ i - 1 < i /\ i - 1 # Size(h, g)
    BY <1>2, <1>3, <2>1
  <2>3. Has(h, g, i - 1)
    BY <1>3, <2>2 DEF Has
  <2>4. i - 1 \in 1..Size(k, g) /\ Rev(k, g, i - 1) = Rev(h, g, i - 1)
    BY <2>2, <2>3 DEF Agree, Has
  <2>5. i - 1 = Size(k, g)
    BY <2>1, <2>2, <2>4
  <2>6. f > g
    BY <1>6, <1>7, <2>1, <1>2
  <2>7. g < Len(k)
    BY <1>2, <1>8, <2>6
  <2>8. Shut(k, g)
    BY <1>8, <2>7 DEF Ordered
  <2> DEFINE p == Rev(h, g, i - 1)
  <2>9. Lists(k, p, TRUE)
    BY <1>8, <2>4, <2>5, <2>8 DEF Lists, Tomb
  <2>10. Lists(h, p, TRUE)
    BY <2>9 DEF SameLists
  <2>11. PICK b \in 1..Len(h) : \E c \in 1..Size(h, b) : Rev(h, b, c) = p /\ Tomb(h, b, c)
    BY <2>10 DEF Lists, Tomb
  <2>12. PICK c \in 1..Size(h, b) : Rev(h, b, c) = p /\ Tomb(h, b, c)
    BY <2>11
  <2>13. b = g /\ c = i - 1
    BY <1>3, <2>2, <2>12, Apart
  <2> QED
    BY <2>2, <2>12, <2>13 DEF Tomb
<1>10. i \in 1..Size(k, g)
  BY <1>2, <1>3, <1>8, <1>9
<1>11. g < f \/ (g = f /\ i < j) \/ (g = f /\ i = j)
  BY <1>6, <1>7
<1>12. Rev(k, g, i) <= r
  <2>1. Rev(k, g, i) \in Nat
    BY <1>2, <1>8, <1>10
  <2>2. (g < f \/ (g = f /\ i < j)) => Rev(k, g, i) < r
    BY <1>5, <1>8, <1>10 DEF Ordered
  <2>3. (g = f /\ i = j) => Rev(k, g, i) = r
    BY <1>5
  <2> HIDE DEF r
  <2> QED
    BY <1>3, <1>11, <2>1, <2>2, <2>3
<1> QED
  BY <1>8, <1>10, <1>12 DEF Has

LEMMA PlacesAgree ==
  ASSUME NEW h, Ordered(h), NEW k, Ordered(k), SameLists(h, k)
  PROVE  \A g, i \in Nat : Agree(h, k, g, i)
<1> DEFINE G == { g \in Nat : \E i \in Nat : ~Agree(h, k, g, i) }
<1> SUFFICES ASSUME G # {} PROVE FALSE
  OBVIOUS
<1>1. PICK g \in G : \A f \in G : g <= f
  <2>1. G \in SUBSET Nat
    OBVIOUS
  <2> HIDE DEF G
  <2> QED
    BY <2>1, Smallest
<1> DEFINE I == { i \in Nat : ~Agree(h, k, g, i) }
<1>2. PICK i \in I : \A j \in I : i <= j
  <2>1. I \in SUBSET Nat /\ I # {}
    OBVIOUS
  <2> HIDE DEF I
  <2> QED
    BY <2>1, Smallest
<1>3. g \in Nat /\ i \in Nat /\ ~Agree(h, k, g, i)
  OBVIOUS
<1>4. \A f, j \in Nat : f < g \/ (f = g /\ j < i) => Agree(h, k, f, j)
  <2> SUFFICES ASSUME NEW f \in Nat, NEW j \in Nat, f < g \/ (f = g /\ j < i), ~Agree(h, k, f, j)
               PROVE  FALSE
    OBVIOUS
  <2>1. f \in G /\ (f = g => j \in I)
    OBVIOUS
  <2> HIDE DEF G, I
  <2> QED
    BY <1>1, <1>2, <1>3, <2>1
<1>5. \A f, j \in Nat : f < g \/ (f = g /\ j < i) => Agree(k, h, f, j)
  BY <1>4 DEF Agree
<1>6. SameLists(k, h)
  BY DEF SameLists
<1>7. Has(h, g, i) => Has(k, g, i) /\ Rev(k, g, i) <= Rev(h, g, i)
  BY <1>3, <1>4, NextPlace
<1>8. Has(k, g, i) => Has(h, g, i) /\ Rev(h, g, i) <= Rev(k, g, i)
  BY <1>3, <1>5, <1>6, NextPlace
<1>9. Has(h, g, i) => Rev(h, g, i) \in Nat
  <2>1. h \in Seq(Generation)
    BY DEF Ordered
  <2> QED
    BY <2>1, Parts DEF Has
<1>10. Has(k, g, i) => Rev(k, g, i) \in Nat
  <2>1. k \in Seq(Generation)
    BY DEF Ordered
  <2> QED
    BY <2>1, Parts DEF Has
<1> QED
  BY <1>3, <1>7, <1>8, <1>9, <1>10 DEF Agree

LEMMA SameHistories ==
  ASSUME NEW h, Ordered(h), NEW k, Ordered(k), SameLists(h, k)
  PROVE  [g \in DOMAIN h |-> <<h[g].revs, h[g].closed>>] =
         [g \in DOMAIN k |-> <<k[g].revs, k[g].closed>>]
<1>1. h \in Seq(Generation) /\ k \in Seq(Generation)
  BY DEF Ordered
<1>2. /\ Len(h) \in Nat /\ Len(k) \in Nat /\ DOMAIN h = 1..Len(h) /\ DOMAIN k = 1..Len(k)
      /\ \A g \in 1..Len(h) : /\ h[g].revs \in Seq(Nat) /\ Size(h, g) \in Nat \ {0}
                              /\ Shut(h, g) \in BOOLEAN
      /\ \A g \in 1..Len(k) : /\ k[g].revs \in Seq(Nat) /\ Size(k, g) \in Nat \ {0}
                              /\ Shut(k, g) \in BOOLEAN
  BY <1>1, Parts
<1>3. \A g, i \in Nat : Agree(h, k, g, i)
  BY PlacesAgree
<1>4. Len(h) = Len(k)
  <2>1. Len(h) # 0 => Has(h, Len(h), 1)
    BY <1>2 DEF Has
  <2>2. Len(k) # 0 => Has(k, Len(k), 1)
    BY <1>2 DEF Has
  <2>3. Len(h) # 0 => Len(h) <= Len(k)
    BY <1>2, <1>3, <2>1 DEF Agree, Has
  <2>4. Len(k) # 0 => Len(k) <= Len(h)
    BY <1>2, <1>3, <2>2 DEF Agree, Has
  <2> DEFINE a == Len(h)
             b == Len(k)
  <2>5. a \in Nat /\ b \in Nat /\ (a # 0 => a <= b) /\ (b # 0 => b <= a)
    BY <1>2, <2>3, <2>4
  <2> HIDE DEF a, b
  <2>6. a = b
    BY <2>5
  <2> QED
    BY <2>6 DEF a, b
<1>5. ASSUME NEW g \in 1..Len(h) PROVE h[g].revs = k[g].revs /\ h[g].closed = k[g].closed
  <2>1. g \in Nat /\ g \in 1..Len(k)
    BY <1>2, <1>4
  <2>2. Size(h, g) = Size(k, g)
    <3>1. Has(h, g, Size(h, g)) /\ Has(k, g, Size(k, g))
      BY <1>2, <2>1 DEF Has
    <3>2. Size(h, g) <= Size(k, g) /\ Size(k, g) <= Size(h, g)
      BY <1>2, <1>3, <2>1, <3>1 DEF Agree, Has
    <3> QED
      BY <1>2, <2>1, <3>2
  <2>3. \A i \in 1..Size(h, g) : Rev(h, g, i) = Rev(k, g, i)
    <3> SUFFICES ASSUME NEW i \in 1..Size(h, g) PROVE Rev(h, g, i) = Rev(k, g, i)
      OBVIOUS
    <3>1. Has(h, g, i) /\ i \in Nat
      BY <1>2 DEF Has
    <3> QED
      BY <1>3, <2>1, <3>1 DEF Agree
  <2>4. h[g].revs = k[g].revs
    <3> DEFINE s == h[g].revs
               t == k[g].revs
    <3>1. s \in Seq(Nat) /\ t \in Seq(Nat) /\ Len(s) = Len(t)
          /\ \A i \in 1..Len(s) : s[i] = t[i]
      BY <1>2, <2>1, <2>2, <2>3 DEF Size, Rev
    <3> HIDE DEF s, t
    <3>2. s = t
      <4> DEFINE n == Len(s)
      <4>1. n \in Nat /\ s \in [1..n -> Nat] /\ t \in [1..n -> Nat]
        BY <3>1
      <4>2. \A i \in 1..n : s[i] = t[i]
        BY <3>1
      <4> HIDE DEF n
      <4> QED
        BY <4>1, <4>2
    <3> QED
      BY <3>2 DEF s, t
  <2> DEFINE n == Size(h, g)
             r == Rev(h, g, n)
  <2>5. n \in 1..Size(h, g) /\ n \in 1..Size(k, g) /\ Rev(k, g, n) = r
    BY <1>2, <2>2, <2>3
  <2>6. Shut(h, g) => Shut(k, g)
    <3> SUFFICES ASSUME Shut(h, g) PROVE Shut(k, g)
      OBVIOUS
    <3>1. Lists(h, r, TRUE)
      BY <2>5 DEF Lists, Tomb
    <3>2. Lists(k, r, TRUE)
      BY <3>1 DEF SameLists
    <3>3. PICK b \in 1..Len(k) : \E c \in 1..Size(k, b) : Rev(k, b, c) = r /\ Tomb(k, b, c)
      BY <3>2 DEF Lists, Tomb
    <3>4. b = g
      BY <2>1, <2>5, <3>3, Apart
    <3> QED
      BY <3>3, <3>4 DEF Tomb
  <2>7. Shut(k, g) => Shut(h, g)
    <3> SUFFICES ASSUME Shut(k, g) PROVE Shut(h, g)
      OBVIOUS
    <3>1. Lists(k, r, TRUE)
      BY <2>1, <2>2, <2>5 DEF Lists, Tomb
    <3>2. Lists(h, r, TRUE)
      BY <3>1 DEF SameLists
    <3>3. PICK b \in 1..Len(h) : \E c \in 1..Size(h, b) : Rev(h, b, c) = r /\ Tomb(h, b, c)
      BY <3>2 DEF Lists, Tomb
    <3>4. b = g
      BY <2>5, <3>3, Apart
    <3> QED
      BY <3>3, <3>4 DEF Tomb
  <2> QED
    BY <1>2, <2>1, <2>4, <2>6, <2>7 DEF Shut
<1> QED
  BY <1>2, <1>4, <1>5

-----------------------------------------------------------------------------
(* Indexes.                                                                *)

IsIndex(idx) == DOMAIN idx \subseteq Key /\ idx \in [DOMAIN idx -> Seq(Generation)]

NoneEmpty(idx) == \A k \in DOMAIN idx : idx[k] # <<>>

LEMMA HistoryType ==
  ASSUME NEW idx, IsIndex(idx), NEW k
  PROVE  HistoryOf(idx, k) \in Seq(Generation)
BY DEF IsIndex, HistoryOf

LEMMA EmptyOrdered == Ordered(<<>>) /\ \A q, d : ~Lists(<<>>, q, d)
<1>1. <<>> \in Seq(Generation) /\ Len(<<>>) = 0 /\ 1..0 = {}
  OBVIOUS
<1> QED
  BY <1>1 DEF Ordered, Lists

LEMMA AfterType ==
  ASSUME NEW h \in Seq(Generation), NEW r \in Nat, NEW deletion \in BOOLEAN
  PROVE  HistoryAfter(h, r, deletion) \in Seq(Generation)
<1>1. CASE IsOpen(h)
  BY <1>1, ExtendedJoins DEF HistoryAfter
<1>2. CASE ~IsOpen(h)
  BY <1>2, AppendBegins DEF HistoryAfter
<1> QED
  BY <1>1, <1>2

LEMMA RecordedIs ==
  ASSUME NEW idx, IsIndex(idx), NEW key \in Key, NEW r \in Nat, NEW deletion \in BOOLEAN
  PROVE  LET idx2 == Recorded(idx, key, r, deletion)
         IN  /\ IsIndex(idx2)
             /\ HistoryOf(idx2, key) = HistoryAfter(HistoryOf(idx, key), r, deletion)
             /\ \A k : k # key => HistoryOf(idx2, k) = HistoryOf(idx, k)
             /\ NoneEmpty(idx) => NoneEmpty(idx2)
<1> DEFINE idx2 == Recorded(idx, key, r, deletion)
           h == HistoryOf(idx, key)
           k2 == HistoryAfter(h, r, deletion)
<1>1. h \in Seq(Generation) /\ k2 \in Seq(Generation)
  BY HistoryType, AfterType
<1>2. k2 = <<>> => h = <<>>
  <2>1. CASE IsOpen(h)
    <3>1. k2 = Extended(h, r, deletion)
      BY <2>1 DEF HistoryAfter
    <3>2. Len(k2) = Len(h) /\ h # <<>>
      BY <1>1, <2>1, <3>1, ExtendedJoins DEF Joined
    <3> HIDE DEF k2, h
    <3> QED
      BY <1>1, <3>2
  <2>2. CASE ~IsOpen(h) /\ ~deletion
    <3>1. k2 = Append(h, [created |-> r, ver |-> 1, revs |-> <<r>>, closed |-> FALSE])
      BY <2>2 DEF HistoryAfter
    <3>2. Len(k2) = Len(h) + 1
      BY <1>1, <2>2, <3>1, AppendBegins DEF Begun
    <3> HIDE DEF k2, h
    <3> QED
      BY <1>1, <3>2
  <2>3. CASE ~IsOpen(h) /\ deletion
    BY <2>3 DEF HistoryAfter
  <2> QED
    BY <2>1, <2>2, <2>3
<1>3. CASE deletion /\ ~IsOpen(h)
  <2>1. idx2 = idx /\ k2 = h
    BY <1>3 DEF Recorded, IndexTombstone, HistoryAfter
  <2> QED
    BY <2>1
<1>4. CASE deletion /\ IsOpen(h)
  <2>1. key \in DOMAIN idx /\ h = idx[key]
    BY <1>4 DEF IsOpen, HistoryOf
  <2>2. idx2 = [idx EXCEPT ![key] = Extended(idx[key], r, TRUE)] /\ k2 = Extended(h, r, TRUE)
    BY <1>4 DEF Recorded, IndexTombstone, HistoryAfter
  <2>3. idx2 = [idx EXCEPT ![key] = k2]
    BY <2>1, <2>2
  <2>4. h # <<>>
    BY <1>4 DEF IsOpen
  <2> HIDE DEF idx2, k2, h
  <2> QED
    BY <1>1, <1>2, <2>1, <2>3, <2>4 DEF IsIndex, HistoryOf, NoneEmpty, idx2, k2, h
<1>5. CASE ~deletion
  <2>1. idx2 = [k \in DOMAIN idx \cup {key} |-> IF k = key THEN k2 ELSE idx[k]]
    BY <1>5 DEF Recorded, IndexPut, HistoryAfter
  <2> HIDE DEF k2, h
  <2>2. /\ DOMAIN idx2 = {key} \cup DOMAIN idx
        /\ idx2 = [k \in DOMAIN idx2 |-> idx2[k]]
        /\ idx2[key] = k2 /\ \A k \in DOMAIN idx : k # key => idx2[k] = idx[k]
    BY <2>1
  <2> HIDE DEF idx2
  <2>3. IsIndex(idx2)
    BY <1>1, <2>2 DEF IsIndex
  <2>4. HistoryOf(idx2, key) = k2
    BY <2>2 DEF HistoryOf
  <2>5. \A k : k # key => HistoryOf(idx2, k) = HistoryOf(idx, k)
    BY <2>2 DEF HistoryOf
  <2>6. k2 # <<>>
    <3>1. CASE IsOpen(h)
      BY <1>2, <3>1 DEF IsOpen
    <3>2. CASE ~IsOpen(h)
      <4>1. k2 = Append(h, [created |-> r, ver |-> 1, revs |-> <<r>>, closed |-> FALSE])
        BY <1>5, <3>2 DEF HistoryAfter, k2
      <4>2. Len(k2) = Len(h) + 1
        BY <1>1, <3>2, <4>1, AppendBegins DEF Begun
      <4> QED
        BY <1>1, <4>2
    <3> QED
      BY <3>1, <3>2
  <2> QED
    BY <2>2, <2>3, <2>4, <2>5, <2>6 DEF NoneEmpty, idx2, k2, h
<1> QED
  BY <1>3, <1>4, <1>5

LEMMA CompactedIs ==
  ASSUME NEW idx, IsIndex(idx), NEW at \in Nat, \A k \in DOMAIN idx : Ordered(idx[k])
  PROVE  /\ IsIndex(IndexCompact(idx, at)) /\ NoneEmpty(IndexCompact(idx, at))
         /\ \A k : HistoryOf(IndexCompact(idx, at), k) =
                     IF k \in DOMAIN idx THEN CompactHistory(idx[k], at) ELSE <<>>
<1> DEFINE rest == [k \in DOMAIN idx |-> CompactHistory(idx[k], at)]
           idx2 == [k \in { j \in DOMAIN idx : rest[j] # <<>> } |-> rest[k]]
<1>1. IndexCompact(idx, at) = idx2
  BY DEF IndexCompact
<1>2. \A k \in DOMAIN idx : rest[k] \in Seq(Generation)
  BY HistoryCompacts DEF Ordered
<1>3. \A k \in DOMAIN idx : rest[k] = CompactHistory(idx[k], at)
  OBVIOUS
<1> HIDE DEF rest
<1>4. IsIndex(idx2) /\ NoneEmpty(idx2)
  BY <1>2 DEF IsIndex, NoneEmpty
<1>5. \A k : HistoryOf(idx2, k) = IF k \in DOMAIN idx THEN CompactHistory(idx[k], at) ELSE <<>>
  BY <1>3 DEF HistoryOf
<1> QED
  BY <1>1, <1>4, <1>5

LEMMA EmptyCompacts ==
  ASSUME NEW at \in Nat
  PROVE  CompactHistory(<<>>, at) = <<>> /\ DroppedOf(<<>>, at) = {}
<1>1. Ordered(<<>>)
  BY EmptyOrdered
<1>2. DroppedOf(<<>>, at) = {}
  BY EmptyOrdered, DroppedIs
<1>3. CompactHistory(<<>>, at) = <<>>
  <2> DEFINE h == <<>>
             k == CompactHistory(h, at)
  <2>1. PICK d \in 0..Len(h), e \in Nat :
          (d < Len(h) => e < Size(h, d + 1)) /\ KeptFrom(h, at, d, e)
    BY <1>1, KeptPlaces
  <2>2. k \in Seq(Generation) /\ Cut(h, k, d, e)
    BY <1>1, <2>1, CompactCuts
  <2>3. Len(h) = 0
    OBVIOUS
  <2> HIDE DEF h, k
  <2>4. d \in 0..Len(h) /\ Len(k) = Len(h) - d
    BY <2>2 DEF Cut
  <2>5. d = 0
    BY <2>3, <2>4
  <2>6. Len(k) = 0
    BY <2>3, <2>4, <2>5
  <2>7. k = <<>>
    BY <2>2, <2>6
  <2> QED
    BY <2>7 DEF k, h
<1> QED
  BY <1>2, <1>3

(* An index compacts history by history. *)
LEMMA IndexCompacts ==
  ASSUME NEW idx, IsIndex(idx), NEW at \in Nat, \A k \in Key : Ordered(HistoryOf(idx, k))
  PROVE  /\ IsIndex(IndexCompact(idx, at)) /\ NoneEmpty(IndexCompact(idx, at))
         /\ \A k \in Key : HistoryOf(IndexCompact(idx, at), k) = CompactHistory(HistoryOf(idx, k), at)
         /\ Dropped(idx, at) \subseteq Key \X Nat
         /\ \A k \in Key : \A q : <<k, q>> \in Dropped(idx, at) <=> q \in DroppedOf(HistoryOf(idx, k), at)
<1>1. \A k \in DOMAIN idx : k \in Key /\ Ordered(idx[k])
  BY DEF IsIndex, HistoryOf
<1>2. /\ IsIndex(IndexCompact(idx, at)) /\ NoneEmpty(IndexCompact(idx, at))
      /\ \A k : HistoryOf(IndexCompact(idx, at), k) =
                  IF k \in DOMAIN idx THEN CompactHistory(idx[k], at) ELSE <<>>
  BY <1>1, CompactedIs
<1>3. \A k \in Key : HistoryOf(IndexCompact(idx, at), k) = CompactHistory(HistoryOf(idx, k), at)
  BY <1>2, EmptyCompacts DEF HistoryOf
<1>4. \A p : p \in Dropped(idx, at) <=>
        \E k \in DOMAIN idx : \E q \in DroppedOf(idx[k], at) : p = <<k, q>>
  BY DEF Dropped
<1>5. Dropped(idx, at) \subseteq Key \X Nat
  <2> SUFFICES ASSUME NEW p \in Dropped(idx, at) PROVE p \in Key \X Nat
    OBVIOUS
  <2>1. PICK k \in DOMAIN idx : \E q \in DroppedOf(idx[k], at) : p = <<k, q>>
    BY <1>4
  <2>2. PICK q \in DroppedOf(idx[k], at) : p = <<k, q>>
    BY <2>1
  <2>3. q \in Nat /\ k \in Key
    BY <1>1, <2>2, DroppedIs
  <2> QED
    BY <2>2, <2>3
<1>6. ASSUME NEW k \in Key, NEW q
      PROVE  <<k, q>> \in Dropped(idx, at) <=> q \in DroppedOf(HistoryOf(idx, k), at)
  <2>1. <<k, q>> \in Dropped(idx, at) <=> (k \in DOMAIN idx /\ q \in DroppedOf(idx[k], at))
    BY <1>4
  <2>2. DroppedOf(<<>>, at) = {}
    BY EmptyCompacts
  <2> QED
    BY <2>1, <2>2 DEF HistoryOf
<1> QED
  BY <1>2, <1>3, <1>5, <1>6

-----------------------------------------------------------------------------
(* Records, and the index over them.                                       *)

(* A record of key k at revision q. *)
Rec(R, k, q, deletion) == <<q, deletion>> \in DOMAIN R /\ R[<<q, deletion>>].key = k

PutAt(R, k, q) == Rec(R, k, q, FALSE)
DelAt(R, k, q) == Rec(R, k, q, TRUE)
Puts(h, q) == Lists(h, q, FALSE)
Deletes(h, q) == Lists(h, q, TRUE)

(* Records of revisions up to n, one for each at most. *)
RecordsOf(R, n) ==
  /\ R \in [DOMAIN R -> Mutation]
  /\ \A p \in DOMAIN R :
       \E q \in 1..n : \E d \in BOOLEAN :
         /\ p = <<q, d>> /\ (d <=> IsTombstone(R[p]))
         /\ <<q, ~d>> \notin DOMAIN R

(* What a history lists is recorded. *)
Backed(h, R, k) == \A q : \A d \in BOOLEAN : Lists(h, q, d) => Rec(R, k, q, d)

(* Every put recorded is listed, and a recorded deletion, listed or not,   *)
(* follows the end of all that was listed before it.                       *)
Complete(h, R, k) ==
  \A r \in Nat :
    /\ PutAt(R, k, r) => Puts(h, r)
    /\ DelAt(R, k, r) =>
         \A q \in Nat : q < r /\ Puts(h, q) => \E u \in q + 1..r : Deletes(h, u)

BackedBy(idx, R) ==
  \A k \in Key : Ordered(HistoryOf(idx, k)) /\ Backed(HistoryOf(idx, k), R, k)

CompleteFor(idx, R) == \A k \in Key : Complete(HistoryOf(idx, k), R, k)

(* R2 is R with one more record. *)
Adds(R, R2, r, m) ==
  /\ R2 \in [DOMAIN R \cup { <<r, IsTombstone(m)>> } -> Mutation]
  /\ R2[<<r, IsTombstone(m)>>] = m
  /\ \A p \in DOMAIN R : R2[p] = R[p]

LEMMA RecParts ==
  ASSUME NEW R, NEW n \in Nat, RecordsOf(R, n), NEW k, NEW q, NEW d \in BOOLEAN, Rec(R, k, q, d)
  PROVE  /\ q \in 1..n /\ q \in Nat /\ k \in Key
         /\ R[<<q, d>>] \in Mutation /\ (d <=> IsTombstone(R[<<q, d>>]))
         /\ \A j : \A b \in BOOLEAN : Rec(R, j, q, b) => j = k /\ (b <=> d)
<1>1. <<q, d>> \in DOMAIN R /\ R[<<q, d>>].key = k
  BY DEF Rec
<1>2. /\ q \in 1..n /\ (d <=> IsTombstone(R[<<q, d>>])) /\ <<q, ~d>> \notin DOMAIN R
  <2>1. PICK q1 \in 1..n : \E d1 \in BOOLEAN :
          /\ <<q, d>> = <<q1, d1>> /\ (d1 <=> IsTombstone(R[<<q, d>>]))
          /\ <<q1, ~d1>> \notin DOMAIN R
    BY <1>1 DEF RecordsOf
  <2>2. PICK d1 \in BOOLEAN :
          /\ <<q, d>> = <<q1, d1>> /\ (d1 <=> IsTombstone(R[<<q, d>>]))
          /\ <<q1, ~d1>> \notin DOMAIN R
    BY <2>1
  <2>3. q = q1 /\ d = d1
    BY <2>2
  <2> QED
    BY <2>2, <2>3
<1>3. R[<<q, d>>] \in Mutation
  BY <1>1 DEF RecordsOf
<1>4. k \in Key
  BY <1>1, <1>3 DEF Mutation
<1>5. ASSUME NEW j, NEW b \in BOOLEAN, Rec(R, j, q, b) PROVE j = k /\ (b <=> d)
  <2>1. <<q, b>> \in DOMAIN R /\ R[<<q, b>>].key = j
    BY <1>5 DEF Rec
  <2>2. b # ~d
    BY <1>2, <2>1
  <2>3. b = d
    BY <2>2
  <2> QED
    BY <1>1, <2>1, <2>3
<1> QED
  BY <1>2, <1>3, <1>4, <1>5

LEMMA AddsRec ==
  ASSUME NEW R, NEW n \in Nat, RecordsOf(R, n), NEW m \in Mutation, NEW R2, Adds(R, R2, n + 1, m),
         NEW k, NEW q, NEW d \in BOOLEAN
  PROVE  Rec(R2, k, q, d) <=>
           (Rec(R, k, q, d) \/ (q = n + 1 /\ (d <=> IsTombstone(m)) /\ k = m.key))
<1> DEFINE t == IsTombstone(m)
<1>1. t \in BOOLEAN
  BY DEF IsTombstone
<1>2. DOMAIN R2 = DOMAIN R \cup { <<n + 1, t>> } /\ R2[<<n + 1, t>>] = m
  BY DEF Adds
<1>3. <<q, d>> = <<n + 1, t>> <=> (q = n + 1 /\ (d <=> t))
  BY <1>1
<1>4. <<q, d>> \in DOMAIN R => R2[<<q, d>>] = R[<<q, d>>]
  BY DEF Adds
<1>5. ASSUME NEW x \in BOOLEAN PROVE <<n + 1, x>> \notin DOMAIN R
  <2> SUFFICES ASSUME <<n + 1, x>> \in DOMAIN R PROVE FALSE
    OBVIOUS
  <2>1. PICK q1 \in 1..n : \E d1 \in BOOLEAN : <<n + 1, x>> = <<q1, d1>>
    BY DEF RecordsOf
  <2>2. n + 1 = q1
    BY <2>1
  <2> QED
    BY <2>2
<1>6. <<n + 1, t>> \notin DOMAIN R /\ (Rec(R, k, q, d) => q # n + 1)
  BY <1>1, <1>5 DEF Rec
<1> HIDE DEF t
<1>7. CASE <<q, d>> = <<n + 1, t>>
  BY <1>2, <1>3, <1>6, <1>7 DEF Rec, t
<1>8. CASE <<q, d>> # <<n + 1, t>>
  BY <1>2, <1>3, <1>4, <1>8 DEF Rec, t
<1> QED
  BY <1>7, <1>8

LEMMA AddsRecords ==
  ASSUME NEW R, NEW n \in Nat, RecordsOf(R, n), NEW m \in Mutation, NEW R2, Adds(R, R2, n + 1, m)
  PROVE  RecordsOf(R2, n + 1)
<1> DEFINE t == IsTombstone(m)
<1>1. t \in BOOLEAN
  BY DEF IsTombstone
<1>2. DOMAIN R2 = DOMAIN R \cup { <<n + 1, t>> } /\ R2[<<n + 1, t>>] = m
      /\ R2 \in [DOMAIN R2 -> Mutation]
  BY DEF Adds
<1>3. \A d \in BOOLEAN : <<n + 1, d>> \notin DOMAIN R
  <2> SUFFICES ASSUME NEW d \in BOOLEAN, <<n + 1, d>> \in DOMAIN R PROVE FALSE
    OBVIOUS
  <2>1. PICK q1 \in 1..n : \E d1 \in BOOLEAN : <<n + 1, d>> = <<q1, d1>>
    BY DEF RecordsOf
  <2>2. n + 1 = q1
    BY <2>1
  <2> QED
    BY <2>2
<1>4. ASSUME NEW p \in DOMAIN R2
      PROVE  \E q \in 1..n + 1 : \E d \in BOOLEAN :
               /\ p = <<q, d>> /\ (d <=> IsTombstone(R2[p]))
               /\ <<q, ~d>> \notin DOMAIN R2
  <2>1. CASE p \in DOMAIN R
    <3>1. PICK q \in 1..n : \E d \in BOOLEAN :
            /\ p = <<q, d>> /\ (d <=> IsTombstone(R[p]))
            /\ <<q, ~d>> \notin DOMAIN R
      BY <2>1 DEF RecordsOf
    <3>2. PICK d \in BOOLEAN :
            /\ p = <<q, d>> /\ (d <=> IsTombstone(R[p]))
            /\ <<q, ~d>> \notin DOMAIN R
      BY <3>1
    <3>3. q \in 1..n + 1 /\ q # n + 1
      OBVIOUS
    <3>4. R2[p] = R[p]
      BY <2>1 DEF Adds
    <3>5. <<q, ~d>> # <<n + 1, t>>
      BY <3>3
    <3>6. <<q, ~d>> \notin DOMAIN R2
      BY <1>2, <3>2, <3>5
    <3> QED
      BY <3>2, <3>3, <3>4, <3>6
  <2>2. CASE p = <<n + 1, t>>
    <3>1. n + 1 \in 1..n + 1 /\ (~t) \in BOOLEAN
      BY <1>1
    <3>2. <<n + 1, ~t>> # <<n + 1, t>>
      BY <1>1
    <3>3. <<n + 1, ~t>> \notin DOMAIN R2
      BY <1>2, <1>3, <3>1, <3>2
    <3> QED
      BY <1>1, <1>2, <2>2, <3>1, <3>3
  <2> QED
    BY <1>2, <2>1, <2>2
<1> QED
  BY <1>2, <1>4 DEF RecordsOf

LEMMA BackedBelow ==
  ASSUME NEW R, NEW n \in Nat, RecordsOf(R, n), NEW k, NEW h, Ordered(h), Backed(h, R, k)
  PROVE  Below(h, n)
<1> SUFFICES ASSUME NEW g \in 1..Len(h), NEW i \in 1..Size(h, g) PROVE Rev(h, g, i) <= n
  BY DEF Below
<1> DEFINE q == Rev(h, g, i)
<1>1. Lists(h, q, TRUE) \/ Lists(h, q, FALSE)
  BY DEF Lists, Tomb
<1>2. Rec(R, k, q, TRUE) \/ Rec(R, k, q, FALSE)
  BY <1>1 DEF Backed
<1>3. q \in 1..n
  BY <1>2, RecParts
<1> QED
  BY <1>3

(* After a put in a history that is not open comes a deletion. *)
LEMMA PutDelParts ==
  ASSUME NEW R, NEW n \in Nat, RecordsOf(R, n), NEW k, NEW q
  PROVE  /\ PutAt(R, k, q) => q \in 1..n /\ k \in Key /\ R[<<q, FALSE>>] \in Mutation
                              /\ ~IsTombstone(R[<<q, FALSE>>])
         /\ DelAt(R, k, q) => q \in 1..n /\ k \in Key
         /\ PutAt(R, k, q) => \A j : ~DelAt(R, j, q) /\ (PutAt(R, j, q) => j = k)
         /\ DelAt(R, k, q) => \A j : ~PutAt(R, j, q) /\ (DelAt(R, j, q) => j = k)
<1>1. TRUE \in BOOLEAN /\ FALSE \in BOOLEAN
  OBVIOUS
<1>2. \A d \in BOOLEAN : Rec(R, k, q, d) =>
        /\ q \in 1..n /\ k \in Key /\ R[<<q, d>>] \in Mutation /\ (d <=> IsTombstone(R[<<q, d>>]))
        /\ \A j : \A b \in BOOLEAN : Rec(R, j, q, b) => j = k /\ (b <=> d)
  BY RecParts
<1>3. PutAt(R, k, q) =>
        /\ q \in 1..n /\ k \in Key /\ R[<<q, FALSE>>] \in Mutation /\ (FALSE <=> IsTombstone(R[<<q, FALSE>>]))
        /\ \A j : \A b \in BOOLEAN : Rec(R, j, q, b) => j = k /\ (b <=> FALSE)
  BY <1>1, <1>2, Zenon DEF PutAt
<1>4. DelAt(R, k, q) =>
        /\ q \in 1..n /\ k \in Key
        /\ \A j : \A b \in BOOLEAN : Rec(R, j, q, b) => j = k /\ (b <=> TRUE)
  BY <1>1, <1>2, Zenon DEF DelAt
<1>5. PutAt(R, k, q) => \A j : ~DelAt(R, j, q) /\ (PutAt(R, j, q) => j = k)
  BY <1>1, <1>3, Zenon DEF PutAt, DelAt
<1>6. DelAt(R, k, q) => \A j : ~PutAt(R, j, q) /\ (DelAt(R, j, q) => j = k)
  BY <1>1, <1>4, Zenon DEF PutAt, DelAt
<1> QED
  BY <1>3, <1>4, <1>5, <1>6, Zenon

LEMMA ClosedAfter ==
  ASSUME NEW h, Ordered(h), ~IsOpen(h), NEW q, Puts(h, q)
  PROVE  \E u \in Nat : q \in Nat /\ u > q /\ Deletes(h, u)
<1>1. h \in Seq(Generation)
  BY DEF Ordered
<1>2. PICK g \in 1..Len(h) : \E i \in 1..Size(h, g) : Rev(h, g, i) = q /\ ~Tomb(h, g, i)
  BY DEF Puts, Deletes, Lists, Tomb
<1>3. PICK i \in 1..Size(h, g) : Rev(h, g, i) = q /\ ~Tomb(h, g, i)
  BY <1>2
<1>4. Size(h, g) \in Nat \ {0} /\ Len(h) \in Nat /\ q \in Nat
  BY <1>1, <1>3, Parts
<1>5. Shut(h, g)
  <2>1. CASE g = Len(h)
    <3>1. h # <<>>
      BY <1>1, <1>4
    <3> QED
      BY <1>1, <2>1, <3>1, OpenIs
  <2>2. CASE g # Len(h)
    <3>1. g < Len(h)
      BY <1>4, <2>2
    <3> QED
      BY <3>1 DEF Ordered
  <2> QED
    BY <2>1, <2>2
<1> DEFINE s == Size(h, g)
           u == Rev(h, g, s)
<1>6. s \in 1..Size(h, g) /\ i < s
  BY <1>3, <1>4, <1>5 DEF Tomb
<1>7. u > q /\ u \in Nat
  BY <1>3, <1>6, Apart
<1>8. Deletes(h, u)
  BY <1>5, <1>6 DEF Puts, Deletes, Lists, Tomb
<1> QED
  BY <1>4, <1>7, <1>8

LEMMA ListedNat ==
  ASSUME NEW h, Ordered(h), NEW q, NEW d, Lists(h, q, d)
  PROVE  q \in Nat
<1>1. h \in Seq(Generation)
  BY DEF Ordered
<1> QED
  BY <1>1, Parts DEF Lists

(* A record joins an index and the records behind it.                      *)
LEMMA RecordJoins ==
  ASSUME NEW idx, IsIndex(idx), NEW R, NEW n \in Nat, RecordsOf(R, n), BackedBy(idx, R),
         NEW m \in Mutation, NEW R2, Adds(R, R2, n + 1, m)
  PROVE  LET idx2 == Recorded(idx, m.key, n + 1, IsTombstone(m))
         IN  /\ IsIndex(idx2) /\ RecordsOf(R2, n + 1) /\ BackedBy(idx2, R2)
             /\ NoneEmpty(idx) => NoneEmpty(idx2)
             /\ CompleteFor(idx, R) => CompleteFor(idx2, R2)
             /\ Advances(HistoryOf(idx, m.key), HistoryOf(idx2, m.key), n, IsTombstone(m))
             /\ \A k : k # m.key => HistoryOf(idx2, k) = HistoryOf(idx, k)
<1> DEFINE t == IsTombstone(m)
           key == m.key
           idx2 == Recorded(idx, key, n + 1, t)
           h == HistoryOf(idx, key)
           h2 == HistoryOf(idx2, key)
<1>1. key \in Key /\ t \in BOOLEAN /\ n + 1 \in Nat
  BY DEF Mutation, IsTombstone
<1>2. /\ IsIndex(idx2) /\ h2 = HistoryAfter(h, n + 1, t)
      /\ \A k : k # key => HistoryOf(idx2, k) = HistoryOf(idx, k)
      /\ NoneEmpty(idx) => NoneEmpty(idx2)
  <2> HIDE DEF key, t
  <2> QED
    BY <1>1, RecordedIs
<1>3. Ordered(h) /\ Backed(h, R, key)
  BY <1>1 DEF BackedBy
<1>4. Below(h, n)
  BY <1>3, BackedBelow
<1>5. RecordsOf(R2, n + 1)
  BY AddsRecords
<1>6. \A k, q : \A d \in BOOLEAN :
        Rec(R2, k, q, d) <=> (Rec(R, k, q, d) \/ (q = n + 1 /\ (d <=> t) /\ k = key))
  BY AddsRec
<1> HIDE DEF key, t, idx2, h, h2
<1>7. Advances(h, h2, n, t)
  BY <1>1, <1>2, <1>3, <1>4, HistoryAdvances
<1>8. \A q : \A d \in BOOLEAN :
        Lists(h2, q, d) <=> (Lists(h, q, d) \/ (q = n + 1 /\ (d <=> t) /\ (t => IsOpen(h))))
  BY <1>7 DEF Advances
<1>12. TRUE \in BOOLEAN /\ FALSE \in BOOLEAN
  OBVIOUS
<1>13. ASSUME NEW k, NEW q
       PROVE  /\ PutAt(R2, k, q) <=> (PutAt(R, k, q) \/ (q = n + 1 /\ ~t /\ k = key))
              /\ DelAt(R2, k, q) <=> (DelAt(R, k, q) \/ (q = n + 1 /\ t /\ k = key))
  <2>1. Rec(R2, k, q, FALSE) <=> (Rec(R, k, q, FALSE) \/ (q = n + 1 /\ (FALSE <=> t) /\ k = key))
    BY <1>6, <1>12, Zenon
  <2>2. Rec(R2, k, q, TRUE) <=> (Rec(R, k, q, TRUE) \/ (q = n + 1 /\ (TRUE <=> t) /\ k = key))
    BY <1>6, <1>12, Zenon
  <2> QED
    BY <1>1, <2>1, <2>2, Zenon DEF PutAt, DelAt
<1>14. ASSUME NEW q
       PROVE  /\ Puts(h2, q) <=> (Puts(h, q) \/ (q = n + 1 /\ ~t))
              /\ Deletes(h2, q) <=> (Deletes(h, q) \/ (q = n + 1 /\ t /\ IsOpen(h)))
  BY <1>1, <1>8, <1>12, Zenon DEF Puts, Deletes
<1>9. Ordered(h2) /\ Backed(h2, R2, key)
  <2>1. Ordered(h2)
    BY <1>7 DEF Advances
  <2>2. \A q : \A d \in BOOLEAN : Lists(h, q, d) => Rec(R, key, q, d)
    BY <1>3 DEF Backed
  <2>3. \A q : \A d \in BOOLEAN : Lists(h2, q, d) => Rec(R2, key, q, d)
    BY <1>6, <1>8, <2>2
  <2> QED
    BY <2>1, <2>3 DEF Backed
<1>10. BackedBy(idx2, R2)
  <2> SUFFICES ASSUME NEW k \in Key, k # key
               PROVE  Ordered(HistoryOf(idx2, k)) /\ Backed(HistoryOf(idx2, k), R2, k)
    BY <1>9 DEF BackedBy, h2
  <2>1. HistoryOf(idx2, k) = HistoryOf(idx, k)
    BY <1>2
  <2>2. Ordered(HistoryOf(idx, k)) /\ Backed(HistoryOf(idx, k), R, k)
    BY DEF BackedBy
  <2>3. Backed(HistoryOf(idx, k), R2, k)
    BY <1>6, <2>2 DEF Backed
  <2> QED
    BY <2>1, <2>2, <2>3
<1>11. ASSUME CompleteFor(idx, R) PROVE CompleteFor(idx2, R2)
  <2> SUFFICES ASSUME NEW k \in Key PROVE Complete(HistoryOf(idx2, k), R2, k)
    BY DEF CompleteFor
  <2>1. Complete(HistoryOf(idx, k), R, k)
    BY <1>11 DEF CompleteFor
  <2>2. CASE k # key
    <3>1. HistoryOf(idx2, k) = HistoryOf(idx, k)
      BY <1>2, <2>2
    <3>2. \A q : (PutAt(R2, k, q) <=> PutAt(R, k, q)) /\ (DelAt(R2, k, q) <=> DelAt(R, k, q))
      BY <1>13, <2>2
    <3> QED
      BY <2>1, <3>1, <3>2 DEF Complete
  <2>3. CASE k = key
    <3>1. Complete(h, R, key)
      BY <2>1, <2>3 DEF h
    <3>2. ASSUME NEW r \in Nat, PutAt(R2, key, r) PROVE Puts(h2, r)
      <4>1. PutAt(R, key, r) \/ (r = n + 1 /\ ~t)
        BY <1>13, <3>2
      <4>2. PutAt(R, key, r) => Puts(h, r)
        BY <3>1 DEF Complete
      <4> QED
        BY <1>14, <4>1, <4>2
    <3>3. ASSUME NEW r \in Nat, DelAt(R2, key, r),
                 NEW q \in Nat, q < r, Puts(h2, q)
          PROVE  \E u \in q + 1..r : Deletes(h2, u)
      <4>1. CASE DelAt(R, key, r)
        <5>1. r \in 1..n
          BY <4>1, PutDelParts
        <5>2. Puts(h, q)
          BY <1>14, <3>3, <5>1
        <5>3. PICK u \in q + 1..r : Deletes(h, u)
          BY <3>1, <3>3, <4>1, <5>2 DEF Complete
        <5> QED
          BY <1>14, <5>3
      <4>2. CASE r = n + 1 /\ t
        <5>1. Puts(h, q)
          BY <1>14, <3>3, <4>2
        <5>2. CASE IsOpen(h)
          <6>1. Deletes(h2, n + 1)
            BY <1>14, <4>2, <5>2
          <6>2. n + 1 \in q + 1..r
            BY <3>3, <4>2
          <6> QED
            BY <6>1, <6>2
        <5>3. CASE ~IsOpen(h)
          <6>1. PICK u \in Nat : u > q /\ Deletes(h, u)
            BY <1>3, <5>1, <5>3, ClosedAfter
          <6>2. u \in 1..n
            <7>1. DelAt(R, key, u)
              BY <1>3, <1>12, <6>1, Zenon DEF Backed, Deletes, DelAt
            <7> QED
              BY <7>1, PutDelParts
          <6>3. u \in q + 1..r /\ Deletes(h2, u)
            BY <1>14, <4>2, <6>1, <6>2
          <6> QED
            BY <6>3
        <5> QED
          BY <5>2, <5>3
      <4> QED
        BY <1>13, <3>3, <4>1, <4>2
    <3> QED
      BY <2>3, <3>2, <3>3 DEF Complete, h2
  <2> QED
    BY <2>2, <2>3
<1> QED
  BY <1>2, <1>5, <1>7, <1>10, <1>11 DEF key, t, idx2, h, h2

-----------------------------------------------------------------------------
(* Joining the records of an index in the order of their revisions.        *)

(* The records of revisions up to r. *)
UpTo(R, r) == [p \in { x \in DOMAIN R : x[1] <= r } |-> R[p]]

(* The index after the record of revision r, if there is one. *)
JoinAt(idx, R, r) == Scanned(Scanned(idx, R, <<r, FALSE>>), R, <<r, TRUE>>)

(* An index no record of which follows revision r. *)
Indexes(idx, R, r) == IsIndex(idx) /\ BackedBy(idx, UpTo(R, r))

LEMMA RecordKeys ==
  ASSUME NEW R, NEW n \in Nat, RecordsOf(R, n), NEW p \in DOMAIN R
  PROVE  p[1] \in 1..n /\ p[2] \in BOOLEAN /\ p = <<p[1], p[2]>>
<1>1. PICK q \in 1..n : \E d \in BOOLEAN : p = <<q, d>>
  BY DEF RecordsOf
<1>2. PICK d \in BOOLEAN : p = <<q, d>>
  BY <1>1
<1> QED
  BY <1>2

LEMMA UpToRecords ==
  ASSUME NEW R, NEW n \in Nat, RecordsOf(R, n), NEW r \in Nat
  PROVE  /\ RecordsOf(UpTo(R, r), r)
         /\ DOMAIN UpTo(R, r) = { x \in DOMAIN R : x[1] <= r }
         /\ \A p \in DOMAIN UpTo(R, r) : UpTo(R, r)[p] = R[p]
         /\ r >= n => UpTo(R, r) = R
<1> DEFINE D == { x \in DOMAIN R : x[1] <= r }
           U == UpTo(R, r)
<1>1. DOMAIN U = D /\ (\A p \in D : U[p] = R[p]) /\ U = [p \in D |-> U[p]]
  BY DEF UpTo
<1>2. \A p \in D : p \in DOMAIN R /\ p[1] <= r
  OBVIOUS
<1>3. R \in [DOMAIN R -> Mutation]
  BY DEF RecordsOf
<1>4. ASSUME NEW p \in D
      PROVE  \E q \in 1..r : \E d \in BOOLEAN :
               /\ p = <<q, d>> /\ (d <=> IsTombstone(U[p])) /\ <<q, ~d>> \notin D
  <2>1. PICK q \in 1..n : \E d \in BOOLEAN :
          /\ p = <<q, d>> /\ (d <=> IsTombstone(R[p])) /\ <<q, ~d>> \notin DOMAIN R
    BY <1>2 DEF RecordsOf
  <2>2. PICK d \in BOOLEAN :
          /\ p = <<q, d>> /\ (d <=> IsTombstone(R[p])) /\ <<q, ~d>> \notin DOMAIN R
    BY <2>1
  <2>3. p[1] = q
    BY <2>2
  <2>4. q \in 1..r
    BY <1>2, <2>3
  <2> QED
    BY <1>1, <2>2, <2>4
<1>5. U \in [D -> Mutation]
  <2> HIDE DEF U
  <2> QED
    BY <1>1, <1>2, <1>3
<1>6. r >= n => U = R
  <2> SUFFICES ASSUME r >= n PROVE U = R
    OBVIOUS
  <2>1. \A p \in DOMAIN R : p[1] <= r
    BY RecordKeys
  <2>2. D = DOMAIN R
    BY <2>1
  <2>3. R = [p \in DOMAIN R |-> R[p]]
    BY <1>3
  <2> QED
    BY <2>2, <2>3 DEF UpTo
<1> QED
  BY <1>1, <1>4, <1>5, <1>6 DEF RecordsOf

(* The record of the next revision is added, or there is none. *)
LEMMA UpToNext ==
  ASSUME NEW R, NEW n \in Nat, RecordsOf(R, n), NEW r \in Nat
  PROVE  /\ \A d \in BOOLEAN : <<r + 1, d>> \in DOMAIN R =>
              /\ <<r + 1, ~d>> \notin DOMAIN R
              /\ R[<<r + 1, d>>] \in Mutation /\ (d <=> IsTombstone(R[<<r + 1, d>>]))
              /\ Adds(UpTo(R, r), UpTo(R, r + 1), r + 1, R[<<r + 1, d>>])
         /\ (\A d \in BOOLEAN : <<r + 1, d>> \notin DOMAIN R) => UpTo(R, r + 1) = UpTo(R, r)
<1> DEFINE U == UpTo(R, r)
           V == UpTo(R, r + 1)
<1>1. /\ DOMAIN U = { x \in DOMAIN R : x[1] <= r } /\ \A p \in DOMAIN U : U[p] = R[p]
      /\ DOMAIN V = { x \in DOMAIN R : x[1] <= r + 1 } /\ \A p \in DOMAIN V : V[p] = R[p]
      /\ V \in [DOMAIN V -> Mutation] /\ U \in [DOMAIN U -> Mutation]
  <2>1. \A s \in Nat :
          /\ DOMAIN UpTo(R, s) = { x \in DOMAIN R : x[1] <= s }
          /\ \A p \in DOMAIN UpTo(R, s) : UpTo(R, s)[p] = R[p]
          /\ RecordsOf(UpTo(R, s), s)
    BY UpToRecords
  <2>2. r + 1 \in Nat
    OBVIOUS
  <2> HIDE DEF U, V
  <2>3. /\ DOMAIN U = { x \in DOMAIN R : x[1] <= r } /\ \A p \in DOMAIN U : U[p] = R[p]
        /\ RecordsOf(U, r)
    BY <2>1 DEF U
  <2>4. /\ DOMAIN V = { x \in DOMAIN R : x[1] <= r + 1 } /\ \A p \in DOMAIN V : V[p] = R[p]
        /\ RecordsOf(V, r + 1)
    BY <2>1, <2>2 DEF V
  <2>5. U \in [DOMAIN U -> Mutation] /\ V \in [DOMAIN V -> Mutation]
    BY <2>3, <2>4 DEF RecordsOf
  <2> QED
    BY <2>3, <2>4, <2>5
<1> HIDE DEF U, V
<1>2. ASSUME NEW d \in BOOLEAN, <<r + 1, d>> \in DOMAIN R
      PROVE  /\ <<r + 1, ~d>> \notin DOMAIN R
             /\ R[<<r + 1, d>>] \in Mutation /\ (d <=> IsTombstone(R[<<r + 1, d>>]))
             /\ Adds(U, V, r + 1, R[<<r + 1, d>>])
  <2> DEFINE p == <<r + 1, d>>
             m == R[p]
  <2>1. PICK q \in 1..n : \E e \in BOOLEAN :
          /\ p = <<q, e>> /\ (e <=> IsTombstone(R[p])) /\ <<q, ~e>> \notin DOMAIN R
    BY <1>2 DEF RecordsOf
  <2>2. PICK e \in BOOLEAN :
          /\ p = <<q, e>> /\ (e <=> IsTombstone(R[p])) /\ <<q, ~e>> \notin DOMAIN R
    BY <2>1
  <2>3. q = r + 1 /\ e = d
    BY <2>2
  <2>4. m \in Mutation
    BY <1>2 DEF RecordsOf
  <2>5. (d <=> IsTombstone(m)) /\ <<r + 1, ~d>> \notin DOMAIN R
    BY <2>2, <2>3
  <2>6. IsTombstone(m) = d
    BY <2>5 DEF IsTombstone
  <2>7. ASSUME NEW x \in DOMAIN R, x[1] <= r + 1 PROVE x[1] <= r \/ x = p
    <3>1. x[1] \in 1..n /\ x[2] \in BOOLEAN /\ x = <<x[1], x[2]>>
      BY RecordKeys
    <3>2. x[1] <= r \/ x[1] = r + 1
      BY <2>7, <3>1
    <3>3. ASSUME x[1] = r + 1 PROVE x = p
      <4>1. x[2] # ~d
        BY <2>5, <3>1, <3>3
      <4>2. x[2] = d
        BY <3>1, <4>1
      <4> QED
        BY <3>1, <3>3, <4>2
    <3> QED
      BY <3>2, <3>3
  <2>8. p[1] = r + 1
    OBVIOUS
  <2>9. \A x \in DOMAIN R : x[1] \in Nat
    BY RecordKeys
  <2> HIDE DEF p, m
  <2>10. DOMAIN V = DOMAIN U \cup {p}
    BY <1>1, <1>2, <2>7, <2>8, <2>9 DEF p
  <2>11. V[p] = m
    BY <1>1, <2>10 DEF m
  <2>12. \A x \in DOMAIN U : V[x] = U[x]
    BY <1>1, <2>10
  <2>13. Adds(U, V, r + 1, m)
    BY <1>1, <2>6, <2>10, <2>11, <2>12 DEF Adds, p
  <2> QED
    BY <2>4, <2>5, <2>13 DEF m, p
<1>3. ASSUME \A d \in BOOLEAN : <<r + 1, d>> \notin DOMAIN R PROVE V = U
  <2>1. ASSUME NEW x \in DOMAIN R PROVE x[1] <= r + 1 <=> x[1] <= r
    <3>1. x[1] \in 1..n /\ x[2] \in BOOLEAN /\ x = <<x[1], x[2]>>
      BY RecordKeys
    <3>2. x[1] # r + 1
      BY <1>3, <3>1
    <3> QED
      BY <3>1, <3>2
  <2>2. DOMAIN V = DOMAIN U
    BY <1>1, <2>1
  <2> QED
    BY <1>1, <2>2
<1> QED
  BY <1>2, <1>3 DEF U, V

(* What joining one revision does to an index. *)
Joins(idx, idx2, R, r) ==
  /\ Indexes(idx2, R, r + 1)
  /\ NoneEmpty(idx) => NoneEmpty(idx2)
  /\ CompleteFor(idx, UpTo(R, r)) => CompleteFor(idx2, UpTo(R, r + 1))
  /\ \A d \in BOOLEAN : \A k : Rec(R, k, r + 1, d) =>
       /\ Advances(HistoryOf(idx, k), HistoryOf(idx2, k), r, d)
       /\ \A j : j # k => HistoryOf(idx2, j) = HistoryOf(idx, j)
  /\ (\A d \in BOOLEAN : <<r + 1, d>> \notin DOMAIN R) => idx2 = idx

LEMMA JoinAtIs ==
  ASSUME NEW idx, NEW R, NEW r
  PROVE  /\ \A d \in BOOLEAN : <<r, d>> \in DOMAIN R /\ <<r, ~d>> \notin DOMAIN R =>
              JoinAt(idx, R, r) = Recorded(idx, R[<<r, d>>].key, r, d)
         /\ (\A d \in BOOLEAN : <<r, d>> \notin DOMAIN R) => JoinAt(idx, R, r) = idx
<1>1. ASSUME NEW x, NEW d PROVE Scanned(x, R, <<r, d>>) =
        IF <<r, d>> \in DOMAIN R THEN Recorded(x, R[<<r, d>>].key, r, d) ELSE x
  BY DEF Scanned
<1>2. TRUE \in BOOLEAN /\ FALSE \in BOOLEAN
  OBVIOUS
<1>3. JoinAt(idx, R, r) = Scanned(Scanned(idx, R, <<r, FALSE>>), R, <<r, TRUE>>)
  BY DEF JoinAt
<1>4. ASSUME <<r, TRUE>> \in DOMAIN R, <<r, FALSE>> \notin DOMAIN R
      PROVE  JoinAt(idx, R, r) = Recorded(idx, R[<<r, TRUE>>].key, r, TRUE)
  <2>1. Scanned(idx, R, <<r, FALSE>>) = idx
    BY <1>1, <1>4, Zenon
  <2>2. Scanned(idx, R, <<r, TRUE>>) = Recorded(idx, R[<<r, TRUE>>].key, r, TRUE)
    BY <1>1, <1>4, Zenon
  <2> QED
    BY <1>3, <2>1, <2>2, Zenon
<1>5. ASSUME <<r, FALSE>> \in DOMAIN R, <<r, TRUE>> \notin DOMAIN R
      PROVE  JoinAt(idx, R, r) = Recorded(idx, R[<<r, FALSE>>].key, r, FALSE)
  <2> DEFINE y == Scanned(idx, R, <<r, FALSE>>)
  <2>1. y = Recorded(idx, R[<<r, FALSE>>].key, r, FALSE)
    BY <1>1, <1>5, Zenon
  <2>2. Scanned(y, R, <<r, TRUE>>) = y
    BY <1>1, <1>5, Zenon
  <2> QED
    BY <1>3, <2>1, <2>2, Zenon
<1>6. ASSUME <<r, FALSE>> \notin DOMAIN R, <<r, TRUE>> \notin DOMAIN R
      PROVE  JoinAt(idx, R, r) = idx
  <2>1. Scanned(idx, R, <<r, FALSE>>) = idx
    BY <1>1, <1>6, Zenon
  <2>2. Scanned(idx, R, <<r, TRUE>>) = idx
    BY <1>1, <1>6, Zenon
  <2> QED
    BY <1>3, <2>1, <2>2, Zenon
<1>7. ASSUME NEW d \in BOOLEAN, <<r, d>> \in DOMAIN R, <<r, ~d>> \notin DOMAIN R
      PROVE  JoinAt(idx, R, r) = Recorded(idx, R[<<r, d>>].key, r, d)
  <2>1. CASE d = TRUE
    <3>1. (~d) = FALSE
      BY <2>1
    <3> QED
      BY <1>4, <1>7, <2>1, <3>1, Zenon
  <2>2. CASE d = FALSE
    <3>1. (~d) = TRUE
      BY <2>2
    <3> QED
      BY <1>5, <1>7, <2>2, <3>1, Zenon
  <2> QED
    BY <2>1, <2>2
<1>8. (\A d \in BOOLEAN : <<r, d>> \notin DOMAIN R) => JoinAt(idx, R, r) = idx
  BY <1>2, <1>6, Zenon
<1> QED
  BY <1>7, <1>8

LEMMA JoinAtJoins ==
  ASSUME NEW R, NEW n \in Nat, RecordsOf(R, n), NEW r \in Nat, NEW idx, Indexes(idx, R, r)
  PROVE  Joins(idx, JoinAt(idx, R, r + 1), R, r)
<1> DEFINE idx2 == JoinAt(idx, R, r + 1)
           U == UpTo(R, r)
           V == UpTo(R, r + 1)
<1>1. IsIndex(idx) /\ BackedBy(idx, U) /\ RecordsOf(U, r)
  BY UpToRecords DEF Indexes
<1>2. CASE \A d \in BOOLEAN : <<r + 1, d>> \notin DOMAIN R
  <2>1. idx2 = idx
    BY <1>2, JoinAtIs
  <2>2. V = U
    BY <1>2, UpToNext
  <2>3. \A d \in BOOLEAN : \A k : ~Rec(R, k, r + 1, d)
    BY <1>2 DEF Rec
  <2> HIDE DEF idx2, U, V
  <2> QED
    BY <1>1, <2>1, <2>2, <2>3 DEF Joins, Indexes, idx2, U, V
<1>3. ASSUME NEW d \in BOOLEAN, <<r + 1, d>> \in DOMAIN R
      PROVE  Joins(idx, idx2, R, r)
  <2> DEFINE m == R[<<r + 1, d>>]
             t == IsTombstone(m)
             idx3 == Recorded(idx, m.key, r + 1, t)
  <2>1. /\ <<r + 1, ~d>> \notin DOMAIN R
        /\ m \in Mutation /\ (d <=> t) /\ Adds(U, V, r + 1, m)
    BY <1>3, UpToNext
  <2>2. t = d
    BY <2>1 DEF IsTombstone
  <2>3. idx2 = Recorded(idx, m.key, r + 1, d)
    BY <1>3, <2>1, JoinAtIs
  <2>4. idx2 = idx3
    BY <2>2, <2>3
  <2>5. /\ IsIndex(idx3) /\ RecordsOf(V, r + 1) /\ BackedBy(idx3, V)
        /\ NoneEmpty(idx) => NoneEmpty(idx3)
        /\ CompleteFor(idx, U) => CompleteFor(idx3, V)
        /\ Advances(HistoryOf(idx, m.key), HistoryOf(idx3, m.key), r, t)
        /\ \A k : k # m.key => HistoryOf(idx3, k) = HistoryOf(idx, k)
    <3> HIDE DEF U, V, m
    <3> QED
      BY <1>1, <2>1, RecordJoins
  <2>6. ASSUME NEW e \in BOOLEAN, NEW k, Rec(R, k, r + 1, e) PROVE k = m.key /\ e = t
    <3>1. <<r + 1, e>> \in DOMAIN R /\ R[<<r + 1, e>>].key = k
      BY <2>6 DEF Rec
    <3>2. e # ~d
      BY <2>1, <3>1
    <3>3. e = d
      BY <3>2
    <3> QED
      BY <2>2, <3>1, <3>3
  <2> HIDE DEF idx2, idx3, U, V, m, t
  <2> QED
    BY <1>3, <2>4, <2>5, <2>6 DEF Joins, Indexes, idx2, U, V
<1> QED
  BY <1>2, <1>3

(* An index joined with n revisions after c, one by one. *)
Fold(g, idx, idx2, R, c, n) ==
  /\ g[0] = idx /\ g[n] = idx2
  /\ \A i \in 1..n : g[i] = JoinAt(g[i - 1], R, c + i)

Folds(idx, idx2, R, c, n) == \E g : Fold(g, idx, idx2, R, c, n)

LEMMA FoldSteps ==
  ASSUME NEW R, NEW c \in Nat, NEW n \in Nat, RecordsOf(R, c + n),
         NEW idx, Indexes(idx, R, c), NEW idx2, NEW g, Fold(g, idx, idx2, R, c, n)
  PROVE  \A i \in 1..n : /\ Indexes(g[i - 1], R, c + (i - 1))
                         /\ c + i = (c + (i - 1)) + 1
                         /\ Joins(g[i - 1], g[i], R, c + (i - 1))
<1> DEFINE P == { i \in 0..n : Indexes(g[i], R, c + i) }
<1>1. ASSUME NEW i \in 1..n, i - 1 \in P
      PROVE  /\ Indexes(g[i - 1], R, c + (i - 1)) /\ c + i = (c + (i - 1)) + 1
             /\ Joins(g[i - 1], g[i], R, c + (i - 1)) /\ i \in P
  <2>1. c + i = (c + (i - 1)) + 1 /\ c + (i - 1) \in Nat /\ c + n \in Nat /\ i \in 0..n
    OBVIOUS
  <2>2. Indexes(g[i - 1], R, c + (i - 1))
    BY <1>1
  <2>3. g[i] = JoinAt(g[i - 1], R, (c + (i - 1)) + 1)
    BY <2>1 DEF Fold
  <2>4. Joins(g[i - 1], g[i], R, c + (i - 1))
    BY <2>1, <2>2, <2>3, JoinAtJoins
  <2>5. Indexes(g[i], R, c + i)
    BY <2>1, <2>4 DEF Joins
  <2> QED
    BY <2>1, <2>2, <2>4, <2>5
<1>2. 0 \in P
  BY DEF Fold
<1>3. \A i \in 0..n : i \in P
  <2> HIDE DEF P
  <2> QED
    BY <1>1, <1>2, Climb
<1>4. \A i \in 1..n : i - 1 \in P
  <2> HIDE DEF P
  <2>1. \A i \in 1..n : i - 1 \in 0..n
    OBVIOUS
  <2> QED
    BY <1>3, <2>1
<1> HIDE DEF P
<1> QED
  BY <1>1, <1>4

LEMMA FoldJoins ==
  ASSUME NEW R, NEW c \in Nat, NEW n \in Nat, RecordsOf(R, c + n),
         NEW idx, Indexes(idx, R, c), NEW idx2, NEW g, Fold(g, idx, idx2, R, c, n)
  PROVE  /\ IsIndex(idx2) /\ BackedBy(idx2, R)
         /\ NoneEmpty(idx) => NoneEmpty(idx2)
         /\ CompleteFor(idx, UpTo(R, c)) => CompleteFor(idx2, R)
<1> DEFINE P == { i \in 0..n : /\ Indexes(g[i], R, c + i)
                               /\ NoneEmpty(idx) => NoneEmpty(g[i])
                               /\ CompleteFor(idx, UpTo(R, c)) => CompleteFor(g[i], UpTo(R, c + i)) }
<1>1. ASSUME NEW i \in 1..n, i - 1 \in P PROVE i \in P
  <2>1. /\ c + i = (c + (i - 1)) + 1
        /\ Joins(g[i - 1], g[i], R, c + (i - 1))
    BY FoldSteps
  <2>2. i \in 0..n
    OBVIOUS
  <2> QED
    BY <1>1, <2>1, <2>2 DEF Joins
<1>2. 0 \in P
  <2>1. g[0] = idx /\ c + 0 = c /\ 0 \in 0..n
    BY DEF Fold
  <2> QED
    BY <2>1
<1>3. n \in P
  <2> HIDE DEF P
  <2>1. n \in 0..n
    OBVIOUS
  <2> QED
    BY <1>1, <1>2, <2>1, Climb
<1>4. g[n] = idx2 /\ c + n \in Nat
  BY DEF Fold
<1>5. UpTo(R, c + n) = R
  <2> DEFINE z == c + n
  <2>1. z \in Nat /\ RecordsOf(R, z) /\ z >= z
    BY <1>4
  <2> HIDE DEF z
  <2>2. UpTo(R, z) = R
    BY <2>1, UpToRecords
  <2> QED
    BY <2>2 DEF z
<1> QED
  BY <1>3, <1>4, <1>5 DEF Indexes

Indexes0 == UNION { [D -> Seq(Generation)] : D \in SUBSET Key }

LEMMA IndexSet == \A x : x \in Indexes0 <=> IsIndex(x)
<1>1. ASSUME NEW x, x \in Indexes0 PROVE IsIndex(x)
  <2>1. PICK D \in SUBSET Key : x \in [D -> Seq(Generation)]
    BY <1>1 DEF Indexes0
  <2> QED
    BY <2>1 DEF IsIndex
<1>2. ASSUME NEW x, IsIndex(x) PROVE x \in Indexes0
  BY <1>2 DEF Indexes0, IsIndex
<1> QED
  BY <1>1, <1>2

LEMMA JoinAtIndex ==
  ASSUME NEW R, NEW n \in Nat, RecordsOf(R, n), NEW x, IsIndex(x), NEW r \in Nat
  PROVE  IsIndex(JoinAt(x, R, r))
<1>1. ASSUME NEW y, IsIndex(y), NEW d \in BOOLEAN PROVE IsIndex(Scanned(y, R, <<r, d>>))
  <2> DEFINE p == <<r, d>>
  <2>1. CASE p \in DOMAIN R
    <3>1. R[p] \in Mutation
      BY <2>1 DEF RecordsOf
    <3>2. R[p].key \in Key
      BY <3>1 DEF Mutation
    <3>3. Scanned(y, R, p) = Recorded(y, R[p].key, r, d)
      BY <2>1 DEF Scanned
    <3> QED
      BY <1>1, <3>2, <3>3, RecordedIs
  <2>2. CASE p \notin DOMAIN R
    BY <1>1, <2>2 DEF Scanned
  <2> QED
    BY <2>1, <2>2
<1>2. TRUE \in BOOLEAN /\ FALSE \in BOOLEAN
  OBVIOUS
<1>3. IsIndex(Scanned(x, R, <<r, FALSE>>))
  BY <1>1, <1>2, Zenon
<1>4. IsIndex(Scanned(Scanned(x, R, <<r, FALSE>>), R, <<r, TRUE>>))
  BY <1>1, <1>2, <1>3, Zenon
<1> QED
  BY <1>4 DEF JoinAt

(* The joined indexes exist, as a function. *)
JoinedBy(idx, R, c, n) ==
  \E g : /\ g \in [0..n -> Indexes0]
         /\ g[0] = idx /\ \A i \in 1..n : g[i] = JoinAt(g[i - 1], R, c + i)

LEMMA FoldExists ==
  ASSUME NEW R, NEW c \in Nat, NEW n \in Nat, RecordsOf(R, c + n), NEW idx, IsIndex(idx)
  PROVE  JoinedBy(idx, R, c, n)
<1> DEFINE F == [p \in (1..n) \X Indexes0 |-> JoinAt(p[2], R, c + p[1])]
<1>1. F \in Steps(Indexes0, n)
  <2> SUFFICES ASSUME NEW p \in (1..n) \X Indexes0 PROVE JoinAt(p[2], R, c + p[1]) \in Indexes0
    BY DEF Steps
  <2>1. c + n \in Nat /\ c + p[1] \in Nat /\ IsIndex(p[2])
    BY IndexSet
  <2>2. IsIndex(JoinAt(p[2], R, c + p[1]))
    BY <2>1, JoinAtIndex
  <2> QED
    BY <2>2, IndexSet
<1>2. idx \in Indexes0
  BY IndexSet
<1>3. Runs(Indexes0, n, idx, F)
  <2> HIDE DEF F
  <2> QED
    BY <1>1, <1>2, Iterated
<1>4. PICK g \in [0..n -> Indexes0] : g[0] = idx /\ \A i \in 1..n : g[i] = F[<<i, g[i - 1]>>]
  BY <1>3 DEF Runs
<1>5. \A i \in 1..n : g[i] = JoinAt(g[i - 1], R, c + i)
  <2> SUFFICES ASSUME NEW i \in 1..n PROVE g[i] = JoinAt(g[i - 1], R, c + i)
    OBVIOUS
  <2>1. i - 1 \in 0..n
    OBVIOUS
  <2>2. g[i - 1] \in Indexes0
    BY <2>1
  <2> DEFINE x == g[i - 1]
  <2>3. g[i] = F[<<i, x>>] /\ x \in Indexes0
    BY <1>4, <2>2
  <2> HIDE DEF x
  <2>4. F[<<i, x>>] = JoinAt(x, R, c + i)
    BY <2>3
  <2> QED
    BY <2>3, <2>4 DEF x
<1> QED
  BY <1>4, <1>5 DEF JoinedBy

LEMMA RebuiltFolds ==
  ASSUME NEW R, NEW n \in Nat, RecordsOf(R, n), Newest(R) = n
  PROVE  Folds(EmptyIndex, Rebuilt(R), R, 0, n)
<1> DEFINE B(u, r) == IF r = 0 THEN EmptyIndex
                      ELSE Scanned(Scanned(u[r - 1], R, <<r, FALSE>>), R, <<r, TRUE>>)
           upto == CHOOSE u : u = [r \in 0..n |-> B(u, r)]
<1>1. IsIndex(EmptyIndex) /\ 0 \in Nat
  BY DEF EmptyIndex, IsIndex
<1>11. 0 + n = n
  OBVIOUS
<1>12. RecordsOf(R, 0 + n)
  BY <1>11
<1>2. PICK g : /\ g \in [0..n -> Indexes0]
               /\ g[0] = EmptyIndex /\ \A i \in 1..n : g[i] = JoinAt(g[i - 1], R, 0 + i)
  <2>1. JoinedBy(EmptyIndex, R, 0, n)
    BY <1>1, <1>12, FoldExists
  <2> QED
    BY <2>1 DEF JoinedBy
<1>3. \A i \in 1..n : 0 + i = i /\ i # 0 /\ i \in 0..n
  OBVIOUS
<1>4. \A i \in 1..n : g[i] = JoinAt(g[i - 1], R, i)
  BY <1>2, <1>3
<1>5. g = [r \in 0..n |-> B(g, r)]
  <2>1. g = [r \in 0..n |-> g[r]]
    BY <1>2
  <2>2. \A r \in 0..n : g[r] = B(g, r)
    <3>1. g[0] = B(g, 0)
      BY <1>2
    <3>2. \A r \in 1..n : g[r] = B(g, r)
      BY <1>3, <1>4 DEF JoinAt
    <3>3. \A r \in 0..n : r = 0 \/ r \in 1..n
      OBVIOUS
    <3> HIDE DEF B
    <3> QED
      BY <3>1, <3>2, <3>3
  <2> QED
    BY <2>1, <2>2
<1>6. upto = [r \in 0..n |-> B(upto, r)]
  BY <1>5
<1>7. Rebuilt(R) = upto[n]
  BY DEF Rebuilt
<1> HIDE DEF upto
<1>8. upto[0] = EmptyIndex
  BY <1>6
<1>9. \A i \in 1..n : upto[i] = JoinAt(upto[i - 1], R, 0 + i)
  <2> SUFFICES ASSUME NEW i \in 1..n PROVE upto[i] = JoinAt(upto[i - 1], R, 0 + i)
    OBVIOUS
  <2>1. upto[i] = B(upto, i)
    BY <1>3, <1>6
  <2>2. B(upto, i) = JoinAt(upto[i - 1], R, i)
    BY <1>3 DEF JoinAt
  <2> QED
    BY <1>3, <2>1, <2>2
<1>10. Fold(upto, EmptyIndex, Rebuilt(R), R, 0, n)
  BY <1>7, <1>8, <1>9 DEF Fold
<1> QED
  BY <1>10 DEF Folds

LEMMA IndexedFolds ==
  ASSUME NEW batch \in Seq(Mutation), NEW R, current \in Nat, IsIndex(index),
         RecordsOf(R, current + Len(batch)),
         \A i \in 1..Len(batch) : \A d \in BOOLEAN : (d <=> IsTombstone(batch[i])) =>
           <<current + i, d>> \in DOMAIN R /\ R[<<current + i, d>>] = batch[i]
  PROVE  Folds(index, Indexed(batch), R, current, Len(batch))
<1> DEFINE n == Len(batch)
           B(u, i) == IF i = 0 THEN index
                      ELSE Recorded(u[i - 1], batch[i].key, current + i, IsTombstone(batch[i]))
           upto == CHOOSE u : u = [i \in 0..n |-> B(u, i)]
<1>1. n \in Nat /\ \A i \in 1..n : batch[i] \in Mutation
  OBVIOUS
<1>2. PICK g : /\ g \in [0..n -> Indexes0]
               /\ g[0] = index /\ \A i \in 1..n : g[i] = JoinAt(g[i - 1], R, current + i)
  <2>1. RecordsOf(R, current + n)
    OBVIOUS
  <2> HIDE DEF n
  <2>2. JoinedBy(index, R, current, n)
    BY <1>1, <2>1, FoldExists
  <2> QED
    BY <2>2 DEF JoinedBy
<1>3. ASSUME NEW i \in 1..n, NEW x
      PROVE  JoinAt(x, R, current + i) = Recorded(x, batch[i].key, current + i, IsTombstone(batch[i]))
  <2> DEFINE d == IsTombstone(batch[i])
             r == current + i
  <2>1. d \in BOOLEAN
    BY DEF IsTombstone
  <2>2. <<r, d>> \in DOMAIN R /\ R[<<r, d>>] = batch[i]
    BY <2>1
  <2>3. <<r, ~d>> \notin DOMAIN R
    <3>1. PICK q \in 1..current + n : \E e \in BOOLEAN :
            /\ <<r, d>> = <<q, e>> /\ <<q, ~e>> \notin DOMAIN R
      BY <2>2 DEF RecordsOf
    <3>2. PICK e \in BOOLEAN : <<r, d>> = <<q, e>> /\ <<q, ~e>> \notin DOMAIN R
      BY <3>1
    <3>3. q = r /\ e = d
      BY <3>2
    <3> QED
      BY <3>2, <3>3
  <2> HIDE DEF d, r
  <2>4. JoinAt(x, R, r) = Recorded(x, R[<<r, d>>].key, r, d)
    BY <2>1, <2>2, <2>3, JoinAtIs
  <2> QED
    BY <2>2, <2>4 DEF d, r
<1>4. \A i \in 1..n : i # 0
  OBVIOUS
<1>5. g = [i \in 0..n |-> B(g, i)]
  <2>1. g = [i \in 0..n |-> g[i]]
    BY <1>2
  <2>2. \A i \in 0..n : g[i] = B(g, i)
    <3>1. g[0] = B(g, 0)
      BY <1>2
    <3>2. \A i \in 1..n : g[i] = B(g, i)
      BY <1>2, <1>3, <1>4
    <3>3. \A i \in 0..n : i = 0 \/ i \in 1..n
      BY <1>1
    <3> HIDE DEF B
    <3> QED
      BY <3>1, <3>2, <3>3
  <2> QED
    BY <2>1, <2>2
<1>6. upto = [i \in 0..n |-> B(upto, i)]
  BY <1>5
<1>7. Indexed(batch) = upto[n]
  BY DEF Indexed
<1> HIDE DEF upto
<1>8. upto[0] = index
  BY <1>1, <1>6
<1>9. \A i \in 1..n : upto[i] = JoinAt(upto[i - 1], R, current + i)
  <2> SUFFICES ASSUME NEW i \in 1..n PROVE upto[i] = JoinAt(upto[i - 1], R, current + i)
    OBVIOUS
  <2>1. i \in 0..n
    BY <1>1
  <2>2. upto[i] = B(upto, i)
    BY <1>6, <2>1
  <2>3. B(upto, i) = JoinAt(upto[i - 1], R, current + i)
    BY <1>3, <1>4
  <2> QED
    BY <2>2, <2>3
<1>10. Fold(upto, index, Indexed(batch), R, current, n)
  BY <1>7, <1>8, <1>9 DEF Fold
<1> QED
  BY <1>10 DEF Folds

LEMMA NewestIs ==
  ASSUME NEW R, NEW n \in Nat, RecordsOf(R, n)
  PROVE  Newest(R) \in 0..n /\ Newest(R) \in Nat /\ RecordsOf(R, Newest(R))
<1> DEFINE S == {0} \cup { p[1] : p \in DOMAIN R }
           x == Max(S)
<1>1. \A p \in DOMAIN R : p[1] \in 1..n
  BY RecordKeys
<1>2. S \subseteq 0..n /\ 0 \in S /\ \A p \in DOMAIN R : p[1] \in S
  BY <1>1
<1> HIDE DEF S
<1>3. S \in SUBSET Nat /\ S # {} /\ \A y \in S : y <= n
  BY <1>2
<1>4. x \in S /\ \A y \in S : y <= x
  BY <1>3, Largest
<1>5. x \in 0..n /\ x \in Nat
  <2> HIDE DEF x
  <2>1. x \in 0..n
    BY <1>2, <1>4
  <2> QED
    BY <2>1
<1>6. Newest(R) = x
  BY DEF Newest, S
<1> HIDE DEF x
<1>7. ASSUME NEW p \in DOMAIN R
      PROVE  \E q \in 1..x : \E d \in BOOLEAN :
               /\ p = <<q, d>> /\ (d <=> IsTombstone(R[p])) /\ <<q, ~d>> \notin DOMAIN R
  <2>1. PICK q \in 1..n : \E d \in BOOLEAN :
          /\ p = <<q, d>> /\ (d <=> IsTombstone(R[p])) /\ <<q, ~d>> \notin DOMAIN R
    BY DEF RecordsOf
  <2>2. p[1] = q
    BY <2>1
  <2>3. q <= x
    BY <1>2, <1>4, <2>2
  <2>4. q \in 1..x
    BY <1>5, <2>3
  <2> QED
    BY <2>1, <2>4
<1>8. RecordsOf(R, x)
  BY <1>7 DEF RecordsOf
<1> QED
  BY <1>5, <1>6, <1>8

LEMMA EmptyIndexed ==
  ASSUME NEW R, RecordsOf(R, 0)
  PROVE  /\ IsIndex(EmptyIndex) /\ NoneEmpty(EmptyIndex)
         /\ BackedBy(EmptyIndex, R) /\ CompleteFor(EmptyIndex, R)
<1>1. IsIndex(EmptyIndex) /\ NoneEmpty(EmptyIndex) /\ \A k : HistoryOf(EmptyIndex, k) = <<>>
  BY DEF IsIndex, EmptyIndex, NoneEmpty, HistoryOf
<1>2. Ordered(<<>>) /\ \A q, d : ~Lists(<<>>, q, d)
  BY EmptyOrdered
<1>3. BackedBy(EmptyIndex, R)
  BY <1>1, <1>2 DEF BackedBy, Backed
<1>4. \A k, q : ~PutAt(R, k, q) /\ ~DelAt(R, k, q)
  <2>1. \A q : q \notin 1..0
    OBVIOUS
  <2>2. 0 \in Nat
    OBVIOUS
  <2>3. \A k, q : (PutAt(R, k, q) => q \in 1..0) /\ (DelAt(R, k, q) => q \in 1..0)
    BY <2>2, PutDelParts
  <2> QED
    BY <2>1, <2>3
<1>5. CompleteFor(EmptyIndex, R)
  BY <1>4 DEF CompleteFor, Complete
<1> QED
  BY <1>1, <1>3, <1>5

(* An index rebuilt from records lists them, but for deletions of nothing. *)
LEMMA RebuiltIs ==
  ASSUME NEW R, NEW n \in Nat, RecordsOf(R, n)
  PROVE  /\ IsIndex(Rebuilt(R)) /\ NoneEmpty(Rebuilt(R))
         /\ BackedBy(Rebuilt(R), R) /\ CompleteFor(Rebuilt(R), R)
<1> DEFINE z == Newest(R)
<1>1. z \in Nat /\ RecordsOf(R, z)
  BY NewestIs
<1> HIDE DEF z
<1>2. Folds(EmptyIndex, Rebuilt(R), R, 0, z)
  BY <1>1, RebuiltFolds DEF z
<1>3. PICK g : Fold(g, EmptyIndex, Rebuilt(R), R, 0, z)
  BY <1>2 DEF Folds
<1>4. RecordsOf(UpTo(R, 0), 0) /\ 0 \in Nat
  BY <1>1, UpToRecords
<1>5. /\ Indexes(EmptyIndex, R, 0) /\ NoneEmpty(EmptyIndex)
      /\ CompleteFor(EmptyIndex, UpTo(R, 0))
  BY <1>4, EmptyIndexed DEF Indexes
<1>6. 0 + z = z
  BY <1>1
<1>7. RecordsOf(R, 0 + z)
  BY <1>1, <1>6
<1> DEFINE c == 0
<1>8. c \in Nat /\ RecordsOf(R, c + z) /\ Indexes(EmptyIndex, R, c) /\ Fold(g, EmptyIndex, Rebuilt(R), R, c, z)
      /\ CompleteFor(EmptyIndex, UpTo(R, c))
  BY <1>3, <1>4, <1>5, <1>7
<1> HIDE DEF c
<1> QED
  BY <1>1, <1>5, <1>8, FoldJoins

LEMMA DeletesAfter ==
  ASSUME NEW h, Ordered(h), NEW q, Deletes(h, q)
  PROVE  \E p \in Nat : /\ q \in Nat /\ p < q /\ Puts(h, p)
                        /\ \A v \in p + 1..q - 1 : ~Deletes(h, v)
<1>1. h \in Seq(Generation)
  BY DEF Ordered
<1>2. PICK g \in 1..Len(h) : \E i \in 1..Size(h, g) : Rev(h, g, i) = q /\ Tomb(h, g, i)
  BY DEF Deletes, Lists, Tomb
<1>3. PICK i \in 1..Size(h, g) : Rev(h, g, i) = q /\ Tomb(h, g, i)
  BY <1>2
<1>4. Size(h, g) >= 2 /\ i = Size(h, g) /\ Size(h, g) \in Nat /\ Shut(h, g)
  BY <1>1, <1>3, Parts DEF Ordered, Tomb
<1> DEFINE j == i - 1
           p == Rev(h, g, j)
<1>5. j \in 1..Size(h, g) /\ j < i /\ j # Size(h, g) /\ i = j + 1
  BY <1>4
<1> HIDE DEF j
<1>6. p \in Nat /\ q \in Nat /\ p < q
  BY <1>3, <1>5, Apart
<1>7. Puts(h, p)
  BY <1>5 DEF Puts, Lists, Tomb
<1>8. ASSUME NEW v \in p + 1..q - 1, Deletes(h, v) PROVE FALSE
  <2>1. PICK f \in 1..Len(h) : \E l \in 1..Size(h, f) : Rev(h, f, l) = v
    BY <1>8 DEF Deletes, Lists
  <2>2. PICK l \in 1..Size(h, f) : Rev(h, f, l) = v
    BY <2>1
  <2>3. p < v /\ v < q
    BY <1>6
  <2>4. g < f \/ (g = f /\ j < l)
    BY <1>5, <2>2, <2>3, Apart
  <2>5. f < g \/ (f = g /\ l < i)
    BY <1>3, <2>2, <2>3, Apart
  <2>6. f \in Nat /\ g \in Nat /\ l \in Nat /\ i \in Nat /\ j \in Nat
    BY <1>3, <1>5, <2>2, Apart
  <2> QED
    BY <1>5, <2>4, <2>5, <2>6
<1> QED
  BY <1>6, <1>7, <1>8

(* Two complete histories of the same records list the same. *)
LEMMA CompleteSame ==
  ASSUME NEW R, NEW n \in Nat, RecordsOf(R, n), NEW k,
         NEW h, Ordered(h), Backed(h, R, k), Complete(h, R, k),
         NEW j, Ordered(j), Backed(j, R, k), Complete(j, R, k)
  PROVE  \A q : (Puts(h, q) => Puts(j, q)) /\ (Deletes(h, q) => Deletes(j, q))
<1>1. TRUE \in BOOLEAN /\ FALSE \in BOOLEAN
  OBVIOUS
<1>2. \A q : /\ Puts(h, q) => PutAt(R, k, q) /\ q \in Nat
             /\ Deletes(h, q) => DelAt(R, k, q) /\ q \in Nat
             /\ Deletes(j, q) => DelAt(R, k, q) /\ q \in Nat
  <2>1. \A q : Puts(h, q) => PutAt(R, k, q)
    BY <1>1, Zenon DEF Backed, Puts, PutAt
  <2>2. \A q : Deletes(h, q) => DelAt(R, k, q)
    BY <1>1, Zenon DEF Backed, Deletes, DelAt
  <2>3. \A q : Deletes(j, q) => DelAt(R, k, q)
    BY <1>1, Zenon DEF Backed, Deletes, DelAt
  <2>4. \A q : (PutAt(R, k, q) => q \in 1..n) /\ (DelAt(R, k, q) => q \in 1..n)
    BY PutDelParts
  <2>5. \A q : q \in 1..n => q \in Nat
    OBVIOUS
  <2> QED
    BY <2>1, <2>2, <2>3, <2>4, <2>5
<1>3. ASSUME NEW q, Puts(h, q) PROVE Puts(j, q)
  BY <1>2, <1>3 DEF Complete
<1>4. ASSUME NEW q, Deletes(h, q) PROVE Deletes(j, q)
  <2>1. PICK p \in Nat : /\ q \in Nat /\ p < q /\ Puts(h, p)
                         /\ \A v \in p + 1..q - 1 : ~Deletes(h, v)
    BY <1>4, DeletesAfter
  <2>2. Puts(j, p)
    BY <1>3, <2>1
  <2>3. DelAt(R, k, q)
    BY <1>2, <1>4
  <2>4. PICK u \in p + 1..q : Deletes(j, u)
    BY <2>1, <2>2, <2>3 DEF Complete
  <2>5. u \in Nat /\ p < u /\ DelAt(R, k, u)
    BY <1>2, <2>1, <2>4
  <2>6. PICK v \in p + 1..u : Deletes(h, v)
    BY <2>1, <2>5 DEF Complete
  <2>7. ~(v \in p + 1..q - 1)
    BY <2>1, <2>6
  <2>8. v = q /\ u = q
    BY <2>1, <2>4, <2>5, <2>7
  <2> QED
    BY <2>4, <2>8
<1> QED
  BY <1>3, <1>4

LEMMA BothSame ==
  ASSUME NEW h, NEW j,
         \A q : (Puts(h, q) <=> Puts(j, q)) /\ (Deletes(h, q) <=> Deletes(j, q))
  PROVE  SameLists(h, j)
<1>1. ASSUME NEW q, NEW t \in BOOLEAN PROVE Lists(h, q, t) <=> Lists(j, q, t)
  <2>1. CASE t = TRUE
    BY <2>1, Zenon DEF Deletes
  <2>2. CASE t = FALSE
    BY <2>2, Zenon DEF Puts
  <2> QED
    BY <2>1, <2>2
<1> QED
  BY <1>1 DEF SameLists

(* An index complete for records is the one rebuilt from them. *)
LEMMA CompleteListed ==
  ASSUME NEW R, NEW n \in Nat, RecordsOf(R, n),
         NEW a, IsIndex(a), NoneEmpty(a), BackedBy(a, R), CompleteFor(a, R),
         NEW b, IsIndex(b), NoneEmpty(b), BackedBy(b, R), CompleteFor(b, R)
  PROVE  Listed(a) = Listed(b)
<1>1. ASSUME NEW k \in Key
      PROVE  /\ Ordered(HistoryOf(a, k)) /\ Ordered(HistoryOf(b, k))
             /\ SameLists(HistoryOf(a, k), HistoryOf(b, k))
  <2> DEFINE h == HistoryOf(a, k)
             j == HistoryOf(b, k)
  <2>1. /\ Ordered(h) /\ Backed(h, R, k) /\ Complete(h, R, k)
        /\ Ordered(j) /\ Backed(j, R, k) /\ Complete(j, R, k)
    BY DEF BackedBy, CompleteFor
  <2> HIDE DEF h, j
  <2>2. \A q : (Puts(h, q) => Puts(j, q)) /\ (Deletes(h, q) => Deletes(j, q))
    BY <2>1, CompleteSame
  <2>3. \A q : (Puts(j, q) => Puts(h, q)) /\ (Deletes(j, q) => Deletes(h, q))
    BY <2>1, CompleteSame
  <2>4. SameLists(h, j)
    BY <2>2, <2>3, BothSame
  <2> QED
    BY <2>1, <2>4 DEF h, j
<1>2. ASSUME NEW k \in Key
      PROVE  /\ HistoryOf(a, k) = <<>> <=> HistoryOf(b, k) = <<>>
             /\ [g \in DOMAIN HistoryOf(a, k) |-> <<HistoryOf(a, k)[g].revs, HistoryOf(a, k)[g].closed>>] =
                [g \in DOMAIN HistoryOf(b, k) |-> <<HistoryOf(b, k)[g].revs, HistoryOf(b, k)[g].closed>>]
  <2> DEFINE h == HistoryOf(a, k)
             j == HistoryOf(b, k)
  <2>1. Ordered(h) /\ Ordered(j) /\ SameLists(h, j)
    BY <1>1
  <2> HIDE DEF h, j
  <2>2. [g \in DOMAIN h |-> <<h[g].revs, h[g].closed>>] = [g \in DOMAIN j |-> <<j[g].revs, j[g].closed>>]
    BY <2>1, SameHistories
  <2>3. DOMAIN h = DOMAIN j
    BY <2>2
  <2>4. h \in Seq(Generation) /\ j \in Seq(Generation)
    BY <2>1 DEF Ordered
  <2>5. h = <<>> <=> j = <<>>
    BY <2>3, <2>4
  <2> QED
    BY <2>2, <2>5 DEF h, j
<1>3. DOMAIN a \subseteq Key /\ DOMAIN b \subseteq Key
  BY DEF IsIndex
<1>4. DOMAIN a = DOMAIN b
  <2>1. ASSUME NEW k \in Key PROVE k \in DOMAIN a <=> k \in DOMAIN b
    <3>1. k \in DOMAIN a <=> HistoryOf(a, k) # <<>>
      BY DEF NoneEmpty, HistoryOf
    <3>2. k \in DOMAIN b <=> HistoryOf(b, k) # <<>>
      BY DEF NoneEmpty, HistoryOf
    <3> QED
      BY <1>2, <3>1, <3>2
  <2> QED
    BY <1>3, <2>1
<1>5. ASSUME NEW k \in DOMAIN a
      PROVE  [g \in DOMAIN a[k] |-> <<a[k][g].revs, a[k][g].closed>>] =
             [g \in DOMAIN b[k] |-> <<b[k][g].revs, b[k][g].closed>>]
  <2>1. k \in Key /\ HistoryOf(a, k) = a[k] /\ HistoryOf(b, k) = b[k]
    BY <1>3, <1>4 DEF HistoryOf
  <2> QED
    BY <1>2, <2>1
<1> DEFINE A(k) == [g \in DOMAIN a[k] |-> <<a[k][g].revs, a[k][g].closed>>]
           B(k) == [g \in DOMAIN b[k] |-> <<b[k][g].revs, b[k][g].closed>>]
<1>6. \A k \in DOMAIN a : A(k) = B(k)
  BY <1>5
<1>7. Listed(a) = [k \in DOMAIN a |-> A(k)] /\ Listed(b) = [k \in DOMAIN b |-> B(k)]
  BY DEF Listed
<1> HIDE DEF A, B
<1> QED
  BY <1>4, <1>6, <1>7

-----------------------------------------------------------------------------
(* What a history of writes says is current.                               *)

RevOf(H, i) == H[i].revision
MutOf(H, i) == H[i].mutation
KeyOf(H, i) == H[i].mutation.key
DeadOf(H, i) == IsTombstone(H[i].mutation)

(* The i-th of n writes is the last of its key at a revision, and a put. *)
Live(H, n, k, at, i) ==
  /\ i \in 1..n /\ KeyOf(H, i) = k /\ RevOf(H, i) <= at /\ ~DeadOf(H, i)
  /\ \A j \in i + 1..n : ~(KeyOf(H, j) = k /\ RevOf(H, j) <= at)

StoredAs(R, q) == R[<<q, FALSE>>]

(* W holds <<k, at, q>> where a read of k at "at" finds revision q. *)
In(W, k, at, q) == <<k, at, q>> \in W

(* From watermark f on, what is found is what the writes say, and R holds  *)
(* their values.                                                           *)
Exact(W, R, H, n, f) ==
  \A k \in Key : \A at \in Nat : at >= f =>
    /\ \A q \in Nat : In(W, k, at, q) <=> \E i \in 1..n : Live(H, n, k, at, i) /\ RevOf(H, i) = q
    /\ \A i \in 1..n : Live(H, n, k, at, i) => MutOf(H, i) = StoredAs(R, RevOf(H, i))

(* Revision c + 1 takes over for key k0, or ends it. *)
TakesOver(W, W2, c, k0, dead) ==
  \A k \in Key : \A at \in Nat : \A q \in Nat :
    In(W2, k, at, q) <=> IF k = k0 /\ at > c THEN q = c + 1 /\ ~dead ELSE In(W, k, at, q)

(* What is found is stored. *)
Holds(W, R) ==
  \A k \in Key : \A at \in Nat : \A q \in Nat : In(W, k, at, q) => PutAt(R, k, q)

LEMMA LiveNext ==
  ASSUME NEW H, NEW n \in Nat, NEW c \in Nat, RevOf(H, n + 1) = c + 1,
         \A i \in 1..n : RevOf(H, i) \in Nat,
         NEW k, NEW at \in Nat, NEW i \in Nat
  PROVE  Live(H, n + 1, k, at, i) <=>
           IF k = KeyOf(H, n + 1) /\ at > c THEN i = n + 1 /\ ~DeadOf(H, n + 1)
           ELSE Live(H, n, k, at, i)
<1>1. n + 1 \in 1..n + 1
  OBVIOUS
<1>2. CASE k = KeyOf(H, n + 1) /\ at > c
  <2>1. RevOf(H, n + 1) <= at
    BY <1>2
  <2>2. ASSUME Live(H, n + 1, k, at, i) PROVE i = n + 1 /\ ~DeadOf(H, n + 1)
    <3>1. i \in 1..n + 1 /\ ~DeadOf(H, i)
          /\ \A j \in i + 1..n + 1 : ~(KeyOf(H, j) = k /\ RevOf(H, j) <= at)
      BY <2>2 DEF Live
    <3>2. n + 1 \notin i + 1..n + 1
      BY <1>2, <2>1, <3>1
    <3>3. i = n + 1
      BY <3>1, <3>2
    <3> QED
      BY <3>1, <3>3
  <2>3. ASSUME i = n + 1, ~DeadOf(H, n + 1) PROVE Live(H, n + 1, k, at, i)
    <3>1. i + 1..n + 1 = {}
      BY <2>3
    <3> QED
      BY <1>1, <1>2, <2>1, <2>3, <3>1 DEF Live
  <2> QED
    BY <1>2, <2>2, <2>3
<1>3. CASE ~(k = KeyOf(H, n + 1) /\ at > c)
  <2>1. ~(KeyOf(H, n + 1) = k /\ RevOf(H, n + 1) <= at)
    BY <1>3
  <2>2. ASSUME Live(H, n + 1, k, at, i) PROVE Live(H, n, k, at, i)
    <3>1. /\ i \in 1..n + 1 /\ KeyOf(H, i) = k /\ RevOf(H, i) <= at /\ ~DeadOf(H, i)
          /\ \A j \in i + 1..n + 1 : ~(KeyOf(H, j) = k /\ RevOf(H, j) <= at)
      BY <2>2 DEF Live
    <3>2. i # n + 1
      BY <2>1, <3>1
    <3>3. i \in 1..n /\ \A j \in i + 1..n : j \in i + 1..n + 1
      BY <3>1, <3>2
    <3> QED
      BY <3>1, <3>3 DEF Live
  <2>3. ASSUME Live(H, n, k, at, i) PROVE Live(H, n + 1, k, at, i)
    <3>1. /\ i \in 1..n /\ KeyOf(H, i) = k /\ RevOf(H, i) <= at /\ ~DeadOf(H, i)
          /\ \A j \in i + 1..n : ~(KeyOf(H, j) = k /\ RevOf(H, j) <= at)
      BY <2>3 DEF Live
    <3>2. i \in 1..n + 1 /\ \A j \in i + 1..n + 1 : j \in i + 1..n \/ j = n + 1
      BY <3>1
    <3> QED
      BY <2>1, <3>1, <3>2 DEF Live
  <2> QED
    BY <1>3, <2>2, <2>3
<1> QED
  BY <1>2, <1>3

(* One more write, in what is read, in the records and in the history. *)
LEMMA ExactNext ==
  ASSUME NEW W, NEW W2, NEW R, NEW R2, NEW H, NEW n \in Nat, NEW c \in Nat, NEW f \in Nat,
         \A i \in 1..n : RevOf(H, i) \in Nat, RevOf(H, n + 1) = c + 1,
         KeyOf(H, n + 1) \in Key,
         Exact(W, R, H, n, f), Holds(W, R),
         TakesOver(W, W2, c, KeyOf(H, n + 1), DeadOf(H, n + 1)),
         \A k, q : PutAt(R, k, q) => StoredAs(R2, q) = StoredAs(R, q),
         ~DeadOf(H, n + 1) => StoredAs(R2, c + 1) = MutOf(H, n + 1)
  PROVE  Exact(W2, R2, H, n + 1, f)
<1> DEFINE k0 == KeyOf(H, n + 1)
           dead == DeadOf(H, n + 1)
<1>1. SUFFICES ASSUME NEW k \in Key, NEW at \in Nat, at >= f
      PROVE  /\ \A q \in Nat : In(W2, k, at, q) <=>
                  \E i \in 1..n + 1 : Live(H, n + 1, k, at, i) /\ RevOf(H, i) = q
             /\ \A i \in 1..n + 1 : Live(H, n + 1, k, at, i) => MutOf(H, i) = StoredAs(R2, RevOf(H, i))
  BY DEF Exact
<1>2. \A i \in Nat : Live(H, n + 1, k, at, i) <=>
        IF k = k0 /\ at > c THEN i = n + 1 /\ ~dead ELSE Live(H, n, k, at, i)
  BY LiveNext
<1>3. \A q \in Nat : In(W2, k, at, q) <=>
        IF k = k0 /\ at > c THEN q = c + 1 /\ ~dead ELSE In(W, k, at, q)
  BY DEF TakesOver
<1>4. /\ \A q \in Nat : In(W, k, at, q) <=> \E i \in 1..n : Live(H, n, k, at, i) /\ RevOf(H, i) = q
      /\ \A i \in 1..n : Live(H, n, k, at, i) => MutOf(H, i) = StoredAs(R, RevOf(H, i))
  BY <1>1 DEF Exact
<1> HIDE DEF k0, dead
<1>5. CASE k = k0 /\ at > c
  <2>1. n + 1 \in 1..n + 1 /\ \A i \in 1..n + 1 : i \in Nat
    OBVIOUS
  <2>2. \A i \in 1..n + 1 : Live(H, n + 1, k, at, i) <=> (i = n + 1 /\ ~dead)
    BY <1>2, <1>5, <2>1
  <2>3. \A q \in Nat : In(W2, k, at, q) <=> (q = c + 1 /\ ~dead)
    BY <1>3, <1>5
  <2>4. ~dead => StoredAs(R2, c + 1) = MutOf(H, n + 1)
    BY DEF dead
  <2> QED
    BY <2>1, <2>2, <2>3, <2>4
<1>6. CASE ~(k = k0 /\ at > c)
  <2>1. \A i \in 1..n + 1 : i \in Nat
    OBVIOUS
  <2>2. \A i \in 1..n + 1 : Live(H, n + 1, k, at, i) <=> Live(H, n, k, at, i)
    BY <1>2, <1>6, <2>1
  <2>3. \A q \in Nat : In(W2, k, at, q) <=> In(W, k, at, q)
    BY <1>3, <1>6
  <2>4. \A i \in 1..n + 1 : Live(H, n, k, at, i) => i \in 1..n
    BY DEF Live
  <2>5. \A i \in 1..n : i \in 1..n + 1
    OBVIOUS
  <2>6. \A q \in Nat : In(W2, k, at, q) <=>
          \E i \in 1..n + 1 : Live(H, n + 1, k, at, i) /\ RevOf(H, i) = q
    BY <1>4, <2>2, <2>3, <2>4, <2>5
  <2>7. ASSUME NEW i \in 1..n + 1, Live(H, n + 1, k, at, i)
        PROVE  MutOf(H, i) = StoredAs(R2, RevOf(H, i))
    <3>1. i \in 1..n /\ Live(H, n, k, at, i)
      BY <2>2, <2>4, <2>7
    <3>2. RevOf(H, i) \in Nat /\ In(W, k, at, RevOf(H, i))
      BY <1>4, <3>1
    <3>3. PutAt(R, k, RevOf(H, i))
      BY <3>2 DEF Holds
    <3>4. StoredAs(R2, RevOf(H, i)) = StoredAs(R, RevOf(H, i))
      BY <3>3
    <3> QED
      BY <1>4, <3>1, <3>4
  <2> QED
    BY <2>6, <2>7
<1> QED
  BY <1>5, <1>6

LEMMA ExactLater ==
  ASSUME NEW W, NEW R, NEW H, NEW n, NEW f \in Nat, Exact(W, R, H, n, f), NEW f2 \in Nat, f <= f2
  PROVE  Exact(W, R, H, n, f2)
BY DEF Exact

(* Other reads and records that agree from a watermark on. *)
LEMMA ExactSame ==
  ASSUME NEW W, NEW R, NEW H, NEW n \in Nat, NEW f \in Nat, Exact(W, R, H, n, f),
         NEW W2, NEW R2,
         \A i \in 1..n : RevOf(H, i) \in Nat,
         \A k \in Key : \A at \in Nat : \A q \in Nat : at >= f =>
           /\ In(W2, k, at, q) <=> In(W, k, at, q)
           /\ In(W, k, at, q) => StoredAs(R2, q) = StoredAs(R, q)
  PROVE  Exact(W2, R2, H, n, f)
<1> SUFFICES ASSUME NEW k \in Key, NEW at \in Nat, at >= f
    PROVE  /\ \A q \in Nat : In(W2, k, at, q) <=>
                \E i \in 1..n : Live(H, n, k, at, i) /\ RevOf(H, i) = q
           /\ \A i \in 1..n : Live(H, n, k, at, i) => MutOf(H, i) = StoredAs(R2, RevOf(H, i))
  BY DEF Exact
<1>1. /\ \A q \in Nat : In(W, k, at, q) <=> \E i \in 1..n : Live(H, n, k, at, i) /\ RevOf(H, i) = q
      /\ \A i \in 1..n : Live(H, n, k, at, i) => MutOf(H, i) = StoredAs(R, RevOf(H, i))
  BY DEF Exact
<1>2. \A q \in Nat : /\ In(W2, k, at, q) <=> In(W, k, at, q)
                     /\ In(W, k, at, q) => StoredAs(R2, q) = StoredAs(R, q)
  OBVIOUS
<1> QED
  BY <1>1, <1>2

(* Two histories that agree place by place. *)
LEMMA ExactHistory ==
  ASSUME NEW W, NEW R, NEW H, NEW n \in Nat, NEW f \in Nat, Exact(W, R, H, n, f),
         NEW H2, \A i \in 1..n : H2[i] = H[i]
  PROVE  Exact(W, R, H2, n, f)
<1>1. \A i \in 1..n : /\ RevOf(H2, i) = RevOf(H, i) /\ MutOf(H2, i) = MutOf(H, i)
                      /\ KeyOf(H2, i) = KeyOf(H, i) /\ DeadOf(H2, i) = DeadOf(H, i)
  BY DEF RevOf, MutOf, KeyOf, DeadOf
<1>2. ASSUME NEW k, NEW at \in Nat, NEW i \in 1..n PROVE Live(H2, n, k, at, i) <=> Live(H, n, k, at, i)
  <2>1. \A j \in i + 1..n : j \in 1..n
    OBVIOUS
  <2> QED
    BY <1>1, <2>1 DEF Live
<1> QED
  BY <1>1, <1>2 DEF Exact

(* A put is the last record of its key at a revision. *)
Current(R, k, at, q) ==
  /\ PutAt(R, k, q) /\ q <= at
  /\ \A u \in q + 1..at : ~PutAt(R, k, u) /\ ~DelAt(R, k, u)

(* What an index finds, and what the records say. *)
ReadsOf(idx) == { t \in Key \X Nat \X Nat : Finds(HistoryOf(idx, t[1]), t[2], t[3]) }
CurrentOf(R) == { t \in Key \X Nat \X Nat : Current(R, t[1], t[2], t[3]) }

LEMMA InReads ==
  ASSUME NEW idx, NEW k \in Key, NEW at \in Nat, NEW q \in Nat
  PROVE  In(ReadsOf(idx), k, at, q) <=> Finds(HistoryOf(idx, k), at, q)
BY DEF In, ReadsOf

LEMMA InCurrent ==
  ASSUME NEW R, NEW k \in Key, NEW at \in Nat, NEW q \in Nat
  PROVE  In(CurrentOf(R), k, at, q) <=> Current(R, k, at, q)
BY DEF In, CurrentOf

LEMMA FindsPuts ==
  ASSUME NEW h, Ordered(h), NEW at \in Nat, NEW q
  PROVE  Finds(h, at, q) <=>
           /\ q \in Nat /\ q <= at /\ Puts(h, q)
           /\ \A u \in q + 1..at : ~Puts(h, u) /\ ~Deletes(h, u)
BY FindsListed DEF Puts, Deletes

LEMMA PutsBelow ==
  ASSUME NEW h, Ordered(h), NEW n \in Nat, Below(h, n), NEW q
  PROVE  (Puts(h, q) => q \in Nat /\ q <= n) /\ (Deletes(h, q) => q \in Nat /\ q <= n)
<1>1. h \in Seq(Generation)
  BY DEF Ordered
<1>2. ASSUME NEW g \in 1..Len(h), NEW i \in 1..Size(h, g), Rev(h, g, i) = q PROVE q \in Nat /\ q <= n
  BY <1>1, <1>2, Parts DEF Below
<1> QED
  BY <1>2 DEF Puts, Deletes, Lists

LEMMA AdvancesPuts ==
  ASSUME NEW h, NEW h2, NEW n \in Nat, NEW dead \in BOOLEAN, Advances(h, h2, n, dead), NEW q
  PROVE  /\ Puts(h2, q) <=> (Puts(h, q) \/ (q = n + 1 /\ ~dead))
         /\ Deletes(h2, q) <=> (Deletes(h, q) \/ (q = n + 1 /\ dead /\ IsOpen(h)))
<1>1. \A d \in BOOLEAN :
        Lists(h2, q, d) <=> (Lists(h, q, d) \/ (q = n + 1 /\ (d <=> dead) /\ (dead => IsOpen(h))))
  BY DEF Advances
<1>2. TRUE \in BOOLEAN /\ FALSE \in BOOLEAN
  OBVIOUS
<1> QED
  BY <1>1, <1>2, Zenon DEF Puts, Deletes

LEMMA FindsNext ==
  ASSUME NEW h, Ordered(h), NEW n \in Nat, Below(h, n), NEW dead \in BOOLEAN,
         NEW h2, Advances(h, h2, n, dead), NEW at \in Nat, NEW q \in Nat
  PROVE  Finds(h2, at, q) <=> IF at > n THEN q = n + 1 /\ ~dead ELSE Finds(h, at, q)
<1>1. Ordered(h2)
  BY DEF Advances
<1>2. \A u : /\ Puts(h2, u) <=> (Puts(h, u) \/ (u = n + 1 /\ ~dead))
             /\ Deletes(h2, u) <=> (Deletes(h, u) \/ (u = n + 1 /\ dead /\ IsOpen(h)))
  BY AdvancesPuts
<1>3. \A u : (Puts(h, u) => u \in Nat /\ u <= n) /\ (Deletes(h, u) => u \in Nat /\ u <= n)
  BY PutsBelow
<1>4. Finds(h2, at, q) <=> /\ q <= at /\ Puts(h2, q)
                           /\ \A u \in q + 1..at : ~Puts(h2, u) /\ ~Deletes(h2, u)
  BY <1>1, FindsPuts
<1>5. Finds(h, at, q) <=> /\ q <= at /\ Puts(h, q)
                          /\ \A u \in q + 1..at : ~Puts(h, u) /\ ~Deletes(h, u)
  BY FindsPuts
<1>6. CASE at <= n
  <2>1. \A u \in q + 1..at : u # n + 1
    BY <1>6
  <2>2. q <= at => q # n + 1
    BY <1>6
  <2> QED
    BY <1>2, <1>4, <1>5, <1>6, <2>1, <2>2
<1>7. CASE at > n /\ ~dead
  <2>1. ASSUME Finds(h2, at, q) PROVE q = n + 1
    <3>1. Puts(h2, n + 1)
      BY <1>2, <1>7
    <3>2. n + 1 \notin q + 1..at
      BY <1>4, <2>1, <3>1
    <3>3. q = n + 1 \/ q <= n
      BY <1>2, <1>3, <1>4, <2>1
    <3> QED
      BY <1>7, <3>2, <3>3
  <2>2. ASSUME q = n + 1 PROVE Finds(h2, at, q)
    <3>1. Puts(h2, q) /\ q <= at
      BY <1>2, <1>7, <2>2
    <3>2. ASSUME NEW u \in q + 1..at PROVE ~Puts(h2, u) /\ ~Deletes(h2, u)
      <4>1. u # n + 1 /\ ~(u <= n)
        BY <2>2
      <4> QED
        BY <1>2, <1>3, <4>1
    <3> QED
      BY <1>4, <3>1, <3>2
  <2> QED
    BY <1>7, <2>1, <2>2
<1>8. CASE at > n /\ dead
  <2>1. ASSUME Finds(h2, at, q) PROVE FALSE
    <3>1. Puts(h, q) /\ q <= n
      BY <1>2, <1>3, <1>4, <1>8, <2>1
    <3>2. PICK u \in Nat : u > q /\ u <= n + 1 /\ Deletes(h2, u)
      <4>1. CASE IsOpen(h)
        <5>1. Deletes(h2, n + 1) /\ n + 1 > q
          BY <1>2, <1>8, <3>1, <4>1
        <5> QED
          BY <5>1
      <4>2. CASE ~IsOpen(h)
        <5>1. PICK u \in Nat : q \in Nat /\ u > q /\ Deletes(h, u)
          BY <3>1, <4>2, ClosedAfter
        <5> QED
          BY <1>2, <1>3, <5>1
      <4> QED
        BY <4>1, <4>2
    <3>3. u \in q + 1..at
      BY <1>8, <3>2
    <3> QED
      BY <1>4, <2>1, <3>2, <3>3
  <2> QED
    BY <1>8, <2>1
<1> QED
  BY <1>6, <1>7, <1>8

LEMMA AddsPuts ==
  ASSUME NEW R, NEW n \in Nat, RecordsOf(R, n), NEW m \in Mutation, NEW R2, Adds(R, R2, n + 1, m),
         NEW k, NEW q
  PROVE  /\ PutAt(R2, k, q) <=> (PutAt(R, k, q) \/ (q = n + 1 /\ ~IsTombstone(m) /\ k = m.key))
         /\ DelAt(R2, k, q) <=> (DelAt(R, k, q) \/ (q = n + 1 /\ IsTombstone(m) /\ k = m.key))
<1> DEFINE t == IsTombstone(m)
<1>1. TRUE \in BOOLEAN /\ FALSE \in BOOLEAN /\ t \in BOOLEAN
  BY DEF IsTombstone
<1>2. \A d \in BOOLEAN :
        Rec(R2, k, q, d) <=> (Rec(R, k, q, d) \/ (q = n + 1 /\ (d <=> t) /\ k = m.key))
  BY AddsRec
<1> HIDE DEF t
<1>3. Rec(R2, k, q, FALSE) <=> (Rec(R, k, q, FALSE) \/ (q = n + 1 /\ (FALSE <=> t) /\ k = m.key))
  BY <1>1, <1>2, Zenon
<1>4. Rec(R2, k, q, TRUE) <=> (Rec(R, k, q, TRUE) \/ (q = n + 1 /\ (TRUE <=> t) /\ k = m.key))
  BY <1>1, <1>2, Zenon
<1> QED
  BY <1>1, <1>3, <1>4, Zenon DEF PutAt, DelAt, t

LEMMA CurrentNext ==
  ASSUME NEW R, NEW n \in Nat, RecordsOf(R, n), NEW m \in Mutation, NEW R2, Adds(R, R2, n + 1, m),
         NEW k, NEW at \in Nat, NEW q \in Nat
  PROVE  Current(R2, k, at, q) <=>
           IF k = m.key /\ at > n THEN q = n + 1 /\ ~IsTombstone(m) ELSE Current(R, k, at, q)
<1> DEFINE t == IsTombstone(m)
<1>1. \A u : /\ PutAt(R2, k, u) <=> (PutAt(R, k, u) \/ (u = n + 1 /\ ~t /\ k = m.key))
             /\ DelAt(R2, k, u) <=> (DelAt(R, k, u) \/ (u = n + 1 /\ t /\ k = m.key))
  BY AddsPuts
<1>2. \A u : (PutAt(R, k, u) => u \in 1..n) /\ (DelAt(R, k, u) => u \in 1..n)
  BY PutDelParts
<1> HIDE DEF t
<1>3. CASE ~(k = m.key /\ at > n)
  <2>1. CASE k # m.key
    BY <1>1, <2>1 DEF Current
  <2>2. CASE at <= n
    <3>1. (\A u \in q + 1..at : u # n + 1) /\ (q <= at => q # n + 1)
      BY <2>2
    <3> QED
      BY <1>1, <2>2, <3>1 DEF Current
  <2> QED
    BY <1>3, <2>1, <2>2
<1>4. CASE k = m.key /\ at > n
  <2>1. ASSUME Current(R2, k, at, q) PROVE q = n + 1 /\ ~t
    <3>1. PutAt(R2, k, q) /\ q <= at /\ \A u \in q + 1..at : ~PutAt(R2, k, u) /\ ~DelAt(R2, k, u)
      BY <2>1 DEF Current
    <3>2. PutAt(R2, k, n + 1) \/ DelAt(R2, k, n + 1)
      BY <1>1, <1>4
    <3>3. n + 1 \notin q + 1..at
      BY <3>1, <3>2
    <3>4. q = n + 1
      BY <1>1, <1>2, <1>4, <3>1, <3>3
    <3>5. n + 1 \notin 1..n
      OBVIOUS
    <3> QED
      BY <1>1, <1>2, <3>1, <3>4, <3>5
  <2>2. ASSUME q = n + 1, ~t PROVE Current(R2, k, at, q)
    <3>1. PutAt(R2, k, q) /\ q <= at
      BY <1>1, <1>4, <2>2
    <3>2. ASSUME NEW u \in q + 1..at PROVE ~PutAt(R2, k, u) /\ ~DelAt(R2, k, u)
      <4>1. u # n + 1 /\ u \notin 1..n
        BY <2>2
      <4> QED
        BY <1>1, <1>2, <4>1
    <3> QED
      BY <3>1, <3>2 DEF Current
  <2> QED
    BY <1>4, <2>1, <2>2 DEF t
<1> QED
  BY <1>3, <1>4

LEMMA ReadsTakeOver ==
  ASSUME NEW idx, NEW idx2, NEW c \in Nat, NEW k0 \in Key, NEW dead \in BOOLEAN,
         Ordered(HistoryOf(idx, k0)), Below(HistoryOf(idx, k0), c),
         Advances(HistoryOf(idx, k0), HistoryOf(idx2, k0), c, dead),
         \A k : k # k0 => HistoryOf(idx2, k) = HistoryOf(idx, k)
  PROVE  TakesOver(ReadsOf(idx), ReadsOf(idx2), c, k0, dead)
<1> SUFFICES ASSUME NEW k \in Key, NEW at \in Nat, NEW q \in Nat
    PROVE  In(ReadsOf(idx2), k, at, q) <=>
             IF k = k0 /\ at > c THEN q = c + 1 /\ ~dead ELSE In(ReadsOf(idx), k, at, q)
  BY DEF TakesOver
<1>1. /\ In(ReadsOf(idx2), k, at, q) <=> Finds(HistoryOf(idx2, k), at, q)
      /\ In(ReadsOf(idx), k, at, q) <=> Finds(HistoryOf(idx, k), at, q)
  BY InReads
<1>2. CASE k # k0
  BY <1>1, <1>2
<1>3. CASE k = k0
  <2>1. Finds(HistoryOf(idx2, k0), at, q) <=>
          IF at > c THEN q = c + 1 /\ ~dead ELSE Finds(HistoryOf(idx, k0), at, q)
    BY FindsNext
  <2> QED
    BY <1>1, <1>3, <2>1
<1> QED
  BY <1>2, <1>3

LEMMA CurrentTakesOver ==
  ASSUME NEW R, NEW n \in Nat, RecordsOf(R, n), NEW m \in Mutation, NEW R2, Adds(R, R2, n + 1, m)
  PROVE  TakesOver(CurrentOf(R), CurrentOf(R2), n, m.key, IsTombstone(m))
<1> SUFFICES ASSUME NEW k \in Key, NEW at \in Nat, NEW q \in Nat
    PROVE  In(CurrentOf(R2), k, at, q) <=>
             IF k = m.key /\ at > n THEN q = n + 1 /\ ~IsTombstone(m) ELSE In(CurrentOf(R), k, at, q)
  BY DEF TakesOver
<1>1. /\ In(CurrentOf(R2), k, at, q) <=> Current(R2, k, at, q)
      /\ In(CurrentOf(R), k, at, q) <=> Current(R, k, at, q)
  BY InCurrent
<1>2. Current(R2, k, at, q) <=>
        IF k = m.key /\ at > n THEN q = n + 1 /\ ~IsTombstone(m) ELSE Current(R, k, at, q)
  BY CurrentNext
<1> QED
  BY <1>1, <1>2

LEMMA ReadsHold ==
  ASSUME NEW idx, NEW R, BackedBy(idx, R)
  PROVE  Holds(ReadsOf(idx), R)
<1> SUFFICES ASSUME NEW k \in Key, NEW at \in Nat, NEW q \in Nat, In(ReadsOf(idx), k, at, q)
             PROVE  PutAt(R, k, q)
  BY DEF Holds
<1> DEFINE h == HistoryOf(idx, k)
<1>1. Ordered(h) /\ Backed(h, R, k)
  BY DEF BackedBy
<1>2. Finds(h, at, q)
  BY InReads
<1> HIDE DEF h
<1>3. Puts(h, q)
  BY <1>1, <1>2, FindsPuts
<1>4. FALSE \in BOOLEAN
  OBVIOUS
<1> QED
  BY <1>1, <1>3, <1>4, Zenon DEF Backed, Puts, PutAt

LEMMA CurrentHolds ==
  ASSUME NEW R
  PROVE  Holds(CurrentOf(R), R)
BY InCurrent DEF Holds, Current

(* An index that lists all the records reads what they say. *)
LEMMA CompleteReads ==
  ASSUME NEW R, NEW n \in Nat, RecordsOf(R, n), NEW idx, BackedBy(idx, R), CompleteFor(idx, R),
         NEW k \in Key, NEW at \in Nat, NEW q \in Nat
  PROVE  In(ReadsOf(idx), k, at, q) <=> In(CurrentOf(R), k, at, q)
<1> DEFINE h == HistoryOf(idx, k)
<1>1. Ordered(h) /\ Backed(h, R, k) /\ Complete(h, R, k)
  BY DEF BackedBy, CompleteFor
<1>2. In(ReadsOf(idx), k, at, q) <=> Finds(h, at, q)
  BY InReads
<1>3. In(CurrentOf(R), k, at, q) <=> Current(R, k, at, q)
  BY InCurrent
<1> HIDE DEF h
<1>4. TRUE \in BOOLEAN /\ FALSE \in BOOLEAN
  OBVIOUS
<1>5. \A u : Puts(h, u) => PutAt(R, k, u)
  BY <1>1, <1>4, Zenon DEF Backed, Puts, PutAt
<1>6. \A u : Deletes(h, u) => DelAt(R, k, u)
  BY <1>1, <1>4, Zenon DEF Backed, Deletes, DelAt
<1>7. Finds(h, at, q) <=> /\ q <= at /\ Puts(h, q)
                          /\ \A u \in q + 1..at : ~Puts(h, u) /\ ~Deletes(h, u)
  BY <1>1, FindsPuts
<1>8. ASSUME Current(R, k, at, q) PROVE Finds(h, at, q)
  <2>1. PutAt(R, k, q) => Puts(h, q)
    BY <1>1 DEF Complete
  <2> QED
    BY <1>5, <1>6, <1>7, <1>8, <2>1 DEF Current
<1>9. ASSUME Finds(h, at, q) PROVE Current(R, k, at, q)
  <2>1. ASSUME NEW u \in q + 1..at PROVE ~PutAt(R, k, u) /\ ~DelAt(R, k, u)
    <3>1. u \in Nat /\ q < u
      OBVIOUS
    <3>2. ~PutAt(R, k, u)
      BY <1>1, <1>7, <1>9, <3>1 DEF Complete
    <3>3. ASSUME DelAt(R, k, u) PROVE FALSE
      <4>1. PICK v \in q + 1..u : Deletes(h, v)
        BY <1>1, <1>7, <1>9, <3>1, <3>3 DEF Complete
      <4>2. v \in q + 1..at
        BY <4>1
      <4> QED
        BY <1>7, <1>9, <4>1, <4>2
    <3> QED
      BY <3>2, <3>3
  <2> QED
    BY <1>5, <1>7, <1>9, <2>1 DEF Current
<1> QED
  BY <1>2, <1>3, <1>8, <1>9

LEMMA AddsStored ==
  ASSUME NEW R, NEW R2, NEW r, NEW m \in Mutation, Adds(R, R2, r, m)
  PROVE  /\ \A k, q : PutAt(R, k, q) => StoredAs(R2, q) = StoredAs(R, q)
         /\ ~IsTombstone(m) => StoredAs(R2, r) = m
<1>1. /\ R2[<<r, IsTombstone(m)>>] = m
      /\ \A p \in DOMAIN R : R2[p] = R[p]
  BY DEF Adds
<1>2. ASSUME NEW k, NEW q, PutAt(R, k, q) PROVE StoredAs(R2, q) = StoredAs(R, q)
  <2>1. <<q, FALSE>> \in DOMAIN R
    BY <1>2, Zenon DEF PutAt, Rec
  <2> QED
    BY <1>1, <2>1, Zenon DEF StoredAs
<1>3. ASSUME ~IsTombstone(m) PROVE StoredAs(R2, r) = m
  <2>1. IsTombstone(m) = FALSE
    BY <1>3 DEF IsTombstone
  <2> QED
    BY <1>1, <2>1, Zenon DEF StoredAs
<1> QED
  BY <1>2, <1>3

(* The write of the next revision, in what is read and in the records. *)
LEMMA JoinExact ==
  ASSUME NEW R, NEW n \in Nat, RecordsOf(R, n), NEW r \in Nat, NEW d \in BOOLEAN,
         <<r + 1, d>> \in DOMAIN R, NEW m, m = R[<<r + 1, d>>],
         NEW H, NEW N \in Nat, NEW f \in Nat,
         \A i \in 1..N : RevOf(H, i) \in Nat, RevOf(H, N + 1) = r + 1, MutOf(H, N + 1) = m,
         NEW W, NEW W2, Exact(W, UpTo(R, r), H, N, f), Holds(W, UpTo(R, r)),
         TakesOver(W, W2, r, m.key, IsTombstone(m))
  PROVE  Exact(W2, UpTo(R, r + 1), H, N + 1, f)
<1> DEFINE U == UpTo(R, r)
           V == UpTo(R, r + 1)
<1>1. m \in Mutation /\ Adds(U, V, r + 1, m)
  BY UpToNext
<1> HIDE DEF U, V
<1>2. /\ \A k, q : PutAt(U, k, q) => StoredAs(V, q) = StoredAs(U, q)
      /\ ~IsTombstone(m) => StoredAs(V, r + 1) = m
  BY <1>1, AddsStored
<1>3. KeyOf(H, N + 1) = m.key /\ DeadOf(H, N + 1) = IsTombstone(m)
  BY DEF KeyOf, DeadOf, MutOf
<1>4. m.key \in Key
  BY <1>1 DEF Mutation
<1>5. Exact(W, U, H, N, f) /\ Holds(W, U)
  BY DEF U
<1>6. Exact(W2, V, H, N + 1, f)
  BY <1>2, <1>3, <1>4, <1>5, ExactNext
<1> QED
  BY <1>6 DEF V

(* The records that follow revision c are those of a batch. *)
Batched(R, c, batch) ==
  \A i \in 1..Len(batch) : \A d \in BOOLEAN : (d <=> IsTombstone(batch[i])) =>
    <<c + i, d>> \in DOMAIN R /\ R[<<c + i, d>>] = batch[i]

(* A history goes on with a batch after its first N writes. *)
Continues(H, N, c, batch) ==
  /\ \A i \in 1..N : RevOf(H, i) \in Nat
  /\ \A i \in 1..Len(batch) : RevOf(H, N + i) = c + i /\ MutOf(H, N + i) = batch[i]

(* A write joins: the r + 1-th revision, the M + 1-th write. *)
WriteJoins(R, H, r, M, m) ==
  /\ \A j \in 1..M : RevOf(H, j) \in Nat
  /\ RevOf(H, M + 1) = r + 1 /\ MutOf(H, M + 1) = m
  /\ \E d \in BOOLEAN : /\ <<r + 1, d>> \in DOMAIN R /\ m = R[<<r + 1, d>>]
                        /\ Rec(R, m.key, r + 1, d) /\ d = IsTombstone(m)

LEMMA BatchStep ==
  ASSUME NEW batch \in Seq(Mutation), NEW R, NEW c \in Nat, RecordsOf(R, c + Len(batch)),
         Batched(R, c, batch), NEW H, NEW N \in Nat, Continues(H, N, c, batch),
         NEW i \in 1..Len(batch)
  PROVE  /\ c + (i - 1) \in Nat /\ N + (i - 1) \in Nat
         /\ (c + (i - 1)) + 1 = c + i /\ (N + (i - 1)) + 1 = N + i
         /\ batch[i] \in Mutation /\ WriteJoins(R, H, c + (i - 1), N + (i - 1), batch[i])
<1> DEFINE r == c + (i - 1)
           M == N + (i - 1)
           m == batch[i]
           d == IsTombstone(m)
<1>1. r \in Nat /\ M \in Nat /\ r + 1 = c + i /\ M + 1 = N + i /\ m \in Mutation
  OBVIOUS
<1>2. ASSUME NEW j \in 1..M PROVE RevOf(H, j) \in Nat
  <2>1. CASE j \in 1..N
    BY <2>1 DEF Continues
  <2>2. CASE j \notin 1..N
    <3>1. j - N \in 1..Len(batch) /\ N + (j - N) = j
      BY <2>2
    <3>2. RevOf(H, N + (j - N)) = c + (j - N)
      BY <3>1 DEF Continues
    <3> QED
      BY <3>1, <3>2
  <2> QED
    BY <2>1, <2>2
<1>3. RevOf(H, M + 1) = r + 1 /\ MutOf(H, M + 1) = m
  BY <1>1 DEF Continues
<1>4. d \in BOOLEAN
  BY DEF IsTombstone
<1>5. <<c + i, d>> \in DOMAIN R /\ R[<<c + i, d>>] = m
  BY <1>4 DEF Batched
<1> HIDE DEF r, M, m, d
<1>6. <<r + 1, d>> \in DOMAIN R /\ m = R[<<r + 1, d>>]
  BY <1>1, <1>5
<1>7. Rec(R, m.key, r + 1, d)
  BY <1>6 DEF Rec
<1> QED
  <2>1. WriteJoins(R, H, r, M, m)
    BY <1>2, <1>3, <1>4, <1>6, <1>7 DEF WriteJoins, d
  <2> QED
    BY <1>1, <2>1 DEF r, M, m

LEMMA BatchExactIndex ==
  ASSUME NEW batch \in Seq(Mutation), NEW R, NEW c \in Nat, RecordsOf(R, c + Len(batch)),
         Batched(R, c, batch), NEW H, NEW N \in Nat, Continues(H, N, c, batch), NEW f \in Nat,
         NEW idx, Indexes(idx, R, c), NEW idx2, NEW g, Fold(g, idx, idx2, R, c, Len(batch)),
         Exact(ReadsOf(idx), UpTo(R, c), H, N, f)
  PROVE  Exact(ReadsOf(idx2), UpTo(R, c + Len(batch)), H, N + Len(batch), f)
<1> DEFINE n == Len(batch)
           P == { i \in 0..n : Exact(ReadsOf(g[i]), UpTo(R, c + i), H, N + i, f) }
<1>1. n \in Nat /\ RecordsOf(R, c + n) /\ c + n \in Nat
  OBVIOUS
<1>2. ASSUME NEW i \in 1..n, i - 1 \in P PROVE i \in P
  <2> DEFINE r == c + (i - 1)
             M == N + (i - 1)
             m == batch[i]
  <2>0. /\ r \in Nat /\ M \in Nat /\ r + 1 = c + i /\ M + 1 = N + i /\ m \in Mutation
        /\ WriteJoins(R, H, r, M, m)
    BY BatchStep
  <2>2. /\ Indexes(g[i - 1], R, r) /\ Joins(g[i - 1], g[i], R, r)
    <3> HIDE DEF n
    <3>1. Fold(g, idx, idx2, R, c, n)
      BY DEF n
    <3> QED
      BY <1>1, <3>1, FoldSteps
  <2>3. Exact(ReadsOf(g[i - 1]), UpTo(R, r), H, M, f)
    BY <1>2
  <2>4. i \in 0..n
    OBVIOUS
  <2> HIDE DEF r, M, m, n
  <2>1. /\ r \in Nat /\ M \in Nat /\ r + 1 = c + i /\ M + 1 = N + i /\ m \in Mutation
        /\ \A j \in 1..M : RevOf(H, j) \in Nat
        /\ RevOf(H, M + 1) = r + 1 /\ MutOf(H, M + 1) = m
        /\ \E d \in BOOLEAN : /\ <<r + 1, d>> \in DOMAIN R /\ m = R[<<r + 1, d>>]
                              /\ Rec(R, m.key, r + 1, d) /\ d = IsTombstone(m)
    BY <2>0 DEF WriteJoins
  <2>5. PICK d \in BOOLEAN : /\ <<r + 1, d>> \in DOMAIN R /\ m = R[<<r + 1, d>>]
                             /\ Rec(R, m.key, r + 1, d) /\ d = IsTombstone(m)
    BY <2>1
  <2> DEFINE a == g[i - 1]
             b == g[i]
             k0 == m.key
  <2>6. k0 \in Key
    BY <2>1 DEF Mutation
  <2>7. BackedBy(a, UpTo(R, r)) /\ RecordsOf(UpTo(R, r), r)
    BY <1>1, <2>1, <2>2, UpToRecords DEF Indexes
  <2>8. /\ Advances(HistoryOf(a, k0), HistoryOf(b, k0), r, d)
        /\ \A j : j # k0 => HistoryOf(b, j) = HistoryOf(a, j)
    BY <2>2, <2>5 DEF Joins
  <2> HIDE DEF a, b, k0
  <2>9. Ordered(HistoryOf(a, k0)) /\ Backed(HistoryOf(a, k0), UpTo(R, r), k0)
    BY <2>6, <2>7 DEF BackedBy
  <2>10. Below(HistoryOf(a, k0), r)
    BY <2>1, <2>7, <2>9, BackedBelow
  <2>11. TakesOver(ReadsOf(a), ReadsOf(b), r, k0, d)
    BY <2>1, <2>6, <2>8, <2>9, <2>10, ReadsTakeOver
  <2>12. Holds(ReadsOf(a), UpTo(R, r))
    BY <2>7, ReadsHold
  <2>13. TakesOver(ReadsOf(a), ReadsOf(b), r, m.key, IsTombstone(m))
    BY <2>5, <2>11 DEF k0
  <2>14. Exact(ReadsOf(a), UpTo(R, r), H, M, f)
    BY <2>3 DEF a
  <2>15. Exact(ReadsOf(b), UpTo(R, r + 1), H, M + 1, f)
    BY <1>1, <2>1, <2>5, <2>12, <2>13, <2>14, JoinExact
  <2> QED
    BY <2>1, <2>4, <2>15 DEF b
<1>3. 0 \in P
  <2>1. g[0] = idx /\ c + 0 = c /\ N + 0 = N /\ 0 \in 0..n
    BY DEF Fold
  <2> QED
    BY <2>1
<1>4. n \in P
  <2> HIDE DEF P, n
  <2>1. n \in 0..n
    BY <1>1
  <2> QED
    BY <1>1, <1>2, <1>3, <2>1, Climb
<1>5. g[n] = idx2
  BY DEF Fold
<1> QED
  BY <1>4, <1>5

LEMMA BatchExactRecords ==
  ASSUME NEW batch \in Seq(Mutation), NEW R, NEW c \in Nat, RecordsOf(R, c + Len(batch)),
         Batched(R, c, batch), NEW H, NEW N \in Nat, Continues(H, N, c, batch), NEW f \in Nat,
         Exact(CurrentOf(UpTo(R, c)), UpTo(R, c), H, N, f)
  PROVE  Exact(CurrentOf(UpTo(R, c + Len(batch))), UpTo(R, c + Len(batch)), H, N + Len(batch), f)
<1> DEFINE n == Len(batch)
           P == { i \in 0..n : Exact(CurrentOf(UpTo(R, c + i)), UpTo(R, c + i), H, N + i, f) }
<1>1. n \in Nat /\ RecordsOf(R, c + n) /\ c + n \in Nat
  OBVIOUS
<1>2. ASSUME NEW i \in 1..n, i - 1 \in P PROVE i \in P
  <2> DEFINE r == c + (i - 1)
             M == N + (i - 1)
             m == batch[i]
  <2>0. /\ r \in Nat /\ M \in Nat /\ r + 1 = c + i /\ M + 1 = N + i /\ m \in Mutation
        /\ WriteJoins(R, H, r, M, m)
    BY BatchStep
  <2>2. Exact(CurrentOf(UpTo(R, r)), UpTo(R, r), H, M, f)
    BY <1>2
  <2>3. i \in 0..n
    OBVIOUS
  <2> HIDE DEF r, M, m, n
  <2>1. /\ r \in Nat /\ M \in Nat /\ r + 1 = c + i /\ M + 1 = N + i /\ m \in Mutation
        /\ \A j \in 1..M : RevOf(H, j) \in Nat
        /\ RevOf(H, M + 1) = r + 1 /\ MutOf(H, M + 1) = m
        /\ \E d \in BOOLEAN : /\ <<r + 1, d>> \in DOMAIN R /\ m = R[<<r + 1, d>>]
                              /\ Rec(R, m.key, r + 1, d) /\ d = IsTombstone(m)
    BY <2>0 DEF WriteJoins
  <2>4. PICK d \in BOOLEAN : /\ <<r + 1, d>> \in DOMAIN R /\ m = R[<<r + 1, d>>]
                             /\ Rec(R, m.key, r + 1, d) /\ d = IsTombstone(m)
    BY <2>1
  <2> DEFINE U == UpTo(R, r)
             V == UpTo(R, r + 1)
  <2>5. RecordsOf(U, r) /\ Adds(U, V, r + 1, m)
    <3>1. RecordsOf(U, r)
      BY <1>1, <2>1, UpToRecords
    <3>2. Adds(U, V, r + 1, R[<<r + 1, d>>])
      BY <1>1, <2>1, <2>4, UpToNext
    <3> QED
      BY <2>4, <3>1, <3>2
  <2> HIDE DEF U, V
  <2>6. TakesOver(CurrentOf(U), CurrentOf(V), r, m.key, IsTombstone(m))
    BY <2>1, <2>5, CurrentTakesOver
  <2>7. Holds(CurrentOf(U), U)
    BY CurrentHolds
  <2> DEFINE W == CurrentOf(U)
             W2 == CurrentOf(V)
  <2>8. Exact(W, UpTo(R, r), H, M, f) /\ Holds(W, UpTo(R, r))
        /\ TakesOver(W, W2, r, m.key, IsTombstone(m))
    BY <2>2, <2>6, <2>7 DEF U
  <2> HIDE DEF W, W2
  <2>9. Exact(W2, UpTo(R, r + 1), H, M + 1, f)
    BY <1>1, <2>1, <2>4, <2>8, JoinExact
  <2> QED
    BY <2>1, <2>3, <2>9 DEF V, W2
<1>3. 0 \in P
  <2>1. c + 0 = c /\ N + 0 = N /\ 0 \in 0..n
    OBVIOUS
  <2> QED
    BY <2>1
<1>4. n \in P
  <2> HIDE DEF P, n
  <2>1. n \in 0..n
    BY <1>1
  <2> QED
    BY <1>1, <1>2, <1>3, <2>1, Climb
<1> QED
  BY <1>4

-----------------------------------------------------------------------------
(* Records that a compaction removes.                                      *)

Drop(D, k, q) == <<k, q>> \in D

AnyAt(R, k, q) == PutAt(R, k, q) \/ DelAt(R, k, q)

(* What is to be dropped is recorded, at or below a watermark. *)
Dropping(R, D, t) ==
  /\ D \subseteq Key \X Nat
  /\ \A k \in Key : \A q \in Nat : Drop(D, k, q) => q <= t /\ AnyAt(R, k, q)

(* A put that is dropped has a successor at the watermark, and all puts of *)
(* its key before it are dropped as well.                                  *)
Superseded(R, D, t) ==
  \A k \in Key : \A q \in Nat : Drop(D, k, q) =>
    /\ PutAt(R, k, q) => \E s \in q + 1..t : AnyAt(R, k, s)
    /\ \A r \in Nat : r < q /\ PutAt(R, k, r) => Drop(D, k, r)

LEMMA WithoutIs ==
  ASSUME NEW R, NEW n \in Nat, RecordsOf(R, n), NEW S
  PROVE  /\ RecordsOf(Without(R, S), n)
         /\ \A k, q : /\ PutAt(Without(R, S), k, q) <=> (PutAt(R, k, q) /\ q \notin S)
                      /\ DelAt(Without(R, S), k, q) <=> (DelAt(R, k, q) /\ q \notin S)
         /\ \A k, q : PutAt(Without(R, S), k, q) => StoredAs(Without(R, S), q) = StoredAs(R, q)
<1> DEFINE D == { j \in DOMAIN R : j[1] \notin S }
           R2 == Without(R, S)
<1>1. DOMAIN R2 = D /\ (\A p \in D : R2[p] = R[p]) /\ R2 = [p \in D |-> R2[p]]
  BY DEF Without
<1>2. \A p \in D : p \in DOMAIN R
  OBVIOUS
<1>3. \A q, d : <<q, d>> \in D <=> (<<q, d>> \in DOMAIN R /\ q \notin S)
  OBVIOUS
<1> HIDE DEF D, R2
<1>4. R2 \in [DOMAIN R2 -> Mutation]
  BY <1>1, <1>2 DEF RecordsOf
<1>5. ASSUME NEW p \in DOMAIN R2
      PROVE  \E q \in 1..n : \E d \in BOOLEAN :
               /\ p = <<q, d>> /\ (d <=> IsTombstone(R2[p])) /\ <<q, ~d>> \notin DOMAIN R2
  <2>1. p \in DOMAIN R /\ R2[p] = R[p]
    BY <1>1, <1>2
  <2>2. PICK q \in 1..n : \E d \in BOOLEAN :
          /\ p = <<q, d>> /\ (d <=> IsTombstone(R[p])) /\ <<q, ~d>> \notin DOMAIN R
    BY <2>1 DEF RecordsOf
  <2> QED
    BY <1>1, <1>2, <2>1, <2>2
<1>6. RecordsOf(R2, n)
  BY <1>4, <1>5 DEF RecordsOf
<1>7. ASSUME NEW k, NEW q, NEW d
      PROVE  Rec(R2, k, q, d) <=> (Rec(R, k, q, d) /\ q \notin S)
  BY <1>1, <1>3 DEF Rec
<1>8. ASSUME NEW k, NEW q
      PROVE  /\ PutAt(R2, k, q) <=> (PutAt(R, k, q) /\ q \notin S)
             /\ DelAt(R2, k, q) <=> (DelAt(R, k, q) /\ q \notin S)
  BY <1>7, Zenon DEF PutAt, DelAt
<1>9. ASSUME NEW k, NEW q, PutAt(R2, k, q) PROVE StoredAs(R2, q) = StoredAs(R, q)
  <2>1. <<q, FALSE>> \in D
    BY <1>1, <1>9, Zenon DEF PutAt, Rec
  <2> QED
    BY <1>1, <2>1, Zenon DEF StoredAs
<1> QED
  BY <1>6, <1>8, <1>9 DEF R2

LEMMA WithoutNone ==
  ASSUME NEW R, NEW n \in Nat, RecordsOf(R, n)
  PROVE  Without(R, Revisions({})) = R
<1>1. Revisions({}) = {}
  BY DEF Revisions
<1>2. R = [p \in DOMAIN R |-> R[p]]
  BY DEF RecordsOf
<1>3. { j \in DOMAIN R : j[1] \notin {} } = DOMAIN R
  OBVIOUS
<1> QED
  BY <1>1, <1>2, <1>3 DEF Without

LEMMA WithoutBoth ==
  ASSUME NEW R, NEW D, NEW c \in SUBSET D
  PROVE  Without(Without(R, Revisions(c)), Revisions(D \ c)) = Without(R, Revisions(D))
<1> DEFINE A == { j \in DOMAIN R : j[1] \notin Revisions(c) }
           B == { j \in A : j[1] \notin Revisions(D \ c) }
           C == { j \in DOMAIN R : j[1] \notin Revisions(D) }
           R2 == Without(R, Revisions(c))
<1>1. DOMAIN R2 = A /\ \A j \in A : R2[j] = R[j]
  BY DEF Without
<1>2. \A x : x \in Revisions(D) <=> (x \in Revisions(c) \/ x \in Revisions(D \ c))
  BY DEF Revisions
<1>3. B = C
  BY <1>2
<1>4. Without(R2, Revisions(D \ c)) = [j \in B |-> R2[j]]
  BY <1>1 DEF Without
<1>5. \A j \in B : R2[j] = R[j]
  BY <1>1
<1>6. Without(R, Revisions(D)) = [j \in C |-> R[j]]
  BY DEF Without
<1> HIDE DEF A, B, C, R2
<1>7. [j \in B |-> R2[j]] = [j \in C |-> R[j]]
  BY <1>3, <1>5
<1> QED
  BY <1>4, <1>6, <1>7 DEF R2

LEMMA DroppedRevision ==
  ASSUME NEW R, NEW n \in Nat, RecordsOf(R, n), NEW D, NEW t, Dropping(R, D, t), NEW c \in SUBSET D,
         NEW k \in Key, NEW q \in Nat, AnyAt(R, k, q)
  PROVE  q \in Revisions(c) <=> Drop(c, k, q)
<1>1. ASSUME q \in Revisions(c) PROVE Drop(c, k, q)
  <2>1. PICK p \in c : q = p[2]
    BY <1>1 DEF Revisions
  <2>2. p \in D /\ D \subseteq Key \X Nat
    BY DEF Dropping
  <2>3. p[1] \in Key /\ p = <<p[1], q>>
    BY <2>1, <2>2
  <2>4. AnyAt(R, p[1], q)
    BY <2>2, <2>3 DEF Dropping, Drop
  <2>5. p[1] = k
    BY <2>4, PutDelParts DEF AnyAt
  <2> QED
    BY <2>3, <2>5 DEF Drop
<1>2. ASSUME Drop(c, k, q) PROVE q \in Revisions(c)
  <2>1. <<k, q>> \in c /\ q = <<k, q>>[2]
    BY <1>2 DEF Drop
  <2> QED
    BY <2>1 DEF Revisions
<1> QED
  BY <1>1, <1>2

(* The first of what is dropped goes. *)
LEMMA ChunkGoes ==
  ASSUME NEW R, NEW n \in Nat, RecordsOf(R, n), NEW D, NEW t \in Nat, Dropping(R, D, t),
         NEW c \in SUBSET D, \A p \in c, q \in D \ c : Before(p, q)
  PROVE  LET R2 == Without(R, Revisions(c)) IN
         /\ RecordsOf(R2, n) /\ Dropping(R2, D \ c, t)
         /\ \A k \in Key : \A q \in Nat : AnyAt(R, k, q) => (AnyAt(R2, k, q) <=> ~Drop(c, k, q))
         /\ Superseded(R, D, t) => Superseded(R2, D \ c, t)
         /\ Superseded(R, D, t) =>
              \A k \in Key : \A at \in Nat : \A q \in Nat : at >= t =>
                (Current(R2, k, at, q) <=> Current(R, k, at, q))
<1> DEFINE R2 == Without(R, Revisions(c))
           D2 == D \ c
<1>1. /\ RecordsOf(R2, n)
      /\ \A k, q : /\ PutAt(R2, k, q) <=> (PutAt(R, k, q) /\ q \notin Revisions(c))
                   /\ DelAt(R2, k, q) <=> (DelAt(R, k, q) /\ q \notin Revisions(c))
  BY WithoutIs
<1>2. \A k \in Key : \A q \in Nat : AnyAt(R, k, q) => (q \in Revisions(c) <=> Drop(c, k, q))
  BY DroppedRevision
<1>3. \A k \in Key : \A q \in Nat : /\ PutAt(R2, k, q) <=> (PutAt(R, k, q) /\ ~Drop(c, k, q))
                                    /\ DelAt(R2, k, q) <=> (DelAt(R, k, q) /\ ~Drop(c, k, q))
  BY <1>1, <1>2 DEF AnyAt
<1>4. \A k, q : /\ Drop(D2, k, q) <=> (Drop(D, k, q) /\ ~Drop(c, k, q))
                /\ Drop(c, k, q) => Drop(D, k, q)
  BY DEF Drop
<1>5. ASSUME NEW k \in Key, NEW q \in Nat, NEW r \in Nat, Drop(c, k, r), Drop(D, k, q), q < r
      PROVE  Drop(c, k, q)
  <2>1. SUFFICES ASSUME ~Drop(c, k, q) PROVE FALSE
    OBVIOUS
  <2>2. <<k, r>> \in c /\ <<k, q>> \in D \ c
    BY <1>5, <2>1 DEF Drop
  <2>3. Before(<<k, r>>, <<k, q>>)
    BY <2>2
  <2>4. k \in Nat
    BY KeyAssumption
  <2> QED
    BY <1>5, <2>3, <2>4 DEF Before
<1> HIDE DEF R2, D2
<1>6. \A k \in Key : \A q \in Nat : AnyAt(R2, k, q) <=> (AnyAt(R, k, q) /\ ~Drop(c, k, q))
  BY <1>3 DEF AnyAt
<1>7. Dropping(R2, D2, t)
  <2>1. D2 \subseteq Key \X Nat
    BY DEF Dropping, D2
  <2> QED
    BY <1>4, <1>6, <2>1 DEF Dropping
<1>8. ASSUME Superseded(R, D, t) PROVE Superseded(R2, D2, t)
  <2> SUFFICES ASSUME NEW k \in Key, NEW q \in Nat, Drop(D2, k, q)
      PROVE  /\ PutAt(R2, k, q) => \E s \in q + 1..t : AnyAt(R2, k, s)
             /\ \A r \in Nat : r < q /\ PutAt(R2, k, r) => Drop(D2, k, r)
    BY DEF Superseded
  <2>1. Drop(D, k, q) /\ ~Drop(c, k, q)
    BY <1>4
  <2>2. ASSUME PutAt(R2, k, q) PROVE \E s \in q + 1..t : AnyAt(R2, k, s)
    <3>1. PICK s \in q + 1..t : AnyAt(R, k, s)
      BY <1>3, <1>8, <2>1, <2>2 DEF Superseded
    <3>2. s \in Nat /\ q < s
      BY <3>1
    <3>3. ~Drop(c, k, s)
      BY <1>5, <2>1, <3>2
    <3> QED
      BY <1>6, <3>1, <3>2, <3>3
  <2>3. ASSUME NEW r \in Nat, r < q, PutAt(R2, k, r) PROVE Drop(D2, k, r)
    BY <1>3, <1>4, <1>8, <2>1, <2>3 DEF Superseded
  <2> QED
    BY <2>2, <2>3
<1>9. ASSUME Superseded(R, D, t), NEW k \in Key, NEW at \in Nat, NEW q \in Nat, at >= t
      PROVE  Current(R2, k, at, q) <=> Current(R, k, at, q)
  <2>1. ASSUME Current(R, k, at, q) PROVE Current(R2, k, at, q)
    <3>1. PutAt(R, k, q) /\ q <= at /\ \A u \in q + 1..at : ~AnyAt(R, k, u)
      BY <2>1 DEF Current, AnyAt
    <3>2. ~Drop(D, k, q)
      <4>1. SUFFICES ASSUME Drop(D, k, q) PROVE FALSE
        OBVIOUS
      <4>2. PICK s \in q + 1..t : AnyAt(R, k, s)
        BY <1>9, <3>1, <4>1 DEF Superseded
      <4>3. s \in q + 1..at
        BY <1>9, <4>2
      <4> QED
        BY <3>1, <4>2, <4>3
    <3>3. PutAt(R2, k, q)
      BY <1>3, <1>4, <3>1, <3>2
    <3>4. \A u \in q + 1..at : u \in Nat
      OBVIOUS
    <3>5. \A u \in q + 1..at : ~AnyAt(R2, k, u)
      BY <1>6, <3>1, <3>4
    <3> QED
      BY <3>1, <3>3, <3>5 DEF Current, AnyAt
  <2>2. ASSUME Current(R2, k, at, q) PROVE Current(R, k, at, q)
    <3>1. PutAt(R2, k, q) /\ q <= at /\ \A u \in q + 1..at : ~AnyAt(R2, k, u)
      BY <2>2 DEF Current, AnyAt
    <3>2. PutAt(R, k, q) /\ ~Drop(c, k, q)
      BY <1>3, <3>1
    <3>3. ASSUME NEW u \in q + 1..at, AnyAt(R, k, u) PROVE FALSE
      <4>1. u \in Nat /\ q < u
        OBVIOUS
      <4>2. Drop(c, k, u)
        BY <1>6, <3>1, <3>3, <4>1
      <4>3. Drop(D, k, q)
        BY <1>4, <1>9, <3>2, <4>1, <4>2 DEF Superseded
      <4> QED
        BY <1>5, <3>2, <4>1, <4>2, <4>3
    <3> QED
      BY <3>1, <3>2, <3>3 DEF Current, AnyAt
  <2> QED
    BY <2>1, <2>2
<1> QED
  BY <1>1, <1>6, <1>7, <1>8, <1>9 DEF R2, D2

(* What a compaction of an index drops, and what the index keeps. *)
LEMMA CompactDrops ==
  ASSUME NEW R, NEW n \in Nat, RecordsOf(R, n), NEW idx, IsIndex(idx), BackedBy(idx, R), NEW at \in Nat
  PROVE  LET idx2 == IndexCompact(idx, at)
             D == Dropped(idx, at)
         IN  /\ IsIndex(idx2) /\ NoneEmpty(idx2) /\ Dropping(R, D, at)
             /\ BackedBy(idx2, Without(R, Revisions(D)))
             /\ CompleteFor(idx, R) => CompleteFor(idx2, Without(R, Revisions(D))) /\ Superseded(R, D, at)
             /\ \A k \in Key : \A a \in Nat : a >= at =>
                  Found(HistoryOf(idx2, k), a) = Found(HistoryOf(idx, k), a)
<1> DEFINE idx2 == IndexCompact(idx, at)
           D == Dropped(idx, at)
           R2 == Without(R, Revisions(D))
<1>1. \A k \in Key : Ordered(HistoryOf(idx, k)) /\ Backed(HistoryOf(idx, k), R, k)
  BY DEF BackedBy
<1>2. /\ IsIndex(idx2) /\ NoneEmpty(idx2)
      /\ \A k \in Key : HistoryOf(idx2, k) = CompactHistory(HistoryOf(idx, k), at)
      /\ D \subseteq Key \X Nat
      /\ \A k \in Key : \A q : <<k, q>> \in D <=> q \in DroppedOf(HistoryOf(idx, k), at)
  BY <1>1, IndexCompacts
<1> HIDE DEF idx2, D
<1>3. TRUE \in BOOLEAN /\ FALSE \in BOOLEAN
  OBVIOUS
<1>4. ASSUME NEW k \in Key
      PROVE  LET h == HistoryOf(idx, k)
                 h2 == HistoryOf(idx2, k)
             IN  /\ Ordered(h) /\ Ordered(h2)
                 /\ \A q : /\ Puts(h, q) => PutAt(R, k, q) /\ q \in Nat
                           /\ Deletes(h, q) => DelAt(R, k, q) /\ q \in Nat
                           /\ Puts(h2, q) <=> (Puts(h, q) /\ ~Drop(D, k, q))
                           /\ Deletes(h2, q) <=> (Deletes(h, q) /\ ~Drop(D, k, q))
                           /\ Drop(D, k, q) => /\ q \in Nat /\ q <= at /\ (Puts(h, q) \/ Deletes(h, q))
                                               /\ Puts(h, q) =>
                                                    \E u \in q + 1..at : Puts(h, u) \/ Deletes(h, u)
                                               /\ \A r \in Nat : r < q /\ Puts(h, r) => Drop(D, k, r)
                 /\ \A a \in Nat : a >= at => Found(h2, a) = Found(h, a)
  <2> DEFINE h == HistoryOf(idx, k)
             h2 == HistoryOf(idx2, k)
  <2>1. Ordered(h) /\ Backed(h, R, k) /\ h2 = CompactHistory(h, at)
    BY <1>1, <1>2
  <2>2. \A q : Drop(D, k, q) <=> q \in DroppedOf(h, at)
    BY <1>2 DEF Drop
  <2> HIDE DEF h, h2
  <2>3. /\ Ordered(h2)
        /\ \A q : \A t \in BOOLEAN : Lists(h2, q, t) <=> (Lists(h, q, t) /\ q \notin DroppedOf(h, at))
        /\ \A a \in Nat : a >= at => Found(h2, a) = Found(h, a)
    BY <2>1, HistoryCompacts
  <2>4. \A q : /\ Puts(h2, q) <=> (Puts(h, q) /\ ~Drop(D, k, q))
               /\ Deletes(h2, q) <=> (Deletes(h, q) /\ ~Drop(D, k, q))
    BY <1>3, <2>2, <2>3, Zenon DEF Puts, Deletes
  <2>5. \A q : (Puts(h, q) => PutAt(R, k, q)) /\ (Deletes(h, q) => DelAt(R, k, q))
    <3>1. \A q : \A d \in BOOLEAN : Lists(h, q, d) => Rec(R, k, q, d)
      BY <2>1 DEF Backed
    <3> QED
      BY <1>3, <3>1, Zenon DEF Puts, Deletes, PutAt, DelAt
  <2>6. \A q : (PutAt(R, k, q) => q \in 1..n) /\ (DelAt(R, k, q) => q \in 1..n)
    BY PutDelParts
  <2>7. \A q : (Puts(h, q) => q \in Nat) /\ (Deletes(h, q) => q \in Nat)
    BY <2>5, <2>6
  <2>8. ASSUME NEW q, Drop(D, k, q)
        PROVE  /\ q \in Nat /\ q <= at /\ (Puts(h, q) \/ Deletes(h, q))
               /\ Puts(h, q) => \E u \in q + 1..at : Puts(h, u) \/ Deletes(h, u)
               /\ \A r \in Nat : r < q /\ Puts(h, r) => Drop(D, k, r)
    <3>1. q \in DroppedOf(h, at)
      BY <2>2, <2>8
    <3>2. Puts(h, q) \/ Deletes(h, q)
      BY <2>1, <3>1, DroppedIs DEF Puts, Deletes
    <3>3. /\ q \in Nat /\ q <= at
          /\ Puts(h, q) => \E u \in q + 1..at : Puts(h, u) \/ Deletes(h, u)
          /\ \A r \in Nat : r < q /\ Puts(h, r) => r \in DroppedOf(h, at)
      BY <2>1, <3>1, DroppedFirst DEF Puts, Deletes
    <3> QED
      BY <2>2, <3>2, <3>3
  <2> QED
    BY <2>1, <2>3, <2>4, <2>5, <2>7, <2>8 DEF h, h2
<1>5. Dropping(R, D, at)
  BY <1>2, <1>4 DEF Dropping, AnyAt
<1>6. /\ RecordsOf(R2, n)
      /\ \A k, q : /\ PutAt(R2, k, q) <=> (PutAt(R, k, q) /\ q \notin Revisions(D))
                   /\ DelAt(R2, k, q) <=> (DelAt(R, k, q) /\ q \notin Revisions(D))
  BY WithoutIs
<1>7. \A k \in Key : \A q \in Nat : AnyAt(R, k, q) => (q \in Revisions(D) <=> Drop(D, k, q))
  BY <1>5, DroppedRevision
<1> HIDE DEF R2
<1>8. \A k \in Key : \A q \in Nat : /\ PutAt(R2, k, q) <=> (PutAt(R, k, q) /\ ~Drop(D, k, q))
                                    /\ DelAt(R2, k, q) <=> (DelAt(R, k, q) /\ ~Drop(D, k, q))
  BY <1>6, <1>7 DEF AnyAt
<1>9. BackedBy(idx2, R2)
  <2> SUFFICES ASSUME NEW k \in Key
               PROVE  Ordered(HistoryOf(idx2, k)) /\ Backed(HistoryOf(idx2, k), R2, k)
    BY DEF BackedBy
  <2> DEFINE h == HistoryOf(idx, k)
             h2 == HistoryOf(idx2, k)
  <2>1. \A q : (Puts(h2, q) => PutAt(R2, k, q)) /\ (Deletes(h2, q) => DelAt(R2, k, q))
    BY <1>4, <1>8
  <2>2. Ordered(h2)
    BY <1>4
  <2> HIDE DEF h2
  <2>3. ASSUME NEW q, NEW d \in BOOLEAN, Lists(h2, q, d) PROVE Rec(R2, k, q, d)
    <3>1. CASE d = TRUE
      BY <2>1, <2>3, <3>1, Zenon DEF Deletes, DelAt
    <3>2. CASE d = FALSE
      BY <2>1, <2>3, <3>2, Zenon DEF Puts, PutAt
    <3> QED
      BY <3>1, <3>2
  <2> QED
    BY <2>2, <2>3 DEF Backed, h2
<1>10. ASSUME CompleteFor(idx, R) PROVE CompleteFor(idx2, R2) /\ Superseded(R, D, at)
  <2>1. ASSUME NEW k \in Key PROVE Complete(HistoryOf(idx2, k), R2, k)
    <3> DEFINE h == HistoryOf(idx, k)
               h2 == HistoryOf(idx2, k)
    <3>1. Complete(h, R, k)
      BY <1>10 DEF CompleteFor
    <3>2. \A q : /\ Puts(h2, q) <=> (Puts(h, q) /\ ~Drop(D, k, q))
                 /\ Deletes(h2, q) <=> (Deletes(h, q) /\ ~Drop(D, k, q))
                 /\ Deletes(h, q) => q \in Nat
                 /\ Drop(D, k, q) => \A r \in Nat : r < q /\ Puts(h, r) => Drop(D, k, r)
      BY <1>4
    <3> HIDE DEF h, h2
    <3>3. ASSUME NEW r \in Nat, PutAt(R2, k, r) PROVE Puts(h2, r)
      BY <1>8, <3>1, <3>2, <3>3 DEF Complete
    <3>4. ASSUME NEW r \in Nat, DelAt(R2, k, r), NEW q \in Nat, q < r, Puts(h2, q)
          PROVE  \E u \in q + 1..r : Deletes(h2, u)
      <4>1. PICK u \in q + 1..r : Deletes(h, u)
        BY <1>8, <3>1, <3>2, <3>4 DEF Complete
      <4>2. u \in Nat /\ q < u
        BY <4>1
      <4>3. ~Drop(D, k, u)
        BY <3>2, <3>4, <4>2
      <4> QED
        BY <3>2, <4>1, <4>3
    <3> QED
      BY <3>3, <3>4 DEF Complete, h2
  <2>2. ASSUME NEW k \in Key, NEW q \in Nat, Drop(D, k, q)
        PROVE  /\ PutAt(R, k, q) => \E s \in q + 1..at : AnyAt(R, k, s)
               /\ \A r \in Nat : r < q /\ PutAt(R, k, r) => Drop(D, k, r)
    <3> DEFINE h == HistoryOf(idx, k)
    <3>1. \A r \in Nat : PutAt(R, k, r) => Puts(h, r)
      BY <1>10 DEF CompleteFor, Complete
    <3>2. /\ Puts(h, q) => \E u \in q + 1..at : Puts(h, u) \/ Deletes(h, u)
          /\ \A r \in Nat : r < q /\ Puts(h, r) => Drop(D, k, r)
          /\ \A u : (Puts(h, u) => PutAt(R, k, u)) /\ (Deletes(h, u) => DelAt(R, k, u))
      BY <1>4, <2>2
    <3> HIDE DEF h
    <3> QED
      BY <3>1, <3>2 DEF AnyAt
  <2> QED
    BY <2>1, <2>2 DEF CompleteFor, Superseded
<1>11. \A k \in Key : \A a \in Nat : a >= at =>
         Found(HistoryOf(idx2, k), a) = Found(HistoryOf(idx, k), a)
  BY <1>4
<1> QED
  BY <1>2, <1>5, <1>9, <1>10, <1>11 DEF idx2, D, R2

LEMMA FindsFound ==
  ASSUME NEW h, Ordered(h), NEW at \in Nat
  PROVE  /\ \A x \in Found(h, at) : Finds(h, at, x.modified)
         /\ \A q : Finds(h, at, q) => \E x \in Found(h, at) : x.modified = q
<1>1. ASSUME NEW x \in Found(h, at) PROVE Finds(h, at, x.modified)
  <2>1. PICK g, i \in Nat : Located(h, at, g, i) /\ x = Observed(h, g, i)
    BY FoundIs
  <2>2. x.modified = Rev(h, g, i)
    BY <2>1 DEF Observed
  <2> QED
    BY <2>1, <2>2 DEF Finds
<1>2. ASSUME NEW q, Finds(h, at, q) PROVE \E x \in Found(h, at) : x.modified = q
  <2>1. PICK g, i \in Nat : Located(h, at, g, i) /\ Rev(h, g, i) = q
    BY <1>2 DEF Finds
  <2>2. Observed(h, g, i) \in Found(h, at)
    BY <2>1, FoundIs
  <2>3. Observed(h, g, i).modified = q
    BY <2>1 DEF Observed
  <2> QED
    BY <2>2, <2>3
<1> QED
  BY <1>1, <1>2

LEMMA SameFound ==
  ASSUME NEW idx, NEW idx2, NEW at \in Nat,
         \A k \in Key : /\ Ordered(HistoryOf(idx, k)) /\ Ordered(HistoryOf(idx2, k))
                        /\ \A a \in Nat : a >= at =>
                             Found(HistoryOf(idx2, k), a) = Found(HistoryOf(idx, k), a),
         NEW k \in Key, NEW a \in Nat, a >= at, NEW q \in Nat
  PROVE  In(ReadsOf(idx2), k, a, q) <=> In(ReadsOf(idx), k, a, q)
<1> DEFINE h == HistoryOf(idx, k)
           h2 == HistoryOf(idx2, k)
<1>1. Ordered(h) /\ Ordered(h2) /\ Found(h2, a) = Found(h, a)
  OBVIOUS
<1>2. /\ In(ReadsOf(idx2), k, a, q) <=> Finds(h2, a, q)
      /\ In(ReadsOf(idx), k, a, q) <=> Finds(h, a, q)
  BY InReads
<1> HIDE DEF h, h2
<1>3. /\ \A x \in Found(h, a) : Finds(h, a, x.modified)
      /\ \A r : Finds(h, a, r) => \E x \in Found(h, a) : x.modified = r
  BY <1>1, FindsFound
<1>4. /\ \A x \in Found(h2, a) : Finds(h2, a, x.modified)
      /\ \A r : Finds(h2, a, r) => \E x \in Found(h2, a) : x.modified = r
  BY <1>1, FindsFound
<1>5. ASSUME Finds(h2, a, q) PROVE Finds(h, a, q)
  <2>1. PICK x \in Found(h2, a) : x.modified = q
    BY <1>4, <1>5
  <2> QED
    BY <1>1, <1>3, <2>1
<1>6. ASSUME Finds(h, a, q) PROVE Finds(h2, a, q)
  <2>1. PICK x \in Found(h, a) : x.modified = q
    BY <1>3, <1>6
  <2> QED
    BY <1>1, <1>4, <2>1
<1> QED
  BY <1>2, <1>5, <1>6

LEMMA WriteParts ==
  ASSUME hist \in Seq(Write)
  PROVE  /\ Len(hist) \in Nat /\ DOMAIN hist = 1..Len(hist)
         /\ \A i \in 1..Len(hist) : /\ RevOf(hist, i) \in Nat /\ MutOf(hist, i) \in Mutation
                                    /\ KeyOf(hist, i) = MutOf(hist, i).key /\ KeyOf(hist, i) \in Key
                                    /\ DeadOf(hist, i) = IsTombstone(MutOf(hist, i))
<1>1. Len(hist) \in Nat /\ DOMAIN hist = 1..Len(hist) /\ \A i \in 1..Len(hist) : hist[i] \in Write
  OBVIOUS
<1>2. ASSUME NEW i \in 1..Len(hist)
      PROVE  /\ RevOf(hist, i) \in Nat /\ MutOf(hist, i) \in Mutation
             /\ KeyOf(hist, i) = MutOf(hist, i).key /\ KeyOf(hist, i) \in Key
             /\ DeadOf(hist, i) = IsTombstone(MutOf(hist, i))
  <2> DEFINE w == hist[i]
  <2>1. w \in Write
    BY <1>1
  <2> HIDE DEF w
  <2>2. w.revision \in Nat /\ w.mutation \in Mutation
    BY <2>1 DEF Write, Revision
  <2>3. w.mutation.key \in Key
    BY <2>2 DEF Mutation
  <2>4. RevOf(hist, i) = w.revision /\ MutOf(hist, i) = w.mutation /\ KeyOf(hist, i) = w.mutation.key
        /\ DeadOf(hist, i) = IsTombstone(w.mutation)
    BY DEF RevOf, MutOf, KeyOf, DeadOf, w
  <2> QED
    BY <2>2, <2>3, <2>4
<1> QED
  BY <1>1, <1>2

LEMMA IncarnationIs ==
  ASSUME hist \in Seq(Write), NEW k, NEW at \in Nat, NEW i
  PROVE  i \in Incarnation(k, at) <=>
           /\ i \in 1..Len(hist) /\ KeyOf(hist, i) = k /\ RevOf(hist, i) <= at
           /\ \A j \in 1..Len(hist) : KeyOf(hist, j) = k /\ RevOf(hist, j) <= at /\ j >= i => ~DeadOf(hist, j)
<1>1. DOMAIN hist = 1..Len(hist)
  OBVIOUS
<1> QED
  BY <1>1 DEF Incarnation, WritesTo, KeyOf, RevOf, DeadOf

(* The last write of an incarnation is the live one. *)
LEMMA LastLive ==
  ASSUME hist \in Seq(Write), NEW k, NEW at \in Nat
  PROVE  LET live == Incarnation(k, at) IN
         /\ live \subseteq 1..Len(hist) /\ live \in SUBSET Nat
         /\ live # {} => Live(hist, Len(hist), k, at, Max(live))
         /\ \A i \in 1..Len(hist) : Live(hist, Len(hist), k, at, i) => live # {} /\ Max(live) = i
<1> DEFINE live == Incarnation(k, at)
           n == Len(hist)
<1>1. \A i : i \in live <=>
        /\ i \in 1..n /\ KeyOf(hist, i) = k /\ RevOf(hist, i) <= at
        /\ \A j \in 1..n : KeyOf(hist, j) = k /\ RevOf(hist, j) <= at /\ j >= i => ~DeadOf(hist, j)
  BY IncarnationIs
<1>2. n \in Nat
  OBVIOUS
<1> HIDE DEF live, n
<1>3. live \subseteq 1..n /\ live \in SUBSET Nat /\ \A x \in live : x <= n
  BY <1>1, <1>2
<1>4. live # {} => Max(live) \in live /\ \A y \in live : y <= Max(live)
  BY <1>2, <1>3, Largest
<1>5. ASSUME live # {} PROVE Live(hist, n, k, at, Max(live))
  <2> DEFINE x == Max(live)
  <2>1. x \in live /\ \A y \in live : y <= x
    BY <1>4, <1>5
  <2> HIDE DEF x
  <2>2. /\ x \in 1..n /\ KeyOf(hist, x) = k /\ RevOf(hist, x) <= at
        /\ \A j \in 1..n : KeyOf(hist, j) = k /\ RevOf(hist, j) <= at /\ j >= x => ~DeadOf(hist, j)
    BY <1>1, <2>1
  <2>3. ~DeadOf(hist, x)
    BY <2>2
  <2>4. ASSUME NEW j \in x + 1..n, KeyOf(hist, j) = k, RevOf(hist, j) <= at PROVE FALSE
    <3>1. j \in 1..n /\ j > x
      BY <1>2, <2>2
    <3>2. \A l \in 1..n : KeyOf(hist, l) = k /\ RevOf(hist, l) <= at /\ l >= j => ~DeadOf(hist, l)
      BY <2>2, <3>1
    <3>3. j \in live
      BY <1>1, <2>4, <3>1, <3>2
    <3> QED
      BY <2>1, <2>2, <3>1, <3>3
  <2>5. Live(hist, n, k, at, x)
    BY <2>2, <2>3, <2>4 DEF Live
  <2> QED
    BY <2>5 DEF x
<1>6. ASSUME NEW i \in 1..n, Live(hist, n, k, at, i) PROVE live # {} /\ Max(live) = i
  <2>1. /\ KeyOf(hist, i) = k /\ RevOf(hist, i) <= at /\ ~DeadOf(hist, i)
        /\ \A j \in i + 1..n : ~(KeyOf(hist, j) = k /\ RevOf(hist, j) <= at)
    BY <1>6 DEF Live
  <2>2. ASSUME NEW j \in 1..n, KeyOf(hist, j) = k, RevOf(hist, j) <= at, j >= i PROVE j = i
    BY <1>2, <2>1, <2>2
  <2>3. i \in live
    BY <1>1, <2>1, <2>2
  <2>4. Max(live) \in live /\ i <= Max(live)
    BY <1>4, <2>3
  <2>5. Max(live) \in 1..n /\ KeyOf(hist, Max(live)) = k /\ RevOf(hist, Max(live)) <= at
    BY <1>1, <2>4
  <2> QED
    BY <2>2, <2>3, <2>4, <2>5
<1> QED
  BY <1>3, <1>5, <1>6 DEF live, n

Pair(q, v) == [modified |-> q, stored |-> v]

LEMMA LiveStored ==
  ASSUME hist \in Seq(Write), BackedBy(index, backend.records), NEW f \in Nat,
         Exact(ReadsOf(index), backend.records, hist, Len(hist), f),
         NEW at \in Nat, at >= f, NEW k \in Key,
         NEW i \in 1..Len(hist), Live(hist, Len(hist), k, at, i)
  PROVE  Stored(backend.records, RevOf(hist, i)) = MutOf(hist, i).value
<1> DEFINE R == backend.records
           q == RevOf(hist, i)
<1>1. RevOf(hist, i) \in Nat
  BY WriteParts
<1>2. q \in Nat /\ In(ReadsOf(index), k, at, q) /\ MutOf(hist, i) = StoredAs(R, q)
  BY <1>1 DEF Exact
<1>3. Holds(ReadsOf(index), R)
  BY ReadsHold
<1> HIDE DEF q, R
<1>4. PutAt(R, k, q)
  BY <1>2, <1>3 DEF Holds
<1>5. <<q, FALSE>> \in DOMAIN R
  BY <1>4, Zenon DEF PutAt, Rec
<1>6. Stored(R, q) = StoredAs(R, q).value
  BY <1>5, Zenon DEF Stored, StoredAs
<1> QED
  BY <1>2, <1>6 DEF q, R

(* What is read of a key is its live write. *)
ReadsLive(k, at, x) ==
  (\E r \in ReadAt(k, at) : x = Pair(r.modified, r.stored)) <=>
    \E i \in 1..Len(hist) : /\ Live(hist, Len(hist), k, at, i)
                            /\ x = Pair(RevOf(hist, i), MutOf(hist, i).value)

LEMMA ReadPairs ==
  ASSUME hist \in Seq(Write), BackedBy(index, backend.records), NEW f \in Nat,
         Exact(ReadsOf(index), backend.records, hist, Len(hist), f),
         NEW at \in Nat, at >= f, NEW k \in Key, NEW x
  PROVE  ReadsLive(k, at, x)
<1> DEFINE R == backend.records
           n == Len(hist)
           h == HistoryOf(index, k)
<1>1. /\ \A q \in Nat : In(ReadsOf(index), k, at, q) <=>
                          \E i \in 1..n : Live(hist, n, k, at, i) /\ RevOf(hist, i) = q
      /\ \A i \in 1..n : Live(hist, n, k, at, i) => MutOf(hist, i) = StoredAs(R, RevOf(hist, i))
  BY DEF Exact
<1>2. Ordered(h) /\ Holds(ReadsOf(index), R)
  BY ReadsHold DEF BackedBy
<1>3. \A q \in Nat : In(ReadsOf(index), k, at, q) <=> Finds(h, at, q)
  BY InReads
<1>4. \A i \in 1..n : RevOf(hist, i) \in Nat
  BY WriteParts
<1>5. \A i \in 1..n : Live(hist, n, k, at, i) => Stored(R, RevOf(hist, i)) = MutOf(hist, i).value
  BY LiveStored
<1>6. (\E r \in ReadAt(k, at) : x = Pair(r.modified, r.stored)) <=>
        \E y \in Found(h, at) : x = Pair(y.modified, Stored(R, y.modified))
  <2> DEFINE full(y) == [modified |-> y.modified, created |-> y.created, version |-> y.version,
                         stored |-> Stored(R, y.modified)]
  <2>1. ReadAt(k, at) = { full(y) : y \in Found(h, at) }
    BY DEF ReadAt
  <2>2. \A y : full(y).modified = y.modified /\ full(y).stored = Stored(R, y.modified)
    OBVIOUS
  <2> HIDE DEF full, h, R
  <2> QED
    BY <2>1, <2>2
<1> HIDE DEF h, R, n
<1>7. /\ \A y \in Found(h, at) : Finds(h, at, y.modified)
      /\ \A q : Finds(h, at, q) => \E y \in Found(h, at) : y.modified = q
  BY <1>2, FindsFound
<1>8. \A q : Finds(h, at, q) => q \in Nat
  BY <1>2, FindsPuts
<1>9. ASSUME NEW y \in Found(h, at), x = Pair(y.modified, Stored(R, y.modified))
      PROVE  \E i \in 1..n : Live(hist, n, k, at, i) /\ x = Pair(RevOf(hist, i), MutOf(hist, i).value)
  <2>1. PICK i \in 1..n : Live(hist, n, k, at, i) /\ RevOf(hist, i) = y.modified
    BY <1>1, <1>3, <1>7, <1>8
  <2> QED
    BY <1>5, <1>9, <2>1
<1>10. ASSUME NEW i \in 1..n, Live(hist, n, k, at, i), x = Pair(RevOf(hist, i), MutOf(hist, i).value)
       PROVE  \E y \in Found(h, at) : x = Pair(y.modified, Stored(R, y.modified))
  <2>1. Finds(h, at, RevOf(hist, i))
    BY <1>1, <1>3, <1>4, <1>10
  <2>2. PICK y \in Found(h, at) : y.modified = RevOf(hist, i)
    BY <1>7, <2>1
  <2> QED
    BY <1>5, <1>10, <2>2
<1> QED
  BY <1>6, <1>9, <1>10 DEF n, ReadsLive

(* What is exact reads as expected. *)
LEMMA ExactAgrees ==
  ASSUME hist \in Seq(Write), BackedBy(index, backend.records), NEW f \in Nat,
         Exact(ReadsOf(index), backend.records, hist, Len(hist), f),
         NEW at \in Nat, at >= f
  PROVE  Agrees(at)
<1> DEFINE n == Len(hist)
<1> SUFFICES ASSUME NEW k \in Key PROVE SameValue(ReadAt(k, at), Expected(k, at))
  BY DEF Agrees
<1> DEFINE live == Incarnation(k, at)
           A == { [modified |-> r.modified, stored |-> r.stored] : r \in ReadAt(k, at) }
           B == { [modified |-> r.modified, stored |-> r.stored] : r \in Expected(k, at) }
<1>1. /\ live \subseteq 1..n
      /\ live # {} => Live(hist, n, k, at, Max(live))
      /\ \A i \in 1..n : Live(hist, n, k, at, i) => live # {} /\ Max(live) = i
  BY LastLive
<1>2. ASSUME NEW x PROVE x \in A <=> \E i \in 1..n : Live(hist, n, k, at, i) /\ x = Pair(RevOf(hist, i), MutOf(hist, i).value)
  <2>1. x \in A <=> \E r \in ReadAt(k, at) : x = Pair(r.modified, r.stored)
    BY DEF Pair
  <2>2. ReadsLive(k, at, x)
    BY ReadPairs
  <2> HIDE DEF A
  <2> QED
    BY <2>1, <2>2 DEF ReadsLive
<1>3. ASSUME NEW x PROVE x \in B <=> \E i \in 1..n : Live(hist, n, k, at, i) /\ x = Pair(RevOf(hist, i), MutOf(hist, i).value)
  <2>1. x \in B <=> (live # {} /\ x = Pair(RevOf(hist, Max(live)), MutOf(hist, Max(live)).value))
    <3> DEFINE full(l) == [modified |-> hist[Max(l)].revision, created |-> hist[Min(l)].revision,
                           version |-> Cardinality(l), stored |-> hist[Max(l)].mutation.value]
    <3>1. Expected(k, at) = { full(l) : l \in { live } \ {{}} }
      BY DEF Expected
    <3>2. \A l : full(l).modified = RevOf(hist, Max(l)) /\ full(l).stored = MutOf(hist, Max(l)).value
      BY DEF RevOf, MutOf
    <3>3. x \in B <=> \E r \in Expected(k, at) : x = Pair(r.modified, r.stored)
      BY DEF Pair
    <3> HIDE DEF full, live, B
    <3> QED
      BY <3>1, <3>2, <3>3
  <2> HIDE DEF live, n, B
  <2>2. ASSUME live # {} PROVE Max(live) \in 1..n /\ Live(hist, n, k, at, Max(live))
    BY <1>1, <2>2 DEF Live
  <2> QED
    BY <1>1, <2>1, <2>2
<1>4. A = B
  <2> HIDE DEF A, B
  <2> QED
    BY <1>2, <1>3
<1> QED
  BY <1>4 DEF SameValue

-----------------------------------------------------------------------------
(* Sequences.                                                              *)

(* A sequence, of whatever elements.                                       *)
Chain(s) == s \in Seq({ s[i] : i \in DOMAIN s })

LEMMA ChainParts ==
  ASSUME NEW s, Chain(s)
  PROVE  Len(s) \in Nat /\ DOMAIN s = 1..Len(s)
BY DEF Chain

(* Every sequence over some set is a chain.                                *)
LEMMA SeqIsChain ==
  ASSUME NEW S, NEW s \in Seq(S)
  PROVE  Chain(s)
<1>1. s \in [1..Len(s) -> S] /\ Len(s) \in Nat
  OBVIOUS
<1>2. s \in [1..Len(s) -> { s[i] : i \in DOMAIN s }]
  BY <1>1
<1> QED
  BY <1>1, <1>2 DEF Chain

LEMMA AppendChain ==
  ASSUME NEW s, Chain(s), NEW x
  PROVE  /\ Chain(Append(s, x))
         /\ Len(Append(s, x)) = Len(s) + 1
         /\ \A i \in 1..Len(s) : Append(s, x)[i] = s[i]
         /\ Append(s, x)[Len(s) + 1] = x
<1> DEFINE T == { s[i] : i \in DOMAIN s } \cup {x}
<1>1. s \in Seq(T)
  <2>1. s \in [1..Len(s) -> { s[i] : i \in DOMAIN s }] /\ Len(s) \in Nat
    BY DEF Chain
  <2>2. s \in [1..Len(s) -> T]
    BY <2>1
  <2> QED
    BY <2>1, <2>2
<1>2. x \in T
  OBVIOUS
<1> HIDE DEF T
<1>3. Append(s, x) \in Seq(T)
  BY <1>1, <1>2
<1>4. Chain(Append(s, x))
  BY <1>3, SeqIsChain
<1> QED
  BY <1>1, <1>2, <1>4

LEMMA JoinedChain ==
  ASSUME NEW s, Chain(s), NEW t, Chain(t)
  PROVE  /\ Chain(s \o t)
         /\ Len(s \o t) = Len(s) + Len(t)
         /\ \A i \in 1..Len(s) : (s \o t)[i] = s[i]
         /\ \A i \in Len(s) + 1..Len(s) + Len(t) : (s \o t)[i] = t[i - Len(s)]
<1> DEFINE T == { s[i] : i \in DOMAIN s } \cup { t[i] : i \in DOMAIN t }
<1>1. s \in Seq(T)
  <2>1. s \in [1..Len(s) -> { s[i] : i \in DOMAIN s }] /\ Len(s) \in Nat
    BY DEF Chain
  <2>2. s \in [1..Len(s) -> T]
    BY <2>1
  <2> QED
    BY <2>1, <2>2
<1>2. t \in Seq(T)
  <2>1. t \in [1..Len(t) -> { t[i] : i \in DOMAIN t }] /\ Len(t) \in Nat
    BY DEF Chain
  <2>2. t \in [1..Len(t) -> T]
    BY <2>1
  <2> QED
    BY <2>1, <2>2
<1> HIDE DEF T
<1>3. s \o t \in Seq(T)
  BY <1>1, <1>2
<1>4. Chain(s \o t)
  BY <1>3, SeqIsChain
<1> QED
  BY <1>1, <1>2, <1>4

LEMMA CutChain ==
  ASSUME NEW s, Chain(s), NEW m \in Nat \ {0}, NEW n \in Nat, n <= Len(s), m <= n + 1
  PROVE  /\ Chain(SubSeq(s, m, n))
         /\ Len(SubSeq(s, m, n)) = n - m + 1
         /\ \A i \in 1..n - m + 1 : SubSeq(s, m, n)[i] = s[m + i - 1]
<1> DEFINE T == { s[i] : i \in DOMAIN s }
<1>1. s \in Seq(T)
  BY DEF Chain
<1> HIDE DEF T
<1>2. SubSeq(s, m, n) \in Seq(T)
  BY <1>1
<1>3. Chain(SubSeq(s, m, n))
  BY <1>2, SeqIsChain
<1> QED
  BY <1>1, <1>3

-----------------------------------------------------------------------------
(* The chain of commits.                                                   *)

LengthOf(C, i) == C[i].length
RecordsAt(C, i) == C[i].backend.records
AppliedAt(C, i) == C[i].backend.applied

(* Every commit stands for a part of n writes, and the last one for all.   *)
CommitsOK(C, n) ==
  /\ Chain(C) /\ C # <<>>
  /\ \A i \in 1..Len(C) : /\ LengthOf(C, i) \in 0..n /\ AppliedAt(C, i) \in Nat
                          /\ RecordsOf(RecordsAt(C, i), LengthOf(C, i))
  /\ \A i, j \in 1..Len(C) : i <= j => LengthOf(C, i) <= LengthOf(C, j)
  /\ LengthOf(C, Len(C)) = n

(* A commit with the content a transaction gave it. *)
IsCommit(C, i, n, R, position) ==
  LengthOf(C, i) = n /\ RecordsAt(C, i) = R /\ AppliedAt(C, i) = position

SameCommit(C, C2, i) ==
  /\ LengthOf(C2, i) = LengthOf(C, i) /\ RecordsAt(C2, i) = RecordsAt(C, i)
  /\ AppliedAt(C2, i) = AppliedAt(C, i)

LEMMA RecordsWider ==
  ASSUME NEW R, NEW n \in Nat, RecordsOf(R, n), NEW n2 \in Nat, n <= n2
  PROVE  RecordsOf(R, n2)
<1>1. 1..n \subseteq 1..n2
  OBVIOUS
<1> QED
  BY <1>1 DEF RecordsOf

LEMMA SnapshotParts ==
  ASSUME NEW n, NEW R, NEW position
  PROVE  /\ Snapshot(n, R, position).length = n
         /\ Snapshot(n, R, position).backend.records = R
         /\ Snapshot(n, R, position).backend.applied = position
BY DEF Snapshot

LEMMA CommitJoins ==
  ASSUME NEW C, NEW n \in Nat, CommitsOK(C, n), NEW n2 \in Nat, n <= n2,
         NEW R, RecordsOf(R, n2), NEW position \in Nat
  PROVE  LET C2 == Commit(C, Snapshot(n2, R, position)) IN
         /\ CommitsOK(C2, n2) /\ Len(C2) = Len(C) + 1 /\ Len(C) \in Nat
         /\ IsCommit(C2, Len(C2), n2, R, position)
         /\ \A i \in 1..Len(C) : SameCommit(C, C2, i)
         /\ Committed(C2).backend.records = R /\ Committed(C2).backend.applied = position
<1> DEFINE x == Snapshot(n2, R, position)
           C2 == Append(C, x)
<1>1. Chain(C) /\ C # <<>> /\ Len(C) \in Nat
  BY ChainParts DEF CommitsOK
<1>2. x.length = n2 /\ x.backend.records = R /\ x.backend.applied = position
  BY SnapshotParts
<1> HIDE DEF x
<1>3. /\ Chain(C2) /\ Len(C2) = Len(C) + 1
      /\ \A i \in 1..Len(C) : C2[i] = C[i]
      /\ C2[Len(C) + 1] = x
  BY <1>1, AppendChain
<1> HIDE DEF C2
<1>4. IsCommit(C2, Len(C2), n2, R, position)
  BY <1>2, <1>3 DEF IsCommit, LengthOf, RecordsAt, AppliedAt
<1>5. \A i \in 1..Len(C) : SameCommit(C, C2, i)
  BY <1>3 DEF SameCommit, LengthOf, RecordsAt, AppliedAt
<1>6. C2 # <<>>
  BY <1>1, <1>3
<1>7. ASSUME NEW i \in 1..Len(C2)
      PROVE  /\ LengthOf(C2, i) \in 0..n2 /\ AppliedAt(C2, i) \in Nat
             /\ RecordsOf(RecordsAt(C2, i), LengthOf(C2, i))
  <2>1. CASE i \in 1..Len(C)
    <3>1. /\ LengthOf(C, i) \in 0..n /\ AppliedAt(C, i) \in Nat
          /\ RecordsOf(RecordsAt(C, i), LengthOf(C, i))
      BY <2>1 DEF CommitsOK
    <3> QED
      BY <1>5, <2>1, <3>1 DEF SameCommit
  <2>2. CASE i \notin 1..Len(C)
    <3>1. i = Len(C2)
      BY <1>1, <1>3, <2>2
    <3> QED
      BY <1>4, <3>1 DEF IsCommit
  <2> QED
    BY <2>1, <2>2
<1>8. ASSUME NEW i \in 1..Len(C2), NEW j \in 1..Len(C2), i <= j
      PROVE  LengthOf(C2, i) <= LengthOf(C2, j)
  <2>1. CASE j \in 1..Len(C)
    <3>1. i \in 1..Len(C)
      BY <1>1, <1>8, <2>1
    <3>2. LengthOf(C, i) <= LengthOf(C, j)
      BY <1>8, <2>1, <3>1 DEF CommitsOK
    <3> QED
      BY <1>5, <2>1, <3>1, <3>2 DEF SameCommit
  <2>2. CASE j \notin 1..Len(C)
    <3>1. j = Len(C2)
      BY <1>1, <1>3, <2>2
    <3> QED
      BY <1>4, <1>7, <3>1 DEF IsCommit
  <2> QED
    BY <2>1, <2>2
<1>9. CommitsOK(C2, n2)
  BY <1>3, <1>4, <1>6, <1>7, <1>8 DEF CommitsOK, IsCommit
<1>10. Committed(C2).backend.records = R /\ Committed(C2).backend.applied = position
  BY <1>4 DEF Committed, IsCommit, RecordsAt, AppliedAt
<1> QED
  BY <1>1, <1>3, <1>4, <1>5, <1>9, <1>10 DEF Commit, C2, x

LEMMA CommitAlone ==
  ASSUME NEW n \in Nat, NEW R, RecordsOf(R, n), NEW position \in Nat
  PROVE  LET C2 == CommitDurable(commits, Snapshot(n, R, position)) IN
         /\ CommitsOK(C2, n) /\ Len(C2) = 1 /\ IsCommit(C2, 1, n, R, position)
         /\ Committed(C2).backend.records = R /\ Committed(C2).backend.applied = position
<1> DEFINE x == Snapshot(n, R, position)
           C2 == <<x>>
<1>1. x.length = n /\ x.backend.records = R /\ x.backend.applied = position
  BY SnapshotParts
<1> HIDE DEF x
<1>2. C2 \in Seq({x}) /\ Len(C2) = 1 /\ C2[1] = x /\ C2 # <<>>
  OBVIOUS
<1> HIDE DEF C2
<1>3. Chain(C2)
  BY <1>2, SeqIsChain
<1>4. IsCommit(C2, 1, n, R, position)
  BY <1>1, <1>2 DEF IsCommit, LengthOf, RecordsAt, AppliedAt
<1>5. CommitsOK(C2, n)
  BY <1>2, <1>3, <1>4 DEF CommitsOK, IsCommit
<1>6. Committed(C2).backend.records = R /\ Committed(C2).backend.applied = position
  BY <1>2, <1>4 DEF Committed, IsCommit, RecordsAt, AppliedAt
<1> QED
  BY <1>2, <1>4, <1>5, <1>6 DEF CommitDurable, C2, x

LEMMA CommitsFall ==
  ASSUME NEW C, NEW n \in Nat, CommitsOK(C, n), NEW i \in 1..Len(C)
  PROVE  LET C2 == SubSeq(C, 1, i) IN
         /\ CommitsOK(C2, LengthOf(C, i)) /\ Len(C2) = i /\ LengthOf(C, i) \in 0..n
         /\ \A j \in 1..i : j \in 1..Len(C) /\ SameCommit(C, C2, j)
         /\ Committed(C2).backend.records = RecordsAt(C, i)
         /\ Committed(C2).backend.applied = AppliedAt(C, i)
<1> DEFINE C2 == SubSeq(C, 1, i)
<1>1. Chain(C) /\ C # <<>> /\ Len(C) \in Nat
  BY ChainParts DEF CommitsOK
<1>2. /\ Chain(C2) /\ Len(C2) = i - 1 + 1
      /\ \A j \in 1..i - 1 + 1 : C2[j] = C[1 + j - 1]
  BY <1>1, CutChain
<1> HIDE DEF C2
<1>3. Len(C2) = i /\ \A j \in 1..i : C2[j] = C[j] /\ j \in 1..Len(C)
  <2>1. i - 1 + 1 = i
    OBVIOUS
  <2>2. \A j \in 1..i : 1 + j - 1 = j /\ j \in 1..Len(C)
    BY <1>1
  <2> QED
    BY <1>2, <2>1, <2>2
<1>4. \A j \in 1..i : SameCommit(C, C2, j)
  BY <1>3 DEF SameCommit, LengthOf, RecordsAt, AppliedAt
<1>5. /\ \A j \in 1..Len(C) : /\ LengthOf(C, j) \in 0..n /\ AppliedAt(C, j) \in Nat
                              /\ RecordsOf(RecordsAt(C, j), LengthOf(C, j))
      /\ \A j, l \in 1..Len(C) : j <= l => LengthOf(C, j) <= LengthOf(C, l)
  BY DEF CommitsOK
<1>6. i \in 1..i /\ C2 # <<>>
  BY <1>3
<1>7. ASSUME NEW j \in 1..Len(C2)
      PROVE  /\ LengthOf(C2, j) \in 0..LengthOf(C, i) /\ AppliedAt(C2, j) \in Nat
             /\ RecordsOf(RecordsAt(C2, j), LengthOf(C2, j))
  <2>1. j \in 1..i /\ j \in 1..Len(C) /\ j <= i
    BY <1>3
  <2>2. LengthOf(C, j) <= LengthOf(C, i)
    BY <1>5, <2>1
  <2> QED
    BY <1>4, <1>5, <2>1, <2>2 DEF SameCommit
<1>8. ASSUME NEW j \in 1..Len(C2), NEW l \in 1..Len(C2), j <= l
      PROVE  LengthOf(C2, j) <= LengthOf(C2, l)
  BY <1>3, <1>4, <1>5, <1>8 DEF SameCommit
<1>9. LengthOf(C2, Len(C2)) = LengthOf(C, i)
  BY <1>3, <1>4, <1>6 DEF SameCommit
<1>10. CommitsOK(C2, LengthOf(C, i))
  BY <1>2, <1>6, <1>7, <1>8, <1>9 DEF CommitsOK
<1>11. /\ Committed(C2).backend.records = RecordsAt(C, i)
       /\ Committed(C2).backend.applied = AppliedAt(C, i)
  BY <1>3, <1>6 DEF Committed, RecordsAt, AppliedAt
<1> QED
  BY <1>3, <1>4, <1>5, <1>10, <1>11 DEF C2

-----------------------------------------------------------------------------
(* The inductive invariant.                                                *)

(* What will be left of the records once the running compaction is done.   *)
Left == Without(backend.records, Revisions(dropping))

TypesHold ==
  /\ pc \in {"open", "compacting", "down"}
  /\ hist \in Seq(Write)
  /\ current \in Nat /\ compacted \in Nat /\ applied \in Nat
  /\ target \in Nat /\ floor \in Nat /\ discarded \in Nat /\ flushed \in Nat
  /\ spent \in [Counted -> Nat]

(* Each commit holds records of revisions up to the number of its writes.  *)
BackendHolds ==
  /\ CommitsOK(commits, Len(hist))
  /\ current <= Len(hist)
  /\ pc # "down" => RecordsOf(backend.records, current)

(* The index lists records that will be left, and all of them as long as   *)
(* no compaction failed.                                                   *)
IndexHolds ==
  /\ IsIndex(index) /\ NoneEmpty(index) /\ BackedBy(index, Left)
  /\ spent["compact"] = 0 /\ pc # "down" => CompleteFor(index, Left)

DropHolds ==
  /\ Dropping(backend.records, dropping, target) /\ target <= floor
  /\ pc # "compacting" => dropping = {}
  /\ spent["compact"] = 0 => Superseded(backend.records, dropping, target)

StoreInv == TypesHold /\ BackendHolds /\ IndexHolds /\ DropHolds

-----------------------------------------------------------------------------

LEMMA BatchRecords ==
  ASSUME current \in Nat, RecordsOf(backend.records, current), NEW batch \in Seq(Mutation)
  PROVE  /\ RecordsOf(Records(batch), current + Len(batch))
         /\ Batched(Records(batch), current, batch)
         /\ UpTo(Records(batch), current) = backend.records
<1> DEFINE n == Len(batch)
           c == current
           B == backend.records
           new == { <<c + i, IsTombstone(batch[i])>> : i \in 1..n }
           R == Records(batch)
<1>1. n \in Nat /\ DOMAIN batch = 1..n /\ \A i \in 1..n : batch[i] \in Mutation
  OBVIOUS
<1>2. R = [k \in DOMAIN B \cup new |-> IF k \in new THEN batch[k[1] - c] ELSE B[k]]
  BY <1>1 DEF Records
<1>3. c \in Nat /\ RecordsOf(B, c)
  OBVIOUS
<1>4. \A k \in new : \E i \in 1..n : k = <<c + i, IsTombstone(batch[i])>>
  OBVIOUS
<1>5. ASSUME NEW i \in 1..n, NEW d, d = IsTombstone(batch[i])
      PROVE  <<c + i, d>> \in new /\ <<c + i, d>>[1] - c = i
  BY <1>3, <1>5
<1> HIDE DEF n, c, B, new, R
<1>6. DOMAIN R = DOMAIN B \cup new /\ \A k \in DOMAIN R : R[k] = IF k \in new THEN batch[k[1] - c] ELSE B[k]
  BY <1>2
<1>7. ASSUME NEW i \in 1..n, NEW d \in BOOLEAN, d <=> IsTombstone(batch[i])
      PROVE  <<c + i, d>> \in DOMAIN R /\ R[<<c + i, d>>] = batch[i]
  <2>1. d = IsTombstone(batch[i])
    BY <1>7 DEF IsTombstone
  <2>2. <<c + i, d>> \in new /\ <<c + i, d>>[1] - c = i
    BY <1>5, <2>1
  <2> QED
    BY <1>6, <2>2
<1>8. ASSUME NEW q, NEW d, <<q, d>> \in new
      PROVE  /\ q \in c + 1..c + n /\ q - c \in 1..n /\ q = c + (q - c)
             /\ d \in BOOLEAN /\ (d <=> IsTombstone(batch[q - c]))
             /\ R[<<q, d>>] = batch[q - c]
  <2>1. PICK i \in 1..n : <<q, d>> = <<c + i, IsTombstone(batch[i])>>
    BY <1>4, <1>8
  <2>2. q = c + i /\ d = IsTombstone(batch[i])
    BY <2>1
  <2>3. q - c = i /\ q \in c + 1..c + n /\ d \in BOOLEAN
    BY <1>1, <1>3, <2>2 DEF IsTombstone
  <2>4. <<q, d>>[1] = q
    OBVIOUS
  <2> QED
    BY <1>6, <1>8, <2>2, <2>3, <2>4
<1>9. ASSUME NEW p \in DOMAIN B
      PROVE  \E q \in 1..c : \E d \in BOOLEAN :
               /\ p = <<q, d>> /\ (d <=> IsTombstone(B[p])) /\ <<q, ~d>> \notin DOMAIN B
  BY <1>3 DEF RecordsOf
<1>10. \A k \in new : \E q \in c + 1..c + n : \E d \in BOOLEAN : k = <<q, d>>
  <2> SUFFICES ASSUME NEW k \in new PROVE \E q \in c + 1..c + n : \E d \in BOOLEAN : k = <<q, d>>
    OBVIOUS
  <2>1. PICK i \in 1..n : k = <<c + i, IsTombstone(batch[i])>>
    BY <1>4
  <2>2. <<c + i, IsTombstone(batch[i])>> \in new
    BY <2>1
  <2> QED
    BY <1>8, <2>1, <2>2
<1>11. ASSUME NEW p \in DOMAIN R
       PROVE  \E q \in 1..c + n : \E d \in BOOLEAN :
                /\ p = <<q, d>> /\ (d <=> IsTombstone(R[p])) /\ <<q, ~d>> \notin DOMAIN R
  <2>1. CASE p \in new
    <3>1. PICK q \in c + 1..c + n : \E d \in BOOLEAN : p = <<q, d>>
      BY <1>10, <2>1
    <3>2. PICK d \in BOOLEAN : p = <<q, d>>
      BY <3>1
    <3>3. /\ q - c \in 1..n /\ (d <=> IsTombstone(batch[q - c])) /\ R[p] = batch[q - c]
      BY <1>8, <2>1, <3>2
    <3>4. <<q, ~d>> \notin new
      <4>1. SUFFICES ASSUME <<q, ~d>> \in new PROVE FALSE
        OBVIOUS
      <4>2. (~d) <=> IsTombstone(batch[q - c])
        BY <1>8, <4>1
      <4> QED
        BY <3>3, <4>2
    <3>5. <<q, ~d>> \notin DOMAIN B
      <4>1. SUFFICES ASSUME <<q, ~d>> \in DOMAIN B PROVE FALSE
        OBVIOUS
      <4>2. PICK q1 \in 1..c : \E d1 \in BOOLEAN : <<q, ~d>> = <<q1, d1>>
        BY <1>9, <4>1
      <4>3. q = q1
        BY <4>2
      <4> QED
        BY <1>1, <1>3, <4>3
    <3>6. q \in 1..c + n
      BY <1>1, <1>3
    <3> QED
      BY <1>6, <3>2, <3>3, <3>4, <3>5, <3>6
  <2>2. CASE p \notin new
    <3>1. p \in DOMAIN B /\ R[p] = B[p]
      BY <1>6, <2>2
    <3>2. PICK q \in 1..c : \E d \in BOOLEAN :
            /\ p = <<q, d>> /\ (d <=> IsTombstone(B[p])) /\ <<q, ~d>> \notin DOMAIN B
      BY <1>9, <3>1
    <3>3. PICK d \in BOOLEAN :
            /\ p = <<q, d>> /\ (d <=> IsTombstone(B[p])) /\ <<q, ~d>> \notin DOMAIN B
      BY <3>2
    <3>4. <<q, ~d>> \notin new
      <4>1. SUFFICES ASSUME <<q, ~d>> \in new PROVE FALSE
        OBVIOUS
      <4>2. q \in c + 1..c + n
        BY <1>8, <4>1
      <4> QED
        BY <1>1, <1>3, <4>2
    <3>5. q \in 1..c + n
      BY <1>1, <1>3
    <3> QED
      BY <1>6, <3>1, <3>3, <3>4, <3>5
  <2> QED
    BY <2>1, <2>2
<1>12. R \in [DOMAIN R -> Mutation]
  <2>1. \A p \in DOMAIN R : R[p] \in Mutation
    <3> SUFFICES ASSUME NEW p \in DOMAIN R PROVE R[p] \in Mutation
      OBVIOUS
    <3>1. CASE p \in new
      <4>1. PICK q \in c + 1..c + n : \E d \in BOOLEAN : p = <<q, d>>
        BY <1>10, <3>1
      <4>2. PICK d \in BOOLEAN : p = <<q, d>>
        BY <4>1
      <4>3. q - c \in 1..n /\ R[p] = batch[q - c]
        BY <1>8, <3>1, <4>2
      <4> QED
        BY <1>1, <4>3
    <3>2. CASE p \notin new
      BY <1>3, <1>6, <3>2 DEF RecordsOf
    <3> QED
      BY <3>1, <3>2
  <2>2. R = [k \in DOMAIN R |-> R[k]]
    BY <1>2
  <2> QED
    BY <2>1, <2>2
<1>13. RecordsOf(R, c + n)
  BY <1>11, <1>12 DEF RecordsOf
<1>14. Batched(R, c, batch)
  BY <1>7 DEF Batched, n
<1>15. UpTo(R, c) = B
  <2>1. ASSUME NEW p \in DOMAIN R PROVE p[1] <= c <=> p \in DOMAIN B
    <3>1. ASSUME p \in DOMAIN B PROVE p[1] <= c
      <4>1. PICK q \in 1..c : \E d \in BOOLEAN : p = <<q, d>>
        BY <1>9, <3>1
      <4>2. p[1] = q
        BY <4>1
      <4> QED
        BY <1>3, <4>2
    <3>2. ASSUME p \in new PROVE ~(p[1] <= c)
      <4>1. PICK q \in c + 1..c + n : \E d \in BOOLEAN : p = <<q, d>>
        BY <1>10, <3>2
      <4>2. p[1] = q
        BY <4>1
      <4> QED
        BY <1>1, <1>3, <4>2
    <3> QED
      BY <1>6, <3>1, <3>2
  <2>2. { x \in DOMAIN R : x[1] <= c } = DOMAIN B
    BY <1>6, <2>1
  <2>3. \A p \in DOMAIN B : p \notin new /\ R[p] = B[p]
    <3> SUFFICES ASSUME NEW p \in DOMAIN B PROVE p \notin new
      BY <1>6
    <3>1. PICK q \in 1..c : \E d \in BOOLEAN : p = <<q, d>>
      BY <1>9
    <3>2. PICK d \in BOOLEAN : p = <<q, d>>
      BY <3>1
    <3>3. <<q, d>> \in new => q \in c + 1..c + n
      BY <1>8
    <3> QED
      BY <1>1, <1>3, <3>2, <3>3
  <2>4. UpTo(R, c) = [p \in DOMAIN B |-> R[p]]
    BY <2>2 DEF UpTo
  <2>5. B = [p \in DOMAIN B |-> B[p]]
    BY <1>3 DEF RecordsOf
  <2> QED
    BY <2>3, <2>4, <2>5
<1> QED
  BY <1>13, <1>14, <1>15 DEF R, c, n, B

LEMMA HistoryContinues ==
  ASSUME hist \in Seq(Write), current \in Nat, NEW batch \in Seq(Mutation),
         NEW H, H = hist \o Numbered(batch)
  PROVE  /\ H \in Seq(Write) /\ Len(H) = Len(hist) + Len(batch)
         /\ \A i \in 1..Len(hist) : H[i] = hist[i]
         /\ Continues(H, Len(hist), current, batch)
<1> DEFINE b == Numbered(batch)
           n == Len(batch)
           N == Len(hist)
<1>1. n \in Nat /\ N \in Nat /\ DOMAIN batch = 1..n /\ \A i \in 1..n : batch[i] \in Mutation
  OBVIOUS
<1>2. b = [i \in 1..n |-> [revision |-> current + i, mutation |-> batch[i]]]
  BY <1>1 DEF Numbered
<1>3. \A i \in 1..n : [revision |-> current + i, mutation |-> batch[i]] \in Write
  BY <1>1 DEF Write, Revision
<1>4. b \in [1..n -> Write]
  BY <1>2, <1>3
<1>5. \A i \in 1..n : RevOf(b, i) = current + i /\ MutOf(b, i) = batch[i]
  BY <1>2 DEF RevOf, MutOf
<1> HIDE DEF b, n, N
<1>6. b \in Seq(Write) /\ Len(b) = n
  BY <1>1, <1>4
<1>7. H = hist \o b
  BY DEF b
<1>8. H \in Seq(Write) /\ Len(H) = N + n
  <2>1. Chain(hist) /\ Chain(b)
    BY <1>6, SeqIsChain
  <2>2. Len(hist \o b) = Len(hist) + Len(b)
    BY <2>1, JoinedChain
  <2>3. hist \o b \in Seq(Write)
    BY <1>6
  <2> QED
    BY <1>6, <1>7, <2>2, <2>3 DEF N
<1>9. \A i \in 1..N : H[i] = hist[i]
  <2> SUFFICES ASSUME NEW i \in 1..N PROVE H[i] = hist[i]
    OBVIOUS
  <2>1. i \in 1..N + n /\ i <= N
    BY <1>1
  <2> QED
    BY <1>1, <1>6, <1>7, <2>1 DEF N
<1>10. \A i \in 1..n : H[N + i] = b[i]
  <2> SUFFICES ASSUME NEW i \in 1..n PROVE H[N + i] = b[i]
    OBVIOUS
  <2>1. N + i \in 1..N + n /\ ~(N + i <= N) /\ N + i - N = i
    BY <1>1
  <2> QED
    BY <1>1, <1>6, <1>7, <2>1 DEF N
<1>11. \A i \in 1..n : RevOf(H, N + i) = current + i /\ MutOf(H, N + i) = batch[i]
  BY <1>5, <1>10 DEF RevOf, MutOf
<1>12. \A i \in 1..N : RevOf(H, i) \in Nat
  <2>1. \A i \in 1..N : RevOf(hist, i) \in Nat
    BY WriteParts DEF N
  <2> QED
    BY <1>9, <2>1 DEF RevOf
<1> QED
  BY <1>8, <1>9, <1>11, <1>12 DEF Continues, N, n

-----------------------------------------------------------------------------
(* The invariant holds at first, and every action keeps it.                *)

LEMMA StartRecords ==
  /\ RecordsOf(EmptyBackend.records, 0) /\ EmptyBackend.applied = 0
<1>1. EmptyBackend.records = [k \in {} |-> {}] /\ EmptyBackend.applied = 0
  BY DEF EmptyBackend
<1> DEFINE R == EmptyBackend.records
<1>2. DOMAIN R = {} /\ R = [k \in DOMAIN R |-> R[k]]
  BY <1>1
<1>3. R \in [DOMAIN R -> Mutation]
  BY <1>2
<1> QED
  BY <1>1, <1>2, <1>3 DEF RecordsOf

LEMMA FirstCommit ==
  ASSUME NEW R, RecordsOf(R, 0), NEW B, B.records = R, B.applied = 0
  PROVE  LET C == CreateTable([length |-> 0, backend |-> B]) IN
         CommitsOK(C, 0) /\ Committed(C).backend.records = R
<1> DEFINE e == [length |-> 0, backend |-> B]
           C == CreateTable(e)
<1>1. C = <<e>>
  BY DEF CreateTable
<1>2. e.length = 0 /\ e.backend = B
  OBVIOUS
<1> HIDE DEF e, C
<1>3. Chain(C) /\ Len(C) = 1 /\ C[1] = e /\ C # <<>>
  <2>1. C \in Seq({e}) /\ Len(C) = 1 /\ C[1] = e /\ C # <<>>
    BY <1>1
  <2> QED
    BY <2>1, SeqIsChain
<1>4. Committed(C) = e
  BY <1>3 DEF Committed
<1>5. LengthOf(C, 1) = 0 /\ RecordsAt(C, 1) = R /\ AppliedAt(C, 1) = 0
  BY <1>2, <1>3 DEF LengthOf, RecordsAt, AppliedAt
<1>6. CommitsOK(C, 0)
  <2>1. \A i \in 1..Len(C) : i = 1
    BY <1>3
  <2> QED
    BY <1>3, <1>5, <2>1 DEF CommitsOK
<1> QED
  BY <1>2, <1>4, <1>6 DEF C, e

LEMMA StartInv ==
  ASSUME Init PROVE StoreInv
<1> USE DEF Init
<1>1. CommitsOK(commits, 0) /\ backend.records = EmptyBackend.records
  BY StartRecords, FirstCommit DEF backend
<1>2. RecordsOf(backend.records, 0)
  BY <1>1, StartRecords
<1>3. Left = backend.records
  BY <1>2, WithoutNone DEF Left
<1>4. TypesHold
  BY DEF TypesHold, Counted
<1>5. BackendHolds
  BY <1>1, <1>2 DEF BackendHolds
<1>6. IndexHolds
  BY <1>2, <1>3, EmptyIndexed DEF IndexHolds
<1>7. DropHolds
  BY DEF DropHolds, Dropping, Superseded, Drop
<1> QED
  BY <1>4, <1>5, <1>6, <1>7 DEF StoreInv

LEMMA OpenLeft ==
  ASSUME StoreInv, pc = "open"
  PROVE  /\ dropping = {} /\ Left = backend.records /\ RecordsOf(backend.records, current)
         /\ current \in Nat /\ Len(hist) \in Nat /\ current <= Len(hist)
         /\ CommitsOK(commits, Len(hist)) /\ IsIndex(index) /\ NoneEmpty(index)
         /\ BackedBy(index, backend.records)
         /\ spent["compact"] = 0 => CompleteFor(index, backend.records)
<1>1. RecordsOf(backend.records, current) /\ current \in Nat /\ hist \in Seq(Write)
  BY DEF StoreInv, TypesHold, BackendHolds
<1>2. dropping = {}
  BY DEF StoreInv, DropHolds
<1>3. Left = backend.records
  BY <1>1, <1>2, WithoutNone DEF Left
<1> QED
  BY <1>1, <1>2, <1>3 DEF StoreInv, BackendHolds, IndexHolds

LEMMA DroppingNone ==
  ASSUME NEW R, NEW t
  PROVE  Dropping(R, {}, t) /\ Superseded(R, {}, t)
  BY DEF Dropping, Superseded, Drop

(* The index and the commits after a batch.                                *)
LEMMA BatchApplied ==
  ASSUME StoreInv, NEW batch \in Seq(Mutation), NEW upto \in Nat, Apply(batch, upto)
  PROVE  LET c == current
             n == Len(batch)
             R == backend'.records
         IN  /\ n \in Nat /\ c \in Nat /\ RecordsOf(R, c + n) /\ Batched(R, c, batch)
             /\ UpTo(R, c) = backend.records /\ UpTo(R, c + n) = R
             /\ Indexes(index, R, c) /\ Folds(index, index', R, c, n) /\ Left' = R
             /\ hist' \in Seq(Write) /\ Len(hist') = Len(hist) + n
             /\ \A i \in 1..Len(hist) : hist'[i] = hist[i]
             /\ Continues(hist', Len(hist), c, batch)
             /\ CommitsOK(commits', Len(hist')) /\ Len(commits') = Len(commits) + 1
             /\ Len(commits) \in Nat
             /\ IsCommit(commits', Len(commits'), Len(hist'), R, upto)
             /\ \A i \in 1..Len(commits) : SameCommit(commits, commits', i)
<1> DEFINE n == Len(batch)
           R == Records(batch)
<1>1. /\ pc = "open" /\ hist' = hist \o Numbered(batch)
      /\ commits' = Commit(commits, Snapshot(Len(hist'), R, upto)) /\ index' = Indexed(batch)
  BY DEF Apply
<1>2. /\ RecordsOf(backend.records, current) /\ current \in Nat /\ current <= Len(hist)
      /\ CommitsOK(commits, Len(hist)) /\ IsIndex(index) /\ BackedBy(index, backend.records)
      /\ Len(hist) \in Nat
  BY <1>1, OpenLeft
<1>3. n \in Nat
  OBVIOUS
<1>4. hist \in Seq(Write)
  BY DEF StoreInv, TypesHold
<1>5. /\ RecordsOf(R, current + n) /\ Batched(R, current, batch)
      /\ UpTo(R, current) = backend.records
  BY <1>2, BatchRecords
<1>6. /\ hist' \in Seq(Write) /\ Len(hist') = Len(hist) + n
      /\ \A i \in 1..Len(hist) : hist'[i] = hist[i]
      /\ Continues(hist', Len(hist), current, batch)
  BY <1>1, <1>2, <1>4, HistoryContinues
<1> HIDE DEF R, n
<1>7. RecordsOf(R, Len(hist'))
  BY <1>2, <1>3, <1>5, <1>6, RecordsWider
<1>8. Len(hist') \in Nat /\ Len(hist) <= Len(hist')
  BY <1>2, <1>3, <1>6
<1>9. /\ CommitsOK(commits', Len(hist')) /\ Len(commits') = Len(commits) + 1 /\ Len(commits) \in Nat
      /\ IsCommit(commits', Len(commits'), Len(hist'), R, upto)
      /\ \A i \in 1..Len(commits) : SameCommit(commits, commits', i)
      /\ Committed(commits').backend.records = R
  BY <1>1, <1>2, <1>7, <1>8, CommitJoins
<1>10. backend'.records = R
  BY <1>9 DEF backend
<1>11. UpTo(R, current + n) = R
  <2> DEFINE m == current + n
  <2>1. m \in Nat /\ m >= m /\ RecordsOf(R, m)
    BY <1>2, <1>3, <1>5
  <2> HIDE DEF m
  <2>2. UpTo(R, m) = R
    BY <2>1, UpToRecords
  <2> QED
    BY <2>2 DEF m
<1>12. Indexes(index, R, current)
  BY <1>2, <1>5 DEF Indexes
<1>13. Folds(index, index', R, current, n)
  BY <1>1, <1>2, <1>5, IndexedFolds DEF Batched, n
<1>14. Left' = R
  <2>1. dropping' = {}
    BY <1>1, OpenLeft DEF Apply, compactionVars
  <2> DEFINE m == current + n
  <2>2. m \in Nat /\ RecordsOf(R, m)
    BY <1>2, <1>3, <1>5
  <2> HIDE DEF m
  <2> QED
    BY <1>10, <2>1, <2>2, WithoutNone DEF Left
<1> QED
  BY <1>2, <1>3, <1>5, <1>6, <1>9, <1>10, <1>11, <1>12, <1>13, <1>14 DEF n

LEMMA ApplyInv ==
  ASSUME StoreInv, NEW batch \in Seq(Mutation), NEW upto \in Nat, Apply(batch, upto)
  PROVE  StoreInv'
<1> DEFINE c == current
           n == Len(batch)
           R == backend'.records
<1>1. /\ pc = "open" /\ pc' = "open" /\ dropping' = dropping /\ target' = target /\ spent' = spent
      /\ current' = current + n /\ applied' = upto
      /\ floor' = floor /\ discarded' = discarded /\ flushed' = flushed /\ compacted' = compacted
  BY DEF Apply, compactionVars
<1>2. /\ dropping = {} /\ Len(hist) \in Nat /\ NoneEmpty(index)
      /\ c <= Len(hist) /\ IsIndex(index)
      /\ spent["compact"] = 0 => CompleteFor(index, backend.records)
  BY <1>1, OpenLeft
<1>3. /\ n \in Nat /\ c \in Nat /\ RecordsOf(R, c + n)
      /\ UpTo(R, c) = backend.records
      /\ Indexes(index, R, c) /\ Folds(index, index', R, c, n)
      /\ hist' \in Seq(Write) /\ Len(hist') = Len(hist) + n
      /\ CommitsOK(commits', Len(hist'))
  BY BatchApplied
<1>4. /\ IsIndex(index') /\ BackedBy(index', R) /\ NoneEmpty(index')
      /\ spent["compact"] = 0 => CompleteFor(index', R)
  <2> HIDE DEF c, n, R
  <2>1. PICK g : Fold(g, index, index', R, c, n)
    BY <1>3 DEF Folds
  <2> QED
    BY <1>2, <1>3, <2>1, FoldJoins
<1>5. c + n \in Nat /\ Left' = R
  BY <1>3, BatchApplied
<1>6. TypesHold'
  BY <1>1, <1>3 DEF TypesHold, StoreInv
<1>7. BackendHolds'
  <2>1. RecordsOf(R, current') /\ current' <= Len(hist')
    BY <1>1, <1>2, <1>3
  <2> QED
    BY <1>3, <2>1 DEF BackendHolds
<1>8. IndexHolds'
  BY <1>1, <1>4, <1>5 DEF IndexHolds
<1>9. DropHolds'
  <2>1. Dropping(R, {}, target') /\ Superseded(R, {}, target')
    BY DroppingNone
  <2>2. dropping' = {} /\ target' <= floor'
    BY <1>1, <1>2 DEF StoreInv, DropHolds
  <2> QED
    BY <2>1, <2>2 DEF DropHolds
<1> QED
  BY <1>6, <1>7, <1>8, <1>9 DEF StoreInv

LEMMA HigherOf ==
  ASSUME NEW a \in Nat, NEW b \in Nat
  PROVE  LET m == Max({a, b}) IN m \in Nat /\ m >= a /\ m >= b /\ m \in {a, b}
<1>1. {a, b} \in SUBSET Int /\ {a, b} # {} /\ \A x \in {a, b} : x <= a + b
  OBVIOUS
<1>2. Max({a, b}) \in {a, b} /\ \A x \in {a, b} : x <= Max({a, b})
  BY <1>1, Largest
<1> QED
  BY <1>2

LEMMA BackedMore ==
  ASSUME NEW idx, NEW R, NEW S, BackedBy(idx, Without(R, S))
  PROVE  BackedBy(idx, R)
<1>1. /\ DOMAIN Without(R, S) \subseteq DOMAIN R
      /\ \A p \in DOMAIN Without(R, S) : Without(R, S)[p] = R[p]
  BY DEF Without
<1>2. \A k, q : \A d \in BOOLEAN : Rec(Without(R, S), k, q, d) => Rec(R, k, q, d)
  BY <1>1 DEF Rec
<1> QED
  BY <1>2 DEF BackedBy, Backed

LEMMA EmptyBacked ==
  ASSUME NEW R
  PROVE  IsIndex(EmptyIndex) /\ NoneEmpty(EmptyIndex) /\ BackedBy(EmptyIndex, R)
<1> DEFINE R0 == EmptyBackend.records
<1>1. IsIndex(EmptyIndex) /\ NoneEmpty(EmptyIndex) /\ BackedBy(EmptyIndex, R0)
  BY StartRecords, EmptyIndexed
<1>2. \A k, q : \A d \in BOOLEAN : ~Rec(R0, k, q, d)
  BY DEF EmptyBackend, Rec
<1> QED
  BY <1>1, <1>2 DEF BackedBy, Backed

LEMMA LastRecords ==
  ASSUME StoreInv
  PROVE  /\ RecordsOf(backend.records, Len(hist)) /\ Len(hist) \in Nat /\ backend.applied \in Nat
         /\ RecordsAt(commits, Len(commits)) = backend.records
         /\ AppliedAt(commits, Len(commits)) = backend.applied
         /\ Len(commits) \in Nat \ {0} /\ DOMAIN commits = 1..Len(commits)
<1>1. CommitsOK(commits, Len(hist)) /\ hist \in Seq(Write)
  BY DEF StoreInv, BackendHolds, TypesHold
<1>2. Len(commits) \in Nat /\ DOMAIN commits = 1..Len(commits) /\ commits # <<>>
  BY <1>1, ChainParts DEF CommitsOK
<1>3. Len(commits) \in 1..Len(commits) /\ Len(commits) # 0
  <2>1. Len(commits) # 0
    BY <1>1, <1>2 DEF CommitsOK, Chain
  <2> QED
    BY <1>2, <2>1
<1>4. /\ RecordsAt(commits, Len(commits)) = backend.records
      /\ AppliedAt(commits, Len(commits)) = backend.applied
  BY DEF backend, Committed, RecordsAt, AppliedAt
<1> QED
  BY <1>1, <1>2, <1>3, <1>4 DEF CommitsOK

LEMMA CheckpointInv ==
  ASSUME StoreInv, Checkpoint PROVE StoreInv'
<1> USE DEF Checkpoint, stateVars, compactionVars
<1>1. RecordsOf(backend.records, Len(hist)) /\ Len(hist) \in Nat /\ applied \in Nat
  BY LastRecords DEF StoreInv, TypesHold
<1>2. CommitsOK(commits', Len(hist')) /\ backend'.records = backend.records
  BY <1>1, CommitAlone DEF backend
<1>3. Left' = Left
  BY <1>2 DEF Left
<1>4. TypesHold' /\ BackendHolds' /\ IndexHolds' /\ DropHolds'
  BY <1>2, <1>3 DEF StoreInv, TypesHold, BackendHolds, IndexHolds, DropHolds
<1> QED
  BY <1>4 DEF StoreInv

LEMMA SpentCounts ==
  ASSUME spent \in [Counted -> Nat], NEW b \in Counted, Spent(b)
  PROVE  /\ spent' \in [Counted -> Nat] /\ spent'[b] = spent[b] + 1
         /\ \A a \in Counted : a # b => spent'[a] = spent[a]
  BY DEF Spent

LEMMA FaultCounts ==
  ASSUME spent \in [Counted -> Nat], NEW kind, Fault(kind), kind \in {"compact", "crash"}
  PROVE  /\ spent' \in [Counted -> Nat] /\ spent'[kind] = spent[kind] + 1
         /\ \A a \in Counted : a # kind => spent'[a] = spent[a]
         /\ kind \in Faults /\ spent["compact"] + spent["crash"] < MaxFaults
<1>1. kind \in Counted /\ Spent(kind)
  BY DEF Counted, Fault
<1> QED
  BY <1>1, SpentCounts DEF Fault

LEMMA CountedKinds ==
  "compact" \in Counted /\ "crash" \in Counted /\ "compactions" \in Counted
  BY DEF Counted

LEMMA BeginsInv ==
  ASSUME StoreInv, NEW at \in Nat, CompactBegins(at) PROVE StoreInv'
<1> DEFINE R == backend.records
<1>1. /\ pc = "open" /\ pc' = "compacting" /\ dropping' = Dropped(index, at)
      /\ index' = IndexCompact(index, at) /\ target' = at /\ floor' = Max({floor, at})
      /\ commits' = commits /\ hist' = hist /\ current' = current /\ compacted' = compacted
      /\ applied' = applied /\ discarded' = discarded /\ flushed' = flushed /\ Spent("compactions")
  BY DEF CompactBegins
<1>2. backend' = backend
  BY <1>1 DEF backend
<1>3. /\ RecordsOf(R, current) /\ current \in Nat /\ IsIndex(index) /\ BackedBy(index, R)
      /\ spent["compact"] = 0 => CompleteFor(index, R)
  BY <1>1, OpenLeft
<1>4. /\ IsIndex(index') /\ NoneEmpty(index') /\ Dropping(R, dropping', at)
      /\ BackedBy(index', Without(R, Revisions(dropping')))
      /\ CompleteFor(index, R) =>
           CompleteFor(index', Without(R, Revisions(dropping'))) /\ Superseded(R, dropping', at)
  BY <1>1, <1>3, CompactDrops
<1>5. spent' \in [Counted -> Nat] /\ spent'["compact"] = spent["compact"]
  BY <1>1, CountedKinds, SpentCounts DEF StoreInv, TypesHold
<1>6. floor \in Nat /\ floor' \in Nat /\ at <= floor'
  BY <1>1, HigherOf DEF StoreInv, TypesHold
<1>7. TypesHold'
  BY <1>1, <1>5, <1>6 DEF StoreInv, TypesHold
<1>8. BackendHolds'
  BY <1>1, <1>2 DEF StoreInv, BackendHolds
<1>9. IndexHolds'
  BY <1>2, <1>3, <1>4, <1>5 DEF IndexHolds, Left
<1>10. DropHolds'
  BY <1>1, <1>2, <1>3, <1>4, <1>5, <1>6 DEF DropHolds
<1> QED
  BY <1>7, <1>8, <1>9, <1>10 DEF StoreInv

(* What a chunk takes away.                                                *)
LEMMA ChunkParts ==
  ASSUME StoreInv, CompactNext
  PROVE  \E chunk \in SUBSET dropping :
           LET R2 == Without(backend.records, Revisions(chunk)) IN
           /\ \A p \in chunk, q \in dropping \ chunk : Before(p, q)
           /\ dropping' = dropping \ chunk /\ backend'.records = R2
           /\ commits' = Commit(commits, Snapshot(Len(hist), R2, backend.applied))
           /\ RecordsOf(R2, current) /\ RecordsOf(R2, Len(hist)) /\ current \in Nat
           /\ RecordsOf(backend.records, current)
           /\ CommitsOK(commits', Len(hist)) /\ Len(commits') = Len(commits) + 1
           /\ Len(commits) \in Nat
           /\ IsCommit(commits', Len(commits'), Len(hist), R2, backend.applied)
           /\ \A i \in 1..Len(commits) : SameCommit(commits, commits', i)
<1>1. PICK chunk \in Chunks :
        /\ commits' = Commit(commits,
             Snapshot(Len(hist), Without(backend.records, Revisions(chunk)), backend.applied))
        /\ dropping' = dropping \ chunk
  BY DEF CompactNext
<1> DEFINE R2 == Without(backend.records, Revisions(chunk))
<1>2. chunk \in SUBSET dropping /\ \A p \in chunk, q \in dropping \ chunk : Before(p, q)
  BY DEF Chunks
<1>3. pc # "down"
  BY DEF CompactNext
<1>4. /\ RecordsOf(backend.records, current) /\ current \in Nat /\ current <= Len(hist)
      /\ CommitsOK(commits, Len(hist))
  BY <1>3 DEF StoreInv, BackendHolds, TypesHold
<1>5. Len(hist) \in Nat /\ backend.applied \in Nat
  BY LastRecords
<1>6. RecordsOf(R2, current)
  BY <1>4, WithoutIs
<1> HIDE DEF R2
<1>7. RecordsOf(R2, Len(hist))
  BY <1>4, <1>5, <1>6, RecordsWider
<1>8. Len(hist) <= Len(hist) /\ commits' = Commit(commits, Snapshot(Len(hist), R2, backend.applied))
  BY <1>1, <1>5 DEF R2
<1>9. /\ CommitsOK(commits', Len(hist)) /\ Len(commits') = Len(commits) + 1
      /\ Len(commits) \in Nat
      /\ IsCommit(commits', Len(commits'), Len(hist), R2, backend.applied)
      /\ \A i \in 1..Len(commits) : SameCommit(commits, commits', i)
      /\ Committed(commits').backend.records = R2
  BY <1>4, <1>5, <1>7, <1>8, CommitJoins
<1>10. backend'.records = R2
  BY <1>9 DEF backend
<1> QED
  BY <1>1, <1>2, <1>4, <1>6, <1>7, <1>8, <1>9, <1>10 DEF R2

LEMMA NextInv ==
  ASSUME StoreInv, CompactNext PROVE StoreInv'
<1>1. PICK chunk \in SUBSET dropping :
           LET R2 == Without(backend.records, Revisions(chunk)) IN
           /\ \A p \in chunk, q \in dropping \ chunk : Before(p, q)
           /\ dropping' = dropping \ chunk /\ backend'.records = R2
           /\ commits' = Commit(commits, Snapshot(Len(hist), R2, backend.applied))
           /\ RecordsOf(R2, current) /\ RecordsOf(R2, Len(hist)) /\ current \in Nat
           /\ RecordsOf(backend.records, current)
           /\ CommitsOK(commits', Len(hist))
  BY ChunkParts
<1> DEFINE R2 == Without(backend.records, Revisions(chunk))
<1>2. /\ pc = "compacting" /\ pc' = pc /\ index' = index /\ current' = current
      /\ compacted' = compacted /\ applied' = applied /\ target' = target
      /\ hist' = hist /\ floor' = floor /\ discarded' = discarded /\ flushed' = flushed
      /\ spent' = spent
  BY DEF CompactNext, stateVars, ghostVars
<1>3. target \in Nat
  BY DEF StoreInv, TypesHold
<1>4. /\ Dropping(R2, dropping \ chunk, target)
      /\ Superseded(backend.records, dropping, target) => Superseded(R2, dropping \ chunk, target)
  BY <1>1, <1>3, ChunkGoes DEF StoreInv, DropHolds
<1>5. Left' = Left
  <2>1. Left' = Without(R2, Revisions(dropping \ chunk))
    BY <1>1 DEF Left
  <2> QED
    BY <2>1, WithoutBoth DEF Left
<1> HIDE DEF R2
<1>6. TypesHold'
  BY <1>2 DEF StoreInv, TypesHold
<1>7. BackendHolds'
  BY <1>1, <1>2 DEF StoreInv, BackendHolds, R2
<1>8. IndexHolds'
  BY <1>2, <1>5 DEF StoreInv, IndexHolds
<1>9. DropHolds'
  BY <1>1, <1>2, <1>4 DEF StoreInv, DropHolds, R2
<1> QED
  BY <1>6, <1>7, <1>8, <1>9 DEF StoreInv

LEMMA FailsInv ==
  ASSUME StoreInv, CompactFails PROVE StoreInv'
<1>1. /\ pc = "compacting" /\ pc' = "open" /\ index' = index /\ current' = current
      /\ compacted' = compacted /\ applied' = applied /\ target' = 0 /\ dropping' = {}
      /\ hist' = hist /\ floor' = floor /\ discarded' = discarded /\ flushed' = flushed
      /\ commits' = commits /\ Fault("compact")
  BY DEF CompactFails, stateVars, ghostVars
<1>2. spent' \in [Counted -> Nat] /\ spent'["compact"] = spent["compact"] + 1 /\ spent["compact"] \in Nat
  BY <1>1, CountedKinds, FaultCounts DEF StoreInv, TypesHold
<1>3. backend' = backend
  BY <1>1 DEF backend
<1>4. RecordsOf(backend.records, current) /\ current \in Nat
  BY <1>1 DEF StoreInv, BackendHolds, TypesHold
<1>5. Left' = backend.records
  BY <1>1, <1>3, <1>4, WithoutNone DEF Left
<1>6. BackedBy(index, backend.records)
  BY BackedMore DEF StoreInv, IndexHolds, Left
<1>7. TypesHold'
  BY <1>1, <1>2 DEF StoreInv, TypesHold
<1>8. BackendHolds'
  BY <1>1, <1>3 DEF StoreInv, BackendHolds
<1>9. IndexHolds'
  BY <1>1, <1>2, <1>5, <1>6 DEF StoreInv, IndexHolds
<1>10. DropHolds'
  <2>1. floor \in Nat
    BY DEF StoreInv, TypesHold
  <2> QED
    BY <1>1, <2>1, DroppingNone DEF DropHolds
<1> QED
  BY <1>7, <1>8, <1>9, <1>10 DEF StoreInv

LEMMA EndsInv ==
  ASSUME StoreInv, CompactEnds PROVE StoreInv'
<1>1. /\ pc = "compacting" /\ pc' = "open" /\ index' = index /\ current' = current
      /\ compacted' = target /\ applied' = applied /\ target' = 0
      /\ dropping = {} /\ dropping' = dropping
      /\ hist' = hist /\ floor' = floor /\ discarded' = Max({discarded, target}) /\ flushed' = flushed
      /\ commits' = commits /\ spent' = spent
  BY DEF CompactEnds
<1>2. backend' = backend
  BY <1>1 DEF backend
<1>3. Left' = Left
  BY <1>1, <1>2 DEF Left
<1>4. discarded' \in Nat
  BY <1>1, HigherOf DEF StoreInv, TypesHold
<1>5. TypesHold'
  BY <1>1, <1>4 DEF StoreInv, TypesHold
<1>6. BackendHolds'
  BY <1>1, <1>2 DEF StoreInv, BackendHolds
<1>7. IndexHolds'
  BY <1>1, <1>3 DEF StoreInv, IndexHolds
<1>8. DropHolds'
  <2>1. floor \in Nat
    BY DEF StoreInv, TypesHold
  <2> QED
    BY <1>1, <2>1, DroppingNone DEF DropHolds
<1> QED
  BY <1>5, <1>6, <1>7, <1>8 DEF StoreInv

(* What a crash leaves.                                                    *)
LEMMA FallParts ==
  ASSUME StoreInv, NEW i \in DOMAIN commits, FallTo(i)
  PROVE  LET n == LengthOf(commits, i) IN
         /\ i \in 1..Len(commits) /\ n \in 0..Len(hist) /\ n \in Nat
         /\ CommitsOK(commits', n) /\ Len(commits') = i
         /\ \A j \in 1..i : j \in 1..Len(commits) /\ SameCommit(commits, commits', j)
         /\ backend'.records = RecordsAt(commits, i) /\ backend'.applied = AppliedAt(commits, i)
         /\ hist' \in Seq(Write) /\ Len(hist') = n /\ \A j \in 1..n : hist'[j] = hist[j]
<1> DEFINE n == LengthOf(commits, i)
<1>1. CommitsOK(commits, Len(hist)) /\ hist \in Seq(Write) /\ Len(hist) \in Nat
  BY DEF StoreInv, BackendHolds, TypesHold
<1>2. commits' = SubSeq(commits, 1, i) /\ hist' = SubSeq(hist, 1, n)
  BY DEF FallTo, LengthOf
<1>3. i \in 1..Len(commits)
  BY LastRecords
<1>4. /\ CommitsOK(commits', n) /\ Len(commits') = i /\ n \in 0..Len(hist)
      /\ \A j \in 1..i : j \in 1..Len(commits) /\ SameCommit(commits, commits', j)
      /\ Committed(commits').backend.records = RecordsAt(commits, i)
      /\ Committed(commits').backend.applied = AppliedAt(commits, i)
  BY <1>1, <1>2, <1>3, CommitsFall
<1> HIDE DEF n
<1>5. n \in Nat /\ hist' \in Seq(Write) /\ Len(hist') = n /\ \A j \in 1..n : hist'[j] = hist[j]
  BY <1>1, <1>2, <1>4
<1> QED
  BY <1>3, <1>4, <1>5 DEF n, backend

LEMMA FallInv ==
  ASSUME StoreInv, NEW i \in DOMAIN commits, FallTo(i), spent' \in [Counted -> Nat] PROVE StoreInv'
<1>1. /\ pc' = "down" /\ index' = EmptyIndex /\ current' = 0 /\ compacted' = 0 /\ applied' = 0
      /\ target' = 0 /\ dropping' = {} /\ floor' = floor /\ discarded' = discarded
      /\ flushed' = flushed
  BY DEF FallTo
<1>2. /\ CommitsOK(commits', Len(hist')) /\ hist' \in Seq(Write) /\ Len(hist') \in Nat
  BY FallParts
<1>3. TypesHold'
  BY <1>1, <1>2 DEF StoreInv, TypesHold
<1>4. BackendHolds'
  BY <1>1, <1>2 DEF BackendHolds
<1>5. IndexHolds'
  BY <1>1, EmptyBacked DEF IndexHolds
<1>6. DropHolds'
  <2>1. floor \in Nat
    BY DEF StoreInv, TypesHold
  <2> QED
    BY <1>1, <2>1, DroppingNone DEF DropHolds
<1> QED
  BY <1>3, <1>4, <1>5, <1>6 DEF StoreInv

LEMMA OpenInv ==
  ASSUME StoreInv, Open PROVE StoreInv'
<1> DEFINE R == backend.records
<1>1. /\ pc = "down" /\ pc' = "open" /\ index' = Rebuilt(R) /\ current' = Newest(R)
      /\ compacted' = 0 /\ applied' = backend.applied /\ target' = target /\ dropping' = dropping
      /\ floor' = floor /\ discarded' = discarded /\ flushed' = flushed /\ hist' = hist
      /\ commits' = commits /\ spent' = spent
  BY DEF Open, compactionVars, ghostVars
<1>2. RecordsOf(R, Len(hist)) /\ Len(hist) \in Nat /\ backend.applied \in Nat
  BY LastRecords
<1>3. Newest(R) \in 0..Len(hist) /\ Newest(R) \in Nat /\ RecordsOf(R, Newest(R))
  BY <1>2, NewestIs
<1>4. IsIndex(Rebuilt(R)) /\ NoneEmpty(Rebuilt(R)) /\ BackedBy(Rebuilt(R), R) /\ CompleteFor(Rebuilt(R), R)
  BY <1>2, RebuiltIs
<1>5. backend' = backend /\ dropping = {}
  BY <1>1 DEF backend, StoreInv, DropHolds
<1>6. Left' = R
  BY <1>1, <1>2, <1>5, WithoutNone DEF Left
<1>7. TypesHold'
  BY <1>1, <1>2, <1>3 DEF StoreInv, TypesHold
<1>8. BackendHolds'
  BY <1>1, <1>3, <1>5 DEF StoreInv, BackendHolds
<1>9. IndexHolds'
  BY <1>1, <1>4, <1>6 DEF IndexHolds
<1>10. DropHolds'
  BY <1>1, <1>5 DEF StoreInv, DropHolds
<1> QED
  BY <1>7, <1>8, <1>9, <1>10 DEF StoreInv

LEMMA StutterInv ==
  ASSUME StoreInv, UNCHANGED vars PROVE StoreInv'
<1>1. backend' = backend
  BY DEF vars, stateVars, compactionVars, ghostVars, backend
<1> QED
  BY <1>1 DEF StoreInv, TypesHold, BackendHolds, IndexHolds, DropHolds, Left,
              vars, stateVars, compactionVars, ghostVars

LEMMA StepInv ==
  ASSUME StoreInv, [Next]_vars PROVE StoreInv'
<1>1. ASSUME NEW batch \in Batch, Apply(batch, applied + Len(batch)) PROVE StoreInv'
  <2>1. batch \in Seq(Mutation)
    BY DEF Batch
  <2>2. applied + Len(batch) \in Nat
    BY <2>1 DEF StoreInv, TypesHold
  <2> QED
    BY <1>1, <2>1, <2>2, ApplyInv
<1>2. CASE TransactionFails
  BY <1>2, StutterInv DEF TransactionFails
<1>3. ASSUME NEW at \in 0..MaxWrites, CompactBegins(at) PROVE StoreInv'
  <2>1. at \in Nat
    BY BoundsAssumption
  <2> QED
    BY <1>3, <2>1, BeginsInv
<1>4. CASE Crash
  <2>1. spent' \in [Counted -> Nat]
    BY <1>4, FaultCounts DEF Crash, StoreInv, TypesHold
  <2>2. PICK i \in DOMAIN commits : FallTo(i)
    BY <1>4 DEF Crash
  <2> QED
    BY <2>1, <2>2, FallInv
<1> QED
  BY <1>1, <1>2, <1>3, <1>4, CheckpointInv, NextInv, FailsInv, EndsInv, OpenInv, StutterInv DEF Next

(* Every state of the store holds StoreInv: each commit holds records of   *)
(* the revisions it stands for, and the index lists what a compaction      *)
(* leaves of them, apply, compact, a crash and open included.              *)
THEOREM StoreInvariant == Spec => []StoreInv
<1>1. Init => StoreInv
  BY StartInv
<1>2. StoreInv /\ [Next]_vars => StoreInv'
  BY StepInv
<1> QED
  BY <1>1, <1>2, PTL DEF Spec

LEMMA InvTypes ==
  ASSUME StoreInv PROVE TypeOK
<1>1. /\ CommitsOK(commits, Len(hist)) /\ Len(hist) \in Nat /\ DOMAIN commits = 1..Len(commits)
      /\ backend.applied \in Nat
  BY LastRecords DEF StoreInv, BackendHolds
<1>2. ASSUME NEW i \in DOMAIN commits
      PROVE  commits[i].length \in 0..Len(hist) /\ Backend(commits[i].backend)
  <2> DEFINE n == commits[i].length
             R == commits[i].backend.records
  <2>1. n \in 0..Len(hist) /\ commits[i].backend.applied \in Nat /\ RecordsOf(R, n)
    BY <1>1 DEF CommitsOK, LengthOf, RecordsAt, AppliedAt
  <2>2. n \in Nat
    BY <1>1, <2>1
  <2> HIDE DEF n, R
  <2>3. R \in [DOMAIN R -> Mutation] /\ DOMAIN R \subseteq BackendKey
    <3>1. ASSUME NEW p \in DOMAIN R PROVE p \in BackendKey
      <4>1. p[1] \in Nat /\ p[2] \in BOOLEAN /\ p = <<p[1], p[2]>>
        BY <2>1, <2>2, RecordKeys
      <4> QED
        BY <4>1 DEF BackendKey, Revision
    <3> QED
      BY <2>1, <3>1 DEF RecordsOf
  <2> QED
    BY <2>1, <2>3 DEF n, R, Backend
<1>3. dropping \subseteq Key \X Revision
  BY DEF StoreInv, DropHolds, Dropping, Revision
<1>4. commits # <<>>
  BY <1>1 DEF CommitsOK
<1> QED
  BY <1>2, <1>3, <1>4 DEF StoreInv, TypesHold, IndexHolds, IsIndex, TypeOK

(* The store's variables keep their types, its index that of the           *)
(* generations of KeyHistory.                                              *)
THEOREM StoreTypeOK == Spec => []TypeOK
  BY StoreInvariant, InvTypes, PTL

LEMMA InvMatches ==
  ASSUME StoreInv PROVE IndexMatchesBackend
<1> SUFFICES ASSUME pc = "open", spent["compact"] = 0
             PROVE  Listed(index) = Listed(Rebuilt(backend.records))
  BY DEF IndexMatchesBackend
<1> DEFINE R == backend.records
<1>1. /\ RecordsOf(R, current) /\ current \in Nat /\ IsIndex(index) /\ NoneEmpty(index)
      /\ BackedBy(index, R) /\ CompleteFor(index, R)
  BY OpenLeft
<1>2. IsIndex(Rebuilt(R)) /\ NoneEmpty(Rebuilt(R)) /\ BackedBy(Rebuilt(R), R) /\ CompleteFor(Rebuilt(R), R)
  BY <1>1, RebuiltIs
<1> HIDE DEF R
<1>3. Listed(index) = Listed(Rebuilt(R))
  BY <1>1, <1>2, CompleteListed
<1> QED
  BY <1>3 DEF R

(* As long as no compaction failed, the index of an open store is the one  *)
(* open rebuilds from the backend's records, but for the counts compaction *)
(* keeps: a crash loses nothing of it.                                     *)
THEOREM IndexAlwaysMatches == Spec => []IndexMatchesBackend
  BY StoreInvariant, InvMatches, PTL

-----------------------------------------------------------------------------
(* What is read is what was written.                                       *)

(* A commit is exact for the writes it stands for.                         *)
CommitExact(C, H, i, f) ==
  Exact(CurrentOf(RecordsAt(C, i)), RecordsAt(C, i), H, LengthOf(C, i), f)

StoredExact == \A i \in 1..Len(commits) : CommitExact(commits, hist, i, floor)

IndexExact == Exact(ReadsOf(index), Left, hist, Len(hist), floor)

LEMMA CommitStays ==
  ASSUME NEW C, NEW H, NEW i, NEW f \in Nat, CommitExact(C, H, i, f), LengthOf(C, i) \in Nat,
         NEW C2, NEW j, LengthOf(C2, j) = LengthOf(C, i), RecordsAt(C2, j) = RecordsAt(C, i),
         NEW H2, \A u \in 1..LengthOf(C, i) : H2[u] = H[u]
  PROVE  CommitExact(C2, H2, j, f)
<1> DEFINE n == LengthOf(C, i)
           R == RecordsAt(C, i)
           W == CurrentOf(R)
<1>1. Exact(W, R, H, n, f)
  BY DEF CommitExact
<1>2. n \in Nat /\ \A u \in 1..n : H2[u] = H[u]
  OBVIOUS
<1>3. LengthOf(C2, j) = n /\ RecordsAt(C2, j) = R
  OBVIOUS
<1> HIDE DEF n, R, W
<1>4. Exact(W, R, H2, n, f)
  BY <1>1, <1>2, ExactHistory
<1> QED
  BY <1>3, <1>4 DEF CommitExact, W

LEMMA ExactParts ==
  ASSUME StoreInv
  PROVE  /\ floor \in Nat /\ target \in Nat /\ Len(hist) \in Nat /\ Len(commits) \in Nat
         /\ Len(commits) \in 1..Len(commits) /\ LengthOf(commits, Len(commits)) = Len(hist)
         /\ \A i \in 1..Len(commits) : /\ LengthOf(commits, i) \in Nat
                                       /\ LengthOf(commits, i) \in 0..Len(hist)
         /\ \A i, j \in 1..Len(commits) : i <= j => LengthOf(commits, i) <= LengthOf(commits, j)
         /\ \A i \in 1..Len(hist) : RevOf(hist, i) \in Nat
         /\ StoredExact => Exact(CurrentOf(backend.records), backend.records, hist, Len(hist), floor)
<1>1. /\ Len(commits) \in Nat \ {0} /\ CommitsOK(commits, Len(hist)) /\ Len(hist) \in Nat
      /\ RecordsAt(commits, Len(commits)) = backend.records /\ hist \in Seq(Write)
  BY LastRecords DEF StoreInv, BackendHolds, TypesHold
<1>2. Len(commits) \in 1..Len(commits)
  BY <1>1
<1>3. \A i \in 1..Len(commits) : LengthOf(commits, i) \in Nat /\ LengthOf(commits, i) \in 0..Len(hist)
  BY <1>1 DEF CommitsOK
<1>4. LengthOf(commits, Len(commits)) = Len(hist)
  BY <1>1 DEF CommitsOK
<1>5. StoredExact => Exact(CurrentOf(backend.records), backend.records, hist, Len(hist), floor)
  BY <1>1, <1>2, <1>4 DEF StoredExact, CommitExact
<1> QED
  BY <1>1, <1>2, <1>3, <1>4, <1>5, WriteParts DEF CommitsOK, StoreInv, TypesHold

LEMMA ApplyStoredExact ==
  ASSUME StoreInv, NEW batch \in Seq(Mutation), NEW upto \in Nat, Apply(batch, upto), StoredExact
  PROVE  StoredExact'
<1> DEFINE c == current
           n == Len(batch)
           N == Len(hist)
           R == backend'.records
<1>1. /\ n \in Nat /\ c \in Nat /\ RecordsOf(R, c + n) /\ Batched(R, c, batch)
      /\ UpTo(R, c) = backend.records /\ UpTo(R, c + n) = R
      /\ Len(hist') = N + n /\ \A i \in 1..N : hist'[i] = hist[i]
      /\ Continues(hist', N, c, batch)
      /\ Len(commits') = Len(commits) + 1
      /\ IsCommit(commits', Len(commits'), Len(hist'), R, upto)
      /\ \A i \in 1..Len(commits) : SameCommit(commits, commits', i)
  BY BatchApplied
<1>2. /\ floor \in Nat /\ N \in Nat /\ Len(commits) \in Nat
      /\ \A i \in 1..Len(commits) : LengthOf(commits, i) \in Nat /\ LengthOf(commits, i) \in 0..N
      /\ Exact(CurrentOf(backend.records), backend.records, hist, N, floor)
      /\ floor' = floor
  BY ExactParts DEF Apply
<1> HIDE DEF c, n, N, R
<1>3. Exact(CurrentOf(R), R, hist', N + n, floor)
  <2>1. Exact(CurrentOf(UpTo(R, c)), UpTo(R, c), hist', N, floor)
    BY <1>1, <1>2, ExactHistory
  <2>2. Exact(CurrentOf(UpTo(R, c + n)), UpTo(R, c + n), hist', N + n, floor)
    BY <1>1, <1>2, <2>1, BatchExactRecords DEF n
  <2> QED
    BY <1>1, <2>2
<1>4. ASSUME NEW i \in 1..Len(commits') PROVE CommitExact(commits', hist', i, floor)
  <2>1. CASE i \in 1..Len(commits)
    <3>1. \A u \in 1..LengthOf(commits, i) : hist'[u] = hist[u]
      BY <1>1, <1>2, <2>1
    <3>2. LengthOf(commits', i) = LengthOf(commits, i) /\ RecordsAt(commits', i) = RecordsAt(commits, i)
      BY <1>1, <2>1 DEF SameCommit
    <3>3. CommitExact(commits, hist, i, floor) /\ LengthOf(commits, i) \in Nat
      BY <1>2, <2>1 DEF StoredExact
    <3> QED
      BY <1>2, <3>1, <3>2, <3>3, CommitStays
  <2>2. CASE i = Len(commits')
    BY <1>1, <1>3, <2>2 DEF CommitExact, IsCommit
  <2> QED
    BY <1>1, <1>2, <2>1, <2>2
<1> QED
  BY <1>2, <1>4 DEF StoredExact

LEMMA ApplyIndexExact ==
  ASSUME StoreInv, NEW batch \in Seq(Mutation), NEW upto \in Nat, Apply(batch, upto), IndexExact
  PROVE  IndexExact'
<1> DEFINE c == current
           n == Len(batch)
           N == Len(hist)
           R == backend'.records
<1>1. /\ n \in Nat /\ c \in Nat /\ RecordsOf(R, c + n) /\ Batched(R, c, batch)
      /\ UpTo(R, c) = backend.records /\ UpTo(R, c + n) = R
      /\ Len(hist') = N + n /\ \A i \in 1..N : hist'[i] = hist[i]
      /\ Continues(hist', N, c, batch)
      /\ Indexes(index, R, c) /\ Folds(index, index', R, c, n) /\ Left' = R
  BY BatchApplied
<1>2. floor \in Nat /\ N \in Nat /\ floor' = floor /\ Left = backend.records
  BY ExactParts, OpenLeft DEF Apply
<1> HIDE DEF c, n, N, R
<1>3. PICK g : Fold(g, index, index', R, c, n)
  BY <1>1 DEF Folds
<1>4. Exact(ReadsOf(index), UpTo(R, c), hist, N, floor)
  BY <1>1, <1>2 DEF IndexExact, N
<1>5. Exact(ReadsOf(index), UpTo(R, c), hist', N, floor)
  BY <1>1, <1>2, <1>4, ExactHistory
<1>6. Exact(ReadsOf(index'), UpTo(R, c + n), hist', N + n, floor)
  BY <1>1, <1>2, <1>3, <1>5, BatchExactIndex DEF n
<1> QED
  BY <1>1, <1>2, <1>6 DEF IndexExact

LEMMA CheckpointExact ==
  ASSUME StoreInv, Checkpoint
  PROVE  (StoredExact => StoredExact') /\ (IndexExact => IndexExact')
<1> DEFINE R == backend.records
           N == Len(hist)
<1>1. RecordsOf(R, N) /\ N \in Nat /\ applied \in Nat
  BY LastRecords DEF StoreInv, TypesHold
<1>2. /\ commits' = CommitDurable(commits, Snapshot(N, R, applied)) /\ hist' = hist
      /\ index' = index /\ dropping' = dropping /\ floor' = floor
  BY DEF Checkpoint, stateVars, compactionVars
<1> HIDE DEF R, N
<1>3. /\ Len(commits') = 1 /\ IsCommit(commits', 1, N, R, applied)
      /\ Committed(commits').backend.records = R
  BY <1>1, <1>2, CommitAlone
<1>4. Left' = Left
  BY <1>2, <1>3 DEF Left, backend, R
<1>5. IndexExact => IndexExact'
  BY <1>2, <1>4 DEF IndexExact
<1>6. ASSUME StoredExact PROVE StoredExact'
  <2>1. Exact(CurrentOf(R), R, hist, N, floor)
    BY <1>6, ExactParts DEF R, N
  <2>2. CommitExact(commits', hist', 1, floor')
    BY <1>2, <1>3, <2>1 DEF CommitExact, IsCommit
  <2>3. \A i \in 1..Len(commits') : i = 1
    BY <1>3
  <2> QED
    BY <2>2, <2>3 DEF StoredExact
<1> QED
  BY <1>5, <1>6

LEMMA BeginsExact ==
  ASSUME StoreInv, NEW at \in Nat, CompactBegins(at)
  PROVE  (StoredExact => StoredExact') /\ (IndexExact => IndexExact')
<1> DEFINE R == backend.records
           D == Dropped(index, at)
           R2 == Without(R, Revisions(D))
           N == Len(hist)
<1>1. /\ pc = "open" /\ dropping' = D /\ index' = IndexCompact(index, at)
      /\ floor' = Max({floor, at}) /\ commits' = commits /\ hist' = hist
  BY DEF CompactBegins
<1>2. /\ floor \in Nat /\ N \in Nat
      /\ \A i \in 1..Len(commits) : LengthOf(commits, i) \in Nat
      /\ \A i \in 1..N : RevOf(hist, i) \in Nat
  BY ExactParts
<1>3. floor' \in Nat /\ floor <= floor' /\ at <= floor'
  BY <1>1, <1>2, HigherOf
<1>4. /\ RecordsOf(R, current) /\ current \in Nat /\ IsIndex(index) /\ BackedBy(index, R)
      /\ Left = R
  BY <1>1, OpenLeft
<1>5. /\ BackedBy(index', R2)
      /\ \A k \in Key : \A a \in Nat : a >= at =>
           Found(HistoryOf(index', k), a) = Found(HistoryOf(index, k), a)
  BY <1>1, <1>4, CompactDrops
<1>6. Left' = R2
  BY <1>1 DEF Left, backend
<1> HIDE DEF R, D, N
<1>7. \A k, q : PutAt(R2, k, q) => StoredAs(R2, q) = StoredAs(R, q)
  BY <1>4, WithoutIs
<1> HIDE DEF R2
<1>8. ASSUME StoredExact PROVE StoredExact'
  <2>1. ASSUME NEW i \in 1..Len(commits) PROVE CommitExact(commits, hist, i, floor')
    <3>1. CommitExact(commits, hist, i, floor) /\ LengthOf(commits, i) \in Nat
      BY <1>2, <1>8 DEF StoredExact
    <3> QED
      BY <1>2, <1>3, <3>1, ExactLater DEF CommitExact
  <2> QED
    BY <1>1, <2>1 DEF StoredExact, CommitExact, LengthOf, RecordsAt
<1>9. ASSUME IndexExact PROVE IndexExact'
  <2>1. Exact(ReadsOf(index), R, hist, N, floor')
    BY <1>2, <1>3, <1>4, <1>9, ExactLater DEF IndexExact, N
  <2>2. \A k \in Key : /\ Ordered(HistoryOf(index, k)) /\ Ordered(HistoryOf(index', k))
                       /\ \A a \in Nat : a >= at =>
                            Found(HistoryOf(index', k), a) = Found(HistoryOf(index, k), a)
    BY <1>4, <1>5 DEF BackedBy
  <2>3. ASSUME NEW k \in Key, NEW a \in Nat, a >= floor', NEW q \in Nat
        PROVE  /\ In(ReadsOf(index'), k, a, q) <=> In(ReadsOf(index), k, a, q)
               /\ In(ReadsOf(index), k, a, q) => StoredAs(R2, q) = StoredAs(R, q)
    <3>1. a >= at
      BY <1>3, <2>3
    <3>2. In(ReadsOf(index'), k, a, q) <=> In(ReadsOf(index), k, a, q)
      BY <2>2, <3>1, SameFound
    <3>3. In(ReadsOf(index'), k, a, q) => PutAt(R2, k, q)
      BY <1>5, ReadsHold DEF Holds
    <3> QED
      BY <1>7, <3>2, <3>3
  <2>4. Exact(ReadsOf(index'), R2, hist, N, floor')
    BY <1>2, <1>3, <2>1, <2>3, ExactSame
  <2> QED
    BY <1>1, <1>6, <2>4 DEF IndexExact, N
<1> QED
  BY <1>8, <1>9

LEMMA NextExact ==
  ASSUME StoreInv, CompactNext
  PROVE  /\ IndexExact => IndexExact'
         /\ spent["compact"] = 0 /\ StoredExact => StoredExact'
<1>1. PICK chunk \in SUBSET dropping :
           LET R2 == Without(backend.records, Revisions(chunk)) IN
           /\ \A p \in chunk, q \in dropping \ chunk : Before(p, q)
           /\ dropping' = dropping \ chunk /\ backend'.records = R2
           /\ RecordsOf(backend.records, current) /\ current \in Nat
           /\ Len(commits') = Len(commits) + 1
           /\ IsCommit(commits', Len(commits'), Len(hist), R2, backend.applied)
           /\ \A i \in 1..Len(commits) : SameCommit(commits, commits', i)
  BY ChunkParts
<1> DEFINE R == backend.records
           R2 == Without(R, Revisions(chunk))
           N == Len(hist)
<1>2. index' = index /\ hist' = hist /\ floor' = floor
  BY DEF CompactNext, stateVars, ghostVars
<1>3. Left' = Left
  <2>1. Left' = Without(R2, Revisions(dropping \ chunk))
    BY <1>1 DEF Left
  <2> QED
    BY <2>1, WithoutBoth DEF Left
<1>4. /\ floor \in Nat /\ target \in Nat /\ N \in Nat /\ Len(commits) \in Nat
      /\ \A i \in 1..Len(commits) : LengthOf(commits, i) \in Nat
      /\ \A i \in 1..N : RevOf(hist, i) \in Nat
      /\ StoredExact => Exact(CurrentOf(R), R, hist, N, floor)
  BY ExactParts
<1>5. Dropping(R, dropping, target) /\ target <= floor
      /\ (spent["compact"] = 0 => Superseded(R, dropping, target))
  BY DEF StoreInv, DropHolds
<1>6. spent["compact"] = 0 =>
        \A k \in Key : \A at \in Nat : \A q \in Nat : at >= target =>
          (Current(R2, k, at, q) <=> Current(R, k, at, q))
  BY <1>1, <1>4, <1>5, ChunkGoes
<1>7. \A k, q : PutAt(R2, k, q) => StoredAs(R2, q) = StoredAs(R, q)
  BY <1>1, WithoutIs
<1> HIDE DEF R, R2, N
<1>8. ASSUME spent["compact"] = 0, StoredExact PROVE StoredExact'
  <2>1. ASSUME NEW k \in Key, NEW at \in Nat, NEW q \in Nat, at >= floor
        PROVE  /\ In(CurrentOf(R2), k, at, q) <=> In(CurrentOf(R), k, at, q)
               /\ In(CurrentOf(R), k, at, q) => StoredAs(R2, q) = StoredAs(R, q)
    <3>1. at >= target
      BY <1>4, <1>5, <2>1
    <3>2. In(CurrentOf(R2), k, at, q) <=> In(CurrentOf(R), k, at, q)
      BY <1>6, <1>8, <3>1, InCurrent
    <3>3. In(CurrentOf(R2), k, at, q) => PutAt(R2, k, q)
      BY CurrentHolds DEF Holds
    <3> QED
      BY <1>7, <3>2, <3>3
  <2>2. Exact(CurrentOf(R2), R2, hist, N, floor)
    BY <1>4, <1>8, <2>1, ExactSame
  <2>3. ASSUME NEW i \in 1..Len(commits') PROVE CommitExact(commits', hist, i, floor)
    <3>1. CASE i \in 1..Len(commits)
      <4>1. LengthOf(commits', i) = LengthOf(commits, i) /\ RecordsAt(commits', i) = RecordsAt(commits, i)
        BY <1>1, <3>1 DEF SameCommit
      <4>2. CommitExact(commits, hist, i, floor) /\ LengthOf(commits, i) \in Nat
        BY <1>4, <1>8, <3>1 DEF StoredExact
      <4> QED
        BY <1>4, <4>1, <4>2, CommitStays
    <3>2. CASE i = Len(commits')
      BY <1>1, <2>2, <3>2 DEF CommitExact, IsCommit, R2, N, R
    <3> QED
      BY <1>1, <1>4, <3>1, <3>2
  <2> QED
    BY <1>2, <2>3 DEF StoredExact
<1> QED
  BY <1>2, <1>3, <1>8 DEF IndexExact

LEMMA FailsExact ==
  ASSUME StoreInv, CompactFails
  PROVE  (StoredExact => StoredExact') /\ (IndexExact => IndexExact')
<1> DEFINE R == backend.records
           N == Len(hist)
<1>1. /\ pc = "compacting" /\ dropping' = {} /\ index' = index /\ hist' = hist /\ floor' = floor
      /\ commits' = commits
  BY DEF CompactFails, stateVars, ghostVars
<1>2. /\ floor \in Nat /\ N \in Nat /\ \A i \in 1..N : RevOf(hist, i) \in Nat
  BY ExactParts
<1>3. RecordsOf(R, current) /\ current \in Nat /\ BackedBy(index, Left)
  BY <1>1 DEF StoreInv, BackendHolds, TypesHold, IndexHolds
<1>4. Left' = R
  BY <1>1, <1>3, WithoutNone DEF Left, backend
<1>5. \A k, q : PutAt(Left, k, q) => StoredAs(Left, q) = StoredAs(R, q)
  BY <1>3, WithoutIs DEF Left
<1>6. \A k \in Key : \A a \in Nat : \A q \in Nat : In(ReadsOf(index), k, a, q) => PutAt(Left, k, q)
  BY <1>3, ReadsHold DEF Holds
<1> HIDE DEF R, N
<1>7. StoredExact => StoredExact'
  BY <1>1 DEF StoredExact, CommitExact, LengthOf, RecordsAt
<1>8. ASSUME IndexExact PROVE IndexExact'
  <2>1. Exact(ReadsOf(index), Left, hist, N, floor)
    BY <1>8 DEF IndexExact, N
  <2>2. Exact(ReadsOf(index), R, hist, N, floor)
    BY <1>2, <1>5, <1>6, <2>1, ExactSame
  <2> QED
    BY <1>1, <1>4, <2>2 DEF IndexExact, N
<1> QED
  BY <1>7, <1>8

LEMMA EndsExact ==
  ASSUME StoreInv, CompactEnds
  PROVE  (StoredExact => StoredExact') /\ (IndexExact => IndexExact')
<1>1. /\ dropping' = dropping /\ index' = index /\ hist' = hist /\ floor' = floor
      /\ commits' = commits
  BY DEF CompactEnds
<1> QED
  BY <1>1 DEF StoredExact, CommitExact, LengthOf, RecordsAt, IndexExact, Left, backend

LEMMA FallExact ==
  ASSUME StoreInv, NEW i \in DOMAIN commits, FallTo(i), StoredExact
  PROVE  StoredExact'
<1> DEFINE n == LengthOf(commits, i)
<1>1. /\ i \in 1..Len(commits) /\ Len(commits') = i
      /\ \A j \in 1..i : j \in 1..Len(commits) /\ SameCommit(commits, commits', j)
      /\ \A j \in 1..n : hist'[j] = hist[j]
  BY FallParts
<1>2. /\ floor \in Nat /\ Len(commits) \in Nat
      /\ \A j \in 1..Len(commits) : LengthOf(commits, j) \in Nat
      /\ \A j, u \in 1..Len(commits) : j <= u => LengthOf(commits, j) <= LengthOf(commits, u)
  BY ExactParts
<1>3. floor' = floor
  BY DEF FallTo
<1> HIDE DEF n
<1>4. ASSUME NEW j \in 1..Len(commits') PROVE CommitExact(commits', hist', j, floor)
  <2>1. j \in 1..i /\ j \in 1..Len(commits) /\ j <= i
    BY <1>1, <1>2
  <2>2. LengthOf(commits', j) = LengthOf(commits, j) /\ RecordsAt(commits', j) = RecordsAt(commits, j)
    BY <1>1, <2>1 DEF SameCommit
  <2>3. CommitExact(commits, hist, j, floor) /\ LengthOf(commits, j) \in Nat /\ n \in Nat
        /\ LengthOf(commits, j) <= n
    BY <1>1, <1>2, <2>1 DEF StoredExact, n
  <2>4. \A u \in 1..LengthOf(commits, j) : hist'[u] = hist[u]
    BY <1>1, <2>3
  <2> QED
    BY <1>2, <2>2, <2>3, <2>4, CommitStays
<1> QED
  BY <1>3, <1>4 DEF StoredExact

LEMMA OpenExact ==
  ASSUME StoreInv, Open, StoredExact
  PROVE  StoredExact' /\ IndexExact'
<1> DEFINE R == backend.records
           N == Len(hist)
           I == Rebuilt(R)
<1>1. /\ pc = "down" /\ index' = I /\ dropping' = dropping /\ floor' = floor /\ hist' = hist
      /\ commits' = commits
  BY DEF Open, compactionVars, ghostVars
<1>2. /\ floor \in Nat /\ N \in Nat /\ \A i \in 1..N : RevOf(hist, i) \in Nat
      /\ Exact(CurrentOf(R), R, hist, N, floor)
  BY ExactParts
<1>3. RecordsOf(R, N)
  BY LastRecords
<1>4. BackedBy(I, R) /\ CompleteFor(I, R)
  BY <1>2, <1>3, RebuiltIs
<1>5. Left' = R
  BY <1>1, <1>2, <1>3, WithoutNone DEF Left, backend, StoreInv, DropHolds
<1> HIDE DEF R, N, I
<1>6. \A k \in Key : \A at \in Nat : \A q \in Nat :
        In(ReadsOf(I), k, at, q) <=> In(CurrentOf(R), k, at, q)
  BY <1>2, <1>3, <1>4, CompleteReads
<1>7. Exact(ReadsOf(I), R, hist, N, floor)
  BY <1>2, <1>6, ExactSame
<1> QED
  BY <1>1, <1>5, <1>7 DEF IndexExact, N, StoredExact, CommitExact, LengthOf, RecordsAt

-----------------------------------------------------------------------------
(* When reads are exact.                                                   *)

(* Every failed compaction was begun.                                      *)
CountHolds ==
  /\ spent["compact"] <= spent["compactions"]
  /\ pc = "compacting" => spent["compact"] < spent["compactions"]

(* No compaction may have failed before another one began. *)
Sound == spent["compact"] = 0 \/ spent["compactions"] <= 1

(* Then what is stored is exact, and the index of an open store. *)
SoundInv ==
  /\ CountHolds
  /\ Sound => StoredExact
  /\ Sound /\ pc # "down" => IndexExact

(* Before any crash the index is exact, whatever compaction failed. *)
LivedInv == spent["crash"] = 0 => pc # "down" /\ IndexExact

ExactInv == SoundInv /\ LivedInv

LEMMA SpentParts ==
  ASSUME StoreInv
  PROVE  spent["compact"] \in Nat /\ spent["crash"] \in Nat /\ spent["compactions"] \in Nat
  BY CountedKinds DEF StoreInv, TypesHold

LEMMA StartExact ==
  ASSUME Init PROVE ExactInv
<1> DEFINE R == EmptyBackend.records
<1>1. StoreInv
  BY StartInv
<1>2. \A k, q : ~PutAt(R, k, q)
  BY DEF EmptyBackend, PutAt, Rec
<1>3. commits = CreateTable([length |-> 0, backend |-> EmptyBackend])
      /\ hist = <<>> /\ floor = 0 /\ index = EmptyIndex /\ pc = "open"
      /\ spent = [b \in Counted |-> 0]
  BY DEF Init
<1>4. Len(commits) = 1 /\ LengthOf(commits, 1) = 0 /\ RecordsAt(commits, 1) = R /\ backend.records = R
  BY <1>3 DEF CreateTable, LengthOf, RecordsAt, backend, Committed
<1> HIDE DEF R
<1>5. ASSUME NEW W, \A k \in Key : \A at \in Nat : \A q \in Nat : ~In(W, k, at, q)
      PROVE  Exact(W, R, hist, 0, 0)
  <2>1. \A k, at, i : ~Live(hist, 0, k, at, i)
    BY DEF Live
  <2> QED
    BY <1>5, <2>1 DEF Exact
<1>6. StoredExact
  <2>1. \A k \in Key : \A at \in Nat : \A q \in Nat : ~In(CurrentOf(R), k, at, q)
    BY <1>2, InCurrent DEF Current
  <2>2. Exact(CurrentOf(R), R, hist, 0, 0)
    BY <1>5, <2>1
  <2>3. \A i \in 1..Len(commits) : i = 1
    BY <1>4
  <2> QED
    BY <1>3, <1>4, <2>2, <2>3 DEF StoredExact, CommitExact
<1>7. IndexExact
  <2>1. BackedBy(index, R) /\ Left = R /\ Len(hist) = 0
    BY <1>1, <1>3, <1>4, OpenLeft
  <2>2. \A k \in Key : \A at \in Nat : \A q \in Nat : ~In(ReadsOf(index), k, at, q)
    BY <1>2, <2>1, ReadsHold DEF Holds
  <2> QED
    BY <1>3, <1>5, <2>1, <2>2 DEF IndexExact
<1>8. CountHolds
  BY <1>3, CountedKinds DEF CountHolds
<1> QED
  BY <1>3, <1>6, <1>7, <1>8 DEF ExactInv, SoundInv, LivedInv

(* Steps that spend nothing. *)
(* What a step makes of both. *)
KeepsExact == SoundInv' /\ (LivedInv => LivedInv')

LEMMA FreeExact ==
  ASSUME SoundInv, spent' = spent, pc' \notin {"down", "compacting"} \/ pc' = pc,
         pc # "down" \/ pc' = pc,
         Sound /\ StoredExact => StoredExact', IndexExact => IndexExact'
  PROVE  KeepsExact
  BY DEF KeepsExact, SoundInv, LivedInv, CountHolds, Sound

LEMMA ApplyExact ==
  ASSUME StoreInv, NEW batch \in Seq(Mutation), NEW upto \in Nat, Apply(batch, upto), SoundInv
  PROVE  KeepsExact
<1>1. pc' = pc /\ spent' = spent
  BY DEF Apply
<1> QED
  BY <1>1, ApplyStoredExact, ApplyIndexExact, FreeExact

LEMMA CheckpointKeeps ==
  ASSUME StoreInv, Checkpoint, SoundInv PROVE KeepsExact
<1>1. pc' = pc /\ spent' = spent
  BY DEF Checkpoint
<1> QED
  BY <1>1, CheckpointExact, FreeExact

LEMMA BeginsKeeps ==
  ASSUME StoreInv, NEW at \in Nat, CompactBegins(at), SoundInv PROVE KeepsExact
<1>1. pc = "open" /\ pc' = "compacting" /\ Spent("compactions")
  BY DEF CompactBegins
<1>2. /\ spent'["compactions"] = spent["compactions"] + 1
      /\ spent'["compact"] = spent["compact"] /\ spent'["crash"] = spent["crash"]
  BY <1>1, CountedKinds, SpentCounts DEF StoreInv, TypesHold
<1>3. (StoredExact => StoredExact') /\ (IndexExact => IndexExact')
  BY BeginsExact
<1>4. CountHolds'
  BY <1>2, SpentParts DEF CountHolds, SoundInv
<1>5. Sound' => Sound
  BY <1>2, SpentParts DEF Sound
<1> QED
  BY <1>1, <1>2, <1>3, <1>4, <1>5 DEF KeepsExact, SoundInv, LivedInv

LEMMA NextKeeps ==
  ASSUME StoreInv, CompactNext, SoundInv PROVE KeepsExact
<1>1. pc = "compacting" /\ pc' = pc /\ spent' = spent
  BY DEF CompactNext
<1>2. Sound => spent["compact"] = 0
  BY <1>1, SpentParts DEF Sound, SoundInv, CountHolds
<1> QED
  BY <1>1, <1>2, NextExact, FreeExact

LEMMA FailsKeeps ==
  ASSUME StoreInv, CompactFails, SoundInv PROVE KeepsExact
<1>1. pc = "compacting" /\ pc' = "open" /\ Fault("compact")
  BY DEF CompactFails
<1>2. /\ spent'["compact"] = spent["compact"] + 1
      /\ spent'["compactions"] = spent["compactions"] /\ spent'["crash"] = spent["crash"]
  BY <1>1, CountedKinds, FaultCounts DEF StoreInv, TypesHold
<1>3. (StoredExact => StoredExact') /\ (IndexExact => IndexExact')
  BY FailsExact
<1>4. CountHolds'
  BY <1>1, <1>2, SpentParts DEF CountHolds, SoundInv
<1>5. Sound' => Sound
  BY <1>2, SpentParts DEF Sound
<1> QED
  BY <1>1, <1>2, <1>3, <1>4, <1>5 DEF KeepsExact, SoundInv, LivedInv

LEMMA EndsKeeps ==
  ASSUME StoreInv, CompactEnds, SoundInv PROVE KeepsExact
<1>1. pc = "compacting" /\ pc' = "open" /\ spent' = spent
  BY DEF CompactEnds
<1> QED
  BY <1>1, EndsExact, FreeExact

(* A stop, or a crash that is counted.                                     *)
LEMMA FallKeeps ==
  ASSUME StoreInv, NEW i \in DOMAIN commits, FallTo(i), SoundInv,
         spent'["compact"] = spent["compact"], spent'["compactions"] = spent["compactions"]
  PROVE  SoundInv'
<1>1. pc' = "down"
  BY DEF FallTo
<1>2. StoredExact => StoredExact'
  BY FallExact
<1> QED
  BY <1>1, <1>2 DEF SoundInv, CountHolds, Sound

LEMMA CrashKeeps ==
  ASSUME StoreInv, Crash, ExactInv PROVE ExactInv'
<1>1. PICK i \in DOMAIN commits : FallTo(i)
  BY DEF Crash
<1>2. /\ spent'["compact"] = spent["compact"] /\ spent'["compactions"] = spent["compactions"]
      /\ spent'["crash"] = spent["crash"] + 1
  BY CountedKinds, FaultCounts DEF Crash, StoreInv, TypesHold
<1>3. SoundInv'
  BY <1>1, <1>2, FallKeeps DEF ExactInv
<1>4. LivedInv'
  BY <1>2, SpentParts DEF LivedInv
<1> QED
  BY <1>3, <1>4 DEF ExactInv

LEMMA OpenSound ==
  ASSUME StoreInv, Open, SoundInv PROVE SoundInv'
<1>1. pc = "down" /\ pc' = "open" /\ spent' = spent
  BY DEF Open
<1> QED
  BY <1>1, OpenExact DEF SoundInv, CountHolds, Sound

LEMMA OpenKeeps ==
  ASSUME StoreInv, Open, ExactInv PROVE ExactInv'
<1>1. pc = "down" /\ pc' = "open" /\ spent' = spent
  BY DEF Open
<1> QED
  BY <1>1, OpenSound DEF ExactInv, LivedInv

LEMMA StutterExact ==
  ASSUME UNCHANGED vars, SoundInv PROVE KeepsExact
<1>1. /\ index' = index /\ hist' = hist /\ commits' = commits /\ dropping' = dropping
      /\ floor' = floor /\ pc' = pc /\ spent' = spent
  BY DEF vars, stateVars, compactionVars, ghostVars
<1> QED
  BY <1>1, FreeExact DEF StoredExact, CommitExact, LengthOf, RecordsAt, IndexExact, Left, backend

LEMMA StepExact ==
  ASSUME StoreInv, ExactInv, [Next]_vars PROVE ExactInv'
<1>0. SoundInv
  BY DEF ExactInv
<1>1. ASSUME NEW batch \in Batch, Apply(batch, applied + Len(batch)) PROVE KeepsExact
  <2>1. batch \in Seq(Mutation)
    BY DEF Batch
  <2>2. applied + Len(batch) \in Nat
    BY <2>1 DEF StoreInv, TypesHold
  <2> QED
    BY <1>0, <1>1, <2>1, <2>2, ApplyExact
<1>2. ASSUME TransactionFails PROVE KeepsExact
  BY <1>0, <1>2, StutterExact DEF TransactionFails
<1>3. ASSUME NEW at \in 0..MaxWrites, CompactBegins(at) PROVE KeepsExact
  <2>1. at \in Nat
    BY BoundsAssumption
  <2> QED
    BY <1>0, <1>3, <2>1, BeginsKeeps
<1>4. ASSUME KeepsExact PROVE ExactInv'
  BY <1>4 DEF KeepsExact, ExactInv
<1> QED
  BY <1>0, <1>1, <1>2, <1>3, <1>4, CheckpointKeeps, NextKeeps, FailsKeeps, EndsKeeps, CrashKeeps,
     OpenKeeps, StutterExact DEF Next

(* Every state holds ExactInv: unless a compaction that failed was         *)
(* followed by another, every commit stores what its writes say from the   *)
(* watermark on, and the index reads it; and before the first crash the    *)
(* index reads it whatever failed.                                         *)
THEOREM ExactInvariant == Spec => []ExactInv
<1>1. Init => StoreInv /\ ExactInv
  BY StartInv, StartExact
<1>2. StoreInv /\ ExactInv /\ [Next]_vars => StoreInv' /\ ExactInv'
  BY StepInv, StepExact
<1> QED
  BY <1>1, <1>2, PTL DEF Spec

(* No behaviour has a failed compaction, another one and a crash.          *)
NoRelapse ==
  \/ "compact" \notin Faults \/ "crash" \notin Faults
  \/ MaxFaults <= 1 \/ MaxCompactions <= 1

(* What the bounds allow. *)
BoundsInv ==
  /\ spent \in [Counted -> Nat]
  /\ \A kind \in {"compact", "crash"} : spent[kind] # 0 => kind \in Faults
  /\ spent["compact"] + spent["crash"] <= MaxFaults
  /\ spent["compactions"] <= MaxCompactions

LEMMA StartBounds ==
  ASSUME Init PROVE BoundsInv
<1>1. spent = [b \in Counted |-> 0]
  BY DEF Init
<1> QED
  BY <1>1, CountedKinds, BoundsAssumption DEF BoundsInv

LEMMA FaultBounds ==
  ASSUME BoundsInv, NEW kind \in {"compact", "crash"}, Fault(kind) PROVE BoundsInv'
<1>1. /\ spent' \in [Counted -> Nat] /\ spent'[kind] = spent[kind] + 1
      /\ \A a \in Counted : a # kind => spent'[a] = spent[a]
      /\ kind \in Faults /\ spent["compact"] + spent["crash"] < MaxFaults
  BY FaultCounts DEF BoundsInv
<1>2. spent["compact"] \in Nat /\ spent["crash"] \in Nat /\ MaxFaults \in Nat
  BY CountedKinds, BoundsAssumption DEF BoundsInv
<1>3. spent'["compactions"] = spent["compactions"]
  BY <1>1, CountedKinds
<1>4. spent'["compact"] + spent'["crash"] = spent["compact"] + spent["crash"] + 1
  <2>1. CASE kind = "compact"
    BY <1>1, <1>2, <2>1, CountedKinds
  <2>2. CASE kind = "crash"
    BY <1>1, <1>2, <2>2, CountedKinds
  <2> QED
    BY <2>1, <2>2
<1>5. \A a \in {"compact", "crash"} : spent'[a] # 0 => a \in Faults
  BY <1>1, CountedKinds DEF BoundsInv
<1>6. spent'["compact"] + spent'["crash"] <= MaxFaults
  BY <1>1, <1>2, <1>4
<1> QED
  BY <1>1, <1>3, <1>5, <1>6 DEF BoundsInv

LEMMA StepBounds ==
  ASSUME BoundsInv, [Next]_vars PROVE BoundsInv'
<1>1. ASSUME spent' = spent PROVE BoundsInv'
  BY <1>1 DEF BoundsInv
<1>2. ASSUME NEW at, CompactBegins(at) PROVE BoundsInv'
  <2>1. /\ spent' \in [Counted -> Nat] /\ spent'["compactions"] = spent["compactions"] + 1
        /\ spent'["compact"] = spent["compact"] /\ spent'["crash"] = spent["crash"]
        /\ spent["compactions"] < MaxCompactions
    BY <1>2, CountedKinds, SpentCounts DEF CompactBegins, BoundsInv
  <2>2. spent["compactions"] \in Nat /\ MaxCompactions \in Nat
    BY CountedKinds, BoundsAssumption DEF BoundsInv
  <2>3. spent'["compactions"] <= MaxCompactions
    BY <2>1, <2>2
  <2> QED
    BY <2>1, <2>3 DEF BoundsInv
<1>3. CASE CompactFails
  BY <1>3, FaultBounds DEF CompactFails
<1>4. CASE Crash
  BY <1>4, FaultBounds DEF Crash
<1>5. CASE Checkpoint \/ CompactNext \/ CompactEnds \/ Open \/ \E batch, upto : Apply(batch, upto)
  BY <1>1, <1>5 DEF Checkpoint, CompactNext, CompactEnds, Open, Apply
<1>6. CASE TransactionFails \/ UNCHANGED vars
  BY <1>1, <1>6 DEF TransactionFails, vars
<1> QED
  BY <1>2, <1>3, <1>4, <1>5, <1>6 DEF Next

(* Faults and compactions stay within their bounds, which is what          *)
(* NoRelapse takes from them.                                              *)
THEOREM BoundsInvariant == Spec => []BoundsInv
<1>1. Init => BoundsInv
  BY StartBounds
<1>2. BoundsInv /\ [Next]_vars => BoundsInv'
  BY StepBounds
<1> QED
  BY <1>1, <1>2, PTL DEF Spec

(* What is open reads exactly.                                             *)
LEMMA SafeExact ==
  ASSUME NoRelapse, StoreInv, ExactInv, BoundsInv, pc = "open"
  PROVE  Exact(ReadsOf(index), backend.records, hist, Len(hist), floor)
<1>1. /\ spent["compact"] \in Nat /\ spent["crash"] \in Nat /\ spent["compactions"] \in Nat
      /\ MaxFaults \in Nat /\ MaxCompactions \in Nat
  BY SpentParts, BoundsAssumption
<1>2. Sound \/ spent["crash"] = 0
  BY <1>1 DEF NoRelapse, BoundsInv, Sound
<1>3. IndexExact
  BY <1>2 DEF ExactInv, SoundInv, LivedInv
<1> QED
  BY <1>3, OpenLeft DEF IndexExact

LEMMA ExactReads ==
  ASSUME StoreInv, Exact(ReadsOf(index), backend.records, hist, Len(hist), floor), pc = "open"
  PROVE  \A at \in floor..current : Agrees(at)
<1> SUFFICES ASSUME NEW at \in floor..current PROVE Agrees(at)
  OBVIOUS
<1>1. /\ hist \in Seq(Write) /\ floor \in Nat /\ current \in Nat
      /\ BackedBy(index, backend.records)
  BY OpenLeft DEF StoreInv, TypesHold
<1>2. at \in Nat /\ at >= floor
  BY <1>1
<1> QED
  BY <1>1, <1>2, ExactAgrees

(* A read at a revision a read may name returns the writes' value, and     *)
(* where nothing was compacted their counts, after any crash and open,     *)
(* provided no failed compaction is followed by another and by a crash.    *)
THEOREM ReadsAlwaysExact ==
  ASSUME NoRelapse
  PROVE  Spec => []ReadsExact
<1>1. StoreInv /\ ExactInv /\ BoundsInv => ReadsExact
  BY SafeExact, ExactReads DEF ReadsExact
<1> QED
  BY <1>1, StoreInvariant, ExactInvariant, BoundsInvariant, PTL

-----------------------------------------------------------------------------
(* Incarnations.                                                           *)

(* The writes of a key at a revision since its last deletion, among the    *)
(* first n.                                                                *)
Alive(H, n, k, at) ==
  { i \in 1..n : /\ KeyOf(H, i) = k /\ RevOf(H, i) <= at
                 /\ \A j \in 1..n : KeyOf(H, j) = k /\ RevOf(H, j) <= at /\ j >= i => ~DeadOf(H, j) }

(* Every write has the revision of its place. *)
Plain(H, n) == \A i \in 1..n : RevOf(H, i) = i

(* What there is to read of an incarnation. *)
Told(A) == [modified |-> Max(A), created |-> Min(A), version |-> Cardinality(A)]
Seen(H, n, k, at) == { Told(A) : A \in { Alive(H, n, k, at) } \ {{}} }

(* What an index finds is what the writes say, with the counts. *)
Known(idx, H, n, f) ==
  \A k \in Key : \A at \in Nat : at >= f => Found(HistoryOf(idx, k), at) = Seen(H, n, k, at)

LEMMA AliveIs ==
  ASSUME NEW H, NEW n \in Nat, Plain(H, n), NEW k, NEW at \in Nat, NEW i
  PROVE  i \in Alive(H, n, k, at) <=>
           /\ i \in 1..n /\ KeyOf(H, i) = k /\ i <= at
           /\ \A j \in 1..n : KeyOf(H, j) = k /\ j <= at /\ j >= i => ~DeadOf(H, j)
  BY DEF Alive, Plain

LEMMA AliveNext ==
  ASSUME NEW H, NEW n \in Nat, Plain(H, n + 1), NEW k, NEW at \in Nat
  PROVE  /\ Plain(H, n)
         /\ at <= n \/ k # KeyOf(H, n + 1) => Alive(H, n + 1, k, at) = Alive(H, n, k, at)
         /\ at > n /\ k = KeyOf(H, n + 1) /\ DeadOf(H, n + 1) => Alive(H, n + 1, k, at) = {}
         /\ at > n /\ k = KeyOf(H, n + 1) /\ ~DeadOf(H, n + 1) =>
              Alive(H, n + 1, k, at) = Alive(H, n, k, n) \cup {n + 1}
<1>1. Plain(H, n) /\ n + 1 \in Nat
  BY DEF Plain
<1> DEFINE Q(m, a, i) == /\ i \in 1..m /\ KeyOf(H, i) = k /\ i <= a
                         /\ \A j \in 1..m : KeyOf(H, j) = k /\ j <= a /\ j >= i => ~DeadOf(H, j)
<1>2. \A i : i \in Alive(H, n + 1, k, at) <=> Q(n + 1, at, i)
  BY <1>1, AliveIs
<1>3. \A i : i \in Alive(H, n, k, at) <=> Q(n, at, i)
  BY <1>1, AliveIs
<1>4. \A i : i \in Alive(H, n, k, n) <=> Q(n, n, i)
  BY <1>1, AliveIs
<1>5. ASSUME at <= n \/ k # KeyOf(H, n + 1), NEW i PROVE Q(n + 1, at, i) <=> Q(n, at, i)
  <2>1. ASSUME NEW j \in 1..n + 1, KeyOf(H, j) = k, j <= at PROVE j \in 1..n
    BY <1>5, <2>1
  <2>2. \A j \in 1..n : j \in 1..n + 1
    OBVIOUS
  <2> QED
    BY <2>1, <2>2
<1>6. ASSUME at > n, k = KeyOf(H, n + 1), NEW i
      PROVE  Q(n + 1, at, i) <=> ~DeadOf(H, n + 1) /\ (Q(n, n, i) \/ i = n + 1)
  <2>1. \A j \in 1..n + 1 : j <= at /\ (j \in 1..n \/ j = n + 1)
    BY <1>6
  <2>2. \A j \in 1..n : j \in 1..n + 1 /\ j <= n /\ j <= at /\ n + 1 >= j
    BY <1>6
  <2>3. n + 1 \in 1..n + 1 /\ \A j \in 1..n : ~(j >= n + 1)
    OBVIOUS
  <2>4. i \in 1..n + 1 => n + 1 >= i
    OBVIOUS
  <2> QED
    BY <1>6, <2>1, <2>2, <2>3, <2>4
<1> HIDE DEF Q
<1>7. ASSUME at <= n \/ k # KeyOf(H, n + 1)
      PROVE  Alive(H, n + 1, k, at) = Alive(H, n, k, at)
  BY <1>2, <1>3, <1>5, <1>7
<1>8. ASSUME at > n, k = KeyOf(H, n + 1), DeadOf(H, n + 1)
      PROVE  Alive(H, n + 1, k, at) = {}
  BY <1>2, <1>6, <1>8
<1>9. ASSUME at > n, k = KeyOf(H, n + 1), ~DeadOf(H, n + 1)
      PROVE  Alive(H, n + 1, k, at) = Alive(H, n, k, n) \cup {n + 1}
  BY <1>2, <1>4, <1>6, <1>9
<1> QED
  BY <1>1, <1>7, <1>8, <1>9

LEMMA Lowest ==
  ASSUME NEW S \in SUBSET Nat, S # {}
  PROVE  Min(S) \in S /\ \A y \in S : Min(S) <= y
  BY Smallest DEF Min

LEMMA ToldNext ==
  ASSUME NEW n \in Nat, NEW A \in SUBSET (1..n)
  PROVE  /\ A = {} => Told(A \cup {n + 1}) = First(n + 1)
         /\ A # {} => Told(A \cup {n + 1}) = Following(n + 1, Told(A))
<1> DEFINE B == A \cup {n + 1}
<1>1. B \in SUBSET Nat /\ B # {} /\ \A x \in B : x <= n + 1
  OBVIOUS
<1>2. Max(B) \in B /\ \A y \in B : y <= Max(B)
  BY <1>1, Largest
<1>3. Max(B) = n + 1
  <2> DEFINE x == Max(B)
  <2>1. x \in Nat /\ x <= n + 1 /\ n + 1 <= x
    BY <1>1, <1>2
  <2> HIDE DEF x
  <2>2. x = n + 1
    BY <2>1
  <2> QED
    BY <2>2 DEF x
<1>4. IsFiniteSet(A) /\ n + 1 \notin A
  <2>1. IsFiniteSet(1..n)
    BY FS_Interval
  <2>2. IsFiniteSet(A)
    BY <2>1, FS_Subset
  <2> QED
    BY <2>2
<1>5. Cardinality(B) = Cardinality(A) + 1
  BY <1>4, FS_AddElement
<1>6. Min(B) \in B /\ \A y \in B : Min(B) <= y
  BY <1>1, Lowest
<1>7. ASSUME A = {} PROVE Told(B) = First(n + 1)
  <2>1. Cardinality(A) = 0
    BY <1>7, FS_EmptySet
  <2>2. Cardinality(B) = 1 /\ Min(B) = n + 1
    BY <1>5, <1>6, <1>7, <2>1
  <2> QED
    BY <1>3, <2>2 DEF Told, First
<1>8. ASSUME A # {} PROVE Told(B) = Following(n + 1, Told(A))
  <2>1. A \in SUBSET Nat
    OBVIOUS
  <2>2. Min(A) \in A /\ \A y \in A : Min(A) <= y
    BY <1>8, <2>1, Lowest
  <2>3. Min(B) = Min(A)
    <3> DEFINE a == Min(A)
               b == Min(B)
    <3>1. a \in A /\ (\A y \in A : a <= y) /\ b \in B /\ (\A y \in B : b <= y)
      BY <1>6, <2>2
    <3> HIDE DEF a, b
    <3>2. a \in Nat /\ a <= n /\ b \in Nat /\ b <= a /\ (b \in A \/ b = n + 1)
      BY <3>1
    <3>3. b = a
      BY <3>1, <3>2
    <3> QED
      BY <3>3 DEF a, b
  <2>4. Told(A).created = Min(A) /\ Told(A).version = Cardinality(A)
    BY DEF Told
  <2> QED
    BY <1>3, <1>5, <2>3, <2>4 DEF Told, Following
<1> QED
  BY <1>7, <1>8

LEMMA SeenIs ==
  ASSUME NEW H, NEW n, NEW k, NEW at
  PROVE  LET A == Alive(H, n, k, at) IN
         /\ A = {} => Seen(H, n, k, at) = {}
         /\ A # {} => Seen(H, n, k, at) = { Told(A) }
  BY DEF Seen

LEMMA KnownNext ==
  ASSUME NEW H, NEW n \in Nat, Plain(H, n + 1), NEW f \in Nat, f <= n,
         NEW idx, NEW idx2, Known(idx, H, n, f), KeyOf(H, n + 1) \in Key,
         Advances(HistoryOf(idx, KeyOf(H, n + 1)), HistoryOf(idx2, KeyOf(H, n + 1)), n, DeadOf(H, n + 1)),
         \A k : k # KeyOf(H, n + 1) => HistoryOf(idx2, k) = HistoryOf(idx, k)
  PROVE  Known(idx2, H, n + 1, f)
<1> DEFINE k0 == KeyOf(H, n + 1)
           dead == DeadOf(H, n + 1)
<1> SUFFICES ASSUME NEW k \in Key, NEW at \in Nat, at >= f
             PROVE  Found(HistoryOf(idx2, k), at) = Seen(H, n + 1, k, at)
  BY DEF Known
<1>1. Found(HistoryOf(idx, k), at) = Seen(H, n, k, at)
  BY DEF Known
<1>2. Plain(H, n)
  BY AliveNext
<1>3. CASE k # k0
  <2>1. Alive(H, n + 1, k, at) = Alive(H, n, k, at)
    BY <1>3, AliveNext
  <2> QED
    BY <1>1, <1>3, <2>1 DEF Seen
<1>4. CASE k = k0 /\ at <= n
  <2>1. Alive(H, n + 1, k, at) = Alive(H, n, k, at)
    BY <1>4, AliveNext
  <2>2. Found(HistoryOf(idx2, k), at) = Found(HistoryOf(idx, k), at)
    BY <1>4 DEF Advances
  <2> QED
    BY <1>1, <2>1, <2>2 DEF Seen
<1>5. CASE k = k0 /\ at > n /\ dead
  <2>1. Alive(H, n + 1, k, at) = {}
    BY <1>5, AliveNext
  <2>2. Found(HistoryOf(idx2, k), at) = {}
    BY <1>5 DEF Advances
  <2> QED
    BY <2>1, <2>2, SeenIs
<1>6. CASE k = k0 /\ at > n /\ ~dead
  <2> DEFINE A == Alive(H, n, k, n)
             x == Told(A)
  <2>1. Alive(H, n + 1, k, at) = A \cup {n + 1}
    <3>1. at > n /\ k = KeyOf(H, n + 1) /\ ~DeadOf(H, n + 1)
      BY <1>6
    <3> HIDE DEF A, x
    <3>2. Alive(H, n + 1, k, at) = Alive(H, n, k, n) \cup {n + 1}
      BY <3>1, AliveNext, SMTT(60)
    <3> QED
      BY <3>2 DEF A
  <2>2. Found(HistoryOf(idx, k), n) = Seen(H, n, k, n)
    BY DEF Known
  <2>3. A \in SUBSET (1..n)
    BY DEF Alive
  <2>4. Seen(H, n + 1, k, at) = { Told(A \cup {n + 1}) }
    BY <2>1, SeenIs
  <2>5. /\ Found(HistoryOf(idx, k), n) = {} => Found(HistoryOf(idx2, k), at) = { First(n + 1) }
        /\ \A y \in Found(HistoryOf(idx, k), n) :
             Found(HistoryOf(idx2, k), at) = { Following(n + 1, y) }
    BY <1>6 DEF Advances
  <2> HIDE DEF A
  <2>6. CASE A = {}
    BY <2>2, <2>3, <2>4, <2>5, <2>6, SeenIs, ToldNext DEF A
  <2>7. CASE A # {}
    <3>1. Seen(H, n, k, n) = {x}
      BY <2>7, SeenIs DEF A
    <3>2. Found(HistoryOf(idx2, k), at) = { Following(n + 1, x) }
      BY <2>2, <2>5, <3>1
    <3> QED
      BY <2>3, <2>4, <2>7, <3>2, ToldNext
  <2> QED
    BY <2>6, <2>7
<1> QED
  BY <1>3, <1>4, <1>5, <1>6

LEMMA BatchKnown ==
  ASSUME NEW batch \in Seq(Mutation), NEW R, NEW c \in Nat, RecordsOf(R, c + Len(batch)),
         Batched(R, c, batch), NEW H, Continues(H, c, c, batch), Plain(H, c), NEW f \in Nat, f <= c,
         NEW idx, Indexes(idx, R, c), NEW idx2, NEW g, Fold(g, idx, idx2, R, c, Len(batch)),
         Known(idx, H, c, f)
  PROVE  Known(idx2, H, c + Len(batch), f) /\ Plain(H, c + Len(batch))
<1> DEFINE n == Len(batch)
           P == { i \in 0..n : Known(g[i], H, c + i, f) /\ Plain(H, c + i) }
<1>1. n \in Nat /\ RecordsOf(R, c + n) /\ c + n \in Nat
  OBVIOUS
<1>2. ASSUME NEW i \in 1..n, i - 1 \in P PROVE i \in P
  <2> DEFINE r == c + (i - 1)
             m == batch[i]
  <2>0. /\ r \in Nat /\ r + 1 = c + i /\ m \in Mutation /\ WriteJoins(R, H, r, r, m)
    BY BatchStep
  <2>2. /\ Indexes(g[i - 1], R, r) /\ Joins(g[i - 1], g[i], R, r)
    <3> HIDE DEF n
    <3>1. Fold(g, idx, idx2, R, c, n)
      BY DEF n
    <3> QED
      BY <1>1, <3>1, FoldSteps
  <2>3. Known(g[i - 1], H, r, f) /\ Plain(H, r)
    BY <1>2
  <2>4. i \in 0..n /\ f <= r
    OBVIOUS
  <2> HIDE DEF r, m, n
  <2>1. /\ RevOf(H, r + 1) = r + 1 /\ MutOf(H, r + 1) = m
        /\ \E d \in BOOLEAN : /\ <<r + 1, d>> \in DOMAIN R /\ m = R[<<r + 1, d>>]
                              /\ Rec(R, m.key, r + 1, d) /\ d = IsTombstone(m)
    BY <2>0 DEF WriteJoins
  <2>5. PICK d \in BOOLEAN : /\ Rec(R, m.key, r + 1, d) /\ d = IsTombstone(m)
    BY <2>1
  <2> DEFINE a == g[i - 1]
             b == g[i]
             k0 == m.key
  <2>6. k0 \in Key
    BY <2>0 DEF Mutation
  <2>7. /\ Advances(HistoryOf(a, k0), HistoryOf(b, k0), r, d)
        /\ \A j : j # k0 => HistoryOf(b, j) = HistoryOf(a, j)
    BY <2>2, <2>5 DEF Joins
  <2>8. KeyOf(H, r + 1) = k0 /\ DeadOf(H, r + 1) = d
    BY <2>1, <2>5 DEF KeyOf, DeadOf, MutOf
  <2>9. Plain(H, r + 1)
    <3>1. \A j \in 1..r + 1 : j \in 1..r \/ j = r + 1
      BY <2>0
    <3> QED
      BY <2>1, <2>3, <3>1 DEF Plain
  <2>10. Known(a, H, r, f)
    BY <2>3 DEF a
  <2> HIDE DEF a, b, k0
  <2>11. Known(b, H, r + 1, f)
    BY <2>0, <2>4, <2>6, <2>7, <2>8, <2>9, <2>10, KnownNext
  <2> QED
    BY <2>0, <2>4, <2>9, <2>11 DEF b
<1>3. 0 \in P
  <2>1. g[0] = idx /\ c + 0 = c /\ 0 \in 0..n
    BY DEF Fold
  <2> QED
    BY <2>1
<1>4. n \in P
  <2> HIDE DEF P, n
  <2>1. n \in 0..n
    BY <1>1
  <2> QED
    BY <1>1, <1>2, <1>3, <2>1, Climb
<1>5. g[n] = idx2
  BY DEF Fold
<1> QED
  BY <1>4, <1>5

(* Before any crash the store has lost nothing, and the index knows every  *)
(* incarnation.                                                            *)
WholeInv ==
  spent["crash"] = 0 =>
    /\ pc # "down" /\ current = Len(hist) /\ floor <= current
    /\ Plain(hist, Len(hist)) /\ Known(index, hist, Len(hist), floor)

LEMMA KnownSame ==
  ASSUME NEW idx, NEW H, NEW n \in Nat, NEW f \in Nat, Known(idx, H, n, f), Plain(H, n),
         NEW H2, \A i \in 1..n : H2[i] = H[i]
  PROVE  Known(idx, H2, n, f) /\ Plain(H2, n)
<1>1. \A i \in 1..n : KeyOf(H2, i) = KeyOf(H, i) /\ RevOf(H2, i) = RevOf(H, i) /\ DeadOf(H2, i) = DeadOf(H, i)
  BY DEF KeyOf, RevOf, DeadOf
<1>2. \A k, at : Alive(H2, n, k, at) = Alive(H, n, k, at)
  BY <1>1 DEF Alive
<1> QED
  BY <1>1, <1>2 DEF Known, Seen, Plain

LEMMA StartWhole ==
  ASSUME Init PROVE WholeInv
<1>1. pc = "open" /\ index = EmptyIndex /\ current = 0 /\ hist = <<>> /\ floor = 0
  BY DEF Init
<1>2. Len(hist) = 0 /\ Plain(hist, 0)
  BY <1>1 DEF Plain
<1>3. ASSUME NEW k \in Key, NEW at \in Nat
      PROVE  Found(HistoryOf(index, k), at) = Seen(hist, 0, k, at)
  <2>1. HistoryOf(index, k) = <<>>
    BY <1>1 DEF EmptyIndex, HistoryOf
  <2>2. Found(<<>>, at) = {}
    BY EmptyOrdered, FoundLatest DEF LatestOf
  <2>3. Alive(hist, 0, k, at) = {}
    BY DEF Alive
  <2> QED
    BY <2>1, <2>2, <2>3, SeenIs
<1> QED
  BY <1>1, <1>2, <1>3 DEF WholeInv, Known

LEMMA ApplyWhole ==
  ASSUME StoreInv, NEW batch \in Seq(Mutation), NEW upto \in Nat, Apply(batch, upto), WholeInv
  PROVE  WholeInv'
<1> DEFINE c == current
           n == Len(batch)
           N == Len(hist)
           R == backend'.records
<1>1. /\ n \in Nat /\ c \in Nat /\ RecordsOf(R, c + n) /\ Batched(R, c, batch)
      /\ Len(hist') = N + n /\ \A i \in 1..N : hist'[i] = hist[i]
      /\ Continues(hist', N, c, batch)
      /\ Indexes(index, R, c) /\ Folds(index, index', R, c, n)
  BY BatchApplied
<1>2. /\ pc = "open" /\ pc' = pc /\ current' = c + n /\ floor' = floor /\ spent' = spent /\ floor \in Nat
  BY ExactParts DEF Apply
<1> SUFFICES ASSUME spent["crash"] = 0
             PROVE  /\ pc' # "down" /\ current' = Len(hist') /\ floor <= current'
                    /\ Plain(hist', Len(hist')) /\ Known(index', hist', Len(hist'), floor)
  BY <1>2 DEF WholeInv
<1>3. c = N /\ floor <= c /\ Plain(hist, N) /\ Known(index, hist, N, floor)
  BY DEF WholeInv
<1> HIDE DEF c, n, N, R
<1>4. PICK g : Fold(g, index, index', R, c, n)
  BY <1>1 DEF Folds
<1>5. Known(index, hist', c, floor) /\ Plain(hist', c)
  BY <1>1, <1>2, <1>3, KnownSame
<1>6. Known(index', hist', c + n, floor) /\ Plain(hist', c + n)
  BY <1>1, <1>2, <1>3, <1>4, <1>5, BatchKnown DEF n
<1> QED
  BY <1>1, <1>2, <1>3, <1>6

LEMMA BeginsWhole ==
  ASSUME StoreInv, NEW at \in Nat, CompactBegins(at), WholeInv PROVE WholeInv'
<1>1. /\ pc = "open" /\ pc' = "compacting" /\ index' = IndexCompact(index, at)
      /\ floor' = Max({floor, at}) /\ hist' = hist /\ current' = current
      /\ at <= current /\ Spent("compactions")
  BY DEF CompactBegins, Readable
<1>2. spent'["crash"] = spent["crash"]
  BY <1>1, CountedKinds, SpentCounts DEF StoreInv, TypesHold
<1>3. floor \in Nat /\ current \in Nat
  BY DEF StoreInv, TypesHold
<1>4. floor' \in Nat /\ floor' >= at /\ floor' >= floor /\ floor' \in {floor, at}
  BY <1>1, <1>3, HigherOf
<1>5. \A k \in Key : \A a \in Nat : a >= at =>
        Found(HistoryOf(index', k), a) = Found(HistoryOf(index, k), a)
  BY <1>1, <1>3, OpenLeft, CompactDrops
<1>6. Known(index, hist, Len(hist), floor) => Known(index', hist, Len(hist), floor')
  <2> SUFFICES ASSUME Known(index, hist, Len(hist), floor), NEW k \in Key, NEW a \in Nat, a >= floor'
               PROVE  Found(HistoryOf(index', k), a) = Seen(hist, Len(hist), k, a)
    BY DEF Known
  <2>1. a >= at /\ a >= floor
    BY <1>3, <1>4
  <2> QED
    BY <1>5, <2>1 DEF Known
<1> QED
  BY <1>1, <1>2, <1>3, <1>4, <1>6 DEF WholeInv

LEMMA QuietWhole ==
  ASSUME WholeInv, index' = index, hist' = hist, floor' = floor, current' = current,
         spent'["crash"] = spent["crash"], pc # "down" => pc' # "down"
  PROVE  WholeInv'
  BY DEF WholeInv

LEMMA StepWhole ==
  ASSUME StoreInv, WholeInv, [Next]_vars PROVE WholeInv'
<1>1. ASSUME NEW batch \in Batch, Apply(batch, applied + Len(batch)) PROVE WholeInv'
  <2>1. batch \in Seq(Mutation)
    BY DEF Batch
  <2>2. applied + Len(batch) \in Nat
    BY <2>1 DEF StoreInv, TypesHold
  <2> QED
    BY <1>1, <2>1, <2>2, ApplyWhole
<1>2. CASE TransactionFails \/ UNCHANGED vars
  BY <1>2, QuietWhole DEF TransactionFails, vars, stateVars, ghostVars
<1>3. ASSUME NEW at \in 0..MaxWrites, CompactBegins(at) PROVE WholeInv'
  <2>1. at \in Nat
    BY BoundsAssumption
  <2> QED
    BY <1>3, <2>1, BeginsWhole
<1>4. CASE CompactFails
  <2>1. spent'["crash"] = spent["crash"]
    BY <1>4, CountedKinds, FaultCounts DEF CompactFails, StoreInv, TypesHold
  <2> QED
    BY <1>4, <2>1, QuietWhole DEF CompactFails, stateVars, ghostVars
<1>5. CASE Crash
  <2>1. spent'["crash"] = spent["crash"] + 1
    BY <1>5, FaultCounts DEF Crash, StoreInv, TypesHold
  <2> QED
    BY <2>1, SpentParts DEF WholeInv
<1>6. CASE Open
  BY <1>6 DEF Open, WholeInv
<1>7. CASE Checkpoint \/ CompactNext
  BY <1>7, QuietWhole DEF Checkpoint, CompactNext, stateVars, ghostVars
<1>8. CASE CompactEnds
  BY <1>8, QuietWhole DEF CompactEnds
<1> QED
  BY <1>1, <1>2, <1>3, <1>4, <1>5, <1>6, <1>7, <1>8 DEF Next

(* Every state holds WholeInv: the index counts the versions of a live key *)
(* from its creation, however much of it compaction trimmed.               *)
THEOREM WholeInvariant == Spec => []WholeInv
<1>1. Init => StoreInv /\ WholeInv
  BY StartInv, StartWhole
<1>2. StoreInv /\ WholeInv /\ [Next]_vars => StoreInv' /\ WholeInv'
  BY StepInv, StepWhole
<1> QED
  BY <1>1, <1>2, PTL DEF Spec

(* A record read, and the one expected. *)
Full(x, v) ==
  [modified |-> x.modified, created |-> x.created, version |-> x.version, stored |-> v]

LEMMA WholeReads ==
  ASSUME StoreInv, ExactInv, WholeInv, pc = "open", spent["crash"] = 0,
         NEW at \in floor..current, NEW k \in Key
  PROVE  ReadAt(k, at) = Expected(k, at)
<1> DEFINE R == backend.records
           n == Len(hist)
           live == Incarnation(k, at)
           h == HistoryOf(index, k)
<1>1. /\ hist \in Seq(Write) /\ floor \in Nat /\ current \in Nat /\ n \in Nat
      /\ BackedBy(index, R) /\ Left = R
  BY OpenLeft DEF StoreInv, TypesHold
<1>2. at \in Nat /\ at >= floor
  BY <1>1
<1>3. Plain(hist, n) /\ Found(h, at) = Seen(hist, n, k, at)
  BY <1>2 DEF WholeInv, Known
<1>4. Exact(ReadsOf(index), R, hist, n, floor)
  BY <1>1 DEF ExactInv, LivedInv, IndexExact
<1>5. live = Alive(hist, n, k, at)
  BY <1>1, <1>2, IncarnationIs DEF Alive
<1>6. live \subseteq 1..n /\ live \in SUBSET Nat /\ (live # {} => Live(hist, n, k, at, Max(live)))
  BY <1>1, <1>2, LastLive
<1>7. ReadAt(k, at) = { Full(f, Stored(R, f.modified)) : f \in Found(h, at) }
  BY DEF ReadAt, Full
<1>8. CASE live = {}
  <2>1. Found(h, at) = {}
    BY <1>3, <1>5, <1>8, SeenIs
  <2>2. ReadAt(k, at) = {}
    BY <1>7, <2>1
  <2>3. Expected(k, at) = {}
    BY <1>8 DEF Expected
  <2> QED
    BY <2>2, <2>3
<1>9. CASE live # {}
  <2> DEFINE x == Max(live)
             y == Min(live)
  <2>1. x \in 1..n /\ Live(hist, n, k, at, x)
    BY <1>6, <1>9 DEF Live
  <2>2. y \in live /\ y \in 1..n
    BY <1>6, <1>9, Lowest
  <2>3. RevOf(hist, x) = x /\ RevOf(hist, y) = y
    BY <1>3, <2>1, <2>2 DEF Plain
  <2> HIDE DEF x
  <2>4. Stored(R, RevOf(hist, x)) = MutOf(hist, x).value
    BY <1>1, <1>2, <1>4, <2>1, LiveStored
  <2>5. Found(h, at) = { Told(live) }
    BY <1>3, <1>5, <1>9, SeenIs
  <2>6. Told(live) = [modified |-> x, created |-> y, version |-> Cardinality(live)]
    BY DEF Told, x
  <2> HIDE DEF y, h, R, n
  <2> DEFINE t == [modified |-> x, created |-> y, version |-> Cardinality(live)]
  <2>7. ReadAt(k, at) = { Full(t, Stored(R, t.modified)) }
    BY <1>7, <2>5, <2>6
  <2>8. Stored(R, t.modified) = MutOf(hist, x).value
    BY <2>3, <2>4
  <2>9. Expected(k, at) =
          { [modified |-> RevOf(hist, x), created |-> RevOf(hist, y),
             version |-> Cardinality(live), stored |-> MutOf(hist, x).value] }
    <3>1. { Incarnation(k, at) } \ {{}} = { live }
      BY <1>9
    <3> HIDE DEF live
    <3> QED
      BY <3>1 DEF Expected, RevOf, MutOf, x, y
  <2>10. Full(t, MutOf(hist, x).value) =
          [modified |-> x, created |-> y, version |-> Cardinality(live), stored |-> MutOf(hist, x).value]
    BY DEF Full
  <2> QED
    BY <2>3, <2>7, <2>8, <2>9, <2>10
<1> QED
  BY <1>8, <1>9

(* A read of a live key in a store that did not reopen returns its         *)
(* creation and its version, also when compaction trimmed the writes they  *)
(* count from, and whatever compaction failed.                             *)
THEOREM IncarnationAlwaysKept == Spec => []IncarnationKept
<1>1. StoreInv /\ ExactInv /\ WholeInv => IncarnationKept
  BY WholeReads DEF IncarnationKept
<1> QED
  BY <1>1, StoreInvariant, ExactInvariant, WholeInvariant, PTL

-----------------------------------------------------------------------------
(* Positions: what was applied is the history, and what a checkpoint       *)
(* returned no commit falls short of.                                      *)

PositionsInv ==
  /\ pc # "down" => applied = Len(hist)
  /\ Len(hist) <= MaxWrites /\ floor <= MaxWrites
  /\ \A i \in 1..Len(commits) : /\ AppliedAt(commits, i) = LengthOf(commits, i)
                                /\ flushed <= LengthOf(commits, i)
  /\ \A i \in 1..Len(hist) : RevOf(hist, i) <= i

LEMMA StartPositions ==
  ASSUME Init PROVE PositionsInv
<1>1. /\ commits = CreateTable([length |-> 0, backend |-> EmptyBackend]) /\ hist = <<>>
      /\ floor = 0 /\ applied = 0 /\ flushed = 0
  BY DEF Init
<1>2. Len(commits) = 1 /\ LengthOf(commits, 1) = 0 /\ AppliedAt(commits, 1) = 0
  BY <1>1, StartRecords DEF CreateTable, LengthOf, AppliedAt
<1>3. \A i \in 1..Len(commits) : i = 1
  BY <1>2
<1> QED
  BY <1>1, <1>2, <1>3, BoundsAssumption DEF PositionsInv

LEMMA PositionsParts ==
  ASSUME StoreInv, PositionsInv
  PROVE  /\ backend.applied = Len(hist) /\ flushed <= Len(hist) /\ Len(hist) \in Nat
         /\ flushed \in Nat /\ floor \in Nat /\ current \in Nat /\ current <= Len(hist)
         /\ Len(commits) \in Nat
  BY LastRecords, ExactParts DEF PositionsInv, StoreInv, TypesHold, BackendHolds

LEMMA ApplyPositions ==
  ASSUME StoreInv, NEW batch \in Seq(Mutation), Apply(batch, applied + Len(batch)), PositionsInv
  PROVE  PositionsInv'
<1> DEFINE n == Len(batch)
           N == Len(hist)
<1>1. pc = "open" /\ pc' = pc /\ applied' = applied + n /\ floor' = floor /\ flushed' = flushed
      /\ N + n <= MaxWrites
  BY DEF Apply
<1>2. n \in Nat /\ applied \in Nat /\ applied + n \in Nat /\ N \in Nat
  BY PositionsParts DEF StoreInv, TypesHold
<1>3. /\ Len(hist') = N + n /\ (\A i \in 1..N : hist'[i] = hist[i])
      /\ Continues(hist', N, current, batch)
      /\ Len(commits') = Len(commits) + 1
      /\ IsCommit(commits', Len(commits'), Len(hist'), backend'.records, applied + n)
      /\ \A i \in 1..Len(commits) : SameCommit(commits, commits', i)
  BY <1>2, BatchApplied
<1>4. flushed <= N /\ applied = N /\ flushed \in Nat /\ current \in Nat /\ current <= N /\ Len(commits) \in Nat
  BY <1>1, PositionsParts DEF PositionsInv
<1> HIDE DEF n, N
<1>5. ASSUME NEW i \in 1..Len(commits')
      PROVE  AppliedAt(commits', i) = LengthOf(commits', i) /\ flushed <= LengthOf(commits', i)
  <2>1. CASE i \in 1..Len(commits)
    BY <1>3, <2>1 DEF SameCommit, PositionsInv
  <2>2. CASE i = Len(commits')
    BY <1>2, <1>3, <1>4, <2>2 DEF IsCommit
  <2> QED
    BY <1>3, <1>4, <2>1, <2>2
<1>6. ASSUME NEW i \in 1..Len(hist') PROVE RevOf(hist', i) <= i
  <2>1. CASE i \in 1..N
    BY <1>3, <2>1 DEF PositionsInv, RevOf, N
  <2>2. CASE i \notin 1..N
    <3>1. i - N \in 1..n /\ N + (i - N) = i
      BY <1>2, <1>3, <2>2
    <3>2. RevOf(hist', N + (i - N)) = current + (i - N)
      BY <1>3, <3>1 DEF Continues, n
    <3> QED
      BY <1>2, <1>4, <3>1, <3>2
  <2> QED
    BY <2>1, <2>2
<1> QED
  BY <1>1, <1>3, <1>4, <1>5, <1>6 DEF PositionsInv

LEMMA StepPositions ==
  ASSUME StoreInv, PositionsInv, [Next]_vars PROVE PositionsInv'
<1>0. /\ backend.applied = Len(hist) /\ flushed <= Len(hist) /\ Len(hist) \in Nat
      /\ flushed \in Nat /\ floor \in Nat /\ Len(commits) \in Nat
  BY PositionsParts
<1>1. ASSUME NEW batch \in Batch, Apply(batch, applied + Len(batch)) PROVE PositionsInv'
  <2>1. batch \in Seq(Mutation)
    BY DEF Batch
  <2> QED
    BY <1>1, <2>1, ApplyPositions
<1>2. ASSUME hist' = hist, commits' = commits, floor' = floor, flushed' = flushed, applied' = applied,
             pc' # "down" => pc # "down"
      PROVE  PositionsInv'
  BY <1>2 DEF PositionsInv, LengthOf, AppliedAt, RevOf
<1>3. CASE TransactionFails \/ UNCHANGED vars
  BY <1>2, <1>3 DEF TransactionFails, vars, stateVars, ghostVars
<1>4. CASE Checkpoint
  <2> DEFINE N == Len(hist)
  <2>1. RecordsOf(backend.records, N) /\ applied \in Nat
    BY LastRecords DEF StoreInv, TypesHold
  <2>2. /\ commits' = CommitDurable(commits, Snapshot(N, backend.records, applied)) /\ flushed' = applied
        /\ hist' = hist /\ floor' = floor /\ applied' = applied /\ pc = "open" /\ pc' = pc
    BY <1>4 DEF Checkpoint, stateVars
  <2>3. Len(commits') = 1 /\ IsCommit(commits', 1, N, backend.records, applied)
    BY <1>0, <2>1, <2>2, CommitAlone
  <2>4. applied = N
    BY <2>2 DEF PositionsInv
  <2>5. \A i \in 1..Len(commits') : i = 1
    BY <2>3
  <2> QED
    BY <1>0, <2>2, <2>3, <2>4, <2>5 DEF PositionsInv, IsCommit, RevOf
<1>5. ASSUME NEW at \in 0..MaxWrites, CompactBegins(at) PROVE PositionsInv'
  <2>1. at \in Nat /\ at <= MaxWrites /\ MaxWrites \in Nat
    BY BoundsAssumption
  <2>2. /\ hist' = hist /\ commits' = commits /\ floor' = Max({floor, at}) /\ flushed' = flushed
        /\ applied' = applied /\ pc = "open"
    BY <1>5 DEF CompactBegins
  <2>3. floor' \in {floor, at}
    BY <1>0, <2>1, <2>2, HigherOf
  <2>4. floor' <= MaxWrites
    BY <2>1, <2>3 DEF PositionsInv
  <2> QED
    BY <2>2, <2>4 DEF PositionsInv, LengthOf, AppliedAt, RevOf
<1>6. CASE CompactNext
  <2>1. /\ hist' = hist /\ floor' = floor /\ flushed' = flushed /\ applied' = applied /\ pc' = pc
    BY <1>6 DEF CompactNext, stateVars, ghostVars
  <2>2. \E R2 : /\ Len(commits') = Len(commits) + 1
                /\ IsCommit(commits', Len(commits'), Len(hist), R2, backend.applied)
                /\ \A i \in 1..Len(commits) : SameCommit(commits, commits', i)
    BY <1>6, ChunkParts
  <2>3. ASSUME NEW i \in 1..Len(commits')
        PROVE  AppliedAt(commits', i) = LengthOf(commits', i) /\ flushed <= LengthOf(commits', i)
    <3>1. CASE i \in 1..Len(commits)
      BY <2>2, <3>1 DEF SameCommit, PositionsInv
    <3>2. CASE i = Len(commits')
      BY <1>0, <2>2, <3>2 DEF IsCommit
    <3> QED
      BY <1>0, <2>2, <3>1, <3>2
  <2> QED
    BY <2>1, <2>3 DEF PositionsInv, RevOf
<1>7. CASE CompactFails
  BY <1>2, <1>7 DEF CompactFails, stateVars, ghostVars
<1>8. CASE CompactEnds
  BY <1>2, <1>8 DEF CompactEnds
<1>9. CASE Crash
  <2>1. PICK i \in DOMAIN commits : FallTo(i)
    BY <1>9 DEF Crash
  <2> DEFINE n == LengthOf(commits, i)
  <2>2. /\ n \in 0..Len(hist) /\ Len(commits') = i
        /\ \A j \in 1..i : j \in 1..Len(commits) /\ SameCommit(commits, commits', j)
        /\ Len(hist') = n /\ \A j \in 1..n : hist'[j] = hist[j]
    BY <2>1, FallParts
  <2>3. pc' = "down" /\ floor' = floor /\ flushed' = flushed
    BY <2>1 DEF FallTo
  <2> HIDE DEF n
  <2>4. Len(hist') <= MaxWrites
    BY <1>0, <2>2, BoundsAssumption DEF PositionsInv
  <2>5. \A j \in 1..Len(hist') : RevOf(hist', j) <= j
    BY <1>0, <2>2 DEF PositionsInv, RevOf
  <2>6. \A j \in 1..Len(commits') : AppliedAt(commits', j) = LengthOf(commits', j) /\ flushed <= LengthOf(commits', j)
    BY <2>2 DEF PositionsInv, SameCommit
  <2> QED
    BY <2>3, <2>4, <2>5, <2>6 DEF PositionsInv
<1>10. CASE Open
  BY <1>0, <1>10 DEF Open, ghostVars, PositionsInv, LengthOf, AppliedAt, RevOf
<1> QED
  BY <1>1, <1>3, <1>4, <1>5, <1>6, <1>7, <1>8, <1>9, <1>10 DEF Next

(* Every commit's position is the number of writes it stands for, and none *)
(* falls short of what a checkpoint returned.                              *)
THEOREM PositionsInvariant == Spec => []PositionsInv
<1>1. Init => StoreInv /\ PositionsInv
  BY StartInv, StartPositions
<1>2. StoreInv /\ PositionsInv /\ [Next]_vars => StoreInv' /\ PositionsInv'
  BY StepInv, StepPositions
<1> QED
  BY <1>1, <1>2, PTL DEF Spec

-----------------------------------------------------------------------------
(* Latest values.                                                          *)

(* The last of n writes of a key. *)
WritesOf(H, n, k) == { i \in 1..n : KeyOf(H, i) = k }
Latest(H, n, k) ==
  IF WritesOf(H, n, k) = {} THEN Deleted ELSE MutOf(H, Max(WritesOf(H, n, k))).value

LEMMA LatestLive ==
  ASSUME hist \in Seq(Write), NEW at \in Nat, \A i \in 1..Len(hist) : RevOf(hist, i) <= at, NEW k
  PROVE  /\ \A i \in 1..Len(hist) : Live(hist, Len(hist), k, at, i) =>
              Latest(hist, Len(hist), k) = MutOf(hist, i).value
         /\ (\A i \in 1..Len(hist) : ~Live(hist, Len(hist), k, at, i)) =>
              Latest(hist, Len(hist), k) = Deleted
<1> DEFINE n == Len(hist)
           S == WritesOf(hist, n, k)
           x == Max(S)
<1>1. n \in Nat /\ S \in SUBSET Nat /\ \A i \in S : i <= n
  BY DEF WritesOf
<1>2. S # {} => x \in S /\ \A y \in S : y <= x
  BY <1>1, Largest
<1>3. \A i : i \in S <=> i \in 1..n /\ KeyOf(hist, i) = k
  BY DEF WritesOf
<1>4. \A i \in 1..n : DeadOf(hist, i) <=> MutOf(hist, i).value = Deleted
  BY DEF DeadOf, MutOf, IsTombstone
<1>5. Latest(hist, n, k) = IF S = {} THEN Deleted ELSE MutOf(hist, x).value
  BY DEF Latest
<1>6. \A i : Live(hist, n, k, at, i) <=>
        i \in 1..n /\ KeyOf(hist, i) = k /\ ~DeadOf(hist, i) /\ \A j \in i + 1..n : KeyOf(hist, j) # k
  <2>1. \A i \in 1..n : \A j \in i + 1..n : j \in 1..n
    BY <1>1
  <2> QED
    BY <2>1 DEF Live
<1> HIDE DEF n, S, x
<1>7. ASSUME NEW i \in 1..n, Live(hist, n, k, at, i) PROVE Latest(hist, n, k) = MutOf(hist, i).value
  <2>1. i \in S
    BY <1>3, <1>6, <1>7
  <2>2. x \in S /\ i <= x /\ x \in 1..n /\ KeyOf(hist, x) = k
    BY <1>2, <1>3, <2>1
  <2>3. ~(x \in i + 1..n)
    BY <1>6, <1>7, <2>2
  <2>4. x = i
    BY <1>1, <2>2, <2>3
  <2> QED
    BY <1>5, <2>1, <2>4
<1>8. ASSUME \A i \in 1..n : ~Live(hist, n, k, at, i) PROVE Latest(hist, n, k) = Deleted
  <2>1. CASE S = {}
    BY <1>5, <2>1
  <2>2. CASE S # {}
    <3>1. x \in 1..n /\ KeyOf(hist, x) = k /\ \A y \in S : y <= x
      BY <1>2, <1>3, <2>2
    <3>2. \A j \in x + 1..n : KeyOf(hist, j) # k
      <4> SUFFICES ASSUME NEW j \in x + 1..n, KeyOf(hist, j) = k PROVE FALSE
        OBVIOUS
      <4>1. j \in 1..n /\ ~(j <= x)
        BY <1>1, <3>1
      <4> QED
        BY <1>3, <3>1, <4>1
    <3>3. DeadOf(hist, x)
      BY <1>6, <1>8, <3>1, <3>2
    <3> QED
      BY <1>4, <1>5, <2>2, <3>1, <3>3
  <2> QED
    BY <2>1, <2>2
<1> QED
  BY <1>7, <1>8 DEF n

(* An open store, or one that compacts, reads exactly what its backend     *)
(* still holds.                                                            *)
LEMMA RunningExact ==
  ASSUME StoreInv, pc # "down", IndexExact
  PROVE  /\ BackedBy(index, backend.records)
         /\ Exact(ReadsOf(index), backend.records, hist, Len(hist), floor)
<1> DEFINE R == backend.records
           N == Len(hist)
<1>1. /\ floor \in Nat /\ N \in Nat /\ \A i \in 1..N : RevOf(hist, i) \in Nat
  BY ExactParts
<1>2. RecordsOf(R, current) /\ current \in Nat /\ BackedBy(index, Left)
  BY DEF StoreInv, BackendHolds, TypesHold, IndexHolds
<1>3. \A k, q : PutAt(Left, k, q) => StoredAs(Left, q) = StoredAs(R, q)
  BY <1>2, WithoutIs DEF Left
<1>4. \A k \in Key : \A a \in Nat : \A q \in Nat : In(ReadsOf(index), k, a, q) => PutAt(Left, k, q)
  BY <1>2, ReadsHold DEF Holds
<1>5. BackedBy(index, R)
  BY <1>2, BackedMore DEF Left
<1> HIDE DEF R, N
<1>6. Exact(ReadsOf(index), Left, hist, N, floor)
  BY DEF IndexExact, N
<1>7. Exact(ReadsOf(index), R, hist, N, floor)
  BY <1>1, <1>3, <1>4, <1>6, ExactSame
<1> QED
  BY <1>5, <1>7 DEF R, N

LEMMA LatestReadIs ==
  ASSUME StoreInv, PositionsInv, pc # "down", IndexExact, NEW k \in Key
  PROVE  LatestRead[k] = Latest(hist, Len(hist), k)
<1> DEFINE R == backend.records
           n == Len(hist)
           h == HistoryOf(index, k)
           found == Found(h, MaxWrites)
           f == CHOOSE x \in found : TRUE
<1>1. LatestRead[k] = IF found = {} THEN Deleted ELSE Stored(R, f.modified)
  BY DEF LatestRead
<1>2. /\ BackedBy(index, R) /\ Exact(ReadsOf(index), R, hist, n, floor) /\ hist \in Seq(Write)
      /\ floor \in Nat /\ MaxWrites \in Nat /\ MaxWrites >= floor /\ n \in Nat
  BY RunningExact, BoundsAssumption DEF StoreInv, TypesHold, PositionsInv
<1>3. \A i \in 1..n : RevOf(hist, i) \in Nat /\ RevOf(hist, i) <= MaxWrites
  BY <1>2, ExactParts DEF PositionsInv
<1>4. \A q \in Nat : Finds(h, MaxWrites, q) <=>
                       \E i \in 1..n : Live(hist, n, k, MaxWrites, i) /\ RevOf(hist, i) = q
  BY <1>2, InReads DEF Exact
<1>5. Ordered(h)
  BY <1>2 DEF BackedBy
<1>6. /\ \A x \in found : Finds(h, MaxWrites, x.modified)
      /\ \A q : Finds(h, MaxWrites, q) => \E x \in found : x.modified = q
      /\ \A q : Finds(h, MaxWrites, q) => q \in Nat
  BY <1>2, <1>5, FindsFound, FindsPuts
<1>7. /\ \A i \in 1..n : Live(hist, n, k, MaxWrites, i) =>
              Latest(hist, n, k) = MutOf(hist, i).value /\ Stored(R, RevOf(hist, i)) = MutOf(hist, i).value
      /\ (\A i \in 1..n : ~Live(hist, n, k, MaxWrites, i)) => Latest(hist, n, k) = Deleted
  BY <1>2, <1>3, LatestLive, LiveStored
<1>8. found # {} => f \in found
  OBVIOUS
<1> HIDE DEF R, n, h, found, f
<1>9. CASE found = {}
  <2>1. \A i \in 1..n : ~Live(hist, n, k, MaxWrites, i)
    BY <1>3, <1>4, <1>6, <1>9
  <2> QED
    BY <1>1, <1>7, <1>9, <2>1 DEF n
<1>10. CASE found # {}
  <2>1. Finds(h, MaxWrites, f.modified) /\ f.modified \in Nat
    BY <1>6, <1>8, <1>10
  <2>2. PICK i \in 1..n : Live(hist, n, k, MaxWrites, i) /\ RevOf(hist, i) = f.modified
    BY <1>4, <2>1
  <2> QED
    BY <1>1, <1>7, <1>10, <2>2 DEF n
<1> QED
  BY <1>9, <1>10

(* The records of a key, and the last of them.                             *)
RecordsFor(R, k) == { r \in DOMAIN R : R[r].key = k }
LastOf(of) == CHOOSE r \in of : \A q \in of : q[1] <= r[1]

LEMMA LastRecord ==
  ASSUME NEW R, NEW n \in Nat, RecordsOf(R, n), NEW k, RecordsFor(R, k) # {}
  PROVE  \E u \in 1..n : \E d \in BOOLEAN :
           /\ LastOf(RecordsFor(R, k)) = <<u, d>>
           /\ Rec(R, k, u, d) /\ \A v : \A b \in BOOLEAN : Rec(R, k, v, b) => v <= u
<1> DEFINE of == RecordsFor(R, k)
           S == { p[1] : p \in of }
           r == LastOf(of)
<1>1. \A p \in of : p \in DOMAIN R /\ R[p].key = k /\ p[1] \in 1..n /\ p[2] \in BOOLEAN /\ p = <<p[1], p[2]>>
  BY RecordKeys DEF RecordsFor
<1>2. S \in SUBSET Nat /\ S # {} /\ \A x \in S : x <= n
  BY <1>1
<1> HIDE DEF S
<1>3. Max(S) \in S /\ \A y \in S : y <= Max(S)
  BY <1>2, Largest
<1>4. \E p \in of : \A q \in of : q[1] <= p[1]
  <2>1. PICK p \in of : p[1] = Max(S)
    BY <1>3 DEF S
  <2>2. \A q \in of : q[1] \in S
    BY DEF S
  <2> QED
    BY <1>3, <2>1, <2>2
<1>5. r \in of /\ \A q \in of : q[1] <= r[1]
  BY <1>4 DEF LastOf
<1> HIDE DEF r
<1>6. Rec(R, k, r[1], r[2])
  BY <1>1, <1>5 DEF Rec
<1>7. ASSUME NEW v, NEW b \in BOOLEAN, Rec(R, k, v, b) PROVE v <= r[1]
  <2>1. <<v, b>> \in of /\ <<v, b>>[1] = v
    BY <1>7 DEF Rec, RecordsFor
  <2> QED
    BY <1>5, <2>1
<1>8. \E u \in 1..n : \E d \in BOOLEAN :
           r = <<u, d>> /\ Rec(R, k, u, d) /\ \A v : \A b \in BOOLEAN : Rec(R, k, v, b) => v <= u
  BY <1>1, <1>5, <1>6, <1>7
<1> QED
  BY <1>8 DEF r

LEMMA LatestStoredIs ==
  ASSUME StoreInv, PositionsInv, StoredExact, NEW k \in Key
  PROVE  LatestStored(backend.records)[k] = Latest(hist, Len(hist), k)
<1> DEFINE R == backend.records
           n == Len(hist)
           of == RecordsFor(R, k)
           last == LastOf(of)
           at == MaxWrites
<1>1. LatestStored(R)[k] = IF of = {} THEN Deleted ELSE R[last].value
  BY DEF LatestStored, RecordsFor, LastOf
<1>2. /\ Exact(CurrentOf(R), R, hist, n, floor) /\ hist \in Seq(Write) /\ RecordsOf(R, n)
      /\ floor \in Nat /\ at \in Nat /\ at >= floor /\ n \in Nat /\ n <= at
  BY ExactParts, LastRecords, BoundsAssumption DEF StoreInv, TypesHold, PositionsInv
<1>3. \A i \in 1..n : RevOf(hist, i) \in Nat /\ RevOf(hist, i) <= at
  BY <1>2, ExactParts DEF PositionsInv
<1>4. /\ \A q \in Nat : Current(R, k, at, q) <=>
                       \E i \in 1..n : Live(hist, n, k, at, i) /\ RevOf(hist, i) = q
      /\ \A i \in 1..n : Live(hist, n, k, at, i) => MutOf(hist, i) = StoredAs(R, RevOf(hist, i))
  BY <1>2, InCurrent DEF Exact
<1>5. /\ \A i \in 1..n : Live(hist, n, k, at, i) => Latest(hist, n, k) = MutOf(hist, i).value
      /\ (\A i \in 1..n : ~Live(hist, n, k, at, i)) => Latest(hist, n, k) = Deleted
  BY <1>2, <1>3, LatestLive
<1> HIDE DEF R, n, at
<1>6. CASE of = {}
  <2>1. \A q : ~PutAt(R, k, q)
    BY <1>6 DEF PutAt, Rec, RecordsFor
  <2>2. \A i \in 1..n : ~Live(hist, n, k, at, i)
    BY <1>3, <1>4, <2>1 DEF Current
  <2> QED
    BY <1>1, <1>5, <1>6, <2>2 DEF R, n
<1>7. CASE of # {}
  <2>0. \E u \in 1..n : \E d \in BOOLEAN :
          last = <<u, d>> /\ Rec(R, k, u, d) /\ \A v : \A b \in BOOLEAN : Rec(R, k, v, b) => v <= u
    BY <1>2, <1>7, LastRecord
  <2> HIDE DEF of, last
  <2>1. PICK u \in 1..n : \E d \in BOOLEAN :
          last = <<u, d>> /\ Rec(R, k, u, d) /\ \A v : \A b \in BOOLEAN : Rec(R, k, v, b) => v <= u
    BY <2>0
  <2>2. PICK d \in BOOLEAN :
          last = <<u, d>> /\ Rec(R, k, u, d) /\ \A v : \A b \in BOOLEAN : Rec(R, k, v, b) => v <= u
    BY <2>1
  <2>3. /\ R[<<u, d>>] \in Mutation /\ (d <=> IsTombstone(R[<<u, d>>]))
        /\ \A j : \A b \in BOOLEAN : Rec(R, j, u, b) => j = k /\ (b <=> d)
    BY <1>2, <2>2, RecParts
  <2>4. \A v : (PutAt(R, k, v) => v <= u) /\ (DelAt(R, k, v) => v <= u)
    <3>1. TRUE \in BOOLEAN /\ FALSE \in BOOLEAN
      OBVIOUS
    <3> QED
      BY <2>2, <3>1, Zenon DEF PutAt, DelAt
  <2>5. u \in Nat /\ u <= at /\ \A v \in u + 1..at : ~(v <= u)
    BY <1>2
  <2>6. CASE d
    <3>1. DelAt(R, k, u)
      BY <2>2, <2>6, Zenon DEF DelAt
    <3>2. ~PutAt(R, k, u)
      <4>1. FALSE \in BOOLEAN
        OBVIOUS
      <4> QED
        BY <2>3, <2>6, <4>1, Zenon DEF PutAt
    <3>3. \A q \in Nat : ~Current(R, k, at, q)
      <4> SUFFICES ASSUME NEW q \in Nat, Current(R, k, at, q) PROVE FALSE
        OBVIOUS
      <4>1. PutAt(R, k, q) /\ \A v \in q + 1..at : ~DelAt(R, k, v)
        BY DEF Current
      <4>2. q <= u /\ q # u
        BY <2>4, <3>2, <4>1
      <4>3. u \in q + 1..at
        BY <1>2, <2>5, <4>2
      <4> QED
        BY <3>1, <4>1, <4>3
    <3>4. \A i \in 1..n : ~Live(hist, n, k, at, i)
      BY <1>3, <1>4, <3>3
    <3>5. R[last].value = Deleted
      BY <2>2, <2>3, <2>6 DEF IsTombstone
    <3> QED
      BY <1>1, <1>5, <1>7, <3>4, <3>5 DEF R, n
  <2>7. CASE ~d
    <3>0. last = <<u, FALSE>> /\ PutAt(R, k, u)
      <4>1. d = FALSE
        BY <2>7
      <4> QED
        BY <2>2, <4>1 DEF PutAt
    <3>1. Current(R, k, at, u)
      BY <2>4, <2>5, <3>0 DEF Current
    <3>2. PICK i \in 1..n : Live(hist, n, k, at, i) /\ RevOf(hist, i) = u
      BY <1>4, <2>5, <3>1
    <3>3. MutOf(hist, i) = R[last]
      BY <1>4, <3>0, <3>2 DEF StoredAs
    <3> QED
      BY <1>1, <1>5, <1>7, <3>2, <3>3 DEF R, n
  <2> QED
    BY <2>6, <2>7
<1> QED
  BY <1>6, <1>7

-----------------------------------------------------------------------------
(* The store implements AppliedStore.                                      *)

AppliedLog == [i \in 1..(IF pc = "down" THEN backend.applied ELSE applied) |-> hist[i].mutation]
AppliedValues == IF pc = "down" THEN LatestStored(backend.records) ELSE LatestRead

(* The mutations of n writes. *)
Muts(H, n) == [i \in 1..n |-> MutOf(H, i)]

(* The state the store is mapped to: its values follow from its log. *)
Mapped ==
  /\ AppliedLog = Muts(hist, Len(hist))
  /\ AppliedValues = [k \in Key |-> StoreAsApplied!ValueAfter(AppliedLog, k)]

LEMMA MutsParts ==
  ASSUME NEW H, NEW n \in Nat
  PROVE  /\ Chain(Muts(H, n)) /\ Len(Muts(H, n)) = n
         /\ \A i \in 1..n : Muts(H, n)[i] = MutOf(H, i)
<1> DEFINE s == Muts(H, n)
<1>1. s = [i \in 1..n |-> MutOf(H, i)]
  BY DEF Muts
<1>2. s \in Seq({ s[i] : i \in DOMAIN s }) /\ Len(s) = n
  BY <1>1
<1> QED
  BY <1>1, <1>2 DEF Chain

LEMMA ValueAfterIs ==
  ASSUME NEW H, NEW n \in Nat, NEW k
  PROVE  StoreAsApplied!ValueAfter(Muts(H, n), k) = Latest(H, n, k)
<1> DEFINE s == Muts(H, n)
           S == WritesOf(H, n, k)
<1>1. Len(s) = n /\ \A i \in 1..n : s[i] = MutOf(H, i)
  BY MutsParts
<1>2. { i \in 1..Len(s) : s[i].key = k } = S
  BY <1>1 DEF WritesOf, KeyOf, MutOf
<1>3. StoreAsApplied!ValueAfter(s, k) =
        LET last == IF S # {} THEN Max(S) ELSE 0 IN IF last = 0 THEN Deleted ELSE s[last].value
  BY <1>2 DEF StoreAsApplied!ValueAfter, StoreAsApplied!SelectLastInSeq, StoreAsApplied!Max, Max
<1>4. S \in SUBSET Nat /\ S \in SUBSET (1..n) /\ \A x \in S : x <= n
  BY DEF WritesOf
<1>5. S # {} => Max(S) \in S
  BY <1>4, Largest
<1> HIDE DEF s
<1>6. CASE S = {}
  BY <1>3, <1>6 DEF Latest, s
<1>7. CASE S # {}
  <2>1. Max(S) \in 1..n
    BY <1>4, <1>5, <1>7
  <2>2. Max(S) # 0 /\ s[Max(S)].value = MutOf(H, Max(S)).value
    BY <1>1, <2>1
  <2> QED
    BY <1>3, <1>7, <2>2 DEF Latest, s
<1> QED
  BY <1>6, <1>7

LEMMA IsMapped ==
  ASSUME NoRelapse, StoreInv, ExactInv, BoundsInv, PositionsInv PROVE Mapped
<1> DEFINE n == Len(hist)
<1>1. n \in Nat /\ backend.applied = n
  BY PositionsParts
<1>2. /\ spent["compact"] \in Nat /\ spent["crash"] \in Nat /\ spent["compactions"] \in Nat
      /\ MaxFaults \in Nat /\ MaxCompactions \in Nat
  BY SpentParts, BoundsAssumption
<1>3. Sound \/ spent["crash"] = 0
  BY <1>2 DEF NoRelapse, BoundsInv, Sound
<1>4. AppliedLog = Muts(hist, n)
  BY <1>1 DEF AppliedLog, Muts, MutOf, PositionsInv
<1>5. \A k \in Key : AppliedValues[k] = Latest(hist, n, k)
  <2>1. CASE pc = "down"
    <3>1. StoredExact
      BY <1>3, <2>1 DEF ExactInv, SoundInv, LivedInv
    <3> QED
      BY <2>1, <3>1, LatestStoredIs DEF AppliedValues
  <2>2. CASE pc # "down"
    <3>1. IndexExact
      BY <1>3, <2>2 DEF ExactInv, SoundInv, LivedInv
    <3> QED
      BY <2>2, <3>1, LatestReadIs DEF AppliedValues
  <2> QED
    BY <2>1, <2>2
<1>6. AppliedValues = [k \in Key |-> AppliedValues[k]]
  <2>1. LatestStored(backend.records) = [k \in Key |-> LatestStored(backend.records)[k]]
    BY DEF LatestStored
  <2>2. LatestRead = [k \in Key |-> LatestRead[k]]
    BY DEF LatestRead
  <2>3. CASE pc = "down"
    BY <2>1, <2>3 DEF AppliedValues
  <2>4. CASE pc # "down"
    BY <2>2, <2>4 DEF AppliedValues
  <2> QED
    BY <2>3, <2>4
<1> HIDE DEF n
<1>7. \A k : StoreAsApplied!ValueAfter(AppliedLog, k) = Latest(hist, n, k)
  BY <1>1, <1>4, ValueAfterIs
<1>8. AppliedValues = [k \in Key |-> StoreAsApplied!ValueAfter(AppliedLog, k)]
  BY <1>5, <1>6, <1>7
<1> QED
  BY <1>4, <1>8 DEF Mapped, n

CutTo(t, s, m) == t = SubSeq(s, 1, m)

LEMMA MutsCut ==
  ASSUME NEW G, NEW H, NEW n \in Nat, NEW m \in 0..n, \A i \in 1..m : G[i] = H[i]
  PROVE  CutTo(Muts(G, m), Muts(H, n), m)
<1> DEFINE s == Muts(H, n)
<1>0. Chain(s) /\ Len(s) = n /\ m \in Nat /\ \A i \in 1..n : s[i] = MutOf(H, i)
  BY MutsParts
<1> HIDE DEF s
<1>1. s \in Seq({ s[i] : i \in DOMAIN s }) /\ Len(s) = n /\ m \in Nat /\ \A i \in 1..n : s[i] = MutOf(H, i)
  BY <1>0 DEF Chain
<1>2. SubSeq(s, 1, m) = [i \in 1..m |-> s[i]]
  BY <1>1
<1>3. \A i \in 1..m : s[i] = MutOf(G, i)
  BY <1>1 DEF MutOf
<1> QED
  BY <1>2, <1>3 DEF Muts, s, CutTo

LEMMA MutsGrow ==
  ASSUME NEW G, NEW H, NEW n \in Nat, NEW m \in 0..n, \A i \in 1..m : G[i] = H[i]
  PROVE  StoreAsApplied!IsPrefix(Muts(G, m), Muts(H, n))
<1>1. m \in Nat /\ m \in 0..m /\ Len(Muts(G, m)) = m /\ Len(Muts(H, n)) = n /\ m <= n
  BY MutsParts
<1>2. CutTo(Muts(G, m), Muts(H, n), m)
  BY MutsCut
<1>3. CutTo(Muts(G, m), Muts(G, m), m)
  BY <1>1, MutsCut
<1> QED
  BY <1>1, <1>2, <1>3 DEF StoreAsApplied!IsPrefix, CutTo

LEMMA StartApplied ==
  ASSUME Init PROVE StoreAsApplied!Init
<1>1. pc = "open" /\ applied = 0 /\ hist = <<>> /\ flushed = 0 /\ index = EmptyIndex /\ current = 0
  BY DEF Init
<1>2. AppliedLog = <<>>
  BY <1>1 DEF AppliedLog
<1>3. ASSUME NEW k PROVE Found(HistoryOf(index, k), MaxWrites) = {}
  <2>1. HistoryOf(index, k) = <<>>
    BY <1>1 DEF HistoryOf, EmptyIndex
  <2>2. Locate(<<>>, MaxWrites) = {}
    BY DEF Locate
  <2> QED
    BY <2>1, <2>2 DEF Found
<1>4. AppliedValues = [k \in Key |-> Deleted]
  BY <1>1, <1>3 DEF AppliedValues, LatestRead
<1> QED
  BY <1>1, <1>2, <1>4 DEF StoreAsApplied!Init, AppliedLog, AppliedValues

LEMMA StepApplied ==
  ASSUME StoreInv, PositionsInv, Mapped, Mapped', [Next]_vars
  PROVE  [StoreAsApplied!Next]_(StoreAsApplied!vars)
<1> DEFINE N == Len(hist)
           L == AppliedLog
           V == AppliedValues
<1>1. /\ N \in Nat /\ flushed \in Nat /\ flushed <= N
  BY PositionsParts
<1>2. L = Muts(hist, N) /\ Len(L) = N
  BY <1>1, MutsParts DEF Mapped
<1>3. /\ L' = Muts(hist', Len(hist'))
      /\ V = [k \in Key |-> StoreAsApplied!ValueAfter(L, k)]
      /\ V' = [k \in Key |-> StoreAsApplied!ValueAfter(L', k)]
  BY DEF Mapped
<1> HIDE DEF L, V, N
<1>4. ASSUME hist' = hist, flushed' = flushed PROVE UNCHANGED StoreAsApplied!vars
  <2>1. L' = L /\ V' = V
    BY <1>2, <1>3, <1>4 DEF N
  <2> QED
    BY <1>4, <2>1 DEF StoreAsApplied!vars, L, V, AppliedLog, AppliedValues
<1>5. ASSUME NEW batch \in Batch, Apply(batch, applied + Len(batch)) PROVE StoreAsApplied!Apply
  <2> DEFINE n == Len(batch)
             m == N + n
  <2>1. batch \in Seq(Mutation) /\ n \in Nat /\ n > 0
    BY BoundsAssumption DEF Batch
  <2>2. flushed' = flushed /\ applied \in Nat /\ applied + n \in Nat
    BY <1>5, <2>1 DEF Apply, StoreInv, TypesHold
  <2>3. Len(hist') = m /\ \A i \in 1..N : hist'[i] = hist[i]
    BY <1>5, <2>1, <2>2, BatchApplied DEF N
  <2>4. m \in Nat /\ m > N /\ N \in 0..m
    BY <1>1, <2>1
  <2> HIDE DEF m, n
  <2>5. L' = Muts(hist', m) /\ Len(L') = m
    BY <1>3, <2>3, <2>4, MutsParts
  <2>6. StoreAsApplied!IsPrefix(L, L')
    BY <1>2, <2>3, <2>4, <2>5, MutsGrow
  <2> QED
    BY <1>2, <1>3, <2>2, <2>4, <2>5, <2>6
       DEF StoreAsApplied!Apply, StoreAsApplied!ValuesFollow, L, V, AppliedLog, AppliedValues
<1>6. CASE Checkpoint
  <2>1. hist' = hist /\ flushed' = applied /\ applied = N
    BY <1>6 DEF Checkpoint, PositionsInv, N
  <2>2. L' = L /\ V' = V
    BY <1>2, <1>3, <2>1 DEF N
  <2>3. StoreAsApplied!Checkpoint
    BY <1>2, <2>1, <2>2 DEF StoreAsApplied!Checkpoint, L, V, AppliedLog, AppliedValues
  <2> QED
    BY <2>3 DEF StoreAsApplied!Next
<1>7. CASE Crash
  <2>1. PICK i \in DOMAIN commits : FallTo(i)
    BY <1>7 DEF Crash
  <2> DEFINE n == LengthOf(commits, i)
  <2>2. /\ i \in 1..Len(commits) /\ n \in 0..N /\ n \in Nat
        /\ Len(hist') = n /\ \A j \in 1..n : hist'[j] = hist[j]
    BY <2>1, FallParts DEF N
  <2>3. flushed' = flushed /\ flushed <= n
    BY <2>1, <2>2 DEF FallTo, PositionsInv
  <2> HIDE DEF n
  <2>4. L' = SubSeq(L, 1, n)
    <3>1. CutTo(Muts(hist', n), Muts(hist, N), n)
      BY <1>1, <2>2, MutsCut
    <3> QED
      BY <1>2, <1>3, <2>2, <3>1 DEF CutTo
  <2>5. n \in flushed..Len(L)
    BY <1>1, <1>2, <2>2, <2>3
  <2>6. StoreAsApplied!Crash
    BY <1>3, <2>3, <2>4, <2>5
       DEF StoreAsApplied!Crash, StoreAsApplied!ValuesFollow, L, V, AppliedLog, AppliedValues
  <2> QED
    BY <2>6 DEF StoreAsApplied!Next
<1>8. CASE TransactionFails \/ CompactNext \/ CompactFails \/ CompactEnds \/ Open \/ UNCHANGED vars
  <2>1. hist' = hist /\ flushed' = flushed
    BY <1>8 DEF TransactionFails, CompactNext, CompactFails, CompactEnds, Open, ghostVars, vars
  <2> QED
    BY <1>4, <2>1
<1>9. ASSUME NEW at \in 0..MaxWrites, CompactBegins(at) PROVE UNCHANGED StoreAsApplied!vars
  <2>1. hist' = hist /\ flushed' = flushed
    BY <1>9 DEF CompactBegins
  <2> QED
    BY <1>4, <2>1
<1> QED
  BY <1>5, <1>6, <1>7, <1>8, <1>9 DEF Next, StoreAsApplied!Next

(* The store is what the log takes it for: its latest values follow from   *)
(* the mutations applied, a crash leaves a beginning of them no shorter    *)
(* than what a checkpoint returned, and reopening and compacting change    *)
(* none of it, under the condition under which reads are exact.            *)
THEOREM AppliedStoreImplemented ==
  ASSUME NoRelapse PROVE Spec => ImplementsAppliedStore
<1>1. Spec => [](StoreInv /\ ExactInv /\ BoundsInv /\ PositionsInv)
  BY StoreInvariant, ExactInvariant, BoundsInvariant, PositionsInvariant, PTL
<1>2. StoreInv /\ ExactInv /\ BoundsInv /\ PositionsInv => Mapped
  BY IsMapped
<1>3. Init => StoreAsApplied!Init
  BY StartApplied
<1>4. StoreInv /\ PositionsInv /\ Mapped /\ Mapped' /\ [Next]_vars
        => [StoreAsApplied!Next]_(StoreAsApplied!vars)
  BY StepApplied
<1> QED
  BY <1>1, <1>2, <1>3, <1>4, PTL DEF Spec, ImplementsAppliedStore, StoreAsApplied!Spec
=============================================================================
