--------------------------- MODULE BioSplitProofs ---------------------------
(* Splitting loses nothing and leaves what is left aligned, for every      *)
(* device whose limits are what blk_validate_limits guarantees and every   *)
(* bio. First the vectors that bio_split and bio_advance leave and the     *)
(* multiples that the limits are rounded to, then the invariant.           *)
EXTENDS BioSplit, WellFoundedInduction, TLAPS

(* A set of numbers has a smallest.                                        *)
LEMMA Smallest ==
  ASSUME NEW T \in SUBSET Nat, T # {}
  PROVE  \E x \in T : \A y \in T : x <= y
<1> DEFINE R == OpToRel(<, Nat)
<1>1. IsWellFoundedOn(R, Nat)
  BY NatLessThanWellFounded
<1>2. \A x, y \in Nat : x < y => <<x, y>> \in R
  BY DEF OpToRel
<1> HIDE DEF R
<1>3. PICK x \in T : \A y \in T : ~ (<<y, x>> \in R)
  BY <1>1, WFMin
<1>4. ASSUME NEW y \in T
      PROVE  x <= y
  <2>1. x \in Nat /\ y \in Nat /\ ~ (y < x)
    BY <1>2, <1>3
  <2>2. QED
    BY <2>1
<1>5. QED
  BY <1>4

(* Min and Max of the sets the code compares.                              *)
LEMMA MinOf ==
  ASSUME NEW T \in SUBSET Nat, T # {}
  PROVE  Min(T) \in T /\ \A y \in T : Min(T) <= y
BY Smallest, Zenon DEF Min

(* Min of two.                                                             *)
LEMMA MinTwo ==
  ASSUME NEW a \in Int, NEW b \in Int
  PROVE  Min({a, b}) = IF a <= b THEN a ELSE b
<1> DEFINE m == IF a <= b THEN a ELSE b
<1>1. m \in {a, b} /\ \A y \in {a, b} : m <= y
  OBVIOUS
<1>2. \A x \in {a, b} : (\A y \in {a, b} : x <= y) => x = m
  OBVIOUS
<1> HIDE DEF m
<1>3. Min({a, b}) = m
  BY <1>1, <1>2 DEF Min
<1>4. QED
  BY <1>3 DEF m

(* Min of three.                                                           *)
LEMMA MinThree ==
  ASSUME NEW a \in Int, NEW b \in Int, NEW c \in Int
  PROVE  /\ Min({a, b, c}) \in {a, b, c}
         /\ Min({a, b, c}) <= a /\ Min({a, b, c}) <= b /\ Min({a, b, c}) <= c
<1> DEFINE m == IF a <= b /\ a <= c THEN a ELSE IF b <= c THEN b ELSE c
<1>1. m \in {a, b, c} /\ \A y \in {a, b, c} : m <= y
  OBVIOUS
<1> HIDE DEF m
<1>2. QED
  BY <1>1 DEF Min

(* A bounded set of numbers has a largest.                                 *)
LEMMA MaxOf ==
  ASSUME NEW T \in SUBSET Nat, T # {}, NEW b \in Nat, \A y \in T : y <= b
  PROVE  Max(T) \in T /\ \A y \in T : y <= Max(T)
<1> DEFINE U == {x \in Nat : \A y \in T : y <= x}
<1>1. PICK x \in U : \A y \in U : x <= y
  <2>1. b \in U /\ U \subseteq Nat
    OBVIOUS
  <2>2. QED
    BY <2>1, Smallest
<1>2. x \in T
  <2>1. SUFFICES ASSUME x \notin T
                 PROVE  FALSE
    OBVIOUS
  <2>2. PICK z \in T : TRUE
    OBVIOUS
  <2>3. x # 0
    BY <2>1, <2>2
  <2>4. \A y \in T : y <= x /\ y # x /\ y \in Nat
    BY <2>1
  <2>5. x - 1 \in U
    BY <2>3, <2>4
  <2>6. QED
    BY <1>1, <2>5
<1>3. \A y \in T : y <= x
  OBVIOUS
<1>4. \E u \in T : \A y \in T : y <= u
  BY <1>2, <1>3
<1>5. QED
  BY <1>4 DEF Max

-----------------------------------------------------------------------------
(* The starts of the vectors of a bio.                                     *)
LEMMA StartsDef ==
  ASSUME NEW vs \in Seq(Vec)
  PROVE  Starts(vs) = [i \in 1 .. Len(vs) + 1 |->
                         IF i = 1 THEN 0 ELSE Starts(vs)[i - 1] + vs[i - 1].len]
<1> DEFINE Upto(n, g) == g = [i \in 1 .. n |-> IF i = 1 THEN 0 ELSE g[i - 1] + vs[i - 1].len]
           T == {n \in 1 .. Len(vs) + 1 : ~ \E g : Upto(n, g)}
<1>1. T = {}
  <2>1. SUFFICES ASSUME T # {}
                 PROVE  FALSE
    OBVIOUS
  <2>2. PICK n \in T : \A y \in T : n <= y
    <3>1. T \subseteq Nat
      OBVIOUS
    <3> HIDE DEF T
    <3>2. QED
      BY <2>1, <3>1, Smallest
  <2>3. n # 1
    <3>1. Upto(1, [i \in 1 .. 1 |-> 0])
      OBVIOUS
    <3> HIDE DEF Upto
    <3>2. QED
      BY <2>2, <3>1
  <2>4. n - 1 \in 1 .. Len(vs) + 1 /\ n - 1 < n /\ n \in 2 .. Len(vs) + 1
    BY <2>3
  <2>5. PICK g : Upto(n - 1, g)
    <3> HIDE DEF Upto
    <3>1. QED
      BY <2>2, <2>4
  <2> DEFINE h == [i \in 1 .. n |-> IF i = n THEN g[n - 1] + vs[n - 1].len ELSE g[i]]
  <2>6. Upto(n, h)
    <3>1. \A i \in 1 .. n : h[i] = IF i = 1 THEN 0 ELSE h[i - 1] + vs[i - 1].len
      <4>1. SUFFICES ASSUME NEW i \in 1 .. n
                     PROVE  h[i] = IF i = 1 THEN 0 ELSE h[i - 1] + vs[i - 1].len
        OBVIOUS
      <4>2. CASE i = n
        BY <2>4, <4>2
      <4>3. CASE i # n
        <5>1. i \in 1 .. n - 1 /\ (i # 1 => i - 1 \in 1 .. n - 1) /\ h[i] = g[i]
          BY <2>4, <4>3
        <5>2. g[i] = IF i = 1 THEN 0 ELSE g[i - 1] + vs[i - 1].len
          BY <2>5, <5>1
        <5>3. i # 1 => h[i - 1] = g[i - 1]
          BY <2>4, <4>3
        <5>4. QED
          BY <5>1, <5>2, <5>3
      <4>4. QED
        BY <4>2, <4>3
    <3>2. h = [i \in 1 .. n |-> h[i]]
      OBVIOUS
    <3> HIDE DEF h
    <3>3. QED
      BY <3>1, <3>2
  <2>7. QED
    <3> HIDE DEF Upto, h
    <3>1. QED
      BY <2>2, <2>6
<1>2. PICK g : Upto(Len(vs) + 1, g)
  <2>1. Len(vs) + 1 \in 1 .. Len(vs) + 1
    OBVIOUS
  <2> HIDE DEF Upto
  <2>2. QED
    BY <1>1, <2>1
<1>3. Starts(vs) = CHOOSE f : Upto(Len(vs) + 1, f)
  BY DEF Starts
<1> HIDE DEF Upto
<1>4. Upto(Len(vs) + 1, Starts(vs))
  BY <1>2, <1>3
<1>5. QED
  BY <1>4 DEF Upto

(* The fields of a vector.                                                 *)
LEMMA VecType ==
  ASSUME NEW vs \in Seq(Vec), NEW i \in 1 .. Len(vs)
  PROVE  /\ vs[i] \in Vec
         /\ vs[i].len \in Nat /\ vs[i].len > 0 /\ vs[i].off \in Nat /\ vs[i].page \in Nat
<1>1. vs[i] \in Vec
  OBVIOUS
<1>2. QED
  BY <1>1 DEF Vec

(* Each vector begins where the one before it ends,                        *)
LEMMA StartOfNext ==
  ASSUME NEW vs \in Seq(Vec)
  PROVE  /\ StartOf(vs, 1) = 0
         /\ \A i \in 1 .. Len(vs) : StartOf(vs, i + 1) = StartOf(vs, i) + vs[i].len
<1> DEFINE S == Starts(vs)
<1>1. S = [i \in 1 .. Len(vs) + 1 |-> IF i = 1 THEN 0 ELSE S[i - 1] + vs[i - 1].len]
  BY StartsDef
<1> HIDE DEF S
<1>2. S[1] = 0
  BY <1>1
<1>3. ASSUME NEW i \in 1 .. Len(vs)
      PROVE  S[i + 1] = S[i] + vs[i].len
  <2>1. i + 1 \in 1 .. Len(vs) + 1 /\ i + 1 # 1 /\ (i + 1) - 1 = i
    OBVIOUS
  <2>2. QED
    BY <1>1, <2>1
<1>4. QED
  BY <1>2, <1>3 DEF StartOf, S

(* A function that counts up like the starts is the starts.                *)
LEMMA StartsUnique ==
  ASSUME NEW vs \in Seq(Vec), NEW f,
         f[1] = 0, \A i \in 1 .. Len(vs) : f[i + 1] = f[i] + vs[i].len
  PROVE  \A i \in 1 .. Len(vs) + 1 : StartOf(vs, i) = f[i]
<1> DEFINE T == {i \in 1 .. Len(vs) + 1 : StartOf(vs, i) # f[i]}
<1>1. SUFFICES ASSUME T # {}
               PROVE  FALSE
  OBVIOUS
<1>2. PICK n \in T : \A y \in T : n <= y
  <2>1. T \subseteq Nat
    OBVIOUS
  <2> HIDE DEF T
  <2>2. QED
    BY <1>1, <2>1, Smallest
<1>3. n # 1
  BY <1>2, StartOfNext
<1>4. n - 1 \in 1 .. Len(vs) /\ n - 1 \notin T
  BY <1>2, <1>3
<1>5. StartOf(vs, n - 1) = f[n - 1]
  BY <1>4
<1>6. StartOf(vs, (n - 1) + 1) = StartOf(vs, n - 1) + vs[n - 1].len
        /\ f[(n - 1) + 1] = f[n - 1] + vs[n - 1].len
  BY <1>4, StartOfNext
<1>7. (n - 1) + 1 = n
  BY <1>4
<1>8. QED
  BY <1>2, <1>5, <1>6, <1>7

(* so the starts are numbers,                                              *)
LEMMA StartOfType ==
  ASSUME NEW vs \in Seq(Vec)
  PROVE  \A i \in 1 .. Len(vs) + 1 : StartOf(vs, i) \in Nat
<1> DEFINE T == {i \in 1 .. Len(vs) + 1 : StartOf(vs, i) \notin Nat}
<1>1. SUFFICES ASSUME T # {}
               PROVE  FALSE
  OBVIOUS
<1>2. PICK n \in T : \A y \in T : n <= y
  <2>1. T \subseteq Nat
    OBVIOUS
  <2> HIDE DEF T
  <2>2. QED
    BY <1>1, <2>1, Smallest
<1>3. n # 1
  BY <1>2, StartOfNext
<1>4. n - 1 \in 1 .. Len(vs) /\ n - 1 \notin T
  BY <1>2, <1>3
<1>5. StartOf(vs, n - 1) \in Nat /\ vs[n - 1].len \in Nat
  BY <1>4, VecType
<1>6. StartOf(vs, (n - 1) + 1) = StartOf(vs, n - 1) + vs[n - 1].len
  BY <1>4, StartOfNext
<1>7. (n - 1) + 1 = n
  BY <1>4
<1>8. QED
  BY <1>2, <1>5, <1>6, <1>7

(* and increase, since no vector is empty.                                 *)
LEMMA StartOfGrows ==
  ASSUME NEW vs \in Seq(Vec), NEW i \in 1 .. Len(vs) + 1
  PROVE  \A j \in 1 .. Len(vs) + 1 : i < j => StartOf(vs, i) < StartOf(vs, j)
<1> DEFINE T == {j \in 1 .. Len(vs) + 1 : i < j /\ ~ (StartOf(vs, i) < StartOf(vs, j))}
<1>1. SUFFICES ASSUME T # {}
               PROVE  FALSE
  OBVIOUS
<1>2. PICK n \in T : \A y \in T : n <= y
  <2>1. T \subseteq Nat
    OBVIOUS
  <2> HIDE DEF T
  <2>2. QED
    BY <1>1, <2>1, Smallest
<1>3. n - 1 \in 1 .. Len(vs) /\ n - 1 \notin T /\ (n - 1) + 1 = n /\ (n - 1 = i \/ i < n - 1)
  BY <1>2
<1>4. StartOf(vs, i) <= StartOf(vs, n - 1)
  <2>1. StartOf(vs, i) \in Nat /\ StartOf(vs, n - 1) \in Nat
    BY <1>3, StartOfType
  <2>2. QED
    BY <1>3, <2>1
<1>5. StartOf(vs, n) = StartOf(vs, n - 1) + vs[n - 1].len
  BY <1>3, StartOfNext
<1>6. StartOf(vs, i) \in Nat /\ StartOf(vs, n - 1) \in Nat /\ vs[n - 1].len \in Nat
        /\ vs[n - 1].len > 0
  BY <1>3, StartOfType, VecType
<1>7. QED
  BY <1>2, <1>4, <1>5, <1>6

(* All of this of one vector.                                              *)
LEMMA StartOfStep ==
  ASSUME NEW vs \in Seq(Vec), NEW i \in 1 .. Len(vs)
  PROVE  /\ StartOf(vs, i) \in Nat /\ StartOf(vs, i + 1) \in Nat
         /\ StartOf(vs, i + 1) = StartOf(vs, i) + vs[i].len
         /\ vs[i].len \in Nat /\ vs[i].len > 0
<1>1. i \in 1 .. Len(vs) + 1 /\ i + 1 \in 1 .. Len(vs) + 1
  OBVIOUS
<1>2. StartOf(vs, i) \in Nat /\ StartOf(vs, i + 1) \in Nat
  BY <1>1, StartOfType
<1>3. StartOf(vs, i + 1) = StartOf(vs, i) + vs[i].len
  BY StartOfNext
<1>4. QED
  BY <1>2, <1>3, VecType

(* The vector in which the sector n of the data lies, and what bio_advance *)
(* leaves of the vectors.                                                  *)
FirstAfter(vs, n) == Min({j \in DOMAIN vs : StartOf(vs, j) + vs[j].len > n} \union {Len(vs) + 1})

(* The first vector that VecsAfter keeps is the one that holds sector n of *)
(* the data, if any does.                                                  *)
LEMMA FirstAfterIs ==
  ASSUME NEW vs \in Seq(Vec), NEW n \in Nat
  PROVE  /\ FirstAfter(vs, n) \in 1 .. Len(vs) + 1
         /\ FirstAfter(vs, n) <= Len(vs)
              => StartOf(vs, FirstAfter(vs, n)) <= n /\ n < StartOf(vs, FirstAfter(vs, n) + 1)
         /\ FirstAfter(vs, n) = Len(vs) + 1 => StartOf(vs, Len(vs) + 1) <= n
<1> DEFINE T == {j \in DOMAIN vs : StartOf(vs, j) + vs[j].len > n} \union {Len(vs) + 1}
           f == FirstAfter(vs, n)
<1>1. f \in T /\ \A y \in T : f <= y
  <2>1. T \subseteq Nat /\ T # {}
    OBVIOUS
  <2>2. f = Min(T)
    BY DEF FirstAfter
  <2> HIDE DEF T, f
  <2>3. QED
    BY <2>1, <2>2, MinOf
<1> HIDE DEF f
<1>2. f \in 1 .. Len(vs) + 1
  BY <1>1
<1>3. ASSUME f <= Len(vs)
      PROVE  n < StartOf(vs, f + 1)
  <2>1. f \in DOMAIN vs /\ StartOf(vs, f) + vs[f].len > n /\ f \in 1 .. Len(vs)
    BY <1>1, <1>2, <1>3
  <2>2. QED
    BY <2>1, StartOfNext, StartOfType
<1>4. StartOf(vs, f) <= n
  <2>1. CASE f = 1
    BY <2>1, StartOfNext
  <2>2. CASE f # 1
    <3>1. f - 1 \in 1 .. Len(vs) /\ f - 1 \notin T /\ f - 1 \in DOMAIN vs /\ (f - 1) + 1 = f
      BY <1>1, <1>2, <2>2
    <3>2. ~ (StartOf(vs, f - 1) + vs[f - 1].len > n)
      BY <3>1
    <3>3. StartOf(vs, f) = StartOf(vs, f - 1) + vs[f - 1].len
      BY <3>1, StartOfNext
    <3>4. StartOf(vs, f) \in Nat
      BY <1>2, StartOfType
    <3>5. QED
      BY <3>2, <3>3, <3>4
  <2>3. QED
    BY <2>1, <2>2
<1>5. QED
  BY <1>2, <1>3, <1>4 DEF f

(* There is only one such vector.                                          *)
LEMMA FirstAfterUnique ==
  ASSUME NEW vs \in Seq(Vec), NEW n \in Nat, NEW g \in 1 .. Len(vs) + 1,
         StartOf(vs, g) <= n, g <= Len(vs) => n < StartOf(vs, g + 1)
  PROVE  FirstAfter(vs, n) = g
<1> DEFINE f == FirstAfter(vs, n)
<1>1. /\ f \in 1 .. Len(vs) + 1
      /\ f <= Len(vs) => StartOf(vs, f) <= n /\ n < StartOf(vs, f + 1)
      /\ f = Len(vs) + 1 => StartOf(vs, f) <= n
  BY FirstAfterIs
<1> HIDE DEF f
<1>2. ASSUME f < g
      PROVE  FALSE
  <2>1. f + 1 \in 1 .. Len(vs) + 1 /\ f <= Len(vs) /\ (f + 1 = g \/ f + 1 < g)
    BY <1>1, <1>2
  <2>2. StartOf(vs, f + 1) <= StartOf(vs, g)
    <3>1. StartOf(vs, f + 1) \in Nat /\ StartOf(vs, g) \in Nat
      BY <2>1, StartOfType
    <3>2. f + 1 < g => StartOf(vs, f + 1) < StartOf(vs, g)
      BY <2>1, StartOfGrows
    <3>3. QED
      BY <2>1, <3>1, <3>2
  <2>3. StartOf(vs, f + 1) \in Nat /\ StartOf(vs, g) \in Nat
    BY <2>1, StartOfType
  <2>4. QED
    BY <1>1, <2>1, <2>2, <2>3
<1>3. ASSUME g < f
      PROVE  FALSE
  <2>1. g + 1 \in 1 .. Len(vs) + 1 /\ g <= Len(vs) /\ (g + 1 = f \/ g + 1 < f)
    BY <1>1, <1>3
  <2>2. StartOf(vs, g + 1) <= StartOf(vs, f)
    <3>1. StartOf(vs, g + 1) \in Nat /\ StartOf(vs, f) \in Nat
      BY <1>1, <2>1, StartOfType
    <3>2. g + 1 < f => StartOf(vs, g + 1) < StartOf(vs, f)
      BY <1>1, <2>1, StartOfGrows
    <3>3. QED
      BY <2>1, <3>1, <3>2
  <2>3. StartOf(vs, g + 1) \in Nat /\ StartOf(vs, f) \in Nat
    BY <1>1, <2>1, StartOfType
  <2>4. StartOf(vs, f) <= n
    BY <1>1
  <2>5. QED
    BY <2>1, <2>2, <2>3, <2>4
<1>4. f = g
  BY <1>1, <1>2, <1>3
<1>5. QED
  BY <1>4 DEF f

(* VecsAfter with this vector named.                                       *)
LEMMA AfterIs ==
  ASSUME NEW vs, NEW n
  PROVE  VecsAfter(vs, n)
           = [i \in 1 .. Len(vs) + 1 - FirstAfter(vs, n) |->
                IF i = 1
                THEN [vs[FirstAfter(vs, n)] EXCEPT !.off = @ + (n - StartOf(vs, FirstAfter(vs, n))),
                                                   !.len = @ - (n - StartOf(vs, FirstAfter(vs, n)))]
                ELSE vs[FirstAfter(vs, n) + i - 1]]
BY Zenon DEF VecsAfter, FirstAfter

(* What VecsAfter leaves: the vector at the cut is shortened from the      *)
(* front, the others are as they were.                                     *)
LEMMA AfterType ==
  ASSUME NEW vs \in Seq(Vec), NEW n \in Nat
  PROVE  /\ VecsAfter(vs, n) \in Seq(Vec)
         /\ Len(VecsAfter(vs, n)) = Len(vs) + 1 - FirstAfter(vs, n)
         /\ FirstAfter(vs, n) <= Len(vs) =>
              LET v == vs[FirstAfter(vs, n)]
                  done == n - StartOf(vs, FirstAfter(vs, n))
              IN  VecsAfter(vs, n)[1] = [v EXCEPT !.off = v.off + done, !.len = v.len - done]
         /\ \A i \in 2 .. Len(vs) + 1 - FirstAfter(vs, n) :
              VecsAfter(vs, n)[i] = vs[FirstAfter(vs, n) + i - 1]
<1> DEFINE f == FirstAfter(vs, n)
           u == VecsAfter(vs, n)
           d == n - StartOf(vs, f)
           w == [vs[f] EXCEPT !.off = vs[f].off + d, !.len = vs[f].len - d]
           m == Len(vs) + 1 - f
<1>1. u = [i \in 1 .. m |-> IF i = 1 THEN w ELSE vs[f + i - 1]]
  BY AfterIs
<1>2. /\ f \in 1 .. Len(vs) + 1
      /\ f <= Len(vs) => StartOf(vs, f) <= n /\ n < StartOf(vs, f + 1)
  BY FirstAfterIs
<1>3. ASSUME f <= Len(vs)
      PROVE  w \in Vec
  <2> HIDE DEF f
  <2>1. f \in 1 .. Len(vs)
    BY <1>2, <1>3
  <2>2. StartOf(vs, f + 1) = StartOf(vs, f) + vs[f].len /\ StartOf(vs, f) \in Nat
    BY <2>1, StartOfNext, StartOfType
  <2>3. vs[f] \in Vec /\ vs[f].len \in Nat /\ vs[f].off \in Nat
    BY <2>1, VecType
  <2>a. \A s, l \in Nat : s <= n /\ n < s + l => n - s \in Nat /\ l - (n - s) \in Nat \ {0}
    OBVIOUS
  <2>b. d \in Nat /\ vs[f].len - d \in Nat \ {0}
    BY <1>2, <1>3, <2>2, <2>3, <2>a
  <2>4. d \in Nat /\ vs[f].len - d \in Nat \ {0} /\ vs[f].off + d \in Nat
    BY <2>b, <2>3
  <2> HIDE DEF d
  <2>5. QED
    BY <2>3, <2>4 DEF Vec
<1> HIDE DEF f, u, w
<1>4. m \in Nat /\ \A i \in 2 .. m : f + i - 1 \in 1 .. Len(vs)
  BY <1>2
<1>5. \A i \in 1 .. m : (IF i = 1 THEN w ELSE vs[f + i - 1]) \in Vec
  <2>1. SUFFICES ASSUME NEW i \in 1 .. m
                 PROVE  (IF i = 1 THEN w ELSE vs[f + i - 1]) \in Vec
    OBVIOUS
  <2>2. CASE i = 1
    <3>1. f <= Len(vs)
      BY <1>2, <2>2
    <3>2. QED
      BY <1>3, <2>2, <3>1
  <2>3. CASE i # 1
    <3>1. f + i - 1 \in 1 .. Len(vs)
      BY <1>4, <2>3
    <3>2. QED
      BY <2>3, <3>1
  <2>4. QED
    BY <2>2, <2>3
<1>6. u \in Seq(Vec) /\ Len(u) = m
  <2> HIDE DEF m
  <2>1. u \in [1 .. m -> Vec]
    BY <1>1, <1>5
  <2>2. QED
    BY <1>4, <2>1
<1>7. f <= Len(vs) => u[1] = w
  BY <1>1, <1>2
<1>8. \A i \in 2 .. m : u[i] = vs[f + i - 1]
  BY <1>1, <1>4
<1>9. QED
  BY <1>6, <1>7, <1>8 DEF f, u, w

(* The starts of what is left are those of the bio, moved by the cut.      *)
LEMMA AfterStart ==
  ASSUME NEW vs \in Seq(Vec), NEW n \in Nat
  PROVE  \A i \in 1 .. Len(VecsAfter(vs, n)) + 1 :
           StartOf(VecsAfter(vs, n), i)
             = IF i = 1 THEN 0 ELSE StartOf(vs, FirstAfter(vs, n) + i - 1) - n
<1> DEFINE f == FirstAfter(vs, n)
           u == VecsAfter(vs, n)
           g == [i \in 1 .. Len(u) + 1 |-> IF i = 1 THEN 0 ELSE StartOf(vs, f + i - 1) - n]
           d == n - StartOf(vs, f)
<1>1. /\ u \in Seq(Vec) /\ Len(u) = Len(vs) + 1 - f
      /\ f <= Len(vs) => u[1] = [vs[f] EXCEPT !.off = vs[f].off + d, !.len = vs[f].len - d]
      /\ \A i \in 2 .. Len(vs) + 1 - f : u[i] = vs[f + i - 1]
  BY AfterType
<1>2. /\ f \in 1 .. Len(vs) + 1
      /\ f <= Len(vs) => StartOf(vs, f) <= n /\ n < StartOf(vs, f + 1)
  BY FirstAfterIs
<1> HIDE DEF f, u
<1>3. g[1] = 0
  <2>1. Len(u) \in Nat /\ 1 \in 1 .. Len(u) + 1
    BY <1>1
  <2>2. QED
    BY <2>1
<1>4. ASSUME NEW i \in 1 .. Len(u)
      PROVE  g[i + 1] = g[i] + u[i].len
  <2>1. f + i - 1 \in 1 .. Len(vs) /\ f + (i + 1) - 1 = (f + i - 1) + 1 /\ i + 1 # 1
          /\ i + 1 \in 1 .. Len(u) + 1
    <3>1. Len(vs) \in Nat /\ f \in 1 .. Len(vs) + 1 /\ Len(u) = Len(vs) + 1 - f
      BY <1>1, <1>2
    <3> HIDE DEF g
    <3>2. QED
      BY <3>1
  <2>2. /\ StartOf(vs, (f + i - 1) + 1) = StartOf(vs, f + i - 1) + vs[f + i - 1].len
        /\ StartOf(vs, f + i - 1) \in Nat /\ vs[f + i - 1].len \in Nat
    <3> DEFINE j == f + i - 1
    <3>1. j \in 1 .. Len(vs)
      BY <2>1
    <3> HIDE DEF j
    <3>2. StartOf(vs, j + 1) = StartOf(vs, j) + vs[j].len /\ StartOf(vs, j) \in Nat /\ vs[j].len \in Nat
      BY <3>1, StartOfStep
    <3>3. QED
      BY <3>2 DEF j
  <2>3. g[i + 1] = StartOf(vs, f + i - 1) + vs[f + i - 1].len - n
    <3>1. g[i + 1] = StartOf(vs, (f + i - 1) + 1) - n
      BY <2>1
    <3> HIDE DEF g
    <3>2. QED
      BY <2>2, <3>1
  <2>4. CASE i = 1
    <3>1. f \in 1 .. Len(vs) /\ f + i - 1 = f
      BY <1>1, <1>2, <2>4
    <3>2. vs[f] \in Vec
      BY <3>1, VecType
    <3>3. u[1].len = vs[f].len - d
      <4> HIDE DEF d, g
      <4>1. u[1] = [vs[f] EXCEPT !.off = vs[f].off + d, !.len = vs[f].len - d]
        BY <1>1, <3>1
      <4>2. QED
        BY <3>2, <4>1 DEF Vec
    <3>4. g[1] = 0 /\ StartOf(vs, f) \in Nat /\ vs[f].len \in Nat
      BY <1>3, <2>2, <3>1
    <3>5. QED
      BY <2>3, <2>4, <3>1, <3>3, <3>4
  <2>5. CASE i # 1
    <3>1. u[i] = vs[f + i - 1]
      BY <1>1, <2>5
    <3>2. g[i] = StartOf(vs, f + i - 1) - n
      BY <2>5
    <3> HIDE DEF g
    <3>3. QED
      BY <2>2, <2>3, <3>1, <3>2
  <2>6. QED
    BY <2>4, <2>5
<1>5. \A i \in 1 .. Len(u) + 1 : StartOf(u, i) = g[i]
  <2> HIDE DEF g
  <2>1. QED
    BY <1>1, <1>3, <1>4, StartsUnique
<1>6. QED
  BY <1>5 DEF f, u

(* What is left after all is nothing, and after nothing all.               *)
LEMMA AfterAll ==
  ASSUME NEW vs \in Seq(Vec), NEW n \in Nat, StartOf(vs, Len(vs) + 1) <= n
  PROVE  VecsAfter(vs, n) = <<>>
<1>1. FirstAfter(vs, n) = Len(vs) + 1
  <2>1. Len(vs) + 1 \in 1 .. Len(vs) + 1 /\ ~ (Len(vs) + 1 <= Len(vs))
    OBVIOUS
  <2>2. QED
    BY <2>1, FirstAfterUnique
<1>2. VecsAfter(vs, n) \in Seq(Vec) /\ Len(VecsAfter(vs, n)) = 0
  <2>1. VecsAfter(vs, n) \in Seq(Vec) /\ Len(VecsAfter(vs, n)) = Len(vs) + 1 - FirstAfter(vs, n)
    BY AfterType, Zenon
  <2>2. Len(vs) \in Nat
    OBVIOUS
  <2>3. QED
    BY <1>1, <2>1, <2>2
<1>3. QED
  BY <1>2

(* Nothing is cut off.                                                     *)
LEMMA AfterNone ==
  ASSUME NEW vs \in Seq(Vec)
  PROVE  VecsAfter(vs, 0) = vs
<1> DEFINE u == VecsAfter(vs, 0)
<1>1. StartOf(vs, 1) = 0 /\ 1 \in 1 .. Len(vs) + 1
  BY StartOfNext
<1>2. 1 <= Len(vs) => 0 < StartOf(vs, 2)
  BY <1>1, StartOfGrows
<1>3. FirstAfter(vs, 0) = 1
  <2>1. 1 + 1 = 2
    OBVIOUS
  <2>2. QED
    BY <1>1, <1>2, <2>1, FirstAfterUnique
<1>4. /\ u \in Seq(Vec) /\ Len(u) = Len(vs)
      /\ 1 <= Len(vs)
           => u[1] = [vs[1] EXCEPT !.off = vs[1].off + (0 - 0), !.len = vs[1].len - (0 - 0)]
      /\ \A i \in 2 .. Len(vs) : u[i] = vs[i]
  <2>1. /\ u \in Seq(Vec) /\ Len(u) = Len(vs) + 1 - 1
        /\ 1 <= Len(vs)
             => u[1] = [vs[1] EXCEPT !.off = vs[1].off + (0 - StartOf(vs, 1)), !.len
               = vs[1].len - (0 - StartOf(vs, 1))]
        /\ \A i \in 2 .. Len(vs) + 1 - 1 : u[i] = vs[1 + i - 1]
    <3> DEFINE f == FirstAfter(vs, 0)
    <3>1. /\ u \in Seq(Vec) /\ Len(u) = Len(vs) + 1 - f
          /\ f <= Len(vs)
               => u[1] = [vs[f] EXCEPT !.off = vs[f].off + (0 - StartOf(vs, f)), !.len
                 = vs[f].len - (0 - StartOf(vs, f))]
          /\ \A i \in 2 .. Len(vs) + 1 - f : u[i] = vs[f + i - 1]
      BY AfterType
    <3>2. f = 1
      BY <1>3
    <3> HIDE DEF f, u
    <3>3. QED
      BY <3>1, <3>2
  <2> HIDE DEF u
  <2>2. \A i \in 2 .. Len(vs) : 1 + i - 1 = i
    OBVIOUS
  <2>3. Len(vs) + 1 - 1 = Len(vs)
    OBVIOUS
  <2>4. QED
    BY <1>1, <2>1, <2>2, <2>3
<1> HIDE DEF u
<1>5. 1 <= Len(vs) => u[1] = vs[1]
  <2>1. SUFFICES ASSUME 1 <= Len(vs)
                 PROVE  u[1] = vs[1]
    OBVIOUS
  <2>2. vs[1] \in Vec
    BY <2>1, VecType
  <2>3. vs[1].off + (0 - 0) = vs[1].off /\ vs[1].len - (0 - 0) = vs[1].len
    BY <2>2 DEF Vec
  <2>4. u[1] = [vs[1] EXCEPT !.off = vs[1].off, !.len = vs[1].len]
    BY <1>4, <2>1, <2>3
  <2>5. QED
    BY <2>2, <2>4 DEF Vec
<1>6. \A i \in 1 .. Len(vs) : u[i] = vs[i]
  BY <1>4, <1>5
<1>7. u = vs
  BY <1>4, <1>6
<1>8. QED
  BY <1>7 DEF u

(* Cutting off a front and then another is cutting off both.               *)
LEMMA AfterAfterFirst ==
  ASSUME NEW vs \in Seq(Vec), NEW a \in Nat, NEW b \in Nat
  PROVE  FirstAfter(vs, a + b) = FirstAfter(vs, a) + FirstAfter(VecsAfter(vs, a), b) - 1
<1> DEFINE f == FirstAfter(vs, a)
           u == VecsAfter(vs, a)
           e == FirstAfter(u, b)
           g == f + e - 1
<1>1. u \in Seq(Vec) /\ Len(u) = Len(vs) + 1 - f
  BY AfterType
<1>2. f \in 1 .. Len(vs) + 1 /\ StartOf(vs, f) <= a
  <2>1. /\ f \in 1 .. Len(vs) + 1 /\ (f <= Len(vs) => StartOf(vs, f) <= a)
        /\ f = Len(vs) + 1 => StartOf(vs, Len(vs) + 1) <= a
    BY FirstAfterIs
  <2>2. Len(vs) \in Nat
    OBVIOUS
  <2> HIDE DEF f
  <2>3. f <= Len(vs) \/ f = Len(vs) + 1
    BY <2>1, <2>2
  <2>4. QED
    BY <2>1, <2>3
<1>3. /\ e \in 1 .. Len(u) + 1
      /\ StartOf(u, e) <= b
      /\ e <= Len(u) => b < StartOf(u, e + 1)
  <2> HIDE DEF u
  <2>1. /\ e \in 1 .. Len(u) + 1
        /\ e <= Len(u) => StartOf(u, e) <= b /\ b < StartOf(u, e + 1)
        /\ e = Len(u) + 1 => StartOf(u, Len(u) + 1) <= b
    BY <1>1, FirstAfterIs
  <2> HIDE DEF e
  <2>2. Len(u) \in Nat
    BY <1>1
  <2>3. QED
    BY <2>1, <2>2
<1>4. \A i \in 1 .. Len(u) + 1 : StartOf(u, i) = IF i = 1 THEN 0 ELSE StartOf(vs, f + i - 1) - a
  BY AfterStart
<1> HIDE DEF f, u, e
<1>5. g \in 1 .. Len(vs) + 1 /\ (g <= Len(vs) => e <= Len(u)) /\ g + 1 = f + (e + 1) - 1
  <2>1. Len(vs) \in Nat /\ f \in 1 .. Len(vs) + 1 /\ Len(u) = Len(vs) + 1 - f
          /\ e \in 1 .. Len(u) + 1
    BY <1>1, <1>2, <1>3
  <2>2. QED
    BY <2>1
<1>6. StartOf(vs, g) <= a + b
  <2>1. CASE e = 1
    <3>1. g = f
      BY <1>2, <2>1
    <3>2. StartOf(vs, f) \in Nat
      BY <1>2, StartOfType
    <3>3. QED
      BY <1>2, <3>1, <3>2
  <2>2. CASE e # 1
    <3>1. StartOf(u, e) = StartOf(vs, g) - a
      BY <1>3, <1>4, <2>2
    <3>2. StartOf(vs, g) \in Nat
      BY <1>5, StartOfType
    <3> HIDE DEF g
    <3>3. QED
      BY <1>3, <3>1, <3>2
  <2>3. QED
    BY <2>1, <2>2
<1>7. ASSUME g <= Len(vs)
      PROVE  a + b < StartOf(vs, g + 1)
  <2>1. e <= Len(u) /\ e + 1 \in 1 .. Len(u) + 1 /\ e + 1 # 1 /\ g + 1 \in 1 .. Len(vs) + 1
    <3>1. Len(u) \in Nat /\ Len(vs) \in Nat /\ e \in 1 .. Len(u) + 1
      BY <1>1, <1>3
    <3> HIDE DEF g
    <3>2. QED
      BY <1>5, <1>7, <3>1
  <2>2. StartOf(u, e + 1) = StartOf(vs, g + 1) - a
    BY <1>4, <1>5, <2>1
  <2>3. StartOf(vs, g + 1) \in Nat
    BY <2>1, StartOfType
  <2> HIDE DEF g
  <2>4. QED
    BY <1>3, <2>1, <2>2, <2>3
<1>8. FirstAfter(vs, a + b) = g
  <2> HIDE DEF g
  <2>1. a + b \in Nat
    OBVIOUS
  <2>2. QED
    BY <1>5, <1>6, <1>7, <2>1, FirstAfterUnique
<1>9. QED
  BY <1>8 DEF f, u, e

(* Two cuts one after the other are one cut at their sum: this is what     *)
(* splitting a bio again and again needs.                                  *)
LEMMA AfterAfter ==
  ASSUME NEW vs \in Seq(Vec), NEW a \in Nat, NEW b \in Nat
  PROVE  VecsAfter(VecsAfter(vs, a), b) = VecsAfter(vs, a + b)
<1> DEFINE f == FirstAfter(vs, a)
           u == VecsAfter(vs, a)
           e == FirstAfter(u, b)
           g == FirstAfter(vs, a + b)
           x == VecsAfter(u, b)
           y == VecsAfter(vs, a + b)
           c == a - StartOf(vs, f)
           d == b - StartOf(u, e)
           z == a + b - StartOf(vs, g)
<1>0. a + b \in Nat
  OBVIOUS
<1>1. /\ u \in Seq(Vec) /\ Len(u) = Len(vs) + 1 - f
      /\ f <= Len(vs) => u[1] = [vs[f] EXCEPT !.off = vs[f].off + c, !.len = vs[f].len - c]
      /\ \A i \in 2 .. Len(vs) + 1 - f : u[i] = vs[f + i - 1]
  BY AfterType
<1>2. /\ y \in Seq(Vec) /\ Len(y) = Len(vs) + 1 - g
      /\ g <= Len(vs)
           => y[1] = [vs[g] EXCEPT !.off = vs[g].off + (a + b - StartOf(vs, g)), !.len
             = vs[g].len - (a + b - StartOf(vs, g))]
      /\ \A i \in 2 .. Len(vs) + 1 - g : y[i] = vs[g + i - 1]
  <2> DEFINE n == a + b
  <2>1. n \in Nat
    BY <1>0
  <2> HIDE DEF f, u, e, x, n
  <2>2. LET h == FirstAfter(vs, n)
            q == VecsAfter(vs, n)
        IN  /\ q \in Seq(Vec) /\ Len(q) = Len(vs) + 1 - h
            /\ h <= Len(vs)
                 => q[1] = [vs[h] EXCEPT !.off = vs[h].off + (n - StartOf(vs, h)), !.len
                   = vs[h].len - (n - StartOf(vs, h))]
            /\ \A i \in 2 .. Len(vs) + 1 - h : q[i] = vs[h + i - 1]
    BY <2>1, AfterType
  <2>3. n - StartOf(vs, g) = a + b - StartOf(vs, g)
    <3>1. StartOf(vs, g) \in Nat
      BY <1>0, FirstAfterIs, StartOfType
    <3> HIDE DEF g
    <3>2. QED
      BY <3>1 DEF n
  <2>4. QED
    BY <2>2, <2>3 DEF n
<1>3. /\ x \in Seq(Vec) /\ Len(x) = Len(u) + 1 - e
      /\ e <= Len(u) => x[1] = [u[e] EXCEPT !.off = u[e].off + d, !.len = u[e].len - d]
      /\ \A i \in 2 .. Len(u) + 1 - e : x[i] = u[e + i - 1]
  <2>1. u \in Seq(Vec)
    BY <1>1
  <2> HIDE DEF u
  <2>2. QED
    BY <2>1, AfterType
<1>4. g = f + e - 1
  BY AfterAfterFirst
<1>5. f \in 1 .. Len(vs) + 1 /\ e \in 1 .. Len(u) + 1 /\ g \in 1 .. Len(vs) + 1
  BY <1>0, <1>1, FirstAfterIs
<1>6. /\ StartOf(vs, f) \in Nat /\ StartOf(vs, g) \in Nat
      /\ StartOf(u, e) = IF e = 1 THEN 0 ELSE StartOf(vs, f + e - 1) - a
  BY <1>5, StartOfType, AfterStart
<1> HIDE DEF f, u, e, g, x, y
<1>7. Len(vs) \in Nat /\ Len(u) \in Nat /\ Len(x) = Len(y) /\ (g <= Len(vs) <=> e <= Len(u))
  <2>1. Len(vs) \in Nat /\ Len(u) \in Nat
    BY <1>1
  <2>2. Len(u) = Len(vs) + 1 - f /\ Len(y) = Len(vs) + 1 - g /\ Len(x) = Len(u) + 1 - e
    BY <1>1, <1>2, <1>3
  <2>3. QED
    BY <1>4, <1>5, <2>1, <2>2
<1>8. ASSUME NEW i \in 2 .. Len(x)
      PROVE  x[i] = y[i]
  <2>0. Len(u) = Len(vs) + 1 - f /\ Len(y) = Len(vs) + 1 - g /\ Len(x) = Len(u) + 1 - e
    BY <1>1, <1>2, <1>3
  <2>1. i \in 2 .. Len(u) + 1 - e /\ i \in 2 .. Len(vs) + 1 - g
          /\ e + i - 1 \in 2 .. Len(vs) + 1 - f
        /\ f + (e + i - 1) - 1 = g + i - 1
    BY <1>4, <1>5, <1>7, <2>0
  <2>2. x[i] = u[e + i - 1] /\ y[i] = vs[g + i - 1]
    BY <1>2, <1>3, <2>1
  <2>3. u[e + i - 1] = vs[f + (e + i - 1) - 1]
    BY <1>1, <2>1
  <2>4. QED
    BY <2>1, <2>2, <2>3
<1>9. ASSUME 1 <= Len(x)
      PROVE  x[1] = y[1]
  <2>0. Len(u) = Len(vs) + 1 - f /\ Len(y) = Len(vs) + 1 - g /\ Len(x) = Len(u) + 1 - e
    BY <1>1, <1>2, <1>3
  <2>1. e <= Len(u) /\ g <= Len(vs) /\ f <= Len(vs) /\ f \in 1 .. Len(vs) /\ g \in 1 .. Len(vs)
    BY <1>4, <1>5, <1>7, <1>9, <2>0
  <2>2. /\ x[1] = [u[e] EXCEPT !.off = u[e].off + d, !.len = u[e].len - d]
        /\ y[1] = [vs[g] EXCEPT !.off = vs[g].off + z, !.len = vs[g].len - z]
        /\ u[1] = [vs[f] EXCEPT !.off = vs[f].off + c, !.len = vs[f].len - c]
    BY <1>1, <1>2, <1>3, <2>1
  <2>3. vs[f] \in Vec /\ vs[g] \in Vec
    BY <2>1, VecType
  <2>4. CASE e = 1
    <3>1. g = f /\ c \in Int /\ d \in Int /\ z = c + d
      BY <1>4, <1>5, <1>6, <2>4
    <3> HIDE DEF c, d, z
    <3>2. x[1] = [vs[f] EXCEPT !.off = vs[f].off + (c + d), !.len = vs[f].len - (c + d)]
      <4> DEFINE w == u[1]
      <4>1. w = [vs[f] EXCEPT !.off = vs[f].off + c, !.len = vs[f].len - c]
        BY <2>2
      <4>2. x[1] = [w EXCEPT !.off = w.off + d, !.len = w.len - d]
        BY <2>2, <2>4
      <4> HIDE DEF w
      <4>3. QED
        <5> DEFINE v == vs[f]
        <5>1. v \in Vec /\ w = [v EXCEPT !.off = v.off + c, !.len = v.len - c]
          BY <2>3, <4>1
        <5> HIDE DEF v
        <5>2. [w EXCEPT !.off = w.off + d, !.len = w.len - d]
                = [v EXCEPT !.off = v.off + (c + d), !.len = v.len - (c + d)]
          <6>1. v.off \in Int /\ v.len \in Int
            BY <5>1 DEF Vec
          <6>2. w.off = v.off + c /\ w.len = v.len - c
            BY <5>1 DEF Vec
          <6>3. w.off + d = v.off + (c + d) /\ w.len - d = v.len - (c + d)
            BY <3>1, <6>1, <6>2
          <6>4. QED
            BY <5>1, <6>3 DEF Vec
        <5>3. QED
          BY <4>2, <5>2 DEF v
    <3>3. QED
      BY <2>2, <3>1, <3>2
  <2>5. CASE e # 1
    <3>1. StartOf(u, e) = StartOf(vs, g) - a
      BY <1>4, <1>6, <2>5
    <3>2. d = z
      BY <1>6, <3>1
    <3>3. e \in 2 .. Len(vs) + 1 - f /\ f + e - 1 = g
      BY <1>4, <1>5, <2>0, <2>1, <2>5, <1>7
    <3>4. u[e] = vs[g]
      BY <1>1, <3>3
    <3> HIDE DEF c, d, z
    <3>5. QED
      BY <2>2, <3>2, <3>4
  <2>6. QED
    BY <2>4, <2>5
<1>10. \A i \in 1 .. Len(x) : x[i] = y[i]
  BY <1>8, <1>9, <1>7
<1>11. x = y
  BY <1>2, <1>3, <1>7, <1>10
<1>12. QED
  BY <1>11 DEF x, y, u

(* The data left has the length that was left.                             *)
LEMMA AfterTotal ==
  ASSUME NEW vs \in Seq(Vec), NEW n \in Nat, n <= StartOf(vs, Len(vs) + 1)
  PROVE  StartOf(VecsAfter(vs, n), Len(VecsAfter(vs, n)) + 1) = StartOf(vs, Len(vs) + 1) - n
<1> DEFINE f == FirstAfter(vs, n)
           u == VecsAfter(vs, n)
<1>1. u \in Seq(Vec) /\ Len(u) = Len(vs) + 1 - f
  BY AfterType
<1>2. /\ f \in 1 .. Len(vs) + 1
      /\ f = Len(vs) + 1 => StartOf(vs, Len(vs) + 1) <= n
  BY FirstAfterIs
<1>3. \A i \in 1 .. Len(u) + 1 : StartOf(u, i) = IF i = 1 THEN 0 ELSE StartOf(vs, f + i - 1) - n
  BY AfterStart
<1> HIDE DEF f, u
<1>4. Len(vs) \in Nat /\ Len(u) \in Nat /\ Len(u) + 1 \in 1 .. Len(u) + 1
        /\ f + (Len(u) + 1) - 1 = Len(vs) + 1
      /\ StartOf(vs, Len(vs) + 1) \in Nat
  <2>1. Len(vs) \in Nat /\ Len(u) \in Nat /\ Len(vs) + 1 \in 1 .. Len(vs) + 1
    BY <1>1
  <2>2. Len(u) = Len(vs) + 1 - f
    BY <1>1
  <2>3. StartOf(vs, Len(vs) + 1) \in Nat
    BY <2>1, StartOfType
  <2>4. QED
    BY <1>2, <2>1, <2>2, <2>3
<1>5. CASE Len(u) = 0
  <2>1. f = Len(vs) + 1
    BY <1>1, <1>2, <1>4, <1>5
  <2>2. StartOf(vs, Len(vs) + 1) = n
    BY <1>2, <1>4, <2>1
  <2>3. Len(u) + 1 = 1
    BY <1>5
  <2>4. StartOf(u, Len(u) + 1) = 0
    BY <1>3, <1>4, <2>3
  <2>5. QED
    BY <1>4, <2>2, <2>4 DEF u
<1>6. CASE Len(u) # 0
  <2>1. Len(u) + 1 # 1
    BY <1>4, <1>6
  <2>2. StartOf(u, Len(u) + 1) = StartOf(vs, f + (Len(u) + 1) - 1) - n
    BY <1>3, <1>4, <2>1
  <2>3. QED
    BY <1>4, <2>2 DEF u
<1>7. QED
  BY <1>5, <1>6

(* Quotient and remainder, for a divisor that is a limit of the device.    *)
LEMMA DivMod ==
  ASSUME NEW a \in Int, NEW d \in Nat \ {0}
  PROVE  a % d \in 0 .. d - 1 /\ a \div d \in Int /\ a = d * (a \div d) + (a % d)
OBVIOUS

(* The remainder is the only one in its range,                             *)
LEMMA ModUnique ==
  ASSUME NEW d \in Nat \ {0}, NEW q \in Int, NEW r \in 0 .. d - 1
  PROVE  (d * q + r) % d = r
<1> DEFINE a == d * q + r
           e == a \div d
           m == a % d
<1>1. a \in Int
  OBVIOUS
<1>2. m \in 0 .. d - 1 /\ d * q + r = d * e + m /\ e \in Int
  <2> HIDE DEF a
  <2>1. m \in 0 .. d - 1 /\ a = d * e + m /\ e \in Int
    BY <1>1, DivMod
  <2>2. QED
    BY <2>1 DEF a
<1> HIDE DEF e, m
<1>3. d * (q - e) = m - r
  BY <1>2
<1>4. q - e = 0
  <2>1. CASE q - e >= 1
    <3>1. d * (q - e) >= d
      BY <1>2, <2>1
    <3>2. QED
      BY <1>2, <1>3, <3>1
  <2>2. CASE q - e <= -1
    <3>1. d * (q - e) <= -d
      BY <1>2, <2>2
    <3>2. QED
      BY <1>2, <1>3, <3>1
  <2>3. QED
    BY <1>2, <2>1, <2>2
<1>5. m = r
  BY <1>2, <1>3, <1>4
<1>6. QED
  BY <1>5 DEF m, a

(* and the quotient the only one that goes with it.                        *)
LEMMA DivUnique ==
  ASSUME NEW d \in Nat \ {0}, NEW q \in Int, NEW r \in 0 .. d - 1
  PROVE  (d * q + r) \div d = q
<1> DEFINE a == d * q + r
           e == a \div d
           m == a % d
<1>1. a \in Int
  OBVIOUS
<1>2. m = r
  BY ModUnique
<1>3. e \in Int /\ a = d * e + m
  BY <1>1, DivMod
<1> HIDE DEF e, m
<1>4. d * (q - e) = 0
  BY <1>2, <1>3
<1>5. q - e = 0
  BY <1>3, <1>4
<1>6. q = e
  BY <1>3, <1>5
<1>7. QED
  BY <1>6 DEF e

(* Multiples of d are those with remainder 0.                              *)
LEMMA Multiple ==
  ASSUME NEW a \in Int, NEW d \in Nat \ {0}
  PROVE  a % d = 0 <=> \E q \in Int : a = d * q
<1>1. ASSUME a % d = 0
      PROVE  \E q \in Int : a = d * q
  <2>1. a = d * (a \div d) + 0 /\ a \div d \in Int
    BY <1>1, DivMod
  <2>2. QED
    BY <2>1
<1>2. ASSUME NEW q \in Int, a = d * q
      PROVE  a % d = 0
  <2>1. 0 \in 0 .. d - 1 /\ (d * q + 0) % d = 0
    BY ModUnique
  <2>2. d * q + 0 = a
    BY <1>2
  <2>3. QED
    BY <2>1, <2>2
<1>3. QED
  BY <1>1, <1>2

(* Sums and differences of multiples, and multiples of multiples.          *)
LEMMA MultipleSum ==
  ASSUME NEW d \in Nat \ {0}, NEW a \in Int, NEW b \in Int, a % d = 0, b % d = 0
  PROVE  (a + b) % d = 0 /\ (a - b) % d = 0
<1>1. PICK p \in Int : a = d * p
  BY Multiple
<1>2. PICK q \in Int : b = d * q
  BY Multiple
<1>3. a + b \in Int /\ a - b \in Int /\ a + b = d * (p + q) /\ a - b = d * (p - q)
        /\ p + q \in Int /\ p - q \in Int
  BY <1>1, <1>2
<1>4. (\E x \in Int : a + b = d * x) /\ (\E x \in Int : a - b = d * x)
  BY <1>3
<1>5. QED
  BY <1>3, <1>4, Multiple

(* A multiple of a multiple is one.                                        *)
LEMMA MultipleOf ==
  ASSUME NEW d \in Nat \ {0}, NEW e \in Nat \ {0}, NEW a \in Int, e % d = 0, a % e = 0
  PROVE  a % d = 0
<1>1. PICK p \in Int : e = d * p
  BY Multiple
<1>2. PICK q \in Int : a = e * q
  BY Multiple
<1>3. a = d * (p * q) /\ p * q \in Int
  BY <1>1, <1>2
<1>4. QED
  BY <1>3, Multiple

(* What round_down leaves: a multiple, at most one divisor below.          *)
LEMMA RoundDownIs ==
  ASSUME NEW a \in Int, NEW d \in Nat \ {0}
  PROVE  /\ RoundDown(a, d) \in Int /\ RoundDown(a, d) % d = 0
         /\ RoundDown(a, d) <= a /\ a < RoundDown(a, d) + d
         /\ a >= 0 => RoundDown(a, d) >= 0
<1> DEFINE q == a \div d
           r == a % d
<1>1. r \in 0 .. d - 1 /\ q \in Int /\ a = d * q + r
  BY DivMod
<1> HIDE DEF q, r
<1>2. RoundDown(a, d) = d * q
  BY <1>1 DEF RoundDown, r
<1>3. d * q \in Int
  BY <1>1
<1>4. RoundDown(a, d) % d = 0
  BY <1>1, <1>2, <1>3, Multiple
<1>5. a >= 0 => d * q >= 0
  <2>1. SUFFICES ASSUME a >= 0, q <= -1
                 PROVE  FALSE
    BY <1>1
  <2>2. d * q <= -d
    BY <1>1, <2>1
  <2>3. QED
    BY <1>1, <2>1, <2>2
<1>6. QED
  BY <1>1, <1>2, <1>3, <1>4, <1>5

(* A remainder by a multiple of d leaves what divides d.                   *)
LEMMA ModMultiple ==
  ASSUME NEW d \in Nat \ {0}, NEW e \in Nat \ {0}, NEW a \in Int, e % d = 0, a % d = 0
  PROVE  (a % e) % d = 0
<1>1. RoundDown(a, e) \in Int /\ RoundDown(a, e) % e = 0
  BY RoundDownIs
<1>2. RoundDown(a, e) % d = 0
  BY <1>1, MultipleOf
<1>3. (a - RoundDown(a, e)) % d = 0
  BY <1>1, <1>2, MultipleSum
<1>4. a % e \in Int
  BY DivMod
<1>5. a - RoundDown(a, e) = a % e
  BY <1>4 DEF RoundDown
<1>6. QED
  BY <1>3, <1>5

-----------------------------------------------------------------------------
(* What the limits are assumed to be, whatever a completion clears.        *)
LimitsOK ==
  /\ lim \in QueueLimits
  /\ lim.pbs % lim.lbs = 0 /\ lim.granularity % lim.lbs = 0
  /\ lim.discard_alignment % lim.lbs = 0 /\ lim.zone_write_granularity % lim.lbs = 0
  /\ lim.seg_boundary % PageSize = 0 \/ PageSize % lim.seg_boundary = 0

Scanning == {"vec", "segs", "segs_done", "cut"}
Discards == {"discard", "secure_erase"}

BioOK ==
  /\ orig \in Bios /\ op = orig.op
  /\ \A x \in {"atomic", "nowait"} : x \in flags <=> x \in orig.flags
  /\ sector \in Nat /\ size \in Nat /\ sector >= orig.sector
  /\ pc \in {"submit", "done"} \union Scanning
  /\ pc # "done" => status = "ok"

(* Where bio_split_io_at is: what it has counted is the data before the    *)
(* bvec, and a cut is inside the bio.                                      *)
ScanOK ==
  /\ pc \in Scanning => op \in Scans /\ max_bytes \in Nat /\ bytes \in Nat /\ bytes <= max_bytes
  /\ pc = "vec" => k \in 1 .. Len(vecs) + 1 /\ bytes = StartOf(vecs, k)
  /\ pc \in {"segs", "segs_done"} =>
       /\ k \in 1 .. Len(vecs) /\ bytes = StartOf(vecs, k)
       /\ len \in Nat /\ total_len \in Nat
       /\ total_len + len = Min({bv.len, max_bytes - bytes})
  /\ pc = "cut" => bytes < size

(* What has been tested stays true, and cuts are made where they may be.   *)
CutOK ==
  /\ pc \in Scanning \/ pieces # <<>> => ~ bio_unaligned
  /\ op \in Scans /\ Unsplittable /\ pc # "done" => pieces = <<>>
  /\ op \in Discards /\ pc = "submit" /\ pieces # <<>>
       => (sector - lim.discard_alignment) % lim.granularity = 0

TypeInv == LimitsOK /\ BioOK /\ ScanOK /\ (\E S : pieces \in Seq(S))
Inv == TypeInv /\ CutOK /\ Conserved /\ CutsAligned

-----------------------------------------------------------------------------
(* What is known of the bio that was submitted.                            *)
LEMMA OrigOK ==
  ASSUME BioOK
  PROVE  /\ orig.sector \in Nat /\ orig.size \in Nat /\ orig.vecs \in Seq(Vec)
         /\ op \in Scans => orig.size = StartOf(orig.vecs, Len(orig.vecs) + 1)
         /\ op \notin Scans => orig.vecs = <<>>
BY BiosAssumption DEF BioOK

(* The vectors of a bio hold no more than its size.                        *)
LEMMA OrigTotal ==
  ASSUME BioOK
  PROVE  StartOf(orig.vecs, Len(orig.vecs) + 1) \in Nat
           /\ StartOf(orig.vecs, Len(orig.vecs) + 1) <= orig.size
<1>1. CASE op \in Scans
  BY <1>1, OrigOK
<1>2. CASE op \notin Scans
  <2>1. orig.vecs = <<>> /\ orig.vecs \in Seq(Vec)
    BY <1>2, OrigOK
  <2>2. Len(orig.vecs) + 1 = 1
    BY <2>1
  <2>3. StartOf(orig.vecs, 1) = 0
    BY <2>1, StartOfNext
  <2>4. QED
    BY <2>2, <2>3, OrigOK
<1>3. QED
  BY <1>1, <1>2

(* What is left of it.                                                     *)
LEMMA RestOK ==
  ASSUME BioOK, Conserved
  PROVE  vecs \in Seq(Vec) /\ (op \in Scans => size = StartOf(vecs, Len(vecs) + 1))
<1> DEFINE n == sector - orig.sector
           vs == orig.vecs
<1>2. n \in Nat /\ vs \in Seq(Vec) /\ n + size = orig.size /\ size \in Nat
  <2>1. sector + size = orig.sector + orig.size
    BY DEF Conserved
  <2>2. sector \in Nat /\ size \in Nat /\ sector >= orig.sector
    BY DEF BioOK
  <2>3. orig.sector \in Nat /\ orig.size \in Nat /\ orig.vecs \in Seq(Vec)
    BY OrigOK
  <2>4. QED
    BY <2>1, <2>2, <2>3
<1>3. vecs = VecsAfter(vs, n)
  BY DEF Conserved
<1>4. op \in Scans => orig.size = StartOf(vs, Len(vs) + 1)
  BY OrigOK
<1>5. op \in Scans => size = StartOf(vs, Len(vs) + 1) - n /\ n <= StartOf(vs, Len(vs) + 1)
  BY <1>2, <1>4
<1> HIDE DEF n, vs
<1>6. vecs \in Seq(Vec)
  BY <1>2, <1>3, AfterType
<1>7. op \in Scans => StartOf(vecs, Len(vecs) + 1) = StartOf(vs, Len(vs) + 1) - n
  BY <1>2, <1>3, <1>5, AfterTotal
<1>8. QED
  BY <1>5, <1>6, <1>7

(* The steps of Inv, by what they do to the bio. First a failure.          *)
LEMMA FailKeeps ==
  ASSUME Inv, pc # "done", NEW error, Fail(error), error # "warned",
         error = "unaligned" => pieces = <<>>
  PROVE  Inv'
<1>1. UNCHANGED <<lim, bioVars, iterVars, scanVars, segVars,
        pieces>> /\ status' = error /\ pc' = "done"
  BY DEF Fail
<1>2. LimitsOK' /\ BioOK' /\ ScanOK' /\ (\E S : pieces' \in Seq(S))
  BY <1>1 DEF Inv, TypeInv, LimitsOK, BioOK, ScanOK, Scanning, bioVars, iterVars, scanVars, segVars
<1>3. CutOK'
  BY <1>1 DEF Inv, CutOK, Scanning, Unsplittable, bio_unaligned, bioVars, iterVars, scanVars,
      segVars
<1>4. Conserved'
  BY <1>1, Zenon DEF Inv, Conserved, EndOf, Unsplittable, bioVars, iterVars, scanVars, segVars
<1>5. CutsAligned'
  BY <1>1 DEF Inv, CutsAligned, bioVars, iterVars, scanVars, segVars
<1>6. QED
  BY <1>2, <1>3, <1>4, <1>5 DEF Inv, TypeInv

(* A step of the scan changes only where the scan is.                      *)
LEMMA ScanKeeps ==
  ASSUME Inv, pc # "done", pc' \in Scanning, ~ bio_unaligned, ScanOK',
         UNCHANGED <<lim, bioVars, iterVars, pieces, status>>
  PROVE  Inv'
<1>1. LimitsOK' /\ BioOK' /\ (\E S : pieces' \in Seq(S))
  BY DEF Inv, TypeInv, LimitsOK, BioOK, Scanning, bioVars, iterVars
<1>2. CutOK'
  BY DEF Inv, CutOK, Scanning, Unsplittable, bio_unaligned, bioVars, iterVars
<1>3. Conserved'
  BY Zenon DEF Inv, Conserved, EndOf, Unsplittable, bioVars, iterVars
<1>4. CutsAligned'
  BY DEF Inv, CutsAligned, bioVars, iterVars
<1>5. QED
  BY <1>1, <1>2, <1>3, <1>4 DEF Inv, TypeInv

(* What Conserved says of the pieces, one by one.                          *)
Tiles(ps, o, i) ==
  /\ ps[i].sector = (IF i = 1 THEN o.sector ELSE ps[i - 1].sector + ps[i - 1].size)
  /\ ps[i].vecs = VecsBefore(VecsAfter(o.vecs, ps[i].sector - o.sector), ps[i].size)

(* Conserved, piece by piece.                                              *)
LEMMA ConservedIs ==
  ASSUME NEW S, pieces \in Seq(S)
  PROVE  Conserved <=>
           /\ \A i \in 1 .. Len(pieces) : Tiles(pieces, orig, i)
           /\ sector = EndOf(Len(pieces)) /\ sector + size = orig.sector + orig.size
           /\ vecs = VecsAfter(orig.vecs, sector - orig.sector)
           /\ status # "warned"
           /\ op \in Scans /\ Unsplittable => \A i \in 1 .. Len(pieces) : pieces[i].size = orig.size
<1>1. DOMAIN pieces = 1 .. Len(pieces)
  OBVIOUS
<1>2. ASSUME NEW i \in 1 .. Len(pieces)
      PROVE  EndOf(i - 1) = IF i = 1 THEN orig.sector ELSE pieces[i - 1].sector + pieces[i - 1].size
  BY DEF EndOf
<1>3. QED
  BY <1>1, <1>2 DEF Conserved, Tiles

(* Adding a piece that begins where the bio now begins.                    *)
LEMMA PieceKeeps ==
  ASSUME NEW S, pieces \in Seq(S), BioOK, Conserved, NEW p, NEW n \in Nat,
         p.sector = sector, p.size = n, p.vecs = VecsBefore(vecs, n),
         pieces' = Append(pieces, p), sector' = sector + n, size' = size - n, n <= size,
         vecs' = VecsAfter(orig.vecs, sector' - orig.sector),
         UNCHANGED <<op, orig>>, status' # "warned",
         op \in Scans /\ Unsplittable => pieces = <<>> /\ n = size
  PROVE  Conserved'
<1>1. /\ \E R : pieces' \in Seq(R)
      /\ Len(pieces) \in Nat /\ Len(pieces') = Len(pieces) + 1
      /\ pieces'[Len(pieces) + 1] = p
      /\ \A i \in 1 .. Len(pieces) : pieces'[i] = pieces[i]
  <2> DEFINE R == S \union {p}
  <2>1. pieces \in Seq(R) /\ p \in R
    OBVIOUS
  <2> HIDE DEF R
  <2>2. pieces' \in Seq(R) /\ Len(pieces) \in Nat /\ Len(pieces') = Len(pieces) + 1
        /\ pieces'[Len(pieces) + 1] = p /\ \A i \in 1 .. Len(pieces) : pieces'[i] = pieces[i]
    BY <2>1
  <2>3. QED
    BY <2>2
<1>2. PICK R : pieces' \in Seq(R)
  BY <1>1
<1>3. /\ \A i \in 1 .. Len(pieces) : Tiles(pieces, orig, i)
      /\ sector = EndOf(Len(pieces)) /\ sector + size = orig.sector + orig.size
      /\ vecs = VecsAfter(orig.vecs, sector - orig.sector)
  BY ConservedIs
<1>4. \A i \in 1 .. Len(pieces') : Tiles(pieces', orig', i)
  <2>1. SUFFICES ASSUME NEW i \in 1 .. Len(pieces')
                 PROVE  Tiles(pieces', orig', i)
    OBVIOUS
  <2>2. CASE i \in 1 .. Len(pieces)
    <3>1. Tiles(pieces, orig, i) /\ pieces'[i] = pieces[i]
            /\ (i # 1 => pieces'[i - 1] = pieces[i - 1])
      BY <1>1, <1>3, <2>2
    <3>2. QED
      BY <3>1 DEF Tiles
  <2>3. CASE i = Len(pieces) + 1
    <3>1. pieces'[i] = p /\ (i # 1 => pieces'[i - 1] = pieces[i - 1] /\ i - 1 = Len(pieces)
            /\ Len(pieces) # 0)
      BY <1>1, <2>3
    <3>2. sector = IF i = 1 THEN orig.sector ELSE pieces'[i - 1].sector + pieces'[i - 1].size
      BY <1>1, <1>3, <2>3, <3>1 DEF EndOf
    <3>3. QED
      BY <1>3, <3>1, <3>2 DEF Tiles
  <2>4. QED
    BY <1>1, <2>1, <2>2, <2>3
<1>5. sector' = EndOf(Len(pieces))'
  <2>1. EndOf(Len(pieces))' = p.sector + p.size
    BY <1>1 DEF EndOf
  <2>2. QED
    BY <2>1
<1>6. sector' + size' = orig'.sector + orig'.size
  <2>1. sector \in Nat /\ size \in Nat
    BY DEF BioOK
  <2>2. QED
    BY <1>3, <2>1
<1>7. (op \in Scans /\ Unsplittable)' => \A i \in 1 .. Len(pieces') : pieces'[i].size = orig'.size
  <2>1. SUFFICES ASSUME op \in Scans, Unsplittable, NEW i \in 1 .. Len(pieces')
                 PROVE  pieces'[i].size = orig.size
    BY DEF Unsplittable
  <2>2. pieces = <<>> /\ n = size
    BY <2>1
  <2>3. Len(pieces) = 0 /\ i = 1 /\ pieces'[i] = p
    BY <1>1, <2>2
  <2>4. sector = orig.sector
    BY <1>3, <2>3 DEF EndOf
  <2>5. size = orig.size
    <3>1. sector \in Nat /\ size \in Nat /\ orig.size \in Nat
      BY OrigOK DEF BioOK
    <3>2. QED
      <4>1. orig.sector \in Nat
        BY OrigOK
      <4>2. sector + size = orig.sector + orig.size
        BY <1>3
      <4>3. \A a, b, c, d \in Nat : a = c /\ a + b = c + d => b = d
        OBVIOUS
      <4>4. QED
        BY <2>4, <3>1, <4>1, <4>2, <4>3
  <2>6. QED
    BY <2>2, <2>3, <2>5
<1>8. QED
  <2>1. DOMAIN pieces' = 1 .. Len(pieces')
    BY <1>2
  <2>2. ASSUME NEW i \in DOMAIN pieces'
        PROVE  /\ pieces'[i].sector = EndOf(i - 1)'
               /\ pieces'[i].vecs
                    = VecsBefore(VecsAfter(orig'.vecs, pieces'[i].sector - orig'.sector), pieces'[i].size)
    <3>1. Tiles(pieces', orig', i) /\ (i - 1 = 0 <=> i = 1)
      BY <1>1, <1>4, <2>1
    <3>2. QED
      BY <3>1 DEF Tiles, EndOf
  <2>3. QED
    BY <1>5, <1>6, <1>7, <2>1, <2>2, Zenon DEF Conserved

(* The next part of a discard begins where the device wants it.            *)
LEMMA DiscardsAligned ==
  ASSUME NEW S, pieces \in Seq(S), BioOK, ScanOK, CutOK, CutsAligned, pc # "done",
         NEW p, p.sector = sector, pieces' = Append(pieces, p),
         UNCHANGED <<op, lim>>, status' # "unaligned"
  PROVE  CutsAligned'
<1>1. /\ Len(pieces) \in Nat /\ Len(pieces') = Len(pieces) + 1
      /\ pieces'[Len(pieces) + 1] = p /\ \A i \in 1 .. Len(pieces) : pieces'[i] = pieces[i]
  <2> DEFINE R == S \union {p}
  <2>1. pieces \in Seq(R) /\ p \in R
    OBVIOUS
  <2> HIDE DEF R
  <2>2. QED
    BY <2>1
<1>2. ASSUME op \in Discards, NEW i \in 2 .. Len(pieces')
      PROVE  (pieces'[i].sector - lim.discard_alignment) % lim.granularity = 0
  <2>1. CASE i \in 2 .. Len(pieces)
    <3>1. pieces'[i] = pieces[i]
      BY <1>1, <2>1
    <3>2. QED
      BY <1>2, <2>1, <3>1 DEF CutsAligned, Discards
  <2>2. CASE i = Len(pieces) + 1
    <3>1. Len(pieces) # 0 /\ pieces'[i] = p
      BY <1>1, <2>2
    <3>2. pieces # <<>>
      BY <3>1
    <3>3. pc = "submit"
      BY <1>2 DEF BioOK, ScanOK, Scanning, Scans, Discards
    <3>4. (sector - lim.discard_alignment) % lim.granularity = 0
      BY <1>2, <3>2, <3>3 DEF CutOK
    <3>5. QED
      BY <3>1, <3>4
  <2>3. QED
    BY <1>1, <2>1, <2>2
<1>3. QED
  BY <1>2 DEF CutsAligned, Discards

(* The bio goes out as it is.                                              *)
LEMMA WholeKeeps ==
  ASSUME Inv, pc # "done", ~ bio_unaligned, NEW segs, Whole(segs)
  PROVE  Inv'
<1> DEFINE p == Piece(size, segs, flags)
<1>1. /\ pieces' = Append(pieces, p)
      /\ sector' = sector + size /\ size' = 0 /\ vecs' = <<>> /\ pc' = "done"
      /\ UNCHANGED <<lim, op, flags, orig, status>>
  BY DEF Whole, bioVars
<1>2. p.sector = sector /\ p.size = size /\ p.vecs = VecsBefore(vecs, size)
  BY DEF Piece
<1> HIDE DEF p
<1>3. BioOK /\ ScanOK /\ CutOK /\ Conserved /\ CutsAligned /\ LimitsOK
  BY DEF Inv, TypeInv
<1>4. PICK S : pieces \in Seq(S)
  BY DEF Inv, TypeInv
<1>5. sector \in Nat /\ size \in Nat /\ sector >= orig.sector /\ status = "ok"
  BY <1>3 DEF BioOK
<1>6. orig.sector \in Nat /\ orig.size \in Nat /\ orig.vecs \in Seq(Vec)
  BY <1>3, OrigOK
<1>7. sector' - orig.sector = orig.size
  <2>1. sector + size = orig.sector + orig.size
    BY <1>3 DEF Conserved
  <2>2. QED
    BY <1>1, <1>5, <1>6, <2>1
<1>8. vecs' = VecsAfter(orig.vecs, sector' - orig.sector)
  BY <1>1, <1>3, <1>6, <1>7, OrigTotal, AfterAll
<1>9. Conserved'
  <2>1. op \in Scans /\ Unsplittable => pieces = <<>>
    BY <1>3 DEF CutOK
  <2>2. size' = size - size /\ size <= size
    BY <1>1, <1>5
  <2>3. status' # "warned"
    BY <1>1, <1>5
  <2>4. QED
    BY <1>1, <1>2, <1>3, <1>4, <1>5, <1>8, <2>1, <2>2, <2>3, PieceKeeps
<1>10. CutsAligned'
  <2>1. status' # "unaligned"
    BY <1>1, <1>5
  <2>2. QED
    BY <1>1, <1>2, <1>3, <1>4, <2>1, DiscardsAligned
<1>11. CutOK'
  <2>1. lim.lbs \in Nat \ {0}
    BY <1>3 DEF LimitsOK, QueueLimits
  <2>2. (sector + size) % lim.lbs = 0
    BY <1>5, <2>1, MultipleSum DEF bio_unaligned
  <2>3. 0 % lim.lbs = 0
    BY <2>1
  <2>4. ~ bio_unaligned'
    BY <1>1, <2>2, <2>3 DEF bio_unaligned
  <2>5. QED
    BY <1>1, <2>4 DEF CutOK, Scanning
<1>12. LimitsOK' /\ ScanOK'
  BY <1>1, <1>3 DEF LimitsOK, ScanOK, Scanning
<1>13. BioOK'
  <2>1. sector' \in Nat /\ size' \in Nat /\ sector' >= orig.sector
    BY <1>1, <1>5, <1>6
  <2>2. QED
    BY <1>1, <1>3, <2>1 DEF BioOK
<1>14. \E R : pieces' \in Seq(R)
  <2> DEFINE R == S \union {p}
  <2>1. pieces \in Seq(R) /\ p \in R
    BY <1>4
  <2> HIDE DEF R
  <2>2. pieces' \in Seq(R)
    BY <1>1, <2>1
  <2>3. QED
    BY <2>2
<1>15. QED
  BY <1>9, <1>10, <1>11, <1>12, <1>13, <1>14 DEF Inv, TypeInv

(* A piece is cut off inside the bio, at a block.                          *)
LEMMA SplitKeeps ==
  ASSUME Inv, pc # "done", ~ bio_unaligned, NEW segs, NEW fl,
         \A x \in {"atomic", "nowait"} : x \in fl <=> x \in flags,
         ~ (op \in Scans /\ Unsplittable),
         NEW n \in Nat, n < size, n % lim.lbs = 0,
         op \in Discards => (sector + n - lim.discard_alignment) % lim.granularity = 0,
         bio_split(n, segs, fl)
  PROVE  Inv'
<1> DEFINE p == Piece(n, segs, fl \union {"nomerge"})
<1>1. /\ pieces' = Append(pieces, p)
      /\ sector' = sector + n /\ size' = size - n /\ vecs' = VecsAfter(vecs, n) /\ flags' = fl
      /\ (pc' = "submit" /\ status' = status) \/ (pc' = "done" /\ status' = "EIO")
      /\ UNCHANGED <<lim, op, orig>>
  BY DEF bio_split, opVars
<1>2. p.sector = sector /\ p.size = n /\ p.vecs = VecsBefore(vecs, n)
  BY DEF Piece
<1> HIDE DEF p
<1>3. BioOK /\ ScanOK /\ CutOK /\ Conserved /\ CutsAligned /\ LimitsOK
  BY DEF Inv, TypeInv
<1>4. PICK S : pieces \in Seq(S)
  BY DEF Inv, TypeInv
<1>5. sector \in Nat /\ size \in Nat /\ sector >= orig.sector /\ status = "ok"
  BY <1>3 DEF BioOK
<1>6. orig.sector \in Nat /\ orig.size \in Nat /\ orig.vecs \in Seq(Vec)
  BY <1>3, OrigOK
<1>7. status' \in {"ok", "EIO"}
  BY <1>1, <1>5
<1>8. vecs' = VecsAfter(orig.vecs, sector' - orig.sector)
  <2> DEFINE a == sector - orig.sector
  <2>1. a \in Nat /\ sector' - orig.sector = a + n
    BY <1>1, <1>5, <1>6
  <2>2. vecs = VecsAfter(orig.vecs, a)
    BY <1>3 DEF Conserved
  <2> HIDE DEF a
  <2>3. VecsAfter(VecsAfter(orig.vecs, a), n) = VecsAfter(orig.vecs, a + n)
    BY <1>6, <2>1, AfterAfter
  <2>4. QED
    BY <1>1, <2>1, <2>2, <2>3
<1>9. Conserved'
  <2>1. n <= size
    BY <1>5
  <2>2. status' # "warned"
    BY <1>7
  <2>3. QED
    BY <1>1, <1>2, <1>3, <1>4, <1>8, <2>1, <2>2, PieceKeeps
<1>10. CutsAligned'
  <2>1. status' # "unaligned"
    BY <1>7
  <2>2. QED
    BY <1>1, <1>2, <1>3, <1>4, <2>1, DiscardsAligned
<1>11. CutOK'
  <2>1. lim.lbs \in Nat \ {0}
    BY <1>3 DEF LimitsOK, QueueLimits
  <2>2. (sector + n) % lim.lbs = 0 /\ (size - n) % lim.lbs = 0
    BY <1>5, <2>1, MultipleSum DEF bio_unaligned
  <2>3. ~ bio_unaligned'
    BY <1>1, <2>2 DEF bio_unaligned
  <2>4. ~ (op \in Scans /\ Unsplittable)'
    BY <1>1 DEF Unsplittable
  <2>5. op' \in Discards => (sector' - lim'.discard_alignment) % lim'.granularity = 0
    <3>1. sector + n - lim.discard_alignment = (sector + n) - lim.discard_alignment
      BY <1>3, <1>5 DEF LimitsOK, QueueLimits
    <3>2. QED
      BY <1>1, <3>1
  <2>6. QED
    BY <2>3, <2>4, <2>5 DEF CutOK
<1>12. LimitsOK' /\ ScanOK'
  BY <1>1, <1>3 DEF LimitsOK, ScanOK, Scanning
<1>13. BioOK'
  <2>1. sector' \in Nat /\ size' \in Nat /\ sector' >= orig.sector
    BY <1>1, <1>5, <1>6
  <2>2. QED
    BY <1>1, <1>3, <1>5, <2>1 DEF BioOK
<1>14. \E R : pieces' \in Seq(R)
  <2> DEFINE R == S \union {p}
  <2>1. pieces \in Seq(R) /\ p \in R
    BY <1>4
  <2> HIDE DEF R
  <2>2. pieces' \in Seq(R)
    BY <1>1, <2>1
  <2>3. QED
    BY <2>2
<1>15. QED
  BY <1>9, <1>10, <1>11, <1>12, <1>13, <1>14 DEF Inv, TypeInv

(* get_max_io_size is a number, and for write-zeroes a number of blocks.   *)
LEMMA MaxSectorsType ==
  ASSUME LimitsOK, BioOK
  PROVE  MaxSectors \in Nat
<1>1. OpMaxSectors \in Nat /\ blk_boundary_sectors \in Nat /\ sector \in Nat
  BY DEF OpMaxSectors, blk_boundary_sectors, LimitsOK, QueueLimits, BioOK
<1> DEFINE b == blk_boundary_sectors
           m == OpMaxSectors
<1>2. MaxSectors = IF b = 0 THEN m ELSE Min({m, b - (sector % b)})
  BY DEF MaxSectors
<1> HIDE DEF b, m
<1>3. b # 0 => b - (sector % b) \in Nat
  <2>1. SUFFICES ASSUME b # 0
                 PROVE  b - (sector % b) \in Nat
    OBVIOUS
  <2>2. b \in Nat \ {0}
    BY <1>1, <2>1 DEF b
  <2>3. sector % b \in 0 .. b - 1
    BY <1>1, <2>2, DivMod
  <2>4. QED
    BY <2>2, <2>3
<1>4. m \in Nat
  BY <1>1 DEF m
<1>5. b # 0 => Min({m, b - (sector % b)}) \in Nat
  BY <1>3, <1>4, MinTwo
<1>6. QED
  BY <1>2, <1>4, <1>5

(* get_max_io_size is a number,                                            *)
LEMMA MaxIoType ==
  ASSUME LimitsOK, BioOK
  PROVE  get_max_io_size \in Nat
<1> DEFINE s == sector % lim.pbs
           m == MaxSectors
           e == RoundDown(s + m, lim.pbs)
           r == RoundDown(m, lim.lbs)
<1>1. lim.pbs \in Nat \ {0} /\ lim.lbs \in Nat \ {0} /\ sector \in Nat
  BY DEF LimitsOK, QueueLimits, BioOK
<1>2. m \in Nat
  BY MaxSectorsType
<1>3. get_max_io_size = CASE RasplitHook -> RASPLIT_TARGET_SECTORS \div 2
                          [] ~ RasplitHook /\ e > s -> e - s
                          [] OTHER -> r
  BY DEF get_max_io_size
<1>4. s \in Nat
  <2>1. sector \in Int /\ \A x : x \in 0 .. lim.pbs - 1 => x \in Nat
    BY <1>1
  <2>2. s \in 0 .. lim.pbs - 1
    BY <1>1, <2>1, DivMod
  <2>3. QED
    BY <2>1, <2>2
<1> HIDE DEF s, m
<1>5. e \in Int /\ r \in Nat
  <2>1. s + m \in Int
    BY <1>2, <1>4
  <2>2. e \in Int
    BY <1>1, <2>1, RoundDownIs
  <2>3. r \in Int /\ r >= 0
    <3>1. m \in Int /\ m >= 0
      BY <1>2
    <3>2. QED
      BY <1>1, <3>1, RoundDownIs
  <2>4. QED
    BY <2>2, <2>3
<1> HIDE DEF e, r
<1>6. RASPLIT_TARGET_SECTORS \div 2 \in Nat
  BY SizesAssumption
<1>7. e > s => e - s \in Nat
  BY <1>4, <1>5
<1>8. QED
  BY <1>3, <1>5, <1>6, <1>7

(* and without the hook a number of logical blocks.                        *)
LEMMA MaxIoBlocks ==
  ASSUME LimitsOK, BioOK, ~ bio_unaligned, ~ RasplitHook
  PROVE  get_max_io_size % lim.lbs = 0
<1> DEFINE s == sector % lim.pbs
           m == MaxSectors
           e == RoundDown(s + m, lim.pbs)
           r == RoundDown(m, lim.lbs)
<1>1. /\ lim.pbs \in Nat \ {0} /\ lim.lbs \in Nat \ {0} /\ sector \in Nat
      /\ lim.pbs % lim.lbs = 0 /\ sector % lim.lbs = 0
  BY DEF LimitsOK, QueueLimits, BioOK, bio_unaligned
<1>2. m \in Nat
  BY MaxSectorsType
<1>3. get_max_io_size = IF e > s THEN e - s ELSE r
  BY DEF get_max_io_size
<1>4. s \in Nat /\ s % lim.lbs = 0
  <2>1. sector \in Int /\ \A x : x \in 0 .. lim.pbs - 1 => x \in Nat
    BY <1>1
  <2>2. s \in 0 .. lim.pbs - 1
    BY <1>1, <2>1, DivMod
  <2>3. s % lim.lbs = 0
    BY <1>1, <2>1, ModMultiple
  <2>4. QED
    BY <2>1, <2>2, <2>3
<1> HIDE DEF s, m
<1>5. e \in Int /\ e % lim.lbs = 0
  <2>1. s + m \in Int
    BY <1>2, <1>4
  <2>2. e \in Int /\ e % lim.pbs = 0
    BY <1>1, <2>1, RoundDownIs
  <2> HIDE DEF e
  <2>3. QED
    BY <1>1, <2>2, MultipleOf
<1>6. r % lim.lbs = 0
  BY <1>1, <1>2, RoundDownIs
<1> HIDE DEF e, r
<1>7. (e - s) % lim.lbs = 0
  BY <1>1, <1>4, <1>5, MultipleSum
<1>8. QED
  BY <1>3, <1>6, <1>7

(* The cut of a discard: at a block, and so that the next part begins on   *)
(* the granularity.                                                        *)
LEMMA MaxDiscardType ==
  ASSUME LimitsOK, BioOK
  PROVE  MaxDiscard \in Nat /\ MaxDiscard % lim.granularity = 0
<1> DEFINE m == IF op = "secure_erase" THEN lim.max_secure_erase ELSE lim.max_discard
           c == RoundDown(BIO_MAX_SECTORS, lim.lbs)
           n == Min({m, c})
<1>1. MaxDiscard = RoundDown(n, lim.granularity)
  BY DEF MaxDiscard
<1>2. m \in Nat /\ lim.lbs \in Nat \ {0} /\ lim.granularity \in Nat \ {0}
  BY DEF LimitsOK, QueueLimits
<1>3. c \in Int /\ c >= 0
  <2>1. BIO_MAX_SECTORS \in Int /\ BIO_MAX_SECTORS >= 0
    BY SizesAssumption
  <2>2. QED
    BY <1>2, <2>1, RoundDownIs
<1> HIDE DEF m, c
<1>4. n \in Nat
  BY <1>2, <1>3, MinTwo
<1> HIDE DEF n
<1>5. RoundDown(n, lim.granularity) \in Int /\ RoundDown(n, lim.granularity) % lim.granularity = 0
      /\ RoundDown(n, lim.granularity) >= 0
  BY <1>2, <1>4, RoundDownIs
<1>6. QED
  BY <1>1, <1>5

(* The cut of a discard is inside the limit, at a block, and so that the   *)
(* next part begins on the granularity.                                    *)
LEMMA DiscardCutIs ==
  ASSUME LimitsOK, BioOK, ~ bio_unaligned, MaxDiscard # 0
  PROVE  /\ DiscardCut \in Nat /\ DiscardCut # 0 /\ DiscardCut <= MaxDiscard
         /\ DiscardCut % lim.lbs = 0
         /\ (sector + DiscardCut - lim.discard_alignment) % lim.granularity = 0
<1> DEFINE g == lim.granularity
           b == lim.lbs
           m == MaxDiscard
           al == lim.discard_alignment
           d == al % g
           x == sector + m - d
           t == x % g
<1>1. /\ g \in Nat \ {0} /\ b \in Nat \ {0} /\ al \in Nat /\ sector \in Nat
      /\ g % b = 0 /\ al % b = 0 /\ sector % b = 0
  BY DEF LimitsOK, QueueLimits, BioOK, bio_unaligned
<1>2. m \in Nat /\ m # 0 /\ m % g = 0
  BY MaxDiscardType
<1>3. DiscardCut = IF m > t THEN m - t ELSE m
  BY DEF DiscardCut
<1> HIDE DEF g, b, m, al
<1>i. al \in Int /\ m \in Int /\ sector \in Int /\ \A y : y \in 0 .. g - 1 => y \in Nat
  BY <1>1, <1>2
<1>4. d \in Nat /\ d % b = 0
  <2>1. d \in 0 .. g - 1
    BY <1>1, <1>i, DivMod
  <2>2. d % b = 0
    BY <1>1, <1>i, ModMultiple
  <2>3. QED
    BY <1>i, <2>1, <2>2
<1>5. m % b = 0
  BY <1>1, <1>2, <1>i, MultipleOf
<1>6. (al - d) % g = 0
  <2>1. RoundDown(al, g) % g = 0
    BY <1>1, RoundDownIs
  <2>2. QED
    BY <2>1 DEF RoundDown
<1> HIDE DEF d
<1>7. x \in Int /\ x % b = 0 /\ x = sector + (m - d)
  <2>0. d \in Int /\ m - d \in Int
    BY <1>4, <1>i
  <2>1. (m - d) % b = 0 /\ m - d \in Int
    BY <1>1, <1>i, <1>4, <1>5, <2>0, MultipleSum
  <2>2. (sector + (m - d)) % b = 0
    BY <1>1, <2>1, MultipleSum
  <2>3. QED
    BY <1>1, <2>1, <2>2
<1>8. (x - t) % g = 0
  <2> HIDE DEF x
  <2>1. RoundDown(x, g) % g = 0
    BY <1>1, <1>7, RoundDownIs
  <2>2. QED
    BY <2>1 DEF RoundDown
<1>9. t \in 0 .. g - 1 /\ t % b = 0
  <2> HIDE DEF x
  <2>1. QED
    BY <1>1, <1>7, DivMod, ModMultiple
<1> HIDE DEF t
<1>10. m >= g
  <2>1. PICK q \in Int : m = g * q
    BY <1>1, <1>2, Multiple
  <2>2. q >= 1
    BY <1>1, <1>2, <2>1
  <2>3. g * q >= g
    BY <1>1, <2>1, <2>2
  <2>4. QED
    BY <2>1, <2>3
<1>11. DiscardCut = m - t /\ m - t \in Nat /\ m - t # 0 /\ m - t <= m
  BY <1>1, <1>2, <1>3, <1>9, <1>10
<1>12. (m - t) % b = 0
  <2>1. t \in Int
    BY <1>9
  <2>2. QED
    BY <1>1, <1>i, <1>5, <1>9, <2>1, MultipleSum
<1>13. (sector + (m - t) - al) % g = 0
  <2>1. ((x - t) - (al - d)) % g = 0
    BY <1>1, <1>4, <1>6, <1>7, <1>8, <1>9, MultipleSum
  <2>2. (x - t) - (al - d) = sector + (m - t) - al
    BY <1>1, <1>2, <1>4, <1>7, <1>9
  <2>3. QED
    BY <2>1, <2>2
<1>14. QED
  BY <1>11, <1>12, <1>13 DEF g, b, m, al

(* The bvec the scan is at lies inside the bio.                            *)
LEMMA BvecInside ==
  ASSUME BioOK, Conserved, op \in Scans, k \in 1 .. Len(vecs)
  PROVE  /\ vecs \in Seq(Vec) /\ bv \in Vec /\ bv.len \in Nat /\ bv.len > 0 /\ bv.off \in Nat
              /\ bv.page \in Nat
         /\ StartOf(vecs, k) \in Nat
         /\ StartOf(vecs, k + 1) = StartOf(vecs, k) + bv.len
         /\ StartOf(vecs, k + 1) <= size
<1>1. vecs \in Seq(Vec) /\ size = StartOf(vecs, Len(vecs) + 1)
  BY RestOK
<1>2. bv \in Vec /\ bv.len \in Nat /\ bv.len > 0 /\ bv.off \in Nat /\ bv.page \in Nat
  BY <1>1, VecType DEF bv
<1>3. StartOf(vecs, k) \in Nat /\ StartOf(vecs, k + 1) = StartOf(vecs, k) + bv.len
  BY <1>1, StartOfType, StartOfNext DEF bv
<1>4. StartOf(vecs, k + 1) <= size
  <2>1. Len(vecs) \in Nat /\ k + 1 \in 1 .. Len(vecs) + 1 /\ Len(vecs) + 1 \in 1 .. Len(vecs) + 1
    BY <1>1
  <2>2. StartOf(vecs, k + 1) \in Nat /\ StartOf(vecs, Len(vecs) + 1) \in Nat
    BY <1>1, <2>1, StartOfType
  <2>3. k + 1 < Len(vecs) + 1 => StartOf(vecs, k + 1) < StartOf(vecs, Len(vecs) + 1)
    BY <1>1, <2>1, StartOfGrows
  <2>4. k + 1 = Len(vecs) + 1 \/ k + 1 < Len(vecs) + 1
    BY <2>1
  <2>5. QED
    BY <1>1, <2>2, <2>3, <2>4
<1>5. QED
  BY <1>1, <1>2, <1>3, <1>4

(* get_max_segment_size lies within what is left.                          *)
LEMMA SegSizeType ==
  ASSUME LimitsOK, NEW phys \in Nat, NEW n \in Nat, n > 0
  PROVE  SegSize(phys, n) \in Nat /\ SegSize(phys, n) <= n /\ SegSize(phys, n) > 0
<1> DEFINE b == lim.seg_boundary
           m == lim.max_segment_size
           c == b - (phys % b)
<1>1. b \in Nat \ {0} /\ m \in Nat \ {0}
  BY DEF LimitsOK, QueueLimits
<1>2. SegSize(phys, n) = Min({n, c, m})
  BY DEF SegSize
<1> HIDE DEF b, m
<1>3. c \in Nat \ {0}
  <2>1. phys \in Int
    OBVIOUS
  <2>2. phys % b \in 0 .. b - 1
    BY <1>1, <2>1, DivMod
  <2>3. QED
    BY <1>1, <2>2
<1> HIDE DEF c
<1>4. Min({n, c, m}) \in {n, c, m} /\ Min({n, c, m}) <= n
  BY <1>1, <1>3, MinThree
<1>5. QED
  BY <1>1, <1>2, <1>3, <1>4

(* bio_split_io_at begins.                                                 *)
LEMMA ScanBeginKeeps ==
  ASSUME Inv, ScanBegin
  PROVE  Inv'
<1>1. /\ pc = "submit" /\ ~ bio_unaligned /\ op \in Scans /\ pc' = "vec"
      /\ max_bytes' = (IF op = "zone_append" THEN lim.max_zone_append ELSE get_max_io_size)
      /\ k' = 1 /\ bytes' = 0
      /\ UNCHANGED <<lim, bioVars, iterVars, pieces, status>>
  BY DEF ScanBegin, SplitToLimits
<1>2. LimitsOK /\ BioOK /\ Conserved
  BY DEF Inv, TypeInv
<1>3. max_bytes' \in Nat
  BY <1>1, <1>2, MaxIoType DEF LimitsOK, QueueLimits
<1>4. vecs \in Seq(Vec) /\ StartOf(vecs, 1) = 0
  BY <1>2, RestOK, StartOfNext
<1>5. 1 \in 1 .. Len(vecs) + 1
  BY <1>4
<1>6. ScanOK'
  BY <1>1, <1>3, <1>4, <1>5 DEF ScanOK, Scanning, bioVars, iterVars
<1>7. QED
  BY <1>1, <1>6, ScanKeeps DEF Scanning

(* It looks at a bvec: a gap, the fast path or the way into                *)
(* bvec_split_segs.                                                        *)
LEMMA VecKeeps ==
  ASSUME Inv, VecGap \/ VecFast \/ VecSlow
  PROVE  Inv'
<1>0. pc = "vec" /\ k <= Len(vecs)
  BY DEF VecGap, VecFast, VecSlow
<1>1. LimitsOK /\ BioOK /\ ScanOK /\ CutOK /\ Conserved
  BY DEF Inv, TypeInv
<1>2. /\ op \in Scans /\ max_bytes \in Nat /\ bytes \in Nat /\ bytes <= max_bytes
      /\ k \in 1 .. Len(vecs) + 1 /\ bytes = StartOf(vecs, k) /\ ~ bio_unaligned
  BY <1>0, <1>1 DEF ScanOK, CutOK, Scanning
<1>3. k \in 1 .. Len(vecs)
  <2>1. vecs \in Seq(Vec)
    BY <1>1, RestOK
  <2>2. Len(vecs) \in Nat
    BY <2>1
  <2>3. QED
    BY <1>0, <1>2, <2>2
<1>4. /\ bv.len \in Nat /\ bv.len > 0
      /\ StartOf(vecs, k + 1) = StartOf(vecs, k) + bv.len
      /\ StartOf(vecs, k + 1) <= size /\ size \in Nat
  BY <1>1, <1>2, <1>3, BvecInside DEF BioOK
<1>5. CASE VecGap
  <2>1. pc' = "cut" /\ UNCHANGED <<lim, bioVars, iterVars, scanVars, segVars, pieces, status>>
    BY <1>5 DEF VecGap
  <2>2. bytes < size
    BY <1>2, <1>4
  <2>3. ScanOK'
    BY <1>2, <2>1, <2>2 DEF ScanOK, Scanning, bioVars, iterVars, scanVars, segVars
  <2>4. QED
    BY <1>0, <1>2, <2>1, <2>3, ScanKeeps DEF Scanning
<1>6. CASE VecFast
  <2>1. /\ bytes' = bytes + bv.len /\ k' = k + 1 /\ pc' = "vec" /\ bytes + bv.len <= max_bytes
        /\ UNCHANGED <<lim, bioVars, iterVars, pc, max_bytes, segVars, pieces, status>>
    BY <1>0, <1>6 DEF VecFast, FitsFast
  <2>2. bytes' \in Nat /\ bytes' = StartOf(vecs, k') /\ k' \in 1 .. Len(vecs) + 1
    BY <1>2, <1>3, <1>4, <2>1
  <2>3. ScanOK'
    BY <1>2, <2>1, <2>2 DEF ScanOK, Scanning, bioVars, iterVars
  <2>4. QED
    BY <1>0, <1>2, <2>1, <2>3, ScanKeeps DEF Scanning
<1>7. CASE VecSlow
  <2>1. /\ len' = Min({bv.len, max_bytes - bytes}) /\ total_len' = 0 /\ pc' = "segs"
        /\ UNCHANGED <<lim, bioVars, iterVars, scanVars, pieces, status>>
    BY <1>7 DEF VecSlow
  <2>2. max_bytes - bytes \in Nat
    BY <1>2
  <2>3. Min({bv.len, max_bytes - bytes}) \in Nat
    BY <1>4, <2>2, MinTwo
  <2>4. bv' = bv
    BY <2>1 DEF bv, scanVars, iterVars
  <2>5. total_len' + len' = Min({bv'.len, max_bytes' - bytes'}) /\ len' \in Nat
          /\ total_len' \in Nat
    BY <2>1, <2>3, <2>4 DEF scanVars
  <2>6. ScanOK'
    BY <1>2, <1>3, <2>1, <2>5 DEF ScanOK, Scanning, bioVars, iterVars, scanVars
  <2>7. QED
    BY <1>0, <1>2, <2>1, <2>6, ScanKeeps DEF Scanning
<1>8. QED
  BY <1>5, <1>6, <1>7

(* A turn of the loop of bvec_split_segs, and its end.                     *)
LEMMA SegKeeps ==
  ASSUME Inv, SegNext \/ SegsDone
  PROVE  Inv'
<1>0. pc \in {"segs", "segs_done"}
  BY DEF SegNext, SegsDone
<1>1. LimitsOK /\ BioOK /\ ScanOK /\ CutOK /\ Conserved
  BY DEF Inv, TypeInv
<1>2. /\ op \in Scans /\ max_bytes \in Nat /\ bytes \in Nat /\ bytes <= max_bytes
      /\ k \in 1 .. Len(vecs) /\ bytes = StartOf(vecs, k) /\ ~ bio_unaligned
      /\ len \in Nat /\ total_len \in Nat
      /\ total_len + len = Min({bv.len, max_bytes - bytes})
  BY <1>0, <1>1 DEF ScanOK, CutOK, Scanning
<1>3. /\ bv.len \in Nat /\ bv.len > 0 /\ bv.off \in Nat /\ bv.page \in Nat
      /\ StartOf(vecs, k + 1) = StartOf(vecs, k) + bv.len
      /\ StartOf(vecs, k + 1) <= size /\ size \in Nat
  BY <1>1, <1>2, BvecInside DEF BioOK
<1>4. CASE SegNext
  <2> DEFINE s == SegSize(bv.page + bv.off + total_len, len)
  <2>1. /\ len > 0 /\ total_len' = total_len + s /\ len' = len - s
        /\ pc' \in {"segs", "segs_done"}
        /\ UNCHANGED <<lim, bioVars, iterVars, max_bytes, k, bytes, pieces, status>>
    BY <1>4 DEF SegNext, SegLoop
  <2>2. bv.page + bv.off + total_len \in Nat
    <3>1. \A a, b, c \in Nat : a + b + c \in Nat
      OBVIOUS
    <3>2. QED
      BY <1>2, <1>3, <3>1
  <2>3. s \in Nat /\ s <= len
    BY <1>1, <1>2, <2>1, <2>2, SegSizeType
  <2> HIDE DEF s
  <2>4. total_len' \in Nat /\ len' \in Nat /\ total_len' + len' = total_len + len
    BY <1>2, <2>1, <2>3
  <2>5. bv' = bv
    BY <2>1 DEF bv, iterVars
  <2>6. ScanOK'
    BY <1>2, <2>1, <2>4, <2>5 DEF ScanOK, Scanning, bioVars, iterVars
  <2>7. QED
    BY <1>0, <1>2, <2>1, <2>6, ScanKeeps DEF Scanning
<1>5. CASE SegsDone
  <2>1. /\ bytes' = bytes + total_len
        /\ IF len > 0 \/ bv.len > max_bytes - bytes
           THEN pc' = "cut" /\ k' = k
           ELSE pc' = "vec" /\ k' = k + 1
        /\ UNCHANGED <<lim, bioVars, iterVars, max_bytes, nsegs, segVars, pieces, status>>
    BY <1>5 DEF SegsDone
  <2> DEFINE l == bv.len
             r == max_bytes - bytes
  <2>2. r \in Nat /\ l \in Nat /\ l > 0 /\ bytes + r = max_bytes
    <3>1. max_bytes \in Nat /\ bytes \in Nat /\ bytes <= max_bytes
      BY <1>2
    <3>2. l \in Nat /\ l > 0
      BY <1>3
    <3> HIDE DEF l
    <3>3. QED
      BY <3>1, <3>2
  <2>3. total_len + len = IF l <= r THEN l ELSE r
    <3>1. total_len + len = Min({l, r})
      BY <1>2
    <3> HIDE DEF l, r
    <3>2. QED
      BY <2>2, <3>1, MinTwo
  <2>f. len > 0 \/ bv.len > max_bytes - bytes <=> len > 0 \/ l > r
    OBVIOUS
  <2>g. StartOf(vecs, k + 1) = bytes + l /\ bytes + l <= size /\ size \in Nat
    BY <1>2, <1>3
  <2> HIDE DEF l, r
  <2>4. bytes' \in Nat /\ bytes' <= max_bytes
    BY <1>2, <2>1, <2>2, <2>3
  <2>5. CASE len > 0 \/ bv.len > max_bytes - bytes
    <3>1. total_len < l
      BY <1>2, <2>2, <2>3, <2>5, <2>f
    <3>2. bytes' < size
      <4>1. bytes' = bytes + total_len /\ bytes \in Nat /\ total_len \in Nat
        BY <1>2, <2>1
      <4>2. QED
        BY <2>2, <2>g, <3>1, <4>1
    <3>3. ScanOK'
      BY <1>2, <2>1, <2>4, <2>5, <3>2 DEF ScanOK, Scanning, bioVars, iterVars
    <3>4. QED
      BY <1>0, <1>2, <2>1, <2>5, <3>3, ScanKeeps DEF Scanning
  <2>6. CASE ~ (len > 0 \/ bv.len > max_bytes - bytes)
    <3>1. total_len = l
      BY <1>2, <2>2, <2>3, <2>6, <2>f
    <3>2. bytes' = StartOf(vecs, k') /\ k' \in 1 .. Len(vecs) + 1
      BY <1>2, <2>1, <2>6, <2>g, <3>1
    <3>3. ScanOK'
      BY <1>2, <2>1, <2>4, <2>6, <3>2 DEF ScanOK, Scanning, bioVars, iterVars
    <3>4. QED
      BY <1>0, <1>2, <2>1, <2>6, <3>3, ScanKeeps DEF Scanning
  <2>7. QED
    BY <2>5, <2>6
<1>6. QED
  BY <1>4, <1>5

(* bio_submit_split with a cut inside the bio.                             *)
LEMMA SubmitSplitKeeps ==
  ASSUME Inv, pc # "done", ~ bio_unaligned, NEW segs, NEW fl,
         \A x \in {"atomic", "nowait"} : x \in fl <=> x \in flags,
         ~ (op \in Scans /\ Unsplittable),
         NEW n \in Nat, n # 0, n < size, n % lim.lbs = 0,
         op \in Discards => (sector + n - lim.discard_alignment) % lim.granularity = 0,
         bio_submit_split(n, segs, fl)
  PROVE  Inv'
<1>1. size \in Nat
  BY DEF Inv, TypeInv, BioOK
<1>2. bio_split(n, segs, fl) \/ Fail("ENOMEM")
  BY <1>1 DEF bio_submit_split
<1>3. CASE bio_split(n, segs, fl)
  BY <1>3, SplitKeeps
<1>4. CASE Fail("ENOMEM")
  BY <1>4, FailKeeps
<1>5. QED
  BY <1>2, <1>3, <1>4

(* The cut of bio_split_io_at is inside the bio and at a block.            *)
LEMMA CutKeeps ==
  ASSUME Inv, CutTaken
  PROVE  Inv'
<1>1. pc = "cut" /\ CutError = "none" /\ bio_submit_split(CutPoint, nsegs, bio_clear_polled)
  BY DEF CutTaken
<1>2. LimitsOK /\ BioOK /\ ScanOK /\ CutOK
  BY DEF Inv, TypeInv
<1>3. op \in Scans /\ bytes \in Nat /\ bytes < size /\ ~ bio_unaligned /\ size \in Nat
  BY <1>1, <1>2 DEF ScanOK, CutOK, Scanning, BioOK
<1>4. "atomic" \notin flags /\ "nowait" \notin flags /\ CutPoint # 0 /\ op # "zone_append"
  BY <1>1 DEF CutError
<1>5. ~ Unsplittable
  BY <1>2, <1>4 DEF Unsplittable, BioOK
<1> DEFINE a == bio_split_alignment
           b == lim.lbs
<1>6. a \in Nat \ {0} /\ a % b = 0 /\ b \in Nat \ {0}
  <2>1. b \in Nat \ {0} /\ lim.zone_write_granularity \in Nat /\ lim.zone_write_granularity % b = 0
    BY <1>2 DEF LimitsOK, QueueLimits
  <2>2. b % b = 0
    <3> HIDE DEF b
    <3>1. b = b * 1 /\ b \in Int
      BY <2>1
    <3>2. QED
      BY <2>1, <3>1, Multiple
  <2>3. QED
    BY <2>1, <2>2 DEF bio_split_alignment
<1>7. CutPoint = RoundDown(bytes, a)
  BY DEF CutPoint
<1> HIDE DEF a, b
<1>8. CutPoint \in Nat /\ CutPoint <= bytes /\ CutPoint % b = 0
  <2>1. bytes \in Int /\ bytes >= 0
    BY <1>3
  <2>2. CutPoint \in Int /\ CutPoint % a = 0 /\ CutPoint <= bytes /\ CutPoint >= 0
    BY <1>6, <1>7, <2>1, RoundDownIs
  <2>3. CutPoint % b = 0
    BY <1>6, <2>2, MultipleOf
  <2>4. QED
    BY <2>2, <2>3
<1>9. CutPoint < size
  BY <1>3, <1>8
<1>10. \A x \in {"atomic", "nowait"} : x \in bio_clear_polled <=> x \in flags
  BY DEF bio_clear_polled
<1>11. op \notin Discards
  BY <1>3 DEF Scans, Discards
<1>12. QED
  BY <1>1, <1>3, <1>4, <1>5, <1>8, <1>9, <1>10, <1>11, SubmitSplitKeeps DEF b

(* bio_split_write_zeroes cuts at a block.                                 *)
LEMMA WriteZeroesKeeps ==
  ASSUME Inv, WriteZeroes
  PROVE  Inv'
<1>1. /\ pc = "submit" /\ ~ bio_unaligned /\ op = "write_zeroes"
      /\ IF get_max_io_size = 0 \/ size <= get_max_io_size
         THEN Whole(0) ELSE bio_submit_split(get_max_io_size, 0, flags)
  BY DEF WriteZeroes, SplitToLimits
<1>2. LimitsOK /\ BioOK
  BY DEF Inv, TypeInv
<1>3. get_max_io_size \in Nat /\ get_max_io_size % lim.lbs = 0 /\ size \in Nat
  <2>1. ~ RasplitHook
    BY <1>1 DEF RasplitHook
  <2>2. QED
    BY <1>1, <1>2, <2>1, MaxIoType, MaxIoBlocks DEF BioOK
<1>4. op \notin Scans /\ op \notin Discards
  BY <1>1 DEF Scans, Discards
<1>5. CASE get_max_io_size = 0 \/ size <= get_max_io_size
  BY <1>1, <1>5, WholeKeeps
<1>6. CASE ~ (get_max_io_size = 0 \/ size <= get_max_io_size)
  <2>1. get_max_io_size # 0 /\ get_max_io_size < size
    BY <1>3, <1>6
  <2>2. bio_submit_split(get_max_io_size, 0, flags)
    BY <1>1, <1>6
  <2>3. QED
    BY <1>1, <1>3, <1>4, <2>1, <2>2, SubmitSplitKeeps
<1>7. QED
  BY <1>5, <1>6

(* __bio_split_discard cuts where DiscardCutIs says.                       *)
LEMMA DiscardKeeps ==
  ASSUME Inv, Discard
  PROVE  Inv'
<1>1. /\ pc = "submit" /\ ~ bio_unaligned /\ op \in Discards
      /\ IF MaxDiscard = 0 \/ size <= MaxDiscard
         THEN Whole(1) ELSE bio_submit_split(DiscardCut, 1, flags)
  BY DEF Discard, SplitToLimits, Discards
<1>2. LimitsOK /\ BioOK
  BY DEF Inv, TypeInv
<1>3. MaxDiscard \in Nat /\ size \in Nat /\ op \notin Scans
  BY <1>1, <1>2, MaxDiscardType DEF BioOK, Scans, Discards
<1>4. CASE MaxDiscard = 0 \/ size <= MaxDiscard
  BY <1>1, <1>4, WholeKeeps
<1>5. CASE ~ (MaxDiscard = 0 \/ size <= MaxDiscard)
  <2>1. /\ DiscardCut \in Nat /\ DiscardCut # 0 /\ DiscardCut <= MaxDiscard
        /\ DiscardCut % lim.lbs = 0
        /\ (sector + DiscardCut - lim.discard_alignment) % lim.granularity = 0
    BY <1>1, <1>2, <1>5, DiscardCutIs
  <2>2. DiscardCut < size
    BY <1>3, <1>5, <2>1
  <2>3. bio_submit_split(DiscardCut, 1, flags)
    BY <1>1, <1>5
  <2>4. QED
    BY <1>1, <1>3, <2>1, <2>2, <2>3, SubmitSplitKeeps
<1>6. QED
  BY <1>4, <1>5

(* A completion that clears max_write_zeroes changes nothing the cuts of   *)
(* this bio have relied on.                                                *)
LEMMA ClearKeeps ==
  ASSUME Inv, ClearWriteZeroes
  PROVE  Inv'
<1>1. /\ lim' = [lim EXCEPT !.max_write_zeroes = 0] /\ op = "write_zeroes"
      /\ UNCHANGED <<bioVars, iterVars, pc, scanVars, segVars, pieces, status>>
  BY DEF ClearWriteZeroes
<1>2. lim \in QueueLimits
  BY DEF Inv, TypeInv, LimitsOK
<1>3. /\ lim' \in QueueLimits /\ lim'.lbs = lim.lbs /\ lim'.pbs = lim.pbs
      /\ lim'.granularity = lim.granularity /\ lim'.discard_alignment = lim.discard_alignment
      /\ lim'.zone_write_granularity = lim.zone_write_granularity
           /\ lim'.seg_boundary = lim.seg_boundary
  BY <1>1, <1>2 DEF QueueLimits
<1>4. LimitsOK' /\ BioOK' /\ (\E S : pieces' \in Seq(S))
  BY <1>1, <1>3 DEF Inv, TypeInv, LimitsOK, BioOK, Scanning, bioVars, iterVars
<1>5. ScanOK'
  BY <1>1 DEF Inv, TypeInv, ScanOK, bv, Scanning, bioVars, iterVars, scanVars, segVars
<1>6. CutOK'
  BY <1>1, <1>3 DEF Inv, CutOK, Unsplittable, bio_unaligned, bioVars, iterVars
<1>7. Conserved'
  BY <1>1, Zenon DEF Inv, Conserved, EndOf, Unsplittable, bioVars, iterVars
<1>8. CutsAligned'
  BY <1>1, <1>3 DEF Inv, CutsAligned, bioVars
<1>9. QED
  BY <1>4, <1>5, <1>6, <1>7, <1>8 DEF Inv, TypeInv

-----------------------------------------------------------------------------
(* The bio as it is submitted.                                             *)
LEMMA InvStart ==
  ASSUME Init
  PROVE  Inv
<1>1. LimitsOK
  BY LimitsAssumption DEF Init, LimitsOK
<1>2. BioOK
  <2>1. orig \in Bios /\ op = orig.op /\ flags = orig.flags /\ sector = orig.sector
          /\ size = orig.size
        /\ pc = "submit" /\ status = "ok"
    BY DEF Init
  <2>2. orig.sector \in Nat /\ orig.size \in Nat
    BY <2>1, BiosAssumption
  <2>3. QED
    BY <2>1, <2>2 DEF BioOK
<1>3. ScanOK
  BY DEF Init, ScanOK, Scanning
<1>4. pieces = <<>> /\ status = "ok" /\ pc = "submit" /\ vecs = orig.vecs
        /\ sector = orig.sector /\ size = orig.size
  BY DEF Init
<1>5. \E S : pieces \in Seq(S)
  <2>1. pieces \in Seq({})
    BY <1>4
  <2>2. QED
    BY <2>1
<1>6. CutOK
  BY <1>4 DEF CutOK, Scanning
<1>7. CutsAligned
  BY <1>4 DEF CutsAligned
<1>8. Conserved
  <2>1. orig.vecs \in Seq(Vec) /\ orig.sector \in Nat
    BY <1>2, OrigOK
  <2>2. sector - orig.sector = 0
    BY <1>4, <2>1
  <2>3. vecs = VecsAfter(orig.vecs, sector - orig.sector)
    BY <1>4, <2>1, <2>2, AfterNone
  <2>4. DOMAIN pieces = {} /\ Len(pieces) = 0
    BY <1>4
  <2>5. QED
    BY <1>4, <2>3, <2>4 DEF Conserved, EndOf
<1>9. QED
  BY <1>1, <1>2, <1>3, <1>5, <1>6, <1>7, <1>8 DEF Inv, TypeInv

(* Every step keeps the invariant.                                         *)
LEMMA InvKept ==
  ASSUME Inv, [Next]_vars
  PROVE  Inv'
<1>a. LimitsOK /\ BioOK /\ ScanOK /\ CutOK
  BY DEF Inv, TypeInv
<1>1. CASE ScanBegin
  BY <1>1, ScanBeginKeeps
<1>2. CASE VecMisaligned
  <2>1. pc # "done" /\ Fail("EINVAL")
    BY <1>2 DEF VecMisaligned
  <2>2. QED
    BY <2>1, FailKeeps
<1>3. CASE VecGap \/ VecFast \/ VecSlow
  BY <1>3, VecKeeps
<1>4. CASE SegNext \/ SegsDone
  BY <1>4, SegKeeps
<1>5. CASE AllFits
  <2>1. pc # "done" /\ Whole(nsegs) /\ ~ bio_unaligned
    BY <1>5, <1>a DEF AllFits, CutOK, Scanning
  <2>2. QED
    BY <2>1, WholeKeeps
<1>6. CASE CutRefused
  <2>1. pc # "done" /\ Fail(CutError) /\ CutError \in {"EINVAL", "EAGAIN"}
    BY <1>6 DEF CutRefused, CutError
  <2>2. QED
    BY <2>1, FailKeeps
<1>7. CASE CutTaken
  BY <1>7, CutKeeps
<1>8. CASE WriteZeroes
  BY <1>8, WriteZeroesKeeps
<1>9. CASE Discard
  BY <1>9, DiscardKeeps
<1>10. CASE SubmitRefused
  <2>1. pc = "submit" /\ ((bio_unaligned /\ Fail("unaligned")) \/ Fail("EOPNOTSUPP"))
    BY <1>10 DEF SubmitRefused
  <2>2. CASE bio_unaligned /\ Fail("unaligned")
    <3>1. pieces = <<>>
      BY <1>a, <2>2 DEF CutOK
    <3>2. QED
      BY <2>1, <2>2, <3>1, FailKeeps
  <2>3. CASE Fail("EOPNOTSUPP")
    BY <2>1, <2>3, FailKeeps
  <2>4. QED
    BY <2>1, <2>2, <2>3
<1>11. CASE ClearWriteZeroes
  BY <1>11, ClearKeeps
<1>12. CASE UNCHANGED vars
  <2>1. UNCHANGED <<lim, op, flags, orig, sector, size, vecs, pc, max_bytes, k, nsegs, bytes,
          len, total_len, pieces, status>>
    BY <1>12 DEF vars, bioVars, iterVars, scanVars, segVars
  <2>2. LimitsOK' /\ BioOK' /\ ScanOK' /\ (\E S : pieces' \in Seq(S))
    BY <2>1 DEF Inv, TypeInv, LimitsOK, BioOK, ScanOK, bv, Scanning
  <2>3. CutOK' /\ CutsAligned'
    BY <2>1 DEF Inv, CutOK, CutsAligned, Unsplittable, bio_unaligned
  <2>4. Conserved'
    BY <2>1, Zenon DEF Inv, Conserved, EndOf, Unsplittable
  <2>5. QED
    BY <2>2, <2>3, <2>4 DEF Inv, TypeInv
<1>13. QED
  BY <1>1, <1>2, <1>3, <1>4, <1>5, <1>6, <1>7, <1>8, <1>9, <1>10, <1>11, <1>12 DEF Next, Step, Done

(* So it always holds.                                                     *)
LEMMA SplitInvariant == Spec => []Inv
<1>1. Init => Inv
  BY InvStart
<1>2. Inv /\ [Next]_vars => Inv'
  BY InvKept
<1>3. QED
  BY <1>1, <1>2, PTL DEF Spec

(* For every device whose limits are what blk_validate_limits guarantees   *)
(* and every bio, bio_split and bio_advance lose nothing and send nothing  *)
(* twice.                                                                  *)
THEOREM PiecesTileTheBio == Spec => []Conserved
<1>1. Inv => Conserved
  BY DEF Inv
<1>2. QED
  BY <1>1, SplitInvariant, PTL

(* For every device and bio, what is left after a cut passes the alignment *)
(* test of blk_mq_submit_bio, and the parts of a discard after the first   *)
(* begin on the granularity.                                               *)
THEOREM RestIsAligned == Spec => []CutsAligned
<1>1. Inv => CutsAligned
  BY DEF Inv
<1>2. QED
  BY <1>1, SplitInvariant, PTL
=============================================================================
