-------------------------- MODULE BioSegmentProofs --------------------------
(* Every piece that bio_split_io_at cuts is one the device takes, for      *)
(* every device and every bio: the segments that bvec_split_segs and       *)
(* blk_recalc_rq_segments count, and what the scan has made sure of.       *)
EXTENDS BioSplitProofs, TLAPS

(* Segments. The limits as a parameter, since they are a variable.         *)
SegLen(l, phys, n) == Min({n, l.seg_boundary - (phys % l.seg_boundary), l.max_segment_size})
Counts(l, v) ==
  LET count[done \in 0 .. v.len] ==
        IF done = v.len THEN 0
        ELSE LET s == SegLen(l, v.page + v.off + done, v.len - done)
             IN  1 + IF (v.off + done + s) % l.virt_boundary # 0 THEN 0 ELSE count[done + s]
  IN  count
Segs(l, vs) ==
  LET upto[i \in 0 .. Len(vs)] == IF i = 0 THEN 0 ELSE upto[i - 1] + Counts(l, vs[i])[0]
  IN  upto

(* A segment is at least one sector, and no more than what is left.        *)
LEMMA SegLenType ==
  ASSUME NEW l \in QueueLimits, NEW phys \in Nat, NEW n \in Nat \ {0}
  PROVE  /\ SegLen(l, phys, n) \in 1 .. n
         /\ SegLen(l, phys, n) = n \/ \A m \in Nat \ {0} : SegLen(l, phys, n) <= m
              => SegLen(l, phys, m) = SegLen(l, phys, n)
<1> DEFINE b == l.seg_boundary
           z == l.max_segment_size
           c == b - (phys % b)
<1>1. b \in Nat \ {0} /\ z \in Nat \ {0}
  BY DEF QueueLimits
<1>2. \A m : SegLen(l, phys, m) = Min({m, c, z})
  BY DEF SegLen
<1> HIDE DEF b, z
<1>3. c \in Nat \ {0}
  <2>1. phys \in Int
    OBVIOUS
  <2>2. phys % b \in 0 .. b - 1
    BY <1>1, <2>1, DivMod
  <2>3. QED
    BY <1>1, <2>2
<1> HIDE DEF c
<1>4. \A m \in Nat \ {0} : SegLen(l, phys, m) \in {m, c, z} /\ SegLen(l, phys, m) <= m
                            /\ SegLen(l, phys, m) <= c /\ SegLen(l, phys, m) <= z
  <2>1. SUFFICES ASSUME NEW m \in Nat \ {0}
                 PROVE  /\ Min({m, c, z}) \in {m, c, z} /\ Min({m, c, z}) <= m
                        /\ Min({m, c, z}) <= c /\ Min({m, c, z}) <= z
    BY <1>2, Zenon
  <2>2. m \in Int /\ c \in Int /\ z \in Int
    BY <1>1, <1>3
  <2>3. QED
    BY <2>2, MinThree
<1>5. SegLen(l, phys, n) \in 1 .. n
  BY <1>1, <1>3, <1>4
<1>6. ASSUME SegLen(l, phys, n) # n, NEW m \in Nat \ {0}, SegLen(l, phys, n) <= m
      PROVE  SegLen(l, phys, m) = SegLen(l, phys, n)
  <2> DEFINE s == SegLen(l, phys, n)
             t == SegLen(l, phys, m)
  <2>1. s \in {n, c, z} /\ s <= n /\ s <= c /\ s <= z /\ t \in {m, c, z} /\ t <= m /\ t <= c
          /\ t <= z
    BY <1>4
  <2>2. s # n /\ s <= m
    BY <1>6
  <2> HIDE DEF s, t
  <2>3. t = s
    BY <1>1, <1>3, <2>1, <2>2
  <2>4. QED
    BY <2>3 DEF s, t
<1>7. QED
  BY <1>5, <1>6

(* The recursion of the count is well founded: each segment is shorter     *)
(* than what is left.                                                      *)
LEMMA CountsDef ==
  ASSUME NEW l \in QueueLimits, NEW v, v.page \in Nat, v.off \in Nat, v.len \in Nat
  PROVE  /\ Counts(l, v)[v.len] = 0
         /\ \A d \in 0 .. v.len - 1 :
              LET s == SegLen(l, v.page + v.off + d, v.len - d)
              IN  Counts(l, v)[d]
                    = 1 + IF (v.off + d + s) % l.virt_boundary # 0 THEN 0 ELSE Counts(l, v)[d + s]
<1> DEFINE n == v.len
           Seg(d) == SegLen(l, v.page + v.off + d, v.len - d)
           Stops(d) == (v.off + d + Seg(d)) % l.virt_boundary # 0
           From(m, g) == g = [d \in n - m .. n |-> IF d = n THEN 0
             ELSE 1 + IF Stops(d) THEN 0 ELSE g[d + Seg(d)]]
           T == {m \in 0 .. n : ~ \E g : From(m, g)}
<1>0. n \in Nat
  OBVIOUS
<1>1. \A d \in 0 .. n - 1 : Seg(d) \in 1 .. n - d
  <2>1. SUFFICES ASSUME NEW d \in 0 .. n - 1
                 PROVE  Seg(d) \in 1 .. n - d
    OBVIOUS
  <2>2. v.len - d \in Nat \ {0} /\ v.page + v.off + d \in Nat
    OBVIOUS
  <2>3. QED
    BY <2>2, SegLenType, Zenon
<1>2. Counts(l, v) = CHOOSE f : From(n, f)
  <2>1. n - n = 0
    BY <1>0
  <2>2. QED
    BY <2>1 DEF Counts
<1> HIDE DEF Seg, Stops, n
<1>3. T = {}
  <2>1. SUFFICES ASSUME T # {}
                 PROVE  FALSE
    OBVIOUS
  <2>2. PICK m \in T : \A y \in T : m <= y
    <3>1. T \subseteq Nat
      BY <1>0
    <3> HIDE DEF T
    <3>2. QED
      BY <2>1, <3>1, Smallest
  <2>3. m # 0
    <3>1. From(0, [d \in n .. n |-> 0])
      BY <1>0
    <3> HIDE DEF From
    <3>2. QED
      BY <2>2, <3>1
  <2>4. m - 1 \in 0 .. n /\ m - 1 < m /\ m \in 1 .. n
    BY <1>0, <2>3
  <2>5. PICK g : From(m - 1, g)
    <3> HIDE DEF From
    <3>1. QED
      BY <2>2, <2>4
  <2> DEFINE e == n - m
             h == [d \in n - m .. n |-> IF d = e THEN 1 + IF Stops(d) THEN 0
               ELSE g[d + Seg(d)] ELSE g[d]]
  <2>6. e \in 0 .. n - 1 /\ n - (m - 1) = e + 1 /\ e + Seg(e) \in e + 1 .. n
    BY <1>0, <1>1, <2>4
  <2>7. \A d \in n - m .. n : h[d] = IF d = n THEN 0 ELSE 1 + IF Stops(d) THEN 0 ELSE h[d + Seg(d)]
    <3>1. SUFFICES ASSUME NEW d \in n - m .. n
                   PROVE  h[d] = IF d = n THEN 0 ELSE 1 + IF Stops(d) THEN 0 ELSE h[d + Seg(d)]
      OBVIOUS
    <3>2. CASE d = e
      <4>1. d # n /\ d + Seg(d) \in n - m .. n /\ d + Seg(d) # e
        BY <1>0, <2>4, <2>6, <3>2
      <4>2. h[d + Seg(d)] = g[d + Seg(d)]
        BY <4>1
      <4>3. h[d] = 1 + IF Stops(d) THEN 0 ELSE g[d + Seg(d)]
        BY <3>2
      <4> HIDE DEF h
      <4>4. QED
        BY <4>1, <4>2, <4>3
    <3>3. CASE d # e
      <4>1. d \in e + 1 .. n /\ d \in n - (m - 1) .. n
        BY <1>0, <2>4, <2>6, <3>3
      <4>2. g[d] = IF d = n THEN 0 ELSE 1 + IF Stops(d) THEN 0 ELSE g[d + Seg(d)]
        BY <2>5, <4>1, Zenon
      <4>3. h[d] = g[d]
        BY <3>3
      <4>4. d # n => h[d + Seg(d)] = g[d + Seg(d)]
        <5>1. SUFFICES ASSUME d # n
                       PROVE  h[d + Seg(d)] = g[d + Seg(d)]
          OBVIOUS
        <5>2. d \in 0 .. n - 1
          BY <1>0, <2>6, <4>1, <5>1
        <5>3. Seg(d) \in 1 .. n - d
          BY <1>1, <5>2
        <5>4. d + Seg(d) \in n - m .. n /\ d + Seg(d) # e
          BY <1>0, <2>4, <2>6, <4>1, <5>2, <5>3
        <5>5. QED
          BY <5>4
      <4> HIDE DEF h
      <4>5. QED
        BY <4>2, <4>3, <4>4
    <3>4. QED
      BY <3>2, <3>3
  <2>8. From(m, h)
    <3>1. h = [d \in n - m .. n |-> h[d]]
      OBVIOUS
    <3> HIDE DEF h
    <3>2. QED
      BY <2>7, <3>1, Zenon
  <2>9. QED
    <3> HIDE DEF From, h
    <3>1. QED
      BY <2>2, <2>8
<1>4. PICK g : From(n, g)
  <2>1. n \in 0 .. n
    BY <1>0
  <2> HIDE DEF From
  <2>2. QED
    BY <1>3, <2>1
<1>5. From(n, Counts(l, v))
  <2> HIDE DEF From
  <2>1. QED
    BY <1>2, <1>4
<1>6. n - n = 0
  BY <1>0
<1>7. \A d \in 0 .. n : Counts(l, v)[d] = IF d = n THEN 0 ELSE 1 + IF Stops(d) THEN 0
        ELSE Counts(l, v)[d + Seg(d)]
  BY <1>5, <1>6, Zenon
<1>8. Counts(l, v)[n] = 0
  BY <1>0, <1>7
<1>9. ASSUME NEW d \in 0 .. n - 1
      PROVE  Counts(l, v)[d] = 1 + IF Stops(d) THEN 0 ELSE Counts(l, v)[d + Seg(d)]
  <2>1. d \in 0 .. n /\ d # n
    BY <1>0
  <2>2. QED
    BY <1>7, <2>1
<1>10. QED
  BY <1>8, <1>9 DEF Seg, Stops, n

(* The count is a number, and not 0 while something is left.               *)
LEMMA CountsType ==
  ASSUME NEW l \in QueueLimits, NEW v, v.page \in Nat, v.off \in Nat, v.len \in Nat
  PROVE  /\ \A d \in 0 .. v.len : Counts(l, v)[d] \in Nat
         /\ \A d \in 0 .. v.len - 1 : Counts(l, v)[d] >= 1
<1> DEFINE n == v.len
           C == Counts(l, v)
           Seg(d) == SegLen(l, v.page + v.off + d, v.len - d)
           Stops(d) == (v.off + d + Seg(d)) % l.virt_boundary # 0
           T == {m \in 0 .. n : C[n - m] \notin Nat}
<1>0. n \in Nat
  OBVIOUS
<1>1. C[n] = 0 /\ \A d \in 0 .. n - 1 : C[d] = 1 + IF Stops(d) THEN 0 ELSE C[d + Seg(d)]
  BY CountsDef
<1>2. \A d \in 0 .. n - 1 : Seg(d) \in 1 .. n - d
  <2>1. SUFFICES ASSUME NEW d \in 0 .. n - 1
                 PROVE  Seg(d) \in 1 .. n - d
    OBVIOUS
  <2>2. v.len - d \in Nat \ {0} /\ v.page + v.off + d \in Nat
    OBVIOUS
  <2>3. QED
    BY <2>2, SegLenType
<1> HIDE DEF Seg, Stops, n, C
<1>3. T = {}
  <2>1. SUFFICES ASSUME T # {}
                 PROVE  FALSE
    OBVIOUS
  <2>2. PICK m \in T : \A y \in T : m <= y
    <3>1. T \subseteq Nat
      BY <1>0
    <3> HIDE DEF T
    <3>2. QED
      BY <2>1, <3>1, Smallest
  <2> DEFINE d == n - m
  <2>3. m # 0
    BY <1>0, <1>1, <2>2
  <2>4. d \in 0 .. n - 1
    BY <1>0, <2>2, <2>3
  <2>5. Seg(d) \in 1 .. n - d
    BY <1>2, <2>4
  <2> DEFINE y == n - (d + Seg(d))
  <2>6. y \in 0 .. n /\ y < m /\ n - y = d + Seg(d)
    BY <1>0, <2>2, <2>4, <2>5
  <2>7. C[d + Seg(d)] \in Nat
    <3>1. y \notin T
      BY <2>2, <2>6
    <3>2. C[n - y] \in Nat
      BY <2>6, <3>1
    <3>3. QED
      BY <2>6, <3>2
  <2>8. C[d] \in Nat
    BY <1>1, <2>4, <2>7
  <2>9. QED
    BY <2>2, <2>8
<1>4. ASSUME NEW d \in 0 .. n
      PROVE  C[d] \in Nat
  <2>1. n - d \in 0 .. n /\ n - (n - d) = d
    BY <1>0
  <2>2. n - d \notin T
    <3> HIDE DEF T
    <3>1. QED
      BY <1>3
  <2>3. QED
    BY <2>1, <2>2
<1>5. ASSUME NEW d \in 0 .. n - 1
      PROVE  C[d] >= 1
  <2>1. Seg(d) \in 1 .. n - d
    BY <1>2
  <2>2. d + Seg(d) \in 0 .. n
    BY <1>0, <2>1
  <2>3. C[d + Seg(d)] \in Nat
    BY <1>4, <2>2
  <2>4. QED
    BY <1>1, <2>3
<1>6. QED
  BY <1>4, <1>5 DEF n, C

(* A shorter vector has no more segments.                                  *)
LEMMA CountsMono ==
  ASSUME NEW l \in QueueLimits, NEW v, NEW w, v.page \in Nat, v.off \in Nat, v.len \in Nat,
         w.page = v.page, w.off = v.off, w.len \in Nat, v.len <= w.len
  PROVE  \A d \in 0 .. v.len : Counts(l, v)[d] <= Counts(l, w)[d]
<1> DEFINE a == v.len
           b == w.len
           phys(d) == v.page + v.off + d
           A == Counts(l, v)
           B == Counts(l, w)
           SA(d) == SegLen(l, phys(d), a - d)
           SB(d) == SegLen(l, phys(d), b - d)
           Stops(d, s) == (v.off + d + s) % l.virt_boundary # 0
           T == {m \in 0 .. a : ~ (A[a - m] <= B[a - m])}
<1>0. a \in Nat /\ b \in Nat /\ a <= b
  OBVIOUS
<1>1. A[a] = 0 /\ \A d \in 0 .. a - 1 : A[d] = 1 + IF Stops(d, SA(d)) THEN 0 ELSE A[d + SA(d)]
  BY CountsDef
<1>2. B[b] = 0 /\ \A d \in 0 .. b - 1 : B[d] = 1 + IF Stops(d, SB(d)) THEN 0 ELSE B[d + SB(d)]
  BY CountsDef
<1>3. (\A d \in 0 .. a : A[d] \in Nat) /\ (\A d \in 0 .. b : B[d] \in Nat)
        /\ (\A d \in 0 .. b - 1 : B[d] >= 1)
  BY CountsType
<1>4. \A d \in 0 .. a - 1 : SA(d) \in 1 .. a - d /\ (SA(d) = a - d \/ SB(d) = SA(d))
  <2>1. SUFFICES ASSUME NEW d \in 0 .. a - 1
                 PROVE  SA(d) \in 1 .. a - d /\ (SA(d) = a - d \/ SB(d) = SA(d))
    OBVIOUS
  <2>2. a - d \in Nat \ {0} /\ b - d \in Nat \ {0} /\ a - d <= b - d
    BY <1>0
  <2>3. phys(d) \in Nat
    BY <1>0
  <2> HIDE DEF a, b, phys
  <2>4. SA(d) \in 1 .. a - d
    BY <2>2, <2>3, SegLenType
  <2>5. SA(d) <= b - d
    <3> HIDE DEF SA
    <3>1. QED
      BY <2>2, <2>4
  <2>6. QED
    BY <2>2, <2>3, <2>4, <2>5, SegLenType
<1> HIDE DEF a, b, A, B, SA, SB, Stops, phys
<1>5. T = {}
  <2>1. SUFFICES ASSUME T # {}
                 PROVE  FALSE
    OBVIOUS
  <2>2. PICK m \in T : \A y \in T : m <= y
    <3>1. T \subseteq Nat
      BY <1>0
    <3> HIDE DEF T
    <3>2. QED
      BY <2>1, <3>1, Smallest
  <2> DEFINE e == a - m
  <2>3. m # 0
    <3>1. a \in 0 .. b /\ a - 0 = a
      BY <1>0
    <3>2. B[a] \in Nat
      BY <1>3, <3>1
    <3>3. A[a - 0] <= B[a - 0]
      BY <1>1, <3>1, <3>2
    <3>4. QED
      BY <2>2, <3>3
  <2>4. e \in 0 .. a - 1 /\ e \in 0 .. b - 1 /\ e \in 0 .. a
    BY <1>0, <2>2, <2>3
  <2>5. SA(e) \in 1 .. a - e
    BY <1>4, <2>4
  <2>6. CASE SA(e) = a - e
    <3>1. e + SA(e) = a
      BY <1>0, <2>4, <2>6
    <3>2. A[e] = 1
      BY <1>1, <2>4, <3>1
    <3>3. B[e] >= 1
      BY <1>3, <2>4
    <3>4. QED
      BY <2>2, <3>2, <3>3
  <2>7. CASE SB(e) = SA(e)
    <3> DEFINE y == a - (e + SA(e))
    <3>1. y \in 0 .. a /\ y < m /\ a - y = e + SA(e) /\ e + SA(e) \in 0 .. a /\ e + SA(e) \in 0 .. b
      BY <1>0, <2>2, <2>4, <2>5
    <3>2. A[e + SA(e)] <= B[e + SA(e)]
      <4>1. y \notin T
        BY <2>2, <3>1
      <4>2. A[a - y] <= B[a - y]
        BY <3>1, <4>1
      <4>3. QED
        BY <3>1, <4>2
    <3>3. A[e] = 1 + IF Stops(e, SA(e)) THEN 0 ELSE A[e + SA(e)]
      BY <1>1, <2>4
    <3>4. B[e] = 1 + IF Stops(e, SA(e)) THEN 0 ELSE B[e + SA(e)]
      BY <1>2, <2>4, <2>7
    <3>5. A[e + SA(e)] \in Nat /\ B[e + SA(e)] \in Nat
      BY <1>3, <3>1
    <3>6. A[e] <= B[e]
      BY <3>2, <3>3, <3>4, <3>5
    <3>7. QED
      BY <2>2, <3>6
  <2>8. QED
    BY <1>4, <2>4, <2>6, <2>7
<1>6. ASSUME NEW d \in 0 .. a
      PROVE  A[d] <= B[d]
  <2>1. a - d \in 0 .. a /\ a - (a - d) = d
    BY <1>0
  <2>2. a - d \notin T
    <3> HIDE DEF T
    <3>1. QED
      BY <1>5
  <2>3. QED
    BY <2>1, <2>2
<1>7. QED
  BY <1>6 DEF a, A, B

(* In particular the whole of it.                                          *)
LEMMA CountsShorter ==
  ASSUME NEW l \in QueueLimits, NEW v, NEW w, v.page \in Nat, v.off \in Nat, v.len \in Nat,
         w.page = v.page, w.off = v.off, w.len \in Nat, v.len <= w.len
  PROVE  Counts(l, v)[0] <= Counts(l, w)[0]
<1>1. 0 \in 0 .. v.len
  OBVIOUS
<1>2. \A d \in 0 .. v.len : Counts(l, v)[d] <= Counts(l, w)[d]
  BY CountsMono
<1>3. QED
  BY <1>1, <1>2, Zenon

(* What one turn of the loop of bvec_split_segs counts, in every vector    *)
(* that is cut behind the segment.                                         *)
LEMMA CountsStep ==
  ASSUME NEW l \in QueueLimits, NEW v, v.page \in Nat, v.off \in Nat, v.len \in Nat,
         NEW d \in Nat, NEW p, p = v.page + v.off + d, NEW n \in Nat \ {0},
         NEW s, s = SegLen(l, p, n), v.len \in d + s .. d + n
  PROVE  Counts(l, v)[d] = 1 + IF (v.off + d + s) % l.virt_boundary # 0 THEN 0
           ELSE Counts(l, v)[d + s]
<1> DEFINE a == v.len
<1>1. p \in Nat
  OBVIOUS
<1>2. s \in 1 .. n
  BY <1>1, SegLenType
<1>3. /\ a - d \in Nat \ {0} /\ s <= a - d /\ d \in 0 .. a - 1 /\ a \in Nat
      /\ s = n => a - d = n
  BY <1>2
<1>4. SegLen(l, p, a - d) = s
  <2> DEFINE m == a - d
  <2>1. m \in Nat \ {0} /\ s <= m /\ (s = n => m = n)
    BY <1>3
  <2> HIDE DEF m
  <2>2. s = n \/ \A y \in Nat \ {0} : s <= y => SegLen(l, p, y) = s
    BY <1>1, SegLenType
  <2>3. SegLen(l, p, m) = s
    BY <2>1, <2>2
  <2>4. QED
    BY <2>3 DEF m
<1>5. QED
  BY <1>3, <1>4, CountsDef

(* The segments of the first vectors of a bio, one vector after another.   *)
LEMMA SegsDef ==
  ASSUME NEW l, NEW vs, Len(vs) \in Nat
  PROVE  /\ Segs(l, vs)[0] = 0
         /\ \A i \in 1 .. Len(vs) : Segs(l, vs)[i] = Segs(l, vs)[i - 1] + Counts(l, vs[i])[0]
<1> DEFINE m == Len(vs)
           C(i) == Counts(l, vs[i])[0]
           Upto(n, g) == g = [i \in 0 .. n |-> IF i = 0 THEN 0 ELSE g[i - 1] + C(i)]
           T == {n \in 0 .. m : ~ \E g : Upto(n, g)}
<1>0. Segs(l, vs) = CHOOSE f : Upto(m, f)
  BY DEF Segs
<1> HIDE DEF C, m
<1>m. m \in Nat
  BY DEF m
<1>1. T = {}
  <2>1. SUFFICES ASSUME T # {}
                 PROVE  FALSE
    OBVIOUS
  <2>2. PICK n \in T : \A y \in T : n <= y
    <3>1. T \subseteq Nat
      BY <1>m
    <3> HIDE DEF T
    <3>2. QED
      BY <2>1, <3>1, Smallest
  <2>3. n # 0
    <3>1. Upto(0, [i \in 0 .. 0 |-> 0])
      OBVIOUS
    <3> HIDE DEF Upto
    <3>2. QED
      BY <2>2, <3>1
  <2>4. n - 1 \in 0 .. m /\ n - 1 < n /\ n \in 1 .. m
    BY <1>m, <2>3
  <2>5. PICK g : Upto(n - 1, g)
    <3> HIDE DEF Upto
    <3>1. QED
      BY <2>2, <2>4
  <2> DEFINE h == [i \in 0 .. n |-> IF i = n THEN g[n - 1] + C(n) ELSE g[i]]
  <2>6. Upto(n, h)
    <3>1. \A i \in 0 .. n : h[i] = IF i = 0 THEN 0 ELSE h[i - 1] + C(i)
      <4>1. SUFFICES ASSUME NEW i \in 0 .. n
                     PROVE  h[i] = IF i = 0 THEN 0 ELSE h[i - 1] + C(i)
        OBVIOUS
      <4>2. CASE i = n
        BY <2>4, <4>2
      <4>3. CASE i # n
        <5>1. i \in 0 .. n - 1 /\ (i # 0 => i - 1 \in 0 .. n - 1) /\ h[i] = g[i]
          BY <2>4, <4>3
        <5>2. g[i] = IF i = 0 THEN 0 ELSE g[i - 1] + C(i)
          BY <2>5, <5>1
        <5>3. i # 0 => h[i - 1] = g[i - 1]
          BY <2>4, <4>3
        <5>4. QED
          BY <5>1, <5>2, <5>3
      <4>4. QED
        BY <4>2, <4>3
    <3>2. h = [i \in 0 .. n |-> h[i]]
      OBVIOUS
    <3> HIDE DEF h
    <3>3. QED
      BY <3>1, <3>2, Zenon
  <2>7. QED
    <3> HIDE DEF Upto, h
    <3>1. QED
      BY <2>2, <2>6
<1>2. PICK g : Upto(m, g)
  <2>1. m \in 0 .. m
    BY <1>m
  <2> HIDE DEF Upto
  <2>2. QED
    BY <1>1, <2>1
<1>3. Upto(m, Segs(l, vs))
  <2> HIDE DEF Upto
  <2>1. QED
    BY <1>0, <1>2
<1>4. \A i \in 0 .. m : Segs(l, vs)[i] = IF i = 0 THEN 0 ELSE Segs(l, vs)[i - 1] + C(i)
  BY <1>3, Zenon
<1>5. Segs(l, vs)[0] = 0 /\ \A i \in 1 .. m : Segs(l, vs)[i] = Segs(l, vs)[i - 1] + C(i)
  BY <1>m, <1>4
<1>6. QED
  BY <1>5 DEF C, m

(* Their number is a number,                                               *)
LEMMA SegsType ==
  ASSUME NEW l \in QueueLimits, NEW vs \in Seq(Vec)
  PROVE  \A i \in 0 .. Len(vs) : Segs(l, vs)[i] \in Nat
<1> DEFINE m == Len(vs)
           S == Segs(l, vs)
           T == {i \in 0 .. m : S[i] \notin Nat}
<1>m. m \in Nat
  OBVIOUS
<1>s. S[0] = 0 /\ \A i \in 1 .. m : S[i] = S[i - 1] + Counts(l, vs[i])[0]
  BY <1>m, SegsDef
<1>c. \A i \in 1 .. m : Counts(l, vs[i])[0] \in Nat
  <2>1. SUFFICES ASSUME NEW i \in 1 .. m
                 PROVE  Counts(l, vs[i])[0] \in Nat
    OBVIOUS
  <2>2. vs[i].len \in Nat /\ vs[i].off \in Nat /\ vs[i].page \in Nat
    BY VecType
  <2>3. 0 \in 0 .. vs[i].len
    BY <2>2
  <2>4. QED
    BY <2>2, <2>3, CountsType
<1> HIDE DEF m, S
<1>1. SUFFICES ASSUME T # {}
               PROVE  FALSE
  BY DEF m, S
<1>2. PICK n \in T : \A y \in T : n <= y
  <2>1. T \subseteq Nat
    BY <1>m
  <2> HIDE DEF T
  <2>2. QED
    BY <1>1, <2>1, Smallest
<1>3. n # 0
  BY <1>2, <1>s
<1>4. n - 1 \in 0 .. m /\ n \in 1 .. m /\ n - 1 < n
  BY <1>m, <1>2, <1>3
<1>5. S[n - 1] \in Nat
  BY <1>2, <1>4
<1>6. S[n] \in Nat
  BY <1>5, <1>4, <1>c, <1>s
<1>7. QED
  BY <1>2, <1>6

(* and never less with more vectors.                                       *)
LEMMA SegsGrows ==
  ASSUME NEW l \in QueueLimits, NEW vs \in Seq(Vec), NEW i \in 0 .. Len(vs)
  PROVE  \A j \in i .. Len(vs) : Segs(l, vs)[i] <= Segs(l, vs)[j]
<1> DEFINE m == Len(vs)
           S == Segs(l, vs)
           T == {j \in i .. m : ~ (S[i] <= S[j])}
<1>m. m \in Nat /\ i \in 0 .. m
  OBVIOUS
<1>s. S[0] = 0 /\ \A j \in 1 .. m : S[j] = S[j - 1] + Counts(l, vs[j])[0]
  BY <1>m, SegsDef
<1>t. \A j \in 0 .. m : S[j] \in Nat
  BY SegsType
<1>c. \A j \in 1 .. m : Counts(l, vs[j])[0] \in Nat
  <2>1. SUFFICES ASSUME NEW j \in 1 .. m
                 PROVE  Counts(l, vs[j])[0] \in Nat
    OBVIOUS
  <2>2. vs[j].len \in Nat /\ vs[j].off \in Nat /\ vs[j].page \in Nat
    BY VecType
  <2>3. 0 \in 0 .. vs[j].len
    BY <2>2
  <2>4. QED
    BY <2>2, <2>3, CountsType
<1> HIDE DEF m, S
<1>1. SUFFICES ASSUME T # {}
               PROVE  FALSE
  BY DEF m, S
<1>2. PICK n \in T : \A y \in T : n <= y
  <2>1. T \subseteq Nat
    BY <1>m
  <2> HIDE DEF T
  <2>2. QED
    BY <1>1, <2>1, Smallest
<1>3. n # i
  BY <1>m, <1>2, <1>t
<1>4. n - 1 \in i .. m /\ n \in 1 .. m /\ n - 1 < n /\ n - 1 \in 0 .. m
  BY <1>m, <1>2, <1>3
<1>5. S[i] <= S[n - 1]
  BY <1>2, <1>4
<1>6. S[n - 1] <= S[n]
  BY <1>4, <1>c, <1>s, <1>t
<1>7. S[i] <= S[n]
  BY <1>m, <1>4, <1>5, <1>6, <1>t
<1>8. QED
  BY <1>2, <1>7

(* They depend on these vectors only.                                      *)
LEMMA SegsSame ==
  ASSUME NEW l, NEW us, NEW vs, Len(us) \in Nat, Len(vs) \in Nat,
         NEW j \in Nat, j <= Len(us), j <= Len(vs), \A i \in 1 .. j : us[i] = vs[i]
  PROVE  Segs(l, us)[j] = Segs(l, vs)[j]
<1> DEFINE U == Segs(l, us)
           V == Segs(l, vs)
           T == {i \in 0 .. j : U[i] # V[i]}
<1>u. U[0] = 0 /\ \A i \in 1 .. j : U[i] = U[i - 1] + Counts(l, us[i])[0]
  BY SegsDef
<1>v. V[0] = 0 /\ \A i \in 1 .. j : V[i] = V[i - 1] + Counts(l, vs[i])[0]
  BY SegsDef
<1> HIDE DEF U, V
<1>1. SUFFICES ASSUME T # {}
               PROVE  FALSE
  BY DEF U, V
<1>2. PICK n \in T : \A y \in T : n <= y
  <2>1. T \subseteq Nat
    OBVIOUS
  <2> HIDE DEF T
  <2>2. QED
    BY <1>1, <2>1, Smallest, Zenon
<1>3. n # 0
  BY <1>2, <1>u, <1>v
<1>4. n - 1 \in 0 .. j /\ n \in 1 .. j /\ n - 1 < n
  BY <1>2, <1>3
<1>5. U[n - 1] = V[n - 1]
  BY <1>2, <1>4
<1>6. U[n] = V[n]
  BY <1>4, <1>5, <1>u, <1>v
<1>7. QED
  BY <1>2, <1>6

Cut(v, n) == [v EXCEPT !.len = n]
NoGapsUpto(l, vs, j) ==
  \A i \in 2 .. j : vs[i].off % l.virt_boundary = 0
    /\ (vs[i - 1].off + vs[i - 1].len) % l.virt_boundary = 0

(* A vector cut short begins where it did.                                 *)
LEMMA CutIs ==
  ASSUME NEW v \in Vec, NEW n \in Nat
  PROVE  Cut(v, n).page = v.page /\ Cut(v, n).off = v.off /\ Cut(v, n).len = n
BY DEF Cut, Vec

(* What is cut off the front ends in one vector, and has those before it   *)
(* as they are.                                                            *)
LEMMA BeforeIs ==
  ASSUME NEW vs \in Seq(Vec), NEW n \in Nat, NEW j \in 1 .. Len(vs),
         StartOf(vs, j) < n, n <= StartOf(vs, j + 1)
  PROVE  /\ Len(VecsBefore(vs, n)) = j
         /\ \A i \in 1 .. j - 1 : VecsBefore(vs, n)[i] = vs[i]
         /\ VecsBefore(vs, n)[j] = Cut(vs[j], n - StartOf(vs, j))
<1> DEFINE S(i) == StartOf(vs, i)
           J == {0} \union {i \in DOMAIN vs : StartOf(vs, i) < n}
           F(i) == [vs[i] EXCEPT !.len = Min({vs[i].len, n - StartOf(vs, i)})]
<1>0. Len(vs) \in Nat /\ DOMAIN vs = 1 .. Len(vs)
  OBVIOUS
<1>1. \A i \in 1 .. Len(vs) + 1 : S(i) \in Nat
  BY StartOfType
<1>2. \A i \in 1 .. Len(vs) : S(i + 1) = S(i) + vs[i].len
  BY StartOfNext
<1>3. \A a, b \in 1 .. Len(vs) + 1 : a < b => S(a) < S(b)
  BY StartOfGrows
<1>4. S(j) < n /\ n <= S(j + 1)
  OBVIOUS
<1>5. J = {0} \union {i \in 1 .. Len(vs) : S(i) < n}
  BY <1>0
<1>6. VecsBefore(vs, n) = [i \in 1 .. Max(J) |-> F(i)]
  BY DEF VecsBefore
<1> HIDE DEF S, J, F
<1>7. Max(J) = j
  <2>1. J \in SUBSET Nat /\ J # {} /\ j \in J
    BY <1>0, <1>4, <1>5
  <2>2. \A y \in J : y <= j
    <3>1. SUFFICES ASSUME NEW y \in 1 .. Len(vs), S(y) < n, y > j
                   PROVE  FALSE
      BY <1>0, <1>5
    <3>2. j + 1 \in 1 .. Len(vs) + 1 /\ y \in 1 .. Len(vs) + 1 /\ (j + 1 < y \/ j + 1 = y)
      BY <1>0, <3>1
    <3>3. S(j + 1) <= S(y) /\ S(j + 1) \in Nat /\ S(y) \in Nat
      BY <1>1, <1>3, <3>2
    <3>4. QED
      BY <1>4, <3>1, <3>3
  <2>3. Max(J) \in J /\ \A y \in J : y <= Max(J)
    <3>1. j \in Nat
      OBVIOUS
    <3>2. QED
      BY <2>1, <2>2, <3>1, MaxOf, Zenon
  <2>4. Max(J) <= j /\ j <= Max(J) /\ Max(J) \in Nat
    BY <2>1, <2>2, <2>3, Zenon
  <2>5. QED
    BY <2>4
<1>8. Len(VecsBefore(vs, n)) = j /\ \A i \in 1 .. j : VecsBefore(vs, n)[i] = F(i)
  BY <1>6, <1>7
<1>9. ASSUME NEW i \in 1 .. j - 1
      PROVE  F(i) = vs[i]
  <2>1. i \in 1 .. Len(vs) /\ i + 1 \in 1 .. Len(vs) + 1 /\ j \in 1 .. Len(vs) + 1
          /\ (i + 1 < j \/ i + 1 = j)
        /\ i \in 1 .. Len(vs) + 1
    BY <1>0
  <2>2. vs[i] \in Vec /\ vs[i].len \in Nat
    BY <2>1, VecType
  <2>3. S(i + 1) <= S(j) /\ S(i + 1) \in Nat /\ S(j) \in Nat /\ S(i) \in Nat
    BY <1>1, <1>3, <2>1
  <2>4. S(i + 1) = S(i) + vs[i].len
    BY <1>2, <2>1
  <2> DEFINE a == vs[i].len
             b == n - S(i)
  <2>a. a \in Nat /\ S(i + 1) = S(i) + a
    BY <2>2, <2>4
  <2> HIDE DEF a
  <2>5. a \in Int /\ b \in Int /\ a <= b
    <3>1. \A p, q, r, t \in Nat : p + a = q /\ q <= r /\ r < t => a <= t - p
      BY <2>a
    <3>2. QED
      BY <1>4, <2>3, <2>a, <3>1
  <2>6. Min({a, b}) = a
    <3> HIDE DEF a, b
    <3>1. QED
      BY <2>5, MinTwo
  <2>7. F(i) = [vs[i] EXCEPT !.len = vs[i].len]
    BY <2>6 DEF F, S, a
  <2>8. QED
    BY <2>2, <2>7, Zenon DEF Vec
<1>10. F(j) = Cut(vs[j], n - StartOf(vs, j))
  <2>1. vs[j].len \in Nat /\ S(j) \in Nat /\ S(j + 1) = S(j) + vs[j].len
    BY <1>0, <1>1, <1>2, VecType
  <2> DEFINE a == vs[j].len
             b == n - S(j)
  <2>2. a \in Int /\ b \in Int /\ b <= a
    BY <1>4, <2>1
  <2>3. Min({a, b}) = b
    <3> HIDE DEF a, b
    <3>1. QED
      BY <2>2, MinTwo
  <2>4. QED
    BY <2>3 DEF F, S, Cut
<1>11. QED
  BY <1>8, <1>9, <1>10

(* So it has no gaps where they have none, and the segments of these       *)
(* vectors.                                                                *)
LEMMA BeforeFits ==
  ASSUME NEW l \in QueueLimits, NEW vs \in Seq(Vec), NEW n \in Nat, NEW j \in 1 .. Len(vs),
         StartOf(vs, j) < n, n <= StartOf(vs, j + 1), NoGapsUpto(l, vs, j)
  PROVE  /\ NoGapsUpto(l, VecsBefore(vs, n), Len(VecsBefore(vs, n)))
         /\ Segs(l, VecsBefore(vs, n))[Len(VecsBefore(vs, n))]
              = Segs(l, vs)[j - 1] + Counts(l, Cut(vs[j], n - StartOf(vs, j)))[0]
<1> DEFINE u == VecsBefore(vs, n)
           w == Cut(vs[j], n - StartOf(vs, j))
<1>1. Len(u) = j /\ (\A i \in 1 .. j - 1 : u[i] = vs[i]) /\ u[j] = w
  BY BeforeIs
<1>2. vs[j] \in Vec /\ StartOf(vs, j) \in Nat /\ Len(vs) \in Nat
  BY VecType, StartOfType
<1>3. w.off = vs[j].off
  BY <1>2, CutIs
<1> HIDE DEF u, w
<1>4. NoGapsUpto(l, u, j)
  <2>1. SUFFICES ASSUME NEW i \in 2 .. j
                 PROVE  u[i].off % l.virt_boundary = 0
                          /\ (u[i - 1].off + u[i - 1].len) % l.virt_boundary = 0
    BY Zenon DEF NoGapsUpto
  <2>2. vs[i].off % l.virt_boundary = 0 /\ (vs[i - 1].off + vs[i - 1].len) % l.virt_boundary = 0
    BY DEF NoGapsUpto
  <2>3. u[i - 1] = vs[i - 1] /\ u[i].off = vs[i].off
    BY <1>1, <1>2, <1>3
  <2>4. QED
    BY <2>2, <2>3
<1>5. Segs(l, u)[j - 1] = Segs(l, vs)[j - 1]
  <2>1. j - 1 \in Nat /\ j - 1 <= Len(u) /\ j - 1 <= Len(vs) /\ Len(u) \in Nat
    BY <1>1, <1>2
  <2>2. QED
    BY <1>1, <1>2, <2>1, SegsSame
<1>6. Segs(l, u)[j] = Segs(l, u)[j - 1] + Counts(l, u[j])[0]
  <2>1. j \in 1 .. Len(u) /\ Len(u) \in Nat
    BY <1>1
  <2>2. QED
    BY <2>1, SegsDef
<1>7. QED
  BY <1>1, <1>4, <1>5, <1>6 DEF u, w

(* A bvec inside its page that is not longer than a boundary crosses none: *)
(* pages and boundaries are powers of two.                                 *)
LEMMA RoomInBoundary ==
  ASSUME NEW P \in Nat \ {0}, NEW B \in Nat \ {0}, B % P = 0 \/ P % B = 0,
         NEW page \in Nat, page % P = 0, NEW off \in Nat, NEW n \in Nat \ {0},
         off + n <= P, off + n <= B
  PROVE  (page + off) % B \in Nat /\ n <= B - ((page + off) % B)
<1>i. page \in Int /\ off \in 0 .. B - 1
  OBVIOUS
<1>1. CASE P % B = 0
  <2>1. page % B = 0
    BY <1>1, <1>i, MultipleOf, Zenon
  <2>2. PICK q \in Int : page = B * q
    BY <1>i, <2>1, Multiple, Zenon
  <2>3. (B * q + off) % B = off
    BY <1>i, ModUnique
  <2>4. QED
    BY <2>2, <2>3
<1>2. CASE B % P = 0
  <2> DEFINE r == page % B
             q == page \div B
  <2>1. r \in 0 .. B - 1 /\ q \in Int /\ page = B * q + r
    BY <1>i, DivMod
  <2>2. r % P = 0
    BY <1>2, <1>i, ModMultiple, Zenon
  <2> HIDE DEF r, q
  <2>3. (B - r) % P = 0 /\ B - r \in Int /\ B - r > 0
    <3>1. B \in Int /\ r \in Int
      BY <2>1
    <3>2. (B - r) % P = 0
      BY <1>2, <2>2, <3>1, MultipleSum
    <3>3. QED
      BY <2>1, <3>1, <3>2
  <2>4. PICK w \in Int : B - r = P * w
    BY <2>3, Multiple, Zenon
  <2>5. w >= 1
    BY <2>3, <2>4
  <2>6. P * w >= P
    BY <2>5
  <2>7. P <= B - r
    BY <2>4, <2>6
  <2>8. r + off \in 0 .. B - 1 /\ n <= B - (r + off)
    BY <2>1, <2>7
  <2>9. page + off = B * q + (r + off)
    <3>1. B * q \in Int
      BY <2>1
    <3>2. QED
      BY <2>1, <3>1
  <2>10. (B * q + (r + off)) % B = r + off
    BY <2>1, <2>8, ModUnique
  <2>11. QED
    BY <2>8, <2>9, <2>10
<1>3. QED
  BY <1>1, <1>2

(* The fast path of bio_split_io_at counts right: a bvec that ends within  *)
(* max_fast_segment_size of its page is one segment.                       *)
LEMMA OneSegment ==
  ASSUME NEW l \in QueueLimits, l.seg_boundary % PageSize = 0 \/ PageSize % l.seg_boundary = 0,
         NEW v \in Vec, v.page % PageSize = 0,
         v.off + v.len <= Min({PageSize, l.seg_boundary, l.max_segment_size})
  PROVE  Counts(l, v)[0] = 1
<1> DEFINE n == v.len
           b == l.seg_boundary
           z == l.max_segment_size
           c == b - ((v.page + v.off) % b)
<1>1. /\ b \in Nat \ {0} /\ z \in Nat \ {0} /\ n \in Nat \ {0} /\ v.page \in Nat /\ v.off \in Nat
      /\ PageSize \in Nat \ {0}
  BY SizesAssumption DEF QueueLimits, Vec
<1>2. v.off + n <= PageSize /\ v.off + n <= b /\ v.off + n <= z
  <2> DEFINE m == Min({PageSize, b, z})
  <2>1. v.off + n <= m
    OBVIOUS
  <2>2. PageSize \in Int /\ b \in Int /\ z \in Int
    BY <1>1
  <2> HIDE DEF b, z
  <2>3. m \in {PageSize, b, z} /\ m <= PageSize /\ m <= b /\ m <= z
    BY <2>2, MinThree, Zenon
  <2> HIDE DEF m, n
  <2>4. QED
    BY <1>1, <2>1, <2>2, <2>3
<1>3. (v.page + v.off) % b \in Nat /\ n <= c
  <2> HIDE DEF n
  <2>1. QED
    BY <1>1, <1>2, RoomInBoundary, Zenon
<1>4. SegLen(l, v.page + v.off, n) = n
  <2>1. SegLen(l, v.page + v.off, n) = Min({n, c, z})
    BY DEF SegLen
  <2>2. n \in Int /\ c \in Int /\ z \in Int /\ n <= z
    <3> HIDE DEF n, z, b
    <3>1. QED
      BY <1>1, <1>2, <1>3
  <2>3. n <= c
    BY <1>3
  <2> HIDE DEF n, c, z
  <2>4. Min({n, c, z}) \in {n, c, z} /\ Min({n, c, z}) <= n
    BY <2>2, MinThree, Zenon
  <2>5. Min({n, c, z}) = n
    BY <2>2, <2>3, <2>4
  <2>6. QED
    BY <2>1, <2>5
<1>5. 0 \in 0 .. n - 1 /\ n - 0 = n /\ v.page + v.off + 0 = v.page + v.off /\ 0 + n = n
  BY <1>1
<1>6. Counts(l, v)[n] = 0
  BY <1>1, CountsDef
<1>7. Counts(l, v)[0] = 1 + IF (v.off + 0 + n) % l.virt_boundary # 0 THEN 0 ELSE Counts(l, v)[0 + n]
  BY <1>1, <1>4, <1>5, CountsDef
<1>8. QED
  BY <1>5, <1>6, <1>7

(* Where the scan has made sure of the first b sectors, any front of them  *)
(* has no gaps and not more segments than were counted.                    *)
LEMMA FrontFits ==
  ASSUME NEW l \in QueueLimits, NEW vs \in Seq(Vec), NEW m \in 1 .. Len(vs),
         NEW t \in 0 .. vs[m].len, NEW n \in 1 .. StartOf(vs, m) + t, NEW ns \in Nat,
         NoGapsUpto(l, vs, IF t = 0 THEN m - 1 ELSE m),
         Segs(l, vs)[m - 1] + Counts(l, Cut(vs[m], t))[0] <= ns
  PROVE  /\ NoGapsUpto(l, VecsBefore(vs, n), Len(VecsBefore(vs, n)))
         /\ Segs(l, VecsBefore(vs, n))[Len(VecsBefore(vs, n))] \in Nat
         /\ Segs(l, VecsBefore(vs, n))[Len(VecsBefore(vs, n))] <= ns
<1> DEFINE S(i) == StartOf(vs, i)
           j == FirstAfter(vs, n - 1)
           N == Len(vs)
<1>0. N \in Nat /\ m \in 1 .. N /\ vs[m].len \in Nat
  BY VecType
<1>1. \A i \in 1 .. N + 1 : S(i) \in Nat
  BY StartOfType
<1>2. \A a, b \in 1 .. N + 1 : a < b => S(a) < S(b)
  BY StartOfGrows
<1>3. S(m + 1) = S(m) + vs[m].len
  BY StartOfNext
<1>4. n \in Nat /\ n - 1 \in Nat /\ t \in Nat /\ n <= S(m) + t /\ t <= vs[m].len
        /\ S(m) \in Nat /\ S(m + 1) \in Nat
  BY <1>0, <1>1
<1>5. j \in 1 .. N + 1 /\ (j <= N => S(j) <= n - 1 /\ n - 1 < S(j + 1))
        /\ (j = N + 1 => S(N + 1) <= n - 1)
  BY <1>4, FirstAfterIs, Zenon
<1> DEFINE e == vs[m].len
<1>e. e \in Nat /\ S(m + 1) = S(m) + e /\ t <= e
  BY <1>0, <1>3, <1>4
<1> HIDE DEF S, j, N, e
<1>6. n <= S(m + 1)
  <2>1. \A a \in Nat : n <= a + t => n <= a + e
    BY <1>4, <1>e
  <2>2. QED
    BY <1>4, <1>e, <2>1
<1>7. j <= m
  <2>1. SUFFICES ASSUME j > m
                 PROVE  FALSE
    BY <1>0, <1>5
  <2>2. S(m + 1) <= S(j) /\ S(j) \in Nat
    <3>1. m + 1 \in 1 .. N + 1 /\ (m + 1 = j \/ m + 1 < j)
      BY <1>0, <1>5, <2>1
    <3>2. S(j) \in Nat
      BY <1>1, <1>5
    <3>3. QED
      BY <1>2, <1>4, <1>5, <3>1, <3>2
  <2>3. S(j) <= n - 1
    BY <1>0, <1>5
  <2>4. QED
    BY <1>4, <1>6, <2>2, <2>3
<1>8. j \in 1 .. N /\ S(j) < n /\ n <= S(j + 1) /\ S(j) \in Nat /\ S(j + 1) \in Nat
  <2>1. j \in 1 .. N /\ j \in 1 .. N + 1 /\ j + 1 \in 1 .. N + 1
    BY <1>0, <1>5, <1>7
  <2>2. S(j) \in Nat /\ S(j + 1) \in Nat
    BY <1>1, <2>1
  <2>3. S(j) <= n - 1 /\ n - 1 < S(j + 1)
    BY <1>0, <1>5, <2>1
  <2>4. \A a, b \in Nat : a <= n - 1 /\ n - 1 < b => a < n /\ n <= b
    BY <1>4
  <2>5. QED
    BY <2>1, <2>2, <2>3, <2>4
<1>9. j = m => n - S(m) <= t /\ t # 0
  BY <1>4, <1>8
<1>10. NoGapsUpto(l, vs, j)
  <2>1. \A i \in 2 .. j : i \in 2 .. (IF t = 0 THEN m - 1 ELSE m)
    BY <1>0, <1>5, <1>7, <1>9
  <2>2. QED
    BY <2>1 DEF NoGapsUpto
<1> DEFINE u == VecsBefore(vs, n)
           w == Cut(vs[j], n - S(j))
<1>11. NoGapsUpto(l, u, Len(u)) /\ Segs(l, u)[Len(u)] = Segs(l, vs)[j - 1] + Counts(l, w)[0]
  BY <1>4, <1>8, <1>10, BeforeFits, Zenon DEF S, N
<1>12. vs[j] \in Vec /\ vs[j].len \in Nat /\ vs[j].off \in Nat /\ vs[j].page \in Nat
       /\ S(j + 1) = S(j) + vs[j].len
  BY <1>8, VecType, StartOfNext, Zenon DEF N, S
<1>13. n - S(j) \in Nat /\ n - S(j) <= vs[j].len
  <2>1. \A a, b, c \in Nat : a < c /\ c <= a + b => c - a \in Nat /\ c - a <= b
    OBVIOUS
  <2>2. n \in Nat
    BY <1>4
  <2>3. QED
    BY <1>8, <1>12, <2>1, <2>2, Zenon
<1>14. w.page = vs[j].page /\ w.off = vs[j].off /\ w.len = n - S(j)
  BY <1>12, <1>13, CutIs
<1>15. Counts(l, w)[0] \in Nat
  <2> HIDE DEF w
  <2>1. w.page \in Nat /\ w.off \in Nat /\ w.len \in Nat /\ 0 \in 0 .. w.len
    BY <1>12, <1>13, <1>14
  <2>2. QED
    BY <2>1, CountsType
<1>16. \A i \in 0 .. N : Segs(l, vs)[i] \in Nat
  BY SegsType DEF N
<1>17. Segs(l, vs)[j - 1] \in Nat /\ Segs(l, vs)[m - 1] \in Nat /\ Segs(l, vs)[j] \in Nat
  <2>1. j - 1 \in 0 .. N /\ m - 1 \in 0 .. N /\ j \in 0 .. N
    BY <1>0, <1>8
  <2>2. QED
    BY <1>16, <2>1
<1>18. CASE j = m
  <2> DEFINE x == Cut(vs[m], t)
  <2>1. x.page = vs[j].page /\ x.off = vs[j].off /\ x.len = t
    BY <1>4, <1>12, <1>18, CutIs
  <2>2. Segs(l, vs)[m - 1] + Counts(l, x)[0] <= ns
    OBVIOUS
  <2> HIDE DEF w, x
  <2>3. w.len <= x.len
    BY <1>9, <1>14, <1>18, <2>1
  <2>4. x.page \in Nat /\ x.off \in Nat /\ x.len \in Nat /\ w.page = x.page /\ w.off = x.off
        /\ w.len \in Nat /\ 0 \in 0 .. w.len /\ 0 \in 0 .. x.len
    <3>1. x.page = w.page /\ x.off = w.off /\ x.page \in Nat /\ x.off \in Nat
      BY <1>12, <1>14, <2>1
    <3>2. x.len \in Nat /\ 0 \in 0 .. x.len
      <4>1. t \in Nat /\ \A a \in Nat : 0 \in 0 .. a
        BY <1>4
      <4>2. QED
        BY <2>1, <4>1, Zenon
    <3>3. w.len \in Nat /\ 0 \in 0 .. w.len
      BY <1>13, <1>14
    <3>4. QED
      BY <3>1, <3>2, <3>3
  <2>5. Counts(l, w)[0] <= Counts(l, x)[0]
    <3>1. w.page \in Nat /\ w.off \in Nat /\ x.page = w.page /\ x.off = w.off
      BY <2>4
    <3>2. QED
      BY <2>3, <2>4, <3>1, CountsShorter, Zenon
  <2>6. Counts(l, x)[0] \in Nat
    BY <2>4, CountsType
  <2>7. \A a, b, c \in Nat : a + c <= ns /\ b <= c => a + b \in Nat /\ a + b <= ns
    OBVIOUS
  <2>8. Segs(l, vs)[j - 1] + Counts(l, w)[0] \in Nat /\ Segs(l, vs)[j - 1] + Counts(l, w)[0] <= ns
    BY <1>15, <1>17, <1>18, <2>2, <2>5, <2>6, <2>7
  <2> HIDE DEF u
  <2>9. QED
    BY <1>11, <2>8 DEF u
<1>19. CASE j # m
  <2>1. Counts(l, w)[0] <= Counts(l, vs[j])[0]
    <3> HIDE DEF w
    <3>1. w.page = vs[j].page /\ w.off = vs[j].off /\ w.len \in Nat /\ w.len <= vs[j].len
            /\ 0 \in 0 .. w.len
      BY <1>13, <1>14
    <3>2. w.page \in Nat /\ w.off \in Nat
      BY <1>12, <1>14
    <3>3. QED
      <4>1. vs[j].page = w.page /\ vs[j].off = w.off
        BY <3>1
      <4>2. QED
        BY <1>12, <3>1, <3>2, <4>1, CountsShorter, Zenon
  <2>2. Segs(l, vs)[j] = Segs(l, vs)[j - 1] + Counts(l, vs[j])[0]
    BY <1>0, <1>8, SegsDef DEF N
  <2>3. Segs(l, vs)[j] <= Segs(l, vs)[m - 1]
    <3>1. j \in 0 .. N /\ m - 1 \in j .. N
      BY <1>0, <1>7, <1>8, <1>19
    <3>2. QED
      BY <3>1, SegsGrows DEF N
  <2>4. Counts(l, Cut(vs[m], t))[0] \in Nat
    <3> DEFINE x == Cut(vs[m], t)
    <3>1. vs[m] \in Vec /\ vs[m].page \in Nat /\ vs[m].off \in Nat
      BY <1>0, VecType DEF N
    <3>2. x.page \in Nat /\ x.off \in Nat /\ x.len = t
      BY <1>4, <3>1, CutIs, Zenon
    <3>3. x.len \in Nat /\ 0 \in 0 .. x.len
      BY <1>4, <3>2
    <3> HIDE DEF x
    <3>4. Counts(l, x)[0] \in Nat
      BY <3>2, <3>3, CountsType
    <3>5. QED
      BY <3>4 DEF x
  <2>5. Counts(l, vs[j])[0] \in Nat
    <3>1. 0 \in 0 .. vs[j].len
      BY <1>12
    <3>2. QED
      BY <1>12, <3>1, CountsType
  <2>6. Segs(l, vs)[m - 1] + Counts(l, Cut(vs[m], t))[0] <= ns
    OBVIOUS
  <2>7. Segs(l, vs)[j - 1] + Counts(l, w)[0] \in Nat /\ Segs(l, vs)[j - 1] + Counts(l, w)[0] <= ns
    <3>1. \A a, b, c, d, f, g \in Nat : a + b = c /\ f <= b /\ c <= d
            /\ d + g <= ns => a + f \in Nat /\ a + f <= ns
      OBVIOUS
    <3> DEFINE a == Segs(l, vs)[j - 1]
               b == Counts(l, vs[j])[0]
               c == Segs(l, vs)[j]
               d == Segs(l, vs)[m - 1]
               f == Counts(l, w)[0]
               g == Counts(l, Cut(vs[m], t))[0]
    <3>2. a \in Nat /\ b \in Nat /\ c \in Nat /\ d \in Nat /\ f \in Nat /\ g \in Nat
      BY <1>15, <1>17, <2>4, <2>5
    <3>3. a + b = c /\ f <= b /\ c <= d /\ d + g <= ns
      BY <2>1, <2>2, <2>3, <2>6
    <3> HIDE DEF a, b, c, d, f, g
    <3>4. a + f \in Nat /\ a + f <= ns
      BY <3>1, <3>2, <3>3
    <3>5. QED
      BY <3>4 DEF a, f
  <2>8. QED
    BY <1>11, <2>7
<1>20. QED
  BY <1>18, <1>19

-----------------------------------------------------------------------------
(* blk_recalc_rq_segments is the number of segments of the vectors, now    *)
LEMMA RecalcIs == \A vs : blk_recalc_rq_segments(vs) = Segs(lim, vs)[Len(vs)]
BY DEF blk_recalc_rq_segments, SegsOf, Segs, Counts, SegSize, SegLen

(* and after a step.                                                       *)
LEMMA RecalcIs2 == \A vs : blk_recalc_rq_segments(vs)' = Segs(lim', vs)[Len(vs)]
BY DEF blk_recalc_rq_segments, SegsOf, Segs, Counts, SegSize, SegLen

(* What bio_split_io_at has made sure of where it is: the data before the  *)
(* bvec, and of the bvec the part counted, has no gaps and not more than   *)
(* nsegs segments, whatever the bvec is cut to.                            *)
SegInv ==
  /\ op \in Scans /\ pc # "done" => size > 0
  /\ pc \in Scanning =>
       /\ max_bytes = IF op = "zone_append" THEN lim.max_zone_append ELSE get_max_io_size
       /\ nsegs \in 0 .. lim.max_segments
  /\ pc = "vec" => Segs(lim, vecs)[k - 1] <= nsegs /\ NoGapsUpto(lim, vecs, k - 1)
  /\ pc = "segs" =>
       /\ NoGapsUpto(lim, vecs, k)
       /\ \A a \in total_len .. total_len + len :
            Segs(lim, vecs)[k - 1] + Counts(lim, Cut(bv, a))[0]
              <= nsegs + Counts(lim, Cut(bv, a))[total_len]
  /\ pc = "segs_done" =>
       /\ NoGapsUpto(lim, vecs, k)
       /\ Segs(lim, vecs)[k - 1] + Counts(lim, Cut(bv, total_len))[0] <= nsegs
  /\ pc = "cut" =>
       /\ k \in 1 .. Len(vecs) /\ StartOf(vecs, k) <= bytes /\ bytes < StartOf(vecs, k + 1)
       /\ NoGapsUpto(lim, vecs, IF bytes = StartOf(vecs, k) THEN k - 1 ELSE k)
       /\ Segs(lim, vecs)[k - 1] + Counts(lim, Cut(bv, bytes - StartOf(vecs, k)))[0] <= nsegs

(* What PiecesWithinLimits says of one piece, of a bio with operation o    *)
(* that is atomic or not, the limits again as a parameter.                 *)
Short(l, o, atomic, from, n) ==
  LET max == IF o = "zone_append" THEN l.max_zone_append
             ELSE IF atomic THEN l.atomic_max ELSE l.max_sectors
      b == IF atomic /\ l.atomic_boundary # 0 THEN l.atomic_boundary ELSE l.chunk
  IN  /\ n <= max
      /\ b = 0 \/ o = "zone_append" \/ from \div b = (from + n - 1) \div b
Good(l, o, atomic, p) ==
  /\ p.hooked \/ Short(l, o, atomic, p.sector, p.size)
  /\ NoGapsUpto(l, p.vecs, Len(p.vecs)) /\ Segs(l, p.vecs)[Len(p.vecs)] <= l.max_segments
  /\ Segs(l, p.vecs)[Len(p.vecs)] <= p.segs
  /\ p.segs <= l.max_segments
AllGood(l, o, atomic, ps) == o \in Scans => \A i \in DOMAIN ps : Good(l, o, atomic, ps[i])

(* PiecesWithinLimits in these terms, now                                  *)
LEMMA LimitsIs == PiecesWithinLimits <=> AllGood(lim, op, "atomic" \in flags, pieces)
<1>1. \A p : WithinSectors(p) <=> Short(lim, op, "atomic" \in flags, p.sector, p.size)
  BY Zenon DEF WithinSectors, Short
<1>2. \A vs : NoGaps(vs) <=> NoGapsUpto(lim, vs, Len(vs))
  BY DEF NoGaps, NoGapsUpto, GapBetween
<1>3. QED
  BY <1>1, <1>2, RecalcIs, Zenon DEF PiecesWithinLimits, AllGood, Good, WithinSegments

(* and after a step.                                                       *)
LEMMA LimitsIsNext == PiecesWithinLimits' <=> AllGood(lim', op', "atomic" \in flags', pieces')
<1>1. \A p : WithinSectors(p)' <=> Short(lim', op', "atomic" \in flags', p.sector, p.size)
  BY Zenon DEF WithinSectors, Short
<1>2. \A vs : NoGaps(vs)' <=> NoGapsUpto(lim', vs, Len(vs))
  BY DEF NoGaps, NoGapsUpto, GapBetween
<1>3. QED
  BY <1>1, <1>2, RecalcIs2, Zenon DEF PiecesWithinLimits, AllGood, Good, WithinSegments

(* get_max_io_size goes no further than the limits, but for the hook.      *)
LEMMA MaxIoShort ==
  ASSUME LimitsOK, BioOK, op \in Scans, op # "zone_append", ~ RasplitHook,
         NEW n \in Nat \ {0}, n <= get_max_io_size
  PROVE  Short(lim, op, "atomic" \in flags, sector, n)
<1> DEFINE s == sector % lim.pbs
           m == MaxSectors
           e == RoundDown(s + m, lim.pbs)
           r == RoundDown(m, lim.lbs)
           b == blk_boundary_sectors
           o == OpMaxSectors
<1>1. lim.pbs \in Nat \ {0} /\ lim.lbs \in Nat \ {0} /\ sector \in Nat /\ o \in Nat /\ b \in Nat
  BY DEF OpMaxSectors, blk_boundary_sectors, LimitsOK, QueueLimits, BioOK
<1>2. m \in Nat
  BY MaxSectorsType
<1>3. get_max_io_size = IF e > s THEN e - s ELSE r
  BY DEF get_max_io_size
<1>4. Short(lim, op, "atomic" \in flags, sector, n)
        <=> n <= o /\ (b = 0 \/ sector \div b = (sector + n - 1) \div b)
  BY DEF Short, OpMaxSectors, blk_boundary_sectors, Scans
<1>5. m = IF b = 0 THEN o ELSE Min({o, b - (sector % b)})
  BY DEF MaxSectors
<1>6. s \in Nat
  <2>1. sector \in Int /\ \A x : x \in 0 .. lim.pbs - 1 => x \in Nat
    BY <1>1
  <2>2. s \in 0 .. lim.pbs - 1
    BY <1>1, <2>1, DivMod, Zenon
  <2>3. QED
    BY <2>1, <2>2
<1> HIDE DEF s, m, b, o
<1>7. n <= m
  <2>1. s + m \in Int /\ m \in Int
    BY <1>2, <1>6
  <2>2. e \in Int /\ e <= s + m /\ r \in Int /\ r <= m
    BY <1>1, <2>1, RoundDownIs, Zenon
  <2> HIDE DEF e, r
  <2>3. n <= IF e > s THEN e - s ELSE r
    BY <1>3
  <2>4. QED
    BY <1>2, <1>6, <2>2, <2>3
<1>8. CASE b = 0
  BY <1>4, <1>5, <1>7, <1>8
<1>9. CASE b # 0
  <2> DEFINE q == sector \div b
             t == sector % b
             c == b - t
  <2>1. b \in Nat \ {0} /\ sector \in Int
    BY <1>1, <1>9
  <2>2. t \in 0 .. b - 1 /\ q \in Int /\ sector = b * q + t
    BY <2>1, DivMod
  <2>3. m = Min({o, c})
    BY <1>5, <1>9
  <2>4. c \in Int /\ o \in Int
    <3> HIDE DEF t
    <3>1. QED
      BY <1>1, <2>1, <2>2
  <2> HIDE DEF c
  <2>5. n <= o /\ n <= c
    BY <1>7, <2>3, <2>4, MinTwo
  <2>6. t + (n - 1) \in 0 .. b - 1
    <3> HIDE DEF t
    <3>1. QED
      BY <2>1, <2>2, <2>5 DEF c
  <2>7. sector + n - 1 = b * q + (t + (n - 1))
    <3> HIDE DEF t, q
    <3>1. b * q \in Int
      BY <2>1, <2>2
    <3>2. QED
      BY <2>2, <3>1
  <2> HIDE DEF t
  <2>8. (b * q + (t + (n - 1))) \div b = q
    BY <2>1, <2>2, <2>6, DivUnique
  <2>9. QED
    BY <1>4, <2>5, <2>7, <2>8
<1>10. QED
  BY <1>8, <1>9

(* The vectors of the rest begin in the pages of the bio's vectors.        *)
LEMMA PagesAligned ==
  ASSUME BioOK, Conserved, NEW i \in 1 .. Len(vecs)
  PROVE  vecs[i].page % PageSize = 0
<1> DEFINE n == sector - orig.sector
           vs == orig.vecs
           f == FirstAfter(vs, n)
<1>1. n \in Nat /\ vs \in Seq(Vec) /\ vecs = VecsAfter(vs, n)
  <2>1. sector \in Nat /\ sector >= orig.sector
    BY DEF BioOK
  <2>2. orig.sector \in Nat /\ orig.vecs \in Seq(Vec)
    BY OrigOK
  <2>3. n \in Nat
    BY <2>1, <2>2
  <2>4. vecs = VecsAfter(vs, n)
    BY DEF Conserved
  <2>5. QED
    BY <2>2, <2>3, <2>4
<1>2. \A j \in 1 .. Len(vs) : vs[j].page % PageSize = 0
  <2>1. orig \in Bios
    BY DEF BioOK
  <2>2. \A j \in DOMAIN orig.vecs : orig.vecs[j].page % PageSize = 0
    BY <2>1, BiosAssumption
  <2>3. QED
    BY <1>1, <2>2
<1> HIDE DEF n, vs
<1>3. /\ Len(vecs) = Len(vs) + 1 - f
      /\ f <= Len(vs) => vecs[1] = [vs[f] EXCEPT !.off = vs[f].off + (n - StartOf(vs, f)),
                                                 !.len = vs[f].len - (n - StartOf(vs, f))]
      /\ \A j \in 2 .. Len(vs) + 1 - f : vecs[j] = vs[f + j - 1]
  BY <1>1, AfterType, Zenon
<1>4. f \in 1 .. Len(vs) + 1 /\ Len(vs) \in Nat
  BY <1>1, FirstAfterIs
<1> HIDE DEF f
<1>5. CASE i = 1
  <2>1. f \in 1 .. Len(vs)
    BY <1>3, <1>4
  <2>2. vs[f] \in Vec
    BY <1>1, <2>1
  <2>3. vecs[1].page = vs[f].page
    <3> DEFINE a == vs[f].off + (n - StartOf(vs, f))
               b == vs[f].len - (n - StartOf(vs, f))
    <3>1. f <= Len(vs)
      BY <1>4, <2>1
    <3>2. vecs[1] = [vs[f] EXCEPT !.off = a, !.len = b]
      BY <1>3, <3>1
    <3> HIDE DEF a, b
    <3>3. QED
      BY <2>2, <3>2 DEF Vec
  <2>4. QED
    BY <1>2, <1>5, <2>1, <2>3
<1>6. CASE i # 1
  <2>1. i \in 2 .. Len(vs) + 1 - f /\ f + i - 1 \in 1 .. Len(vs)
    BY <1>3, <1>4, <1>6
  <2>2. vecs[i] = vs[f + i - 1]
    BY <1>3, <2>1
  <2>3. QED
    BY <1>2, <2>1, <2>2
<1>7. QED
  BY <1>5, <1>6

SInv == SegInv /\ PiecesWithinLimits

(* A step that sends nothing keeps the pieces within the limits.           *)
LEMMA GoodKept ==
  ASSUME PiecesWithinLimits, UNCHANGED <<lim, op, flags, pieces>>
  PROVE  PiecesWithinLimits'
BY LimitsIs, LimitsIsNext

(* get_max_io_size depends on the limits and the bio only.                 *)
LEMMA MaxIoSame ==
  ASSUME UNCHANGED <<lim, op, flags, sector, size>>
  PROVE  get_max_io_size' = get_max_io_size
BY DEF get_max_io_size, RasplitHook, MaxSectors, OpMaxSectors, blk_boundary_sectors

(* Only reads, writes and zone appends are scanned.                        *)
LEMMA OthersNotScanned ==
  ASSUME Inv', op' \notin Scans
  PROVE  SInv'
<1>1. pc' \notin Scanning
  BY DEF Inv, TypeInv, ScanOK
<1>2. SegInv'
  BY <1>1 DEF SegInv, Scanning
<1>3. PiecesWithinLimits'
  BY LimitsIsNext DEF AllGood
<1>4. QED
  BY <1>2, <1>3 DEF SInv

(* A bio that is made to fail sends nothing more.                          *)
LEMMA FailFits ==
  ASSUME SInv, NEW error, Fail(error)
  PROVE  SInv'
<1>1. SegInv'
  BY DEF Fail, SegInv, Scanning
<1>2. PiecesWithinLimits'
  BY GoodKept DEF Fail, SInv, bioVars
<1>3. QED
  BY <1>1, <1>2 DEF SInv

(* Nothing is counted yet.                                                 *)
LEMMA ScanBeginFits ==
  ASSUME Inv, SInv, ScanBegin
  PROVE  SInv'
<1>1. /\ pc = "submit" /\ op \in Scans /\ pc' = "vec"
      /\ max_bytes' = (IF op = "zone_append" THEN lim.max_zone_append ELSE get_max_io_size)
      /\ k' = 1 /\ nsegs' = 0
      /\ UNCHANGED <<lim, op, flags, orig, sector, size, vecs, pieces>>
  BY DEF ScanBegin, SplitToLimits, bioVars, iterVars
<1>2. lim \in QueueLimits /\ vecs \in Seq(Vec)
  BY RestOK DEF Inv, TypeInv, LimitsOK
<1>3. Segs(lim, vecs)[0] = 0 /\ 1 - 1 = 0
  <2>1. Len(vecs) \in Nat
    BY <1>2
  <2>2. QED
    BY <2>1, SegsDef
<1>4. 0 \in 0 .. lim.max_segments
  BY <1>2 DEF QueueLimits
<1>5. NoGapsUpto(lim, vecs, 0)
  BY DEF NoGapsUpto
<1>6. get_max_io_size' = get_max_io_size
  BY <1>1, MaxIoSame
<1>7. size > 0
  BY <1>1 DEF SInv, SegInv
<1>8. SegInv'
  BY <1>1, <1>3, <1>4, <1>5, <1>6, <1>7 DEF SegInv, Scanning
<1>9. PiecesWithinLimits'
  BY <1>1, GoodKept DEF SInv
<1>10. QED
  BY <1>8, <1>9 DEF SInv

(* A bvec is looked at: a gap ends the scan before it, the fast path       *)
(* counts it as one segment.                                               *)
LEMMA VecFits ==
  ASSUME Inv, SInv, VecGap \/ VecFast \/ VecSlow
  PROVE  SInv'
<1>0. pc = "vec" /\ k <= Len(vecs) /\ UNCHANGED <<lim, op, flags, orig, sector, size, vecs,
        pieces, max_bytes>>
  BY DEF VecGap, VecFast, VecSlow, bioVars, iterVars, scanVars
<1>1. LimitsOK /\ BioOK /\ ScanOK /\ Conserved
  BY DEF Inv, TypeInv
<1>2. /\ op \in Scans /\ max_bytes \in Nat /\ bytes \in Nat /\ bytes <= max_bytes
      /\ k \in 1 .. Len(vecs) + 1 /\ bytes = StartOf(vecs, k)
  BY <1>0, <1>1 DEF ScanOK, Scanning
<1>3. lim \in QueueLimits /\ vecs \in Seq(Vec) /\ Len(vecs) \in Nat
  BY <1>1, RestOK DEF LimitsOK
<1>4. k \in 1 .. Len(vecs)
  BY <1>0, <1>2, <1>3
<1>5. /\ bv \in Vec /\ bv.len \in Nat /\ bv.len > 0 /\ bv.off \in Nat /\ bv.page \in Nat
      /\ StartOf(vecs, k) \in Nat
      /\ StartOf(vecs, k + 1) = StartOf(vecs, k) + bv.len
  BY <1>1, <1>2, <1>4, BvecInside
<1>6. /\ size > 0 /\ nsegs \in 0 .. lim.max_segments
      /\ max_bytes = IF op = "zone_append" THEN lim.max_zone_append ELSE get_max_io_size
      /\ Segs(lim, vecs)[k - 1] <= nsegs /\ NoGapsUpto(lim, vecs, k - 1)
  BY <1>0, <1>2 DEF SInv, SegInv, Scanning
<1>7. get_max_io_size' = get_max_io_size
  BY <1>0, MaxIoSame
<1>8. PiecesWithinLimits'
  BY <1>0, GoodKept DEF SInv
<1>9. Segs(lim, vecs)[k - 1] \in Nat /\ Segs(lim, vecs)[k]
        = Segs(lim, vecs)[k - 1] + Counts(lim, bv)[0]
  <2>1. k - 1 \in 0 .. Len(vecs)
    BY <1>3, <1>4
  <2>2. QED
    BY <1>3, <1>4, <2>1, SegsType, SegsDef DEF bv
<1>10. ~ GapBefore => NoGapsUpto(lim, vecs, k)
  <2>1. SUFFICES ASSUME ~ GapBefore, NEW i \in 2 .. k
                 PROVE  vecs[i].off % lim.virt_boundary = 0
                        /\ (vecs[i - 1].off + vecs[i - 1].len) % lim.virt_boundary = 0
    BY DEF NoGapsUpto
  <2>2. CASE i = k
    BY <1>4, <2>1, <2>2 DEF GapBefore, GapBetween, bv
  <2>3. CASE i # k
    <3>1. i \in 2 .. k - 1
      BY <1>4, <2>3
    <3>2. QED
      BY <1>6, <3>1 DEF NoGapsUpto
  <2>4. QED
    BY <2>2, <2>3
<1>11. nsegs \in Nat /\ lim.max_segments \in Nat
  BY <1>3, <1>6 DEF QueueLimits
<1>12. CASE VecGap
  <2>1. pc' = "cut" /\ UNCHANGED <<k, bytes, nsegs>>
    BY <1>12 DEF VecGap, scanVars
  <2>2. bytes - StartOf(vecs, k) = 0 /\ StartOf(vecs, k) <= bytes /\ bytes < StartOf(vecs, k + 1)
    BY <1>2, <1>5
  <2>3. Counts(lim, Cut(bv, 0))[0] = 0
    <3> DEFINE w == Cut(bv, 0)
    <3>1. w.page \in Nat /\ w.off \in Nat /\ w.len = 0
      BY <1>5, CutIs
    <3> HIDE DEF w
    <3>2. Counts(lim, w)[w.len] = 0
      BY <1>3, <3>1, CountsDef
    <3>3. QED
      BY <3>1, <3>2 DEF w
  <2>4. Segs(lim, vecs)[k - 1] + Counts(lim, Cut(bv, bytes - StartOf(vecs, k)))[0] <= nsegs
    BY <1>6, <1>9, <2>2, <2>3
  <2>5. bv' = bv
    BY <1>0, <2>1 DEF bv
  <2>6. SegInv'
    BY <1>0, <1>4, <1>6, <1>7, <2>1, <2>2, <2>4, <2>5, <1>2 DEF SegInv, Scanning
  <2>7. QED
    BY <1>8, <2>6 DEF SInv
<1>13. CASE VecFast
  <2>1. /\ nsegs' = nsegs + 1 /\ k' = k + 1 /\ pc' = "vec" /\ nsegs < lim.max_segments
        /\ bv.off + bv.len <= max_fast_segment_size /\ ~ GapBefore
    BY <1>0, <1>13 DEF VecFast, FitsFast
  <2>2. Counts(lim, bv)[0] = 1
    <3>1. bv.page % PageSize = 0
      BY <1>1, <1>2, <1>4, PagesAligned DEF bv
    <3>2. bv.off + bv.len <= Min({PageSize, lim.seg_boundary, lim.max_segment_size})
      BY <2>1 DEF max_fast_segment_size
    <3>3. lim.seg_boundary % PageSize = 0 \/ PageSize % lim.seg_boundary = 0
      BY <1>1 DEF LimitsOK
    <3>4. QED
      BY <1>3, <1>5, <3>1, <3>2, <3>3, OneSegment
  <2>3. k' - 1 = k /\ nsegs' \in 0 .. lim.max_segments
    BY <1>4, <1>11, <2>1
  <2>4. Segs(lim, vecs)[k] <= nsegs'
    BY <1>6, <1>9, <1>11, <2>1, <2>2
  <2>5. SegInv'
    BY <1>0, <1>6, <1>7, <1>10, <2>1, <2>3, <2>4, <1>2 DEF SegInv, Scanning
  <2>6. QED
    BY <1>8, <2>5 DEF SInv
<1>14. CASE VecSlow
  <2>1. /\ pc' = "segs" /\ total_len' = 0 /\ UNCHANGED <<k, bytes, nsegs>> /\ ~ GapBefore
        /\ len' = Min({bv.len, max_bytes - bytes})
    BY <1>14 DEF VecSlow, scanVars
  <2>2. len' \in Nat
    <3>1. bv.len \in Int /\ max_bytes - bytes \in Int /\ max_bytes - bytes >= 0
      BY <1>2, <1>5
    <3>2. QED
      BY <1>5, <2>1, <3>1, MinTwo
  <2>3. \A a \in Nat : Segs(lim, vecs)[k - 1] + Counts(lim, Cut(bv, a))[0]
          <= nsegs + Counts(lim, Cut(bv, a))[0]
    <3>1. SUFFICES ASSUME NEW a \in Nat
                   PROVE  Segs(lim, vecs)[k - 1] + Counts(lim, Cut(bv, a))[0]
                            <= nsegs + Counts(lim, Cut(bv, a))[0]
      OBVIOUS
    <3> DEFINE w == Cut(bv, a)
    <3>2. w.page \in Nat /\ w.off \in Nat /\ w.len = a
      BY <1>5, CutIs
    <3>3. w.len \in Nat /\ 0 \in 0 .. w.len
      BY <3>2
    <3> HIDE DEF w
    <3>4. Counts(lim, w)[0] \in Nat
      BY <1>3, <3>2, <3>3, CountsType
    <3>5. Segs(lim, vecs)[k - 1] + Counts(lim, w)[0] <= nsegs + Counts(lim, w)[0]
      BY <1>6, <1>9, <1>11, <3>4
    <3>6. QED
      BY <3>5 DEF w
  <2>4. \A a \in total_len' .. total_len' + len' : a \in Nat
    BY <2>1, <2>2
  <2>5. bv' = bv
    BY <1>0, <2>1 DEF bv
  <2>6. \A a \in total_len' .. total_len' + len' :
          Segs(lim, vecs)[k - 1] + Counts(lim, Cut(bv, a))[0]
            <= nsegs + Counts(lim, Cut(bv, a))[total_len']
    BY <2>1, <2>3, <2>4
  <2>7. SegInv'
    BY <1>0, <1>6, <1>7, <1>10, <2>1, <2>5, <2>6, <1>2, Zenon DEF SegInv, Scanning
  <2>8. QED
    BY <1>8, <2>7 DEF SInv
<1>15. QED
  BY <1>12, <1>13, <1>14

(* The loop of bvec_split_segs.                                            *)
LEMMA SegNextFits ==
  ASSUME Inv, SInv, SegNext
  PROVE  SInv'
<1>0. pc = "segs" /\ SegLoop /\ UNCHANGED <<lim, op, flags, orig, sector, size, vecs, pieces,
        max_bytes, k, bytes>>
  BY DEF SegNext, bioVars, iterVars
<1>1. LimitsOK /\ BioOK /\ ScanOK /\ Conserved
  BY DEF Inv, TypeInv
<1>2. /\ op \in Scans /\ max_bytes \in Nat /\ bytes \in Nat /\ bytes <= max_bytes
      /\ k \in 1 .. Len(vecs) /\ bytes = StartOf(vecs, k)
      /\ len \in Nat /\ total_len \in Nat
  BY <1>0, <1>1 DEF ScanOK, Scanning
<1>3. lim \in QueueLimits /\ vecs \in Seq(Vec) /\ Len(vecs) \in Nat
  BY <1>1, RestOK DEF LimitsOK
<1>4. bv \in Vec /\ bv.len \in Nat /\ bv.len > 0 /\ bv.off \in Nat /\ bv.page \in Nat
  BY <1>1, <1>2, BvecInside
<1>5. /\ size > 0 /\ nsegs \in 0 .. lim.max_segments
      /\ max_bytes = IF op = "zone_append" THEN lim.max_zone_append ELSE get_max_io_size
      /\ NoGapsUpto(lim, vecs, k)
      /\ \A a \in total_len .. total_len + len :
           Segs(lim, vecs)[k - 1] + Counts(lim, Cut(bv, a))[0]
             <= nsegs + Counts(lim, Cut(bv, a))[total_len]
  BY <1>0, <1>2 DEF SInv, SegInv, Scanning
<1>6. get_max_io_size' = get_max_io_size /\ bv' = bv
  BY <1>0, MaxIoSame DEF bv
<1>7. PiecesWithinLimits'
  BY <1>0, GoodKept DEF SInv
<1> DEFINE d == total_len
           t == total_len + len
           s == SegSize(bv.page + bv.off + total_len, len)
           stop == (bv.off + total_len + s) % lim.virt_boundary # 0
<1>8. /\ nsegs' = nsegs + 1 /\ total_len' = d + s /\ len' = len - s
      /\ pc' = IF stop THEN "segs_done" ELSE "segs"
  BY DEF SegNext
<1>9. len > 0 /\ nsegs < lim.max_segments
  BY <1>0 DEF SegLoop
<1>10. nsegs \in Nat /\ lim.max_segments \in Nat /\ nsegs' \in 0 .. lim.max_segments
  <2>1. lim.max_segments \in Nat
    BY <1>3 DEF QueueLimits
  <2>2. nsegs \in Nat /\ nsegs' = nsegs + 1
    BY <1>5, <1>8, <2>1
  <2>3. QED
    BY <1>9, <2>1, <2>2
<1>11. s = SegLen(lim, bv.page + bv.off + d, t - d)
  <2>1. t - d = len
    BY <1>2
  <2>2. QED
    BY <2>1, Zenon DEF SegSize, SegLen
<1>12. t \in Nat /\ d \in 0 .. t - 1 /\ d \in Nat /\ s \in Nat /\ s > 0 /\ s <= len
  <2>1. bv.page + bv.off + total_len \in Nat
    BY <1>2, <1>4
  <2>2. s \in Nat /\ s > 0 /\ s <= len
    BY <1>1, <1>2, <1>9, <2>1, SegSizeType, Zenon
  <2> HIDE DEF s
  <2>3. QED
    BY <1>2, <1>9, <2>2
<1>13. total_len' + len' = t /\ total_len' \in Nat /\ len' \in Nat
  <2> HIDE DEF s
  <2>1. QED
    BY <1>2, <1>8, <1>12
<1> HIDE DEF s
<1>14. Segs(lim, vecs)[k - 1] \in Nat
  <2>1. k - 1 \in 0 .. Len(vecs)
    BY <1>2, <1>3
  <2>2. QED
    BY <1>3, <2>1, SegsType
<1>15. ASSUME NEW a \in d + s .. t
       PROVE  /\ stop => Segs(lim, vecs)[k - 1] + Counts(lim, Cut(bv, a))[0] <= nsegs'
              /\ ~ stop => Segs(lim, vecs)[k - 1] + Counts(lim, Cut(bv, a))[0]
                             <= nsegs' + Counts(lim, Cut(bv, a))[d + s]
  <2> DEFINE w == Cut(bv, a)
             g == Segs(lim, vecs)[k - 1]
             c0 == Counts(lim, w)[0]
             cd == Counts(lim, w)[d]
             cs == Counts(lim, w)[d + s]
  <2>1. a \in Nat /\ a \in d .. t
    BY <1>12
  <2>2. w.page = bv.page /\ w.off = bv.off /\ w.len = a
    BY <1>4, <2>1, CutIs
  <2>3. w.page \in Nat /\ w.off \in Nat /\ w.len \in Nat /\ w.len \in d + s .. t
    BY <1>4, <2>1, <2>2
  <2>4. g + c0 <= nsegs + cd
    BY <1>5, <2>1
  <2>5. s = SegLen(lim, w.page + w.off + d, t - d)
    BY <1>11, <2>2
  <2> HIDE DEF w
  <2>6. cd = 1 + IF (w.off + d + s) % lim.virt_boundary # 0 THEN 0 ELSE cs
    <3> DEFINE p == w.page + w.off + d
               n == t - d
    <3>1. n \in Nat \ {0} /\ d + n = t
      BY <1>12
    <3>2. s = SegLen(lim, p, n)
      BY <2>5
    <3>3. p = w.page + w.off + d
      OBVIOUS
    <3> HIDE DEF d, t, stop, p, n
    <3>4. d \in Nat /\ w.len \in d + s .. d + n
      BY <1>12, <2>3, <3>1
    <3>5. QED
      BY <1>3, <2>3, <3>1, <3>2, <3>3, <3>4, CountsStep
  <2>7. cd = 1 + IF stop THEN 0 ELSE cs
    BY <2>2, <2>6
  <2>8. c0 \in Nat /\ cs \in Nat
    <3>1. 0 \in 0 .. w.len /\ d + s \in 0 .. w.len
      BY <1>12, <2>3
    <3>2. QED
      BY <1>3, <2>3, <3>1, CountsType
  <2>9. g \in Nat
    BY <1>14
  <2> HIDE DEF g, c0, cd, cs, stop
  <2>10. (stop => g + c0 <= nsegs') /\ (~ stop => g + c0 <= nsegs' + cs)
    BY <1>8, <1>10, <2>4, <2>7, <2>8, <2>9
  <2>11. QED
    BY <2>10 DEF g, c0, cs, w
<1>16. CASE stop
  <2>1. pc' = "segs_done"
    BY <1>8, <1>16
  <2>2. d + s \in d + s .. t
    BY <1>2, <1>12
  <2>3. Segs(lim, vecs)[k - 1] + Counts(lim, Cut(bv, d + s))[0] <= nsegs'
    BY <1>15, <1>16, <2>2
  <2>4. SegInv'
    BY <1>0, <1>2, <1>5, <1>6, <1>8, <1>10, <2>1, <2>3, Zenon DEF SegInv, Scanning
  <2>5. QED
    BY <1>7, <2>4 DEF SInv
<1>17. CASE ~ stop
  <2>1. pc' = "segs"
    BY <1>8, <1>17
  <2>2. \A a \in total_len' .. total_len' + len' :
           Segs(lim, vecs)[k - 1] + Counts(lim, Cut(bv, a))[0]
             <= nsegs' + Counts(lim, Cut(bv, a))[total_len']
    BY <1>8, <1>13, <1>15, <1>17
  <2>3. SegInv'
    BY <1>0, <1>2, <1>5, <1>6, <1>10, <2>1, <2>2 DEF SegInv, Scanning
  <2>4. QED
    BY <1>7, <2>3 DEF SInv
<1>18. QED
  BY <1>16, <1>17

(* The bvec counted, in full or in part.                                   *)
LEMMA SegsDoneFits ==
  ASSUME Inv, SInv, SegsDone
  PROVE  SInv'
<1>0. /\ pc = "segs_done" \/ (pc = "segs" /\ ~ SegLoop)
      /\ UNCHANGED <<lim, op, flags, orig, sector, size, vecs, pieces, max_bytes, nsegs>>
      /\ bytes' = bytes + total_len
  BY DEF SegsDone, bioVars, iterVars
<1>1. LimitsOK /\ BioOK /\ ScanOK /\ Conserved
  BY DEF Inv, TypeInv
<1>2. /\ op \in Scans /\ max_bytes \in Nat /\ bytes \in Nat /\ bytes <= max_bytes
      /\ k \in 1 .. Len(vecs) /\ bytes = StartOf(vecs, k)
      /\ len \in Nat /\ total_len \in Nat
      /\ total_len + len = Min({bv.len, max_bytes - bytes})
  BY <1>0, <1>1 DEF ScanOK, Scanning
<1>3. lim \in QueueLimits /\ vecs \in Seq(Vec) /\ Len(vecs) \in Nat
  BY <1>1, RestOK DEF LimitsOK
<1>4. /\ bv \in Vec /\ bv.len \in Nat /\ bv.len > 0 /\ bv.off \in Nat /\ bv.page \in Nat
      /\ StartOf(vecs, k) \in Nat /\ StartOf(vecs, k + 1) = StartOf(vecs, k) + bv.len
  BY <1>1, <1>2, BvecInside
<1>5. /\ size > 0 /\ nsegs \in 0 .. lim.max_segments
      /\ max_bytes = IF op = "zone_append" THEN lim.max_zone_append ELSE get_max_io_size
      /\ NoGapsUpto(lim, vecs, k)
  BY <1>0, <1>2 DEF SInv, SegInv, Scanning
<1>6. get_max_io_size' = get_max_io_size
  BY <1>0, MaxIoSame
<1>7. PiecesWithinLimits'
  BY <1>0, GoodKept DEF SInv
<1>8. Segs(lim, vecs)[k - 1] + Counts(lim, Cut(bv, total_len))[0] <= nsegs
  <2>1. CASE pc = "segs_done"
    BY <2>1 DEF SInv, SegInv
  <2>2. CASE pc = "segs"
    <3> DEFINE w == Cut(bv, total_len)
    <3>1. w.page \in Nat /\ w.off \in Nat /\ w.len = total_len
      BY <1>2, <1>4, CutIs
    <3>2. total_len \in total_len .. total_len + len
      BY <1>2
    <3>3. Segs(lim, vecs)[k - 1] + Counts(lim, w)[0] <= nsegs + Counts(lim, w)[total_len]
      BY <2>2, <3>2 DEF SInv, SegInv
    <3> HIDE DEF w
    <3>4. Counts(lim, w)[w.len] = 0
      BY <1>2, <1>3, <3>1, CountsDef
    <3>5. nsegs + 0 = nsegs
      BY <1>3, <1>5 DEF QueueLimits
    <3>6. QED
      BY <3>1, <3>3, <3>4, <3>5 DEF w
  <2>3. QED
    BY <1>0, <2>1, <2>2
<1> DEFINE n == bv.len
           r == max_bytes - bytes
<1>9. n \in Nat /\ n > 0 /\ r \in Nat /\ total_len + len = (IF n <= r THEN n ELSE r)
  <2>1. n \in Int /\ r \in Int /\ r >= 0
    BY <1>2, <1>4
  <2>2. Min({n, r}) = IF n <= r THEN n ELSE r
    <3> HIDE DEF n, r
    <3>1. QED
      BY <2>1, MinTwo
  <2>3. QED
    BY <1>2, <1>4, <2>1, <2>2
<1>10. CASE len > 0 \/ bv.len > max_bytes - bytes
  <2>1. pc' = "cut" /\ k' = k
    BY <1>10 DEF SegsDone
  <2>2. total_len < n
    <3>1. len > 0 \/ n > r
      BY <1>10
    <3> HIDE DEF n, r
    <3>2. QED
      BY <1>2, <1>9, <3>1
  <2>3. bytes' - StartOf(vecs, k) = total_len /\ StartOf(vecs, k) <= bytes'
        /\ bytes' < StartOf(vecs, k + 1)
    <3> HIDE DEF n
    <3>1. StartOf(vecs, k + 1) = bytes + n /\ bytes' = bytes + total_len
      BY <1>0, <1>2, <1>4 DEF n
    <3>2. bytes' < bytes + n
      BY <1>2, <1>9, <2>2, <3>1
    <3>3. QED
      BY <1>2, <3>1, <3>2
  <2>4. NoGapsUpto(lim, vecs, IF bytes' = StartOf(vecs, k) THEN k - 1 ELSE k)
    <3>1. \A i \in 2 .. (IF bytes' = StartOf(vecs, k) THEN k - 1 ELSE k) : i \in 2 .. k
      BY <1>2
    <3>2. QED
      BY <1>5, <3>1 DEF NoGapsUpto
  <2>5. bv' = bv
    BY <1>0, <2>1 DEF bv
  <2>6. Segs(lim, vecs)[k - 1] + Counts(lim, Cut(bv, bytes' - StartOf(vecs, k)))[0] <= nsegs
    BY <1>8, <2>3
  <2>7. SegInv'
    BY <1>0, <1>2, <1>5, <1>6, <2>1, <2>3, <2>4, <2>5, <2>6, Zenon DEF SegInv, Scanning
  <2>8. QED
    BY <1>7, <2>7 DEF SInv
<1>11. CASE ~ (len > 0 \/ bv.len > max_bytes - bytes)
  <2>1. pc' = "vec" /\ k' = k + 1
    BY <1>11 DEF SegsDone
  <2>2. total_len = n
    <3>1. ~ (len > 0) /\ ~ (n > r)
      BY <1>11
    <3> HIDE DEF n, r
    <3>2. QED
      BY <1>2, <1>9, <3>1
  <2>3. Cut(bv, total_len) = bv
    BY <1>4, <2>2 DEF Cut, Vec
  <2>4. Segs(lim, vecs)[k] = Segs(lim, vecs)[k - 1] + Counts(lim, bv)[0]
    BY <1>2, <1>3, SegsDef, Zenon DEF bv
  <2>5. Segs(lim, vecs)[k] <= nsegs
    BY <1>8, <2>3, <2>4
  <2>6. k' - 1 = k
    BY <1>2, <2>1
  <2>7. SegInv'
    BY <1>0, <1>2, <1>5, <1>6, <2>1, <2>5, <2>6 DEF SegInv, Scanning
  <2>8. QED
    BY <1>7, <2>7 DEF SInv
<1>12. QED
  BY <1>10, <1>11

(* A piece within the limits is sent.                                      *)
LEMMA AppendGood ==
  ASSUME \E S : pieces \in Seq(S), PiecesWithinLimits, NEW q, Good(lim, op, "atomic" \in flags, q),
         pieces' = Append(pieces, q), lim' = lim, op' = op,
         ("atomic" \in flags') <=> ("atomic" \in flags)
  PROVE  PiecesWithinLimits'
<1>1. PICK S : pieces \in Seq(S)
  OBVIOUS
<1>2. AllGood(lim, op, "atomic" \in flags, pieces)
  BY LimitsIs
<1>3. \A p : Good(lim, op, "atomic" \in flags, p) => Good(lim', op', "atomic" \in flags', p)
  BY Zenon DEF Good, Short
<1>4. \A i \in DOMAIN pieces' : IF i \in DOMAIN pieces THEN pieces'[i] = pieces[i]
        ELSE pieces'[i] = q
  BY <1>1
<1>5. ASSUME op \in Scans, NEW i \in DOMAIN pieces'
      PROVE  Good(lim', op', "atomic" \in flags', pieces'[i])
  <2>1. CASE i \in DOMAIN pieces
    <3>1. Good(lim, op, "atomic" \in flags, pieces[i]) /\ pieces'[i] = pieces[i]
      BY <1>2, <1>4, <1>5, <2>1 DEF AllGood
    <3>2. QED
      BY <1>3, <3>1
  <2>2. CASE i \notin DOMAIN pieces
    <3>1. pieces'[i] = q
      BY <1>4, <1>5, <2>2
    <3>2. QED
      BY <1>3, <3>1
  <2>3. QED
    BY <2>1, <2>2
<1>6. QED
  BY <1>5, LimitsIsNext DEF AllGood

(* A piece that is a front of what the scan has made sure of.              *)
LEMMA PieceGood ==
  ASSUME Inv, SegInv, pc \in Scanning, NEW n \in Nat \ {0}, n <= max_bytes, NEW fl,
         NoGapsUpto(lim, VecsBefore(vecs, n), Len(VecsBefore(vecs, n))),
         Segs(lim, VecsBefore(vecs, n))[Len(VecsBefore(vecs, n))] \in Nat,
         Segs(lim, VecsBefore(vecs, n))[Len(VecsBefore(vecs, n))] <= nsegs
  PROVE  Good(lim, op, "atomic" \in flags, Piece(n, nsegs, fl))
<1> DEFINE q == Piece(n, nsegs, fl)
           c == Segs(lim, q.vecs)[Len(q.vecs)]
<1>1. q.hooked = RasplitHook /\ q.sector = sector /\ q.size = n /\ q.segs = nsegs
        /\ q.vecs = VecsBefore(vecs, n)
  BY DEF Piece
<1>2. LimitsOK /\ BioOK /\ op \in Scans
  BY DEF Inv, TypeInv, ScanOK
<1>3. /\ nsegs \in 0 .. lim.max_segments
      /\ max_bytes = IF op = "zone_append" THEN lim.max_zone_append ELSE get_max_io_size
  BY DEF SegInv
<1>4. lim.max_segments \in Nat
  BY <1>2 DEF LimitsOK, QueueLimits
<1>5. c \in Nat /\ c <= nsegs
  BY <1>1
<1>6. nsegs <= lim.max_segments /\ c <= lim.max_segments
  <2> HIDE DEF c
  <2>1. QED
    BY <1>3, <1>4, <1>5
<1>7. RasplitHook \/ Short(lim, op, "atomic" \in flags, sector, n)
  <2>1. CASE op = "zone_append"
    BY <1>3, <2>1 DEF Short
  <2>2. CASE op # "zone_append"
    BY <1>2, <1>3, <2>2, MaxIoShort
  <2>3. QED
    BY <2>1, <2>2
<1>8. q.hooked \/ Short(lim, op, "atomic" \in flags, q.sector, q.size)
  BY <1>1, <1>7
<1>9. NoGapsUpto(lim, q.vecs, Len(q.vecs)) /\ c <= q.segs /\ q.segs <= lim.max_segments
  BY <1>1, <1>5, <1>6
<1> HIDE DEF q
<1>10. Good(lim, op, "atomic" \in flags, q)
  BY <1>6, <1>8, <1>9 DEF Good
<1>11. QED
  BY <1>10 DEF q

(* All of the bio is within the limits.                                    *)
LEMMA AllFitsFits ==
  ASSUME Inv, SInv, AllFits
  PROVE  SInv'
<1>0. /\ pc = "vec" /\ k > Len(vecs) /\ pc' = "done"
      /\ pieces' = Append(pieces, Piece(size, nsegs, flags)) /\ UNCHANGED <<lim, op, flags>>
  BY DEF AllFits, Whole, bioVars
<1>1. LimitsOK /\ BioOK /\ ScanOK /\ Conserved /\ \E S : pieces \in Seq(S)
  BY DEF Inv, TypeInv
<1>2. /\ op \in Scans /\ max_bytes \in Nat /\ bytes \in Nat /\ bytes <= max_bytes
      /\ k \in 1 .. Len(vecs) + 1 /\ bytes = StartOf(vecs, k) /\ size \in Nat
  BY <1>0, <1>1 DEF ScanOK, Scanning, BioOK
<1>3. lim \in QueueLimits /\ vecs \in Seq(Vec) /\ Len(vecs) \in Nat
        /\ size = StartOf(vecs, Len(vecs) + 1)
  BY <1>1, <1>2, RestOK DEF LimitsOK
<1>4. k = Len(vecs) + 1
  BY <1>0, <1>2, <1>3
<1>5. /\ size > 0 /\ nsegs \in 0 .. lim.max_segments
      /\ Segs(lim, vecs)[k - 1] <= nsegs /\ NoGapsUpto(lim, vecs, k - 1)
  BY <1>0, <1>2 DEF SInv, SegInv, Scanning
<1> DEFINE m == Len(vecs)
           v == vecs[m]
           t == v.len
<1>6. m \in 1 .. Len(vecs) /\ k - 1 = m
  <2>1. m # 0
    <3>1. SUFFICES ASSUME m = 0
                   PROVE  FALSE
      OBVIOUS
    <3>2. StartOf(vecs, 1) = 0
      BY <1>3, StartOfNext
    <3>3. size = 0
      BY <1>3, <3>1, <3>2
    <3>4. QED
      BY <1>5, <3>3
  <2>2. QED
    BY <1>3, <1>4, <2>1
<1>7. v \in Vec /\ t \in Nat /\ t > 0 /\ t \in 0 .. v.len
  BY <1>3, <1>6, VecType
<1>8. size \in 1 .. StartOf(vecs, m) + t /\ size <= max_bytes /\ size \in Nat \ {0}
  <2>1. StartOf(vecs, m + 1) = StartOf(vecs, m) + t
    BY <1>3, <1>6, StartOfNext
  <2>2. size = StartOf(vecs, m) + t /\ size = bytes
    BY <1>2, <1>3, <1>4, <2>1
  <2>3. QED
    BY <1>2, <1>5, <2>2
<1>9. nsegs \in Nat
  BY <1>3, <1>5 DEF QueueLimits
<1>10. Segs(lim, vecs)[m - 1] + Counts(lim, Cut(v, t))[0] <= nsegs
  <2>1. Cut(v, t) = v
    BY <1>7 DEF Cut, Vec
  <2>2. Segs(lim, vecs)[m] = Segs(lim, vecs)[m - 1] + Counts(lim, v)[0]
    BY <1>3, <1>6, SegsDef
  <2>3. QED
    BY <1>5, <1>6, <2>1, <2>2
<1>11. NoGapsUpto(lim, vecs, IF t = 0 THEN m - 1 ELSE m)
  BY <1>5, <1>6, <1>7
<1>12. /\ NoGapsUpto(lim, VecsBefore(vecs, size), Len(VecsBefore(vecs, size)))
       /\ Segs(lim, VecsBefore(vecs, size))[Len(VecsBefore(vecs, size))] \in Nat
       /\ Segs(lim, VecsBefore(vecs, size))[Len(VecsBefore(vecs, size))] <= nsegs
  <2> HIDE DEF m, t
  <2>1. QED
    BY <1>3, <1>6, <1>7, <1>8, <1>9, <1>10, <1>11, FrontFits
<1>13. Good(lim, op, "atomic" \in flags, Piece(size, nsegs, flags))
  BY <1>0, <1>8, <1>12, PieceGood, Zenon DEF SInv, Scanning
<1>14. PiecesWithinLimits'
  BY <1>0, <1>1, <1>13, AppendGood DEF SInv
<1>15. SegInv'
  BY <1>0 DEF SegInv, Scanning
<1>16. QED
  BY <1>14, <1>15 DEF SInv

(* A cut at or before where the scan ended.                                *)
LEMMA CutFits ==
  ASSUME Inv, SInv, CutTaken
  PROVE  SInv'
<1>1. pc = "cut" /\ CutError = "none" /\ bio_submit_split(CutPoint, nsegs, bio_clear_polled)
  BY DEF CutTaken
<1>2. LimitsOK /\ BioOK /\ ScanOK /\ Conserved /\ \E S : pieces \in Seq(S)
  BY DEF Inv, TypeInv
<1>3. op \in Scans /\ max_bytes \in Nat /\ bytes \in Nat /\ bytes <= max_bytes /\ bytes < size
        /\ size \in Nat
  BY <1>1, <1>2 DEF ScanOK, Scanning, BioOK
<1>4. CutPoint # 0
  BY <1>1 DEF CutError
<1>5. CutPoint \in Nat /\ CutPoint <= bytes
  <2> DEFINE a == bio_split_alignment
  <2>1. a \in Nat \ {0}
    BY <1>2 DEF bio_split_alignment, LimitsOK, QueueLimits
  <2>2. CutPoint = RoundDown(bytes, a) /\ bytes \in Int /\ bytes >= 0
    BY <1>3 DEF CutPoint
  <2> HIDE DEF a
  <2>3. RoundDown(bytes, a) \in Int /\ RoundDown(bytes, a) <= bytes /\ RoundDown(bytes, a) >= 0
    BY <2>1, <2>2, RoundDownIs
  <2>4. QED
    BY <2>2, <2>3
<1> DEFINE n == CutPoint
<1>6. n \in Nat \ {0} /\ n <= bytes /\ n <= max_bytes /\ n < size
  <2> HIDE DEF n
  <2>1. n \in Nat /\ n # 0 /\ n <= bytes
    BY <1>4, <1>5 DEF n
  <2>2. QED
    BY <1>3, <2>1
<1> HIDE DEF n
<1>7. Fail("ENOMEM") \/ bio_split(n, nsegs, bio_clear_polled)
  BY <1>1, <1>3, <1>6 DEF bio_submit_split, n
<1>8. CASE Fail("ENOMEM")
  BY <1>8, FailFits
<1>9. CASE bio_split(n, nsegs, bio_clear_polled)
  <2> DEFINE fl == bio_clear_polled \union {"nomerge"}
             t == bytes - StartOf(vecs, k)
  <2>1. /\ pieces' = Append(pieces, Piece(n, nsegs, fl)) /\ flags' = bio_clear_polled
        /\ pc' \in {"submit", "done"} /\ size' = size - n /\ UNCHANGED <<lim, op>>
    BY <1>9 DEF bio_split, opVars
  <2>2. lim \in QueueLimits /\ vecs \in Seq(Vec)
    BY <1>2, RestOK DEF LimitsOK
  <2>3. /\ nsegs \in 0 .. lim.max_segments
        /\ k \in 1 .. Len(vecs) /\ StartOf(vecs, k) <= bytes /\ bytes < StartOf(vecs, k + 1)
        /\ NoGapsUpto(lim, vecs, IF bytes = StartOf(vecs, k) THEN k - 1 ELSE k)
        /\ Segs(lim, vecs)[k - 1] + Counts(lim, Cut(vecs[k], bytes - StartOf(vecs, k)))[0] <= nsegs
    BY <1>1 DEF SInv, SegInv, Scanning, bv
  <2>4. nsegs \in Nat
    BY <2>2, <2>3 DEF QueueLimits
  <2> DEFINE s == StartOf(vecs, k)
             e == vecs[k].len
  <2>5. s \in Nat /\ e \in Nat /\ StartOf(vecs, k + 1) = s + e
    BY <2>2, <2>3, StartOfStep, Zenon
  <2>6. t \in 0 .. e /\ s + t = bytes /\ (t = 0 <=> bytes = s)
    <3>1. bytes \in Nat /\ s <= bytes /\ bytes < s + e
      BY <1>3, <2>3, <2>5
    <3>2. t = bytes - s
      OBVIOUS
    <3> HIDE DEF s, e, t
    <3>3. QED
      BY <2>5, <3>1, <3>2
  <2>7. n \in 1 .. StartOf(vecs, k) + t
    <3>1. n \in 1 .. bytes
      BY <1>3, <1>6
    <3>2. QED
      BY <2>6, <3>1
  <2>8. NoGapsUpto(lim, vecs, IF t = 0 THEN k - 1 ELSE k)
    BY <2>3, <2>6
  <2>9. Segs(lim, vecs)[k - 1] + Counts(lim, Cut(vecs[k], t))[0] <= nsegs
    BY <2>3
  <2>10. /\ NoGapsUpto(lim, VecsBefore(vecs, n), Len(VecsBefore(vecs, n)))
         /\ Segs(lim, VecsBefore(vecs, n))[Len(VecsBefore(vecs, n))] \in Nat
         /\ Segs(lim, VecsBefore(vecs, n))[Len(VecsBefore(vecs, n))] <= nsegs
    <3>1. t \in 0 .. vecs[k].len
      BY <2>6
    <3> HIDE DEF t
    <3>2. QED
      BY <2>2, <2>3, <2>4, <2>7, <2>8, <2>9, <3>1, FrontFits
  <2>11. Good(lim, op, "atomic" \in flags, Piece(n, nsegs, fl))
    <3> HIDE DEF fl
    <3>1. QED
      BY <1>1, <1>6, <2>10, PieceGood DEF SInv, Scanning
  <2>12. ("atomic" \in flags') <=> ("atomic" \in flags)
    BY <2>1 DEF bio_clear_polled
  <2>13. PiecesWithinLimits'
    <3> HIDE DEF fl
    <3>1. QED
      BY <1>2, <2>1, <2>11, <2>12, AppendGood DEF SInv
  <2>14. size' > 0
    BY <1>3, <1>6, <2>1
  <2>15. SegInv'
    BY <2>1, <2>14 DEF SegInv, Scanning
  <2>16. QED
    BY <2>13, <2>15 DEF SInv
<1>10. QED
  BY <1>7, <1>8, <1>9

(* A bio with data has some.                                               *)
LEMMA SegStart ==
  ASSUME Init
  PROVE  SInv
<1>1. pc = "submit" /\ orig \in Bios /\ size = orig.size /\ op = orig.op /\ pieces = <<>>
  BY DEF Init
<1>2. op \in Scans => size > 0
  <2>1. SUFFICES ASSUME op \in Scans
                 PROVE  size > 0
    OBVIOUS
  <2> DEFINE vs == orig.vecs
             m == Len(vs)
  <2>2. vs \in Seq(Vec) /\ vs # <<>> /\ size = StartOf(vs, m + 1)
    BY <1>1, <2>1, BiosAssumption
  <2>3. m \in Nat \ {0}
    BY <2>2
  <2>4. StartOf(vs, 1) = 0 /\ 1 \in 1 .. m + 1 /\ m + 1 \in 1 .. m + 1 /\ 1 < m + 1
    BY <2>2, <2>3, StartOfNext
  <2>5. StartOf(vs, 1) < StartOf(vs, m + 1)
    BY <2>2, <2>4, StartOfGrows
  <2>6. QED
    BY <2>2, <2>4, <2>5
<1>3. SegInv
  BY <1>1, <1>2 DEF SegInv, Scanning
<1>4. PiecesWithinLimits
  BY <1>1, LimitsIs DEF AllGood
<1>5. QED
  BY <1>3, <1>4 DEF SInv

(* Every step keeps the counts right and the pieces within the limits.     *)
LEMMA SegKept ==
  ASSUME Inv, SInv, Inv', [Next]_vars
  PROVE  SInv'
<1>1. CASE ScanBegin
  BY <1>1, ScanBeginFits
<1>2. CASE VecMisaligned
  BY <1>2, FailFits DEF VecMisaligned
<1>3. CASE VecGap \/ VecFast \/ VecSlow
  BY <1>3, VecFits
<1>4. CASE SegNext
  BY <1>4, SegNextFits
<1>5. CASE SegsDone
  BY <1>5, SegsDoneFits
<1>6. CASE AllFits
  BY <1>6, AllFitsFits
<1>7. CASE CutRefused
  BY <1>7, FailFits DEF CutRefused
<1>8. CASE CutTaken
  BY <1>8, CutFits
<1>9. CASE WriteZeroes \/ Discard \/ ClearWriteZeroes
  <2>1. op \notin Scans
    BY <1>9 DEF WriteZeroes, Discard, ClearWriteZeroes, SplitToLimits, Scans
  <2>2. op' = op
    BY <1>9 DEF WriteZeroes, Discard, ClearWriteZeroes, bio_submit_split, bio_split, Whole,
        Fail, bioVars, opVars
  <2>3. QED
    BY <2>1, <2>2, OthersNotScanned
<1>10. CASE SubmitRefused
  BY <1>10, FailFits DEF SubmitRefused
<1>11. CASE UNCHANGED vars
  <2>1. UNCHANGED <<lim, op, flags, orig, sector, size, vecs, pc, max_bytes, k, nsegs, bytes,
          len, total_len, pieces, status>>
    BY <1>11 DEF vars, bioVars, iterVars, scanVars, segVars
  <2>2. PiecesWithinLimits'
    BY <2>1, GoodKept DEF SInv
  <2>3. get_max_io_size' = get_max_io_size /\ bv' = bv
    BY <2>1, MaxIoSame DEF bv
  <2>4. SegInv'
    BY <2>1, <2>3, Zenon DEF SInv, SegInv
  <2>5. QED
    BY <2>2, <2>4 DEF SInv
<1>12. QED
  BY <1>1, <1>2, <1>3, <1>4, <1>5, <1>6, <1>7, <1>8, <1>9, <1>10, <1>11 DEF Next, Step, Done

(* For every device and every bio, the pieces bio_split_io_at makes of a   *)
(* read, write or zone append are what the device takes: the fast path for *)
(* single-page bvecs, the loop of bvec_split_segs and the rounding of the  *)
(* cut never let through a piece with more segments, a gap, too many       *)
(* sectors or a boundary inside.                                           *)
THEOREM PiecesFitTheDevice == Spec => []PiecesWithinLimits
<1>1. Init => SInv
  BY SegStart
<1>2. Inv /\ SInv /\ Inv' /\ [Next]_vars => SInv'
  BY SegKept
<1>3. SInv => PiecesWithinLimits
  BY DEF SInv
<1>4. QED
  BY <1>1, <1>2, <1>3, SplitInvariant, PTL DEF Spec
=============================================================================
