-------------------------- MODULE ReadAroundProofs --------------------------
(* Proof that read-around over the LRU pool keeps the neighbourhood of the *)
(* latest access, for every radius, capacity and walk.                     *)
EXTENDS ReadAround, FiniteSetTheorems, WellFoundedInduction, TLAPS

(* The initialised part of the pool: no block twice, nothing used in the   *)
(* future.                                                                 *)
LruInv ==
  /\ count \in 0 .. Capacity
  /\ clock \in Nat
  /\ slots \in [Indices -> Nat]
  /\ last_used \in [Indices -> 0 .. clock]
  /\ \A j, k \in Indices : slots[j] = slots[k] => j = k

WalkInv == radius \in Nat /\ pos \in 0 .. TotalBlocks - 1

(* The slots used since the clock was at `base' are those of the blocks    *)
(* from a up to b.                                                         *)
Recent(base, a, b) ==
  /\ \A k \in Indices : last_used[k] > base => slots[k] \in a .. b
  /\ \A c \in a .. b : \E k \in Indices : slots[k] = c /\ last_used[k] > base

(* The part of the neighbourhood brought in so far has been used since     *)
(* the range began, and nothing else has.                                  *)
RangeInv ==
  pc = "prefetch" =>
    /\ cursor \in Nat /\ left \in Nat
    /\ Start(pos) <= cursor /\ cursor + left = End(pos) + 1
    /\ 2 * radius + 1 <= Capacity => \E base \in 0 .. clock : Recent(base, Start(pos), cursor - 1)

IInv == LruInv /\ WalkInv /\ RangeInv /\ NeighbourhoodCached

-----------------------------------------------------------------------------
(* A set of numbers has a smallest.                                        *)
LEMMA Smallest ==
  ASSUME NEW T \in SUBSET Nat, T # {}
  PROVE  \E x \in T : \A y \in T : x <= y
<1> DEFINE R == OpToRel(<, Nat)
<1>1. IsWellFoundedOn(R, Nat)
  BY NatLessThanWellFounded
<1>2. \A x, y \in Nat : x < y => <<x, y>> \in R
  BY DEF OpToRel
<1> HIDE DEF R
<1>3. PICK x \in T : \A y \in T : ~ (<<y, x>> \in R)
  BY <1>1, WFMin
<1>4. ASSUME NEW y \in T
      PROVE  x <= y
  <2>1. x \in Nat /\ y \in Nat /\ ~ (y < x)
    BY <1>2, <1>3
  <2>2. QED
    BY <2>1
<1>5. QED
  BY <1>4

(* The loop of lru_buffer_pool_insert finds a slot not used since any      *)
(* other.                                                                  *)
LEMMA VictimOldest ==
  ASSUME LruInv, count >= Capacity
  PROVE  /\ count = Capacity
         /\ Victim \in Indices
         /\ \A k \in Indices : last_used[Victim] <= last_used[k]
<1>c. Capacity \in Nat /\ Capacity > 0 /\ count = Capacity /\ clock \in Nat
  BY CapacityAssumption DEF LruInv
<1>u. \A k \in Indices : last_used[k] \in Nat
  BY <1>c DEF LruInv
<1>1. {last_used[k] : k \in Indices} \in SUBSET Nat /\ {last_used[k] : k \in Indices} # {}
  <2>1. 0 \in Indices
    BY <1>c DEF Indices
  <2>2. QED
    BY <1>u, <2>1
<1>2. PICK u \in {last_used[k] : k \in Indices} : \A y \in {last_used[k] : k \in Indices} : u <= y
  BY <1>1, Smallest
<1>3. {k \in Indices : last_used[k] = u} \in SUBSET Nat /\ {k \in Indices : last_used[k] = u} # {}
  BY <1>c, <1>2 DEF Indices
<1>4. PICK v \in {k \in Indices : last_used[k] = u} : \A y \in {k \in Indices : last_used[k] = u} : v <= y
  BY <1>3, Smallest
<1>5. \A k \in Indices : /\ last_used[v] <= last_used[k]
                         /\ last_used[v] = last_used[k] => v <= k
  BY <1>2, <1>4
<1>6. Victim \in Indices
      /\ \A k \in Indices : /\ last_used[Victim] <= last_used[k]
                            /\ last_used[Victim] = last_used[k] => Victim <= k
  <2>1. v \in Indices
    BY <1>4
  <2>2. QED
    BY <1>5, <2>1 DEF Victim
<1>7. QED
  BY <1>c, <1>6

(* Fewer recent blocks than slots: some slot is not recent, so the victim  *)
(* is not.                                                                 *)
LEMMA VictimNotRecent ==
  ASSUME LruInv, count >= Capacity, NEW base \in Nat, NEW a \in Nat, NEW b \in Int,
         Recent(base, a, b), b - a + 1 < Capacity
  PROVE  last_used[Victim] <= base
<1>c. Capacity \in Nat /\ Capacity > 0 /\ count = Capacity /\ clock \in Nat
  BY CapacityAssumption DEF LruInv
<1>u. \A k \in Indices : last_used[k] \in Nat
  BY <1>c DEF LruInv
<1>1. ASSUME \A k \in Indices : last_used[k] > base
      PROVE  FALSE
  <2>1. slots \in [Indices -> a .. b]
    BY <1>1 DEF LruInv, Recent
  <2>2. IsFiniteSet(Indices) /\ Cardinality(Indices) = Capacity
    BY <1>c, FS_Interval DEF Indices
  <2>3. IsFiniteSet(a .. b) /\ Cardinality(a .. b) < Capacity
    <3>1. IsFiniteSet(a .. b) /\ Cardinality(a .. b) = IF a > b THEN 0 ELSE b - a + 1
      <4>1. a \in Int
        OBVIOUS
      <4>2. QED
        BY <4>1, FS_Interval
    <3>2. QED
      BY <1>c, <3>1
  <2>4. \E j, k \in Indices : j # k /\ slots[j] = slots[k]
    BY <2>1, <2>2, <2>3, FS_PigeonHole
  <2>5. QED
    BY <2>4 DEF LruInv
<1>2. PICK k \in Indices : ~ (last_used[k] > base)
  BY <1>1
<1>3. QED
  BY <1>u, <1>2, VictimOldest

-----------------------------------------------------------------------------
(* What an insertion, or a hit, does: one slot holds the block and is the  *)
(* latest used, and the others stay as they are.  That slot was free, had  *)
(* the block already, or is the victim.                                    *)
InsertedAt(s, b) ==
  /\ clock' = clock + 1
  /\ count' \in 0 .. Capacity
  /\ Indices \subseteq Indices' /\ Indices' \subseteq Indices \union {s}
  /\ slots' \in [Indices' -> Nat] /\ last_used' \in [Indices' -> 0 .. clock + 1]
  /\ s \in Indices' /\ slots'[s] = b /\ last_used'[s] = clock + 1
  /\ \A k \in Indices' \ {s} : slots'[k] = slots[k] /\ last_used'[k] = last_used[k]
  /\ \A k \in Indices : slots[k] = b => k = s
  /\ s \in Indices => slots[s] = b \/ (count >= Capacity /\ s = Victim)

(* lru_buffer_pool_insert has that shape in each of its three cases.       *)
LEMMA InsertShape ==
  ASSUME LruInv, NEW b \in Nat, lru_buffer_pool_insert(b)
  PROVE  \E s : InsertedAt(s, b)
<1>c. Capacity \in Nat /\ Capacity > 0 /\ count \in 0 .. Capacity /\ clock \in Nat
  BY CapacityAssumption DEF LruInv
<1>t. slots \in [Indices -> Nat] /\ last_used \in [Indices -> 0 .. clock + 1]
  BY <1>c DEF LruInv
<1>1. CASE InsertPresent(b)
  <2> DEFINE s == SlotOf(b)
  <2>1. s \in Indices /\ slots[s] = b
    BY <1>1 DEF InsertPresent, Cached, SlotOf
  <2>2. clock' = clock + 1 /\ last_used' = [last_used EXCEPT ![s] = clock + 1] /\ UNCHANGED <<slots, count>>
    BY <1>1 DEF InsertPresent, Touch
  <2> HIDE DEF s
  <2>3. Indices' = Indices
    BY <2>2 DEF Indices
  <2>4. \A k \in Indices : slots[k] = b => k = s
    BY <2>1 DEF LruInv
  <2>5. InsertedAt(s, b)
    BY <1>c, <1>t, <2>1, <2>2, <2>3, <2>4 DEF InsertedAt
  <2>6. QED
    BY <2>5
<1>2. CASE InsertFree(b)
  <2>1. clock' = clock + 1 /\ count' = count + 1 /\ count < Capacity /\ b \notin Cached
        /\ slots' = [k \in 0 .. count |-> IF k = count THEN b ELSE slots[k]]
        /\ last_used' = [k \in 0 .. count |-> IF k = count THEN clock + 1 ELSE last_used[k]]
    BY <1>2 DEF InsertFree
  <2>2. Indices = 0 .. count - 1 /\ Indices' = 0 .. count
    BY <1>c, <2>1 DEF Indices
  <2>3. \A k \in 0 .. count : k # count => k \in Indices
    BY <1>c, <2>2
  <2>4. slots' \in [0 .. count -> Nat] /\ last_used' \in [0 .. count -> 0 .. clock + 1]
    BY <1>c, <1>t, <2>1, <2>3
  <2>5. \A k \in Indices : slots[k] # b
    BY <2>1 DEF Cached
  <2>6. count \in 0 .. count /\ count \notin Indices
        /\ \A k \in (0 .. count) \ {count} : slots'[k] = slots[k] /\ last_used'[k] = last_used[k]
        /\ slots'[count] = b /\ last_used'[count] = clock + 1
    BY <1>c, <2>1, <2>2
  <2>7. Indices \subseteq Indices' /\ Indices' \subseteq Indices \union {count} /\ count' \in 0 .. Capacity
    BY <1>c, <2>1, <2>2
  <2>8. InsertedAt(count, b)
    BY <2>1, <2>2, <2>4, <2>5, <2>6, <2>7 DEF InsertedAt
  <2>9. QED
    BY <2>8
<1>3. CASE InsertEvict(b)
  <2>1. clock' = clock + 1 /\ count' = count /\ count >= Capacity /\ b \notin Cached
        /\ slots' = [slots EXCEPT ![Victim] = b] /\ last_used' = [last_used EXCEPT ![Victim] = clock + 1]
    BY <1>3 DEF InsertEvict
  <2>2. Victim \in Indices
    BY <2>1, VictimOldest
  <2>3. Indices' = Indices
    BY <2>1 DEF Indices
  <2>4. \A k \in Indices : slots[k] # b
    BY <2>1 DEF Cached
  <2>5. InsertedAt(Victim, b)
    BY <1>c, <1>t, <2>1, <2>2, <2>3, <2>4 DEF InsertedAt
  <2>6. QED
    BY <2>5
<1>4. QED
  BY <1>1, <1>2, <1>3 DEF lru_buffer_pool_insert

(* After lru_buffer_pool_insert no block is cached twice and no use lies   *)
(* in the future.                                                          *)
LEMMA InsertKeepsPool ==
  ASSUME LruInv, NEW b \in Nat, lru_buffer_pool_insert(b)
  PROVE  LruInv' /\ clock' = clock + 1
<1>1. PICK s : InsertedAt(s, b)
  BY InsertShape
<1>2. clock \in Nat
  BY DEF LruInv
<1>3. \A j, k \in Indices' : slots'[j] = slots'[k] => j = k
  BY <1>1 DEF InsertedAt, LruInv
<1>4. QED
  BY <1>1, <1>2, <1>3 DEF InsertedAt, LruInv

(* An insertion at the end of a range adds to what is recent, and takes    *)
(* nothing away while the range fits into the pool.                        *)
LEMMA InsertRecent ==
  ASSUME LruInv, NEW base \in 0 .. clock, NEW a \in Nat, NEW b \in Nat, a <= b, b - a < Capacity,
         Recent(base, a, b - 1), lru_buffer_pool_insert(b)
  PROVE  /\ \A k \in Indices' : last_used'[k] > base => slots'[k] \in a .. b
         /\ \A c \in a .. b : \E k \in Indices' : slots'[k] = c /\ last_used'[k] > base
<1>1. PICK s : InsertedAt(s, b)
  BY InsertShape
<1>2. clock \in Nat /\ base \in Nat /\ b - 1 \in Int /\ (b - 1) - a + 1 < Capacity
  BY CapacityAssumption DEF LruInv
<1>3. s \in Indices => slots[s] = b \/ last_used[s] <= base
  BY <1>1, <1>2, VictimNotRecent DEF InsertedAt
<1>4. ASSUME NEW k \in Indices', last_used'[k] > base
      PROVE  slots'[k] \in a .. b
  <2>1. CASE k = s
    BY <1>1, <2>1 DEF InsertedAt
  <2>2. CASE k # s
    <3>1. k \in Indices /\ slots'[k] = slots[k] /\ last_used[k] > base
      BY <1>1, <1>4, <2>2 DEF InsertedAt
    <3>2. slots[k] \in a .. b - 1
      BY <3>1 DEF Recent
    <3>3. QED
      BY <3>1, <3>2
  <2>3. QED
    BY <2>1, <2>2
<1>5. ASSUME NEW c \in a .. b
      PROVE  \E k \in Indices' : slots'[k] = c /\ last_used'[k] > base
  <2>1. CASE c = b
    BY <1>1, <1>2, <2>1 DEF InsertedAt
  <2>2. CASE c \in a .. b - 1
    <3>1. PICK k \in Indices : slots[k] = c /\ last_used[k] > base
      BY <2>2 DEF Recent
    <3>2. last_used[k] \in Nat /\ c # b
      BY <1>2, <2>2 DEF LruInv
    <3>3. k # s
      BY <1>2, <1>3, <3>1, <3>2
    <3>4. k \in Indices' /\ slots'[k] = c /\ last_used'[k] > base
      BY <1>1, <3>1, <3>3 DEF InsertedAt
    <3>5. QED
      BY <3>4
  <2>3. QED
    BY <2>1, <2>2
<1>6. QED
  BY <1>4, <1>5

-----------------------------------------------------------------------------
(* The clamped range of read_around_on_access holds the block accessed and *)
(* at most the radius on both sides.                                       *)
LEMMA RangeBounds ==
  ASSUME WalkInv
  PROVE  /\ Start(pos) \in Nat /\ End(pos) \in Nat
         /\ Start(pos) <= pos /\ pos <= End(pos)
         /\ End(pos) - Start(pos) <= 2 * radius
<1>1. radius \in Nat /\ pos \in Nat /\ TotalBlocks \in Nat /\ pos <= TotalBlocks - 1
  BY ReadAroundAssumption DEF WalkInv
<1>2. QED
  BY <1>1 DEF Start, End

(* The region of generate_locality_walk lies inside the file.              *)
LEMMA RegionInside ==
  \A s \in 0 .. TotalBlocks - RegionWidth : \A p \in Region(s) : p \in 0 .. TotalBlocks - 1
BY ReadAroundAssumption DEF Region

(* The invariant holds when the program starts with an empty pool.         *)
LEMMA InitStep == Init => IInv
<1> SUFFICES ASSUME Init
             PROVE  IInv
  OBVIOUS
<1>1. Indices = {} /\ count = 0 /\ clock = 0
  BY DEF Init, lru_buffer_pool_init, Indices
<1>2. LruInv
  BY <1>1, CapacityAssumption DEF Init, lru_buffer_pool_init, LruInv
<1>3. WalkInv
  BY ReadAroundAssumption, RegionInside DEF Init, WalkInv
<1>4. RangeInv /\ NeighbourhoodCached
  BY DEF Init, RangeInv, NeighbourhoodCached
<1>5. QED
  BY <1>2, <1>3, <1>4 DEF IInv

(* A hit renews its block as an insertion would, so an access of either    *)
(* kind keeps the pool sound; what it brings in, the policy looks at next. *)
LEMMA AccessStep ==
  ASSUME IInv, NEW b \in 0 .. TotalBlocks - 1, Access(b)
  PROVE  IInv'
<1>1. b \in Nat /\ TotalBlocks \in Nat
  BY ReadAroundAssumption
<1>2. lru_buffer_pool_insert(b)
  BY DEF Access, lru_buffer_pool_insert, InsertPresent
<1>3. LruInv'
  BY <1>1, <1>2, InsertKeepsPool DEF IInv
<1>4. pc' = "policy" /\ pos' = b /\ radius' = radius
  BY DEF Access, argVars
<1>5. WalkInv'
  BY <1>4 DEF IInv, WalkInv
<1>6. QED
  BY <1>3, <1>4, <1>5 DEF IInv, RangeInv, NeighbourhoodCached

(* What leaves the pool alone keeps LruInv.                                *)
LEMMA PoolUnused ==
  ASSUME LruInv, UNCHANGED arrayVars
  PROVE  LruInv' /\ Cached' = Cached /\ Indices' = Indices
BY DEF LruInv, arrayVars, Cached, Indices

(* A failed pread leaves the pool as it is.                                *)
LEMMA AccessFailsStep ==
  ASSUME IInv, NEW b \in 0 .. TotalBlocks - 1, AccessFails(b)
  PROVE  IInv'
<1>1. LruInv'
  BY PoolUnused DEF AccessFails, IInv
<1>2. pc' = "failed" /\ pos' = b /\ radius' = radius
  BY DEF AccessFails, argVars
<1>3. QED
  BY <1>1, <1>2 DEF IInv, WalkInv, RangeInv, NeighbourhoodCached

(* When read_around_on_access begins a range, nothing has been used since. *)
LEMMA OnAccessStep ==
  ASSUME IInv, read_around_on_access
  PROVE  IInv'
<1>1. /\ pc' = "prefetch" /\ cursor' = Start(pos) /\ left' = End(pos) - Start(pos) + 1
      /\ UNCHANGED <<radius, pos>> /\ UNCHANGED arrayVars /\ clock' = clock
      /\ last_used' = last_used
  BY DEF read_around_on_access, argVars, poolVars, arrayVars
<1>2. LruInv' /\ WalkInv' /\ Indices' = Indices
  BY <1>1, PoolUnused DEF IInv, WalkInv
<1>3. Start(pos)' = Start(pos) /\ End(pos)' = End(pos)
  BY <1>1 DEF Start, End
<1>4. Start(pos) \in Nat /\ End(pos) \in Nat /\ Start(pos) <= End(pos)
  BY RangeBounds DEF IInv, WalkInv
<1>5. cursor' \in Nat /\ left' \in Nat /\ Start(pos) <= cursor' /\ cursor' + left' = End(pos) + 1
  BY <1>1, <1>4
<1>6. Recent(clock, Start(pos), cursor - 1)'
  <2>1. clock \in Nat /\ \A k \in Indices : ~ (last_used[k] > clock)
    BY DEF IInv, LruInv
  <2>2. Start(pos) .. (cursor' - 1) = {}
    BY <1>1, <1>4
  <2>3. QED
    BY <1>1, <1>2, <1>3, <2>1, <2>2 DEF Recent
<1>7. clock' \in 0 .. clock'
  BY <1>2 DEF LruInv
<1>8. RangeInv'
  BY <1>3, <1>5, <1>6, <1>7 DEF RangeInv
<1>9. NeighbourhoodCached'
  BY <1>1 DEF NeighbourhoodCached
<1>10. QED
  BY <1>2, <1>8, <1>9 DEF IInv

(* A step of lru_buffer_pool_prefetch_range extends what is recent by one  *)
(* block and, as the whole range fits, evicts none of it.                  *)
LEMMA PrefetchStep ==
  ASSUME IInv, Prefetch
  PROVE  IInv'
<1>1. /\ pc = "prefetch" /\ pc' = "prefetch" /\ left > 0 /\ lru_buffer_pool_insert(cursor)
      /\ cursor' = cursor + 1 /\ left' = left - 1 /\ UNCHANGED <<radius, pos>>
  BY DEF Prefetch, argVars
<1>2. /\ cursor \in Nat /\ left \in Nat
      /\ Start(pos) <= cursor /\ cursor + left = End(pos) + 1
  BY <1>1 DEF IInv, RangeInv
<1>3. LruInv' /\ clock' = clock + 1
  BY <1>1, <1>2, InsertKeepsPool DEF IInv
<1>4. WalkInv'
  BY <1>1 DEF IInv, WalkInv
<1>5. Start(pos)' = Start(pos) /\ End(pos)' = End(pos)
  BY <1>1 DEF Start, End
<1>6. /\ Start(pos) \in Nat /\ End(pos) \in Nat /\ End(pos) - Start(pos) <= 2 * radius
      /\ radius \in Nat /\ clock \in Nat /\ Capacity \in Nat
  BY RangeBounds, CapacityAssumption DEF IInv, WalkInv, LruInv
<1>7. cursor' \in Nat /\ left' \in Nat /\ Start(pos) <= cursor' /\ cursor' + left' = End(pos) + 1
  BY <1>1, <1>2, <1>6
<1>8. ASSUME 2 * radius + 1 <= Capacity
      PROVE  \E base \in 0 .. clock' : Recent(base, Start(pos), cursor - 1)'
  <2>1. PICK base \in 0 .. clock : Recent(base, Start(pos), cursor - 1)
    BY <1>1, <1>8 DEF IInv, RangeInv
  <2>2. cursor - Start(pos) < Capacity
    BY <1>1, <1>2, <1>6, <1>8
  <2> DEFINE a == Start(pos)
             b == cursor
  <2>3. a \in Nat /\ b \in Nat /\ a <= b /\ b - a < Capacity /\ Recent(base, a, b - 1)
    BY <1>2, <1>6, <2>1, <2>2
  <2>4. /\ \A k \in Indices' : last_used'[k] > base => slots'[k] \in a .. b
        /\ \A e \in a .. b : \E k \in Indices' : slots'[k] = e /\ last_used'[k] > base
    BY <1>1, <2>3, InsertRecent DEF IInv
  <2>5. cursor' - 1 = cursor /\ base \in 0 .. clock'
    BY <1>1, <1>2, <1>3, <1>6
  <2>6. Recent(base, Start(pos), cursor - 1)'
    BY <1>5, <2>4, <2>5 DEF Recent
  <2>7. QED
    BY <2>5, <2>6
<1>9. RangeInv'
  BY <1>1, <1>5, <1>7, <1>8 DEF RangeInv
<1>10. NeighbourhoodCached'
  BY <1>1 DEF NeighbourhoodCached
<1>11. QED
  BY <1>3, <1>4, <1>9, <1>10 DEF IInv

(* At the end of the range the recent blocks are the neighbourhood.        *)
LEMMA PrefetchDoneStep ==
  ASSUME IInv, PrefetchDone
  PROVE  IInv'
<1>1. /\ pc = "prefetch" /\ pc' = "access" /\ left = 0 /\ UNCHANGED <<radius, pos>>
      /\ UNCHANGED arrayVars
  BY DEF PrefetchDone, argVars, poolVars, arrayVars
<1>2. LruInv' /\ WalkInv' /\ Cached' = Cached
  BY <1>1, PoolUnused DEF IInv, WalkInv
<1>3. cursor \in Nat /\ End(pos) \in Nat /\ cursor - 1 = End(pos)
  BY <1>1, RangeBounds DEF IInv, RangeInv
<1>4. ASSUME 2 * radius + 1 <= Capacity
      PROVE  Neighbourhood(pos) \subseteq Cached
  <2>1. PICK base \in 0 .. clock : Recent(base, Start(pos), cursor - 1)
    BY <1>1, <1>4 DEF IInv, RangeInv
  <2>2. QED
    BY <1>3, <2>1 DEF Recent, Neighbourhood, Cached
<1>5. Neighbourhood(pos)' = Neighbourhood(pos)
  BY <1>1 DEF Neighbourhood, Start, End
<1>6. NeighbourhoodCached'
  BY <1>1, <1>2, <1>4, <1>5 DEF NeighbourhoodCached
<1>7. QED
  BY <1>1, <1>2, <1>6 DEF IInv, RangeInv

(* The next repeat starts with a fresh pool and a walk inside the file.    *)
LEMMA RepeatDoneStep ==
  ASSUME IInv, RepeatDone
  PROVE  IInv'
<1>1. CASE r + 1 < Repeats
  <2>1. /\ slots' = [k \in {} |-> 0] /\ last_used' = [k \in {} |-> 0] /\ count' = 0 /\ clock' = 0
        /\ i' = 0 /\ pc' = "access" /\ radius' = radius
        /\ region_start' \in 0 .. TotalBlocks - RegionWidth /\ pos' \in Region(region_start')
    BY <1>1 DEF RepeatDone, argVars
  <2>2. Indices' = {}
    BY <2>1 DEF Indices
  <2>3. LruInv'
    BY <2>1, <2>2, CapacityAssumption DEF LruInv
  <2>4. WalkInv'
    <3>1. pos' \in 0 .. TotalBlocks - 1
      BY <2>1, RegionInside
    <3>2. QED
      BY <2>1, <3>1 DEF IInv, WalkInv
  <2>5. QED
    BY <2>1, <2>3, <2>4 DEF IInv, RangeInv, NeighbourhoodCached
<1>2. CASE ~ (r + 1 < Repeats)
  <2>1. pc' = "done" /\ UNCHANGED <<radius, pos>> /\ UNCHANGED arrayVars
    BY <1>2 DEF RepeatDone, argVars, poolVars, arrayVars
  <2>2. QED
    BY <2>1, PoolUnused DEF IInv, WalkInv, RangeInv, NeighbourhoodCached
<1>3. QED
  BY <1>1, <1>2

(* A step that changes nothing keeps the invariant.                        *)
LEMMA QuietStep ==
  ASSUME IInv, UNCHANGED vars
  PROVE  IInv'
BY DEF IInv, LruInv, WalkInv, RangeInv, NeighbourhoodCached, Recent, Neighbourhood, Start, End,
       Cached, Indices, vars, poolVars, argVars, loopVars

(* read_around.c over lru_buffer_pool.c: after every access all blocks     *)
(* within the radius are cached, whatever the pool held before, for every  *)
(* radius whose 2 * radius + 1 blocks fit into the capacity.               *)
THEOREM NeighbourhoodKept == Spec => []NeighbourhoodCached
<1>1. Init => IInv
  BY InitStep
<1>2. IInv /\ [Next]_vars => IInv'
  BY AccessStep, AccessFailsStep, OnAccessStep, PrefetchStep, PrefetchDoneStep, RepeatDoneStep,
     QuietStep DEF Next, Stopped
<1>3. IInv => NeighbourhoodCached
  BY DEF IInv
<1>4. QED
  BY <1>1, <1>2, <1>3, PTL DEF Spec
=============================================================================
