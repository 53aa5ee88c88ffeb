------------------------ MODULE PrefetchBenchProofs ------------------------
(* Proofs about prefetch-sim for every capacity, file, window and trace:   *)
(* the array of buffer_pool.c is a FIFO queue, the window of a run grows   *)
(* to its maximum, a prefetched range is still cached when it is read, and *)
(* a sequential trace misses at most twice. Then the trace itself:         *)
(* generate_offsets returns every whole block of the file once, in order   *)
(* for the sequential pattern, and the measuring loop reads them one after *)
(* the other.                                                              *)
EXTENDS PrefetchBench, Integers, FiniteSetTheorems, TLAPS

(* The initialised part of the array, and that nothing is evicted before   *)
(* the array is full.                                                      *)
PoolInv ==
  /\ count \in 0 .. Capacity
  /\ slots \in [0 .. count - 1 -> Nat]
  /\ evict_pos \in 0 .. Capacity - 1
  /\ count < Capacity => evict_pos = 0
  /\ hits \in Nat /\ misses \in Nat

(* What a policy may ask for: not further than the largest window past     *)
(* the end of the file.                                                    *)
LastBlock == total_blocks + args.max_window
RangeInv ==
  /\ args \in Programs
  /\ window \in 0 .. args.max_window
  /\ block_num \in 0 .. total_blocks
  /\ pc = "prefetch" => cursor \in Nat /\ left \in Nat /\ cursor + left <= LastBlock + 1

Inv == PoolInv /\ RangeInv

(* The sizes of a program that was accepted are numbers.                   *)
LEMMA Sizes ==
  ASSUME args \in Programs
  PROVE  /\ total_blocks \in Nat /\ LastBlock \in Nat
         /\ args.window \in Nat /\ args.max_window \in Nat /\ args.window <= args.max_window
         /\ \A b \in 0 .. LastBlock :
              b \in UNION {0 .. (p.file_size \div p.block_size) + p.max_window : p \in Programs}
<1>1. Accepted(args)
  BY ProgramsAssumption
<1>2. args.file_size \in Nat /\ args.block_size \in Nat \ {0}
      /\ args.window \in Nat /\ args.max_window \in Nat /\ args.window <= args.max_window
  BY <1>1 DEF Accepted
<1>3. total_blocks \in Nat
  BY <1>2 DEF total_blocks
<1>4. ASSUME NEW b \in 0 .. LastBlock
      PROVE  b \in UNION {0 .. (p.file_size \div p.block_size) + p.max_window : p \in Programs}
  BY <1>4 DEF LastBlock, total_blocks
<1>5. QED
  BY <1>2, <1>3, <1>4 DEF LastBlock

(* So are the numbers a policy works with.                                 *)
LEMMA Numbers ==
  ASSUME Inv
  PROVE  /\ block_num \in Nat /\ args.window \in Nat /\ args.max_window \in Nat /\ window \in Nat
         /\ window <= args.max_window /\ args.window <= args.max_window
         /\ Capacity \in Nat /\ hits \in Nat /\ misses \in Nat
         /\ pc = "prefetch" => cursor \in Nat /\ left \in Nat
<1>1. args \in Programs /\ window \in 0 .. args.max_window /\ block_num \in 0 .. total_blocks
  BY DEF Inv, RangeInv
<1>2. QED
  BY <1>1, Sizes, CapacityAssumption DEF Inv, RangeInv, PoolInv

-----------------------------------------------------------------------------
(* Reading the array from the position to evict on.                        *)

(* The k-th place from e on.                                               *)
LEMMA Around ==
  ASSUME NEW e \in 0 .. Capacity - 1, NEW k \in 1 .. Capacity
  PROVE  (e + k - 1) % Capacity = IF e + k - 1 < Capacity THEN e + k - 1 ELSE e + k - 1 - Capacity
<1> DEFINE a == e + k - 1
<1>0. a \in Nat /\ a < 2 * Capacity
  BY CapacityAssumption
<1> HIDE DEF a
<1>1. CASE a < Capacity
  BY <1>0, <1>1, CapacityAssumption DEF a
<1>2. CASE a >= Capacity
  <2>1. a % Capacity = a - Capacity
    BY <1>0, <1>2, CapacityAssumption
  <2>2. QED
    BY <1>0, <1>2, <2>1, CapacityAssumption DEF a
<1>3. QED
  BY <1>0, <1>1, <1>2, CapacityAssumption

(* Where the k-th oldest block is.                                         *)
LEMMA Place ==
  ASSUME PoolInv, NEW k \in 1 .. count
  PROVE  /\ (evict_pos + k - 1) % Capacity \in 0 .. count - 1
         /\ (evict_pos + k - 1) % Capacity
              = IF evict_pos + k - 1 < Capacity THEN evict_pos + k - 1 ELSE evict_pos + k - 1 - Capacity
         /\ Queue[k] = slots[(evict_pos + k - 1) % Capacity]
<1>1. evict_pos \in 0 .. Capacity - 1 /\ k \in 1 .. Capacity
  BY CapacityAssumption DEF PoolInv
<1>2. (evict_pos + k - 1) % Capacity
        = IF evict_pos + k - 1 < Capacity THEN evict_pos + k - 1 ELSE evict_pos + k - 1 - Capacity
  BY <1>1, Around
<1>3. (evict_pos + k - 1) % Capacity \in 0 .. count - 1
  BY <1>2, CapacityAssumption DEF PoolInv
<1>4. QED
  BY <1>2, <1>3 DEF Queue

(* The queue has the blocks of the array.                                  *)
LEMMA SameBlocks ==
  ASSUME PoolInv
  PROVE  /\ Queue \in Seq(Nat) /\ Len(Queue) = count
         /\ Fifo!Contents = Cached
<1>1. \A k \in 1 .. count : Queue[k] \in Nat /\ Queue[k] \in Cached
  BY Place DEF PoolInv, Cached
<1>2. Queue \in Seq(Nat) /\ Len(Queue) = count
  <2>1. count \in Nat
    BY CapacityAssumption DEF PoolInv
  <2>2. Queue \in [1 .. count -> Nat]
    BY <1>1 DEF Queue
  <2>3. QED
    BY <2>1, <2>2
<1>3. ASSUME NEW s \in 0 .. count - 1
      PROVE  \E k \in 1 .. count : Queue[k] = slots[s]
  <2>1. CASE s >= evict_pos
    <3>1. s - evict_pos + 1 \in 1 .. count
      BY <2>1 DEF PoolInv
    <3>2. Queue[s - evict_pos + 1] = slots[s]
      BY <2>1, <3>1, Place, CapacityAssumption DEF PoolInv
    <3>3. QED
      BY <3>1, <3>2
  <2>2. CASE s < evict_pos
    <3>1. count = Capacity /\ s - evict_pos + 1 + Capacity \in 1 .. count
      BY <2>2, CapacityAssumption DEF PoolInv
    <3>2. Queue[s - evict_pos + 1 + Capacity] = slots[s]
      BY <2>2, <3>1, Place, CapacityAssumption DEF PoolInv
    <3>3. QED
      BY <3>1, <3>2
  <2>3. QED
    BY <2>1, <2>2 DEF PoolInv
<1>4. Fifo!Contents = {Queue[k] : k \in 1 .. count}
  BY <1>2 DEF Fifo!Contents
<1>5. Cached \subseteq {Queue[k] : k \in 1 .. count}
  BY <1>3 DEF Cached
<1>6. QED
  BY <1>1, <1>2, <1>4, <1>5

-----------------------------------------------------------------------------
(* The cases of an insertion.                                              *)

(* Reading on from the place after e.                                      *)
LEMMA Advance ==
  ASSUME NEW e \in 0 .. Capacity - 1, NEW f, f = (e + 1) % Capacity
  PROVE  /\ f \in 0 .. Capacity - 1
         /\ (f + Capacity - 1) % Capacity = e
         /\ \A k \in 1 .. Capacity - 1 : /\ (f + k - 1) % Capacity = (e + (k + 1) - 1) % Capacity
                                        /\ (f + k - 1) % Capacity # e
<1>c. Capacity \in Nat /\ Capacity > 0
  BY CapacityAssumption
<1>1. f = IF e + 1 < Capacity THEN e + 1 ELSE 0
  <2>1. CASE e + 1 < Capacity
    BY <1>c, <2>1
  <2>2. CASE e + 1 = Capacity
    BY <1>c, <2>2
  <2>3. QED
    BY <1>c, <2>1, <2>2
<1>2. f \in 0 .. Capacity - 1
  BY <1>c, <1>1
<1>3. (f + Capacity - 1) % Capacity = IF f + Capacity - 1 < Capacity THEN f + Capacity - 1 ELSE f + Capacity - 1 - Capacity
  <2>1. Capacity \in 1 .. Capacity
    BY <1>c
  <2>2. QED
    BY <1>2, <2>1, Around
<1>4. (f + Capacity - 1) % Capacity = e
  BY <1>c, <1>1, <1>3
<1>5. ASSUME NEW k \in 1 .. Capacity - 1
      PROVE  /\ (f + k - 1) % Capacity = (e + (k + 1) - 1) % Capacity
             /\ (f + k - 1) % Capacity # e
  <2>1. k \in 1 .. Capacity /\ k + 1 \in 1 .. Capacity
    BY <1>c
  <2>2. (f + k - 1) % Capacity = IF f + k - 1 < Capacity THEN f + k - 1 ELSE f + k - 1 - Capacity
    BY <1>2, <2>1, Around
  <2>3. (e + (k + 1) - 1) % Capacity
          = IF e + (k + 1) - 1 < Capacity THEN e + (k + 1) - 1 ELSE e + (k + 1) - 1 - Capacity
    BY <2>1, Around
  <2>4. QED
    BY <1>c, <1>1, <1>2, <2>2, <2>3
<1>6. QED
  BY <1>2, <1>4, <1>5

(* A sequence is a function on its positions.                              *)
LEMMA SeqFunction ==
  ASSUME NEW q \in Seq(Nat)
  PROVE  q \in [1 .. Len(q) -> Nat]
OBVIOUS

(* A sequence that grew at its end, and one that moved on by one place.    *)
LEMMA Grown1 ==
  ASSUME NEW q \in Seq(Nat), NEW n \in Nat, Len(q) = n, NEW b \in Nat,
         NEW w \in [1 .. n + 1 -> Nat], \A k \in 1 .. n : w[k] = q[k], w[n + 1] = b
  PROVE  w = Append(q, b)
<1>1. Append(q, b) \in [1 .. n + 1 -> Nat]
  <2>1. Append(q, b) \in Seq(Nat) /\ Len(Append(q, b)) = n + 1
    OBVIOUS
  <2>2. QED
    BY <2>1, SeqFunction
<1>2. \A k \in 1 .. n + 1 : w[k] = Append(q, b)[k]
  OBVIOUS
<1>3. QED
  BY <1>1, <1>2

(* A queue shifted by one with a new last element, as a sequence.          *)
LEMMA Moved ==
  ASSUME NEW q \in Seq(Nat), NEW n \in Nat, n > 0, Len(q) = n, NEW b \in Nat,
         NEW w \in [1 .. n -> Nat], \A k \in 1 .. n - 1 : w[k] = q[k + 1], w[n] = b
  PROVE  w = Append(Tail(q), b)
<1> DEFINE t == Tail(q)
           j == n - 1
<1>1. t \in Seq(Nat) /\ j \in Nat /\ Len(t) = j
  OBVIOUS
<1>2. \A k \in 1 .. j : w[k] = t[k]
  OBVIOUS
<1>3. w \in [1 .. j + 1 -> Nat] /\ w[j + 1] = b
  OBVIOUS
<1> HIDE DEF t, j
<1>4. w = Append(t, b)
  BY <1>1, <1>2, <1>3, Grown1
<1>5. QED
  BY <1>4 DEF t

(* An insertion of a new block is an Enqueue of the queue.                 *)
LEMMA InsertEnqueues ==
  ASSUME PoolInv, NEW b \in Nat, b \notin Cached, buffer_pool_insert(b), hits' \in Nat, misses' \in Nat
  PROVE  PoolInv' /\ Queue' = Fifo!Enqueue(b)
<1>c. Capacity \in Nat /\ Capacity > 0 /\ count \in Nat /\ count <= Capacity
  BY CapacityAssumption DEF PoolInv
<1>q. Queue \in Seq(Nat) /\ Len(Queue) = count
  BY SameBlocks
<1>1. CASE InsertFree(b)
  <2>1. evict_pos = 0 /\ evict_pos' = 0 /\ count' = count + 1 /\ count < Capacity
    BY <1>1 DEF InsertFree, PoolInv
  <2>2. slots' = [s \in 0 .. count |-> IF s = count THEN b ELSE slots[s]]
    BY <1>1 DEF InsertFree
  <2>3. PoolInv'
    BY <2>1, <2>2, CapacityAssumption DEF PoolInv
  <2>4. Fifo!Enqueue(b) = Append(Queue, b)
    BY <1>q, <2>1 DEF Fifo!Enqueue
  <2>5. ASSUME NEW k \in 1 .. count + 1
        PROVE  Queue'[k] = IF k = count + 1 THEN b ELSE Queue[k]
    <3>1. k \in Nat /\ k - 1 \in 0 .. count /\ (0 + k - 1) % Capacity = k - 1
      BY <1>c, <2>1
    <3>2. Queue'[k] = slots'[k - 1]
      BY <2>1, <3>1 DEF Queue
    <3>3. k \in 1 .. count => Queue[k] = slots[k - 1]
      BY <2>1, <3>1 DEF Queue
    <3>4. QED
      BY <1>c, <2>2, <3>1, <3>2, <3>3
  <2>6. Queue' \in [1 .. count + 1 -> Nat]
    <3>1. Queue' = [k \in 1 .. count + 1 |-> Queue'[k]]
      BY <2>1 DEF Queue
    <3>2. \A k \in 1 .. count : Queue[k] \in Nat
      BY <1>q
    <3>3. \A k \in 1 .. count + 1 : Queue'[k] \in Nat
      BY <1>c, <2>5, <3>2
    <3>4. QED
      BY <3>1, <3>3
  <2>7. Queue' = Append(Queue, b)
    BY <1>c, <1>q, <2>5, <2>6, Grown1
  <2>8. QED
    BY <2>3, <2>4, <2>7
<1>2. CASE InsertEvict(b)
  <2>1. count = Capacity /\ count' = Capacity
    BY <1>2, <1>c DEF InsertEvict
  <2>2. evict_pos' = (evict_pos + 1) % Capacity /\ slots' = [slots EXCEPT ![evict_pos] = b]
    BY <1>2 DEF InsertEvict
  <2>3. evict_pos \in 0 .. Capacity - 1 /\ evict_pos' \in 0 .. Capacity - 1
    BY <2>2, Advance DEF PoolInv
  <2>4. slots \in [0 .. Capacity - 1 -> Nat] /\ slots' \in [0 .. Capacity - 1 -> Nat]
    BY <2>1, <2>2, <2>3 DEF PoolInv
  <2>5. PoolInv'
    BY <1>c, <2>1, <2>3, <2>4 DEF PoolInv
  <2>6. Fifo!Enqueue(b) = Append(Tail(Queue), b)
    BY <1>c, <1>q, <2>1 DEF Fifo!Enqueue
  <2>7. \A k \in 1 .. Capacity : Queue'[k] = slots'[(evict_pos' + k - 1) % Capacity]
    BY <2>1 DEF Queue
  <2>8. ASSUME NEW k \in 1 .. Capacity - 1
        PROVE  Queue'[k] = Queue[k + 1]
    <3> DEFINE s == (evict_pos' + k - 1) % Capacity
    <3>1. k \in 1 .. Capacity /\ k + 1 \in 1 .. count
      BY <1>c, <2>1
    <3>2. s = (evict_pos + (k + 1) - 1) % Capacity /\ s # evict_pos
      BY <2>2, <2>3, Advance
    <3>3. (evict_pos + (k + 1) - 1) % Capacity \in 0 .. count - 1
          /\ Queue[k + 1] = slots[(evict_pos + (k + 1) - 1) % Capacity]
      BY <3>1, Place
    <3>4. s \in 0 .. Capacity - 1 /\ Queue[k + 1] = slots[s] /\ Queue'[k] = slots'[s]
      BY <2>1, <2>7, <3>1, <3>2, <3>3
    <3> HIDE DEF s
    <3>5. QED
      BY <2>2, <2>4, <3>2, <3>4
  <2>9. Queue'[Capacity] = b
    <3>1. (evict_pos' + Capacity - 1) % Capacity = evict_pos
      BY <2>2, <2>3, Advance
    <3>2. QED
      BY <1>c, <2>2, <2>3, <2>4, <2>7, <3>1
  <2>10. Queue' \in [1 .. Capacity -> Nat]
    <3>1. Queue' = [k \in 1 .. Capacity |-> Queue'[k]]
      BY <2>1 DEF Queue
    <3>2. \A k \in 1 .. Capacity : Queue[k] \in Nat
      BY <1>q, <2>1
    <3>3. \A k \in 1 .. Capacity : Queue'[k] \in Nat
      BY <1>c, <2>8, <2>9, <3>2
    <3>4. QED
      BY <3>1, <3>3
  <2>11. Queue' = Append(Tail(Queue), b)
    BY <1>c, <1>q, <2>1, <2>8, <2>9, <2>10, Moved
  <2>12. QED
    BY <2>5, <2>6, <2>11
<1>3. QED
  BY <1>1, <1>2 DEF buffer_pool_insert, InsertPresent

-----------------------------------------------------------------------------
(* The steps of the programs.                                              *)

(* A step that leaves the pool alone.                                      *)
LEMMA PoolKept ==
  ASSUME PoolInv, UNCHANGED poolVars
  PROVE  PoolInv' /\ UNCHANGED <<Queue, hits, misses>>
BY DEF PoolInv, poolVars, Queue

(* An access is a hit or a miss of the queue.                              *)
LEMMA AccessStep ==
  ASSUME Inv, NEW b \in 0 .. total_blocks, Access(b), UNCHANGED raVars
  PROVE  Inv' /\ Fifo!Next
<1>0. args \in Programs /\ total_blocks \in Nat /\ LastBlock \in Nat
      /\ b \in UNION {0 .. (p.file_size \div p.block_size) + p.max_window : p \in Programs}
  BY Sizes DEF Inv, RangeInv, LastBlock
<1>1. RangeInv'
  BY DEF Inv, RangeInv, Access, raVars, total_blocks
<1>2. CASE b \in Cached
  <2>1. hits' = hits + 1 /\ UNCHANGED <<misses, slots, count, evict_pos>>
    BY <1>2 DEF Access, arrayVars
  <2>2. PoolInv' /\ Queue' = Queue
    BY <2>1 DEF Inv, PoolInv, Queue
  <2>3. Fifo!Hit(b)
    BY <1>2, <2>1, <2>2, SameBlocks DEF Inv, Fifo!Hit
  <2>4. QED
    BY <1>0, <1>1, <2>2, <2>3 DEF Inv, Fifo!Next
<1>3. CASE b \notin Cached
  <2>1. misses' = misses + 1 /\ buffer_pool_insert(b) /\ hits' = hits
    BY <1>3 DEF Access
  <2>2. PoolInv' /\ Queue' = Fifo!Enqueue(b)
    BY <1>0, <1>3, <2>1, InsertEnqueues DEF Inv, PoolInv
  <2>3. Fifo!Miss(b)
    BY <1>3, <2>1, <2>2, SameBlocks DEF Inv, Fifo!Miss
  <2>4. QED
    BY <1>0, <1>1, <2>2, <2>3 DEF Inv, Fifo!Next
<1>4. QED
  BY <1>2, <1>3

(* A failed read is a miss without an insertion.                           *)
LEMMA AccessFailsStep ==
  ASSUME Inv, NEW b \in 0 .. total_blocks, AccessFails(b), UNCHANGED raVars
  PROVE  Inv' /\ Fifo!Next
<1>0. args \in Programs /\ total_blocks \in Nat
      /\ b \in UNION {0 .. (p.file_size \div p.block_size) + p.max_window : p \in Programs}
  BY Sizes DEF Inv, RangeInv, LastBlock
<1>1. RangeInv'
  BY DEF Inv, RangeInv, AccessFails, raVars, total_blocks
<1>2. misses' = misses + 1 /\ UNCHANGED <<hits, slots, count, evict_pos>> /\ b \notin Cached
  BY DEF AccessFails, arrayVars
<1>3. PoolInv' /\ Queue' = Queue
  BY <1>2 DEF Inv, PoolInv, Queue
<1>4. Fifo!Miss(b)
  BY <1>2, <1>3, SameBlocks DEF Inv, Fifo!Miss
<1>5. QED
  BY <1>0, <1>1, <1>3, <1>4 DEF Inv, Fifo!Next

(* Every block of a range is inserted or left where it is.                 *)
LEMMA PrefetchStep ==
  ASSUME Inv, DoPrefetch
  PROVE  Inv' /\ (Fifo!Next \/ UNCHANGED <<Queue, hits, misses>>)
<1>0. args \in Programs /\ LastBlock \in Nat /\ cursor \in 0 .. LastBlock /\ cursor \in Nat
      /\ cursor \in UNION {0 .. (p.file_size \div p.block_size) + p.max_window : p \in Programs}
  BY Sizes DEF Inv, RangeInv, DoPrefetch, Prefetch
<1>1. RangeInv'
  BY <1>0 DEF Inv, RangeInv, DoPrefetch, Prefetch, raVars, traceVars, total_blocks, LastBlock
<1>2. buffer_pool_insert(cursor) /\ UNCHANGED <<hits, misses>>
  BY DEF DoPrefetch, Prefetch, statVars
<1>3. CASE cursor \in Cached
  <2>1. UNCHANGED poolVars
    BY <1>2, <1>3 DEF buffer_pool_insert, InsertPresent, InsertFree, InsertEvict, arrayVars, poolVars
  <2>2. QED
    BY <1>1, <2>1, PoolKept DEF Inv
<1>4. CASE cursor \notin Cached
  <2>1. PoolInv' /\ Queue' = Fifo!Enqueue(cursor)
    BY <1>0, <1>2, <1>4, InsertEnqueues DEF Inv, PoolInv
  <2>2. Fifo!Insert(cursor)
    BY <1>2, <1>4, <2>1, SameBlocks DEF Inv, Fifo!Insert
  <2>3. QED
    BY <1>0, <1>1, <2>1, <2>2 DEF Inv, Fifo!Next
<1>5. QED
  BY <1>3, <1>4

(* The policies ask for blocks up to the largest window past the latest.   *)
LEMMA PolicyStep ==
  ASSUME Inv, DoPolicy
  PROVE  Inv' /\ UNCHANGED <<Queue, hits, misses>>
<1>0. args \in Programs /\ total_blocks \in Nat
      /\ args.window \in Nat /\ args.max_window \in Nat /\ args.window <= args.max_window
      /\ window \in 0 .. args.max_window /\ block_num \in 0 .. total_blocks
  BY Sizes DEF Inv, RangeInv
<1>1. UNCHANGED <<poolVars, args, traceVars>>
  BY DEF DoPolicy, readahead_on_access, StartWindow, NextWindow, Consume, Break,
         adaptive_readahead_on_access, AdaptiveStart, AdaptiveNext, AdaptiveConsume, AdaptiveBreak
<1>2. PoolInv' /\ UNCHANGED <<Queue, hits, misses>>
  BY <1>1, PoolKept DEF Inv
<1>3. args' = args /\ block_num' = block_num /\ total_blocks' = total_blocks /\ LastBlock' = LastBlock
  BY <1>1 DEF traceVars, total_blocks, LastBlock
<1>4. CASE StartWindow \/ NextWindow \/ AdaptiveStart
  <2>1. window' = window /\ cursor' = block_num + 1 /\ left' = window
    BY <1>4 DEF StartWindow, NextWindow, AdaptiveStart, PrefetchRange
  <2>2. QED
    BY <1>0, <1>2, <1>3, <2>1 DEF Inv, RangeInv, LastBlock
<1>5. CASE AdaptiveNext
  <2>1. window' = Grown /\ cursor' = block_num + 1 /\ left' = Grown
    BY <1>5 DEF AdaptiveNext, PrefetchRange
  <2>2. Grown \in 0 .. args.max_window
    BY <1>0 DEF Grown
  <2>3. QED
    BY <1>0, <1>2, <1>3, <2>1, <2>2 DEF Inv, RangeInv, LastBlock
<1>6. CASE Consume \/ Break \/ AdaptiveConsume \/ AdaptiveBreak
  <2>1. pc' = "access" /\ window' \in {window, args.window}
    BY <1>6 DEF Consume, Break, AdaptiveConsume, AdaptiveBreak
  <2>2. QED
    BY <1>0, <1>2, <1>3, <2>1 DEF Inv, RangeInv
<1>7. QED
  BY <1>4, <1>5, <1>6 DEF DoPolicy, readahead_on_access, adaptive_readahead_on_access

(* The end of a repeat empties the queue.                                  *)
LEMMA RepeatStep ==
  ASSUME Inv, DoRepeat
  PROVE  Inv' /\ (Fifo!Next \/ UNCHANGED <<Queue, hits, misses>>)
<1>0. args \in Programs /\ total_blocks \in Nat /\ args' = args
      /\ args.window \in Nat /\ args.max_window \in Nat /\ args.window <= args.max_window
  BY Sizes DEF Inv, RangeInv, DoRepeat, RepeatDone
<1>1. CASE r + 1 < args.repeats
  <2>1. ResetPool /\ block_num' = 0 /\ pc' = FirstPc /\ window' = args.window
    BY <1>1 DEF DoRepeat, RepeatDone
  <2>2. RangeInv'
    BY <1>0, <2>1 DEF RangeInv, FirstPc, total_blocks
  <2>3. PoolInv' /\ Queue' = <<>> /\ hits' = 0 /\ misses' = 0
    BY <2>1, CapacityAssumption DEF ResetPool, PoolInv, Queue
  <2>4. QED
    BY <2>2, <2>3 DEF Inv, Fifo!Next, Fifo!Reset
<1>2. CASE ~(r + 1 < args.repeats)
  <2>1. pc' = "done" /\ UNCHANGED <<poolVars, block_num, window>>
    BY <1>2 DEF DoRepeat, RepeatDone, raVars
  <2>2. RangeInv'
    BY <1>0, <2>1 DEF Inv, RangeInv, total_blocks
  <2>3. QED
    BY <2>1, <2>2, PoolKept DEF Inv
<1>3. QED
  BY <1>1, <1>2

(* The generation of a trace, the end of a range and a stopped program.    *)
LEMMA QuietStep ==
  ASSUME Inv, DoGenerate \/ DoPrefetchDone \/ DoStopped \/ UNCHANGED vars
  PROVE  Inv' /\ UNCHANGED <<Queue, hits, misses>>
<1>1. UNCHANGED <<poolVars, args, block_num, window>> /\ (pc' # "prefetch" \/ UNCHANGED <<pc, cursor, left>>)
  BY DEF DoGenerate, generate_offsets, GenerateFails, Generate, Shuffle, Generated, traceVars, loopVars,
         raVars, DoPrefetchDone, PrefetchDone, DoStopped, Stopped, driverVars, vars
<1>2. RangeInv'
  BY <1>1 DEF Inv, RangeInv, total_blocks, LastBlock
<1>3. QED
  BY <1>1, <1>2, PoolKept DEF Inv

(* The array is empty at first.                                            *)
LEMMA InvInit == Init => Inv /\ Fifo!Init
<1> SUFFICES ASSUME Init PROVE Inv /\ Fifo!Init
  OBVIOUS
<1>1. args \in Programs /\ window = args.window /\ block_num = 0 /\ pc # "prefetch"
  BY DEF Init, DriverInit, readahead_init, FirstPc
<1>2. RangeInv
  BY <1>1, Sizes DEF RangeInv
<1>3. PoolInv /\ Queue = <<>> /\ hits = 0 /\ misses = 0
  BY CapacityAssumption DEF Init, DriverInit, buffer_pool_init, PoolInv, Queue
<1>4. QED
  BY <1>2, <1>3 DEF Inv, Fifo!Init

(* Every step of a program keeps the invariant and is one of the queue.    *)
LEMMA InvNext == Inv /\ [Next]_vars => Inv' /\ [Fifo!Next]_<<Queue, hits, misses>>
<1> SUFFICES ASSUME Inv, [Next]_vars
             PROVE  Inv' /\ (Fifo!Next \/ UNCHANGED <<Queue, hits, misses>>)
  OBVIOUS
<1>1. CASE DoAccess
  BY <1>1, AccessStep, AccessFailsStep DEF DoAccess
<1>2. CASE DoPolicy
  BY <1>2, PolicyStep
<1>3. CASE DoPrefetch
  BY <1>3, PrefetchStep
<1>4. CASE DoRepeat
  BY <1>4, RepeatStep
<1>5. CASE DoGenerate \/ DoPrefetchDone \/ DoStopped \/ UNCHANGED vars
  BY <1>5, QuietStep
<1>6. QED
  BY <1>1, <1>2, <1>3, <1>4, <1>5 DEF Next

(* The array of buffer_pool.c, with lookups, insertions, prefetched ranges *)
(* and repeats as the programs make them, implements a FIFO queue: the     *)
(* block evicted is the one that was inserted first, and an insertion of a *)
(* cached block changes nothing (buffer_pool.c:54-79).                     *)
THEOREM PoolImplementsFifo == Spec => ImplementsFifo
BY InvInit, InvNext, PTL DEF Spec, ImplementsFifo, Fifo!Spec

-----------------------------------------------------------------------------
(* What the read-ahead policies achieve: their invariant.                  *)

(* How far a repeat has come: counted, and what the policy remembers once  *)
(* it was called for the latest block.                                     *)
Settled == pc \in {"access", "prefetch"}
TraceInv ==
  /\ i \in Nat /\ run \in Nat /\ run_left \in Nat /\ run <= i
  /\ readahead_edge \in Nat /\ last_block \in Nat
  /\ have_last \in BOOLEAN /\ have_edge \in BOOLEAN /\ fresh \in BOOLEAN
  /\ pc \in {"generate", "shuffle"} => i = 0
  /\ i = 0 => /\ run = 0 /\ run_left = 0 /\ ~have_last /\ ~have_edge
              /\ window = args.window /\ count = 0 /\ misses = 0
  /\ i > 0 => run > 0
  /\ have_edge => i > 1
  /\ Settled /\ i > 0 => have_last /\ last_block = block_num
  /\ pc = "policy" => i > 0 /\ (have_last => i > 1) /\ (run > 1 => Sequential)

(* While the window still grows, the blocks of the run up to the edge are  *)
(* the first two and the windows min, 2 min, ..., window.                  *)
Growing == window < args.max_window =>
             run + readahead_edge + args.window <= block_num + 3 + 2 * window

(* Where the edge is.  The range that was fetched last has the blocks from *)
(* readahead_edge - window up to the edge, and the reader is in it.        *)
EdgeInv ==
  /\ args.window <= window /\ (args.window = 0 => window = 0)
  /\ Settled /\ have_edge => readahead_edge <= block_num + 1 + window
  /\ pc = "policy" /\ have_edge /\ Sequential => readahead_edge <= block_num + window
  /\ window > 0 =>
       /\ Settled /\ ~have_edge => run <= 1 /\ window = args.window
       /\ Settled /\ have_edge => block_num + 1 < readahead_edge /\ Growing
       /\ pc = "policy" /\ ~have_edge => run <= 2 /\ window = args.window
       /\ pc = "policy" /\ have_edge /\ Sequential => block_num < readahead_edge /\ Growing
  /\ pc = "prefetch" => have_edge /\ cursor + left = readahead_edge /\ left <= window

(* The n elements up to top are the last of the queue, in order.           *)
Ends(q, top, n) == n <= Len(q) /\ \A j \in 0 .. n - 1 : q[Len(q) - j] = top - j

(* A range whose blocks were all new is at the end of the queue.           *)
RetainInv ==
  have_edge /\ fresh /\ window <= Capacity =>
    /\ pc = "prefetch" => Ends(Queue, cursor - 1, window - left)
    /\ pc = "access" \/ (pc = "policy" /\ Sequential) => Ends(Queue, readahead_edge - 1, window)

(* In a single run the queue is a stretch of the file that ends with the   *)
(* latest block fetched, so every range is new.                            *)
SingleRun == run = i /\ 0 < args.window /\ args.max_window <= Capacity
RunInv ==
  SingleRun =>
    /\ misses <= 2
    /\ Settled \/ pc = "policy" =>
         IF have_edge THEN fresh ELSE misses <= i /\ (i > 0 => Ends(Queue, block_num, Len(Queue)))
    /\ pc = "prefetch" => Ends(Queue, cursor - 1, Len(Queue))
    /\ (pc = "access" \/ pc = "policy") /\ have_edge => Ends(Queue, readahead_edge - 1, Len(Queue))

-----------------------------------------------------------------------------
(* Queues that end with a stretch of the file.                             *)

(* A shorter stretch of it, and the elements it has.                       *)
LEMMA EndsHas ==
  ASSUME NEW q \in Seq(Nat), NEW top \in Int, NEW n \in Nat, Ends(q, top, n)
  PROVE  /\ \A m \in 0 .. n : Ends(q, top, m)
         /\ \A b \in top - n + 1 .. top : \E k \in 1 .. Len(q) : q[k] = b
         /\ n = Len(q) => \A k \in 1 .. Len(q) : q[k] <= top
<1>1. n <= Len(q) /\ \A j \in 0 .. n - 1 : q[Len(q) - j] = top - j
  BY DEF Ends
<1>2. \A m \in 0 .. n : Ends(q, top, m)
  BY <1>1 DEF Ends
<1>3. ASSUME NEW b \in top - n + 1 .. top
      PROVE  \E k \in 1 .. Len(q) : q[k] = b
  <2> DEFINE j == top - b
  <2>1. j \in 0 .. n - 1 /\ Len(q) - j \in 1 .. Len(q) /\ top - j = b
    BY <1>1
  <2> HIDE DEF j
  <2>2. q[Len(q) - j] = b
    BY <1>1, <2>1
  <2>3. QED
    BY <2>1, <2>2
<1>4. ASSUME n = Len(q), NEW k \in 1 .. Len(q)
      PROVE  q[k] <= top
  <2>1. Len(q) - k \in 0 .. n - 1 /\ Len(q) - (Len(q) - k) = k
    BY <1>4
  <2>2. q[k] = top - (Len(q) - k)
    BY <1>1, <2>1
  <2>3. QED
    BY <2>2
<1>5. QED
  BY <1>2, <1>3, <1>4

(* The last n blocks and the next one, after a queue moved on by d places. *)
LEMMA EndsMoved ==
  ASSUME NEW q \in Seq(Nat), NEW e \in Seq(Nat), NEW d \in Nat, NEW l \in Nat, NEW b \in Nat,
         Len(q) = l + d, Len(e) = l + 1, e[l + 1] = b, \A k \in 1 .. l : e[k] = q[k + d],
         NEW n \in 0 .. l, Ends(q, b - 1, n)
  PROVE  Ends(e, b, n + 1)
<1>1. \A m \in 0 .. n - 1 : q[Len(q) - m] = b - 1 - m
  BY DEF Ends
<1>2. ASSUME NEW j \in 0 .. n
      PROVE  e[Len(e) - j] = b - j
  <2>1. CASE j = 0
    BY <2>1
  <2>2. CASE j > 0
    <3> DEFINE m == j - 1
               x == l + 1 - j
    <3>1. m \in 0 .. n - 1 /\ x \in 1 .. l /\ x + d = Len(q) - m /\ b - 1 - m = b - j /\ Len(e) - j = x
      BY <2>2
    <3> HIDE DEF m, x
    <3>2. e[x] = q[Len(q) - m]
      BY <3>1
    <3>3. QED
      BY <1>1, <3>1, <3>2
  <2>3. QED
    BY <2>1, <2>2
<1>3. \A j \in 0 .. (n + 1) - 1 : e[Len(e) - j] = b - j
  BY <1>2
<1>4. QED
  BY <1>3 DEF Ends

(* What a sequence that grew has.                                          *)
LEMMA Appended ==
  ASSUME NEW q \in Seq(Nat), NEW b \in Nat
  PROVE  /\ Append(q, b) \in Seq(Nat) /\ Len(Append(q, b)) = Len(q) + 1 /\ Append(q, b)[Len(q) + 1] = b
         /\ \A k \in 1 .. Len(q) : Append(q, b)[k] = q[k]
OBVIOUS

(* The next block of the file makes the stretch longer.                    *)
LEMMA EndsGrow ==
  ASSUME NEW q \in Seq(Nat), Len(q) <= Capacity, NEW b \in Nat, NEW e,
         Len(q) < Capacity => e = Append(q, b),
         ~(Len(q) < Capacity) => e = Append(Tail(q), b)
  PROVE  /\ e \in Seq(Nat)
         /\ \A n \in 0 .. Capacity - 1 : Ends(q, b - 1, n) => Ends(e, b, n + 1)
         /\ Ends(q, b - 1, Len(q)) => Ends(e, b, Len(e))
         /\ Len(q) = 0 => Ends(e, b, Len(e))
<1>c. Capacity \in Nat /\ Capacity > 0 /\ Len(q) \in Nat
  BY CapacityAssumption
<1>1. \E d \in Nat, l \in Nat :
                       /\ e \in Seq(Nat) /\ Len(q) = l + d /\ Len(e) = l + 1 /\ e[l + 1] = b
                       /\ \A k \in 1 .. l : e[k] = q[k + d]
                       /\ l = Len(q) \/ l = Capacity - 1
  <2>1. CASE Len(q) < Capacity
    <3>1. e = Append(q, b)
      BY <2>1
    <3>2. e \in Seq(Nat) /\ Len(e) = Len(q) + 1 /\ e[Len(q) + 1] = b /\ \A k \in 1 .. Len(q) : e[k] = q[k]
      BY <3>1, Appended, Zenon
    <3>3. Len(q) = Len(q) + 0 /\ \A k \in 1 .. Len(q) : k + 0 = k
      BY <1>c
    <3>4. 0 \in Nat
      OBVIOUS
    <3>5. QED
      BY <1>c, <3>2, <3>3, <3>4, Zenon
  <2>2. CASE ~(Len(q) < Capacity)
    <3> DEFINE t == Tail(q)
               l == Len(q) - 1
    <3>1. e = Append(t, b)
      BY <2>2
    <3>2. t \in Seq(Nat) /\ Len(t) = l /\ \A k \in 1 .. l : t[k] = q[k + 1]
      <4>1. q # <<>>
        BY <1>c, <2>2
      <4>2. QED
        BY <4>1
    <3>3. l \in Nat /\ 1 \in Nat /\ Len(q) = l + 1 /\ l = Capacity - 1
      BY <1>c, <2>2
    <3> HIDE DEF t, l
    <3>4. e \in Seq(Nat) /\ Len(e) = Len(t) + 1 /\ e[Len(t) + 1] = b /\ \A k \in 1 .. Len(t) : e[k] = t[k]
      BY <3>1, <3>2, Appended, Zenon
    <3>5. QED
      BY <3>2, <3>3, <3>4, Zenon
  <2>3. QED
    BY <2>1, <2>2
<1> HIDE DEF Ends
<1>2. PICK d \in Nat, l \in Nat :
             /\ e \in Seq(Nat) /\ Len(q) = l + d /\ Len(e) = l + 1 /\ e[l + 1] = b
             /\ \A k \in 1 .. l : e[k] = q[k + d]
             /\ l = Len(q) \/ l = Capacity - 1
  BY <1>1, Zenon
<1>3. ASSUME NEW n \in 0 .. l, Ends(q, b - 1, n)
      PROVE  Ends(e, b, n + 1)
  BY <1>2, <1>3, EndsMoved, Zenon
<1>4. ASSUME NEW n \in 0 .. Capacity - 1, Ends(q, b - 1, n)
      PROVE  n \in 0 .. l
  <2>1. n <= Len(q)
    BY <1>4, Zenon DEF Ends
  <2>2. QED
    BY <1>c, <1>2, <2>1
<1>5. ASSUME Ends(q, b - 1, Len(q))
      PROVE  Ends(e, b, Len(e))
  <2>1. b - 1 \in Int /\ l \in 0 .. Len(q) /\ l \in 0 .. l
    BY <1>2
  <2>2. Ends(q, b - 1, l)
    BY <1>c, <1>5, <2>1, EndsHas, Zenon
  <2>3. QED
    BY <1>2, <1>3, <2>1, <2>2, Zenon
<1>6. ASSUME Len(q) = 0
      PROVE  Ends(q, b - 1, Len(q))
  <2>1. 0 <= Len(q) /\ ~\E j : j \in 0 .. Len(q) - 1
    BY <1>c, <1>6
  <2>2. QED
    BY <1>6, <2>1, Zenon DEF Ends
<1>7. QED
  BY <1>2, <1>3, <1>4, <1>5, <1>6, Zenon

-----------------------------------------------------------------------------
(* What the steps do to the state of the policies.                         *)

(* The next block of a trace continues the run or begins another.          *)
LEMMA NextBlockRuns ==
  ASSUME Inv, TraceInv, pc = "access", NEW b \in 0 .. total_blocks, NextBlock(b)
  PROVE  /\ run' \in Nat /\ run_left' \in Nat /\ run' > 0 /\ (run' = 1 \/ run' = run + 1)
         /\ run' > 1 => b = block_num + 1 /\ i > 0
<1>1. Accepted(args)
  BY ProgramsAssumption DEF Inv, RangeInv
<1>2. CASE OffsetBlock(b)
  BY <1>2 DEF OffsetBlock, TraceInv
<1>3. CASE RunBlock(b)
  BY <1>3 DEF RunBlock, TraceInv
<1>4. CASE RunStart(b)
  <2>1. PICK len \in args.burst_lens : run_left' = len - 1
    BY <1>4 DEF RunStart
  <2>2. len \in 1 .. (args.file_size \div args.block_size) - 1
    BY <1>1, <1>4, <2>1 DEF Accepted, RunStart
  <2>3. QED
    BY <1>4, <2>1, <2>2 DEF RunStart
<1>5. QED
  BY <1>2, <1>3, <1>4 DEF NextBlock

(* The four outcomes of a call of a policy.                                *)
Opens ==
  /\ Sequential /\ ~have_edge /\ window' = window
  /\ cursor' = block_num + 1 /\ left' = window /\ readahead_edge' = block_num + 1 + window
  /\ have_edge' /\ have_edge' \in BOOLEAN /\ fresh' /\ fresh' \in BOOLEAN /\ pc' = "prefetch"
Continues ==
  /\ Sequential /\ have_edge /\ block_num + 1 = readahead_edge
  /\ \/ window' = window /\ window = args.max_window
     \/ window' = Grown
  /\ cursor' = readahead_edge /\ left' = window' /\ readahead_edge' = readahead_edge + window'
  /\ have_edge' /\ have_edge' \in BOOLEAN /\ fresh' /\ fresh' \in BOOLEAN /\ pc' = "prefetch"
Consumes ==
  /\ Sequential /\ have_edge /\ block_num + 1 # readahead_edge
  /\ UNCHANGED <<window, readahead_edge, have_edge, fresh>> /\ pc' = "access"
Breaks ==
  /\ ~(Sequential /\ window > 0)
  /\ window' = args.window
  /\ ~have_edge' /\ have_edge' \in BOOLEAN /\ UNCHANGED <<readahead_edge, fresh>> /\ pc' = "access"

(* Both policies make one of them, and remember the block.                 *)
LEMMA PolicyOutcomes ==
  ASSUME Inv, TraceInv, EdgeInv, DoPolicy
  PROVE  /\ pc = "policy" /\ last_block' = block_num /\ have_last' /\ have_last' \in BOOLEAN
         /\ UNCHANGED <<poolVars, args, genVars, traceVars>>
         /\ Opens \/ Continues \/ Consumes \/ Breaks
<1>0. Accepted(args) /\ window \in 0 .. args.max_window /\ args.window <= window /\ args.max_window \in Nat
  BY ProgramsAssumption, Numbers DEF Inv, RangeInv, EdgeInv
<1>1. CASE args.policy = "fixed" /\ readahead_on_access
  <2>1. window = args.max_window /\ window = args.window
    BY <1>0, <1>1 DEF Accepted
  <2>2. QED
    <3>1. CASE StartWindow
      BY <3>1 DEF StartWindow, Opens, PrefetchRange, Remember
    <3>2. CASE NextWindow
      BY <2>1, <3>2 DEF NextWindow, Continues, PrefetchRange, Remember, TraceInv
    <3>3. CASE Consume
      BY <3>3 DEF Consume, Consumes, Remember
    <3>4. CASE Break
      BY <2>1, <3>4 DEF Break, Breaks, Remember
    <3>5. QED
      BY <1>1, <3>1, <3>2, <3>3, <3>4 DEF readahead_on_access
<1>2. CASE args.policy = "adaptive" /\ adaptive_readahead_on_access
  <2>1. (args.max_window > 0 \/ ~(window > 0)) /\ have_edge \in BOOLEAN
    BY <1>0 DEF TraceInv
  <2>2. CASE AdaptiveStart
    BY <2>2 DEF AdaptiveStart, Opens, PrefetchRange, Remember
  <2>3. CASE AdaptiveNext
    BY <2>1, <2>3 DEF AdaptiveNext, Continues, PrefetchRange, Remember
  <2>4. CASE AdaptiveConsume
    BY <2>4 DEF AdaptiveConsume, Consumes, Remember
  <2>5. CASE AdaptiveBreak
    BY <2>1, <2>5 DEF AdaptiveBreak, Breaks, Remember
  <2>6. QED
    BY <1>2, <2>2, <2>3, <2>4, <2>5 DEF adaptive_readahead_on_access
<1>3. QED
  BY <1>1, <1>2 DEF DoPolicy

(* An access moves the reader, in a run towards the edge.                  *)
LEMMA AccessEdge ==
  ASSUME Inv, TraceInv, EdgeInv, NEW b \in 0 .. total_blocks, Access(b) \/ AccessFails(b),
         UNCHANGED <<raVars, fresh>>
  PROVE  TraceInv' /\ EdgeInv'
<1>0. /\ pc = "access" /\ block_num' = b /\ i' = i + 1 /\ pc' \in {"policy", "failed"} /\ NextBlock(b)
      /\ UNCHANGED <<args, window, last_block, have_last, readahead_edge, have_edge, fresh>>
  BY DEF Access, AccessFails, raVars
<1>1. /\ run' \in Nat /\ run_left' \in Nat /\ run' > 0 /\ (run' = 1 \/ run' = run + 1)
      /\ run' > 1 => b = block_num + 1 /\ i > 0
  BY <1>0, NextBlockRuns
<1>2. b \in Nat /\ block_num \in Nat /\ args.window \in Nat /\ args.max_window \in Nat /\ window \in Nat
  BY Numbers
<1>3. TraceInv'
  BY <1>0, <1>1, <1>2 DEF TraceInv, Settled, Sequential
<1>4. EdgeInv'
  BY <1>0, <1>1, <1>2 DEF TraceInv, EdgeInv, Settled, Sequential, Growing
<1>5. QED
  BY <1>3, <1>4

(* A policy moves the edge.                                                *)
LEMMA PolicyEdge ==
  ASSUME Inv, TraceInv, EdgeInv, DoPolicy
  PROVE  TraceInv' /\ EdgeInv'
<1>0. /\ pc = "policy" /\ last_block' = block_num /\ have_last' /\ have_last' \in BOOLEAN
      /\ UNCHANGED <<poolVars, args, genVars, traceVars>>
      /\ Opens \/ Continues \/ Consumes \/ Breaks
  BY PolicyOutcomes
<1>1. UNCHANGED <<args, block_num, i, run, run_left, count, misses>>
  BY <1>0 DEF poolVars, traceVars
<1>2. /\ block_num \in Nat /\ args.window \in Nat /\ args.max_window \in Nat /\ window \in Nat
      /\ window <= args.max_window /\ args.window <= args.max_window
  BY Numbers
<1>3. CASE Opens
  <2>1. /\ Sequential /\ ~have_edge /\ window' = window
        /\ cursor' = block_num + 1 /\ left' = window /\ readahead_edge' = block_num + 1 + window
        /\ have_edge' /\ have_edge' \in BOOLEAN /\ fresh' \in BOOLEAN /\ pc' = "prefetch"
    BY <1>3 DEF Opens
  <2>2. readahead_edge' \in Nat /\ i > 1 /\ i > 0 /\ i # 0
    BY <1>0, <1>2, <2>1 DEF TraceInv, Sequential
  <2>3. TraceInv'
    BY <1>0, <1>1, <1>2, <2>1, <2>2, Zenon DEF TraceInv, Settled
  <2>4. EdgeInv'
    BY <1>0, <1>1, <1>2, <2>1 DEF TraceInv, EdgeInv, Settled, Growing
  <2>5. QED
    BY <2>3, <2>4
<1>4. CASE Continues
  <2>1. /\ Sequential /\ have_edge /\ block_num + 1 = readahead_edge
        /\ cursor' = readahead_edge /\ left' = window' /\ readahead_edge' = readahead_edge + window'
        /\ have_edge' /\ have_edge' \in BOOLEAN /\ fresh' \in BOOLEAN /\ pc' = "prefetch"
    BY <1>4 DEF Continues
  <2>2. window' \in Nat /\ window' >= window /\ (window = 0 => window' = 0)
        /\ (window' < args.max_window => window' = 2 * window)
    BY <1>2, <1>4 DEF Continues, Grown
  <2>3. readahead_edge' \in Nat
    BY <1>2, <2>1, <2>2
  <2>4. have_edge' /\ have_edge' \in BOOLEAN /\ fresh' \in BOOLEAN /\ pc' = "prefetch"
    BY <2>1
  <2>5. i > 1
    BY <2>1 DEF TraceInv
  <2>6. TraceInv'
    BY <1>0, <1>1, <1>2, <2>3, <2>4, <2>5 DEF TraceInv, Settled
  <2>7. /\ args.window <= window /\ (args.window = 0 => window = 0) /\ run \in Nat
        /\ window > 0 /\ window < args.max_window => run + args.window <= 2 + 2 * window
    BY <1>0, <1>2, <2>1 DEF TraceInv, EdgeInv, Growing
  <2>8. /\ readahead_edge' <= block_num' + 1 + window'
        /\ block_num' + 1 < readahead_edge' \/ window' = 0
    BY <1>1, <1>2, <2>1, <2>2
  <2>9. Growing' \/ window' = 0
    BY <1>1, <1>2, <2>1, <2>2, <2>7 DEF Growing
  <2>10. EdgeInv'
    BY <1>1, <1>2, <2>1, <2>2, <2>7, <2>8, <2>9 DEF EdgeInv, Settled
  <2>11. QED
    BY <2>6, <2>10
<1>5. CASE Consumes
  <2>1. /\ Sequential /\ have_edge /\ block_num + 1 # readahead_edge
        /\ UNCHANGED <<window, readahead_edge, have_edge, fresh>> /\ pc' = "access"
    BY <1>5 DEF Consumes
  <2>2. TraceInv'
    <3>1. i > 1 /\ i > 0 /\ i # 0
      BY <2>1 DEF TraceInv
    <3>2. QED
      BY <1>0, <1>1, <1>2, <2>1, <3>1, Zenon DEF TraceInv, Settled
  <2>3. readahead_edge \in Nat /\ (window > 0 => block_num + 1 < readahead_edge)
    BY <1>0, <1>2, <2>1 DEF TraceInv, EdgeInv
  <2>4. EdgeInv'
    BY <1>0, <1>1, <1>2, <2>1, <2>3 DEF EdgeInv, Settled, Growing
  <2>5. QED
    BY <2>2, <2>4
<1>6. CASE Breaks
  <2>1. /\ ~(Sequential /\ window > 0) /\ window' = args.window /\ pc' = "access"
        /\ ~have_edge' /\ have_edge' \in BOOLEAN /\ UNCHANGED <<readahead_edge, fresh>>
    BY <1>6 DEF Breaks
  <2>2. i > 0 /\ i # 0 /\ (run > 1 => Sequential) /\ run \in Nat /\ args.window <= window /\ (args.window = 0 => window = 0)
    BY <1>0 DEF TraceInv, EdgeInv
  <2>3. TraceInv'
    BY <1>0, <1>1, <1>2, <2>1, <2>2, Zenon DEF TraceInv, Settled
  <2>4. EdgeInv'
    BY <1>1, <1>2, <2>1, <2>2 DEF EdgeInv, Settled
  <2>5. QED
    BY <2>3, <2>4
<1>7. QED
  BY <1>0, <1>3, <1>4, <1>5, <1>6

(* The other steps leave the policies alone or begin a repeat.             *)
LEMMA OtherEdge ==
  ASSUME Inv, TraceInv, EdgeInv, DoGenerate \/ DoPrefetch \/ DoPrefetchDone \/ DoRepeat \/ DoStopped \/ UNCHANGED vars
  PROVE  TraceInv' /\ EdgeInv'
<1>0. /\ block_num \in Nat /\ args.window \in Nat /\ args.max_window \in Nat /\ window \in Nat
      /\ (pc = "prefetch" => cursor \in Nat /\ left \in Nat)
  BY Numbers
<1>1. CASE DoGenerate
  <2>1. /\ UNCHANGED <<args, i, run, run_left, count, misses, raVars, fresh>>
        /\ pc \in {"generate", "shuffle"} /\ pc' \in {"shuffle", "access", "failed"}
    BY <1>1 DEF DoGenerate, generate_offsets, GenerateFails, Generate, Shuffle, Generated, poolVars, traceVars
  <2>2. i = 0 /\ ~(i > 0) /\ run = 0 /\ ~have_edge /\ window = args.window /\ pc' # "policy" /\ pc' # "prefetch"
    BY <2>1 DEF TraceInv
  <2>3. TraceInv'
    BY <2>1, <2>2, Zenon DEF TraceInv, Settled, raVars
  <2>4. ~have_edge' /\ run' <= 1 /\ window' = args'.window /\ args' = args
    BY <2>1, <2>2 DEF raVars
  <2>5. EdgeInv'
    BY <1>0, <2>2, <2>4 DEF EdgeInv
  <2>6. QED
    BY <2>3, <2>5
<1>2. CASE DoPrefetch \/ DoPrefetchDone
  <2>1. /\ UNCHANGED <<args, block_num, i, run, run_left, misses, raVars>> /\ fresh' \in BOOLEAN
        /\ pc = "prefetch" /\ pc' \in {"access", "prefetch"}
        /\ pc' = "prefetch" => cursor' = cursor + 1 /\ left' = left - 1
    BY <1>2 DEF DoPrefetch, Prefetch, DoPrefetchDone, PrefetchDone, poolVars, statVars, traceVars, TraceInv
  <2>2. have_edge /\ i > 1 /\ i > 0 /\ i # 0 /\ pc' # "policy" /\ pc' \notin {"generate", "shuffle"}
    BY <2>1 DEF TraceInv, EdgeInv
  <2>3. TraceInv'
    BY <2>1, <2>2, Zenon DEF TraceInv, Settled, raVars
  <2>4. EdgeInv'
    BY <1>0, <2>1, <2>2 DEF EdgeInv, Settled, Growing, raVars
  <2>5. QED
    BY <2>3, <2>4
<1>3. CASE DoRepeat /\ r + 1 < args.repeats
  <2>1. /\ UNCHANGED <<args, fresh>> /\ i' = 0 /\ run' = 0 /\ run_left' = 0 /\ count' = 0 /\ misses' = 0
        /\ window' = args.window /\ last_block' = 0 /\ ~have_last' /\ have_last' \in BOOLEAN /\ readahead_edge' = 0
        /\ ~have_edge' /\ have_edge' \in BOOLEAN /\ pc' # "policy" /\ pc' # "prefetch"
    BY <1>3 DEF DoRepeat, RepeatDone, ResetPool, FirstPc
  <2>2. 0 \in Nat /\ 0 <= 0 /\ ~(0 > 0) /\ ~(0 > 1)
    OBVIOUS
  <2>3. TraceInv'
    BY <2>1, <2>2, Zenon DEF TraceInv
  <2>4. ~have_edge' /\ run' <= 1 /\ window' = args'.window /\ args' = args
    BY <2>1
  <2>5. EdgeInv'
    BY <1>0, <2>1, <2>4 DEF EdgeInv
  <2>6. QED
    BY <2>3, <2>5
<1>4. CASE DoRepeat /\ ~(r + 1 < args.repeats)
  <2>1. UNCHANGED <<args, block_num, i, run, run_left, count, misses, raVars, fresh>> /\ pc' = "done"
    BY <1>4 DEF DoRepeat, RepeatDone, poolVars
  <2>2. QED
    BY <1>0, <2>1 DEF TraceInv, EdgeInv, Settled, raVars
<1>5. CASE DoStopped \/ UNCHANGED vars
  <2>1. UNCHANGED <<args, pc, block_num, i, run, run_left, count, misses, raVars, fresh, cursor, left>>
    BY <1>5 DEF DoStopped, Stopped, vars, driverVars, poolVars, traceVars, loopVars
  <2>2. TraceInv'
    BY <2>1 DEF TraceInv, Settled, Sequential, raVars
  <2>3. EdgeInv'
    BY <2>1 DEF EdgeInv, Settled, Sequential, Growing, raVars
  <2>4. QED
    BY <2>2, <2>3
<1>6. QED
  BY <1>1, <1>2, <1>3, <1>4, <1>5

-----------------------------------------------------------------------------
(* What the steps do to the end of the queue.                              *)

(* The blocks cached are the elements of the queue.                        *)
LEMMA QueueHas ==
  ASSUME Inv
  PROVE  /\ Queue \in Seq(Nat) /\ Len(Queue) = count /\ Len(Queue) <= Capacity
         /\ \A b : b \in Cached <=> \E k \in 1 .. Len(Queue) : Queue[k] = b
<1>1. PoolInv
  BY DEF Inv
<1>2. Queue \in Seq(Nat) /\ Len(Queue) = count /\ Fifo!Contents = Cached
  BY <1>1, SameBlocks
<1>3. count <= Capacity
  BY <1>1, CapacityAssumption DEF PoolInv
<1>4. QED
  BY <1>2, <1>3 DEF Fifo!Contents

(* A block that was not cached comes after the others.                     *)
LEMMA InsertGrows ==
  ASSUME Inv, NEW b \in Nat, b \notin Cached, buffer_pool_insert(b), hits' \in Nat, misses' \in Nat
  PROVE  /\ Queue' \in Seq(Nat)
         /\ \A n \in 0 .. Capacity - 1 : Ends(Queue, b - 1, n) => Ends(Queue', b, n + 1)
         /\ Ends(Queue, b - 1, Len(Queue)) => Ends(Queue', b, Len(Queue'))
         /\ Len(Queue) = 0 => Ends(Queue', b, Len(Queue'))
<1>1. Queue' = Fifo!Enqueue(b)
  BY InsertEnqueues DEF Inv
<1>2. Queue \in Seq(Nat) /\ Len(Queue) <= Capacity
  BY QueueHas
<1>3. /\ Len(Queue) < Capacity => Queue' = Append(Queue, b)
      /\ ~(Len(Queue) < Capacity) => Queue' = Append(Tail(Queue), b)
  BY <1>1 DEF Fifo!Enqueue
<1>4. QED
  BY <1>2, <1>3, EndsGrow

(* In the middle of a range that was new the next block is cached.         *)
LEMMA NextIsCached ==
  ASSUME Inv, TraceInv, EdgeInv, RetainInv, pc = "access", have_edge, fresh, 0 < window, window <= Capacity
  PROVE  /\ \A b \in block_num + 1 .. readahead_edge - 1 : b \in Cached
         /\ block_num + 1 <= readahead_edge - 1
<1>0. readahead_edge \in Nat /\ block_num \in Nat /\ window \in Nat
  BY Numbers DEF TraceInv
<1>1. Ends(Queue, readahead_edge - 1, window)
  BY DEF RetainInv
<1>2. readahead_edge <= block_num + 1 + window /\ block_num + 1 < readahead_edge
  BY DEF EdgeInv, Settled
<1>3. Queue \in Seq(Nat) /\ readahead_edge - 1 \in Int
  BY <1>0, QueueHas
<1>4. \A b \in (readahead_edge - 1) - window + 1 .. readahead_edge - 1 : \E k \in 1 .. Len(Queue) : Queue[k] = b
  BY <1>0, <1>1, <1>3, EndsHas
<1>5. \A b \in block_num + 1 .. readahead_edge - 1 : b \in (readahead_edge - 1) - window + 1 .. readahead_edge - 1
  BY <1>0, <1>2
<1>6. QED
  BY <1>0, <1>2, <1>4, <1>5, QueueHas

(* An access in a run finds its block, or it is one of the first two.      *)
LEMMA AccessQueue ==
  ASSUME Inv, TraceInv, EdgeInv, RetainInv, RunInv, NEW b \in 0 .. total_blocks,
         Access(b) \/ AccessFails(b), UNCHANGED <<raVars, fresh>>
  PROVE  RetainInv' /\ RunInv'
<1>0. /\ pc = "access" /\ block_num' = b /\ i' = i + 1 /\ pc' \in {"policy", "failed"} /\ NextBlock(b)
      /\ UNCHANGED <<args, window, last_block, have_last, readahead_edge, have_edge, fresh>>
  BY DEF Access, AccessFails, raVars
<1>1. /\ run' \in Nat /\ run' > 0 /\ (run' = 1 \/ run' = run + 1)
      /\ run' > 1 => b = block_num + 1 /\ i > 0
  BY <1>0, NextBlockRuns
<1>2. /\ b \in Nat /\ block_num \in Nat /\ args.window \in Nat /\ args.max_window \in Nat /\ window \in Nat
      /\ window <= args.max_window /\ args.window <= window /\ readahead_edge \in Nat /\ i \in Nat /\ run \in Nat
      /\ hits \in Nat /\ misses \in Nat /\ Capacity \in Nat
  BY Numbers DEF EdgeInv, TraceInv
<1>3. /\ b \in Cached => Queue' = Queue /\ misses' = misses /\ pc' = "policy"
      /\ b \notin Cached => misses' = misses + 1
      /\ b \notin Cached /\ pc' = "policy" => buffer_pool_insert(b) /\ hits' = hits
  BY DEF Access, AccessFails, arrayVars, Queue
<1>4. RetainInv'
  <2> SUFFICES ASSUME have_edge, fresh, window <= Capacity, pc' = "policy", Sequential'
               PROVE  Ends(Queue', readahead_edge - 1, window)
    BY <1>0 DEF RetainInv
  <2>1. b = block_num + 1
    BY <1>0, <1>2 DEF Sequential, TraceInv, Settled
  <2>2. CASE window = 0
    <3>1. Queue' \in Seq(Nat)
      <4>1. b \in Cached => Queue' \in Seq(Nat)
        BY <1>3, QueueHas
      <4>2. b \notin Cached => Queue' \in Seq(Nat)
        BY <1>2, <1>3, InsertGrows
      <4>3. QED
        BY <4>1, <4>2
    <3>2. QED
      BY <2>2, <3>1 DEF Ends
  <2>3. CASE window > 0
    <3>1. b \in Cached
      BY <1>0, <1>2, <2>1, <2>3, NextIsCached
    <3>2. QED
      BY <1>0, <1>3, <3>1 DEF RetainInv
  <2>4. QED
    BY <1>2, <2>2, <2>3
<1>5. RunInv'
  <2> SUFFICES ASSUME SingleRun'
               PROVE  /\ misses' <= 2
                      /\ pc' = "policy" => IF have_edge THEN fresh /\ Ends(Queue', readahead_edge - 1, Len(Queue'))
                                           ELSE misses' <= i' /\ Ends(Queue', b, Len(Queue'))
    BY <1>0 DEF RunInv, Settled
  <2>1. run' = i + 1 /\ 0 < args.window /\ args.max_window <= Capacity /\ window > 0
    BY <1>0, <1>2 DEF SingleRun
  <2>2. i > 0 => SingleRun /\ b = block_num + 1
    BY <1>1, <1>2, <2>1 DEF SingleRun
  <2>3. CASE have_edge
    <3>1. i > 0 /\ fresh /\ window <= Capacity
      BY <1>0, <1>2, <2>1, <2>2, <2>3 DEF TraceInv, RunInv, Settled
    <3>2. b \in Cached
      BY <1>0, <1>2, <2>1, <2>2, <2>3, <3>1, NextIsCached
    <3>3. QED
      BY <1>0, <1>3, <2>2, <2>3, <3>1, <3>2 DEF RunInv, Settled
  <2>4. CASE ~have_edge
    <3>1. misses <= i /\ i <= 1 /\ (i > 0 => Ends(Queue, block_num, Len(Queue)))
      <4>1. CASE i = 0
        BY <4>1, <1>2 DEF TraceInv
      <4>2. CASE i > 0
        BY <1>0, <1>2, <2>1, <2>2, <2>4, <4>2 DEF RunInv, EdgeInv, Settled, SingleRun
      <4>3. QED
        BY <1>2, <4>1, <4>2
    <3>2. /\ i > 0 => Ends(Queue, b - 1, Len(Queue)) /\ \A k \in 1 .. Len(Queue) : Queue[k] <= b - 1
          /\ i = 0 => Len(Queue) = 0
      <4>1. CASE i = 0
        BY <4>1, <1>2, QueueHas DEF TraceInv
      <4>2. CASE i > 0
        <5>1. b - 1 = block_num /\ Queue \in Seq(Nat) /\ Len(Queue) \in Nat /\ b - 1 \in Int
          BY <1>2, <2>2, <4>2, QueueHas
        <5>2. Ends(Queue, b - 1, Len(Queue))
          BY <3>1, <4>2, <5>1
        <5>3. QED
          BY <4>2, <5>1, <5>2, EndsHas
      <4>3. QED
        BY <1>2, <4>1, <4>2
    <3>3. b \notin Cached
      <4>1. Queue \in Seq(Nat) /\ ((b \in Cached) <=> \E k \in 1 .. Len(Queue) : Queue[k] = b)
        BY QueueHas
      <4>2. ASSUME NEW k \in 1 .. Len(Queue) PROVE Queue[k] # b
        BY <1>2, <3>2, <4>1
      <4>3. QED
        BY <4>1, <4>2
    <3>4. misses' <= 2 /\ misses' <= i' /\ misses' \in Nat
      BY <1>0, <1>2, <1>3, <3>1, <3>3
    <3>5. ASSUME pc' = "policy" PROVE Ends(Queue', b, Len(Queue'))
      <4>1. buffer_pool_insert(b) /\ hits' \in Nat
        BY <1>2, <1>3, <3>3, <3>5
      <4>2. QED
        BY <1>2, <3>2, <3>3, <3>4, <4>1, InsertGrows
    <3>6. QED
      BY <2>4, <3>4, <3>5
  <2>5. QED
    BY <2>3, <2>4
<1>6. QED
  BY <1>4, <1>5

(* A policy leaves the queue alone; the range it begins is empty so far.   *)
LEMMA PolicyQueue ==
  ASSUME Inv, TraceInv, EdgeInv, RetainInv, RunInv, DoPolicy
  PROVE  RetainInv' /\ RunInv'
<1>0. /\ pc = "policy" /\ UNCHANGED <<poolVars, args, genVars, traceVars>>
      /\ Opens \/ Continues \/ Consumes \/ Breaks
  BY PolicyOutcomes
<1>1. UNCHANGED <<args, block_num, i, run, misses, Queue>>
  BY <1>0 DEF poolVars, traceVars, Queue
<1>2. /\ Queue \in Seq(Nat) /\ block_num \in Nat /\ window \in Nat /\ readahead_edge \in Nat /\ i \in Nat
      /\ run \in Nat /\ args.max_window \in Nat /\ args.window \in Nat /\ args.window <= window
  BY QueueHas, Numbers DEF TraceInv, EdgeInv
<1>3. CASE Opens \/ Continues
  <2>1. /\ Sequential /\ cursor' = (IF have_edge THEN readahead_edge ELSE block_num + 1) /\ left' = window'
        /\ have_edge' /\ fresh' /\ pc' = "prefetch" /\ window' \in Nat
    BY <1>2, <1>3 DEF Opens, Continues, Grown
  <2>2. Ends(Queue, cursor' - 1, window' - left')
    <3>0. \A w \in Nat : w - w = 0
      OBVIOUS
    <3>1. window' - left' = 0
      BY <2>1, <3>0, Zenon
    <3>2. 0 <= Len(Queue) /\ 0 .. 0 - 1 = {}
      BY <1>2
    <3>3. QED
      BY <3>1, <3>2 DEF Ends
  <2>3. RetainInv'
    BY <1>1, <2>1, <2>2 DEF RetainInv
  <2>4. SingleRun' => SingleRun
    BY <1>1 DEF SingleRun
  <2>5. SingleRun => misses <= 2 /\ Ends(Queue, cursor' - 1, Len(Queue))
    <3>1. CASE have_edge
      BY <1>0, <2>1, <3>1 DEF RunInv
    <3>2. CASE ~have_edge
      <4>1. cursor' - 1 = block_num /\ i > 0
        BY <1>0, <1>2, <2>1, <3>2 DEF TraceInv
      <4>2. QED
        BY <1>0, <3>2, <4>1 DEF RunInv
    <3>3. QED
      BY <3>1, <3>2
  <2>6. RunInv'
    BY <1>1, <2>1, <2>4, <2>5 DEF RunInv
  <2>7. QED
    BY <2>3, <2>6
<1>4. CASE Consumes
  <2>1. RetainInv'
    BY <1>0, <1>1, <1>4 DEF RetainInv, Consumes
  <2>2. RunInv'
    BY <1>0, <1>1, <1>4 DEF RunInv, SingleRun, Settled, Consumes
  <2>3. QED
    BY <2>1, <2>2
<1>5. CASE Breaks
  <2>1. ~have_edge' /\ pc' = "access" /\ ~(Sequential /\ window > 0)
    BY <1>5 DEF Breaks
  <2>2. RetainInv'
    BY <2>1 DEF RetainInv
  <2>3. ASSUME SingleRun'
        PROVE  SingleRun /\ ~have_edge
    BY <1>0, <1>1, <1>2, <2>1, <2>3 DEF SingleRun, TraceInv
  <2>4. RunInv'
    BY <1>0, <1>1, <2>1, <2>3 DEF RunInv, Settled
  <2>5. QED
    BY <2>2, <2>4
<1>6. QED
  BY <1>0, <1>3, <1>4, <1>5

(* A block that is fetched makes the range at the end of the queue longer; *)
(* one that was cached spoils the range, and there is none in a single run. *)
LEMMA PrefetchQueue ==
  ASSUME Inv, TraceInv, EdgeInv, RetainInv, RunInv, DoPrefetch
  PROVE  RetainInv' /\ RunInv'
<1>0. /\ pc = "prefetch" /\ left > 0 /\ buffer_pool_insert(cursor) /\ cursor' = cursor + 1 /\ left' = left - 1
      /\ UNCHANGED <<hits, misses, args, pc, block_num, i, run, window, readahead_edge, have_edge>>
      /\ fresh' = (fresh /\ cursor \notin Cached)
  BY DEF DoPrefetch, Prefetch, statVars, traceVars, raVars
<1>1. /\ cursor \in Nat /\ left \in Nat /\ window \in Nat /\ have_edge /\ left <= window /\ fresh \in BOOLEAN
      /\ hits' \in Nat /\ misses' \in Nat /\ Capacity \in Nat
  <2>1. cursor \in Nat /\ left \in Nat /\ window \in Nat
    BY <1>0, Numbers
  <2>2. hits' \in Nat /\ misses' \in Nat /\ Capacity \in Nat
    BY <1>0, Numbers
  <2>3. have_edge /\ left <= window /\ fresh \in BOOLEAN
    BY <1>0 DEF TraceInv, EdgeInv
  <2>4. QED
    BY <2>1, <2>2, <2>3
<1>2. cursor \notin Cached =>
        /\ \A n \in 0 .. Capacity - 1 : Ends(Queue, cursor - 1, n) => Ends(Queue', cursor, n + 1)
        /\ Ends(Queue, cursor - 1, Len(Queue)) => Ends(Queue', cursor, Len(Queue'))
  BY <1>0, <1>1, InsertGrows
<1>3. cursor' - 1 = cursor /\ window' - left' = (window - left) + 1
  BY <1>0, <1>1
<1>4. RetainInv'
  <2> SUFFICES ASSUME fresh, cursor \notin Cached, window <= Capacity
               PROVE  Ends(Queue', cursor, (window - left) + 1)
    BY <1>0, <1>3 DEF RetainInv
  <2>1. Ends(Queue, cursor - 1, window - left)
    BY <1>0, <1>1 DEF RetainInv
  <2>2. window - left \in 0 .. Capacity - 1
    BY <1>0, <1>1
  <2>3. QED
    BY <1>2, <2>1, <2>2
<1>5. RunInv'
  <2> SUFFICES ASSUME SingleRun
               PROVE  misses <= 2 /\ fresh' /\ Ends(Queue', cursor, Len(Queue'))
    BY <1>0, <1>1, <1>3 DEF RunInv, SingleRun, Settled
  <2>1. misses <= 2 /\ fresh /\ Ends(Queue, cursor - 1, Len(Queue))
    BY <1>0, <1>1 DEF RunInv, Settled
  <2>2. Queue \in Seq(Nat) /\ Len(Queue) \in Nat /\ cursor - 1 \in Int
        /\ (cursor \in Cached <=> \E k \in 1 .. Len(Queue) : Queue[k] = cursor)
    BY <1>1, QueueHas
  <2>3. \A k \in 1 .. Len(Queue) : Queue[k] <= cursor - 1
    BY <2>1, <2>2, EndsHas
  <2>4. cursor \notin Cached
    BY <1>1, <2>2, <2>3
  <2>5. QED
    BY <1>0, <1>2, <2>1, <2>4
<1>6. QED
  BY <1>4, <1>5

(* The other steps leave the queue alone or empty it.                      *)
LEMMA OtherQueue ==
  ASSUME Inv, TraceInv, EdgeInv, RetainInv, RunInv,
         DoGenerate \/ DoPrefetchDone \/ DoRepeat \/ DoStopped \/ UNCHANGED vars
  PROVE  RetainInv' /\ RunInv'
<1>1. CASE DoGenerate
  <2>1. i' = 0 /\ ~have_edge' /\ misses' = 0 /\ pc' \notin {"prefetch"}
    BY <1>1 DEF DoGenerate, generate_offsets, GenerateFails, Generate, Shuffle, Generated, poolVars,
                traceVars, raVars, TraceInv
  <2>2. RetainInv'
    BY <2>1, Zenon DEF RetainInv
  <2>3. 0 <= 2 /\ 0 <= 0 /\ ~(0 > 0)
    OBVIOUS
  <2>4. RunInv'
    BY <2>1, <2>3, Zenon DEF RunInv
  <2>5. QED
    BY <2>2, <2>4
<1>2. CASE DoPrefetchDone
  <2>1. /\ UNCHANGED <<args, i, run, misses, have_edge, window, readahead_edge, fresh, block_num, cursor, left, Queue>>
        /\ pc = "prefetch" /\ pc' = "access" /\ left = 0
    BY <1>2 DEF DoPrefetchDone, PrefetchDone, poolVars, traceVars, raVars, loopVars, Queue
  <2>2. have_edge /\ cursor = readahead_edge /\ window - left = window
    BY <2>1, Numbers DEF EdgeInv
  <2>3. RetainInv'
    BY <2>1, <2>2 DEF RetainInv
  <2>4. RunInv'
    BY <2>1, <2>2 DEF RunInv, SingleRun, Settled
  <2>5. QED
    BY <2>3, <2>4
<1>3. CASE DoRepeat /\ r + 1 < args.repeats
  <2>1. i' = 0 /\ ~have_edge' /\ misses' = 0 /\ pc' \notin {"prefetch"}
    BY <1>3 DEF DoRepeat, RepeatDone, ResetPool, FirstPc
  <2>2. RetainInv'
    BY <2>1, Zenon DEF RetainInv
  <2>3. 0 <= 2 /\ 0 <= 0 /\ ~(0 > 0)
    OBVIOUS
  <2>4. RunInv'
    BY <2>1, <2>3, Zenon DEF RunInv
  <2>5. QED
    BY <2>2, <2>4
<1>4. CASE DoRepeat /\ ~(r + 1 < args.repeats)
  <2>1. UNCHANGED <<args, i, run, misses>> /\ pc' = "done"
    BY <1>4 DEF DoRepeat, RepeatDone, poolVars
  <2>2. QED
    BY <2>1 DEF RetainInv, RunInv, SingleRun, Settled
<1>5. CASE DoStopped \/ UNCHANGED vars
  <2>1. UNCHANGED <<args, pc, i, run, misses, have_edge, window, readahead_edge, fresh, block_num, have_last,
                    last_block, cursor, left, Queue>>
    BY <1>5 DEF DoStopped, Stopped, vars, driverVars, poolVars, traceVars, loopVars, raVars, Queue
  <2>2. QED
    BY <2>1 DEF RetainInv, RunInv, SingleRun, Settled, Sequential
<1>6. QED
  BY <1>1, <1>2, <1>3, <1>4, <1>5

-----------------------------------------------------------------------------
(* The invariant holds, and with it the properties of the policies.        *)

PolicyInv == Inv /\ TraceInv /\ EdgeInv /\ RetainInv /\ RunInv

(* Every step of the drivers, the policies and the pool keeps it.          *)
LEMMA PolicyInvHolds == Spec => []PolicyInv
<1>1. Init => PolicyInv
  <2> SUFFICES ASSUME Init PROVE PolicyInv
    OBVIOUS
  <2>1. /\ i = 0 /\ run = 0 /\ run_left = 0 /\ count = 0 /\ misses = 0 /\ window = args.window /\ args \in Programs
        /\ last_block = 0 /\ readahead_edge = 0 /\ ~have_last /\ ~have_edge
        /\ have_last \in BOOLEAN /\ have_edge \in BOOLEAN /\ fresh \in BOOLEAN
        /\ pc \in {"access", "generate"}
    BY DEF Init, DriverInit, readahead_init, buffer_pool_init, FirstPc
  <2>2. Inv
    <3>1. block_num = 0 /\ total_blocks \in Nat /\ args.window \in 0 .. args.max_window
      BY <2>1, Sizes DEF Init, DriverInit
    <3>2. RangeInv
      BY <2>1, <3>1 DEF RangeInv
    <3>3. PoolInv
      BY CapacityAssumption DEF Init, DriverInit, buffer_pool_init, PoolInv
    <3>4. QED
      BY <3>2, <3>3 DEF Inv
  <2>3. TraceInv
    BY <2>1 DEF TraceInv, Settled
  <2>4. EdgeInv
    BY <2>1, <2>2, Numbers DEF EdgeInv, Settled
  <2>5. RetainInv
    BY <2>1 DEF RetainInv
  <2>6. RunInv
    <3>1. 0 <= 2 /\ 0 <= 0 /\ ~(0 > 0) /\ pc # "prefetch"
      BY <2>1
    <3>2. QED
      BY <2>1, <3>1, Zenon DEF RunInv
  <2>7. QED
    BY <2>2, <2>3, <2>4, <2>5, <2>6 DEF PolicyInv
<1>2. PolicyInv /\ [Next]_vars => PolicyInv'
  <2> SUFFICES ASSUME PolicyInv, [Next]_vars PROVE PolicyInv'
    OBVIOUS
  <2>0. Inv /\ TraceInv /\ EdgeInv /\ RetainInv /\ RunInv
    BY DEF PolicyInv
  <2>1. CASE DoAccess
    <3>1. PICK b \in 0 .. total_blocks : (Access(b) \/ AccessFails(b)) /\ UNCHANGED <<raVars, fresh>>
      BY <2>1 DEF DoAccess
    <3>2. QED
      BY <2>0, <3>1, AccessStep, AccessFailsStep, AccessEdge, AccessQueue DEF PolicyInv
  <2>2. CASE DoPolicy
    BY <2>0, <2>2, PolicyStep, PolicyEdge, PolicyQueue DEF PolicyInv
  <2>3. CASE DoPrefetch
    BY <2>0, <2>3, PrefetchStep, OtherEdge, PrefetchQueue DEF PolicyInv
  <2>4. CASE DoRepeat
    BY <2>0, <2>4, RepeatStep, OtherEdge, OtherQueue DEF PolicyInv
  <2>5. CASE DoGenerate \/ DoPrefetchDone \/ DoStopped \/ UNCHANGED vars
    BY <2>0, <2>5, QuietStep, OtherEdge, OtherQueue DEF PolicyInv
  <2>6. QED
    BY <2>1, <2>2, <2>3, <2>4, <2>5 DEF Next
<1>3. QED
  BY <1>1, <1>2, PTL DEF Spec

(* What was prefetched is still cached when the reader comes for it, if    *)
(* the window fits into the pool and no block of the range was cached      *)
(* before (readahead.c:25-45, adaptive_readahead.c:22-43).                 *)
THEOREM WindowRetained == Spec => []FreshWindowRetained
<1>1. PolicyInv => FreshWindowRetained
  <2> SUFFICES ASSUME PolicyInv, have_edge, pc = "access", fresh, window <= Capacity,
                      NEW b \in last_block + 1 .. readahead_edge - 1
               PROVE  b \in Cached
    BY DEF FreshWindowRetained
  <2>0. Inv /\ TraceInv /\ EdgeInv /\ RetainInv
    BY DEF PolicyInv
  <2>1. last_block = block_num /\ readahead_edge \in Nat /\ block_num \in Nat /\ window \in Nat
    BY <2>0, Numbers DEF TraceInv, Settled
  <2>2. CASE window > 0
    BY <2>0, <2>1, <2>2, NextIsCached
  <2>3. CASE window = 0
    BY <2>0, <2>1, <2>3 DEF EdgeInv, Settled
  <2>4. QED
    BY <2>1, <2>2, <2>3
<1>2. QED
  BY <1>1, PolicyInvHolds, PTL

(* A trace that is one sequential run misses at most twice, however long   *)
(* it is, in every repeat, with a window that is not 0 and fits            *)
(* (main.c:157-177, readahead.c:20-45, adaptive_readahead.c:17-43).        *)
THEOREM TwoMisses == Spec => []SequentialMissesTwice
<1>1. PolicyInv => SequentialMissesTwice
  BY DEF PolicyInv, RunInv, SingleRun, SequentialMissesTwice
<1>2. QED
  BY <1>1, PolicyInvHolds, PTL

(* The window of a run that lasts grows to its maximum in fewer blocks     *)
(* than 2 + twice the maximum (adaptive_readahead.c:29-43).                *)
THEOREM WindowGrows == Spec => []LongRunReachesMax
<1>1. PolicyInv => LongRunReachesMax
  <2> SUFFICES ASSUME PolicyInv, pc = "access", args.window > 0, run > 2 + 2 * args.max_window,
                      window # args.max_window
               PROVE  FALSE
    BY DEF LongRunReachesMax
  <2>0. Inv /\ TraceInv /\ EdgeInv
    BY DEF PolicyInv
  <2>1. /\ args.window \in Nat /\ args.max_window \in Nat /\ window \in Nat /\ window < args.max_window
        /\ block_num \in Nat /\ run \in Nat /\ readahead_edge \in Nat /\ window > 0
    <3>1. /\ args.window \in Nat /\ args.max_window \in Nat /\ window \in Nat /\ window < args.max_window
          /\ block_num \in Nat
      BY <2>0, Numbers
    <3>2. run \in Nat /\ readahead_edge \in Nat /\ args.window <= window
      BY <2>0 DEF TraceInv, EdgeInv
    <3>3. QED
      BY <3>1, <3>2
  <2>2. run <= 1 \/ (block_num + 1 < readahead_edge
                     /\ run + readahead_edge + args.window <= block_num + 3 + 2 * window)
    BY <2>0, <2>1 DEF EdgeInv, Settled, Growing
  <2>3. QED
    BY <2>1, <2>2
<1>2. QED
  BY <1>1, PolicyInvHolds, PTL

-----------------------------------------------------------------------------
(* The array that is shuffled stays a permutation of the block numbers.    *)
Permutation(f, n) ==
  /\ f \in [Positions(n) -> Positions(n)]
  /\ \A a, b \in Positions(n) : f[a] = f[b] => a = b
  /\ \A c \in Positions(n) : \E a \in Positions(n) : f[a] = c

(* The offsets are those of different whole blocks, and the latest block   *)
(* is the one at the latest offset.                                        *)
OffsetsInv ==
  /\ offsets \in [Positions(num_blocks) -> Nat]
  /\ \A k \in Positions(num_blocks) : \E c \in Positions(total_blocks) :
       offsets[k] = c * args.block_size /\ (args.pattern = "sequential" => c = k)
  /\ \A k, m \in Positions(num_blocks) : offsets[k] = offsets[m] => k = m
  /\ i > 0 => /\ block_num \in Positions(total_blocks)
              /\ block_num * args.block_size = offsets[i - 1]
              /\ args.pattern = "sequential" => block_num = i - 1

GenInv ==
  /\ args \in Programs /\ i \in Nat
  /\ args.pattern # "bursts" =>
       /\ i <= num_blocks
       /\ pc \in {"generate", "shuffle"} => i = 0
       /\ pc = "shuffle" => swapped \in Nat /\ Permutation(candidates, total_blocks)
       /\ pc \in {"access", "policy", "prefetch"} \/ i > 0 => OffsetsInv

(* The sizes of a program that was accepted; main.c reads the whole file.  *)
LEMMA TraceSizes ==
  ASSUME args \in Programs
  PROVE  /\ args.file_size \in Nat /\ args.block_size \in Nat \ {0} /\ num_blocks \in Nat /\ total_blocks \in Nat
         /\ args.pattern # "bursts" => num_blocks = total_blocks
<1>1. Accepted(args)
  BY ProgramsAssumption
<1>2. QED
  BY <1>1 DEF Accepted, num_blocks, total_blocks

(* Blocks of s bytes: different blocks have different offsets, an offset   *)
(* has one block, and the whole blocks of a file end inside it.            *)
LEMMA BlockOffsets ==
  ASSUME NEW s \in Nat \ {0}
  PROVE  /\ \A c, d \in Nat : c * s \in Nat /\ (c < d => c * s + s <= d * s)
         /\ \A c, d \in Nat : c * s = d * s => c = d
         /\ \A c \in Nat : (c * s) \div s = c
         /\ \A n \in Nat : (n \div s) * s <= n
<1>1. ASSUME NEW c \in Nat, NEW d \in Nat, c < d
      PROVE  c * s + s <= d * s
  <2>1. PICK k \in Nat : d = c + 1 + k
    <3>1. d - c - 1 \in Nat /\ d = c + 1 + (d - c - 1)
      BY <1>1
    <3>2. QED
      BY <3>1
  <2>2. d * s = c * s + s + k * s /\ k * s \in Nat /\ c * s \in Nat
    BY <2>1
  <2>3. QED
    BY <2>2
<1>2. ASSUME NEW c \in Nat, NEW d \in Nat, c * s = d * s
      PROVE  c = d
  <2>1. c * s \in Nat /\ ~(c * s + s <= c * s)
    OBVIOUS
  <2>2. ~(c < d) /\ ~(d < c)
    BY <1>1, <1>2, <2>1
  <2>3. QED
    BY <2>2
<1>3. \A c \in Nat : c * s \in Nat /\ (c * s) \div s = c
  OBVIOUS
<1>4. \A n \in Nat : (n \div s) * s <= n
  OBVIOUS
<1>5. QED
  BY <1>1, <1>2, <1>3, <1>4

(* One swap of partial_shuffle keeps a permutation one.                    *)
LEMMA SwapPermutes ==
  ASSUME NEW n \in Nat, NEW f, Permutation(f, n), NEW a \in Positions(n), NEW b \in Positions(n)
  PROVE  Permutation(Swap(f, a, b), n)
<1> DEFINE g == Swap(f, a, b)
<1>1. /\ f \in [Positions(n) -> Positions(n)]
      /\ \A x, y \in Positions(n) : f[x] = f[y] => x = y
      /\ \A c \in Positions(n) : \E x \in Positions(n) : f[x] = c
  BY DEF Permutation
<1>2. /\ g \in [Positions(n) -> Positions(n)]
      /\ \A x \in Positions(n) : g[x] = IF x = b THEN f[a] ELSE IF x = a THEN f[b] ELSE f[x]
  BY <1>1 DEF Swap
<1> HIDE DEF g
<1>3. \A x, y \in Positions(n) : g[x] = g[y] => x = y
  BY <1>1, <1>2, Zenon
<1>4. ASSUME NEW c \in Positions(n)
      PROVE  \E y \in Positions(n) : g[y] = c
  <2>1. PICK x \in Positions(n) : f[x] = c
    BY <1>1
  <2>2. g[b] = f[a] /\ (a # b => g[a] = f[b]) /\ (x # a /\ x # b => g[x] = c)
    BY <1>2, <2>1
  <2>3. QED
    BY <2>1, <2>2
<1>5. Permutation(g, n)
  BY <1>2, <1>3, <1>4 DEF Permutation
<1>6. QED
  BY <1>5 DEF g

(* In a permutation of 0 .. n - 1 an element is its own rank.              *)
LEMMA RankIsElement ==
  ASSUME NEW n \in Nat, NEW f, Permutation(f, n), NEW m \in Positions(n)
  PROVE  Cardinality({p \in Positions(n) : f[p] < f[m]}) = f[m]
<1>1. /\ f \in [Positions(n) -> Positions(n)]
      /\ \A x, y \in Positions(n) : f[x] = f[y] => x = y
      /\ \A c \in Positions(n) : \E x \in Positions(n) : f[x] = c
  BY DEF Permutation
<1>n. \A x \in Positions(n) : f[x] \in Nat /\ f[x] < n
  BY <1>1 DEF Positions
<1> DEFINE S == {p \in Positions(n) : f[p] < f[m]}
           T == 0 .. f[m] - 1
           g == [p \in S |-> f[p]]
<1>2. g \in [S -> T]
  BY <1>n
<1>3. ASSUME NEW c \in T
      PROVE  \E p \in S : g[p] = c
  <2>1. c \in Positions(n) /\ c < f[m]
    BY <1>n DEF Positions
  <2>2. PICK x \in Positions(n) : f[x] = c
    BY <1>1, <2>1
  <2>3. x \in S /\ g[x] = c
    BY <2>1, <2>2
  <2>4. QED
    BY <2>3
<1>4. \A x, y \in S : g[x] = g[y] => x = y
  BY <1>1
<1>5. g \in Bijection(S, T)
  BY <1>2, <1>3, <1>4 DEF Bijection, Injection, Surjection, IsInjective
<1>6. IsFiniteSet(S)
  <2>1. IsFiniteSet(Positions(n))
    BY FS_Interval DEF Positions
  <2>2. QED
    BY <2>1, FS_Subset
<1>7. Cardinality(T) = Cardinality(S)
  BY <1>5, <1>6, FS_Bijection DEF ExistsBijection
<1>8. Cardinality(T) = f[m]
  <2> DEFINE t == f[m] - 1
  <2>1. t \in Int /\ 0 \in Int /\ f[m] = t + 1 /\ t >= 0 - 1
    BY <1>n
  <2> HIDE DEF t
  <2>2. Cardinality(0 .. t) = IF 0 > t THEN 0 ELSE t - 0 + 1
    BY <2>1, FS_Interval
  <2>3. QED
    BY <2>1, <2>2 DEF t
<1>9. QED
  BY <1>7, <1>8

(* The offsets that generate_offsets returns.                              *)
LEMMA OffsetsGenerated ==
  ASSUME args \in Programs, args.pattern # "bursts", Permutation(candidates, total_blocks), i = 0,
         offsets' = [k \in Positions(num_blocks) |-> Picked(k) * args.block_size], UNCHANGED <<args, i>>
  PROVE  OffsetsInv'
<1>1. /\ args.block_size \in Nat \ {0} /\ total_blocks \in Nat /\ num_blocks = total_blocks
  BY TraceSizes
<1> DEFINE n == total_blocks
           s == args.block_size
<1>2. /\ candidates \in [Positions(n) -> Positions(n)]
      /\ \A x, y \in Positions(n) : candidates[x] = candidates[y] => x = y
      /\ \A c \in Positions(n) : \E x \in Positions(n) : candidates[x] = c
  BY DEF Permutation
<1>3. ASSUME NEW k \in Positions(n), args.pattern = "sequential"
      PROVE  Picked(k) = k
  <2>1. PICK x \in Positions(n) : candidates[x] = k
    BY <1>2
  <2>2. \A m \in Positions(n) : Rank(m) = candidates[m]
    BY <1>1, RankIsElement DEF Rank
  <2>3. \E m \in Positions(num_blocks) : Rank(m) = k
    BY <1>1, <2>1, <2>2
  <2> DEFINE c == CHOOSE m \in Positions(num_blocks) : Rank(m) = k
  <2>4. c \in Positions(n) /\ Rank(c) = k
    BY <1>1, <2>3
  <2>5. Picked(k) = candidates[c]
    BY <1>3 DEF Picked
  <2> HIDE DEF c
  <2>6. QED
    BY <2>2, <2>4, <2>5
<1>4. ASSUME NEW k \in Positions(n), args.pattern # "sequential"
      PROVE  Picked(k) = candidates[k]
  BY <1>4 DEF Picked
<1>5. /\ \A k \in Positions(n) : Picked(k) \in Positions(n)
      /\ \A k, m \in Positions(n) : Picked(k) = Picked(m) => k = m
  <2>1. CASE args.pattern = "sequential"
    BY <1>3, <2>1
  <2>2. CASE args.pattern # "sequential"
    BY <1>2, <1>4, <2>2
  <2>3. QED
    BY <2>1, <2>2
<1>6. /\ args' = args /\ i' = 0 /\ num_blocks' = n /\ total_blocks' = n
      /\ offsets' = [k \in Positions(n) |-> Picked(k) * s]
  BY <1>1 DEF num_blocks, total_blocks
<1>7. \A c \in Positions(n) : c \in Nat
  BY <1>1 DEF Positions
<1> HIDE DEF n, s
<1>8. /\ \A c \in Nat : c * s \in Nat
      /\ \A c, d \in Nat : c * s = d * s => c = d
  BY <1>1, BlockOffsets DEF s
<1>9. offsets' \in [Positions(n) -> Nat]
  BY <1>5, <1>6, <1>7, <1>8
<1>10. ASSUME NEW k \in Positions(n)
       PROVE  \E c \in Positions(n) : offsets'[k] = c * s /\ (args.pattern = "sequential" => c = k)
  <2>1. offsets'[k] = Picked(k) * s /\ Picked(k) \in Positions(n) /\ (args.pattern = "sequential" => Picked(k) = k)
    BY <1>3, <1>5, <1>6
  <2>2. QED
    BY <2>1
<1>11. ASSUME NEW k \in Positions(n), NEW m \in Positions(n), offsets'[k] = offsets'[m]
       PROVE  k = m
  <2>1. Picked(k) * s = Picked(m) * s /\ Picked(k) \in Nat /\ Picked(m) \in Nat
    BY <1>5, <1>6, <1>7, <1>11
  <2>2. QED
    BY <1>5, <1>8, <2>1
<1>12. QED
  <2>1. ~(i' > 0)
    BY <1>6
  <2>2. QED
    BY <1>6, <1>9, <1>10, <1>11, <2>1 DEF OffsetsInv, s

(* The trace is generated.                                                 *)
LEMMA GenerateTrace ==
  ASSUME GenInv, DoGenerate
  PROVE  GenInv'
<1>0. args \in Programs /\ UNCHANGED <<args, i>> /\ i \in Nat /\ total_blocks' = total_blocks
      /\ num_blocks' = num_blocks /\ pc \in {"generate", "shuffle"}
  BY DEF GenInv, DoGenerate, generate_offsets, GenerateFails, Generate, Shuffle, Generated,
         traceVars, total_blocks, num_blocks
<1> SUFFICES ASSUME args.pattern # "bursts"
             PROVE  GenInv'
  BY <1>0 DEF GenInv
<1>1. i = 0 /\ i <= num_blocks /\ total_blocks \in Nat /\ ~(i > 0) /\ num_blocks = total_blocks
  BY <1>0, TraceSizes DEF GenInv
<1>2. CASE GenerateFails
  BY <1>0, <1>1, <1>2 DEF GenInv, GenerateFails
<1>3. CASE Generate
  <2>1. candidates' = [k \in Positions(total_blocks) |-> k] /\ swapped' = 0 /\ pc' = "shuffle"
    BY <1>3 DEF Generate
  <2>2. Permutation(candidates', total_blocks)
    BY <2>1 DEF Permutation
  <2>3. QED
    BY <1>0, <1>1, <2>1, <2>2 DEF GenInv
<1>4. CASE Shuffle
  <2>1. PICK j \in swapped .. total_blocks - 1 : candidates' = Swap(candidates, swapped, j)
    BY <1>4 DEF Shuffle
  <2>2. swapped \in Nat /\ swapped < total_blocks /\ swapped' = swapped + 1 /\ pc' = pc /\ pc = "shuffle"
        /\ Permutation(candidates, total_blocks)
    BY <1>1, <1>4 DEF Shuffle, GenInv
  <2>3. swapped \in Positions(total_blocks) /\ j \in Positions(total_blocks)
    BY <1>1, <2>2 DEF Positions
  <2>4. Permutation(candidates', total_blocks)
    BY <1>1, <2>1, <2>2, <2>3, SwapPermutes
  <2>5. QED
    BY <1>0, <1>1, <2>2, <2>4 DEF GenInv
<1>5. CASE Generated
  <2>1. /\ pc = "shuffle" /\ pc' = "access"
        /\ offsets' = [k \in Positions(num_blocks) |-> Picked(k) * args.block_size]
    BY <1>5 DEF Generated
  <2>2. OffsetsInv'
    BY <1>0, <1>1, <2>1, OffsetsGenerated DEF GenInv
  <2>3. QED
    BY <1>0, <1>1, <2>1, <2>2 DEF GenInv
<1>6. QED
  BY <1>2, <1>3, <1>4, <1>5 DEF DoGenerate, generate_offsets

(* The next offset is read.                                                *)
LEMMA AccessTrace ==
  ASSUME GenInv, NEW b \in 0 .. total_blocks, Access(b) \/ AccessFails(b)
  PROVE  GenInv'
<1>0. /\ args \in Programs /\ UNCHANGED <<args, offsets>> /\ i' = i + 1 /\ i \in Nat /\ block_num' = b
      /\ pc = "access" /\ pc' \in {"policy", "failed"} /\ NextBlock(b) /\ i < num_blocks
      /\ total_blocks' = total_blocks /\ num_blocks' = num_blocks
  BY DEF GenInv, Access, AccessFails, genVars, num_blocks, total_blocks
<1> SUFFICES ASSUME args.pattern # "bursts"
             PROVE  GenInv'
  BY <1>0 DEF GenInv
<1>1. args.block_size \in Nat \ {0} /\ num_blocks \in Nat
  BY <1>0, TraceSizes
<1>2. OffsetsInv /\ b = offsets[i] \div args.block_size
  BY <1>0 DEF GenInv, NextBlock, OffsetBlock, RunBlock, RunStart
<1>3. i \in Positions(num_blocks) /\ i' - 1 = i /\ i' <= num_blocks
  BY <1>0, <1>1 DEF Positions
<1>4. PICK c \in Positions(total_blocks) :
             offsets[i] = c * args.block_size /\ (args.pattern = "sequential" => c = i)
  BY <1>2, <1>3 DEF OffsetsInv
<1>5. c \in Nat /\ (c * args.block_size) \div args.block_size = c
  <2>1. total_blocks \in Nat
    BY <1>0, TraceSizes
  <2>2. c \in Nat
    BY <2>1 DEF Positions
  <2>3. QED
    BY <1>1, <2>2, BlockOffsets
<1>6. b = c
  BY <1>2, <1>4, <1>5
<1>7. OffsetsInv'
  BY <1>0, <1>2, <1>3, <1>4, <1>6 DEF OffsetsInv
<1>8. QED
  BY <1>0, <1>3, <1>7 DEF GenInv

(* What main.c reads in a repeat is every whole block of the file, each    *)
(* once, and in order for the sequential pattern (workload_gen.c:57-67,    *)
(* main.c:157-163).                                                        *)
THEOREM TraceCorrect == Spec => []TraceValid
<1>1. Init => GenInv
  <2> SUFFICES ASSUME Init PROVE GenInv
    OBVIOUS
  <2>1. args \in Programs /\ i = 0 /\ pc = FirstPc
    BY DEF Init, DriverInit
  <2>2. 0 <= num_blocks
    BY <2>1, TraceSizes
  <2>3. QED
    BY <2>1, <2>2 DEF GenInv, FirstPc
<1>2. GenInv /\ [Next]_vars => GenInv'
  <2> SUFFICES ASSUME GenInv, [Next]_vars PROVE GenInv'
    OBVIOUS
  <2>1. CASE DoAccess
    BY <2>1, AccessTrace DEF DoAccess
  <2>2. CASE DoGenerate
    BY <2>2, GenerateTrace
  <2>3. CASE DoPolicy \/ DoPrefetch \/ DoPrefetchDone
    <3>1. /\ UNCHANGED <<args, i, offsets, block_num>>
          /\ pc \in {"policy", "prefetch"} /\ pc' \in {"access", "prefetch"}
      BY <2>3 DEF DoPolicy, readahead_on_access, StartWindow, NextWindow, Consume, Break, PrefetchRange,
           adaptive_readahead_on_access, AdaptiveStart, AdaptiveNext, AdaptiveConsume, AdaptiveBreak,
           DoPrefetch, Prefetch, DoPrefetchDone, PrefetchDone, genVars, traceVars
    <3>2. QED
      BY <3>1 DEF GenInv, OffsetsInv, num_blocks, total_blocks
  <2>4. CASE DoRepeat
    <3>1. UNCHANGED <<args, offsets>> /\ pc = "access" /\ args \in Programs
      BY <2>4 DEF DoRepeat, RepeatDone, genVars, GenInv
    <3>2. CASE r + 1 < args.repeats
      <4>1. i' = 0 /\ pc' = FirstPc /\ 0 <= num_blocks'
        BY <2>4, <3>1, <3>2, TraceSizes DEF DoRepeat, RepeatDone, num_blocks
      <4>2. QED
        BY <3>1, <4>1 DEF GenInv, FirstPc
    <3>3. CASE ~(r + 1 < args.repeats)
      <4>1. pc' = "done" /\ UNCHANGED <<i, block_num>>
        BY <2>4, <3>3 DEF DoRepeat, RepeatDone
      <4>2. QED
        BY <3>1, <4>1 DEF GenInv, OffsetsInv, num_blocks, total_blocks
    <3>4. QED
      BY <3>2, <3>3
  <2>5. CASE DoStopped \/ UNCHANGED vars
    <3>1. UNCHANGED <<args, pc, i, offsets, block_num, candidates, swapped>>
      BY <2>5 DEF DoStopped, Stopped, vars, driverVars, genVars, traceVars
    <3>2. QED
      BY <3>1 DEF GenInv, OffsetsInv, num_blocks, total_blocks
  <2>6. QED
    BY <2>1, <2>2, <2>3, <2>4, <2>5 DEF Next
<1>3. GenInv => TraceValid
  <2> SUFFICES ASSUME GenInv, args.pattern # "bursts", i > 0
               PROVE  /\ block_num * args.block_size = offsets[i - 1]
                      /\ block_num * args.block_size + args.block_size <= args.file_size
                      /\ \A k, m \in Positions(num_blocks) : offsets[k] = offsets[m] => k = m
                      /\ args.pattern = "sequential" => block_num = i - 1
    BY DEF TraceValid
  <2>1. OffsetsInv
    BY DEF GenInv
  <2>2. /\ args.file_size \in Nat /\ args.block_size \in Nat \ {0} /\ total_blocks \in Nat
        /\ total_blocks = args.file_size \div args.block_size
    BY TraceSizes DEF GenInv, total_blocks
  <2>3. block_num \in Nat /\ block_num < total_blocks
    BY <2>1, <2>2 DEF OffsetsInv, Positions
  <2>4. block_num * args.block_size + args.block_size <= total_blocks * args.block_size
        /\ total_blocks * args.block_size <= args.file_size
    BY <2>2, <2>3, BlockOffsets
  <2>5. block_num * args.block_size \in Nat /\ total_blocks * args.block_size \in Nat
    BY <2>2, <2>3, BlockOffsets
  <2>6. block_num * args.block_size + args.block_size <= args.file_size
    <3> DEFINE x == block_num * args.block_size
               y == total_blocks * args.block_size
    <3>1. x \in Nat /\ y \in Nat /\ x + args.block_size <= y /\ y <= args.file_size
      BY <2>4, <2>5
    <3> HIDE DEF x, y
    <3>2. x + args.block_size <= args.file_size
      BY <2>2, <3>1
    <3>3. QED
      BY <3>2 DEF x
  <2>7. QED
    BY <2>1, <2>6 DEF OffsetsInv
<1>4. QED
  BY <1>1, <1>2, <1>3, PTL DEF Spec
=============================================================================
