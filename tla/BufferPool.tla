----------------------------- MODULE BufferPool -----------------------------
(***************************************************************************)
(* The FIFO block cache of prefetch-sim/src/buffer_pool.c: an array of     *)
(* block numbers filled from the left and, once full, overwritten at a     *)
(* rotating position.  Only the first count entries of the array are       *)
(* initialised, and slots is a function on those.                          *)
(***************************************************************************)
EXTENDS Naturals

CONSTANT Capacity            \* pool->capacity

ASSUME CapacityAssumption == Capacity \in Nat \ {0}

VARIABLES slots, count, evict_pos, hits, misses

arrayVars == <<slots, count, evict_pos>>
statVars == <<hits, misses>>
poolVars == <<slots, count, evict_pos, hits, misses>>

Cached == {slots[i] : i \in 0 .. count - 1}

buffer_pool_init ==
  /\ slots = [i \in {} |-> 0]
  /\ count = 0
  /\ evict_pos = 0
  /\ hits = 0
  /\ misses = 0

buffer_pool_lookup(b) ==
  /\ IF b \in Cached THEN hits' = hits + 1 /\ UNCHANGED misses
                     ELSE misses' = misses + 1 /\ UNCHANGED hits
  /\ UNCHANGED arrayVars

-----------------------------------------------------------------------------
(* buffer_pool_insert: one action for each of its three cases.             *)

InsertPresent(b) ==
  /\ b \in Cached
  /\ UNCHANGED arrayVars

InsertFree(b) ==
  /\ b \notin Cached /\ count < Capacity
  /\ slots' = [i \in 0 .. count |-> IF i = count THEN b ELSE slots[i]]
  /\ count' = count + 1
  /\ UNCHANGED evict_pos

InsertEvict(b) ==
  /\ b \notin Cached /\ count >= Capacity
  /\ slots' = [slots EXCEPT ![evict_pos] = b]
  /\ evict_pos' = (evict_pos + 1) % Capacity
  /\ UNCHANGED count

(* Mutant of buffer_pool_insert: the position moves before it is used.     *)
InsertNext(b) ==
  \/ InsertPresent(b)
  \/ InsertFree(b)
  \/ /\ b \notin Cached /\ count >= Capacity
     /\ evict_pos' = (evict_pos + 1) % Capacity
     /\ slots' = [slots EXCEPT ![evict_pos'] = b]
     /\ UNCHANGED count

buffer_pool_insert(b) == InsertPresent(b) \/ InsertFree(b) \/ InsertEvict(b)
=============================================================================
