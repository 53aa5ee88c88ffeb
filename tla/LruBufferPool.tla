---------------------------- MODULE LruBufferPool ----------------------------
(***************************************************************************)
(* The LRU block cache of prefetch-sim/src/lru_buffer_pool.c: beside each  *)
(* slot the value of a logical clock at its latest use.  Only the first    *)
(* count entries of the arrays are initialised; slots and last_used are    *)
(* functions on those.                                                     *)
(***************************************************************************)
EXTENDS Naturals

CONSTANT Capacity

ASSUME CapacityAssumption == Capacity \in Nat \ {0}

VARIABLES slots, last_used, count, clock, hits, misses

arrayVars == <<slots, last_used, count, clock>>
statVars == <<hits, misses>>
poolVars == <<slots, last_used, count, clock, hits, misses>>

Indices == 0 .. count - 1
Cached == {slots[i] : i \in Indices}
SlotOf(b) == CHOOSE i \in Indices : slots[i] = b

lru_buffer_pool_init ==
  /\ slots = [i \in {} |-> 0] /\ last_used = [i \in {} |-> 0]
  /\ count = 0 /\ clock = 0
  /\ hits = 0 /\ misses = 0

(* A block that is present is used: its recency is renewed.                *)
Touch(b) ==
  /\ clock' = clock + 1
  /\ last_used' = [last_used EXCEPT ![SlotOf(b)] = clock + 1]
  /\ UNCHANGED <<slots, count>>

lru_buffer_pool_lookup(b) ==
  IF b \in Cached THEN hits' = hits + 1 /\ Touch(b) /\ UNCHANGED misses
                  ELSE misses' = misses + 1 /\ UNCHANGED <<hits, arrayVars>>

-----------------------------------------------------------------------------
(* lru_buffer_pool_insert: one action for each of its three cases.         *)

InsertPresent(b) ==
  /\ b \in Cached
  /\ Touch(b)

InsertFree(b) ==
  /\ b \notin Cached /\ count < Capacity
  /\ clock' = clock + 1
  /\ slots' = [i \in 0 .. count |-> IF i = count THEN b ELSE slots[i]]
  /\ last_used' = [i \in 0 .. count |-> IF i = count THEN clock + 1 ELSE last_used[i]]
  /\ count' = count + 1

(* Mutant of Victim: the search keeps the largest instead of the smallest. *)
VictimNewest ==
  CHOOSE v \in Indices : \A i \in Indices : last_used[i] <= last_used[v]

(* The first slot with the smallest last_used.                             *)
Victim ==
  CHOOSE v \in Indices :
    \A i \in Indices : /\ last_used[v] <= last_used[i]
                       /\ last_used[v] = last_used[i] => v <= i

InsertEvict(b) ==
  /\ b \notin Cached /\ count >= Capacity
  /\ clock' = clock + 1
  /\ slots' = [slots EXCEPT ![Victim] = b]
  /\ last_used' = [last_used EXCEPT ![Victim] = clock + 1]
  /\ UNCHANGED count

lru_buffer_pool_insert(b) == InsertPresent(b) \/ InsertFree(b) \/ InsertEvict(b)
=============================================================================
