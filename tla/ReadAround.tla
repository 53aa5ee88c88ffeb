----------------------------- MODULE ReadAround -----------------------------
(***************************************************************************)
(* The read-around of prefetch-sim/src/read_around.c over the LRU pool,    *)
(* driven by the measuring loop of benchmarks/read_around_bench.c on its   *)
(* bounded random walk.                                                    *)
(***************************************************************************)
EXTENDS LruBufferPool, FiniteSets

CONSTANTS
  TotalBlocks,  \* file_size / block_size
  RegionWidth,  \* width of the region the walk stays in
  NumAccesses,
  Repeats,
  Jitters,      \* bounds on a step of the walk the program is started with
  Radii         \* radii the program is started with

ASSUME ReadAroundAssumption ==
  /\ TotalBlocks \in Nat /\ RegionWidth \in 1 .. TotalBlocks
  /\ NumAccesses \in Nat /\ Repeats \in Nat \ {0}
  /\ Jitters \subseteq Nat /\ Radii \subseteq Nat

VARIABLES
  pc,           \* "access", "policy", "prefetch", "done" or "failed"
  r, i,         \* finished repeats, accesses of this repeat
  jitter, radius,
  region_start,
  pos,          \* the block to access next; after an access, the block accessed
  cursor, left  \* lru_buffer_pool_prefetch_range: next block, blocks to go

argVars == <<jitter, radius>>
loopVars == <<cursor, left>>
vars == <<poolVars, pc, r, i, argVars, region_start, pos, loopVars>>

Region(start) == start .. start + RegionWidth - 1

Init ==
  /\ lru_buffer_pool_init
  /\ pc = "access" /\ r = 0 /\ i = 0
  /\ jitter \in Jitters /\ radius \in Radii
  /\ region_start \in 0 .. TotalBlocks - RegionWidth
  /\ pos \in Region(region_start)
  /\ cursor = 0 /\ left = 0

-----------------------------------------------------------------------------
(* A step of generate_locality_walk: at most jitter away from p, moved     *)
(* back to the border of the region if it would leave it.                  *)
Clamp(p) ==
  IF p < region_start THEN region_start
  ELSE IF p > region_start + RegionWidth - 1 THEN region_start + RegionWidth - 1
  ELSE p

WalkTo(p) ==
  {Clamp(p + d) : d \in 0 .. jitter} \union
  {IF d > p THEN region_start ELSE Clamp(p - d) : d \in 0 .. jitter}

Blocks == IF i = 0 THEN {pos} ELSE WalkTo(pos)

(* Lookup and, on a miss, pread and insertion.                             *)
Access(b) ==
  /\ pc = "access" /\ i < NumAccesses
  /\ b \in Blocks
  /\ IF b \in Cached THEN hits' = hits + 1 /\ Touch(b) /\ UNCHANGED misses
                     ELSE misses' = misses + 1 /\ lru_buffer_pool_insert(b) /\ UNCHANGED hits
  /\ pos' = b /\ i' = i + 1
  /\ pc' = "policy"
  /\ UNCHANGED <<r, argVars, region_start, loopVars>>

AccessFails(b) ==
  /\ pc = "access" /\ i < NumAccesses
  /\ b \in Blocks /\ b \notin Cached
  /\ misses' = misses + 1
  /\ pos' = b /\ i' = i + 1
  /\ pc' = "failed"
  /\ UNCHANGED <<hits, arrayVars, r, argVars, region_start, loopVars>>

-----------------------------------------------------------------------------
(* read_around_on_access *)

Start(b) == IF b > radius THEN b - radius ELSE 0

End(b) ==
  IF TotalBlocks > 0 /\ b + radius > TotalBlocks - 1 THEN TotalBlocks - 1 ELSE b + radius

Neighbourhood(b) == Start(b) .. End(b)

(* Mutant of read_around_on_access: the + 1 of the count is forgotten.     *)
OnAccessShort ==
  /\ pc = "policy"
  /\ cursor' = Start(pos)
  /\ left' = End(pos) - Start(pos)
  /\ pc' = "prefetch"
  /\ UNCHANGED <<poolVars, r, i, argVars, region_start, pos>>

read_around_on_access ==
  /\ pc = "policy"
  /\ cursor' = Start(pos)
  /\ left' = End(pos) - Start(pos) + 1
  /\ pc' = "prefetch"
  /\ UNCHANGED <<poolVars, r, i, argVars, region_start, pos>>

(* lru_buffer_pool_prefetch_range, one block per step.                     *)
Prefetch ==
  /\ pc = "prefetch" /\ left > 0
  /\ lru_buffer_pool_insert(cursor)
  /\ cursor' = cursor + 1 /\ left' = left - 1
  /\ UNCHANGED <<statVars, pc, r, i, argVars, region_start, pos>>

PrefetchDone ==
  /\ pc = "prefetch" /\ left = 0
  /\ pc' = "access"
  /\ UNCHANGED <<poolVars, r, i, argVars, region_start, pos, loopVars>>

(* The next repeat draws a new region and starts with a fresh pool.        *)
RepeatDone ==
  /\ pc = "access" /\ i = NumAccesses
  /\ r' = r + 1
  /\ IF r + 1 < Repeats
     THEN /\ slots' = [k \in {} |-> 0] /\ last_used' = [k \in {} |-> 0]
          /\ count' = 0 /\ clock' = 0 /\ hits' = 0 /\ misses' = 0
          /\ i' = 0
          /\ region_start' \in 0 .. TotalBlocks - RegionWidth
          /\ pos' \in Region(region_start')
          /\ UNCHANGED pc
     ELSE /\ pc' = "done"
          /\ UNCHANGED <<poolVars, i, region_start, pos>>
  /\ UNCHANGED <<argVars, loopVars>>

Stopped == pc \in {"done", "failed"} /\ UNCHANGED vars

Next ==
  \/ \E b \in 0 .. TotalBlocks - 1 : Access(b) \/ AccessFails(b)
  \/ read_around_on_access
  \/ Prefetch
  \/ PrefetchDone
  \/ RepeatDone
  \/ Stopped

Spec == Init /\ [][Next]_vars

-----------------------------------------------------------------------------
(* Properties *)

(* The slots of lru_buffer_pool.c in the order of last_used are a list     *)
(* with least-recently-used replacement, where a hit, a first insertion    *)
(* and a repeated insertion all count as a use.                            *)
ByRecency ==
  [k \in 1 .. count |->
     slots[CHOOSE s \in Indices :
             Cardinality({j \in Indices : last_used[j] < last_used[s]}) = k - 1]]
Lru == INSTANCE LruCache WITH q <- ByRecency, Blocks <- 0 .. TotalBlocks
ImplementsLru == Lru!Spec

(* After an access everything within the radius is cached, if the pool     *)
(* can hold it: the blocks of the range do not push each other out, nor    *)
(* the block accessed, whatever was in the pool before.                    *)
NeighbourhoodCached ==
  pc = "access" /\ i > 0 /\ 2 * radius + 1 <= Capacity => Neighbourhood(pos) \subseteq Cached
=============================================================================
