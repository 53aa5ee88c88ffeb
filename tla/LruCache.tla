------------------------------ MODULE LruCache ------------------------------
(***************************************************************************)
(* What prefetch-sim/src/lru_buffer_pool.c promises: a list of distinct    *)
(* blocks in the order of their latest use.  A use moves a block to the    *)
(* end; a new block goes to the end and, if the list is full, pushes out   *)
(* the block at the front, the one least recently used.                    *)
(***************************************************************************)
EXTENDS Naturals, Sequences

CONSTANTS Capacity, Blocks

VARIABLES q, hits, misses

Contents == {q[k] : k \in 1 .. Len(q)}

(* The list after a use of b.                                              *)
Used(b) ==
  IF b \in Contents THEN Append(SelectSeq(q, LAMBDA c : c # b), b)
  ELSE Append(IF Len(q) < Capacity THEN q ELSE Tail(q), b)

Init == q = <<>> /\ hits = 0 /\ misses = 0

Hit(b) ==
  /\ b \in Contents
  /\ q' = Used(b)
  /\ hits' = hits + 1
  /\ UNCHANGED misses

(* A miss, followed by the insertion unless the read of the block failed.  *)
Miss(b) ==
  /\ b \notin Contents
  /\ misses' = misses + 1
  /\ q' \in {q, Used(b)}
  /\ UNCHANGED hits

Insert(b) == q' = Used(b) /\ UNCHANGED <<hits, misses>>

Reset == q' = <<>> /\ hits' = 0 /\ misses' = 0

Next == (\E b \in Blocks : Hit(b) \/ Miss(b) \/ Insert(b)) \/ Reset

Spec == Init /\ [][Next]_<<q, hits, misses>>
=============================================================================
