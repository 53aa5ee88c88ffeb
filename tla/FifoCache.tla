------------------------------ MODULE FifoCache ------------------------------
(***************************************************************************)
(* What prefetch-sim/src/buffer_pool.c promises: a queue of distinct block *)
(* numbers.  A new block goes to the end; when the queue is full the block *)
(* at its front, the one inserted first, leaves.  A block that is inserted *)
(* again keeps its place.                                                  *)
(***************************************************************************)
EXTENDS Naturals, Sequences

CONSTANTS Capacity, Blocks

VARIABLES q, hits, misses

Contents == {q[k] : k \in 1 .. Len(q)}
Enqueue(b) == Append(IF Len(q) < Capacity THEN q ELSE Tail(q), b)

Init == q = <<>> /\ hits = 0 /\ misses = 0

Hit(b) ==
  /\ b \in Contents
  /\ hits' = hits + 1
  /\ UNCHANGED <<q, misses>>

(* A miss, followed by the insertion unless the read of the block failed.  *)
Miss(b) ==
  /\ b \notin Contents
  /\ misses' = misses + 1
  /\ q' \in {q, Enqueue(b)}
  /\ UNCHANGED hits

Insert(b) ==
  /\ b \notin Contents
  /\ q' = Enqueue(b)
  /\ UNCHANGED <<hits, misses>>

Reset == q' = <<>> /\ hits' = 0 /\ misses' = 0

Next == (\E b \in Blocks : Hit(b) \/ Miss(b) \/ Insert(b)) \/ Reset

Spec == Init /\ [][Next]_<<q, hits, misses>>
=============================================================================
