----------------------------- MODULE WorkloadGen -----------------------------
(***************************************************************************)
(* generate_offsets of prefetch-sim/src/workload_gen.c, which main.c calls *)
(* before each repeat: a partial Fisher-Yates shuffle of all block numbers, *)
(* one swap per step, of which the first num_blocks become byte offsets,   *)
(* sorted for the sequential pattern.                                      *)
(***************************************************************************)
EXTENDS Naturals, FiniteSets

VARIABLES
  args,         \* the program running: its arguments (see PrefetchDriver)
  pc,           \* where it is: here "generate" or "shuffle"
  candidates,   \* the malloc'ed array of block numbers
  swapped,      \* loop variable of partial_shuffle
  offsets       \* the result

genVars == <<candidates, swapped, offsets>>

(* Mutant of total_blocks: a partial block at the end of the file counts.  *)
total_blocks_up == (args.file_size + args.block_size - 1) \div args.block_size

total_blocks == args.file_size \div args.block_size
num_blocks == args.num_accesses
Positions(n) == 0 .. n - 1
NoArray == [k \in {} |-> 0]

GenerateInit == candidates = NoArray /\ swapped = 0 /\ offsets = NoArray

(* An error return, be it for the arguments or because malloc failed: the  *)
(* caller gives up.                                                        *)
GenerateFails ==
  /\ pc = "generate"
  /\ pc' = "failed"
  /\ UNCHANGED <<args, genVars>>

Generate ==
  /\ pc = "generate" /\ num_blocks <= total_blocks
  /\ candidates' = [k \in Positions(total_blocks) |-> k]
  /\ swapped' = 0
  /\ pc' = "shuffle"
  /\ UNCHANGED <<args, offsets>>

Swap(f, a, b) == [f EXCEPT ![a] = f[b], ![b] = f[a]]

(* One iteration of partial_shuffle: j = i + rand() % (n - i).             *)
Shuffle ==
  /\ pc = "shuffle" /\ swapped < num_blocks
  /\ \E j \in swapped .. total_blocks - 1 : candidates' = Swap(candidates, swapped, j)
  /\ swapped' = swapped + 1
  /\ UNCHANGED <<args, pc, offsets>>

(* The first num_blocks candidates, sorted by qsort or as they are.        *)
Rank(k) == Cardinality({m \in Positions(num_blocks) : candidates[m] < candidates[k]})

(* Mutant of Picked: the sort is left out.                                 *)
PickedUnsorted(k) == candidates[k]

Picked(k) ==
  IF args.pattern = "sequential"
  THEN candidates[CHOOSE m \in Positions(num_blocks) : Rank(m) = k]
  ELSE candidates[k]

Generated ==
  /\ pc = "shuffle" /\ swapped = num_blocks
  /\ offsets' = [k \in Positions(num_blocks) |-> Picked(k) * args.block_size]
  /\ candidates' = NoArray /\ swapped' = 0
  /\ pc' = "access"
  /\ UNCHANGED args

generate_offsets == GenerateFails \/ Generate \/ Shuffle \/ Generated
=============================================================================
