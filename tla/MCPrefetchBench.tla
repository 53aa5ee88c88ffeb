--------------------------- MODULE MCPrefetchBench ---------------------------
(* Command lines for model checking PrefetchBench with a pool of 4 blocks. *)
EXTENDS PrefetchBench

(* Blocks of 4 bytes, and a file that ends in the middle of one.           *)
Program(policy, pattern, total, accesses, lens, repeats, w, max) ==
  [policy |-> policy, pattern |-> pattern, file_size |-> 4 * total + 1, block_size |-> 4, num_accesses |-> accesses,
   burst_lens |-> lens, repeats |-> repeats, window |-> w, max_window |-> max]

(* A whole file in order, twice, with each window main.c accepts; a        *)
(* shuffled file; one long run; runs with random starts and fixed windows below and      *)
(* above the capacity; long and short runs with growing windows.           *)
MCPrograms ==
  {Program("fixed", "sequential", 6, 6, {}, 2, w, w) : w \in 0 .. 4} \union
  {Program("fixed", "random", 4, 4, {}, 1, w, w) : w \in {0, 2}} \union
  {Program("fixed", "bursts", 12, 11, {11}, 1, w, w) : w \in 1 .. 4} \union
  {Program("fixed", "bursts", 9, 10, {3, 6}, 1, w, w) : w \in {2, 3, 5}} \union
  {Program("adaptive", "bursts", 14, 13, {3, 12}, 2, m[1], m[2]) :
     m \in {<<1, 2>>, <<1, 4>>, <<2, 4>>, <<2, 5>>, <<0, 2>>}}
=============================================================================
