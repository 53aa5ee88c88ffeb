------------------------------ MODULE Readahead ------------------------------
(***************************************************************************)
(* The fixed-window read-ahead of prefetch-sim/src/readahead.c: the call   *)
(* that main.c, interrupted_bench.c and mixed_bench.c make after each      *)
(* access.                                                                 *)
(***************************************************************************)
EXTENDS PrefetchDriver

VARIABLES
  window, last_block, have_last, readahead_edge, have_edge,
  fresh     \* no block of the latest prefetched range was cached before it

raVars == <<window, last_block, have_last, readahead_edge, have_edge>>

readahead_init ==
  /\ window = args.window
  /\ last_block = 0 /\ have_last = FALSE
  /\ readahead_edge = 0 /\ have_edge = FALSE
  /\ fresh = TRUE

Sequential == have_last /\ block_num = last_block + 1

(* buffer_pool_prefetch_range(pool, start, n) begins.                      *)
PrefetchRange(start, n) ==
  /\ pc' = "prefetch"
  /\ cursor' = start /\ left' = n
  /\ fresh' = TRUE

Remember == last_block' = block_num /\ have_last' = TRUE

(* Mutant of StartWindow: the block after the current one is left out.     *)
StartWindowLate ==
  /\ pc = "policy" /\ Sequential /\ window > 0 /\ ~have_edge
  /\ PrefetchRange(block_num + 2, window)
  /\ readahead_edge' = block_num + 1 + window
  /\ have_edge' = TRUE
  /\ Remember
  /\ UNCHANGED <<poolVars, args, genVars, traceVars, window>>

(* Case A: a sequential run is detected.                                   *)
StartWindow ==
  /\ pc = "policy" /\ Sequential /\ window > 0 /\ ~have_edge
  /\ PrefetchRange(block_num + 1, window)
  /\ readahead_edge' = block_num + 1 + window
  /\ have_edge' = TRUE
  /\ Remember
  /\ UNCHANGED <<poolVars, args, genVars, traceVars, window>>

(* Mutant of NextWindow: the block at the edge is left out.                *)
NextWindowLate ==
  /\ pc = "policy" /\ Sequential /\ window > 0 /\ have_edge
  /\ block_num + 1 = readahead_edge
  /\ PrefetchRange(readahead_edge + 1, window)
  /\ readahead_edge' = readahead_edge + window
  /\ UNCHANGED have_edge
  /\ Remember
  /\ UNCHANGED <<poolVars, args, genVars, traceVars, window>>

(* Case B: the last prefetched block is reached.                           *)
NextWindow ==
  /\ pc = "policy" /\ Sequential /\ window > 0 /\ have_edge
  /\ block_num + 1 = readahead_edge
  /\ PrefetchRange(readahead_edge, window)
  /\ readahead_edge' = readahead_edge + window
  /\ UNCHANGED have_edge
  /\ Remember
  /\ UNCHANGED <<poolVars, args, genVars, traceVars, window>>

(* Prefetched blocks are being consumed.                                   *)
Consume ==
  /\ pc = "policy" /\ Sequential /\ window > 0 /\ have_edge
  /\ block_num + 1 # readahead_edge
  /\ Remember
  /\ pc' = "access"
  /\ UNCHANGED <<poolVars, args, genVars, traceVars, loopVars, window, readahead_edge, have_edge, fresh>>

(* A jump, the first access, or read-ahead is off.                         *)
Break ==
  /\ pc = "policy" /\ ~(Sequential /\ window > 0)
  /\ have_edge' = FALSE
  /\ Remember
  /\ pc' = "access"
  /\ UNCHANGED <<poolVars, args, genVars, traceVars, loopVars, window, readahead_edge, fresh>>

readahead_on_access == StartWindow \/ NextWindow \/ Consume \/ Break
=============================================================================
