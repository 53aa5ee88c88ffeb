---------------------------- MODULE PrefetchBench ----------------------------
(***************************************************************************)
(* The prefetching programs of prefetch-sim: the measuring loop with the   *)
(* fixed policy (main.c, interrupted_bench.c, run_fixed of mixed_bench.c)  *)
(* or the adaptive one (adaptive_bench.c, run_adaptive of mixed_bench.c).  *)
(***************************************************************************)
EXTENDS AdaptiveReadahead, Sequences

vars == <<driverVars, raVars, fresh>>

Init == DriverInit /\ readahead_init

DoGenerate ==
  /\ generate_offsets
  /\ UNCHANGED <<poolVars, traceVars, loopVars, raVars, fresh>>

DoAccess ==
  /\ \E b \in 0 .. total_blocks : Access(b) \/ AccessFails(b)
  /\ UNCHANGED <<raVars, fresh>>

DoPolicy ==
  \/ args.policy = "fixed" /\ readahead_on_access
  \/ args.policy = "adaptive" /\ adaptive_readahead_on_access

DoPrefetch ==
  /\ Prefetch
  /\ fresh' = (fresh /\ cursor \notin Cached)
  /\ UNCHANGED raVars

DoPrefetchDone == PrefetchDone /\ UNCHANGED <<raVars, fresh>>

(* The next repeat initialises the policy again.                           *)
DoRepeat ==
  /\ RepeatDone
  /\ IF r + 1 < args.repeats
     THEN /\ window' = args.window
          /\ last_block' = 0 /\ have_last' = FALSE
          /\ readahead_edge' = 0 /\ have_edge' = FALSE
     ELSE UNCHANGED raVars
  /\ UNCHANGED fresh

DoStopped == Stopped /\ UNCHANGED <<raVars, fresh>>

Next ==
  \/ DoGenerate
  \/ DoAccess
  \/ DoPolicy
  \/ DoPrefetch
  \/ DoPrefetchDone
  \/ DoRepeat
  \/ DoStopped

Spec == Init /\ [][Next]_vars

-----------------------------------------------------------------------------
(* Properties *)

(* What main.c reads in a repeat: block_num goes through the whole blocks  *)
(* of the file, each once and none past its end, and with the sequential   *)
(* pattern in order from the first (main.c:157-163, workload_gen.c:57-67). *)
TraceValid ==
  args.pattern # "bursts" /\ i > 0 =>
    /\ block_num * args.block_size = offsets[i - 1]
    /\ block_num * args.block_size + args.block_size <= args.file_size
    /\ \A k, m \in Positions(num_blocks) : offsets[k] = offsets[m] => k = m
    /\ args.pattern = "sequential" => block_num = i - 1

(* The array of buffer_pool.c, read from the position to evict on, is a    *)
(* FIFO queue: each insertion evicts the block that was inserted first,    *)
(* and a repeated insertion does not renew a block.                        *)
Queue == [k \in 1 .. count |-> slots[(evict_pos + k - 1) % Capacity]]
Fifo == INSTANCE FifoCache WITH
          q <- Queue,
          Blocks <- UNION {0 .. (p.file_size \div p.block_size) + p.max_window : p \in Programs}
ImplementsFifo == Fifo!Spec

(* What was prefetched is still there when the reader comes for it,        *)
(* provided the window fits into the pool and no block of the range was    *)
(* cached before.  A block that was cached keeps its old place in the      *)
(* queue and may be evicted by the rest of its own range.                  *)
FreshWindowRetained ==
  have_edge /\ pc = "access" /\ fresh /\ window <= Capacity =>
    \A b \in last_block + 1 .. readahead_edge - 1 : b \in Cached

(* As long as the trace is one sequential run it misses at most twice,     *)
(* however long it is and in every repeat, if the smallest window is not 0 *)
(* and the largest fits into the pool, which main.c enforces.              *)
SequentialMissesTwice ==
  run = i /\ 0 < args.window /\ args.max_window <= Capacity => misses <= 2

(* While a run lasts the adaptive window grows to its maximum: it is there *)
(* once the windows min, 2 min, 4 min, ... below the maximum are consumed, *)
(* that is after fewer than 2 + 2 max_window blocks, if the minimum is not *)
(* 0.  A minimum of 0, which adaptive_bench.c accepts, never grows.        *)
LongRunReachesMax ==
  pc = "access" /\ args.window > 0 /\ run > 2 + 2 * args.max_window =>
    window = args.max_window
=============================================================================
