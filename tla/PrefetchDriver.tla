--------------------------- MODULE PrefetchDriver ---------------------------
(***************************************************************************)
(* The measuring loop shared by prefetch-sim/src/main.c and the benchmarks *)
(* interrupted_bench.c, adaptive_bench.c and mixed_bench.c: for each       *)
(* repeat a fresh pool, then for each block of the trace a lookup, on a    *)
(* miss a pread and an insertion, and the call of a prefetching policy.    *)
(* The policies are in Readahead and AdaptiveReadahead; this module has    *)
(* the traces, the access and the loop of buffer_pool_prefetch_range.      *)
(***************************************************************************)
EXTENDS BufferPool, WorkloadGen

(* A program is a record of the arguments it was started with:             *)
(*   policy        "fixed" or "adaptive"                                   *)
(*   pattern       "sequential", "random" (main.c), "bursts" (benchmarks)  *)
(*   file_size, block_size                                                 *)
(*   num_accesses  length of the trace; file_size / block_size in main.c   *)
(*   burst_lens    lengths of the sequential runs of a "bursts" trace      *)
(*   repeats                                                               *)
(*   window        the fixed window, or min_window                         *)
(*   max_window    window of a fixed policy                                *)
CONSTANT Programs

(* The checks the programs make on their arguments.  Only main.c refuses a *)
(* window that does not fit into the pool.                                 *)
Accepted(p) ==
  /\ p.policy \in {"fixed", "adaptive"}
  /\ p.pattern \in {"sequential", "random", "bursts"}
  /\ p.file_size \in Nat /\ p.block_size \in Nat \ {0} /\ p.num_accesses \in Nat /\ p.repeats \in Nat \ {0}
  /\ p.window \in Nat /\ p.max_window \in Nat /\ p.window <= p.max_window
  /\ p.policy = "fixed" => p.window = p.max_window
  /\ IF p.pattern = "bursts"
     THEN p.burst_lens \subseteq 1 .. (p.file_size \div p.block_size) - 1
     ELSE /\ p.num_accesses = p.file_size \div p.block_size /\ p.burst_lens = {}
          /\ p.policy = "fixed" /\ p.window <= Capacity

ASSUME ProgramsAssumption == \A p \in Programs : Accepted(p)

VARIABLES
  r,            \* number of finished repeats
  i,            \* number of blocks accessed in this repeat
  block_num,    \* the block of the latest access
  run,          \* position of the latest access in its sequential run
  run_left,     \* blocks left in the run of a "bursts" trace
  cursor, left  \* buffer_pool_prefetch_range: next block, blocks to go

traceVars == <<r, i, block_num, run, run_left>>
loopVars == <<cursor, left>>
driverVars == <<poolVars, args, pc, genVars, traceVars, loopVars>>

(* Only main.c has its trace made by generate_offsets.                     *)
FirstPc == IF args.pattern = "bursts" THEN "access" ELSE "generate"

DriverInit ==
  /\ args \in Programs
  /\ buffer_pool_init
  /\ GenerateInit
  /\ pc = FirstPc
  /\ r = 0 /\ i = 0 /\ block_num = 0 /\ run = 0 /\ run_left = 0
  /\ cursor = 0 /\ left = 0

-----------------------------------------------------------------------------
(* The traces: the offsets generated, or the runs with random starts that  *)
(* generate_interrupted_sequence and generate_mixed_sequence concatenate.  *)

OffsetBlock(b) ==
  /\ args.pattern # "bursts"
  /\ b = offsets[i] \div args.block_size
  /\ run' = IF i > 0 /\ b = block_num + 1 THEN run + 1 ELSE 1
  /\ UNCHANGED run_left

RunBlock(b) ==
  /\ args.pattern = "bursts" /\ run_left > 0
  /\ b = block_num + 1
  /\ run' = run + 1
  /\ run_left' = run_left - 1

RunStart(b) ==
  /\ args.pattern = "bursts" /\ run_left = 0
  /\ \A len \in args.burst_lens : b < total_blocks - len
  /\ run' = 1
  /\ \E len \in args.burst_lens : run_left' = len - 1

NextBlock(b) == OffsetBlock(b) \/ RunBlock(b) \/ RunStart(b)

-----------------------------------------------------------------------------
(* One iteration of the measuring loop up to the call of the policy.       *)

Access(b) ==
  /\ pc = "access" /\ i < args.num_accesses
  /\ NextBlock(b)
  /\ IF b \in Cached THEN hits' = hits + 1 /\ UNCHANGED <<misses, arrayVars>>
                     ELSE misses' = misses + 1 /\ buffer_pool_insert(b) /\ UNCHANGED hits
  /\ block_num' = b /\ i' = i + 1
  /\ pc' = "policy"
  /\ UNCHANGED <<args, genVars, r, loopVars>>

(* pread failed: the program gives up after counting the miss.             *)
AccessFails(b) ==
  /\ pc = "access" /\ i < args.num_accesses
  /\ NextBlock(b)
  /\ b \notin Cached
  /\ misses' = misses + 1
  /\ block_num' = b /\ i' = i + 1
  /\ pc' = "failed"
  /\ UNCHANGED <<hits, arrayVars, args, genVars, r, loopVars>>

(* buffer_pool_prefetch_range, one block per step.                         *)
Prefetch ==
  /\ pc = "prefetch" /\ left > 0
  /\ buffer_pool_insert(cursor)
  /\ cursor' = cursor + 1 /\ left' = left - 1
  /\ UNCHANGED <<statVars, args, pc, genVars, traceVars>>

PrefetchDone ==
  /\ pc = "prefetch" /\ left = 0
  /\ pc' = "access"
  /\ UNCHANGED <<poolVars, args, genVars, traceVars, loopVars>>

(* buffer_pool_destroy, then buffer_pool_init.                             *)
ResetPool ==
  /\ slots' = [k \in {} |-> 0] /\ count' = 0 /\ evict_pos' = 0
  /\ hits' = 0 /\ misses' = 0

RepeatDone ==
  /\ pc = "access" /\ i = args.num_accesses
  /\ r' = r + 1
  /\ IF r + 1 < args.repeats
     THEN /\ ResetPool
          /\ i' = 0 /\ block_num' = 0 /\ run' = 0 /\ run_left' = 0
          /\ pc' = FirstPc
     ELSE /\ pc' = "done"
          /\ UNCHANGED <<poolVars, i, block_num, run, run_left>>
  /\ UNCHANGED <<args, genVars, loopVars>>

Stopped == pc \in {"done", "failed"} /\ UNCHANGED driverVars
=============================================================================
