-------------------------- MODULE AdaptiveReadahead --------------------------
(***************************************************************************)
(* The read-ahead with a growing window of                                 *)
(* prefetch-sim/src/adaptive_readahead.c: the window doubles each time a   *)
(* window has been consumed and falls back to its minimum when a run       *)
(* breaks.  The fields it shares with the fixed policy are those of        *)
(* Readahead; min_window and max_window are args.window and                *)
(* args.max_window.                                                        *)
(***************************************************************************)
EXTENDS Readahead

(* Case A: a sequential run is detected.                                   *)
AdaptiveStart ==
  /\ pc = "policy" /\ Sequential /\ args.max_window > 0 /\ ~have_edge
  /\ PrefetchRange(block_num + 1, window)
  /\ readahead_edge' = block_num + 1 + window
  /\ have_edge' = TRUE
  /\ Remember
  /\ UNCHANGED <<poolVars, args, genVars, traceVars, window>>

(* Mutant of Grown: the window does not grow.                              *)
GrownNot == window

(* window *= 2, clamped to max_window.                                     *)
Grown == IF window * 2 > args.max_window THEN args.max_window ELSE window * 2

(* Case B: the last prefetched block is reached; the window grows first.   *)
AdaptiveNext ==
  /\ pc = "policy" /\ Sequential /\ args.max_window > 0 /\ have_edge
  /\ block_num + 1 = readahead_edge
  /\ window' = Grown
  /\ PrefetchRange(readahead_edge, Grown)
  /\ readahead_edge' = readahead_edge + Grown
  /\ UNCHANGED have_edge
  /\ Remember
  /\ UNCHANGED <<poolVars, args, genVars, traceVars>>

AdaptiveConsume ==
  /\ pc = "policy" /\ Sequential /\ args.max_window > 0 /\ have_edge
  /\ block_num + 1 # readahead_edge
  /\ Remember
  /\ pc' = "access"
  /\ UNCHANGED <<poolVars, args, genVars, traceVars, loopVars, window, readahead_edge, have_edge, fresh>>

(* A jump, the first access, or read-ahead is off.                         *)
AdaptiveBreak ==
  /\ pc = "policy" /\ ~(Sequential /\ args.max_window > 0)
  /\ have_edge' = FALSE
  /\ window' = args.window
  /\ Remember
  /\ pc' = "access"
  /\ UNCHANGED <<poolVars, args, genVars, traceVars, loopVars, readahead_edge, fresh>>

adaptive_readahead_on_access ==
  AdaptiveStart \/ AdaptiveNext \/ AdaptiveConsume \/ AdaptiveBreak
=============================================================================
