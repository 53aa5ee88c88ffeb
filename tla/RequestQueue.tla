---------------------------- MODULE RequestQueue ----------------------------
(* The requests of one queue with one hardware queue (block/blk-mq.c):     *)
(* tags and references, start, completion, requeue and timeout.  The       *)
(* operations are functions on the record m, so that a step of a thread    *)
(* can compose several of them.  A request is a number, its tag in the     *)
(* scheduler's tags or, without an elevator, in the driver's.  Time is the *)
(* clock of the timeouts, in units of rq_timeout.                          *)
EXTENDS QueueGate, Sequences, FiniteSetsExt, Functions

CONSTANTS
  Requests, Tags,   \* 1..n: requests, and tags of the driver
  Tasks,            \* threads that submit; the others are workers
  Weight, Factor,   \* of the EWMA of a busy device: 8 and 1 << 4 in the code
  Scenarios         \* what the tasks do, and what the device is like

Workers == {"kblockd", "requeue", "timer"}
ASSUME WorkersAssumption == Threads = Tasks \union Workers
ASSUME WeightAssumption == Weight \in Nat \ {0} /\ Factor \in Nat
ASSUME TagsAssumption == Requests \subseteq Nat \ {0} /\ Tags \subseteq Nat \ {0}

VARIABLES
  sc,     \* the scenario of this behaviour
  m,      \* the queue, its hardware queue and the device
  th      \* by thread: where it is in the code, and its locals

Unallocated ==
  [state |-> "IDLE", ref |-> 0, deadline |-> 0, timed_out |-> FALSE, tag |-> 0, budget |-> FALSE,
   by |-> "", kind |-> ""]

EmptyQueue(s) ==
  [rq |-> [r \in Requests |-> Unallocated],
   free |-> { r \in Requests : r <= s.requests },
   tags |-> IF s.shared THEN {} ELSE { g \in Tags : g <= s.tags },
   foreign |-> IF s.shared THEN { g \in Tags : g <= s.tags } ELSE {},  \* in use by another queue
   budgets |-> s.budgets,
   sw |-> <<>>, dispatch |-> <<>>, requeue |-> <<>>,
   hw |-> {}, lost |-> {}, done |-> <<>>, softirq |-> FALSE,
   fin |-> [r \in Requests |-> ""],           \* how far the ending of a request is
   exiting |-> 0, flushed |-> 0,              \* endings that have put their tags, and of batches
   restart |-> FALSE, stopped |-> FALSE, wait |-> FALSE, run |-> FALSE, busy |-> 0,
   kick |-> FALSE,
   now |-> 0, timer |-> 0, work |-> FALSE,    \* q->timeout (0: not pending), timeout_work
   owed |-> FALSE,                            \* the driver will run the queue
   trouble |-> s.trouble, losses |-> s.losses, retries |-> s.retries, resets |-> s.resets,
   steals |-> s.steals,
   ended |-> [t \in Tasks |-> 0]]

-----------------------------------------------------------------------------
(* Tags.                                                                   *)

blk_mq_rq_ctx_init(c, r, t, kind) ==
  [c EXCEPT !.rq[r] = [Unallocated EXCEPT !.ref = 1, !.by = t, !.kind = kind,
                                          !.tag = IF sc.elevator THEN 0 ELSE r]]

AllocRequests(c, S, t, kind) ==
  [c EXCEPT !.free = @ \ S,
            !.rq = [r \in Requests |->
                      IF r \in S THEN blk_mq_rq_ctx_init(c, r, t, kind).rq[r] ELSE @[r]]]

(* blk_mq_get_driver_tag: none to get without an elevator.                 *)
HasDriverTag(c, r) == c.rq[r].tag # 0

GetDriverTag(c, r) ==
  IF HasDriverTag(c, r) THEN c
  ELSE LET g == CHOOSE x \in c.tags : TRUE
       IN [c EXCEPT !.tags = @ \ {g}, !.rq[r].tag = g]

__blk_mq_alloc_driver_tag(c, r) == HasDriverTag(c, r) \/ c.tags # {}

(* blk_mq_hctx_has_pending, blk_mq_run_hw_queue(hctx, true): run_work is   *)
(* queued unless the hardware queue is stopped.                            *)
blk_mq_hctx_has_pending(c) == c.dispatch # <<>> \/ c.sw # <<>>

blk_mq_hw_queue_need_run(c, quiesced) == ~quiesced /\ blk_mq_hctx_has_pending(c)

blk_mq_delay_run_hw_queue(c) == IF c.stopped THEN c ELSE [c EXCEPT !.run = TRUE]

RunAsync(c, quiesced) ==
  IF blk_mq_hw_queue_need_run(c, quiesced) THEN blk_mq_delay_run_hw_queue(c) ELSE c

(* A tag of the driver comes free: with shared tags that wakes the         *)
(* hardware queue's entry in the wait queue.                               *)
blk_mq_dispatch_wake(c, quiesced) ==
  IF c.wait THEN RunAsync([c EXCEPT !.wait = FALSE], quiesced) ELSE c

PutDriverTag(c, r, quiesced) ==
  IF ~sc.elevator \/ ~HasDriverTag(c, r) THEN c
  ELSE blk_mq_dispatch_wake([c EXCEPT !.tags = @ \union {c.rq[r].tag}, !.rq[r].tag = 0], quiesced)

(* Budgets: the driver gives one back when it refuses or completes a       *)
(* request.                                                                *)
PutBudget(c, r) ==
  IF c.rq[r].budget THEN [c EXCEPT !.budgets = @ + 1, !.rq[r].budget = FALSE] ELSE c

blk_mq_release_budgets(c, list) ==
  LET S == { r \in Range(list) : c.rq[r].budget }
  IN [c EXCEPT !.budgets = @ + Cardinality(S),
               !.rq = [r \in Requests |-> IF r \in S THEN [@[r] EXCEPT !.budget = FALSE] ELSE @[r]]]

-----------------------------------------------------------------------------
(* blk_add_timer (external): the timer of the queue is left alone when it  *)
(* goes off earlier.                                                       *)
blk_add_timer(c, r) ==
  LET expiry == c.now + 1
  IN [c EXCEPT !.rq[r].deadline = expiry, !.rq[r].timed_out = FALSE,
               !.timer = IF @ = 0 \/ expiry < @ THEN expiry ELSE @]

(* blk_mq_start_request after its timer; the device has the request then,  *)
(* and may lose it.                                                        *)
Started(c, r, loses) ==
  [c EXCEPT !.rq[r].state = "IN_FLIGHT",
            !.hw = @ \union {r},
            !.lost = IF loses THEN @ \union {r} ELSE @,
            !.losses = IF loses THEN @ - 1 ELSE @]

__blk_mq_requeue_request(c, r, quiesced) ==
  LET d == PutDriverTag(c, r, quiesced)
  IN IF d.rq[r].state = "IDLE" THEN d
     ELSE [d EXCEPT !.rq[r].state = "IDLE", !.rq[r].timed_out = FALSE]

blk_mq_requeue_request(c, r, quiesced) ==
  [__blk_mq_requeue_request(c, r, quiesced) EXCEPT !.requeue = Append(@, r), !.kick = TRUE]

-----------------------------------------------------------------------------
(* The device is done with a request: the driver has its budget back and   *)
(* runs the queue if it owes that, or if it was out of budgets.            *)
TakenFromDevice(c, r, quiesced) ==
  LET d == PutBudget([c EXCEPT !.hw = @ \ {r}, !.lost = @ \ {r}, !.owed = FALSE,
                               !.stopped = @ /\ ~c.owed], r)
  IN IF c.owed \/ c.budgets = 0 THEN RunAsync(d, quiesced) ELSE d

(* blk_mq_complete_request, on this CPU or through blk_cpu_done, where     *)
(* only the first of a list raises the softirq.                            *)
CompleteLocally(c, r) == [c EXCEPT !.rq[r].state = "COMPLETE", !.fin[r] = "complete"]

(* Mutant of CompleteRemotely: only a list of two raises it.               *)
RaisedForOthers(c, r) ==
  [c EXCEPT !.rq[r].state = "COMPLETE", !.done = Append(@, r), !.softirq = @ \/ c.done # <<>>]
CompleteRemotely(c, r) ==
  [c EXCEPT !.rq[r].state = "COMPLETE", !.done = Append(@, r), !.softirq = @ \/ c.done = <<>>]

blk_complete_reqs(c) ==
  [c EXCEPT !.fin = [r \in Requests |-> IF r \in Range(c.done) THEN "complete" ELSE @[r]],
            !.done = <<>>, !.softirq = FALSE]

(* __blk_mq_end_request: the bios have ended, and the request is freed,    *)
(* unless its end_io leaves that to the task that waits (blk_end_sync_rq). *)
blk_mq_end_request(c, r) ==
  [c EXCEPT !.ended[c.rq[r].by] = @ + 1,
            !.fin[r] = IF c.rq[r].kind = "exec" THEN "owned" ELSE "free"]

(* blk_mq_free_request, and the same in blk_mq_end_request_batch: the last *)
(* reference frees the request.                                            *)
PutRqRef(c, r, last) ==
  [c EXCEPT !.rq[r].ref = @ - 1, !.fin[r] = IF c.rq[r].ref = 1 THEN last ELSE @]

(* Mutant: it does not look who else has a reference.                      *)
FreeUnderReader(c, r, last) ==
  [c EXCEPT !.rq[r].state = "IDLE", !.rq[r].ref = @ - 1, !.fin[r] = last]
blk_mq_free_request(c, r, last) ==
  PutRqRef([c EXCEPT !.rq[r].state = "IDLE", !.fin[r] = ""], r, last)

(* __blk_mq_free_request: the tags are put, the queue restarted, and last  *)
(* the reference of q_usage_counter given back.                            *)
PutTags(c, r, quiesced) ==
  LET d == PutDriverTag(c, r, quiesced)
  IN [d EXCEPT !.free = @ \union {r}, !.rq[r] = Unallocated, !.fin[r] = ""]

(* blk_mq_put_tags: a batch has no request of an elevator.                 *)
blk_mq_put_tags(c, S) ==
  [c EXCEPT !.free = @ \union S,
            !.rq = [r \in Requests |-> IF r \in S THEN Unallocated ELSE @[r]],
            !.fin = [r \in Requests |-> IF r \in S THEN "" ELSE @[r]]]

blk_mq_sched_restart(c, quiesced) ==
  IF c.restart THEN RunAsync([c EXCEPT !.restart = FALSE], quiesced) ELSE c
=============================================================================
