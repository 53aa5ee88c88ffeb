------------------------------ MODULE HwQueue ------------------------------
(* The hardware queue at work (block/blk-mq.c): tasks submit bios, with or *)
(* without a plug, execute requests, freeze, quiesce and stop the queue;   *)
(* run_work, requeue_work and timeout_work run in the background; the      *)
(* device refuses, loses, fails and completes requests.  A thread is at    *)
(* `pc' with the request list it works on; a step is what the code does    *)
(* between two accesses to what the threads share.                         *)
EXTENDS RequestQueue

VARIABLES
  task,    \* by task: what it has still to do, its plug
  tw       \* locals of blk_mq_timeout_work

vars == <<gateVars, sc, m, th, task, tw>>

NoFrame == [pc |-> "idle", list |-> <<>>, need |-> TRUE, phase |-> "", why |-> "", ret |-> "idle",
            save |-> <<>>]     \* the list a run interrupts
NoTimeout == [pc |-> "idle", start |-> 0, next |-> 0, i |-> 1]

Init ==
  /\ GateInit
  /\ sc \in Scenarios
  /\ m = EmptyQueue(sc)
  /\ th = [t \in Threads |-> NoFrame]
  /\ task = [t \in Tasks |-> [ops |-> sc.ops[t], plugged |-> FALSE, nr_ios |-> 1,
                              plug |-> <<>>, cached |-> <<>>]]
  /\ tw = NoTimeout

At(t, pc) == th[t].pc = pc
Frame(t, f) == th' = [th EXCEPT ![t] = f]
Op(t) == Head(task[t].ops)
OpDone(t) == [task EXCEPT ![t].ops = Tail(@)]
quiesced == blk_queue_quiesced

-----------------------------------------------------------------------------
(* Running the hardware queue.                                             *)

(* blk_mq_run_hw_queue(hctx, false): the thread goes on at ret afterwards. *)
RunSync(c, f, ret) ==
  [f EXCEPT !.pc = IF blk_mq_hw_queue_need_run(c, quiesced) THEN "run" ELSE "end", !.ret = ret]

(* The EWMA of how often the device is busy.                               *)
blk_mq_update_dispatch_busy(c, busy) ==
  [c EXCEPT !.busy = (@ * (Weight - 1) + (IF busy THEN Factor ELSE 0)) \div Weight]

(* blk_mq_sched_dispatch_requests (external): what was refused before goes *)
(* first; then one by one from the elevator or a busy software queue, or   *)
(* all of the software queue.                                              *)
Taken(c) ==
  IF c.dispatch # <<>> THEN [c EXCEPT !.dispatch = <<>>, !.restart = TRUE]
  ELSE IF sc.elevator \/ c.busy > 0 THEN c
  ELSE [c EXCEPT !.sw = <<>>]
TakenFrame(c, f) ==
  IF c.dispatch # <<>> THEN [f EXCEPT !.pc = "prep", !.list = c.dispatch, !.need = TRUE, !.phase = "first"]
  ELSE IF sc.elevator \/ c.busy > 0 THEN [f EXCEPT !.pc = "next"]
  ELSE IF c.sw = <<>> THEN [f EXCEPT !.pc = "end"]
  ELSE [f EXCEPT !.pc = "prep", !.list = c.sw, !.need = TRUE, !.phase = "flush"]

Run(t) ==
  /\ At(t, "run")
  /\ \/ /\ ~m.stopped /\ EnterSection(t)
        /\ m' = Taken(m) /\ Frame(t, TakenFrame(m, th[t]))
     \/ /\ m.stopped \/ ~MayDispatch
        /\ Frame(t, [th[t] EXCEPT !.pc = "end"])
        /\ UNCHANGED <<m, quiesceVars>>
  /\ UNCHANGED <<freezeVars, sc, task, tw>>

(* blk_mq_do_dispatch_sched, blk_mq_do_dispatch_ctx (external).            *)
NextRequest(t) ==
  /\ At(t, "next")
  /\ \/ /\ m.dispatch # <<>>
        /\ m' = Taken(m) /\ Frame(t, TakenFrame(m, th[t]))
     \/ /\ m.dispatch = <<>> /\ (m.sw = <<>> \/ m.budgets = 0)
        /\ Frame(t, [th[t] EXCEPT !.pc = "end"])
        /\ UNCHANGED m
     \/ /\ m.dispatch = <<>> /\ m.sw # <<>> /\ m.budgets > 0
        /\ m' = [m EXCEPT !.sw = Tail(@), !.budgets = @ - 1, !.rq[Head(m.sw)].budget = TRUE]
        /\ Frame(t, [th[t] EXCEPT !.pc = "prep", !.list = <<Head(m.sw)>>, !.need = FALSE,
                                  !.phase = "one"])
  /\ UNCHANGED <<gateVars, sc, task, tw>>

(* The end of a dispatch section, or of a run that had nothing to do.  A   *)
(* list of which something is left goes on; the end of blk_mq_insert_      *)
(* requests inserts what could not be issued and runs the queue.           *)
GoesOn(f) == f.ret \in {"direct", "many"} /\ f.save # <<>>

Resume(f) ==
  CASE f.ret \in {"idle", "unref"} -> NoFrame
    [] GoesOn(f) -> [NoFrame EXCEPT !.pc = "issue", !.phase = f.ret, !.list = f.save]
    [] f.ret = "many" /\ f.save = <<>> -> [NoFrame EXCEPT !.pc = "run_queue", !.ret = "unref"]
    [] f.ret = "insert_rest" -> [NoFrame EXCEPT !.pc = f.ret, !.list = f.save, !.ret = "unref"]
    [] OTHER -> [NoFrame EXCEPT !.pc = f.ret, !.list = f.save]

EndRun(t) ==
  LET f == th[t]
  IN /\ At(t, "end")
     /\ Frame(t, Resume(f))
     /\ IF GoesOn(f) THEN UNCHANGED quiesceVars ELSE LeaveSection(t)
     /\ IF f.ret = "unref" THEN PutMany(1) ELSE UNCHANGED freezeVars
     /\ UNCHANGED <<sc, m, task, tw>>

-----------------------------------------------------------------------------
(* blk_mq_dispatch_rq_list *)

(* blk_mq_prep_dispatch_rq *)
Prep(t) ==
  LET f == th[t]
      r == Head(f.list)
      c == IF f.need THEN [m EXCEPT !.budgets = @ - 1, !.rq[r].budget = TRUE] ELSE m
  IN /\ At(t, "prep")
     /\ \/ /\ f.need /\ m.budgets = 0
           /\ m' = PutDriverTag(m, r, quiesced)
           /\ Frame(t, [f EXCEPT !.pc = "splice", !.why = "NO_BUDGET"])
        \/ /\ ~f.need \/ m.budgets > 0
           /\ IF __blk_mq_alloc_driver_tag(m, r)
              THEN m' = GetDriverTag(c, r) /\ Frame(t, [f EXCEPT !.pc = "queue"])
              ELSE m' = c /\ Frame(t, [f EXCEPT !.pc = "mark"])
     /\ UNCHANGED <<gateVars, sc, task, tw>>

(* blk_mq_mark_tag_wait fails: a budget taken here is put back.            *)
(* Mutant: it is not.                                                      *)
NoTagKeepsBudget(c, f) == c
NoTag(c, f) == IF f.need THEN PutBudget(c, Head(f.list)) ELSE c

(* Mutant of Retry: the tag is not tried again after the mark.             *)
RetryNot(c, r) == FALSE
Retry(c, r) == __blk_mq_alloc_driver_tag(c, r)

AfterMark(t, c, marked, unmarked) ==
  LET r == Head(th[t].list)
  IN IF Retry(c, r)
     THEN m' = GetDriverTag(unmarked, r) /\ Frame(t, [th[t] EXCEPT !.pc = "queue"])
     ELSE /\ m' = NoTag(marked, th[t])
          /\ Frame(t, [th[t] EXCEPT !.pc = "splice", !.why = "NO_TAG"])

(* With shared tags under the lock of the wait queue, otherwise the mark   *)
(* is the RESTART bit.                                                     *)
MarkTagWait(t) ==
  /\ At(t, "mark")
  /\ IF ~sc.shared
     THEN m' = [m EXCEPT !.restart = TRUE] /\ Frame(t, [th[t] EXCEPT !.pc = "retry"])
     ELSE IF m.wait
     THEN m' = NoTag(m, th[t]) /\ Frame(t, [th[t] EXCEPT !.pc = "splice", !.why = "NO_TAG"])
     ELSE AfterMark(t, m, [m EXCEPT !.wait = TRUE], m)
  /\ UNCHANGED <<gateVars, sc, task, tw>>

RetryTag(t) ==
  /\ At(t, "retry")
  /\ AfterMark(t, m, m, m)
  /\ UNCHANGED <<gateVars, sc, task, tw>>

(* What is left goes to hctx->dispatch; then the queue is run again unless *)
(* somebody else is going to do so.                                        *)
Splice(t) ==
  LET f == th[t]
      c == IF f.need THEN m ELSE blk_mq_release_budgets(m, f.list)
  IN /\ At(t, "splice")
     /\ m' = [c EXCEPT !.dispatch = @ \o f.list]
     /\ Frame(t, [f EXCEPT !.pc = "check", !.list = <<>>])
     /\ UNCHANGED <<gateVars, sc, task, tw>>

(* Mutant of NeedsRun: a restart that others have taken is not noticed.    *)
NeedsRunNever(c, f) == FALSE
NeedsRun(c, f) == ~c.restart \/ (f.why = "NO_TAG" /\ sc.shared /\ ~c.wait)

CheckRestart(t) ==
  LET f == th[t]
      c == IF NeedsRun(m, f) THEN RunAsync(m, quiesced)
           ELSE IF f.why \in {"RESOURCE", "NO_BUDGET"} THEN blk_mq_delay_run_hw_queue(m)
           ELSE m
  IN /\ At(t, "check")
     /\ m' = blk_mq_update_dispatch_busy(c, TRUE)
     /\ Frame(t, [f EXCEPT !.pc = "end", !.why = ""])
     /\ UNCHANGED <<gateVars, sc, task, tw>>

-----------------------------------------------------------------------------
(* ->queue_rq and what follows, for blk_mq_dispatch_rq_list (phases first, *)
(* one, flush), blk_mq_try_issue_directly (try), blk_mq_issue_direct       *)
(* (direct) and blk_mq_try_issue_list_directly (many).                     *)

Dispatching(f) == f.phase \in {"first", "one", "flush"}

(* The request at the head is done with: the next one, or the end.         *)
Onward(f) ==
  LET rest == Tail(f.list)
      g == [f EXCEPT !.list = rest]
  IN CASE rest # <<>> -> [g EXCEPT !.pc = IF Dispatching(f) THEN "prep" ELSE "issue"]
       [] rest = <<>> /\ f.phase \in {"first", "one"} -> [g EXCEPT !.pc = "next"]
       [] rest = <<>> /\ f.phase = "many" -> [g EXCEPT !.pc = "end", !.ret = "many"]
       [] OTHER -> [g EXCEPT !.pc = "end"]

Calmer(c, f) ==
  IF Dispatching(f) /\ Tail(f.list) # <<>> THEN c ELSE blk_mq_update_dispatch_busy(c, FALSE)

QueueRq(t) ==
  /\ At(t, "queue")
  /\ m' = blk_add_timer(m, Head(th[t].list))
  /\ Frame(t, [th[t] EXCEPT !.pc = "start"])
  /\ UNCHANGED <<gateVars, sc, task, tw>>

StartRq(t) ==
  /\ At(t, "start")
  /\ \E loses \in {l \in BOOLEAN : l => m.losses > 0} :
       m' = Calmer(Started(m, Head(th[t].list), loses), th[t])
  /\ Frame(t, Onward(th[t]))
  /\ UNCHANGED <<gateVars, sc, task, tw>>

(* The driver fails the request, which ends in the background.             *)
QueueFails(t) ==
  LET r == Head(th[t].list)
  IN /\ At(t, "queue") /\ m.trouble > 0
     /\ m' = Calmer(blk_mq_end_request(PutBudget([m EXCEPT !.trouble = @ - 1], r), r), th[t])
     /\ Frame(t, Onward(th[t]))
     /\ UNCHANGED <<gateVars, sc, task, tw>>

(* Out of resources that come back by themselves (RESOURCE), or with the   *)
(* next completion, at which the driver runs the queue (DEV_RESOURCE); it  *)
(* may stop the queue until then.                                          *)
(* Mutant of BypassInsert: the request is forgotten.                       *)
BypassForgets(c, r) == c
BypassInsert(c, r) == [c EXCEPT !.dispatch = Append(@, r)]

(* A list that was not issued to its end: the rest of a plug is left to    *)
(* blk_mq_dispatch_list, that of blk_mq_insert_requests to its end, which  *)
(* runs the queue for both.                                                *)
Leaves(t, c) ==
  LET f == th[t]
      rest == Tail(f.list)
      g == [f EXCEPT !.list = <<>>, !.save = rest]
  IN /\ m' = BypassInsert(c, Head(f.list))
     /\ Frame(t, CASE f.phase = "many" /\ rest # <<>> -> [g EXCEPT !.pc = "end", !.ret = "insert_rest"]
                   [] f.phase = "many" /\ rest = <<>> -> [g EXCEPT !.pc = "run_queue", !.ret = "many"]
                   [] f.phase = "direct" /\ rest # <<>> -> [g EXCEPT !.pc = "run_queue", !.ret = "rest"]
                   [] OTHER -> [g EXCEPT !.pc = "run_queue", !.ret = "idle"])

Refused(t, c, why) ==
  LET r == Head(th[t].list)
      d == __blk_mq_requeue_request(PutBudget(c, r), r, quiesced)
  IN IF Dispatching(th[t])
     THEN m' = d /\ Frame(t, [th[t] EXCEPT !.pc = "splice", !.why = why])
     ELSE Leaves(t, blk_mq_update_dispatch_busy(d, TRUE))

Refuses(t, c) ==
  \/ Refused(t, c, "RESOURCE")
  \/ /\ m.hw # {}
     /\ Refused(t, [c EXCEPT !.owed = TRUE, !.stopped = sc.stops, !.run = @ /\ ~sc.stops],
                "DEV_RESOURCE")

(* Before the driver has started the request, or after it has.             *)
QueueRefuses(t) ==
  /\ At(t, "queue") /\ m.trouble > 0
  /\ Refuses(t, [m EXCEPT !.trouble = @ - 1])
  /\ UNCHANGED <<gateVars, sc, task, tw>>

StartInVain(t) ==
  /\ At(t, "start") /\ m.trouble > 0
  /\ m' = [m EXCEPT !.trouble = @ - 1, !.rq[Head(th[t].list)].state = "IN_FLIGHT"]
  /\ Frame(t, [th[t] EXCEPT !.pc = "started"])
  /\ UNCHANGED <<gateVars, sc, task, tw>>

StartedRefuses(t) ==
  /\ At(t, "started")
  /\ Refuses(t, m)
  /\ UNCHANGED <<gateVars, sc, task, tw>>

(* blk_mq_request_issue_directly of the next one of a list.                *)
IssueNext(t) ==
  LET f == th[t]
      r == Head(f.list)
  IN /\ At(t, "issue")
     /\ \/ /\ m.stopped \/ ~MayDispatch
           /\ Frame(t, [f EXCEPT !.pc = "insert", !.list = <<r>>, !.save = Tail(f.list),
                                 !.ret = IF f.phase = "direct" /\ Tail(f.list) = <<>> THEN "idle"
                                         ELSE f.phase])
           /\ UNCHANGED <<m, quiesceVars>>
        \/ /\ ~m.stopped /\ EnterSection(t)
           /\ IF m.budgets = 0 THEN Leaves(t, m)
              ELSE /\ m' = [m EXCEPT !.budgets = @ - 1, !.rq[r].budget = TRUE]
                   /\ Frame(t, [f EXCEPT !.pc = "queue"])
     /\ UNCHANGED <<freezeVars, sc, task, tw>>

-----------------------------------------------------------------------------
(* Insertions, each followed by a run of the queue.                        *)

(* blk_mq_insert_request *)
InsertTail(c, r) == [c EXCEPT !.sw = Append(@, r)]

InsertRequest(t) ==
  /\ At(t, "insert")
  /\ m' = InsertTail(m, Head(th[t].list))
  /\ Frame(t, [th[t] EXCEPT !.pc = "run_queue", !.list = <<>>])
  /\ UNCHANGED <<gateVars, sc, task, tw>>

(* The end of blk_mq_insert_requests: one request that must not wait makes *)
(* the run asynchronous.                                                   *)
InsertRest(t) ==
  LET f == th[t]
      async == ~sc.elevator /\ \E r \in Range(f.list) : m.rq[r].kind = "nowait"
  IN /\ At(t, "insert_rest")
     /\ m' = [m EXCEPT !.sw = @ \o f.list]
     /\ Frame(t, [f EXCEPT !.pc = "run_queue", !.list = <<>>, !.why = IF async THEN "async" ELSE ""])
     /\ UNCHANGED <<gateVars, sc, task, tw>>

(* blk_mq_run_hw_queue.  Mutant: what was inserted is left there.          *)
InsertedOnly(t) ==
  /\ At(t, "run_queue")
  /\ Frame(t, [th[t] EXCEPT !.pc = "end", !.why = ""])
  /\ UNCHANGED <<gateVars, sc, m, task, tw>>

blk_mq_run_hw_queue(t) ==
  /\ At(t, "run_queue")
  /\ IF th[t].why = "async"
     THEN m' = RunAsync(m, quiesced) /\ Frame(t, [th[t] EXCEPT !.pc = "end", !.why = ""])
     ELSE Frame(t, RunSync(m, th[t], th[t].ret)) /\ UNCHANGED m
  /\ UNCHANGED <<gateVars, sc, task, tw>>

-----------------------------------------------------------------------------
(* Tasks.                                                                  *)

Ready(t, ops) == At(t, "idle") /\ task[t].ops # <<>> /\ Op(t) \in ops
Bios == {"bio", "nowait", "merged"}

(* rq->cmd_flags, as far as they matter here.                              *)
Kind(op) == IF op = "merged" THEN "bio" ELSE op

(* blk_mq_submit_bio takes a request of the plug, or enters the queue.     *)
SubmitCached(t) ==
  LET r == Head(task[t].cached)
  IN /\ Ready(t, Bios) /\ task[t].cached # <<>>
     /\ task' = [task EXCEPT ![t].cached = Tail(@)]
     /\ m' = [m EXCEPT !.rq[r].kind = Kind(Op(t))]
     /\ Frame(t, [NoFrame EXCEPT !.pc = "prepare", !.list = <<r>>])
     /\ UNCHANGED <<gateVars, sc, tw>>

(* Mutant of SubmitEnter: the reference is taken without a look.           *)
SubmitUnchecked(t) ==
  /\ Ready(t, Bios \union {"exec"}) /\ (task[t].cached = <<>> \/ Op(t) = "exec")
  /\ TakeRef
  /\ Frame(t, [NoFrame EXCEPT !.pc = "prepare"])
  /\ UNCHANGED <<quiesceVars, sc, m, task, tw>>

SubmitEnter(t) ==
  /\ Ready(t, Bios \union {"exec"}) /\ (task[t].cached = <<>> \/ Op(t) = "exec")
  /\ Enter
  /\ Frame(t, [NoFrame EXCEPT !.pc = "prepare"])
  /\ UNCHANGED <<quiesceVars, sc, m, task, tw>>

EnterWouldBlock(t) ==
  /\ Ready(t, {"nowait"}) /\ task[t].cached = <<>> /\ mq_freeze_depth > 0
  /\ m' = [m EXCEPT !.ended[t] = @ + 1]
  /\ task' = OpDone(t)
  /\ UNCHANGED <<gateVars, sc, th, tw>>

(* The bio fails a check or is merged: queue_exit.                         *)
(* Mutant: the reference of a cached request is given back as well.        *)
QueueExitAlways(t) ==
  /\ PutMany(1)
  /\ task' = [task EXCEPT ![t].ops = Tail(@), ![t].cached = th[t].list \o @,
                          ![t].nr_ios = IF Op(t) = "nowait" THEN 1 ELSE @]
QueueExit(t) ==
  /\ IF th[t].list = <<>> THEN PutMany(1) ELSE UNCHANGED freezeVars
  /\ task' = [task EXCEPT ![t].ops = Tail(@), ![t].cached = th[t].list \o @,
                          ![t].nr_ios = IF Op(t) = "nowait" THEN 1 ELSE @]

NoRequest(t) ==
  /\ At(t, "prepare")
  /\ Op(t) = "merged" \/ (Op(t) = "nowait" /\ th[t].list = <<>> /\ m.free = {})
  /\ QueueExit(t)
  /\ m' = [m EXCEPT !.ended[t] = @ + 1]
  /\ Frame(t, NoFrame)
  /\ UNCHANGED <<quiesceVars, sc, tw>>

(* __blk_mq_alloc_requests, with a plug a batch of nr_ios: each request    *)
(* holds a reference of q_usage_counter, and the caller has one.           *)
(* Mutant of BatchRefs: one reference for each.                            *)
BatchRefsAll(n) == n
BatchRefs(n) == n - 1

Lowest(S, n) == { r \in S : Cardinality({ x \in S : x <= r }) <= n }
Descending(S) ==
  [i \in 1 .. Cardinality(S) |-> CHOOSE r \in S : Cardinality({ x \in S : x >= r }) = i]

Want(t) == IF task[t].plugged /\ Op(t) # "exec" THEN task[t].nr_ios ELSE 1

(* There is none for a batch: one is waited for, no matter how many come.  *)
BatchFails(t) ==
  /\ At(t, "prepare") /\ Op(t) # "merged" /\ th[t].list = <<>> /\ m.free = {} /\ Want(t) > 1
  /\ task' = [task EXCEPT ![t].nr_ios = 1]
  /\ UNCHANGED <<gateVars, sc, m, th, tw>>

Alloc(t) ==
  LET got == Lowest(m.free, Want(t))
  IN /\ At(t, "prepare") /\ Op(t) # "merged" /\ th[t].list = <<>> /\ m.free # {}
     /\ GetMany(BatchRefs(Cardinality(got)))
     /\ m' = AllocRequests(m, got, t, Kind(Op(t)))
     /\ task' = [task EXCEPT ![t].cached = Tail(Descending(got)) \o @,
                             ![t].nr_ios = IF Op(t) = "exec" THEN @ ELSE 1]
     /\ Frame(t, [th[t] EXCEPT !.list = <<Head(Descending(got))>>])
     /\ UNCHANGED <<quiesceVars, sc, tw>>

Has(t) == At(t, "prepare") /\ Op(t) # "merged" /\ th[t].list # <<>>

(* blk_crypto_rq_get_keyslot fails: the bio ends, the request is freed.    *)
NoKeyslot(t) ==
  /\ Has(t) /\ Op(t) # "exec" /\ m.trouble > 0
  /\ m' = [m EXCEPT !.trouble = @ - 1, !.ended[t] = @ + 1, !.fin[Head(th[t].list)] = "free"]
  /\ task' = OpDone(t)
  /\ Frame(t, NoFrame)
  /\ UNCHANGED <<gateVars, sc, tw>>

(* blk_add_rq_to_plug *)
Plug(t) ==
  /\ Has(t) /\ task[t].plugged /\ Op(t) # "exec"
  /\ task' = [task EXCEPT ![t].plug = @ \o th[t].list, ![t].ops = Tail(@)]
  /\ Frame(t, NoFrame)
  /\ UNCHANGED <<gateVars, sc, m, tw>>

(* With an elevator or a busy device the request is inserted.              *)
InsertBio(t) ==
  /\ Has(t) /\ ~task[t].plugged /\ Op(t) # "exec"
  /\ sc.elevator \/ m.busy > 0
  /\ m' = InsertTail(m, Head(th[t].list))
  /\ Frame(t, [th[t] EXCEPT !.pc = "run_queue", !.list = <<>>, !.why = "async"])
  /\ task' = OpDone(t)
  /\ UNCHANGED <<gateVars, sc, tw>>

(* blk_mq_try_issue_directly *)
TryIssue(t) ==
  LET r == Head(th[t].list)
      async == IF Op(t) = "nowait" THEN "async" ELSE ""
  IN /\ Has(t) /\ ~task[t].plugged /\ Op(t) # "exec"
     /\ ~sc.elevator /\ m.busy = 0
     /\ \/ /\ m.stopped \/ ~MayDispatch
           /\ Frame(t, [th[t] EXCEPT !.pc = "insert"])
           /\ UNCHANGED <<m, quiesceVars>>
        \/ /\ ~m.stopped /\ EnterSection(t)
           /\ IF m.budgets > 0
              THEN /\ m' = [m EXCEPT !.budgets = @ - 1, !.rq[r].budget = TRUE]
                   /\ Frame(t, [th[t] EXCEPT !.pc = "queue", !.phase = "try"])
              ELSE Frame(t, [th[t] EXCEPT !.pc = "insert", !.why = async]) /\ UNCHANGED m
     /\ task' = OpDone(t)
     /\ UNCHANGED <<freezeVars, sc, tw>>

(* blk_execute_rq: straight to hctx->dispatch, and wait.                   *)
Execute(t) ==
  /\ Has(t) /\ Op(t) = "exec"
  /\ m' = BypassInsert(m, Head(th[t].list))
  /\ Frame(t, [th[t] EXCEPT !.pc = "run_queue", !.list = <<>>, !.ret = "wait"])
  /\ UNCHANGED <<gateVars, sc, task, tw>>

Executed(t) ==
  /\ At(t, "wait")
  /\ \E r \in Requests :
       /\ m.fin[r] = "owned" /\ m.rq[r].by = t
       /\ m' = [m EXCEPT !.fin[r] = "free"]
  /\ Frame(t, NoFrame)
  /\ task' = OpDone(t)
  /\ UNCHANGED <<gateVars, sc, tw>>

-----------------------------------------------------------------------------
(* blk_start_plug_nr_ios and blk_finish_plug (external).                   *)

StartPlug(t) ==
  /\ Ready(t, {"plug"})
  /\ task' = [task EXCEPT ![t].ops = Tail(@), ![t].plugged = TRUE, ![t].nr_ios = sc.nr_ios]
  /\ UNCHANGED <<gateVars, sc, m, th, tw>>

(* blk_mq_free_plug_rqs *)
FreeCached(c, t) ==
  [c EXCEPT !.fin = [r \in Requests |-> IF r \in Range(task[t].cached) THEN "free" ELSE @[r]]]

(* blk_mq_dispatch_list inserts under a reference of its own, which it     *)
(* holds until the queue has been run.                                     *)
DispatchList(t, list) ==
  /\ GetMany(1)
  /\ Frame(t, [NoFrame EXCEPT !.pc = "insert_rest", !.list = list, !.ret = "unref"])

(* blk_mq_flush_plug_list(plug, false) *)
FlushPlug(t) ==
  /\ Ready(t, {"unplug"}) /\ task[t].plug # <<>>
  /\ task' = [task EXCEPT ![t].plug = <<>>]
  /\ IF sc.elevator THEN DispatchList(t, task[t].plug)
     ELSE /\ Frame(t, [NoFrame EXCEPT !.pc = "issue", !.phase = "direct", !.list = task[t].plug])
          /\ UNCHANGED freezeVars
  /\ UNCHANGED <<quiesceVars, sc, m, tw>>

(* What blk_mq_issue_direct has left: blk_mq_insert_requests tries again.  *)
FlushRest(t) ==
  /\ At(t, "rest")
  /\ IF m.busy > 0 THEN DispatchList(t, th[t].list)
     ELSE /\ GetMany(1)
          /\ Frame(t, [NoFrame EXCEPT !.pc = "issue", !.phase = "many", !.list = th[t].list])
  /\ UNCHANGED <<quiesceVars, sc, m, task, tw>>

FinishPlug(t) ==
  /\ Ready(t, {"unplug"}) /\ task[t].plug = <<>>
  /\ m' = FreeCached(m, t)
  /\ task' = [task EXCEPT ![t].ops = Tail(@), ![t].plugged = FALSE, ![t].cached = <<>>]
  /\ UNCHANGED <<gateVars, sc, th, tw>>

(* A task that sleeps has its plug flushed, and its cached requests freed: *)
(* the task would hold up a freeze that waits for them.                    *)
Sleeps(t) ==
  \/ Ready(t, Bios \union {"exec"}) /\ mq_freeze_depth > 0 /\ task[t].cached = <<>>
  \/ At(t, "prepare") /\ th[t].list = <<>> /\ m.free = {} /\ Want(t) = 1
  \/ Ready(t, {"sleep"})

FlushAsleep(t) ==
  /\ Sleeps(t) /\ (task[t].plug # <<>> \/ task[t].cached # <<>>)
  /\ m' = RunAsync([FreeCached(m, t) EXCEPT !.sw = @ \o task[t].plug], quiesced)
  /\ task' = [task EXCEPT ![t].plug = <<>>, ![t].cached = <<>>]
  /\ UNCHANGED <<gateVars, sc, th, tw>>

Wakes(t) ==
  /\ Ready(t, {"sleep"}) /\ task[t].plug = <<>> /\ task[t].cached = <<>>
  /\ task' = OpDone(t)
  /\ UNCHANGED <<gateVars, sc, m, th, tw>>

-----------------------------------------------------------------------------
(* Freeze, quiesce, stop.                                                  *)

Freeze(t) ==
  /\ Ready(t, {"freeze"})
  /\ __blk_freeze_queue_start(t)
  /\ Frame(t, IF mq_freeze_depth = 0 THEN [NoFrame EXCEPT !.pc = "run_queue", !.ret = "drain"]
              ELSE [NoFrame EXCEPT !.pc = "drain"])
  /\ UNCHANGED <<quiesceVars, sc, m, task, tw>>

FreezeReturns(t) ==
  /\ At(t, "drain")
  /\ blk_mq_freeze_queue_wait(t)
  /\ Frame(t, NoFrame)
  /\ task' = OpDone(t)
  /\ UNCHANGED <<quiesceVars, sc, m, tw>>

Unfreeze(t) ==
  /\ Ready(t, {"unfreeze"})
  /\ __blk_mq_unfreeze_queue(t)
  /\ task' = OpDone(t)
  /\ UNCHANGED <<quiesceVars, sc, m, th, tw>>

Quiesce(t) ==
  /\ Ready(t, {"quiesce"})
  /\ blk_mq_quiesce_queue(t)
  /\ Frame(t, [NoFrame EXCEPT !.pc = "quiesce"])
  /\ UNCHANGED <<freezeVars, sc, m, task, tw>>

QuiesceReturns(t) ==
  /\ At(t, "quiesce")
  /\ QuiesceDone(t)
  /\ Frame(t, NoFrame)
  /\ task' = OpDone(t)
  /\ UNCHANGED <<freezeVars, sc, m, tw>>

(* What was inserted meanwhile is dispatched.                              *)
(* Mutant: it is left there.                                               *)
UnquiesceOnly(t) == m
Unquiesced(t) == IF quiesce_depth = 1 THEN RunAsync(m, FALSE) ELSE m

Unquiesce(t) ==
  /\ Ready(t, {"unquiesce"})
  /\ blk_mq_unquiesce_queue(t)
  /\ m' = Unquiesced(t)
  /\ task' = OpDone(t)
  /\ UNCHANGED <<freezeVars, sc, th, tw>>

StopStart(t) ==
  /\ \/ Ready(t, {"stop"}) /\ m' = [m EXCEPT !.stopped = TRUE, !.run = FALSE]
     \/ Ready(t, {"start"}) /\ m' = IF m.stopped THEN RunAsync([m EXCEPT !.stopped = FALSE], quiesced) ELSE m
  /\ task' = OpDone(t)
  /\ UNCHANGED <<gateVars, sc, th, tw>>

-----------------------------------------------------------------------------
(* blk_mq_run_work_fn, blk_mq_requeue_work *)

RunWork ==
  /\ m.run /\ At("kblockd", "idle")
  /\ m' = [m EXCEPT !.run = FALSE]
  /\ Frame("kblockd", [NoFrame EXCEPT !.pc = "run"])
  /\ UNCHANGED <<gateVars, sc, task, tw>>

RequeueWork ==
  /\ m.kick /\ At("requeue", "idle")
  /\ m' = [m EXCEPT !.kick = FALSE, !.requeue = <<>>]
  /\ Frame("requeue", [NoFrame EXCEPT !.pc = "reinsert", !.list = m.requeue])
  /\ UNCHANGED <<gateVars, sc, task, tw>>

Reinserted(c, r) ==
  IF sc.dontprep THEN BypassInsert(c, r)
  ELSE IF c.rq[r].kind = "exec" THEN [c EXCEPT !.dispatch = <<r>> \o @]
  ELSE [c EXCEPT !.sw = <<r>> \o @]

Reinsert ==
  LET f == th["requeue"]
  IN /\ At("requeue", "reinsert")
     /\ IF f.list = <<>>
        THEN Frame("requeue", RunSync(m, f, "idle")) /\ UNCHANGED m
        ELSE /\ m' = Reinserted(m, Head(f.list))
             /\ Frame("requeue", [f EXCEPT !.list = Tail(@)])
     /\ UNCHANGED <<gateVars, sc, task, tw>>

-----------------------------------------------------------------------------
(* Completion.                                                             *)

DeviceDone ==
  /\ \E r \in m.hw \ m.lost :
       LET c == TakenFromDevice(m, r, quiesced)
       IN m' \in {CompleteLocally(c, r), CompleteRemotely(c, r)} \union
                 (IF sc.batch /\ ~sc.elevator /\ m.rq[r].kind # "exec" THEN {[c EXCEPT !.fin[r] = "batch"]} ELSE {})
  /\ UNCHANGED <<gateVars, sc, th, task, tw>>

blk_done_softirq ==
  /\ m.softirq /\ m' = blk_complete_reqs(m)
  /\ UNCHANGED <<gateVars, sc, th, task, tw>>

(* ->complete: the driver ends the request or sends it back.               *)
DriverCompletes ==
  /\ \E r \in Requests :
       /\ m.fin[r] = "complete"
       /\ \/ m' = blk_mq_end_request(m, r)
          \/ /\ m.retries > 0
             /\ m' = [blk_mq_requeue_request(m, r, quiesced) EXCEPT !.retries = @ - 1, !.fin[r] = ""]
  /\ UNCHANGED <<gateVars, sc, th, task, tw>>

FreeRequest ==
  /\ \E r \in Requests : m.fin[r] = "free" /\ m' = blk_mq_free_request(m, r, "tags")
  /\ UNCHANGED <<gateVars, sc, th, task, tw>>

FreeTags ==
  /\ \E r \in Requests :
       m.fin[r] = "tags" /\ m' = [PutTags(m, r, quiesced) EXCEPT !.exiting = @ + 1]
  /\ UNCHANGED <<gateVars, sc, th, task, tw>>

FreeExit ==
  /\ m.exiting > 0
  /\ m' = [blk_mq_sched_restart(m, quiesced) EXCEPT !.exiting = @ - 1]
  /\ PutMany(1)
  /\ UNCHANGED <<quiesceVars, sc, th, task, tw>>

(* blk_mq_end_request_batch: no restart, the tags of all its requests at   *)
(* once and then their references.                                         *)
EndBatch ==
  /\ \E r \in Requests :
       /\ m.fin[r] = "batch"
       /\ m' = blk_mq_free_request([m EXCEPT !.ended[m.rq[r].by] = @ + 1], r, "flush")
  /\ UNCHANGED <<gateVars, sc, th, task, tw>>

FlushTagBatch ==
  LET S == { r \in Requests : m.fin[r] = "flush" }
  IN /\ S # {}
     /\ m' = [blk_mq_put_tags(m, S) EXCEPT !.flushed = @ + Cardinality(S)]
     /\ UNCHANGED <<gateVars, sc, th, task, tw>>

FlushExit ==
  /\ m.flushed > 0
  /\ m' = [m EXCEPT !.flushed = 0]
  /\ PutMany(m.flushed)
  /\ UNCHANGED <<quiesceVars, sc, th, task, tw>>

(* Another queue that shares the tags.                                     *)
OtherQueue ==
  /\ \/ \E g \in m.foreign :
          m' = blk_mq_dispatch_wake([m EXCEPT !.foreign = @ \ {g}, !.tags = @ \union {g}], quiesced)
     \/ \E g \in m.tags : sc.shared /\ m.steals > 0
          /\ m' = [m EXCEPT !.foreign = @ \union {g}, !.tags = @ \ {g}, !.steals = @ - 1]
  /\ UNCHANGED <<gateVars, sc, th, task, tw>>

-----------------------------------------------------------------------------
(* Timeouts.  A start takes less time than rq_timeout.  sc.clock bounds    *)
(* the time; where it is 0 all is over before the first timer goes off.    *)

Tick ==
  /\ m.timer > m.now /\ m.now < sc.clock /\ \A t \in Threads : ~At(t, "start") /\ ~At(t, "started")
  /\ m' = [m EXCEPT !.now = @ + 1]
  /\ UNCHANGED <<gateVars, sc, th, task, tw>>

TimerExpires ==
  /\ m.timer # 0 /\ m.timer <= m.now
  /\ m' = [m EXCEPT !.timer = 0, !.work = TRUE]
  /\ UNCHANGED <<gateVars, sc, th, task, tw>>

TimeoutWork ==
  /\ m.work /\ tw.pc = "idle"
  /\ m' = [m EXCEPT !.work = FALSE]
  /\ IF TryGet
     THEN TakeRef /\ tw' = [NoTimeout EXCEPT !.pc = "check", !.start = m.now]
     ELSE UNCHANGED <<freezeVars, tw>>
  /\ UNCHANGED <<quiesceVars, sc, th, task>>

(* blk_mq_req_expired, and the deadline it leaves in next.                 *)
Ticking(r) == m.rq[r].state = "IN_FLIGHT" /\ ~m.rq[r].timed_out
Expired(r) == Ticking(r) /\ tw.start >= m.rq[r].deadline
NextDeadline(r) ==
  IF Ticking(r) /\ (tw.next = 0 \/ tw.next > m.rq[r].deadline) THEN m.rq[r].deadline ELSE tw.next

blk_mq_check_expired ==
  /\ tw.pc = "check"
  /\ tw' = IF tw.i \notin Requests THEN [tw EXCEPT !.pc = "rearm"]
           ELSE IF Expired(tw.i) THEN [tw EXCEPT !.pc = "sync"]
           ELSE [tw EXCEPT !.next = NextDeadline(tw.i), !.i = @ + 1]
  /\ UNCHANGED <<gateVars, sc, m, th, task>>

TimeoutSync ==
  /\ \/ /\ tw.pc = "sync" /\ WaitForSubmits("timer")
        /\ tw' = [tw EXCEPT !.pc = "wait"]
     \/ /\ tw.pc = "wait" /\ blk_mq_wait_quiesce_done("timer")
        /\ tw' = [tw EXCEPT !.pc = "handle", !.next = 0, !.i = 1]
        /\ UNCHANGED quiesceVars
  /\ UNCHANGED <<freezeVars, sc, m, th, task>>

(* The walk takes a reference of the requests that have one.               *)
blk_mq_handle_expired ==
  /\ tw.pc = "handle"
  /\ IF tw.i \in Requests /\ m.rq[tw.i].ref > 0 /\ Expired(tw.i)
     THEN m' = [m EXCEPT !.rq[tw.i].ref = @ + 1] /\ tw' = [tw EXCEPT !.pc = "timeout"]
     ELSE /\ tw' = IF tw.i \notin Requests THEN [tw EXCEPT !.pc = "rearm"]
                   ELSE [tw EXCEPT !.next = NextDeadline(tw.i), !.i = @ + 1]
          /\ UNCHANGED m
  /\ UNCHANGED <<gateVars, sc, th, task>>

(* ->timeout: nothing is left to do for a request the device has just      *)
(* completed; another one is taken from the device and completed, or it is *)
(* given more time.                                                        *)
blk_mq_rq_timed_out ==
  LET r == tw.i
      c == [m EXCEPT !.rq[r].timed_out = TRUE]
  IN /\ tw.pc = "timeout"
     /\ \/ r \notin m.hw /\ m' = c
        \/ r \in m.hw /\ m' = CompleteLocally(TakenFromDevice(c, r, quiesced), r)
        \/ r \in m.hw /\ m.resets > 0 /\ m' = [blk_add_timer(c, r) EXCEPT !.resets = @ - 1]
     /\ tw' = [tw EXCEPT !.pc = "put"]
     /\ UNCHANGED <<gateVars, sc, th, task>>

blk_mq_put_rq_ref ==
  /\ tw.pc = "put"
  /\ m' = PutRqRef(m, tw.i, "tags")
  /\ tw' = [tw EXCEPT !.pc = "handle", !.i = @ + 1]
  /\ UNCHANGED <<gateVars, sc, th, task>>

TimeoutRearm ==
  /\ tw.pc = "rearm"
  /\ m' = [m EXCEPT !.timer = IF tw.next = 0 THEN @ ELSE tw.next]
  /\ tw' = NoTimeout
  /\ PutMany(1)
  /\ UNCHANGED <<quiesceVars, sc, th, task>>

-----------------------------------------------------------------------------
Dispatches(t) ==
  \/ Run(t) \/ NextRequest(t) \/ EndRun(t) \/ Prep(t) \/ MarkTagWait(t) \/ RetryTag(t)
  \/ Splice(t) \/ CheckRestart(t) \/ QueueRq(t) \/ StartRq(t) \/ QueueFails(t) \/ QueueRefuses(t)
  \/ StartInVain(t) \/ StartedRefuses(t)

TaskStep(t) ==
  \/ Dispatches(t) \/ IssueNext(t) \/ InsertRequest(t) \/ InsertRest(t) \/ blk_mq_run_hw_queue(t)
  \/ SubmitCached(t) \/ SubmitEnter(t) \/ EnterWouldBlock(t) \/ NoRequest(t) \/ BatchFails(t) \/ Alloc(t)
  \/ NoKeyslot(t) \/ Plug(t) \/ InsertBio(t) \/ TryIssue(t) \/ Execute(t) \/ Executed(t)
  \/ StartPlug(t) \/ FlushPlug(t) \/ FlushRest(t) \/ FinishPlug(t) \/ FlushAsleep(t) \/ Wakes(t)
  \/ Freeze(t) \/ FreezeReturns(t) \/ Unfreeze(t)
  \/ Quiesce(t) \/ QuiesceReturns(t) \/ Unquiesce(t) \/ StopStart(t)

Ending ==
  \/ blk_done_softirq \/ DriverCompletes \/ FreeRequest \/ FreeTags \/ FreeExit
  \/ EndBatch \/ FlushTagBatch \/ FlushExit

TimeoutStep ==
  \/ TimeoutWork \/ blk_mq_check_expired \/ TimeoutSync \/ blk_mq_handle_expired
  \/ blk_mq_rq_timed_out \/ blk_mq_put_rq_ref \/ TimeoutRearm

Next ==
  \/ \E t \in Tasks : TaskStep(t)
  \/ \E w \in Workers : Dispatches(w)
  \/ RunWork \/ RequeueWork \/ Reinsert
  \/ DeviceDone \/ Ending \/ OtherQueue
  \/ Tick \/ TimerExpires \/ TimeoutStep

Spec ==
  /\ Init /\ [][Next]_vars
  /\ \A t \in Tasks : WF_vars(TaskStep(t))
  /\ WF_vars(RunWork \/ Dispatches("kblockd"))
  /\ WF_vars(RequeueWork \/ Reinsert \/ Dispatches("requeue"))
  /\ WF_vars(DeviceDone) /\ WF_vars(Ending) /\ WF_vars(OtherQueue)
  /\ WF_vars(Tick \/ TimerExpires) /\ WF_vars(TimeoutStep)

-----------------------------------------------------------------------------
(* How often a request is anywhere, and who else refers to it.             *)
Count(list, r) == Cardinality({ i \in DOMAIN list : list[i] = r })
ListsOf(t) == th[t].list \o th[t].save \o (IF t \in Tasks THEN task[t].plug \o task[t].cached ELSE <<>>)
Places(r) ==
  LET lists == FoldSet(LAMBDA t, acc : acc \o ListsOf(t), <<>>, Threads)
  IN Count(m.sw \o m.dispatch \o m.requeue \o m.done \o lists, r)
     + Cardinality({ x \in {"hw", "fin"} : (x = "hw" /\ r \in m.hw) \/ (x = "fin" /\ m.fin[r] # "") })
Unreferenced(r) == m.fin[r] \in {"tags", "flush"}
HeldByTimeout(r) == tw.pc \in {"timeout", "put"} /\ tw.i = r

(* Every request that is not free is on one list, in one hand, and has the *)
(* references that its owner and blk_mq_timeout_work hold: none is lost,   *)
(* dispatched twice or reused under the timeout (blk-mq.c:1710, :2186,     *)
(* :2586, :2994).                                                          *)
RequestsOwned ==
  \A r \in Requests :
    LET n == Places(r)
    IN /\ n <= 1
       /\ (r \in m.free \/ r > sc.requests) => n = 0 /\ ~HeldByTimeout(r)
       /\ (r \notin m.free /\ r <= sc.requests) => n = 1 \/ HeldByTimeout(r)
       /\ m.rq[r].ref = (IF Unreferenced(r) THEN 0 ELSE n) + (IF HeldByTimeout(r) THEN 1 ELSE 0)

(* q_usage_counter counts each request from its allocation, in a batch or  *)
(* alone, to the end of its freeing, the tasks that have entered and have  *)
(* no request yet, the timeout work and the flushes of plugs (blk-mq.c:503,*)
(* :823, :1201, :1770, :2964, :3265).                                      *)
UsageExact ==
  usage = Cardinality({ r \in Requests : r <= sc.requests /\ r \notin m.free })
          + m.exiting + m.flushed
          + Cardinality({ t \in Tasks : At(t, "prepare") /\ th[t].list = <<>> })
          + Cardinality({ t \in Tasks : "many" \in {th[t].phase, th[t].ret}
                                          \/ th[t].ret \in {"unref", "insert_rest"} })
          + (IF tw.pc = "idle" THEN 0 ELSE 1)

(* No tag and no budget is lost or given out twice, whatever the driver    *)
(* refuses, fails, loses or sends back (blk-mq.c:1546, :2057, :2095).      *)
NothingLeaks ==
  /\ m.budgets + Cardinality({ r \in Requests : m.rq[r].budget }) = sc.budgets
  /\ sc.elevator =>
       LET used == { r \in Requests : m.rq[r].tag # 0 }
       IN /\ \A r, s \in used : m.rq[r].tag = m.rq[s].tag => r = s
          /\ { m.rq[r].tag : r \in used } \intersect (m.tags \union m.foreign) = {}
          /\ Cardinality(used) + Cardinality(m.tags) + Cardinality(m.foreign) = sc.tags

(* While the queue is quiesced no request goes to the driver, whichever of *)
(* the paths of blk_mq_dispatch_rq_list, blk_mq_try_issue_directly and     *)
(* blk_mq_issue_direct it has come by (blk-mq.c:303, :2785, :2817).        *)
QuiescedStaysOut ==
  [][\A t \in Threads : quiescing[t] = "quiet" => m'.hw \subseteq m.hw]_vars

(* The users of the queue keep to what freeze and quiesce rely on.         *)
ImplementsGate == GateSpec

(* Every bio ends, every call of a task returns and no request is left     *)
(* behind: not in a list nobody runs, not in the device that has lost it,  *)
(* not behind a freeze (blk-mq.c:199, :337, :1788, :1997, :2239).          *)
Expected(t) == Cardinality({ i \in DOMAIN sc.ops[t] : sc.ops[t][i] \in Bios \union {"exec"} })
AllDone ==
  /\ \A t \in Tasks : At(t, "idle") /\ task[t].ops = <<>> /\ m.ended[t] = Expected(t)
  /\ usage = 0
AllReturn == <>AllDone

(* While no timer is pending and no timeout work is on its way, no request *)
(* is in flight (blk-mq.c:1791).                                           *)
WatchedByTimer ==
  (m.timer = 0 /\ ~m.work /\ tw.pc = "idle") => \A r \in Requests : ~Ticking(r)
=============================================================================
