----------------------------- MODULE QueueGate -----------------------------
(* Who may be inside a request queue (block/blk-mq.c).  q_usage_counter    *)
(* counts the users; a freeze turns new ones away and waits for the others *)
(* to leave, and a quiesce waits for the dispatches under way.  `section'  *)
(* is the set of threads inside blk_mq_run_dispatch_ops that have found    *)
(* the queue not quiesced: those that find it quiesced issue nothing until *)
(* they find it otherwise.  synchronize_rcu waits for the threads that are *)
(* inside when it starts.                                                  *)
EXTENDS Integers, FiniteSets

CONSTANT Threads

VARIABLES
  mq_freeze_depth,
  usage,          \* q_usage_counter, without the reference percpu_ref_kill drops
  freezing,       \* by thread: between freeze and unfreeze, and whether it waits
  quiesce_depth,
  quiescing,      \* by thread: between quiesce and unquiesce, and whether it waits
  section,
  grace           \* by thread: the dispatches its synchronize_rcu waits for

freezeVars == <<mq_freeze_depth, usage, freezing>>
quiesceVars == <<quiesce_depth, quiescing, section, grace>>
gateVars == <<freezeVars, quiesceVars>>

GateInit ==
  /\ mq_freeze_depth = 0 /\ usage = 0 /\ freezing = [t \in Threads |-> "no"]
  /\ quiesce_depth = 0 /\ quiescing = [t \in Threads |-> "no"]
  /\ section = {} /\ grace = [t \in Threads |-> {}]

-----------------------------------------------------------------------------
(* percpu_ref_tryget_live in blk_queue_enter, percpu_ref_tryget,           *)
(* percpu_ref_get_many by a user, percpu_ref_put_many.                     *)
Enter == mq_freeze_depth = 0 /\ usage' = usage + 1 /\ UNCHANGED <<mq_freeze_depth, freezing>>

(* Mutant of TryGet: it is blk_queue_enter, which a freeze turns away.     *)
TryGetLive == mq_freeze_depth = 0
TryGet == mq_freeze_depth = 0 \/ usage > 0
TakeRef == usage' = usage + 1 /\ UNCHANGED <<mq_freeze_depth, freezing>>

GetMany(n) ==
  /\ usage > 0 /\ n \in Nat
  /\ usage' = usage + n
  /\ UNCHANGED <<mq_freeze_depth, freezing>>

PutMany(n) ==
  /\ n \in 0 .. usage
  /\ usage' = usage - n
  /\ UNCHANGED <<mq_freeze_depth, freezing>>

__blk_freeze_queue_start(t) ==
  /\ freezing[t] = "no"
  /\ mq_freeze_depth' = mq_freeze_depth + 1
  /\ freezing' = [freezing EXCEPT ![t] = "draining"]
  /\ UNCHANGED usage

(* Mutant of Drained: users that came before the freeze are forgotten.     *)
DrainedEarly == usage <= 1
Drained == usage = 0

blk_mq_freeze_queue_wait(t) ==
  /\ freezing[t] = "draining" /\ Drained
  /\ freezing' = [freezing EXCEPT ![t] = "frozen"]
  /\ UNCHANGED <<mq_freeze_depth, usage>>

(* Also by a thread whose blk_mq_freeze_queue_wait_timeout gave up.        *)
__blk_mq_unfreeze_queue(t) ==
  /\ freezing[t] # "no"
  /\ mq_freeze_depth' = mq_freeze_depth - 1
  /\ freezing' = [freezing EXCEPT ![t] = "no"]
  /\ UNCHANGED usage

-----------------------------------------------------------------------------
blk_queue_quiesced == quiesce_depth > 0

(* synchronize_rcu begins.  Mutant: it waits for nobody.                   *)
GraceSkipped(t) == grace' = [grace EXCEPT ![t] = {}]
GraceBegins(t) == grace' = [grace EXCEPT ![t] = section]

blk_mq_quiesce_queue(t) ==
  /\ quiescing[t] = "no"
  /\ quiesce_depth' = quiesce_depth + 1
  /\ quiescing' = [quiescing EXCEPT ![t] = "waiting"]
  /\ GraceBegins(t)
  /\ UNCHANGED section

blk_mq_wait_quiesce_done(t) == grace[t] = {}

QuiesceDone(t) ==
  /\ quiescing[t] = "waiting" /\ blk_mq_wait_quiesce_done(t)
  /\ quiescing' = [quiescing EXCEPT ![t] = "quiet"]
  /\ UNCHANGED <<quiesce_depth, section, grace>>

blk_mq_unquiesce_queue(t) ==
  /\ quiescing[t] = "quiet"
  /\ quiesce_depth' = quiesce_depth - 1
  /\ quiescing' = [quiescing EXCEPT ![t] = "no"]
  /\ UNCHANGED <<section, grace>>

(* blk_mq_timeout_work waits as well, without a quiesce.                   *)
WaitForSubmits(t) ==
  /\ quiescing[t] = "no"
  /\ GraceBegins(t)
  /\ UNCHANGED <<quiesce_depth, quiescing, section>>

(* Mutant of MayDispatch: what was seen before the section is believed.    *)
MayDispatchStale == TRUE
MayDispatch == ~blk_queue_quiesced

EnterSection(t) ==
  /\ MayDispatch
  /\ section' = section \union {t}
  /\ UNCHANGED <<quiesce_depth, quiescing, grace>>

LeaveSection(t) ==
  /\ section' = section \ {t}
  /\ grace' = [s \in Threads |-> grace[s] \ {t}]
  /\ UNCHANGED <<quiesce_depth, quiescing>>

-----------------------------------------------------------------------------
FreezeStep ==
  \/ Enter \/ (TryGet /\ TakeRef)
  \/ GetMany(usage' - usage) \/ PutMany(usage - usage')
  \/ \E t \in Threads :
       \/ __blk_freeze_queue_start(t) \/ blk_mq_freeze_queue_wait(t)
       \/ __blk_mq_unfreeze_queue(t)

QuiesceStep ==
  \E t \in Threads :
    \/ blk_mq_quiesce_queue(t) \/ QuiesceDone(t) \/ blk_mq_unquiesce_queue(t)
    \/ WaitForSubmits(t) \/ EnterSection(t) \/ LeaveSection(t)

(* A step of a program may touch both sides.                               *)
GateNext ==
  /\ FreezeStep \/ UNCHANGED freezeVars
  /\ QuiesceStep \/ UNCHANGED quiesceVars

GateSpec == GateInit /\ [][GateNext]_gateVars

-----------------------------------------------------------------------------
(* Between the return of blk_mq_freeze_queue and the unfreeze nobody holds *)
(* a reference of q_usage_counter, whoever else freezes and unfreezes: not *)
(* even blk_mq_timeout_work can get one (blk-mq.c:199, :1770).             *)
FrozenIsEmpty == \A t \in Threads : freezing[t] = "frozen" => usage = 0

(* Once blk_mq_quiesce_queue has returned no thread is between the check   *)
(* of the quiesce and the end of its dispatch (blk-mq.c:303 "we make sure  *)
(* no dispatch can happen until the queue is unquiesced").                 *)
QuietNoDispatch == \A t \in Threads : quiescing[t] = "quiet" => section = {}
=============================================================================
