--------------------------- MODULE HwQueueProofs ---------------------------
(* Whatever the tasks, the workers and the device do, for any scenario,    *)
(* the users of the queue keep to the protocol of QueueGate: so a frozen   *)
(* queue is empty and nothing is dispatched in a quiesced one.             *)
EXTENDS HwQueue, TLAPS

(* The members of S, numbered from 1 to n.                                 *)
Counts(n, S) ==
  /\ n \in Nat
  /\ \E f \in [1 .. n -> S] :
       /\ \A i, j \in 1 .. n : f[i] = f[j] => i = j
       /\ \A x \in S : \E i \in 1 .. n : f[i] = x

Freezers == { t \in Threads : freezing[t] # "no" }
Quiescers == { t \in Threads : quiescing[t] # "no" }

FreezeType ==
  /\ usage \in Nat
  /\ freezing \in [Threads -> {"no", "draining", "frozen"}]

(* The inductive invariant of the freezes.                                 *)
FreezeInv ==
  /\ FreezeType
  /\ Counts(mq_freeze_depth, Freezers)
  /\ FrozenIsEmpty

QuiesceType ==
  /\ quiescing \in [Threads -> {"no", "waiting", "quiet"}]
  /\ section \subseteq Threads
  /\ grace \in [Threads -> SUBSET Threads]

(* The inductive invariant of the quiesces.                                *)
QuiesceInv ==
  /\ QuiesceType
  /\ Counts(quiesce_depth, Quiescers)
  /\ \A t \in Threads : quiescing[t] = "waiting" => section \subseteq grace[t]
  /\ QuietNoDispatch

-----------------------------------------------------------------------------
(* A count is 0 when nobody is counted, and only then.                     *)
LEMMA CountsNone ==
  ASSUME NEW n, NEW S, Counts(n, S)
  PROVE  n \in Nat /\ (n = 0 <=> S = {})
<1>1. PICK f \in [1 .. n -> S] : \A x \in S : \E i \in 1 .. n : f[i] = x
  BY DEF Counts
<1>2. n \in Nat
  BY DEF Counts
<1>3. ASSUME n # 0 PROVE S # {}
  <2>1. 1 \in 1 .. n
    BY <1>2, <1>3
  <2>2. QED
    BY <1>1, <2>1
<1>4. ASSUME n = 0 PROVE S = {}
  BY <1>1, <1>4
<1>5. QED
  BY <1>2, <1>3, <1>4

(* A thread that begins is counted.                                        *)
LEMMA CountsMore ==
  ASSUME NEW n, NEW S, Counts(n, S), NEW t, t \notin S
  PROVE  Counts(n + 1, S \union {t})
<1>1. PICK f \in [1 .. n -> S] :
        /\ \A i, j \in 1 .. n : f[i] = f[j] => i = j
        /\ \A x \in S : \E i \in 1 .. n : f[i] = x
  BY DEF Counts
<1>2. n \in Nat
  BY DEF Counts
<1> DEFINE g == [i \in 1 .. n + 1 |-> IF i = n + 1 THEN t ELSE f[i]]
<1>3. g \in [1 .. n + 1 -> S \union {t}]
  BY <1>1, <1>2
<1>4. \A i, j \in 1 .. n + 1 : g[i] = g[j] => i = j
  BY <1>1, <1>2
<1>5. \A x \in S \union {t} : \E i \in 1 .. n + 1 : g[i] = x
  <2>1. g[n + 1] = t /\ n + 1 \in 1 .. n + 1
    BY <1>2
  <2>2. \A i \in 1 .. n : i \in 1 .. n + 1 /\ g[i] = f[i]
    BY <1>2
  <2>3. QED
    BY <1>1, <2>1, <2>2, Zenon
<1>6. n + 1 \in Nat
  BY <1>2
<1> HIDE DEF g
<1>7. QED
  BY <1>3, <1>4, <1>5, <1>6, Zenon DEF Counts

(* A thread that ends is not: the last one takes its number.               *)
LEMMA CountsFewer ==
  ASSUME NEW n, NEW S, Counts(n, S), NEW t \in S
  PROVE  Counts(n - 1, S \ {t})
<1>1. PICK f \in [1 .. n -> S] :
        /\ \A i, j \in 1 .. n : f[i] = f[j] => i = j
        /\ \A x \in S : \E i \in 1 .. n : f[i] = x
  BY DEF Counts
<1>2. n \in Nat
  BY DEF Counts
<1>3. PICK k \in 1 .. n : f[k] = t
  BY <1>1
<1> DEFINE g == [i \in 1 .. n - 1 |-> IF i = k THEN f[n] ELSE f[i]]
<1>4. n \in 1 .. n /\ n - 1 \in Nat
  BY <1>2, <1>3
<1>5. g \in [1 .. n - 1 -> S \ {t}]
  BY <1>1, <1>2, <1>3, <1>4
<1>6. \A i, j \in 1 .. n - 1 : g[i] = g[j] => i = j
  BY <1>1, <1>2, <1>3, <1>4
<1>7. ASSUME NEW x \in S \ {t} PROVE \E i \in 1 .. n - 1 : g[i] = x
  <2>1. PICK i \in 1 .. n : f[i] = x
    BY <1>1
  <2>2. i # k
    BY <1>3, <2>1
  <2>3. CASE i = n
    BY <1>2, <1>3, <2>1, <2>2, <2>3
  <2>4. CASE i # n
    BY <1>2, <2>1, <2>2, <2>4
  <2>5. QED
    BY <2>3, <2>4
<1>8. QED
  BY <1>4, <1>5, <1>6, <1>7, Zenon DEF Counts

-----------------------------------------------------------------------------
(* Nobody gets a reference of a queue somebody has frozen.                 *)
LEMMA FrozenIsShut ==
  ASSUME FreezeInv, NEW t \in Threads, freezing[t] = "frozen"
  PROVE  mq_freeze_depth # 0 /\ usage = 0
<1>1. t \in Freezers
  BY DEF Freezers
<1>2. QED
  BY <1>1, CountsNone DEF FreezeInv, FrozenIsEmpty

(* A step that only changes the count of users.                            *)
LEMMA UserStep ==
  ASSUME FreezeInv, usage' \in Nat, UNCHANGED <<mq_freeze_depth, freezing>>,
         (\E t \in Threads : freezing[t] = "frozen") => usage' = 0
  PROVE  FreezeInv'
<1>1. Freezers' = Freezers
  BY DEF Freezers
<1>2. QED
  BY <1>1 DEF FreezeInv, FreezeType, FrozenIsEmpty

(* The freezes keep their invariant.                                       *)
LEMMA FreezeInductive ==
  ASSUME FreezeInv, FreezeStep \/ UNCHANGED freezeVars
  PROVE  FreezeInv'
<1>1. CASE Enter
  <2>1. \A t \in Threads : freezing[t] # "frozen"
    BY <1>1, FrozenIsShut DEF Enter
  <2>2. QED
    BY <1>1, <2>1, UserStep DEF Enter, FreezeInv, FreezeType
<1>2. CASE TryGet /\ TakeRef
  <2>1. \A t \in Threads : freezing[t] # "frozen"
    BY <1>2, FrozenIsShut DEF TryGet
  <2>2. QED
    BY <1>2, <2>1, UserStep DEF TakeRef, FreezeInv, FreezeType
<1>3. CASE GetMany(usage' - usage)
  <2>1. \A t \in Threads : freezing[t] # "frozen"
    BY <1>3, FrozenIsShut DEF GetMany
  <2>2. usage' \in Nat /\ UNCHANGED <<mq_freeze_depth, freezing>>
    BY <1>3 DEF GetMany, FreezeInv, FreezeType
  <2>3. QED
    BY <2>1, <2>2, UserStep
<1>4. CASE PutMany(usage - usage')
  <2>1. usage' \in Nat /\ usage' <= usage /\ UNCHANGED <<mq_freeze_depth, freezing>>
    <3>1. PICK n \in 0 .. usage : usage' = usage - n
      BY <1>4 DEF PutMany
    <3>2. QED
      BY <1>4, <3>1 DEF PutMany, FreezeInv, FreezeType
  <2>2. (\E t \in Threads : freezing[t] = "frozen") => usage' = 0
    BY <2>1, FrozenIsShut
  <2>3. QED
    BY <2>1, <2>2, UserStep
<1>5. ASSUME NEW t \in Threads, __blk_freeze_queue_start(t)
      PROVE  FreezeInv'
  <2>1. freezing' = [freezing EXCEPT ![t] = "draining"] /\ usage' = usage
        /\ mq_freeze_depth' = mq_freeze_depth + 1 /\ freezing[t] = "no"
    BY <1>5 DEF __blk_freeze_queue_start
  <2>2. FreezeType'
    BY <2>1 DEF FreezeInv, FreezeType
  <2>3. Freezers' = Freezers \union {t} /\ t \notin Freezers
    BY <2>1 DEF FreezeInv, FreezeType, Freezers
  <2>4. Counts(mq_freeze_depth, Freezers)'
    BY <2>1, <2>3, CountsMore DEF FreezeInv
  <2>5. FrozenIsEmpty'
    BY <2>1 DEF FreezeInv, FreezeType, FrozenIsEmpty
  <2>6. QED
    BY <2>2, <2>4, <2>5 DEF FreezeInv
<1>6. ASSUME NEW t \in Threads, blk_mq_freeze_queue_wait(t)
      PROVE  FreezeInv'
  <2>1. freezing' = [freezing EXCEPT ![t] = "frozen"] /\ usage' = usage /\ usage = 0
        /\ mq_freeze_depth' = mq_freeze_depth /\ freezing[t] = "draining"
    BY <1>6 DEF blk_mq_freeze_queue_wait, Drained
  <2>2. FreezeType'
    BY <2>1 DEF FreezeInv, FreezeType
  <2>3. Freezers' = Freezers
    BY <2>1 DEF FreezeInv, FreezeType, Freezers
  <2>4. FrozenIsEmpty'
    BY <2>1 DEF FrozenIsEmpty
  <2>5. QED
    BY <2>1, <2>2, <2>3, <2>4 DEF FreezeInv
<1>7. ASSUME NEW t \in Threads, __blk_mq_unfreeze_queue(t)
      PROVE  FreezeInv'
  <2>1. freezing' = [freezing EXCEPT ![t] = "no"] /\ usage' = usage
        /\ mq_freeze_depth' = mq_freeze_depth - 1 /\ freezing[t] # "no"
    BY <1>7 DEF __blk_mq_unfreeze_queue
  <2>2. FreezeType'
    BY <2>1 DEF FreezeInv, FreezeType
  <2>3. Freezers' = Freezers \ {t} /\ t \in Freezers
    BY <2>1 DEF FreezeInv, FreezeType, Freezers
  <2>4. Counts(mq_freeze_depth, Freezers)'
    BY <2>1, <2>3, CountsFewer DEF FreezeInv
  <2>5. FrozenIsEmpty'
    BY <2>1 DEF FreezeInv, FreezeType, FrozenIsEmpty
  <2>6. QED
    BY <2>2, <2>4, <2>5 DEF FreezeInv
<1>8. CASE UNCHANGED freezeVars
  <2>1. Freezers' = Freezers
    BY <1>8 DEF freezeVars, Freezers
  <2>2. QED
    BY <1>8, <2>1 DEF freezeVars, FreezeInv, FreezeType, FrozenIsEmpty
<1>9. QED
  BY <1>1, <1>2, <1>3, <1>4, <1>5, <1>6, <1>7, <1>8 DEF FreezeStep

-----------------------------------------------------------------------------
(* The quiesces keep their invariant.                                      *)
LEMMA QuiesceInductive ==
  ASSUME QuiesceInv, QuiesceStep \/ UNCHANGED quiesceVars
  PROVE  QuiesceInv'
<1>1. ASSUME NEW t \in Threads, blk_mq_quiesce_queue(t)
      PROVE  QuiesceInv'
  <2>1. quiescing' = [quiescing EXCEPT ![t] = "waiting"] /\ section' = section
        /\ grace' = [grace EXCEPT ![t] = section]
        /\ quiesce_depth' = quiesce_depth + 1 /\ quiescing[t] = "no"
    BY <1>1 DEF blk_mq_quiesce_queue, GraceBegins
  <2>2. QuiesceType'
    BY <2>1 DEF QuiesceInv, QuiesceType
  <2>3. Quiescers' = Quiescers \union {t} /\ t \notin Quiescers
    BY <2>1 DEF QuiesceInv, QuiesceType, Quiescers
  <2>4. Counts(quiesce_depth, Quiescers)'
    BY <2>1, <2>3, CountsMore DEF QuiesceInv
  <2>5. \A s \in Threads : quiescing'[s] = "waiting" => section' \subseteq grace'[s]
    BY <2>1 DEF QuiesceInv, QuiesceType
  <2>6. QuietNoDispatch'
    BY <2>1 DEF QuiesceInv, QuiesceType, QuietNoDispatch
  <2>7. QED
    BY <2>2, <2>4, <2>5, <2>6 DEF QuiesceInv
<1>2. ASSUME NEW t \in Threads, QuiesceDone(t)
      PROVE  QuiesceInv'
  <2>1. quiescing' = [quiescing EXCEPT ![t] = "quiet"] /\ section' = section /\ grace' = grace
        /\ quiesce_depth' = quiesce_depth /\ quiescing[t] = "waiting" /\ grace[t] = {}
    BY <1>2 DEF QuiesceDone, blk_mq_wait_quiesce_done
  <2>2. QuiesceType'
    BY <2>1 DEF QuiesceInv, QuiesceType
  <2>3. Quiescers' = Quiescers
    BY <2>1 DEF QuiesceInv, QuiesceType, Quiescers
  <2>4. section = {}
    BY <2>1 DEF QuiesceInv
  <2>5. QED
    BY <2>1, <2>2, <2>3, <2>4 DEF QuiesceInv, QuiesceType, QuietNoDispatch
<1>3. ASSUME NEW t \in Threads, blk_mq_unquiesce_queue(t)
      PROVE  QuiesceInv'
  <2>1. quiescing' = [quiescing EXCEPT ![t] = "no"] /\ section' = section /\ grace' = grace
        /\ quiesce_depth' = quiesce_depth - 1 /\ quiescing[t] # "no"
    BY <1>3 DEF blk_mq_unquiesce_queue
  <2>2. QuiesceType'
    BY <2>1 DEF QuiesceInv, QuiesceType
  <2>3. Quiescers' = Quiescers \ {t} /\ t \in Quiescers
    BY <2>1 DEF QuiesceInv, QuiesceType, Quiescers
  <2>4. Counts(quiesce_depth, Quiescers)'
    BY <2>1, <2>3, CountsFewer DEF QuiesceInv
  <2>5. QED
    BY <2>1, <2>2, <2>4 DEF QuiesceInv, QuiesceType, QuietNoDispatch
<1>4. ASSUME NEW t \in Threads, WaitForSubmits(t)
      PROVE  QuiesceInv'
  <2>1. quiescing' = quiescing /\ section' = section /\ grace' = [grace EXCEPT ![t] = section]
        /\ quiesce_depth' = quiesce_depth
    BY <1>4 DEF WaitForSubmits, GraceBegins
  <2>2. Quiescers' = Quiescers
    BY <2>1 DEF Quiescers
  <2>3. QED
    BY <2>1, <2>2 DEF QuiesceInv, QuiesceType, QuietNoDispatch
<1>5. ASSUME NEW t \in Threads, EnterSection(t)
      PROVE  QuiesceInv'
  <2>1. quiescing' = quiescing /\ section' = section \union {t} /\ grace' = grace
        /\ quiesce_depth' = quiesce_depth /\ ~(quiesce_depth > 0)
    BY <1>5 DEF EnterSection, MayDispatch, blk_queue_quiesced
  <2>2. Quiescers = {} /\ Quiescers' = Quiescers
    <3>1. Quiescers' = Quiescers
      BY <2>1 DEF Quiescers
    <3>2. quiesce_depth \in Nat /\ (quiesce_depth = 0 <=> Quiescers = {})
      BY CountsNone DEF QuiesceInv
    <3>3. QED
      BY <2>1, <3>1, <3>2 DEF QuiesceInv
  <2>3. \A s \in Threads : quiescing[s] = "no"
    BY <2>2 DEF Quiescers
  <2>4. QED
    BY <2>1, <2>2, <2>3 DEF QuiesceInv, QuiesceType, QuietNoDispatch
<1>6. ASSUME NEW t \in Threads, LeaveSection(t)
      PROVE  QuiesceInv'
  <2>1. quiescing' = quiescing /\ section' = section \ {t}
        /\ grace' = [s \in Threads |-> grace[s] \ {t}] /\ quiesce_depth' = quiesce_depth
    BY <1>6 DEF LeaveSection
  <2>2. Quiescers' = Quiescers
    BY <2>1 DEF Quiescers
  <2>3. QuiesceType'
    BY <2>1 DEF QuiesceInv, QuiesceType
  <2>4. \A s \in Threads : quiescing'[s] = "waiting" => section' \subseteq grace'[s]
    BY <2>1 DEF QuiesceInv
  <2>5. QED
    BY <2>1, <2>2, <2>3, <2>4 DEF QuiesceInv, QuietNoDispatch
<1>7. CASE UNCHANGED quiesceVars
  <2>1. Quiescers' = Quiescers
    BY <1>7 DEF quiesceVars, Quiescers
  <2>2. QED
    BY <1>7, <2>1 DEF quiesceVars, QuiesceInv, QuiesceType, QuietNoDispatch
<1>8. QED
  BY <1>1, <1>2, <1>3, <1>4, <1>5, <1>6, <1>7 DEF QuiesceStep

-----------------------------------------------------------------------------
(* The queue begins open and empty.                                        *)
LEMMA GateBegins == GateInit => FreezeInv /\ QuiesceInv
<1> SUFFICES ASSUME GateInit PROVE FreezeInv /\ QuiesceInv
  OBVIOUS
<1>1. Freezers = {} /\ Quiescers = {}
  BY DEF GateInit, Freezers, Quiescers
<1>2. Counts(0, {})
  <2>1. [i \in {} |-> i] \in [1 .. 0 -> {}]
    OBVIOUS
  <2>2. QED
    BY <2>1, Zenon DEF Counts
<1>3. FreezeInv
  BY <1>1, <1>2 DEF GateInit, FreezeInv, FreezeType, FrozenIsEmpty
<1>4. QuiesceInv
  BY <1>1, <1>2 DEF GateInit, QuiesceInv, QuiesceType, QuietNoDispatch
<1>5. QED
  BY <1>3, <1>4

(* blk_mq_freeze_queue and blk_mq_quiesce_queue keep their promises,       *)
(* whatever the other threads do (blk-mq.c:199, :303).                     *)
THEOREM GateHolds == GateSpec => [](FreezeInv /\ QuiesceInv)
<1>1. FreezeInv /\ QuiesceInv /\ [GateNext]_gateVars => (FreezeInv /\ QuiesceInv)'
  <2> SUFFICES ASSUME FreezeInv, QuiesceInv, [GateNext]_gateVars
               PROVE  FreezeInv' /\ QuiesceInv'
    OBVIOUS
  <2>1. (FreezeStep \/ UNCHANGED freezeVars) /\ (QuiesceStep \/ UNCHANGED quiesceVars)
    BY DEF GateNext, gateVars
  <2>2. QED
    BY <2>1, FreezeInductive, QuiesceInductive
<1>2. QED
  BY <1>1, GateBegins, PTL DEF GateSpec

(* A frozen queue has no users (FrozenIsEmpty).                            *)
THEOREM FreezeEmpties == GateSpec => []FrozenIsEmpty
<1>1. FreezeInv => FrozenIsEmpty
  BY DEF FreezeInv
<1>2. QED
  BY <1>1, GateHolds, PTL

(* In a quiesced queue nothing is dispatched (QuietNoDispatch).            *)
THEOREM QuiesceSilences == GateSpec => []QuietNoDispatch
<1>1. QuiesceInv => QuietNoDispatch
  BY DEF QuiesceInv
<1>2. QED
  BY <1>1, GateHolds, PTL

-----------------------------------------------------------------------------
(* The threads of HwQueue are threads of the gate.                         *)
LEMMA Known ==
  /\ \A t \in Tasks : t \in Threads
  /\ \A w \in Workers : w \in Threads
  /\ "timer" \in Threads /\ "kblockd" \in Threads /\ "requeue" \in Threads
BY WorkersAssumption DEF Workers

(* References given back, one or many, are a step of the gate.             *)
LEMMA PutIsStep ==
  ASSUME usage \in Nat, NEW n, PutMany(n)
  PROVE  FreezeStep
<1>1. n \in 0 .. usage /\ usage' = usage - n
  BY DEF PutMany
<1>2. usage - usage' = n
  BY <1>1
<1>3. PutMany(usage - usage')
  BY <1>2
<1>4. QED
  BY <1>3 DEF FreezeStep

(* Taking references through a gate that is open is a step of freezing.    *)
LEMMA GetIsStep ==
  ASSUME usage \in Nat, NEW n, GetMany(n)
  PROVE  FreezeStep
<1>1. n \in Nat /\ usage' = usage + n
  BY DEF GetMany
<1>2. usage' - usage = n
  BY <1>1
<1>3. GetMany(usage' - usage)
  BY <1>2
<1>4. QED
  BY <1>3 DEF FreezeStep

(* The steps of a thread that dispatches.                                  *)
LEMMA DispatchesKeepGate ==
  ASSUME usage \in Nat, NEW t \in Threads, Dispatches(t)
  PROVE  GateNext
<1>1. CASE Run(t)
  <2>1. UNCHANGED freezeVars
    BY <1>1, Zenon DEF Run
  <2>2. EnterSection(t) \/ UNCHANGED quiesceVars
    BY <1>1, Zenon DEF Run
  <2>3. QED
    BY <2>1, <2>2 DEF GateNext, QuiesceStep
<1>2. CASE EndRun(t)
  <2>1. PutMany(1) \/ UNCHANGED freezeVars
    BY <1>2, Zenon DEF EndRun
  <2>2. LeaveSection(t) \/ UNCHANGED quiesceVars
    BY <1>2, Zenon DEF EndRun
  <2>3. QED
    BY <2>1, <2>2, PutIsStep DEF GateNext, QuiesceStep
<1>3. CASE NextRequest(t)
  BY <1>3, Zenon DEF NextRequest, GateNext, gateVars
<1>4. CASE Prep(t)
  BY <1>4, Zenon DEF Prep, GateNext, gateVars
<1>5. CASE MarkTagWait(t)
  BY <1>5, Zenon DEF MarkTagWait, GateNext, gateVars
<1>6. CASE RetryTag(t)
  BY <1>6, Zenon DEF RetryTag, GateNext, gateVars
<1>7. CASE Splice(t)
  BY <1>7, Zenon DEF Splice, GateNext, gateVars
<1>8. CASE CheckRestart(t)
  BY <1>8, Zenon DEF CheckRestart, GateNext, gateVars
<1>9. CASE QueueRq(t)
  BY <1>9, Zenon DEF QueueRq, GateNext, gateVars
<1>10. CASE StartRq(t)
  BY <1>10, Zenon DEF StartRq, GateNext, gateVars
<1>11. CASE QueueFails(t)
  BY <1>11, Zenon DEF QueueFails, GateNext, gateVars
<1>12. CASE QueueRefuses(t)
  BY <1>12, Zenon DEF QueueRefuses, GateNext, gateVars
<1>13. CASE StartInVain(t)
  BY <1>13, Zenon DEF StartInVain, GateNext, gateVars
<1>14. CASE StartedRefuses(t)
  BY <1>14, Zenon DEF StartedRefuses, GateNext, gateVars
<1>15. QED
  BY <1>1, <1>2, <1>3, <1>4, <1>5, <1>6, <1>7, <1>8, <1>9, <1>10, <1>11, <1>12, <1>13, <1>14, Zenon
     DEF Dispatches

(* The steps of a task.                                                    *)
LEMMA TaskKeepsGate ==
  ASSUME usage \in Nat, NEW t \in Tasks, TaskStep(t)
  PROVE  GateNext
<1>0. t \in Threads
  BY Known
<1>1. CASE SubmitCached(t)
  BY <1>1, Zenon DEF SubmitCached, GateNext, gateVars
<1>2. CASE EnterWouldBlock(t)
  BY <1>2, Zenon DEF EnterWouldBlock, GateNext, gateVars
<1>3. CASE Plug(t)
  BY <1>3, Zenon DEF Plug, GateNext, gateVars
<1>4. CASE InsertBio(t)
  BY <1>4, Zenon DEF InsertBio, GateNext, gateVars
<1>5. CASE Execute(t)
  BY <1>5, Zenon DEF Execute, GateNext, gateVars
<1>6. CASE Executed(t)
  BY <1>6, Zenon DEF Executed, GateNext, gateVars
<1>7. CASE StartPlug(t)
  BY <1>7, Zenon DEF StartPlug, GateNext, gateVars
<1>8. CASE FinishPlug(t)
  BY <1>8, Zenon DEF FinishPlug, GateNext, gateVars
<1>9. CASE FlushAsleep(t)
  BY <1>9, Zenon DEF FlushAsleep, GateNext, gateVars
<1>10. CASE Wakes(t)
  BY <1>10, Zenon DEF Wakes, GateNext, gateVars
<1>11. CASE StopStart(t)
  BY <1>11, Zenon DEF StopStart, GateNext, gateVars
<1>12. CASE IssueNext(t)
  <2>1. UNCHANGED freezeVars
    BY <1>12, Zenon DEF IssueNext
  <2>2. EnterSection(t) \/ UNCHANGED quiesceVars
    BY <1>12, Zenon DEF IssueNext
  <2>3. QED
    BY <1>0, <2>1, <2>2 DEF GateNext, FreezeStep, QuiesceStep
<1>13. CASE SubmitEnter(t)
  <2>1. Enter
    BY <1>13, Zenon DEF SubmitEnter
  <2>2. UNCHANGED quiesceVars
    BY <1>13, Zenon DEF SubmitEnter
  <2>3. QED
    BY <1>0, <2>1, <2>2 DEF GateNext, FreezeStep, QuiesceStep
<1>14. CASE NoRequest(t)
  <2>1. PutMany(1) \/ UNCHANGED freezeVars
    BY <1>14, Zenon DEF NoRequest, QueueExit
  <2>2. UNCHANGED quiesceVars
    BY <1>14, Zenon DEF NoRequest
  <2>3. QED
    BY <1>0, <2>1, <2>2, PutIsStep DEF GateNext, FreezeStep, QuiesceStep
<1>15. CASE Alloc(t)
  <2>1. \E k : GetMany(k)
    BY <1>15, Zenon DEF Alloc
  <2>2. UNCHANGED quiesceVars
    BY <1>15, Zenon DEF Alloc
  <2>3. QED
    BY <1>0, <2>1, <2>2, GetIsStep DEF GateNext, FreezeStep, QuiesceStep
<1>16. CASE TryIssue(t)
  <2>1. UNCHANGED freezeVars
    BY <1>16, Zenon DEF TryIssue
  <2>2. EnterSection(t) \/ UNCHANGED quiesceVars
    BY <1>16, Zenon DEF TryIssue
  <2>3. QED
    BY <1>0, <2>1, <2>2 DEF GateNext, FreezeStep, QuiesceStep
<1>17. CASE FlushPlug(t)
  <2>1. GetMany(1) \/ UNCHANGED freezeVars
    BY <1>17, Zenon DEF FlushPlug, DispatchList, freezeVars
  <2>2. UNCHANGED quiesceVars
    BY <1>17, Zenon DEF FlushPlug
  <2>3. QED
    BY <1>0, <2>1, <2>2, GetIsStep DEF GateNext, FreezeStep, QuiesceStep
<1>18. CASE FlushRest(t)
  <2>1. GetMany(1)
    BY <1>18, Zenon DEF FlushRest, DispatchList
  <2>2. UNCHANGED quiesceVars
    BY <1>18, Zenon DEF FlushRest
  <2>3. QED
    BY <1>0, <2>1, <2>2, GetIsStep DEF GateNext, FreezeStep, QuiesceStep
<1>19. CASE Freeze(t)
  <2>1. __blk_freeze_queue_start(t)
    BY <1>19, Zenon DEF Freeze
  <2>2. UNCHANGED quiesceVars
    BY <1>19, Zenon DEF Freeze
  <2>3. QED
    BY <1>0, <2>1, <2>2 DEF GateNext, FreezeStep, QuiesceStep
<1>20. CASE FreezeReturns(t)
  <2>1. blk_mq_freeze_queue_wait(t)
    BY <1>20, Zenon DEF FreezeReturns
  <2>2. UNCHANGED quiesceVars
    BY <1>20, Zenon DEF FreezeReturns
  <2>3. QED
    BY <1>0, <2>1, <2>2 DEF GateNext, FreezeStep, QuiesceStep
<1>21. CASE Unfreeze(t)
  <2>1. __blk_mq_unfreeze_queue(t)
    BY <1>21, Zenon DEF Unfreeze
  <2>2. UNCHANGED quiesceVars
    BY <1>21, Zenon DEF Unfreeze
  <2>3. QED
    BY <1>0, <2>1, <2>2 DEF GateNext, FreezeStep, QuiesceStep
<1>22. CASE Quiesce(t)
  <2>1. UNCHANGED freezeVars
    BY <1>22, Zenon DEF Quiesce
  <2>2. blk_mq_quiesce_queue(t)
    BY <1>22, Zenon DEF Quiesce
  <2>3. QED
    BY <1>0, <2>1, <2>2 DEF GateNext, FreezeStep, QuiesceStep
<1>23. CASE QuiesceReturns(t)
  <2>1. UNCHANGED freezeVars
    BY <1>23, Zenon DEF QuiesceReturns
  <2>2. QuiesceDone(t)
    BY <1>23, Zenon DEF QuiesceReturns
  <2>3. QED
    BY <1>0, <2>1, <2>2 DEF GateNext, FreezeStep, QuiesceStep
<1>24. CASE Unquiesce(t)
  <2>1. UNCHANGED freezeVars
    BY <1>24, Zenon DEF Unquiesce
  <2>2. blk_mq_unquiesce_queue(t)
    BY <1>24, Zenon DEF Unquiesce
  <2>3. QED
    BY <1>0, <2>1, <2>2 DEF GateNext, FreezeStep, QuiesceStep
<1>25. CASE Dispatches(t)
  BY <1>25, <1>0, DispatchesKeepGate
<1>26. CASE NoKeyslot(t)
  BY <1>26, Zenon DEF NoKeyslot, GateNext, gateVars
<1>27. CASE InsertRequest(t)
  BY <1>27, Zenon DEF InsertRequest, GateNext, gateVars
<1>28. CASE InsertRest(t)
  BY <1>28, Zenon DEF InsertRest, GateNext, gateVars
<1>29. CASE blk_mq_run_hw_queue(t)
  BY <1>29, Zenon DEF blk_mq_run_hw_queue, GateNext, gateVars
<1>30. CASE BatchFails(t)
  BY <1>30, Zenon DEF BatchFails, GateNext, gateVars
<1>31. QED
  BY <1>1, <1>2, <1>3, <1>4, <1>5, <1>6, <1>7, <1>8, <1>9, <1>10, <1>11, <1>12, <1>13, <1>14, <1>15,
     <1>16, <1>17, <1>18, <1>19, <1>20, <1>21, <1>22, <1>23, <1>24, <1>25, <1>26, <1>27, <1>28, <1>29,
     <1>30, Zenon DEF TaskStep

(* The endings, in whatever context they run.                              *)
LEMMA EndingKeepsGate ==
  ASSUME usage \in Nat, Ending
  PROVE  GateNext
<1>1. CASE blk_done_softirq
  BY <1>1, Zenon DEF blk_done_softirq, GateNext, gateVars
<1>2. CASE DriverCompletes
  BY <1>2, Zenon DEF DriverCompletes, GateNext, gateVars
<1>3. CASE FreeRequest
  BY <1>3, Zenon DEF FreeRequest, GateNext, gateVars
<1>4. CASE FreeTags
  BY <1>4, Zenon DEF FreeTags, GateNext, gateVars
<1>5. CASE EndBatch
  BY <1>5, Zenon DEF EndBatch, GateNext, gateVars
<1>6. CASE FreeExit
  <2>1. \E k : PutMany(k)
    BY <1>6, Zenon DEF FreeExit
  <2>2. UNCHANGED quiesceVars
    BY <1>6, Zenon DEF FreeExit
  <2>3. QED
    BY <2>1, <2>2, PutIsStep DEF GateNext
<1>7. CASE FlushExit
  <2>1. \E k : PutMany(k)
    BY <1>7, Zenon DEF FlushExit
  <2>2. UNCHANGED quiesceVars
    BY <1>7, Zenon DEF FlushExit
  <2>3. QED
    BY <2>1, <2>2, PutIsStep DEF GateNext
<1>8. CASE FlushTagBatch
  BY <1>8, Zenon DEF FlushTagBatch, GateNext, gateVars
<1>9. QED
  BY <1>1, <1>2, <1>3, <1>4, <1>5, <1>6, <1>7, <1>8, Zenon DEF Ending

(* blk_mq_timeout_work.                                                    *)
LEMMA TimeoutKeepsGate ==
  ASSUME usage \in Nat, TimeoutStep
  PROVE  GateNext
<1>1. CASE blk_mq_check_expired
  BY <1>1, Zenon DEF blk_mq_check_expired, GateNext, gateVars
<1>2. CASE blk_mq_handle_expired
  BY <1>2, Zenon DEF blk_mq_handle_expired, GateNext, gateVars
<1>3. CASE blk_mq_rq_timed_out
  BY <1>3, Zenon DEF blk_mq_rq_timed_out, GateNext, gateVars
<1>4. CASE blk_mq_put_rq_ref
  BY <1>4, Zenon DEF blk_mq_put_rq_ref, GateNext, gateVars
<1>5. CASE TimeoutWork
  <2>1. (TryGet /\ TakeRef) \/ UNCHANGED freezeVars
    BY <1>5, Zenon DEF TimeoutWork
  <2>2. UNCHANGED quiesceVars
    BY <1>5, Zenon DEF TimeoutWork
  <2>3. QED
    BY <2>1, <2>2 DEF GateNext, FreezeStep
<1>6. CASE TimeoutSync
  <2>1. UNCHANGED freezeVars
    BY <1>6, Zenon DEF TimeoutSync
  <2>2. WaitForSubmits("timer") \/ UNCHANGED quiesceVars
    BY <1>6, Zenon DEF TimeoutSync
  <2>3. QED
    BY <2>1, <2>2, Known DEF GateNext, QuiesceStep
<1>7. CASE TimeoutRearm
  <2>1. PutMany(1)
    BY <1>7, Zenon DEF TimeoutRearm
  <2>2. UNCHANGED quiesceVars
    BY <1>7, Zenon DEF TimeoutRearm
  <2>3. QED
    BY <2>1, <2>2, PutIsStep DEF GateNext
<1>8. QED
  BY <1>1, <1>2, <1>3, <1>4, <1>5, <1>6, <1>7, Zenon DEF TimeoutStep

(* Every step is a step of the gate.                                       *)
LEMMA NextKeepsGate ==
  ASSUME usage \in Nat, Next
  PROVE  GateNext
<1>1. CASE \E t \in Tasks : TaskStep(t)
  BY <1>1, TaskKeepsGate
<1>2. CASE \E w \in Workers : Dispatches(w)
  BY <1>2, Known, DispatchesKeepGate
<1>3. CASE Ending
  BY <1>3, EndingKeepsGate
<1>4. CASE TimeoutStep
  BY <1>4, TimeoutKeepsGate
<1>5. CASE RunWork
  BY <1>5, Zenon DEF RunWork, GateNext, gateVars
<1>6. CASE RequeueWork
  BY <1>6, Zenon DEF RequeueWork, GateNext, gateVars
<1>7. CASE Reinsert
  BY <1>7, Zenon DEF Reinsert, GateNext, gateVars
<1>8. CASE DeviceDone
  BY <1>8, Zenon DEF DeviceDone, GateNext, gateVars
<1>9. CASE OtherQueue
  BY <1>9, Zenon DEF OtherQueue, GateNext, gateVars
<1>10. CASE Tick
  BY <1>10, Zenon DEF Tick, GateNext, gateVars
<1>11. CASE TimerExpires
  BY <1>11, Zenon DEF TimerExpires, GateNext, gateVars
<1>12. QED
  BY <1>1, <1>2, <1>3, <1>4, <1>5, <1>6, <1>7, <1>8, <1>9, <1>10, <1>11, Zenon DEF Next

-----------------------------------------------------------------------------
(* HwQueue implements the protocol of freeze and quiesce (ImplementsGate), *)
(* for any tasks, requests, tags and scenarios.                            *)
THEOREM QueueImplementsGate == Spec => ImplementsGate
<1>1. Init => GateInit
  BY DEF Init
<1>2. FreezeInv => usage \in Nat
  BY DEF FreezeInv, FreezeType
<1>3. FreezeInv /\ [Next]_vars => [GateNext]_gateVars
  <2>1. ASSUME FreezeInv, Next PROVE GateNext
    BY <2>1, <1>2, NextKeepsGate
  <2>2. UNCHANGED vars => UNCHANGED gateVars
    BY DEF vars
  <2>3. QED
    BY <2>1, <2>2
<1>4. FreezeInv /\ [GateNext]_gateVars => FreezeInv'
  <2>1. ASSUME FreezeInv, [GateNext]_gateVars PROVE FreezeInv'
    <3>1. FreezeStep \/ UNCHANGED freezeVars
      BY <2>1 DEF GateNext, gateVars
    <3>2. QED
      BY <2>1, <3>1, FreezeInductive
  <2>2. QED
    BY <2>1
<1>5. GateInit => FreezeInv
  BY GateBegins
<1>6. Spec => GateInit /\ [][Next]_vars
  BY <1>1, PTL DEF Spec
<1>7. QED
  BY <1>3, <1>4, <1>5, <1>6, PTL DEF ImplementsGate, GateSpec

(* While a task has the queue frozen no request exists and nobody else is  *)
(* inside: q_usage_counter is 0 (FrozenIsEmpty).                           *)
THEOREM QueueFreezes == Spec => []FrozenIsEmpty
BY QueueImplementsGate, FreezeEmpties, PTL DEF ImplementsGate

(* While a task has the queue quiesced no thread is in a dispatch          *)
(* (QuietNoDispatch).                                                      *)
THEOREM QueueQuiesces == Spec => []QuietNoDispatch
BY QueueImplementsGate, QuiesceSilences, PTL DEF ImplementsGate

-----------------------------------------------------------------------------
(* Where a thread is between the check of the quiesce and the end of its   *)
(* dispatch.                                                               *)
Inside == {"next", "prep", "mark", "retry", "splice", "check", "queue", "start", "started"}

IsFrame(f) ==
  /\ {"pc", "ret", "phase"} \subseteq DOMAIN f
  /\ f.ret \notin Inside /\ f.phase \notin Inside

(* The inductive invariant of the dispatches: a thread inside is counted   *)
(* in the section.                                                         *)
SectionInv ==
  /\ DOMAIN th = Threads
  /\ \A t \in Threads : IsFrame(th[t]) /\ (th[t].pc \in Inside => t \in section)
  /\ "hw" \in DOMAIN m

(* d is what c becomes when no request goes to the driver.                 *)
NoIssue(c, d) == "hw" \in DOMAIN d /\ d.hw \subseteq c.hw

(* A thread that goes to where its new frame says.                         *)
LEMMA FrameStep ==
  ASSUME SectionInv, NEW t \in Threads, NEW g, Frame(t, g), IsFrame(g),
         g.pc \in Inside => t \in section', section \ {t} \subseteq section',
         "hw" \in DOMAIN m'
  PROVE  SectionInv'
BY DEF SectionInv, Frame

(* The step leaves every thread where it is.                               *)
LEMMA NoFrameStep ==
  ASSUME SectionInv, UNCHANGED <<th, section>>, "hw" \in DOMAIN m'
  PROVE  SectionInv'
BY DEF SectionInv

(* A run of the hardware queue begins outside.                             *)
LEMMA RunSyncFrame ==
  ASSUME NEW c, NEW f, IsFrame(f), NEW ret, ret \notin Inside
  PROVE  IsFrame(RunSync(c, f, ret)) /\ RunSync(c, f, ret).pc \notin Inside
BY DEF IsFrame, RunSync, Inside

(* What is taken from the queue leaves the driver alone.                   *)
LEMMA TakenKeeps ==
  ASSUME NEW c, "hw" \in DOMAIN c, NEW f, IsFrame(f)
  PROVE  NoIssue(c, Taken(c)) /\ IsFrame(TakenFrame(c, f))
BY DEF NoIssue, Taken, IsFrame, TakenFrame, Inside

(* The helpers of a step leave the requests of the driver alone.           *)
LEMMA HelpersKeep ==
  ASSUME NEW c, "hw" \in DOMAIN c, NEW r, NEW q, NEW list
  PROVE  /\ NoIssue(c, RunAsync(c, q)) /\ NoIssue(c, blk_mq_dispatch_wake(c, q))
         /\ NoIssue(c, PutBudget(c, r)) /\ NoIssue(c, GetDriverTag(c, r))
         /\ NoIssue(c, blk_mq_release_budgets(c, list)) /\ NoIssue(c, blk_add_timer(c, r))
         /\ NoIssue(c, blk_mq_delay_run_hw_queue(c))
<1>1. NoIssue(c, RunAsync(c, q)) /\ NoIssue(c, blk_mq_delay_run_hw_queue(c))
  BY DEF NoIssue, RunAsync, blk_mq_delay_run_hw_queue
<1>2. NoIssue(c, blk_mq_dispatch_wake(c, q))
  BY DEF NoIssue, blk_mq_dispatch_wake, RunAsync, blk_mq_delay_run_hw_queue
<1>3. NoIssue(c, PutBudget(c, r))
  BY DEF NoIssue, PutBudget
<1>4. NoIssue(c, GetDriverTag(c, r))
  BY DEF NoIssue, GetDriverTag
<1>5. NoIssue(c, blk_mq_release_budgets(c, list))
  BY DEF NoIssue, blk_mq_release_budgets
<1>6. NoIssue(c, blk_add_timer(c, r))
  BY DEF NoIssue, blk_add_timer
<1>7. QED
  BY <1>1, <1>2, <1>3, <1>4, <1>5, <1>6

(* So do those that put a tag or give a request back.                      *)
LEMMA PutsKeep ==
  ASSUME NEW c, "hw" \in DOMAIN c, NEW r, NEW q, NEW S, NEW last
  PROVE  /\ NoIssue(c, PutDriverTag(c, r, q)) /\ NoIssue(c, PutTags(c, r, q))
         /\ NoIssue(c, blk_mq_put_tags(c, S)) /\ NoIssue(c, __blk_mq_requeue_request(c, r, q))
         /\ NoIssue(c, blk_mq_requeue_request(c, r, q)) /\ NoIssue(c, TakenFromDevice(c, r, q))
         /\ NoIssue(c, PutRqRef(c, r, last)) /\ NoIssue(c, blk_mq_free_request(c, r, last))
         /\ NoIssue(c, blk_mq_sched_restart(c, q))
<1>1. NoIssue(c, PutDriverTag(c, r, q))
  BY DEF NoIssue, PutDriverTag, blk_mq_dispatch_wake, RunAsync, blk_mq_delay_run_hw_queue
<1>2. NoIssue(c, PutTags(c, r, q)) /\ NoIssue(c, __blk_mq_requeue_request(c, r, q))
      /\ NoIssue(c, blk_mq_requeue_request(c, r, q))
  BY <1>1 DEF NoIssue, PutTags, __blk_mq_requeue_request, blk_mq_requeue_request
<1>3. NoIssue(c, blk_mq_put_tags(c, S))
  BY DEF NoIssue, blk_mq_put_tags
<1>4. NoIssue(c, TakenFromDevice(c, r, q))
  BY DEF NoIssue, TakenFromDevice, PutBudget, RunAsync, blk_mq_delay_run_hw_queue
<1>5. NoIssue(c, PutRqRef(c, r, last)) /\ NoIssue(c, blk_mq_free_request(c, r, last))
  BY DEF NoIssue, PutRqRef, blk_mq_free_request
<1>6. NoIssue(c, blk_mq_sched_restart(c, q))
  BY DEF NoIssue, blk_mq_sched_restart, RunAsync, blk_mq_delay_run_hw_queue
<1>7. QED
  BY <1>1, <1>2, <1>3, <1>4, <1>5, <1>6

(* The way on from a request, and what is left of a list.                  *)
LEMMA OnwardFrame ==
  ASSUME NEW c, "hw" \in DOMAIN c, NEW f, IsFrame(f), NEW r
  PROVE  /\ IsFrame(Onward(f)) /\ NoIssue(c, Calmer(c, f))
         /\ NoIssue(c, blk_mq_update_dispatch_busy(c, r)) /\ NoIssue(c, blk_mq_end_request(c, r))
<1>1. IsFrame([f EXCEPT !.list = Tail(f.list)])
  BY DEF IsFrame
<1>2. IsFrame(Onward(f))
  BY <1>1 DEF Onward, IsFrame, Inside
<1>3. NoIssue(c, blk_mq_update_dispatch_busy(c, r)) /\ NoIssue(c, blk_mq_update_dispatch_busy(c, FALSE))
      /\ NoIssue(c, blk_mq_end_request(c, r))
  BY DEF NoIssue, blk_mq_update_dispatch_busy, blk_mq_end_request
<1>4. QED
  BY <1>2, <1>3, Zenon DEF Calmer, NoIssue

(* A thread that goes elsewhere, with another list or a reason.            *)
LEMMA FrameMoved ==
  ASSUME NEW f, IsFrame(f), NEW p, NEW list, NEW why
  PROVE  /\ IsFrame([f EXCEPT !.pc = p]) /\ IsFrame([f EXCEPT !.pc = p, !.why = why])
         /\ IsFrame([f EXCEPT !.pc = p, !.list = list])
BY DEF IsFrame

(* A step that stays inside, of a thread that is inside.                   *)
LEMMA InsideStep ==
  ASSUME SectionInv, NEW t \in Threads, th[t].pc \in Inside, NEW g, Frame(t, g), IsFrame(g),
         UNCHANGED section, "hw" \in DOMAIN m'
  PROVE  SectionInv'
<1>1. t \in section'
  BY DEF SectionInv
<1>2. QED
  BY <1>1, FrameStep

(* A list that was not issued to its end.                                  *)
LEMMA LeavesSection ==
  ASSUME SectionInv, NEW t \in Threads, NEW c, NoIssue(m, c), Leaves(t, c),
         section \subseteq section'
  PROVE  SectionInv' /\ NoIssue(m, m')
<1> DEFINE f == th[t]
           g == [f EXCEPT !.list = <<>>, !.save = Tail(f.list)]
<1>0. IsFrame(f)
  BY DEF SectionInv
<1>1. NoIssue(m, m')
  BY DEF Leaves, NoIssue, BypassInsert
<1>2. IsFrame(g)
  BY <1>0 DEF IsFrame
<1>3. \/ Frame(t, [g EXCEPT !.pc = "end", !.ret = "insert_rest"])
      \/ \E ret \in {"many", "rest", "idle"} : Frame(t, [g EXCEPT !.pc = "run_queue", !.ret = ret])
  BY DEF Leaves
<1> HIDE DEF g
<1>4. \A p \in {"end", "run_queue"} : \A ret \in {"insert_rest", "many", "rest", "idle"} :
        LET h == [g EXCEPT !.pc = p, !.ret = ret]
        IN IsFrame(h) /\ h.pc \notin Inside
  BY <1>2 DEF IsFrame, Inside
<1>5. \E h : Frame(t, h) /\ IsFrame(h) /\ h.pc \notin Inside
  BY <1>3, <1>4, Zenon
<1>6. QED
  BY <1>1, <1>5, FrameStep DEF NoIssue

(* A request that the driver refuses, before it has started it or after.   *)
LEMMA RefusesSection ==
  ASSUME SectionInv, NEW t \in Threads, th[t].pc \in Inside, NEW b, NoIssue(m, b), Refuses(t, b),
         UNCHANGED section
  PROVE  SectionInv' /\ NoIssue(m, m')
<1> DEFINE f == th[t]
<1>0. IsFrame(f) /\ "hw" \in DOMAIN m
  BY DEF SectionInv
<1>1. PICK c, why : Refused(t, c, why) /\ NoIssue(m, c)
  <2>1. NoIssue(m, [b EXCEPT !.owed = TRUE, !.stopped = sc.stops, !.run = @ /\ ~sc.stops])
    BY DEF NoIssue
  <2>2. QED
    BY <2>1, Zenon DEF Refuses
<1> DEFINE r == Head(f.list)
           d == __blk_mq_requeue_request(PutBudget(c, r), r, quiesced)
<1>2. NoIssue(m, PutBudget(c, r))
  BY <1>1, HelpersKeep, Zenon DEF NoIssue
<1>3. NoIssue(m, d)
  BY <1>2, PutsKeep, Zenon DEF NoIssue
<1> HIDE DEF d
<1>4. NoIssue(m, blk_mq_update_dispatch_busy(d, TRUE))
  BY <1>0, <1>3, OnwardFrame, Zenon DEF NoIssue
<1>5. CASE Dispatching(f)
  <2>1. m' = d /\ Frame(t, [f EXCEPT !.pc = "splice", !.why = why])
    BY <1>1, <1>5 DEF Refused, d
  <2>2. QED
    BY <1>0, <1>3, <2>1, FrameMoved, InsideStep, Zenon DEF NoIssue
<1>6. CASE ~Dispatching(f)
  <2>1. Leaves(t, blk_mq_update_dispatch_busy(d, TRUE))
    BY <1>1, <1>6, Zenon DEF Refused, d
  <2>2. QED
    BY <1>4, <2>1, LeavesSection, Zenon
<1>7. QED
  BY <1>5, <1>6

(* The steps of a thread that dispatches: only one inside issues.          *)
LEMMA DispatchSection ==
  ASSUME SectionInv, NEW t \in Threads, Dispatches(t)
  PROVE  SectionInv' /\ (NoIssue(m, m') \/ t \in section)
<1> DEFINE f == th[t]
<1>0. /\ IsFrame(f) /\ (f.pc \in Inside => t \in section)
      /\ "hw" \in DOMAIN m /\ NoIssue(m, m)
  BY DEF SectionInv, NoIssue
<1>1. CASE Run(t)
  <2>1. CASE EnterSection(t) /\ m' = Taken(m) /\ Frame(t, TakenFrame(m, th[t]))
    <3>1. section' = section \union {t}
      BY <2>1 DEF EnterSection
    <3>2. QED
      BY <1>0, <2>1, <3>1, TakenKeeps, FrameStep DEF NoIssue
  <2>2. CASE Frame(t, [th[t] EXCEPT !.pc = "end"]) /\ UNCHANGED <<m, quiesceVars>>
    <3>1. IsFrame([f EXCEPT !.pc = "end"]) /\ [f EXCEPT !.pc = "end"].pc \notin Inside
      BY <1>0 DEF IsFrame, Inside
    <3>2. QED
      BY <1>0, <2>2, <3>1, FrameStep, Zenon DEF quiesceVars
  <2>3. QED
    BY <1>1, <2>1, <2>2, Zenon DEF Run
<1>2. CASE EndRun(t)
  <2>1. Frame(t, Resume(f))
    BY <1>2 DEF EndRun
  <2>2. IsFrame(Resume(f)) /\ Resume(f).pc \notin Inside
    BY <1>0 DEF IsFrame, Inside, NoFrame, Resume, GoesOn
  <2>3. section \ {t} \subseteq section' /\ m' = m
    BY <1>2 DEF EndRun, LeaveSection, quiesceVars
  <2>4. QED
    BY <1>0, <2>1, <2>2, <2>3, FrameStep
<1>3. CASE NextRequest(t)
  <2>1. f.pc \in Inside /\ UNCHANGED section
    BY <1>3 DEF NextRequest, At, Inside, gateVars, quiesceVars
  <2> DEFINE e == [f EXCEPT !.pc = "end"]
             g == [f EXCEPT !.pc = "prep", !.list = <<Head(m.sw)>>, !.need = FALSE, !.phase = "one"]
             c == [m EXCEPT !.sw = Tail(@), !.budgets = @ - 1, !.rq[Head(m.sw)].budget = TRUE]
  <2>2. \/ m' = Taken(m) /\ Frame(t, TakenFrame(m, f))
        \/ m' = m /\ Frame(t, e)
        \/ m' = c /\ Frame(t, g)
    BY <1>3 DEF NextRequest
  <2>3. IsFrame(e) /\ IsFrame(g)
    BY <1>0 DEF IsFrame, Inside
  <2>4. NoIssue(m, c)
    BY <1>0 DEF NoIssue
  <2> HIDE DEF e, g, c
  <2>5. NoIssue(m, m') /\ \E h : Frame(t, h) /\ IsFrame(h)
    BY <1>0, <2>2, <2>3, <2>4, TakenKeeps
  <2>6. QED
    BY <2>1, <2>5, InsideStep DEF NoIssue
<1>4. CASE Prep(t)
  <2> DEFINE r == Head(f.list)
             c == IF f.need THEN [m EXCEPT !.budgets = @ - 1, !.rq[r].budget = TRUE] ELSE m
  <2>1. f.pc \in Inside /\ UNCHANGED section
    BY <1>4 DEF Prep, At, Inside, gateVars, quiesceVars
  <2>2. \E g : Frame(t, g) /\ IsFrame(g)
    BY <1>0, <1>4, FrameMoved, Zenon DEF Prep
  <2>3. m' \in {PutDriverTag(m, r, quiesced), GetDriverTag(c, r), c}
    BY <1>4 DEF Prep
  <2>4. NoIssue(m, c)
    BY <1>0 DEF NoIssue
  <2> HIDE DEF c
  <2>5. NoIssue(m, m')
    <3>1. NoIssue(m, PutDriverTag(m, r, quiesced))
      BY <1>0, PutsKeep
    <3>2. NoIssue(c, GetDriverTag(c, r))
      BY <2>4, HelpersKeep, Zenon DEF NoIssue
    <3>3. QED
      BY <2>3, <2>4, <3>1, <3>2 DEF NoIssue
  <2>6. QED
    BY <2>1, <2>2, <2>5, InsideStep DEF NoIssue
<1>5. CASE MarkTagWait(t) \/ RetryTag(t)
  <2>1. f.pc \in Inside /\ UNCHANGED section
    BY <1>5 DEF MarkTagWait, RetryTag, At, Inside, gateVars, quiesceVars
  <2>2. \E g : Frame(t, g) /\ IsFrame(g)
    BY <1>0, <1>5, FrameMoved, Zenon DEF MarkTagWait, RetryTag, AfterMark
  <2>3. NoIssue(m, m')
    <3> DEFINE c == [m EXCEPT !.wait = TRUE]
               r == Head(f.list)
    <3>1. m' \in {[m EXCEPT !.restart = TRUE], NoTag(m, f), NoTag(c, f), GetDriverTag(m, r)}
      BY <1>5 DEF MarkTagWait, RetryTag, AfterMark
    <3>2. NoIssue(m, c) /\ NoIssue(m, [m EXCEPT !.restart = TRUE])
      BY <1>0 DEF NoIssue
    <3>3. QED
      BY <1>0, <3>1, <3>2, HelpersKeep, Zenon DEF NoIssue, NoTag
  <2>4. QED
    BY <2>1, <2>2, <2>3, InsideStep DEF NoIssue
<1>6. CASE Splice(t)
  <2>1. f.pc \in Inside /\ UNCHANGED section
    BY <1>6 DEF Splice, At, Inside, gateVars, quiesceVars
  <2>2. \E g : Frame(t, g) /\ IsFrame(g)
    BY <1>0, <1>6, FrameMoved, Zenon DEF Splice
  <2>3. NoIssue(m, m')
    BY <1>0, <1>6, HelpersKeep DEF Splice, NoIssue
  <2>4. QED
    BY <2>1, <2>2, <2>3, InsideStep DEF NoIssue
<1>7. CASE CheckRestart(t)
  <2>1. f.pc \in Inside /\ UNCHANGED section
    BY <1>7 DEF CheckRestart, At, Inside, gateVars, quiesceVars
  <2>2. \E g : Frame(t, g) /\ IsFrame(g)
    BY <1>0, <1>7, FrameMoved, Zenon DEF CheckRestart
  <2>3. NoIssue(m, m')
    BY <1>0, <1>7, HelpersKeep DEF CheckRestart, NoIssue, blk_mq_update_dispatch_busy
  <2>4. QED
    BY <2>1, <2>2, <2>3, InsideStep DEF NoIssue
<1>8. CASE QueueRq(t)
  <2>1. f.pc \in Inside /\ UNCHANGED section
    BY <1>8 DEF QueueRq, At, Inside, gateVars, quiesceVars
  <2>2. \E g : Frame(t, g) /\ IsFrame(g)
    BY <1>0, <1>8 DEF QueueRq, IsFrame, Inside
  <2>3. NoIssue(m, m')
    BY <1>0, <1>8, HelpersKeep DEF QueueRq
  <2>4. QED
    BY <2>1, <2>2, <2>3, InsideStep DEF NoIssue
<1>9. CASE StartRq(t)
  <2>1. f.pc \in Inside /\ UNCHANGED section
    BY <1>9 DEF StartRq, At, Inside, gateVars, quiesceVars
  <2>2. PICK loses \in BOOLEAN :
          /\ m' = Calmer(Started(m, Head(f.list), loses), f)
          /\ Frame(t, Onward(f))
    BY <1>9 DEF StartRq
  <2>3. "hw" \in DOMAIN Started(m, Head(f.list), loses)
    BY <1>0 DEF Started
  <2>4. "hw" \in DOMAIN m'
    BY <1>0, <2>2, <2>3, OnwardFrame DEF NoIssue
  <2>5. IsFrame(Onward(f))
    BY <1>0, OnwardFrame
  <2>6. QED
    BY <1>0, <2>1, <2>2, <2>4, <2>5, InsideStep
<1>10. CASE QueueFails(t)
  <2> DEFINE r == Head(f.list)
             c == [m EXCEPT !.trouble = @ - 1]
             d == blk_mq_end_request(PutBudget(c, r), r)
  <2>1. f.pc \in Inside /\ UNCHANGED section
    BY <1>10 DEF QueueFails, At, Inside, gateVars, quiesceVars
  <2>2. m' = Calmer(d, f) /\ Frame(t, Onward(f))
    BY <1>10 DEF QueueFails
  <2>3. NoIssue(m, c)
    BY <1>0 DEF NoIssue
  <2> HIDE DEF c
  <2>4. NoIssue(m, PutBudget(c, r))
    BY <2>3, HelpersKeep DEF NoIssue
  <2>5. NoIssue(m, d)
    BY <1>0, <2>4, OnwardFrame DEF NoIssue
  <2> HIDE DEF d
  <2>6. NoIssue(m, m') /\ IsFrame(Onward(f))
    BY <1>0, <2>2, <2>5, OnwardFrame DEF NoIssue
  <2>7. QED
    BY <2>1, <2>2, <2>6, InsideStep DEF NoIssue
<1>11. CASE QueueRefuses(t) \/ StartedRefuses(t)
  <2>1. f.pc \in Inside /\ UNCHANGED section
    BY <1>11 DEF QueueRefuses, StartedRefuses, At, Inside, gateVars, quiesceVars
  <2>2. NoIssue(m, [m EXCEPT !.trouble = @ - 1])
    BY <1>0 DEF NoIssue
  <2>3. Refuses(t, [m EXCEPT !.trouble = @ - 1]) \/ Refuses(t, m)
    BY <1>11, Zenon DEF QueueRefuses, StartedRefuses
  <2>4. QED
    BY <1>0, <2>1, <2>2, <2>3, RefusesSection
<1>12. CASE StartInVain(t)
  <2>1. f.pc \in Inside /\ UNCHANGED section
    BY <1>12 DEF StartInVain, At, Inside, gateVars, quiesceVars
  <2>2. \E g : Frame(t, g) /\ IsFrame(g)
    BY <1>0, <1>12, FrameMoved, Zenon DEF StartInVain
  <2>3. NoIssue(m, m')
    BY <1>0, <1>12 DEF StartInVain, NoIssue
  <2>4. QED
    BY <2>1, <2>2, <2>3, InsideStep DEF NoIssue
<1>13. QED
  BY <1>1, <1>2, <1>3, <1>4, <1>5, <1>6, <1>7, <1>8, <1>9, <1>10, <1>11, <1>12, Zenon DEF Dispatches

(* The steps of a task: it leaves the section only by itself, and comes to *)
(* a place inside only from one, or as it enters the section.              *)
LEMMA TaskSection ==
  ASSUME SectionInv, NEW t \in Tasks, TaskStep(t)
  PROVE  SectionInv' /\ (NoIssue(m, m') \/ t \in section)
<1> DEFINE f == th[t]
<1>0. /\ t \in Threads /\ IsFrame(f)
      /\ "hw" \in DOMAIN m /\ NoIssue(m, m)
  BY Known DEF SectionInv, NoIssue
<1>1. IsFrame(NoFrame) /\ NoFrame.pc \notin Inside
  BY DEF IsFrame, NoFrame, Inside
<1>2. /\ \A p : IsFrame([NoFrame EXCEPT !.pc = p]) /\ [NoFrame EXCEPT !.pc = p].pc = p
      /\ \A p, list : /\ IsFrame([NoFrame EXCEPT !.pc = p, !.list = list])
                      /\ [NoFrame EXCEPT !.pc = p, !.list = list].pc = p
      /\ \A list : \A ph \in {"direct", "many"} :
           /\ IsFrame([NoFrame EXCEPT !.pc = "issue", !.phase = ph, !.list = list])
           /\ [NoFrame EXCEPT !.pc = "issue", !.phase = ph, !.list = list].pc = "issue"
  BY DEF IsFrame, NoFrame, Inside
<1>3. "prepare" \notin Inside /\ "issue" \notin Inside /\ "drain" \notin Inside /\ "quiesce" \notin Inside
      /\ "end" \notin Inside /\ "idle" \notin Inside
  BY DEF Inside
<1>4. CASE SubmitCached(t) \/ SubmitEnter(t)
  <2>1. \E g : Frame(t, g) /\ IsFrame(g) /\ g.pc \notin Inside
    <3>1. CASE SubmitCached(t)
      <4> DEFINE g == [NoFrame EXCEPT !.pc = "prepare", !.list = <<Head(task[t].cached)>>]
      <4>1. Frame(t, g)
        BY <3>1 DEF SubmitCached
      <4>2. IsFrame(g) /\ g.pc = "prepare"
        BY <1>2, Zenon
      <4>3. QED
        BY <1>3, <4>1, <4>2, Zenon
    <3>2. CASE SubmitEnter(t)
      <4> DEFINE g == [NoFrame EXCEPT !.pc = "prepare"]
      <4>1. Frame(t, g)
        BY <3>2 DEF SubmitEnter
      <4>2. IsFrame(g) /\ g.pc = "prepare"
        BY <1>2, Zenon
      <4>3. QED
        BY <1>3, <4>1, <4>2, Zenon
    <3>3. QED
      BY <1>4, <3>1, <3>2
  <2>2. NoIssue(m, m') /\ section' = section
    BY <1>0, <1>4 DEF SubmitCached, SubmitEnter, NoIssue, gateVars, quiesceVars
  <2>3. QED
    BY <1>0, <2>1, <2>2, FrameStep DEF NoIssue
<1>5. CASE NoRequest(t) \/ NoKeyslot(t) \/ Plug(t) \/ Executed(t)
           \/ FreezeReturns(t) \/ QuiesceReturns(t)
  <2>1. Frame(t, NoFrame) /\ section' = section
    BY <1>5 DEF NoRequest, NoKeyslot, Plug, Executed, FreezeReturns, QuiesceReturns,
                QuiesceDone, gateVars, quiesceVars
  <2>2. CASE m' = m
    BY <1>0, <1>1, <2>1, <2>2, FrameStep
  <2>3. CASE NoRequest(t) \/ NoKeyslot(t) \/ Executed(t)
    <3>1. NoIssue(m, m')
      BY <1>0, <2>3, Zenon DEF NoRequest, NoKeyslot, Executed, NoIssue
    <3>2. QED
      BY <1>0, <1>1, <2>1, <3>1, FrameStep DEF NoIssue
  <2>4. QED
    BY <1>5, <2>2, <2>3, Zenon DEF Plug, FreezeReturns, QuiesceReturns
<1>6. CASE EnterWouldBlock(t) \/ BatchFails(t) \/ StartPlug(t) \/ FinishPlug(t) \/ FlushAsleep(t) \/ Wakes(t)
           \/ Unfreeze(t) \/ Unquiesce(t) \/ StopStart(t)
  <2>1. UNCHANGED <<th, section>>
    BY <1>6 DEF EnterWouldBlock, BatchFails, StartPlug, FinishPlug, FlushAsleep, Wakes, Unfreeze, Unquiesce,
                StopStart, blk_mq_unquiesce_queue, gateVars, quiesceVars
  <2>2. NoIssue(m, m')
    <3>1. CASE EnterWouldBlock(t) \/ BatchFails(t) \/ StartPlug(t) \/ FinishPlug(t) \/ Wakes(t)
               \/ Unfreeze(t)
      BY <1>0, <3>1 DEF EnterWouldBlock, BatchFails, StartPlug, FinishPlug, Wakes, Unfreeze, FreeCached,
                        NoIssue
    <3>2. CASE FlushAsleep(t)
      <4> DEFINE c == [FreeCached(m, t) EXCEPT !.sw = @ \o task[t].plug]
      <4>1. NoIssue(m, c)
        BY <1>0 DEF FreeCached, NoIssue
      <4>2. m' = RunAsync(c, quiesced)
        BY <3>2 DEF FlushAsleep
      <4> HIDE DEF c
      <4>3. QED
        BY <4>1, <4>2, HelpersKeep DEF NoIssue
    <3>3. CASE Unquiesce(t)
      BY <1>0, <3>3, HelpersKeep, Zenon DEF Unquiesce, Unquiesced
    <3>4. CASE StopStart(t)
      <4> DEFINE c == [m EXCEPT !.stopped = FALSE]
      <4>1. NoIssue(m, c) /\ NoIssue(m, [m EXCEPT !.stopped = TRUE, !.run = FALSE])
        BY <1>0 DEF NoIssue
      <4>2. m' \in {[m EXCEPT !.stopped = TRUE, !.run = FALSE], RunAsync(c, quiesced), m}
        BY <3>4 DEF StopStart
      <4> HIDE DEF c
      <4>3. QED
        BY <1>0, <4>1, <4>2, HelpersKeep, Zenon DEF NoIssue
    <3>5. QED
      BY <1>6, <3>1, <3>2, <3>3, <3>4
  <2>3. QED
    BY <2>1, <2>2, NoFrameStep DEF NoIssue
<1>7. CASE Alloc(t)
  <2> DEFINE g == [f EXCEPT !.list = <<Head(Descending(Lowest(m.free, Want(t))))>>]
  <2>1. Frame(t, g) /\ f.pc = "prepare" /\ section' = section
    BY <1>7 DEF Alloc, At, quiesceVars
  <2>2. IsFrame(g) /\ g.pc = f.pc
    BY <1>0 DEF IsFrame
  <2> HIDE DEF g
  <2>3. NoIssue(m, m')
    BY <1>0, <1>7 DEF Alloc, AllocRequests, NoIssue
  <2>4. QED
    BY <1>0, <1>3, <2>1, <2>2, <2>3, FrameStep DEF NoIssue
<1>8. CASE TryIssue(t)
  <2> DEFINE b == [m EXCEPT !.budgets = @ - 1, !.rq[Head(f.list)].budget = TRUE]
             q == [f EXCEPT !.pc = "queue", !.phase = "try"]
  <2>1. /\ \A why : /\ IsFrame([f EXCEPT !.pc = "insert", !.why = why])
                    /\ [f EXCEPT !.pc = "insert", !.why = why].pc \notin Inside
        /\ IsFrame([f EXCEPT !.pc = "insert"]) /\ [f EXCEPT !.pc = "insert"].pc \notin Inside
        /\ IsFrame(q)
    BY <1>0 DEF IsFrame, Inside
  <2>2. NoIssue(m, b)
    BY <1>0 DEF NoIssue
  <2>3. section \subseteq section'
    BY <1>8 DEF TryIssue, EnterSection, quiesceVars
  <2>4. \/ m' = m /\ Frame(t, [f EXCEPT !.pc = "insert"])
        \/ m' = b /\ Frame(t, q) /\ t \in section'
        \/ m' = m /\ \E why : Frame(t, [f EXCEPT !.pc = "insert", !.why = why])
    BY <1>8, Zenon DEF TryIssue, EnterSection
  <2> HIDE DEF b, q
  <2>5. NoIssue(m, m') /\ \E g : Frame(t, g) /\ IsFrame(g) /\ (g.pc \in Inside => t \in section')
    BY <1>0, <2>1, <2>2, <2>4, Zenon
  <2>6. QED
    BY <1>0, <2>3, <2>5, FrameStep DEF NoIssue
<1>9. CASE IssueNext(t)
  <2> DEFINE b == [m EXCEPT !.budgets = @ - 1, !.rq[Head(f.list)].budget = TRUE]
             i == [f EXCEPT !.pc = "insert", !.list = <<Head(f.list)>>, !.save = Tail(f.list),
                            !.ret = IF f.phase = "direct" /\ Tail(f.list) = <<>> THEN "idle" ELSE f.phase]
             q == [f EXCEPT !.pc = "queue"]
  <2>1. IsFrame(i) /\ i.pc \notin Inside /\ IsFrame(q)
    BY <1>0 DEF IsFrame, Inside
  <2>2. NoIssue(m, b)
    BY <1>0 DEF NoIssue
  <2>3. section \subseteq section'
    BY <1>9 DEF IssueNext, EnterSection, quiesceVars
  <2>4. \/ m' = m /\ Frame(t, i)
        \/ m' = b /\ Frame(t, q) /\ t \in section'
        \/ Leaves(t, m)
    BY <1>9 DEF IssueNext, EnterSection
  <2>5. CASE Leaves(t, m)
    BY <1>0, <2>3, <2>5, LeavesSection
  <2> HIDE DEF b, i, q
  <2>6. CASE ~Leaves(t, m)
    BY <1>0, <2>1, <2>2, <2>3, <2>4, <2>6, FrameStep DEF NoIssue
  <2>7. QED
    BY <2>5, <2>6
<1>10. CASE Execute(t) \/ InsertBio(t) \/ InsertRequest(t) \/ InsertRest(t)
  <2>1. section' = section
    BY <1>10, Zenon DEF Execute, InsertBio, InsertRequest, InsertRest, gateVars, quiesceVars
  <2>2. NoIssue(m, m')
    BY <1>0, <1>10, Zenon DEF Execute, InsertBio, InsertRequest, InsertRest, BypassInsert, InsertTail, NoIssue
  <2>3. \A why : /\ IsFrame([f EXCEPT !.pc = "run_queue", !.list = <<>>, !.why = why])
                 /\ IsFrame([f EXCEPT !.pc = "run_queue", !.list = <<>>])
                 /\ IsFrame([f EXCEPT !.pc = "run_queue", !.list = <<>>, !.ret = "wait"])
                 /\ [f EXCEPT !.pc = "run_queue", !.list = <<>>, !.why = why].pc \notin Inside
                 /\ [f EXCEPT !.pc = "run_queue", !.list = <<>>].pc \notin Inside
                 /\ [f EXCEPT !.pc = "run_queue", !.list = <<>>, !.ret = "wait"].pc \notin Inside
    BY <1>0 DEF IsFrame, Inside
  <2>4. \E g : Frame(t, g) /\ IsFrame(g) /\ g.pc \notin Inside
    BY <1>10, <2>3, Zenon DEF Execute, InsertBio, InsertRequest, InsertRest
  <2>5. QED
    BY <1>0, <2>1, <2>2, <2>4, FrameStep DEF NoIssue
<1>11. CASE blk_mq_run_hw_queue(t)
  <2>1. section' = section /\ f.ret \notin Inside
    BY <1>0, <1>11 DEF blk_mq_run_hw_queue, IsFrame, gateVars, quiesceVars
  <2>2. NoIssue(m, m')
    BY <1>0, <1>11, HelpersKeep DEF blk_mq_run_hw_queue
  <2>3. IsFrame([f EXCEPT !.pc = "end", !.why = ""]) /\ [f EXCEPT !.pc = "end", !.why = ""].pc \notin Inside
    BY <1>0 DEF IsFrame, Inside
  <2>4. IsFrame(RunSync(m, f, f.ret)) /\ RunSync(m, f, f.ret).pc \notin Inside
    BY <1>0, <2>1, RunSyncFrame
  <2>5. \E g : Frame(t, g) /\ IsFrame(g) /\ g.pc \notin Inside
    BY <1>11, <2>3, <2>4, Zenon DEF blk_mq_run_hw_queue
  <2>6. QED
    BY <1>0, <2>1, <2>2, <2>5, FrameStep DEF NoIssue
<1>12. CASE FlushPlug(t) \/ FlushRest(t) \/ Freeze(t) \/ Quiesce(t)
  <2>1. section' = section /\ m' = m
    BY <1>12 DEF FlushPlug, FlushRest, Freeze, Quiesce, blk_mq_quiesce_queue, WaitForSubmits, quiesceVars
  <2>2. \A list : \A p \in {"drain", "quiesce"} :
          /\ IsFrame([NoFrame EXCEPT !.pc = "insert_rest", !.list = list, !.ret = "unref"])
          /\ [NoFrame EXCEPT !.pc = "insert_rest", !.list = list, !.ret = "unref"].pc \notin Inside
          /\ IsFrame([NoFrame EXCEPT !.pc = "run_queue", !.ret = "drain"])
          /\ [NoFrame EXCEPT !.pc = "run_queue", !.ret = "drain"].pc \notin Inside
          /\ [NoFrame EXCEPT !.pc = p].pc \notin Inside
    BY DEF IsFrame, NoFrame, Inside
  <2>3. \A list : \A ph \in {"direct", "many"} :
          [NoFrame EXCEPT !.pc = "issue", !.phase = ph, !.list = list].pc \notin Inside
    BY DEF NoFrame, Inside
  <2>4. \E g : Frame(t, g) /\ IsFrame(g) /\ g.pc \notin Inside
    <3>1. CASE FlushPlug(t) \/ FlushRest(t)
      <4>1. PICK list : \/ Frame(t, [NoFrame EXCEPT !.pc = "insert_rest", !.list = list, !.ret = "unref"])
                        \/ \E ph \in {"direct", "many"} :
                             Frame(t, [NoFrame EXCEPT !.pc = "issue", !.phase = ph, !.list = list])
        <5>1. CASE FlushPlug(t)
          BY <5>1, Zenon DEF FlushPlug, DispatchList
        <5>2. CASE FlushRest(t)
          BY <5>2, Zenon DEF FlushRest, DispatchList
        <5>3. QED
          BY <3>1, <5>1, <5>2, Zenon
      <4>2. CASE Frame(t, [NoFrame EXCEPT !.pc = "insert_rest", !.list = list, !.ret = "unref"])
        BY <2>2, <4>2, Zenon
      <4>3. CASE \E ph \in {"direct", "many"} :
                   Frame(t, [NoFrame EXCEPT !.pc = "issue", !.phase = ph, !.list = list])
        <5>1. PICK ph \in {"direct", "many"} :
                Frame(t, [NoFrame EXCEPT !.pc = "issue", !.phase = ph, !.list = list])
          BY <4>3, Zenon
        <5>2. IsFrame([NoFrame EXCEPT !.pc = "issue", !.phase = ph, !.list = list])
          BY <1>2, Zenon
        <5>3. [NoFrame EXCEPT !.pc = "issue", !.phase = ph, !.list = list].pc \notin Inside
          BY <2>3, Zenon
        <5>4. QED
          BY <5>1, <5>2, <5>3, Zenon
      <4>4. QED
        BY <4>1, <4>2, <4>3, Zenon
    <3>2. CASE Freeze(t)
      BY <1>2, <2>2, <3>2, Zenon DEF Freeze
    <3>3. CASE Quiesce(t)
      BY <1>2, <2>2, <3>3, Zenon DEF Quiesce
    <3>4. QED
      BY <1>12, <3>1, <3>2, <3>3
  <2>5. QED
    BY <1>0, <2>1, <2>4, FrameStep DEF NoIssue
<1>13. CASE Dispatches(t)
  BY <1>0, <1>13, DispatchSection
<1>14. QED
  BY <1>4, <1>5, <1>6, <1>7, <1>8, <1>9, <1>10, <1>11, <1>12, <1>13, Zenon DEF TaskStep

(* The works that run the queue: they begin outside.                       *)
LEMMA WorkSection ==
  ASSUME SectionInv, RunWork \/ RequeueWork \/ Reinsert
  PROVE  SectionInv' /\ NoIssue(m, m')
<1>0. {"kblockd", "requeue"} \subseteq Threads /\ IsFrame(th["requeue"]) /\ "hw" \in DOMAIN m
      /\ section' = section
  BY WorkersAssumption DEF SectionInv, Workers, RunWork, RequeueWork, Reinsert, gateVars, quiesceVars
<1>1. NoIssue(m, m')
  BY <1>0, Zenon DEF RunWork, RequeueWork, Reinsert, Reinserted, BypassInsert, NoIssue
<1>2. CASE RunWork \/ RequeueWork
  <2> DEFINE g == [NoFrame EXCEPT !.pc = "run"]
             h == [NoFrame EXCEPT !.pc = "reinsert", !.list = m.requeue]
  <2>1. IsFrame(g) /\ g.pc \notin Inside /\ IsFrame(h) /\ h.pc \notin Inside
    BY DEF IsFrame, NoFrame, Inside
  <2>2. Frame("kblockd", g) \/ Frame("requeue", h)
    BY <1>2 DEF RunWork, RequeueWork
  <2> HIDE DEF g, h
  <2>3. QED
    BY <1>0, <1>1, <2>1, <2>2, FrameStep DEF NoIssue
<1>3. CASE Reinsert
  <2> DEFINE f == th["requeue"]
             g == [f EXCEPT !.list = Tail(@)]
  <2>1. IsFrame(g) /\ g.pc = f.pc /\ f.pc \notin Inside /\ "idle" \notin Inside
    BY <1>0, <1>3 DEF IsFrame, Inside, Reinsert, At
  <2>2. Frame("requeue", g) \/ Frame("requeue", RunSync(m, f, "idle"))
    BY <1>3 DEF Reinsert
  <2>3. IsFrame(RunSync(m, f, "idle")) /\ RunSync(m, f, "idle").pc \notin Inside
    BY <1>0, <2>1, RunSyncFrame
  <2> HIDE DEF g
  <2>4. QED
    BY <1>0, <1>1, <2>1, <2>2, <2>3, FrameStep DEF NoIssue
<1>4. QED
  BY <1>1, <1>2, <1>3

(* The completions, the timeouts and the other queue issue nothing.        *)
LEMMA RestIssuesNothing ==
  ASSUME "hw" \in DOMAIN m, DeviceDone \/ Ending \/ OtherQueue \/ Tick \/ TimerExpires \/ TimeoutStep
  PROVE  NoIssue(m, m')
<1>0. NoIssue(m, m)
  BY DEF NoIssue
<1>1. CASE DeviceDone
  <2>1. PICK r : m' \in {CompleteLocally(TakenFromDevice(m, r, quiesced), r),
                         CompleteRemotely(TakenFromDevice(m, r, quiesced), r),
                         [TakenFromDevice(m, r, quiesced) EXCEPT !.fin[r] = "batch"]}
    BY <1>1 DEF DeviceDone
  <2>2. NoIssue(m, TakenFromDevice(m, r, quiesced))
    BY PutsKeep
  <2>3. QED
    BY <2>1, <2>2, Zenon DEF CompleteLocally, CompleteRemotely, NoIssue
<1>2. CASE Ending
  <2>1. CASE blk_done_softirq
    BY <2>1 DEF blk_done_softirq, blk_complete_reqs, NoIssue
  <2>2. CASE DriverCompletes
    <3>1. PICK r : m' \in {blk_mq_end_request(m, r),
                           [blk_mq_requeue_request(m, r, quiesced) EXCEPT !.retries = @ - 1, !.fin[r] = ""]}
      BY <2>2, Zenon DEF DriverCompletes
    <3>2. NoIssue(m, blk_mq_requeue_request(m, r, quiesced))
      BY PutsKeep
    <3>3. QED
      BY <3>1, <3>2, Zenon DEF blk_mq_end_request, NoIssue
  <2>3. CASE FreeRequest
    BY <2>3, PutsKeep DEF FreeRequest
  <2>4. CASE FreeTags
    <3>1. PICK r : m' = [PutTags(m, r, quiesced) EXCEPT !.exiting = @ + 1]
      BY <2>4 DEF FreeTags
    <3>2. NoIssue(m, PutTags(m, r, quiesced))
      BY PutsKeep
    <3>3. QED
      BY <3>1, <3>2 DEF NoIssue
  <2>5. CASE FreeExit
    <3>1. NoIssue(m, blk_mq_sched_restart(m, quiesced))
      BY PutsKeep
    <3>2. QED
      BY <2>5, <3>1 DEF FreeExit, NoIssue
  <2>6. CASE EndBatch
    <3>1. PICK r : m' = blk_mq_free_request([m EXCEPT !.ended[m.rq[r].by] = @ + 1], r, "flush")
      BY <2>6, Zenon DEF EndBatch
    <3>2. QED
      BY <3>1 DEF blk_mq_free_request, PutRqRef, NoIssue
  <2>7. CASE FlushTagBatch
    <3>1. \A S : NoIssue(m, blk_mq_put_tags(m, S))
      BY PutsKeep
    <3>2. QED
      BY <2>7, <3>1 DEF FlushTagBatch, NoIssue
  <2>8. CASE FlushExit
    BY <2>8 DEF FlushExit, NoIssue
  <2>9. QED
    BY <1>2, <2>1, <2>2, <2>3, <2>4, <2>5, <2>6, <2>7, <2>8 DEF Ending
<1>3. CASE OtherQueue
  <2>1. PICK g : m' \in {blk_mq_dispatch_wake([m EXCEPT !.foreign = @ \ {g}, !.tags = @ \union {g}], quiesced),
                         [m EXCEPT !.foreign = @ \union {g}, !.tags = @ \ {g}, !.steals = @ - 1]}
    BY <1>3, Zenon DEF OtherQueue
  <2> DEFINE c == [m EXCEPT !.foreign = @ \ {g}, !.tags = @ \union {g}]
             d == [m EXCEPT !.foreign = @ \union {g}, !.tags = @ \ {g}, !.steals = @ - 1]
  <2>2. NoIssue(m, c) /\ NoIssue(m, d)
    BY DEF NoIssue
  <2>3. m' \in {blk_mq_dispatch_wake(c, quiesced), d}
    BY <2>1
  <2> HIDE DEF c, d
  <2>4. QED
    BY <2>2, <2>3, HelpersKeep, Zenon DEF NoIssue
<1>4. CASE Tick \/ TimerExpires
  BY <1>4, Zenon DEF Tick, TimerExpires, NoIssue
<1>5. CASE TimeoutStep
  <2>1. CASE blk_mq_rq_timed_out
    <3> DEFINE r == tw.i
               c == [m EXCEPT !.rq[r].timed_out = TRUE]
    <3>1. NoIssue(m, c)
      BY DEF NoIssue
    <3>2. m' \in {c, CompleteLocally(TakenFromDevice(c, r, quiesced), r),
                  [blk_add_timer(c, r) EXCEPT !.resets = @ - 1]}
      BY <2>1, Zenon DEF blk_mq_rq_timed_out
    <3> HIDE DEF c
    <3>3. NoIssue(m, TakenFromDevice(c, r, quiesced)) /\ NoIssue(m, blk_add_timer(c, r))
      BY <3>1, HelpersKeep, PutsKeep, Zenon DEF NoIssue
    <3>4. QED
      BY <3>1, <3>2, <3>3, Zenon DEF CompleteLocally, NoIssue
  <2>2. CASE blk_mq_put_rq_ref
    BY <2>2, PutsKeep DEF blk_mq_put_rq_ref
  <2>3. CASE TimeoutWork \/ blk_mq_handle_expired \/ TimeoutRearm
    BY <2>3 DEF TimeoutWork, blk_mq_handle_expired, TimeoutRearm, NoIssue
  <2>4. CASE blk_mq_check_expired \/ TimeoutSync
    BY <1>0, <2>4 DEF blk_mq_check_expired, TimeoutSync
  <2>5. QED
    BY <1>5, <2>1, <2>2, <2>3, <2>4 DEF TimeoutStep
<1>6. QED
  BY <1>1, <1>2, <1>3, <1>4, <1>5

(* What the steps of the whole program do to the section and the driver.   *)
LEMMA SectionStep ==
  ASSUME SectionInv, [Next]_vars
  PROVE  SectionInv' /\ (NoIssue(m, m') \/ \E t \in Threads : t \in section)
<1>0. "hw" \in DOMAIN m
  BY DEF SectionInv
<1>1. ASSUME NEW t \in Tasks, TaskStep(t)
      PROVE  SectionInv' /\ (NoIssue(m, m') \/ \E s \in Threads : s \in section)
  BY <1>1, TaskSection, Known
<1>2. ASSUME NEW w \in Workers, Dispatches(w)
      PROVE  SectionInv' /\ (NoIssue(m, m') \/ \E s \in Threads : s \in section)
  BY <1>2, DispatchSection, WorkersAssumption
<1>3. CASE RunWork \/ RequeueWork \/ Reinsert
  BY <1>3, WorkSection
<1>4. CASE DeviceDone \/ Ending \/ OtherQueue \/ Tick \/ TimerExpires \/ TimeoutStep
  <2>1. NoIssue(m, m')
    BY <1>0, <1>4, RestIssuesNothing
  <2>2. UNCHANGED <<th, section>>
    BY <1>4, Zenon DEF DeviceDone, Ending, OtherQueue, Tick, TimerExpires, TimeoutStep, blk_done_softirq,
                DriverCompletes, FreeRequest, FreeTags, FreeExit, EndBatch, FlushTagBatch, FlushExit, TimeoutWork,
                blk_mq_check_expired, TimeoutSync, blk_mq_handle_expired, blk_mq_rq_timed_out,
                blk_mq_put_rq_ref, TimeoutRearm, WaitForSubmits, gateVars, quiesceVars
  <2>3. QED
    BY <2>1, <2>2, NoFrameStep DEF NoIssue
<1>5. CASE UNCHANGED vars
  <2>1. UNCHANGED <<th, section, m>>
    BY <1>5 DEF vars, gateVars, quiesceVars
  <2>2. QED
    BY <1>0, <2>1, NoFrameStep DEF NoIssue
<1>6. QED
  BY <1>1, <1>2, <1>3, <1>4, <1>5 DEF Next

(* While a task has the queue quiesced no step of any thread gives the     *)
(* driver a request: not a dispatch, not a direct issue, not the rest of a *)
(* plug (blk-mq.c:303, :2785, :2817).                                      *)
THEOREM QuiesceStopsIssue == Spec => QuiescedStaysOut
<1>1. Init => SectionInv
  <2> SUFFICES ASSUME Init PROVE SectionInv
    OBVIOUS
  <2>1. IsFrame(NoFrame) /\ NoFrame.pc \notin Inside
    BY DEF IsFrame, NoFrame, Inside
  <2>2. "hw" \in DOMAIN m
    BY Zenon DEF Init, EmptyQueue
  <2>3. QED
    BY <2>1, <2>2 DEF Init, SectionInv
<1>2. SectionInv /\ [Next]_vars => SectionInv'
  BY SectionStep
<1>3. SectionInv /\ QuietNoDispatch /\ [Next]_vars
      => [\A t \in Threads : quiescing[t] = "quiet" => m'.hw \subseteq m.hw]_vars
  <2> SUFFICES ASSUME SectionInv, QuietNoDispatch, [Next]_vars,
                      NEW t \in Threads, quiescing[t] = "quiet"
               PROVE  m'.hw \subseteq m.hw
    OBVIOUS
  <2>1. section = {}
    BY DEF QuietNoDispatch
  <2>2. QED
    BY <2>1, SectionStep DEF NoIssue
<1>4. QED
  BY <1>1, <1>2, <1>3, QueueQuiesces, PTL DEF Spec, QuiescedStaysOut
=============================================================================
