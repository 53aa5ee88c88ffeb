----------------------------- MODULE FolioLock -----------------------------
(***************************************************************************)
(* Waiting for a bit of a folio, mm/filemap.c of readaround-split:         *)
(* folio_lock, folio_wait_bit, __folio_lock_async and folio_unlock over    *)
(* one hashed wait queue that several folios share.  The bits are tested   *)
(* and set without a lock; the queue has one, and PG_waiters tells whoever *)
(* clears a bit to look into the queue.                                    *)
(*                                                                         *)
(* The queue is the set of the tasks whose entry is in it, with the set of *)
(* the entries ahead of each.                                              *)
(***************************************************************************)
EXTENDS Naturals, FiniteSets

CONSTANTS
  Tasks, Folios,
  Programs,       \* functions from Tasks to [op, folio, rounds]
  sysctl_page_lock_unfairness,
  None

Bits == {"locked", "writeback"}

(* What a task does, over and over: lock and unlock ("lock", or "killable" *)
(* if it may be killed while it waits, or "async" if it is told later      *)
(* instead of waiting); lock, start writeback, unlock, end writeback       *)
(* ("write"); wait for the lock bit or the writeback bit to be cleared.    *)
Ops == {"lock", "killable", "async", "write", "wait", "wait_writeback"}

ASSUME ProgramsAssumption ==
  /\ None \notin Tasks
  /\ sysctl_page_lock_unfairness \in Nat
  /\ Programs \subseteq [Tasks -> [op : Ops, folio : Folios, rounds : Nat]]
  /\ \A p \in Programs : \A t, u \in Tasks :
       p[t].op = "write" /\ p[u].op = "write" /\ p[t].folio = p[u].folio => t = u

VARIABLES
  prog,
  bit,            \* of each folio: which of Bits are set
  waiters,        \* of each folio: PG_waiters
  queued, ahead,  \* the wait queue
  qlock,          \* q->lock: who holds it
  pc,
  rounds,         \* rounds a task has still to go
  wait,           \* wait->flags
  unfairness,
  waking,         \* folio_wake_bit: the bit
  left,           \* __wake_up_common: entries still to visit
  entry,          \* the entry it is working on
  page_match

queueVars == <<queued, ahead, qlock>>
walkVars == <<left, entry, page_match>>
vars == <<prog, bit, waiters, queueVars, pc, rounds, wait, unfairness, waking, walkVars>>

Exclusive(t) == prog[t].op \in {"lock", "killable", "async", "write"}
Waits(t) == ~Exclusive(t)
folio(t) == prog[t].folio
bit_nr(t) == IF prog[t].op = "wait_writeback" THEN "writeback" ELSE "locked"
Set(t) == bit_nr(t) \in bit[folio(t)]

Init ==
  /\ prog \in Programs
  /\ bit = [f \in Folios |-> {}]
  /\ waiters = [f \in Folios |-> FALSE]
  /\ queued = {} /\ ahead = [t \in Tasks |-> {}] /\ qlock = None
  /\ pc = [t \in Tasks |-> "idle"]
  /\ rounds = [t \in Tasks |-> prog[t].rounds]
  /\ wait = [t \in Tasks |-> {}]
  /\ unfairness = [t \in Tasks |-> 0]
  /\ waking = [t \in Tasks |-> "locked"]
  /\ left = {} /\ entry = None /\ page_match = FALSE

Goto(t, place) == pc' = [pc EXCEPT ![t] = place]
SetBit(t) == bit' = [bit EXCEPT ![folio(t)] = @ \union {bit_nr(t)}]
AddFlags(t, fl) == wait' = [wait EXCEPT ![t] = @ \union fl]

-----------------------------------------------------------------------------
(* The wait queue.                                                         *)

Enqueue(t) ==
  /\ queued' = queued \union {t}
  /\ ahead' = [ahead EXCEPT ![t] = queued]

Dequeue(t) ==
  /\ queued' = queued \ {t}
  /\ ahead' = [u \in Tasks |-> IF u = t THEN {} ELSE ahead[u] \ {t}]

-----------------------------------------------------------------------------
(* folio_lock, folio_wait_locked, folio_wait_writeback (inline): the fast  *)
(* path looks at the bit, and takes it if it wants it.                     *)

Begin(t) ==
  /\ pc[t] = "idle" /\ rounds[t] > 0
  /\ rounds' = [rounds EXCEPT ![t] = @ - 1]
  /\ unfairness' = [unfairness EXCEPT ![t] = sysctl_page_lock_unfairness]
  /\ IF Set(t) THEN Goto(t, "slow") /\ UNCHANGED bit
     ELSE IF Exclusive(t) THEN Goto(t, "locked") /\ SetBit(t)
     ELSE UNCHANGED <<pc, bit>>
  /\ UNCHANGED <<prog, waiters, queueVars, wait, waking, walkVars>>

(* repeat: the flags of the entry, then under the lock of the queue        *)
(* PG_waiters.  After some attempts the waiter asks for a handoff.         *)
WaitFlags(t) ==
  IF Waits(t) \/ prog[t].op = "async" THEN {}
  ELSE IF unfairness[t] = 0 THEN {"EXCLUSIVE", "CUSTOM"} ELSE {"EXCLUSIVE"}

(* Mutant of Repeat: PG_waiters is not set.                                *)
RepeatUnmarked(t) ==
  /\ pc[t] = "slow" /\ qlock = None
  /\ qlock' = t
  /\ wait' = [wait EXCEPT ![t] = WaitFlags(t)]
  /\ unfairness' = [unfairness EXCEPT ![t] = IF @ > 0 THEN @ - 1 ELSE 0]
  /\ Goto(t, "try")
  /\ UNCHANGED <<prog, bit, waiters, queued, ahead, rounds, waking, walkVars>>

Repeat(t) ==
  /\ pc[t] = "slow" /\ qlock = None
  /\ qlock' = t
  /\ wait' = [wait EXCEPT ![t] = WaitFlags(t)]
  /\ unfairness' = [unfairness EXCEPT ![t] = IF @ > 0 THEN @ - 1 ELSE 0]
  /\ waiters' = [waiters EXCEPT ![folio(t)] = TRUE]
  /\ Goto(t, "try")
  /\ UNCHANGED <<prog, bit, queued, ahead, rounds, waking, walkVars>>

(* folio_trylock_flag, and into the queue if it fails.                     *)
TryFlag(t) ==
  /\ pc[t] = "try"
  /\ qlock' = None
  /\ IF Set(t)
     THEN Enqueue(t) /\ Goto(t, "sleep") /\ UNCHANGED <<bit, wait>>
     ELSE /\ IF Exclusive(t) THEN SetBit(t) ELSE UNCHANGED bit
          /\ IF prog[t].op = "async"
             THEN Goto(t, "locked") /\ UNCHANGED wait
             ELSE Goto(t, "sleep") /\ AddFlags(t, {"WOKEN", "DONE"})
          /\ UNCHANGED <<queued, ahead>>
  /\ UNCHANGED <<prog, waiters, rounds, unfairness, waking, walkVars>>

(* The loop of folio_wait_bit_common, once the waiter is woken.  An        *)
(* exclusive one that was not handed the bit tries to take it, and if that *)
(* fails begins again.                                                     *)
Woken(t) ==
  /\ pc[t] = "sleep" /\ "WOKEN" \in wait[t] /\ prog[t].op # "async"
  /\ IF Waits(t) \/ "DONE" \in wait[t] THEN Goto(t, "finish") /\ UNCHANGED <<bit, wait>>
     ELSE IF Set(t) THEN Goto(t, "slow") /\ UNCHANGED <<bit, wait>>
     ELSE Goto(t, "finish") /\ SetBit(t) /\ AddFlags(t, {"DONE"})
  /\ UNCHANGED <<prog, waiters, queueVars, rounds, unfairness, waking, walkVars>>

(* A killable waiter finds a signal before it finds itself woken.          *)
Killed(t) ==
  /\ pc[t] = "sleep" /\ "WOKEN" \notin wait[t] /\ prog[t].op = "killable"
  /\ Goto(t, "finish")
  /\ UNCHANGED <<prog, bit, waiters, queueVars, rounds, wait, unfairness, waking, walkVars>>

(* Mutant of Finish: having been woken counts as having the lock.          *)
FinishWoken(t) ==
  /\ pc[t] = "finish"
  /\ IF t \in queued THEN qlock = None /\ Dequeue(t) ELSE UNCHANGED <<queued, ahead>>
  /\ Goto(t, IF Waits(t) THEN "idle" ELSE IF "WOKEN" \in wait[t] THEN "locked" ELSE "dead")
  /\ UNCHANGED <<prog, bit, waiters, qlock, rounds, wait, unfairness, waking, walkVars>>

(* finish_wait takes the entry out of the queue if nobody else did; only   *)
(* then do the flags tell the result.                                      *)
Finish(t) ==
  /\ pc[t] = "finish"
  /\ IF t \in queued THEN qlock = None /\ Dequeue(t) ELSE UNCHANGED <<queued, ahead>>
  /\ Goto(t, IF Waits(t) THEN "idle" ELSE IF "DONE" \in wait[t] THEN "locked" ELSE "dead")
  /\ UNCHANGED <<prog, bit, waiters, qlock, rounds, wait, unfairness, waking, walkVars>>

(* The owner of an asynchronous read is told to read again (its callback   *)
(* is not in this file): it tries the lock, or queues its entry again.     *)
AsyncRetry(t) ==
  /\ pc[t] = "sleep" /\ "WOKEN" \in wait[t] /\ prog[t].op = "async" /\ t \notin queued
  /\ Goto(t, IF Set(t) THEN "slow" ELSE "locked")
  /\ IF Set(t) THEN UNCHANGED bit ELSE SetBit(t)
  /\ UNCHANGED <<prog, waiters, queueVars, rounds, wait, unfairness, waking, walkVars>>

-----------------------------------------------------------------------------
(* Clearing a bit.  PG_waiters is read in the same atomic operation.       *)

Clear(t, b) ==
  /\ bit' = [bit EXCEPT ![folio(t)] = @ \ {b}]
  /\ waking' = [waking EXCEPT ![t] = b]

(* What the task does when a bit is cleared and its waiters are woken.     *)
AfterClear(t, b) == IF prog[t].op = "write" /\ b = "locked" THEN "writing" ELSE "idle"

folio_unlock(t) ==
  /\ pc[t] = "locked" /\ (prog[t].op = "write" => "writeback" \in bit[folio(t)])
  /\ Clear(t, "locked")
  /\ Goto(t, IF waiters[folio(t)] THEN "wake" ELSE AfterClear(t, "locked"))
  /\ UNCHANGED <<prog, waiters, queueVars, rounds, wait, unfairness, walkVars>>

(* folio_start_writeback                                                   *)
StartWriteback(t) ==
  /\ pc[t] = "locked" /\ prog[t].op = "write" /\ "writeback" \notin bit[folio(t)]
  /\ bit' = [bit EXCEPT ![folio(t)] = @ \union {"writeback"}]
  /\ UNCHANGED <<prog, waiters, queueVars, pc, rounds, wait, unfairness, waking, walkVars>>

(* folio_end_writeback, of a folio without dropbehind.                     *)
folio_end_writeback(t) ==
  /\ pc[t] = "writing"
  /\ Clear(t, "writeback")
  /\ Goto(t, IF waiters[folio(t)] THEN "wake" ELSE "idle")
  /\ UNCHANGED <<prog, waiters, queueVars, rounds, wait, unfairness, walkVars>>

(* folio_wake_bit: under the lock of the queue, visit the entries in order. *)
WakeBegin(t) ==
  /\ pc[t] = "wake" /\ qlock = None
  /\ qlock' = t
  /\ left' = queued /\ entry' = None /\ page_match' = FALSE
  /\ Goto(t, "walk")
  /\ UNCHANGED <<prog, bit, waiters, queued, ahead, rounds, wait, unfairness, waking>>

(* wake_page_match                                                         *)
Match(t, e) == folio(e) = folio(t) /\ bit_nr(e) = waking[t]

First(e) == e \in left /\ ahead[e] \cap left = {}

(* Mutant of Skip: an entry of another folio ends the walk.                *)
SkipAll(t, e) ==
  /\ pc[t] = "walk" /\ First(e) /\ ~Match(t, e)
  /\ page_match' = (page_match \/ folio(e) = folio(t))
  /\ left' = {}
  /\ UNCHANGED <<prog, bit, waiters, queueVars, pc, rounds, wait, unfairness, waking, entry>>

Skip(t, e) ==
  /\ pc[t] = "walk" /\ First(e) /\ ~Match(t, e)
  /\ page_match' = (page_match \/ folio(e) = folio(t))
  /\ left' = left \ {e}
  /\ UNCHANGED <<prog, bit, waiters, queueVars, pc, rounds, wait, unfairness, waking, entry>>

(* Somebody has taken the bit already: no exclusive waiter is woken.       *)
Stop(t, e) ==
  /\ pc[t] = "walk" /\ First(e) /\ Match(t, e) /\ "EXCLUSIVE" \in wait[e] /\ Set(e)
  /\ page_match' = TRUE
  /\ left' = {}
  /\ UNCHANGED <<prog, bit, waiters, queueVars, pc, rounds, wait, unfairness, waking, entry>>

(* wake_page_function takes the bit for a waiter that asked for a handoff, *)
(* and then tells the waiter.  One step: nobody can tell when, between the *)
(* test of the bit and the store of the flags, the bit was taken.          *)
Wake(t, e) ==
  /\ pc[t] = "walk" /\ First(e) /\ Match(t, e) /\ ~("EXCLUSIVE" \in wait[e] /\ Set(e))
  /\ page_match' = TRUE
  /\ IF "CUSTOM" \in wait[e]
     THEN SetBit(e) /\ AddFlags(e, {"WOKEN", "DONE"})
     ELSE AddFlags(e, {"WOKEN"}) /\ UNCHANGED bit
  /\ entry' = e
  /\ left' = IF "EXCLUSIVE" \in wait[e] THEN {} ELSE left \ {e}
  /\ Goto(t, "delete")
  /\ UNCHANGED <<prog, waiters, queueVars, rounds, unfairness, waking>>

(* The last thing it does is to take the entry out of the queue.           *)
Delete(t) ==
  /\ pc[t] = "delete"
  /\ Dequeue(entry)
  /\ entry' = None
  /\ Goto(t, "walk")
  /\ UNCHANGED <<prog, bit, waiters, qlock, rounds, wait, unfairness, waking, left, page_match>>

WakeEnd(t) ==
  /\ pc[t] = "walk" /\ left = {}
  /\ waiters' = IF queued = {} \/ ~page_match THEN [waiters EXCEPT ![folio(t)] = FALSE] ELSE waiters
  /\ qlock' = None
  /\ Goto(t, AfterClear(t, waking[t]))
  /\ UNCHANGED <<prog, bit, queued, ahead, rounds, wait, unfairness, waking, walkVars>>

-----------------------------------------------------------------------------
(* What a task does by itself once it has begun.                           *)
Continue(t) ==
  \/ Repeat(t) \/ TryFlag(t) \/ Woken(t) \/ Finish(t) \/ AsyncRetry(t)
  \/ folio_unlock(t) \/ StartWriteback(t) \/ folio_end_writeback(t)
  \/ WakeBegin(t) \/ Delete(t) \/ WakeEnd(t)
  \/ \E e \in Tasks : Skip(t, e) \/ Stop(t, e) \/ Wake(t, e)

Finished == (\A t \in Tasks : pc[t] \in {"idle", "dead"} /\ (pc[t] = "idle" => rounds[t] = 0))
Done == Finished /\ UNCHANGED vars

Next == (\E t \in Tasks : Begin(t) \/ Continue(t) \/ Killed(t)) \/ Done

Spec == Init /\ [][Next]_vars

(* Running tasks run on, owners let go of the bit in the end: unlocking    *)
(* follows an I/O that completes.  Nobody has to begin, nobody to be       *)
(* killed.                                                                 *)
FairSpec == Spec /\ \A t \in Tasks : WF_vars(Continue(t))

-----------------------------------------------------------------------------
(* Properties *)

Places ==
  {"idle", "slow", "try", "sleep", "finish", "locked", "writing", "wake", "walk", "delete", "dead"}

Flags == {"EXCLUSIVE", "CUSTOM", "WOKEN", "DONE"}

Types ==
  /\ prog \in Programs
  /\ bit \in [Folios -> SUBSET Bits]
  /\ waiters \in [Folios -> BOOLEAN]
  /\ queued \subseteq Tasks /\ ahead \in [Tasks -> SUBSET Tasks] /\ qlock \in Tasks \union {None}
  /\ pc \in [Tasks -> Places]
  /\ rounds \in [Tasks -> Nat]
  /\ wait \in [Tasks -> SUBSET Flags]
  /\ unfairness \in [Tasks -> Nat]
  /\ waking \in [Tasks -> Bits]
  /\ left \subseteq Tasks /\ entry \in Tasks \union {None} /\ page_match \in BOOLEAN

(* Who is where: q->lock is held by the task in a section it protects,     *)
(* entries of the queue belong to waiters, and a waker works on an entry   *)
(* that is still in the queue.                                             *)
QueueOK ==
  /\ \A t \in Tasks : pc[t] \in {"try", "walk", "delete"} <=> qlock = t
  /\ left \subseteq queued /\ (left # {} => qlock # None /\ pc[qlock] \in {"walk", "delete"})
  /\ \A t \in Tasks : pc[t] = "delete" => entry \in queued \ left
  /\ entry # None => qlock # None /\ pc[qlock] = "delete"
  /\ \A t \in queued : pc[t] \in {"sleep", "finish"} \/ (pc[t] = "slow" /\ t = entry)

(* The type invariant: every variable has its type, and the queue, its     *)
(* lock and its waker are in step with where the tasks are.                *)
TypeOK == Types /\ QueueOK

(* The tasks that own the lock of their folio: those between lock and      *)
(* unlock, and those that got it, or had it handed to them, but have not   *)
(* noticed yet.                                                            *)
Owns(t) ==
  \/ pc[t] = "locked"
  \/ pc[t] \in {"sleep", "finish"} /\ Exclusive(t) /\ "DONE" \in wait[t]

(* PG_locked has exactly one owner while it is set and none while it is    *)
(* clear, whoever takes the bit: a task that finds it clear, one that is   *)
(* woken, or a waker on behalf of a waiter that may have been killed.      *)
LockHasOneOwner ==
  /\ \A t \in Tasks : Owns(t) => "locked" \in bit[folio(t)]
  /\ \A t, u \in Tasks : Owns(t) /\ Owns(u) /\ folio(t) = folio(u) => t = u
  /\ \A f \in Folios : "locked" \in bit[f] => \E t \in Tasks : Owns(t) /\ folio(t) = f

(* A killed waiter that was woken for the lock after it had seen the       *)
(* signal: it returns -EINTR, and the wake-up goes no further.             *)
Swallowed(t) ==
  /\ pc[t] \in {"finish", "dead"} /\ Exclusive(t)
  /\ "WOKEN" \in wait[t] /\ "DONE" \notin wait[t]

(* A bit is clear and somebody waits for it: then PG_waiters was not lost  *)
(* on the way, and a waker of folio_wake_bit is about to reach the entry,  *)
(* or, where the bit is the lock, another waiter was woken and is about to *)
(* take it, or was killed and has swallowed the wake-up.  For the end of   *)
(* writeback there is no such exception.                                   *)
WakeupPending ==
  \A t \in queued :
    "WOKEN" \notin wait[t] /\ ~Set(t) =>
      \E u \in Tasks :
        \/ pc[u] = "wake" /\ Match(u, t)
        \/ pc[u] \in {"walk", "delete"} /\ Match(u, t) /\ t \in left
        \/ /\ folio(u) = folio(t) /\ bit_nr(t) = "locked"
           /\ (Exclusive(u) /\ "WOKEN" \in wait[u] /\ pc[u] = "sleep") \/ Swallowed(u)

(* Whoever enters folio_wait_bit_common or __folio_lock_async gets what it *)
(* waits for or is killed, unless a killed waiter of the same folio        *)
(* swallows a wake-up.                                                     *)
EveryoneReturns ==
  \A t \in Tasks :
    pc[t] = "slow" ~> \/ pc[t] \in {"idle", "dead", "locked"}
                      \/ \E u \in Tasks : folio(u) = folio(t) /\ Swallowed(u)

(* "Unlocks the folio and wakes up any thread sleeping on the page lock."  *)
(* A task asleep on a bit that is clear does not stay so.                  *)
SleepersWoken ==
  \A t \in Tasks : (t \in queued /\ ~Set(t)) ~> (t \notin queued \/ Set(t))
=============================================================================
