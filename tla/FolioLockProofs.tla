-------------------------- MODULE FolioLockProofs --------------------------
(* The folio lock has one owner, and no wake-up of folio_wait_bit is lost, *)
(* for any number of tasks and folios that share the wait queue.           *)
EXTENDS FolioLock, TLAPS

(* What the flags of an entry say.  A handoff is asked for by those who    *)
(* want the lock; an attempt begins without WOKEN and DONE; an entry that  *)
(* was woken is the one its waker is about to take out; an asynchronous    *)
(* entry is told, never handed the lock.                                   *)
FlagsOK ==
  /\ \A t \in Tasks : "CUSTOM" \in wait[t] => "EXCLUSIVE" \in wait[t] /\ Exclusive(t)
  /\ \A t \in Tasks : pc[t] = "try" => "WOKEN" \notin wait[t] /\ "DONE" \notin wait[t]
  /\ \A t \in queued : "WOKEN" \in wait[t] => t = entry
  /\ \A t \in Tasks : prog[t].op = "async" => "CUSTOM" \notin wait[t] /\ "DONE" \notin wait[t]
  /\ \A t \in Tasks : pc[t] = "locked" => Exclusive(t)

(* The inductive invariant.                                                *)
IInv == TypeOK /\ FlagsOK /\ LockHasOneOwner

(* What a program says of a task, by the assumption on Programs.           *)
LEMMA ProgFacts ==
  ASSUME TypeOK, NEW t \in Tasks
  PROVE  /\ folio(t) \in Folios
         /\ prog[t].op \in Ops /\ prog[t].rounds \in Nat
         /\ bit_nr(t) \in Bits
         /\ Exclusive(t) => bit_nr(t) = "locked"
BY ProgramsAssumption DEF TypeOK, Types, folio, bit_nr, Bits, Ops, Exclusive

(* At the start nobody waits and nobody owns a lock.                       *)
LEMMA InitIInv == Init => IInv
<1> SUFFICES ASSUME Init PROVE IInv
  OBVIOUS
<1>1. Types
  BY ProgramsAssumption, Zenon DEF Init, Types, Bits, Places
<1>2. QueueOK /\ FlagsOK
  BY <1>1, ProgramsAssumption DEF Init, Types, QueueOK, FlagsOK
<1>3. LockHasOneOwner
  BY <1>1 DEF Init, Types, LockHasOneOwner, Owns
<1> QED BY <1>1, <1>2, <1>3 DEF IInv, TypeOK

(* Setting the bit a task wants changes no other folio.                    *)
LEMMA SetBitFacts ==
  ASSUME Types, NEW u \in Tasks, folio(u) \in Folios, bit_nr(u) \in Bits, SetBit(u)
  PROVE  /\ bit' \in [Folios -> SUBSET Bits]
         /\ bit'[folio(u)] = bit[folio(u)] \union {bit_nr(u)}
         /\ \A f \in Folios \ {folio(u)} : bit'[f] = bit[f]
BY DEF Types, SetBit, Bits

(* Adding to the flags of one entry leaves the others alone.               *)
LEMMA AddFlagsFacts ==
  ASSUME Types, NEW u \in Tasks, NEW fl \in SUBSET {"WOKEN", "DONE"}, AddFlags(u, fl)
  PROVE  /\ wait' \in [Tasks -> SUBSET Flags]
         /\ \A v \in Tasks, x \in Flags : x \in wait'[v] <=> x \in wait[v] \/ (v = u /\ x \in fl)
BY Zenon DEF Types, AddFlags, Flags

(* Three ways in which a step keeps one owner: nobody gains or loses the   *)
(* lock, one task takes a free lock, the owner gives it up.                *)
LEMMA SameOwners ==
  ASSUME LockHasOneOwner, prog' = prog,
         \A u \in Tasks : Owns(u)' <=> Owns(u),
         \A f \in Folios : "locked" \in bit'[f] <=> "locked" \in bit[f],
         \A u \in Tasks : folio(u) \in Folios
  PROVE  LockHasOneOwner'
BY DEF LockHasOneOwner, folio

(* A task takes a free lock, or has it taken for it.                       *)
LEMMA NewOwner ==
  ASSUME LockHasOneOwner, prog' = prog, NEW t \in Tasks, folio(t) \in Folios,
         "locked" \notin bit[folio(t)],
         Owns(t)', \A u \in Tasks \ {t} : Owns(u)' <=> Owns(u),
         "locked" \in bit'[folio(t)],
         \A f \in Folios \ {folio(t)} : "locked" \in bit'[f] <=> "locked" \in bit[f],
         \A u \in Tasks : folio(u) \in Folios
  PROVE  LockHasOneOwner'
BY DEF LockHasOneOwner, folio

(* The owner gives the lock up.                                            *)
LEMMA OwnerGone ==
  ASSUME LockHasOneOwner, prog' = prog, NEW t \in Tasks, folio(t) \in Folios,
         Owns(t), ~Owns(t)', \A u \in Tasks \ {t} : Owns(u)' <=> Owns(u),
         "locked" \notin bit'[folio(t)],
         \A f \in Folios \ {folio(t)} : "locked" \in bit'[f] <=> "locked" \in bit[f],
         \A u \in Tasks : folio(u) \in Folios
  PROVE  LockHasOneOwner'
BY DEF LockHasOneOwner, folio

(* The fast path takes the lock only if it is clear.                       *)
LEMMA BeginKeeps ==
  ASSUME IInv, NEW t \in Tasks, Begin(t)
  PROVE  IInv'
<1> USE ProgramsAssumption DEF IInv, TypeOK
<1>p. \A u \in Tasks : /\ folio(u) \in Folios /\ bit_nr(u) \in Bits
                       /\ Exclusive(u) => bit_nr(u) = "locked"
  BY ProgFacts
<1> USE <1>p
<1>1. CASE Set(t)
  <2>0. /\ pc' = [pc EXCEPT ![t] = "slow"]
        /\ bit' = bit
        /\ wait' = wait
        /\ UNCHANGED <<queued, ahead, qlock, left, entry, page_match>>
        /\ UNCHANGED <<prog, waiters, wait, waking>> /\ rounds' = [rounds EXCEPT ![t] = @ - 1] /\ rounds[t] > 0
        /\ unfairness' = [unfairness EXCEPT ![t] = sysctl_page_lock_unfairness]
        /\ pc[t] = "idle"
    BY <1>1 DEF Begin, Goto, queueVars, walkVars, Exclusive, Waits
  <2>1. Types'
    BY <1>1, <2>0 DEF Set, Types, Bits, Places
  <2>2. QueueOK'
    BY <1>1, <2>0 DEF Types, QueueOK, FlagsOK
  <2>3. FlagsOK'
    BY <1>1, <2>0 DEF Types, QueueOK, FlagsOK, Exclusive, Waits
  <2>4. /\ \A u \in Tasks : Owns(u)' <=> Owns(u)
        /\ \A f \in Folios : "locked" \in bit'[f] <=> "locked" \in bit[f]
        /\ prog' = prog
    BY <1>1, <2>0 DEF Set, Types, QueueOK, FlagsOK, Owns, Exclusive, Waits
  <2>5. LockHasOneOwner'
    BY <2>4, SameOwners
  <2> QED BY <2>1, <2>2, <2>3, <2>5
<1>2. CASE ~Set(t) /\ Exclusive(t)
  <2>0. /\ pc' = [pc EXCEPT ![t] = "locked"]
        /\ SetBit(t)
        /\ wait' = wait
        /\ UNCHANGED <<queued, ahead, qlock, left, entry, page_match>>
        /\ UNCHANGED <<prog, waiters, wait, waking>> /\ rounds' = [rounds EXCEPT ![t] = @ - 1] /\ rounds[t] > 0
        /\ unfairness' = [unfairness EXCEPT ![t] = sysctl_page_lock_unfairness]
        /\ pc[t] = "idle"
    BY <1>2 DEF Begin, Goto, queueVars, walkVars, Exclusive, Waits
  <2>b. /\ bit' \in [Folios -> SUBSET Bits]
        /\ bit'[folio(t)] = bit[folio(t)] \union {bit_nr(t)}
        /\ \A f \in Folios \ {folio(t)} : bit'[f] = bit[f]
    BY <2>0, <1>p, SetBitFacts
  <2>1. Types'
    BY <1>2, <2>0, <2>b DEF Set, Types, Bits, Places
  <2>2. QueueOK'
    BY <1>2, <2>0 DEF Types, QueueOK, FlagsOK
  <2>3. FlagsOK'
    BY <1>2, <2>0 DEF Types, QueueOK, FlagsOK, Exclusive, Waits
  <2>4. /\ "locked" \notin bit[folio(t)] /\ "locked" \in bit'[folio(t)]
        /\ \A f \in Folios \ {folio(t)} : "locked" \in bit'[f] <=> "locked" \in bit[f]
    BY <1>2, <2>0, <2>b DEF Set, FlagsOK, Exclusive
  <2>5. Owns(t)'
    BY <1>2, <2>0 DEF Types, QueueOK, FlagsOK, Owns, Exclusive
  <2>6. ASSUME NEW u \in Tasks \ {t} PROVE Owns(u)' <=> Owns(u)
    BY <1>2, <2>0 DEF Types, Owns, Exclusive
  <2>7. LockHasOneOwner'
    BY <2>0, <2>4, <2>5, <2>6, NewOwner
  <2> QED BY <2>1, <2>2, <2>3, <2>7
<1>3. CASE ~Set(t) /\ ~Exclusive(t)
  <2>1. Types'
    BY <1>3 DEF Begin, Goto, SetBit, Set, queueVars, walkVars, Types, Bits, Places
  <2>2. QueueOK'
    BY <1>3 DEF Begin, Goto, SetBit, Set, queueVars, walkVars, Types, QueueOK, FlagsOK
  <2>3. FlagsOK'
    BY <1>3 DEF Begin, Goto, SetBit, Set, queueVars, walkVars, Types, QueueOK, FlagsOK, Exclusive, Waits
  <2>4. /\ \A u \in Tasks : Owns(u)' <=> Owns(u)
        /\ \A f \in Folios : "locked" \in bit'[f] <=> "locked" \in bit[f]
        /\ prog' = prog
    BY <1>3 DEF Begin, Goto, SetBit, Set, queueVars, walkVars, Types, QueueOK, FlagsOK, Owns, Exclusive, Waits
  <2>5. LockHasOneOwner'
    BY <2>4, SameOwners
  <2> QED BY <2>1, <2>2, <2>3, <2>5
<1> QED BY <1>1, <1>2, <1>3

(* A waiter enters the critical section of the queue.                      *)
LEMMA RepeatKeeps ==
  ASSUME IInv, NEW t \in Tasks, Repeat(t)
  PROVE  IInv'
<1> USE ProgramsAssumption DEF IInv, TypeOK
<1>p. \A u \in Tasks : /\ folio(u) \in Folios /\ bit_nr(u) \in Bits
                       /\ Exclusive(u) => bit_nr(u) = "locked"
  BY ProgFacts
<1> USE <1>p
<1>1. Types'
  BY DEF Repeat, Goto, WaitFlags, queueVars, walkVars, Types, Bits, Places, Flags
<1>2. QueueOK'
  BY DEF Repeat, Goto, WaitFlags, queueVars, walkVars, Types, QueueOK, FlagsOK
<1>3. FlagsOK'
  BY DEF Repeat, Goto, WaitFlags, queueVars, walkVars, Types, QueueOK, FlagsOK, Exclusive, Waits
<1>4. /\ \A u \in Tasks : Owns(u)' <=> Owns(u)
      /\ \A f \in Folios : "locked" \in bit'[f] <=> "locked" \in bit[f]
      /\ prog' = prog
  BY DEF Repeat, Goto, WaitFlags, queueVars, walkVars, Types, QueueOK, FlagsOK, Owns, Exclusive, Waits
<1>5. LockHasOneOwner'
  BY <1>4, SameOwners
<1> QED BY <1>1, <1>2, <1>3, <1>5

(* It takes the free lock or queues itself.                                *)
LEMMA TryFlagKeeps ==
  ASSUME IInv, NEW t \in Tasks, TryFlag(t)
  PROVE  IInv'
<1> USE ProgramsAssumption DEF IInv, TypeOK
<1>p. \A u \in Tasks : /\ folio(u) \in Folios /\ bit_nr(u) \in Bits
                       /\ Exclusive(u) => bit_nr(u) = "locked"
  BY ProgFacts
<1> USE <1>p
<1>1. CASE Set(t)
  <2>0. /\ pc' = [pc EXCEPT ![t] = "sleep"]
        /\ bit' = bit
        /\ wait' = wait
        /\ Enqueue(t) /\ qlock' = None /\ UNCHANGED <<left, entry, page_match>>
        /\ UNCHANGED <<prog, waiters, rounds, unfairness, waking>>
        /\ pc[t] = "try"
    BY <1>1 DEF TryFlag, Goto, queueVars, walkVars, Exclusive, Waits
  <2>1. Types'
    BY <1>1, <2>0 DEF Set, Enqueue, Types, Bits, Places
  <2>2. QueueOK'
    BY <1>1, <2>0 DEF Enqueue, Types, QueueOK, FlagsOK
  <2>3. FlagsOK'
    BY <1>1, <2>0 DEF Enqueue, Types, QueueOK, FlagsOK, Exclusive, Waits
  <2>4. /\ \A u \in Tasks : Owns(u)' <=> Owns(u)
        /\ \A f \in Folios : "locked" \in bit'[f] <=> "locked" \in bit[f]
        /\ prog' = prog
    BY <1>1, <2>0 DEF Set, Enqueue, Types, QueueOK, FlagsOK, Owns, Exclusive, Waits
  <2>5. LockHasOneOwner'
    BY <2>4, SameOwners
  <2> QED BY <2>1, <2>2, <2>3, <2>5
<1>2. CASE ~Set(t) /\ prog[t].op = "async"
  <2>0. /\ pc' = [pc EXCEPT ![t] = "locked"]
        /\ SetBit(t)
        /\ wait' = wait
        /\ qlock' = None /\ UNCHANGED <<queued, ahead, left, entry, page_match>>
        /\ UNCHANGED <<prog, waiters, rounds, unfairness, waking>>
        /\ pc[t] = "try"
    BY <1>2 DEF TryFlag, Goto, queueVars, walkVars, Exclusive, Waits
  <2>b. /\ bit' \in [Folios -> SUBSET Bits]
        /\ bit'[folio(t)] = bit[folio(t)] \union {bit_nr(t)}
        /\ \A f \in Folios \ {folio(t)} : bit'[f] = bit[f]
    BY <2>0, <1>p, SetBitFacts
  <2>1. Types'
    BY <1>2, <2>0, <2>b DEF Set, Enqueue, Types, Bits, Places
  <2>2. QueueOK'
    BY <1>2, <2>0 DEF Enqueue, Types, QueueOK, FlagsOK
  <2>3. FlagsOK'
    BY <1>2, <2>0 DEF Enqueue, Types, QueueOK, FlagsOK, Exclusive, Waits
  <2>4. /\ "locked" \notin bit[folio(t)] /\ "locked" \in bit'[folio(t)]
        /\ \A f \in Folios \ {folio(t)} : "locked" \in bit'[f] <=> "locked" \in bit[f]
    BY <1>2, <2>0, <2>b DEF Set, FlagsOK, Exclusive
  <2>5. Owns(t)'
    BY <1>2, <2>0 DEF Types, QueueOK, FlagsOK, Owns, Exclusive
  <2>6. ASSUME NEW u \in Tasks \ {t} PROVE Owns(u)' <=> Owns(u)
    BY <1>2, <2>0, Zenon DEF Types, Owns, Exclusive
  <2>7. LockHasOneOwner'
    BY <2>0, <2>4, <2>5, <2>6, NewOwner
  <2> QED BY <2>1, <2>2, <2>3, <2>7
<1>3. CASE ~Set(t) /\ Exclusive(t) /\ prog[t].op # "async"
  <2>0. /\ pc' = [pc EXCEPT ![t] = "sleep"]
        /\ SetBit(t)
        /\ AddFlags(t, {"WOKEN", "DONE"})
        /\ qlock' = None /\ UNCHANGED <<queued, ahead, left, entry, page_match>>
        /\ UNCHANGED <<prog, waiters, rounds, unfairness, waking>>
        /\ pc[t] = "try"
    BY <1>3 DEF TryFlag, Goto, queueVars, walkVars, Exclusive, Waits
  <2>b. /\ bit' \in [Folios -> SUBSET Bits]
        /\ bit'[folio(t)] = bit[folio(t)] \union {bit_nr(t)}
        /\ \A f \in Folios \ {folio(t)} : bit'[f] = bit[f]
    BY <2>0, <1>p, SetBitFacts
  <2>w. /\ wait' \in [Tasks -> SUBSET Flags]
        /\ \A v \in Tasks, x \in Flags : x \in wait'[v] <=> x \in wait[v] \/ (v = t /\ x \in {"WOKEN", "DONE"})
    BY <2>0, AddFlagsFacts
  <2>1. Types'
    BY <1>3, <2>0, <2>b, <2>w, Zenon DEF Set, Enqueue, Flags, Types, Bits, Places
  <2>2. QueueOK'
    BY <1>3, <2>0 DEF Enqueue, Types, QueueOK, FlagsOK
  <2>q. t \notin queued
    BY <2>0, Zenon DEF Types, QueueOK
  <2>3. FlagsOK'
    <3>1. \A v \in Tasks : /\ "CUSTOM" \in wait'[v] <=> "CUSTOM" \in wait[v]
                           /\ "EXCLUSIVE" \in wait'[v] <=> "EXCLUSIVE" \in wait[v]
                           /\ v # t => /\ "WOKEN" \in wait'[v] <=> "WOKEN" \in wait[v]
                                       /\ "DONE" \in wait'[v] <=> "DONE" \in wait[v]
      BY <2>w DEF Flags
    <3> QED BY <1>3, <2>0, <2>q, <3>1, Zenon DEF Types, FlagsOK, Exclusive
  <2>4. /\ "locked" \notin bit[folio(t)] /\ "locked" \in bit'[folio(t)]
        /\ \A f \in Folios \ {folio(t)} : "locked" \in bit'[f] <=> "locked" \in bit[f]
    BY <1>3, <2>0, <2>b, Zenon DEF Set, FlagsOK, Exclusive
  <2>5. Owns(t)'
    BY <1>3, <2>0, <2>w DEF Flags, Types, QueueOK, FlagsOK, Owns, Exclusive
  <2>6. ASSUME NEW u \in Tasks \ {t} PROVE Owns(u)' <=> Owns(u)
    BY <1>3, <2>0, <2>w, Zenon DEF Flags, Types, Owns, Exclusive
  <2>7. LockHasOneOwner'
    BY <2>0, <2>4, <2>5, <2>6, NewOwner, Zenon
  <2> QED BY <2>1, <2>2, <2>3, <2>7
<1>4. CASE ~Set(t) /\ ~Exclusive(t)
  <2>0. /\ pc' = [pc EXCEPT ![t] = "sleep"]
        /\ bit' = bit
        /\ AddFlags(t, {"WOKEN", "DONE"})
        /\ qlock' = None /\ UNCHANGED <<queued, ahead, left, entry, page_match>>
        /\ UNCHANGED <<prog, waiters, rounds, unfairness, waking>>
        /\ pc[t] = "try"
    BY <1>4, Zenon DEF TryFlag, Goto, queueVars, walkVars, Exclusive, Waits
  <2>w. /\ wait' \in [Tasks -> SUBSET Flags]
        /\ \A v \in Tasks, x \in Flags : x \in wait'[v] <=> x \in wait[v] \/ (v = t /\ x \in {"WOKEN", "DONE"})
    BY <2>0, AddFlagsFacts
  <2>1. Types'
    BY <1>4, <2>0, <2>w, Zenon DEF Set, Enqueue, Flags, Types, Bits, Places
  <2>2. QueueOK'
    BY <1>4, <2>0 DEF Enqueue, Types, QueueOK, FlagsOK
  <2>q. t \notin queued
    BY <2>0, Zenon DEF Types, QueueOK
  <2>3. FlagsOK'
    <3>1. \A v \in Tasks : /\ "CUSTOM" \in wait'[v] <=> "CUSTOM" \in wait[v]
                           /\ "EXCLUSIVE" \in wait'[v] <=> "EXCLUSIVE" \in wait[v]
                           /\ v # t => /\ "WOKEN" \in wait'[v] <=> "WOKEN" \in wait[v]
                                       /\ "DONE" \in wait'[v] <=> "DONE" \in wait[v]
      BY <2>w DEF Flags
    <3> QED BY <1>4, <2>0, <2>q, <3>1, SMTT(20) DEF Types, FlagsOK, Exclusive
  <2>4. /\ \A u \in Tasks : Owns(u)' <=> Owns(u)
        /\ \A f \in Folios : "locked" \in bit'[f] <=> "locked" \in bit[f]
        /\ prog' = prog
    BY <1>4, <2>0, <2>w DEF Set, Enqueue, Flags, Types, QueueOK, FlagsOK, Owns, Exclusive, Waits
  <2>5. LockHasOneOwner'
    BY <2>4, SameOwners
  <2> QED BY <2>1, <2>2, <2>3, <2>5
<1> QED BY <1>1, <1>2, <1>3, <1>4

(* A woken waiter has the lock, takes it, or begins again.                 *)
LEMMA WokenKeeps ==
  ASSUME IInv, NEW t \in Tasks, Woken(t)
  PROVE  IInv'
<1> USE ProgramsAssumption DEF IInv, TypeOK
<1>p. \A u \in Tasks : /\ folio(u) \in Folios /\ bit_nr(u) \in Bits
                       /\ Exclusive(u) => bit_nr(u) = "locked"
  BY ProgFacts
<1> USE <1>p
<1>1. CASE Waits(t) \/ "DONE" \in wait[t]
  <2>0. /\ pc' = [pc EXCEPT ![t] = "finish"] /\ pc[t] = "sleep"
        /\ UNCHANGED <<prog, bit, waiters, queued, ahead, qlock, rounds, wait, unfairness, waking>>
        /\ UNCHANGED <<left, entry, page_match>>
    BY <1>1 DEF Woken, Goto, queueVars, walkVars
  <2>1. Types'
    BY <2>0 DEF Types, Places
  <2>2. QueueOK'
    BY <2>0 DEF Types, QueueOK
  <2>3. FlagsOK'
    BY <2>0 DEF Types, FlagsOK, Exclusive
  <2>4. /\ \A u \in Tasks : Owns(u)' <=> Owns(u)
        /\ \A f \in Folios : "locked" \in bit'[f] <=> "locked" \in bit[f]
        /\ prog' = prog
    BY <2>0, Zenon DEF Types, Owns, Exclusive
  <2>5. LockHasOneOwner'
    BY <2>4, SameOwners
  <2> QED BY <2>1, <2>2, <2>3, <2>5
<1>2. CASE ~(Waits(t) \/ "DONE" \in wait[t]) /\ Set(t)
  <2>0. /\ pc' = [pc EXCEPT ![t] = "slow"]
        /\ bit' = bit
        /\ wait' = wait
        /\ UNCHANGED <<queued, ahead, qlock, left, entry, page_match>>
        /\ UNCHANGED <<prog, waiters, rounds, unfairness, waking>>
        /\ pc[t] = "sleep" /\ "WOKEN" \in wait[t] /\ "DONE" \notin wait[t]
    BY <1>2 DEF Woken, Goto, queueVars, walkVars, Exclusive, Waits
  <2>1. Types'
    BY <1>2, <2>0, Zenon DEF Set, Types, Bits, Places
  <2>2. QueueOK'
    BY <1>2, <2>0, Zenon DEF Types, QueueOK, FlagsOK
  <2>3. FlagsOK'
    BY <1>2, <2>0, SMTT(20) DEF Types, QueueOK, FlagsOK, Exclusive, Waits
  <2>4. /\ \A u \in Tasks : Owns(u)' <=> Owns(u)
        /\ \A f \in Folios : "locked" \in bit'[f] <=> "locked" \in bit[f]
        /\ prog' = prog
    BY <1>2, <2>0, Zenon DEF Set, Types, QueueOK, FlagsOK, Owns, Exclusive, Waits
  <2>5. LockHasOneOwner'
    BY <2>4, SameOwners
  <2> QED BY <2>1, <2>2, <2>3, <2>5
<1>3. CASE ~(Waits(t) \/ "DONE" \in wait[t]) /\ ~Set(t)
  <2>0. /\ pc' = [pc EXCEPT ![t] = "finish"]
        /\ SetBit(t)
        /\ AddFlags(t, {"DONE"})
        /\ UNCHANGED <<queued, ahead, qlock, left, entry, page_match>>
        /\ UNCHANGED <<prog, waiters, rounds, unfairness, waking>>
        /\ pc[t] = "sleep" /\ "WOKEN" \in wait[t] /\ prog[t].op # "async"
    BY <1>3, Zenon DEF Woken, Goto, queueVars, walkVars, Exclusive, Waits
  <2>b. /\ bit' \in [Folios -> SUBSET Bits]
        /\ bit'[folio(t)] = bit[folio(t)] \union {bit_nr(t)}
        /\ \A f \in Folios \ {folio(t)} : bit'[f] = bit[f]
    BY <2>0, <1>p, SetBitFacts, Zenon
  <2>w. /\ wait' \in [Tasks -> SUBSET Flags]
        /\ \A v \in Tasks, x \in Flags : x \in wait'[v] <=> x \in wait[v] \/ (v = t /\ x \in {"DONE"})
    BY <2>0, AddFlagsFacts
  <2>1. Types'
    BY <1>3, <2>0, <2>b, <2>w, Zenon DEF Set, Flags, Types, Bits, Places
  <2>2. QueueOK'
    BY <1>3, <2>0, SMTT(20) DEF Types, QueueOK, FlagsOK
  <2>3. FlagsOK'
    BY <1>3, <2>0, <2>w, SMTT(20) DEF Flags, Types, QueueOK, FlagsOK, Exclusive, Waits
  <2>4. /\ "locked" \notin bit[folio(t)] /\ "locked" \in bit'[folio(t)]
        /\ \A f \in Folios \ {folio(t)} : "locked" \in bit'[f] <=> "locked" \in bit[f]
    BY <1>3, <2>0, <2>b DEF Set, Exclusive, Waits
  <2>5. Owns(t)'
    BY <1>3, <2>0, <2>w, Zenon DEF Flags, Types, Owns, Exclusive, Waits
  <2>6. ASSUME NEW u \in Tasks \ {t} PROVE Owns(u)' <=> Owns(u)
    BY <1>3, <2>0, <2>w DEF Flags, Types, Owns, Exclusive
  <2>7. LockHasOneOwner'
    BY <2>0, <2>4, <2>5, <2>6, NewOwner, Zenon
  <2> QED BY <2>1, <2>2, <2>3, <2>7
<1> QED BY <1>1, <1>2, <1>3, Zenon

(* A signal does not change who owns the lock.                             *)
LEMMA KilledKeeps ==
  ASSUME IInv, NEW t \in Tasks, Killed(t)
  PROVE  IInv'
<1> USE ProgramsAssumption DEF IInv, TypeOK
<1>p. \A u \in Tasks : /\ folio(u) \in Folios /\ bit_nr(u) \in Bits
                       /\ Exclusive(u) => bit_nr(u) = "locked"
  BY ProgFacts
<1> USE <1>p
<1>1. Types'
  BY Zenon DEF Killed, Goto, queueVars, walkVars, Types, Bits, Places
<1>2. QueueOK'
  BY SMTT(20) DEF Killed, Goto, queueVars, walkVars, Types, QueueOK, FlagsOK
<1>3. FlagsOK'
  BY SMTT(20) DEF Killed, Goto, queueVars, walkVars, Types, QueueOK, FlagsOK, Exclusive, Waits
<1>4. /\ \A u \in Tasks : Owns(u)' <=> Owns(u)
      /\ \A f \in Folios : "locked" \in bit'[f] <=> "locked" \in bit[f]
      /\ prog' = prog
  BY DEF Killed, Goto, queueVars, walkVars, Types, QueueOK, FlagsOK, Owns, Exclusive, Waits
<1>5. LockHasOneOwner'
  BY <1>4, SameOwners
<1> QED BY <1>1, <1>2, <1>3, <1>5

(* Taking an entry out leaves a queue of tasks.                            *)
LEMMA DequeueTypes ==
  ASSUME NEW t \in Tasks, queued \subseteq Tasks, ahead \in [Tasks -> SUBSET Tasks], Dequeue(t)
  PROVE  queued' \subseteq Tasks /\ ahead' \in [Tasks -> SUBSET Tasks]
<1>1. queued' \subseteq Tasks
  BY DEF Dequeue
<1>2. \A u \in Tasks : (IF u = t THEN {} ELSE ahead[u] \ {t}) \in SUBSET Tasks
  OBVIOUS
<1>3. ahead' \in [Tasks -> SUBSET Tasks]
  BY <1>2 DEF Dequeue
<1> QED BY <1>1, <1>3

(* The result is read from the flags: DONE, and the task is the owner.     *)
LEMMA FinishKeeps ==
  ASSUME IInv, NEW t \in Tasks, Finish(t)
  PROVE  IInv'
<1> USE ProgramsAssumption DEF IInv, TypeOK
<1>p. \A u \in Tasks : /\ folio(u) \in Folios /\ bit_nr(u) \in Bits
                       /\ Exclusive(u) => bit_nr(u) = "locked"
  BY ProgFacts
<1> USE <1>p
<1>1. Types'
  <2>1. PICK place \in {"idle", "locked", "dead"} : pc' = [pc EXCEPT ![t] = place]
    BY Zenon DEF Finish, Goto
  <2>2. queued' \subseteq Tasks /\ ahead' \in [Tasks -> SUBSET Tasks]
    <3>1. queued \subseteq Tasks /\ ahead \in [Tasks -> SUBSET Tasks]
      BY Zenon DEF Types
    <3>2. Dequeue(t) \/ (queued' = queued /\ ahead' = ahead)
      BY DEF Finish
    <3> QED BY <3>1, <3>2, DequeueTypes
  <2>3. UNCHANGED <<prog, bit, waiters, qlock, rounds, wait, unfairness, waking, left, entry, page_match>>
    BY Zenon DEF Finish, walkVars
  <2> QED BY <2>1, <2>2, <2>3, Zenon DEF Types, Places
<1>2. QueueOK'
  BY SMTT(20) DEF Finish, Goto, Dequeue, queueVars, walkVars, Types, QueueOK, FlagsOK
<1>3. FlagsOK'
  BY SMTT(20) DEF Finish, Goto, Dequeue, queueVars, walkVars, Types, QueueOK, FlagsOK, Exclusive, Waits
<1>4. /\ \A u \in Tasks : Owns(u)' <=> Owns(u)
      /\ \A f \in Folios : "locked" \in bit'[f] <=> "locked" \in bit[f]
      /\ prog' = prog
  BY DEF Finish, Goto, Dequeue, queueVars, walkVars, Types, QueueOK, FlagsOK, Owns, Exclusive, Waits
<1>5. LockHasOneOwner'
  BY <1>4, SameOwners
<1> QED BY <1>1, <1>2, <1>3, <1>5

(* An asynchronous owner takes the lock only if it is clear.               *)
LEMMA AsyncRetryKeeps ==
  ASSUME IInv, NEW t \in Tasks, AsyncRetry(t)
  PROVE  IInv'
<1> USE ProgramsAssumption DEF IInv, TypeOK
<1>p. \A u \in Tasks : /\ folio(u) \in Folios /\ bit_nr(u) \in Bits
                       /\ Exclusive(u) => bit_nr(u) = "locked"
  BY ProgFacts
<1> USE <1>p
<1>1. CASE Set(t)
  <2>1. Types'
    BY <1>1, Zenon DEF AsyncRetry, Goto, SetBit, Set, queueVars, walkVars, Types, Bits, Places
  <2>2. QueueOK'
    BY <1>1, SMTT(20) DEF AsyncRetry, Goto, SetBit, Set, queueVars, walkVars, Types, QueueOK, FlagsOK
  <2>3. FlagsOK'
    BY <1>1, Zenon DEF AsyncRetry, Goto, SetBit, Set, queueVars, walkVars, Types, QueueOK,
                    FlagsOK, Exclusive, Waits
  <2>4. /\ \A u \in Tasks : Owns(u)' <=> Owns(u)
        /\ \A f \in Folios : "locked" \in bit'[f] <=> "locked" \in bit[f]
        /\ prog' = prog
    BY <1>1, SMTT(20) DEF AsyncRetry, Goto, SetBit, Set, queueVars, walkVars, Types, QueueOK,
                    FlagsOK, Owns, Exclusive, Waits
  <2>5. LockHasOneOwner'
    BY <2>4, SameOwners
  <2> QED BY <2>1, <2>2, <2>3, <2>5
<1>2. CASE ~Set(t)
  <2>0. /\ pc' = [pc EXCEPT ![t] = "locked"]
        /\ SetBit(t)
        /\ wait' = wait
        /\ UNCHANGED <<queued, ahead, qlock, left, entry, page_match>>
        /\ UNCHANGED <<prog, waiters, rounds, unfairness, waking>>
        /\ pc[t] = "sleep" /\ "WOKEN" \in wait[t] /\ prog[t].op = "async" /\ t \notin queued
    BY <1>2, Zenon DEF AsyncRetry, Goto, queueVars, walkVars, Exclusive, Waits
  <2>b. /\ bit' \in [Folios -> SUBSET Bits]
        /\ bit'[folio(t)] = bit[folio(t)] \union {bit_nr(t)}
        /\ \A f \in Folios \ {folio(t)} : bit'[f] = bit[f]
    BY <2>0, <1>p, SetBitFacts, Zenon
  <2>1. Types'
    BY <1>2, <2>0, <2>b, Zenon DEF Set, Types, Bits, Places
  <2>2. QueueOK'
    BY <1>2, <2>0, SMTT(20) DEF Types, QueueOK, FlagsOK
  <2>3. FlagsOK'
    BY <1>2, <2>0 DEF Types, QueueOK, FlagsOK, Exclusive, Waits
  <2>4. /\ "locked" \notin bit[folio(t)] /\ "locked" \in bit'[folio(t)]
        /\ \A f \in Folios \ {folio(t)} : "locked" \in bit'[f] <=> "locked" \in bit[f]
    BY <1>2, <2>0, <2>b, Zenon DEF Set, FlagsOK, Exclusive
  <2>5. Owns(t)'
    BY <1>2, <2>0, Zenon DEF Types, QueueOK, FlagsOK, Owns, Exclusive
  <2>6. ASSUME NEW u \in Tasks \ {t} PROVE Owns(u)' <=> Owns(u)
    BY <1>2, <2>0 DEF Types, Owns, Exclusive
  <2>7. LockHasOneOwner'
    BY <2>0, <2>4, <2>5, <2>6, NewOwner, Zenon
  <2> QED BY <2>1, <2>2, <2>3, <2>7
<1> QED BY <1>1, <1>2, Zenon

(* The owner unlocks.                                                      *)
LEMMA FolioUnlockKeeps ==
  ASSUME IInv, NEW t \in Tasks, folio_unlock(t)
  PROVE  IInv'
<1> USE ProgramsAssumption DEF IInv, TypeOK
<1>p. \A u \in Tasks : /\ folio(u) \in Folios /\ bit_nr(u) \in Bits
                       /\ Exclusive(u) => bit_nr(u) = "locked"
  BY ProgFacts
<1> USE <1>p
<1>a. PICK place \in {"wake", "writing", "idle"} : pc' = [pc EXCEPT ![t] = place]
  BY Zenon DEF folio_unlock, Goto, AfterClear
<1>0. /\ pc[t] = "locked"
      /\ bit' = [bit EXCEPT ![folio(t)] = @ \ {"locked"}]
      /\ waking' = [waking EXCEPT ![t] = "locked"]
      /\ UNCHANGED <<prog, waiters, queued, ahead, qlock, rounds, wait, unfairness, left, entry, page_match>>
  BY Zenon DEF folio_unlock, Clear, queueVars, walkVars
<1>1. Types'
  BY <1>0, <1>a, Zenon DEF Types, Bits, Places
<1>2. QueueOK'
  BY <1>0, <1>a, Zenon DEF Types, QueueOK
<1>3. FlagsOK'
  BY <1>0, <1>a DEF Types, FlagsOK, Exclusive
<1>4. /\ "locked" \notin bit'[folio(t)]
      /\ \A f \in Folios \ {folio(t)} : "locked" \in bit'[f] <=> "locked" \in bit[f]
  BY <1>0, Zenon DEF Types
<1>5. /\ Owns(t) /\ ~Owns(t)'
      /\ \A u \in Tasks \ {t} : Owns(u)' <=> Owns(u)
  BY <1>0, <1>a DEF Types, Owns, Exclusive
<1>6. LockHasOneOwner'
  BY <1>0, <1>4, <1>5, OwnerGone, Zenon
<1> QED BY <1>1, <1>2, <1>3, <1>6

(* Writeback is another bit.                                               *)
LEMMA StartWritebackKeeps ==
  ASSUME IInv, NEW t \in Tasks, StartWriteback(t)
  PROVE  IInv'
<1> USE ProgramsAssumption DEF IInv, TypeOK
<1>p. \A u \in Tasks : /\ folio(u) \in Folios /\ bit_nr(u) \in Bits
                       /\ Exclusive(u) => bit_nr(u) = "locked"
  BY ProgFacts
<1> USE <1>p
<1>1. Types'
  BY Zenon DEF StartWriteback, queueVars, walkVars, Types, Bits, Places
<1>2. QueueOK'
  BY Zenon DEF StartWriteback, queueVars, walkVars, Types, QueueOK, FlagsOK
<1>3. FlagsOK'
  BY Zenon DEF StartWriteback, queueVars, walkVars, Types, QueueOK, FlagsOK, Exclusive, Waits
<1>4. /\ \A u \in Tasks : Owns(u)' <=> Owns(u)
      /\ \A f \in Folios : "locked" \in bit'[f] <=> "locked" \in bit[f]
      /\ prog' = prog
  BY Zenon DEF StartWriteback, queueVars, walkVars, Types, QueueOK, FlagsOK, Owns, Exclusive, Waits
<1>5. LockHasOneOwner'
  BY <1>4, SameOwners
<1> QED BY <1>1, <1>2, <1>3, <1>5

(* Writeback is another bit, here too.                                     *)
LEMMA FolioEndWritebackKeeps ==
  ASSUME IInv, NEW t \in Tasks, folio_end_writeback(t)
  PROVE  IInv'
<1> USE ProgramsAssumption DEF IInv, TypeOK
<1>p. \A u \in Tasks : /\ folio(u) \in Folios /\ bit_nr(u) \in Bits
                       /\ Exclusive(u) => bit_nr(u) = "locked"
  BY ProgFacts
<1> USE <1>p
<1>1. Types'
  BY Zenon DEF folio_end_writeback, Goto, Clear, queueVars, walkVars, Types, Bits, Places
<1>2. QueueOK'
  BY SMTT(20) DEF folio_end_writeback, Goto, Clear, queueVars, walkVars, Types, QueueOK, FlagsOK
<1>3. FlagsOK'
  BY DEF folio_end_writeback, Goto, Clear, queueVars, walkVars, Types, QueueOK, FlagsOK, Exclusive, Waits
<1>4. \A f \in Folios : "locked" \in bit'[f] <=> "locked" \in bit[f]
  BY DEF folio_end_writeback, Clear, Types
<1>5. \A u \in Tasks : Owns(u)' <=> Owns(u)
  BY DEF folio_end_writeback, Goto, Types, Owns, Exclusive
<1>6. LockHasOneOwner'
  BY <1>4, <1>5, SameOwners, Zenon DEF folio_end_writeback
<1> QED BY <1>1, <1>2, <1>3, <1>6

(* The waker takes the lock of the queue.                                  *)
LEMMA WakeBeginKeeps ==
  ASSUME IInv, NEW t \in Tasks, WakeBegin(t)
  PROVE  IInv'
<1> USE ProgramsAssumption DEF IInv, TypeOK
<1>p. \A u \in Tasks : /\ folio(u) \in Folios /\ bit_nr(u) \in Bits
                       /\ Exclusive(u) => bit_nr(u) = "locked"
  BY ProgFacts
<1> USE <1>p
<1>1. Types'
  BY Zenon DEF WakeBegin, Goto, queueVars, walkVars, Types, Bits, Places
<1>2. QueueOK'
  BY SMTT(20) DEF WakeBegin, Goto, queueVars, walkVars, Types, QueueOK, FlagsOK
<1>3. FlagsOK'
  BY SMTT(20) DEF WakeBegin, Goto, queueVars, walkVars, Types, QueueOK, FlagsOK, Exclusive, Waits
<1>4. /\ \A u \in Tasks : Owns(u)' <=> Owns(u)
      /\ \A f \in Folios : "locked" \in bit'[f] <=> "locked" \in bit[f]
      /\ prog' = prog
  BY SMTT(20) DEF WakeBegin, Goto, queueVars, walkVars, Types, QueueOK, FlagsOK, Owns, Exclusive, Waits
<1>5. LockHasOneOwner'
  BY <1>4, SameOwners
<1> QED BY <1>1, <1>2, <1>3, <1>5

(* It takes out the entry it woke.                                         *)
LEMMA DeleteKeeps ==
  ASSUME IInv, NEW t \in Tasks, Delete(t)
  PROVE  IInv'
<1> USE ProgramsAssumption DEF IInv, TypeOK
<1>p. \A u \in Tasks : /\ folio(u) \in Folios /\ bit_nr(u) \in Bits
                       /\ Exclusive(u) => bit_nr(u) = "locked"
  BY ProgFacts
<1> USE <1>p
<1>1. Types'
  BY Zenon DEF Delete, Goto, Dequeue, queueVars, walkVars, Types, Bits, Places
<1>2. QueueOK'
  BY Zenon DEF Delete, Goto, Dequeue, queueVars, walkVars, Types, QueueOK, FlagsOK
<1>3. FlagsOK'
  BY Zenon DEF Delete, Goto, Dequeue, queueVars, walkVars, Types, QueueOK, FlagsOK, Exclusive, Waits
<1>4. /\ \A u \in Tasks : Owns(u)' <=> Owns(u)
      /\ \A f \in Folios : "locked" \in bit'[f] <=> "locked" \in bit[f]
      /\ prog' = prog
  BY Zenon DEF Delete, Goto, Dequeue, queueVars, walkVars, Types, QueueOK, FlagsOK, Owns, Exclusive, Waits
<1>5. LockHasOneOwner'
  BY <1>4, SameOwners
<1> QED BY <1>1, <1>2, <1>3, <1>5

(* It leaves the queue.                                                    *)
LEMMA WakeEndKeeps ==
  ASSUME IInv, NEW t \in Tasks, WakeEnd(t)
  PROVE  IInv'
<1> USE ProgramsAssumption DEF IInv, TypeOK
<1>p. \A u \in Tasks : /\ folio(u) \in Folios /\ bit_nr(u) \in Bits
                       /\ Exclusive(u) => bit_nr(u) = "locked"
  BY ProgFacts
<1> USE <1>p
<1>1. Types'
  BY Zenon DEF WakeEnd, Goto, AfterClear, queueVars, walkVars, Types, Bits, Places
<1>2. QueueOK'
  BY Zenon DEF WakeEnd, Goto, AfterClear, queueVars, walkVars, Types, QueueOK, FlagsOK
<1>3. FlagsOK'
  BY Zenon DEF WakeEnd, Goto, AfterClear, queueVars, walkVars, Types, QueueOK, FlagsOK, Exclusive, Waits
<1>4. /\ \A u \in Tasks : Owns(u)' <=> Owns(u)
      /\ \A f \in Folios : "locked" \in bit'[f] <=> "locked" \in bit[f]
      /\ prog' = prog
  BY DEF WakeEnd, Goto, AfterClear, queueVars, walkVars, Types, QueueOK, FlagsOK, Owns, Exclusive, Waits
<1>5. LockHasOneOwner'
  BY <1>4, SameOwners
<1> QED BY <1>1, <1>2, <1>3, <1>5

(* It passes an entry.                                                     *)
LEMMA SkipKeeps ==
  ASSUME IInv, NEW t \in Tasks, NEW e \in Tasks, Skip(t, e)
  PROVE  IInv'
<1> USE ProgramsAssumption DEF IInv, TypeOK
<1>p. \A u \in Tasks : /\ folio(u) \in Folios /\ bit_nr(u) \in Bits
                       /\ Exclusive(u) => bit_nr(u) = "locked"
  BY ProgFacts, Zenon
<1> USE <1>p
<1>1. Types'
  BY Zenon DEF Skip, First, queueVars, walkVars, Types, Bits, Places
<1>2. QueueOK'
  BY Zenon DEF Skip, First, queueVars, walkVars, Types, QueueOK, FlagsOK
<1>3. FlagsOK'
  BY Zenon DEF Skip, First, queueVars, walkVars, Types, QueueOK, FlagsOK, Exclusive, Waits
<1>4. /\ \A u \in Tasks : Owns(u)' <=> Owns(u)
      /\ \A f \in Folios : "locked" \in bit'[f] <=> "locked" \in bit[f]
      /\ prog' = prog
  BY Zenon DEF Skip, First, queueVars, walkVars, Types, QueueOK, FlagsOK, Owns, Exclusive, Waits
<1>5. LockHasOneOwner'
  BY <1>4, SameOwners, Zenon
<1> QED BY <1>1, <1>2, <1>3, <1>5, Zenon

(* It stops at a taken lock.                                               *)
LEMMA StopKeeps ==
  ASSUME IInv, NEW t \in Tasks, NEW e \in Tasks, Stop(t, e)
  PROVE  IInv'
<1> USE ProgramsAssumption DEF IInv, TypeOK
<1>p. \A u \in Tasks : /\ folio(u) \in Folios /\ bit_nr(u) \in Bits
                       /\ Exclusive(u) => bit_nr(u) = "locked"
  BY ProgFacts
<1> USE <1>p
<1>1. Types'
  BY Zenon DEF Stop, First, queueVars, walkVars, Types, Bits, Places
<1>2. QueueOK'
  BY Zenon DEF Stop, First, queueVars, walkVars, Types, QueueOK, FlagsOK
<1>3. FlagsOK'
  BY Zenon DEF Stop, First, queueVars, walkVars, Types, QueueOK, FlagsOK, Exclusive, Waits
<1>4. /\ \A u \in Tasks : Owns(u)' <=> Owns(u)
      /\ \A f \in Folios : "locked" \in bit'[f] <=> "locked" \in bit[f]
      /\ prog' = prog
  BY Zenon DEF Stop, First, queueVars, walkVars, Types, QueueOK, FlagsOK, Owns, Exclusive, Waits
<1>5. LockHasOneOwner'
  BY <1>4, SameOwners
<1> QED BY <1>1, <1>2, <1>3, <1>5

(* It hands over the free lock, or wakes a waiter without it.              *)
LEMMA WakeKeeps ==
  ASSUME IInv, NEW t \in Tasks, NEW e \in Tasks, Wake(t, e)
  PROVE  IInv'
<1> USE ProgramsAssumption DEF IInv, TypeOK
<1>p. \A u \in Tasks : /\ folio(u) \in Folios /\ bit_nr(u) \in Bits
                       /\ Exclusive(u) => bit_nr(u) = "locked"
  BY ProgFacts
<1> USE <1>p
<1>1. CASE "CUSTOM" \in wait[e]
  <2>0. /\ pc' = [pc EXCEPT ![t] = "delete"]
        /\ SetBit(e)
        /\ AddFlags(e, {"WOKEN", "DONE"})
        /\ entry' = e /\ page_match' = TRUE
        /\ left' = (IF "EXCLUSIVE" \in wait[e] THEN {} ELSE left \ {e}) /\ e \in left
        /\ UNCHANGED <<queued, ahead, qlock>>
        /\ UNCHANGED <<prog, waiters, rounds, unfairness, waking>>
        /\ pc[t] = "walk" /\ ~("EXCLUSIVE" \in wait[e] /\ Set(e))
    BY <1>1, Zenon DEF Wake, First, Goto, Match, queueVars, walkVars, Exclusive, Waits
  <2>b. /\ bit' \in [Folios -> SUBSET Bits]
        /\ bit'[folio(e)] = bit[folio(e)] \union {bit_nr(e)}
        /\ \A f \in Folios \ {folio(e)} : bit'[f] = bit[f]
    BY <2>0, <1>p, SetBitFacts, Zenon
  <2>w. /\ wait' \in [Tasks -> SUBSET Flags]
        /\ \A v \in Tasks, x \in Flags : x \in wait'[v] <=> x \in wait[v] \/ (v = e /\ x \in {"WOKEN", "DONE"})
    BY <2>0, AddFlagsFacts
  <2>1. Types'
    BY <1>1, <2>0, <2>b, <2>w, Zenon DEF Set, Flags, Types, Bits, Places
  <2>2. QueueOK'
    BY <1>1, <2>0, SMTT(20) DEF Types, QueueOK, FlagsOK
  <2>3. FlagsOK'
    <3>1. \A u \in Tasks : pc'[u] = (IF u = t THEN "delete" ELSE pc[u])
      BY <2>0 DEF Types
    <3>2. \A u \in Tasks : Exclusive(u)' <=> Exclusive(u)
      BY <2>0, Zenon DEF Exclusive
    <3>3. {"CUSTOM", "EXCLUSIVE", "WOKEN", "DONE"} \subseteq Flags
      BY Zenon DEF Flags
    <3>4. \A u \in Tasks : "CUSTOM" \in wait'[u] => "EXCLUSIVE" \in wait'[u] /\ Exclusive(u)'
      BY <2>w, <3>2, <3>3, Zenon DEF FlagsOK
    <3>5. e \in queued /\ pc[e] # "try"
      BY <2>0, Zenon DEF QueueOK
    <3>6. \A u \in Tasks : pc'[u] = "try" => "WOKEN" \notin wait'[u] /\ "DONE" \notin wait'[u]
      BY <2>w, <3>1, <3>3, <3>5, Zenon DEF FlagsOK
    <3>7. \A u \in queued' : "WOKEN" \in wait'[u] => u = entry'
      <4>1. qlock = t /\ entry = None
        BY <2>0, Zenon DEF QueueOK
      <4>2. \A u \in queued : "WOKEN" \notin wait[u]
        BY <4>1, ProgramsAssumption DEF FlagsOK, Types
      <4>3. QED
        BY <2>0, <2>w, <3>3, <4>2 DEF Types
    <3>8. \A u \in Tasks : prog'[u].op = "async" => "CUSTOM" \notin wait'[u] /\ "DONE" \notin wait'[u]
      BY <1>1, <2>0, <2>w, <3>3, Zenon DEF FlagsOK
    <3>9. \A u \in Tasks : pc'[u] = "locked" => Exclusive(u)'
      BY <3>1, <3>2, Zenon DEF FlagsOK
    <3> QED BY <3>4, <3>6, <3>7, <3>8, <3>9, Zenon DEF FlagsOK
  <2>4. /\ "locked" \notin bit[folio(e)] /\ "locked" \in bit'[folio(e)]
        /\ \A f \in Folios \ {folio(e)} : "locked" \in bit'[f] <=> "locked" \in bit[f]
    BY <1>1, <2>0, <2>b, Zenon DEF Set, FlagsOK, Exclusive
  <2>5. Owns(e)'
    <3>1. Exclusive(e) /\ prog' = prog
      BY <1>1, <2>0, Zenon DEF FlagsOK
    <3>2. e \in queued /\ entry = None
      BY <2>0, Zenon DEF QueueOK
    <3>3. pc[e] \in {"sleep", "finish"} /\ e # t
      BY <2>0, <3>2, ProgramsAssumption, Zenon DEF QueueOK, Types
    <3>4. pc'[e] = pc[e] /\ "DONE" \in wait'[e]
      BY <2>0, <2>w, <3>3, Zenon DEF Types, Flags
    <3> QED BY <3>1, <3>3, <3>4, Zenon DEF Owns, Exclusive
  <2>6. ASSUME NEW u \in Tasks \ {e} PROVE Owns(u)' <=> Owns(u)
    BY <1>1, <2>0, <2>w DEF Flags, Types, Owns, Exclusive, QueueOK
  <2>7. LockHasOneOwner'
    BY <2>0, <2>4, <2>5, <2>6, NewOwner, Zenon
  <2> QED BY <2>1, <2>2, <2>3, <2>7
<1>2. CASE "CUSTOM" \notin wait[e]
  <2>0. /\ pc' = [pc EXCEPT ![t] = "delete"]
        /\ bit' = bit
        /\ AddFlags(e, {"WOKEN"})
        /\ entry' = e /\ page_match' = TRUE
        /\ left' = (IF "EXCLUSIVE" \in wait[e] THEN {} ELSE left \ {e}) /\ e \in left
        /\ UNCHANGED <<queued, ahead, qlock>>
        /\ UNCHANGED <<prog, waiters, rounds, unfairness, waking>>
        /\ pc[t] = "walk"
    BY <1>2 DEF Wake, First, Goto, Match, queueVars, walkVars, Exclusive, Waits
  <2>w. /\ wait' \in [Tasks -> SUBSET Flags]
        /\ \A v \in Tasks, x \in Flags : x \in wait'[v] <=> x \in wait[v] \/ (v = e /\ x \in {"WOKEN"})
    BY <2>0, AddFlagsFacts, Zenon
  <2>1. Types'
    BY <1>2, <2>0, <2>w, Zenon DEF Set, Flags, Types, Bits, Places
  <2>2. QueueOK'
    BY <1>2, <2>0, Zenon DEF Types, QueueOK, FlagsOK
  <2>3. FlagsOK'
    <3>1. \A u \in Tasks : pc'[u] = (IF u = t THEN "delete" ELSE pc[u])
      BY <2>0 DEF Types
    <3>2. \A u \in Tasks : Exclusive(u)' <=> Exclusive(u)
      BY <2>0, Zenon DEF Exclusive
    <3>3. {"CUSTOM", "EXCLUSIVE", "WOKEN", "DONE"} \subseteq Flags
      BY DEF Flags
    <3>4. \A u \in Tasks : "CUSTOM" \in wait'[u] => "EXCLUSIVE" \in wait'[u] /\ Exclusive(u)'
      BY <2>w, <3>2, <3>3, Zenon DEF FlagsOK
    <3>5. e \in queued /\ pc[e] # "try"
      BY <2>0, Zenon DEF QueueOK
    <3>6. \A u \in Tasks : pc'[u] = "try" => "WOKEN" \notin wait'[u] /\ "DONE" \notin wait'[u]
      BY <2>w, <3>1, <3>3, <3>5, Zenon DEF FlagsOK
    <3>7. \A u \in queued' : "WOKEN" \in wait'[u] => u = entry'
      <4>1. qlock = t /\ entry = None
        BY <2>0, Zenon DEF QueueOK
      <4>2. \A u \in queued : "WOKEN" \notin wait[u]
        BY <4>1, ProgramsAssumption DEF FlagsOK, Types
      <4>3. QED
        BY <2>0, <2>w, <3>3, <4>2 DEF Types
    <3>8. \A u \in Tasks : prog'[u].op = "async" => "CUSTOM" \notin wait'[u] /\ "DONE" \notin wait'[u]
      BY <1>2, <2>0, <2>w, <3>3, Zenon DEF FlagsOK
    <3>9. \A u \in Tasks : pc'[u] = "locked" => Exclusive(u)'
      BY <3>1, <3>2, Zenon DEF FlagsOK
    <3> QED BY <3>4, <3>6, <3>7, <3>8, <3>9, Zenon DEF FlagsOK
  <2>4. /\ \A u \in Tasks : Owns(u)' <=> Owns(u)
        /\ \A f \in Folios : "locked" \in bit'[f] <=> "locked" \in bit[f]
        /\ prog' = prog
    BY <1>2, <2>0, <2>w DEF Set, Flags, Types, QueueOK, FlagsOK, Owns, Exclusive, Waits
  <2>5. LockHasOneOwner'
    BY <2>4, SameOwners
  <2> QED BY <2>1, <2>2, <2>3, <2>5
<1> QED BY <1>1, <1>2, Zenon

(* Every step keeps the inductive invariant.                               *)
LEMMA NextKeeps == IInv /\ [Next]_vars => IInv'
<1> SUFFICES ASSUME IInv, [Next]_vars PROVE IInv'
  BY Zenon
<1>1. ASSUME NEW t \in Tasks, Begin(t) \/ Continue(t) \/ Killed(t) PROVE IInv'
  BY <1>1, BeginKeeps, RepeatKeeps, TryFlagKeeps, WokenKeeps, KilledKeeps, FinishKeeps,
     AsyncRetryKeeps, FolioUnlockKeeps, StartWritebackKeeps, FolioEndWritebackKeeps,
     WakeBeginKeeps, DeleteKeeps, WakeEndKeeps, SkipKeeps, StopKeeps, WakeKeeps DEF Continue
<1>2. CASE UNCHANGED vars
  <2> USE <1>2 DEF vars, queueVars, walkVars
  <2>1. Types'
    BY Zenon DEF IInv, TypeOK, Types
  <2>2. QueueOK'
    BY Zenon DEF IInv, TypeOK, QueueOK
  <2>3. FlagsOK'
    BY Zenon DEF IInv, FlagsOK, Exclusive
  <2>4. LockHasOneOwner'
    <3>1. /\ \A u \in Tasks : Owns(u)' <=> Owns(u)
          /\ \A f \in Folios : "locked" \in bit'[f] <=> "locked" \in bit[f]
          /\ prog' = prog
      BY Zenon DEF Owns, Exclusive
    <3>2. LockHasOneOwner /\ \A u \in Tasks : folio(u) \in Folios
      BY ProgFacts DEF IInv
    <3> QED BY <3>1, <3>2, SameOwners, Zenon
  <2> QED BY <2>1, <2>2, <2>3, <2>4, Zenon DEF IInv, TypeOK
<1> QED BY <1>1, <1>2 DEF Next, Done

(* The inductive invariant holds throughout.                               *)
LEMMA Invariance == Spec => []IInv
BY InitIInv, NextKeeps, PTL DEF Spec

(* Every variable keeps its type; the lock of the queue, the queue and the *)
(* waker of folio_wake_bit stay in step with where the tasks are.          *)
THEOREM TypeCorrect == Spec => []TypeOK
<1>1. IInv => TypeOK
  BY DEF IInv
<1> QED BY <1>1, Invariance, PTL

(* For any number of tasks and folios, whatever they do and whoever is     *)
(* killed: PG_locked, taken by folio_trylock_flag, by a woken waiter or by *)
(* wake_page_function for a waiter, has one owner while it is set and none *)
(* while it is clear.                                                      *)
THEOREM OneOwner == Spec => []LockHasOneOwner
<1>1. IInv => LockHasOneOwner
  BY Zenon DEF IInv
<1> QED BY <1>1, Invariance, PTL

-----------------------------------------------------------------------------
(* PG_waiters is set for every folio somebody waits for, or is about to;   *)
(* a walk that has passed an entry of its folio remembers it; who is told  *)
(* to take the lock wants it; DONE comes with WOKEN or after it.           *)
Marked ==
  /\ \A t \in Tasks : pc[t] = "try" \/ t \in queued => waiters[folio(t)]
  /\ \A u \in Tasks : pc[u] \in {"walk", "delete"} =>
       \A e \in queued \ left : folio(e) = folio(u) => page_match
  /\ \A t \in Tasks : "EXCLUSIVE" \in wait[t] => Exclusive(t)
  /\ \A t \in Tasks : "DONE" \in wait[t] => "WOKEN" \in wait[t]

(* A waiter nobody has told yet that its bit is clear.                     *)
Pends(t) == t \in queued /\ "WOKEN" \notin wait[t] /\ ~Set(t)

(* Who will tell it, or will take the bit and clear it again.  For a       *)
(* waiter for writeback only a waker will do.                              *)
Rescues(u, t) ==
  \/ pc[u] = "wake" /\ Match(u, t)
  \/ pc[u] \in {"walk", "delete"} /\ Match(u, t) /\ t \in left
  \/ /\ folio(u) = folio(t) /\ bit_nr(t) = "locked" /\ Exclusive(u)
     /\ "WOKEN" \in wait[u] /\ pc[u] = "sleep"
  \/ folio(u) = folio(t) /\ bit_nr(t) = "locked" /\ Swallowed(u)

Pending == \A t \in Tasks : Pends(t) => \E u \in Tasks : Rescues(u, t)

(* The inductive invariant of the wake-ups.                                *)
WInv == Marked /\ Pending

(* What is known of the tasks throughout.                                  *)
Known ==
  /\ None \notin Tasks
  /\ \A u \in Tasks : /\ folio(u) \in Folios /\ bit_nr(u) \in Bits
                      /\ Exclusive(u) => bit_nr(u) = "locked"

(* It follows from the assumption on Programs.                             *)
LEMMA AllKnown == IInv => Known
BY ProgramsAssumption, ProgFacts, Zenon DEF IInv, Known

(* Taking a bit takes none away.                                           *)
LEMMA BitsGrow ==
  ASSUME Types, NEW u \in Tasks, folio(u) \in Folios, bit_nr(u) \in Bits, SetBit(u) \/ bit' = bit
  PROVE  \A f \in Folios : bit[f] \subseteq bit'[f]
BY SetBitFacts DEF Types

(* Nobody new pends after a step that clears no bit, queues nobody and     *)
(* takes no flag back.                                                     *)
LEMMA NoneNew ==
  ASSUME prog' = prog, \A u \in Tasks : folio(u) \in Folios,
         \A f \in Folios : bit[f] \subseteq bit'[f],
         queued' \subseteq queued,
         \A u \in Tasks : "WOKEN" \in wait[u] => "WOKEN" \in wait'[u]
  PROVE  \A u \in Tasks : Pends(u)' => Pends(u)
BY DEF Pends, Set, folio, bit_nr

(* A step after which nobody new pends and every rescuer is still one.     *)
LEMMA StillPending ==
  ASSUME Pending, \A t \in Tasks : Pends(t)' => Pends(t),
         \A u, t \in Tasks : Pends(t)' /\ Rescues(u, t) => Rescues(u, t)'
  PROVE  Pending'
BY Zenon DEF Pending

(* A task that stays where it is, with its flags and what it has still to  *)
(* visit, rescues whom it did.                                             *)
LEMMA StillRescues ==
  ASSUME prog' = prog, NEW u \in Tasks, NEW v \in Tasks, Rescues(u, v),
         pc'[u] = pc[u], wait'[u] = wait[u], waking'[u] = waking[u],
         pc[u] \in {"walk", "delete"} /\ v \in left => v \in left'
  PROVE  Rescues(u, v)'
BY DEF Rescues, Swallowed, Match, folio, bit_nr, Exclusive

(* The fast path only sets a bit.                                          *)
LEMMA BeginWakes ==
  ASSUME IInv, WInv, NEW t \in Tasks, Begin(t)
  PROVE  WInv'
<1> USE DEF IInv, TypeOK, WInv, Known
<1>p. Known
  BY AllKnown, Zenon
<1>0. /\ prog' = prog /\ UNCHANGED <<waiters, queued, wait, waking, left, page_match>>
      /\ pc[t] = "idle" /\ pc'[t] \in {"idle", "slow", "locked"}
      /\ \A u \in Tasks \ {t} : pc'[u] = pc[u] /\ wait'[u] = wait[u]
  BY <1>p, Zenon DEF Begin, Goto, queueVars, walkVars, Types, QueueOK
<1>b. \A f \in Folios : bit[f] \subseteq bit'[f]
  BY <1>p, BitsGrow, Zenon DEF Begin
<1>1. Marked'
  BY <1>p, <1>0, Zenon DEF Marked, folio, bit_nr, Exclusive
<1>2. \A v \in Tasks : Pends(v)' => Pends(v)
  BY <1>p, <1>0, <1>b, NoneNew DEF folio, bit_nr, Exclusive
<1>3. ASSUME NEW u \in Tasks, NEW v \in Tasks, Pends(v)', Rescues(u, v)
      PROVE  Rescues(u, v)'
  <2>1. CASE u # t
    BY <1>p, <1>0, <1>3, <2>1, StillRescues DEF folio, bit_nr, Exclusive
  <2>2. CASE u = t
    BY <1>p, <1>0, <1>3, <2>2, Zenon DEF Rescues, Swallowed, folio, bit_nr, Exclusive
  <2> QED BY <2>1, <2>2, Zenon
<1> QED BY <1>1, <1>2, <1>3, StillPending

(* PG_waiters is set before the bit is tried and the entry queued.         *)
LEMMA RepeatWakes ==
  ASSUME IInv, WInv, NEW t \in Tasks, Repeat(t)
  PROVE  WInv'
<1> USE DEF IInv, TypeOK, WInv, Known
<1>p. Known
  BY AllKnown
<1>0. /\ prog' = prog /\ UNCHANGED <<bit, queued, waking, left, page_match>>
      /\ pc[t] = "slow" /\ pc'[t] = "try" /\ t \notin queued
      /\ \A u \in Tasks \ {t} : pc'[u] = pc[u] /\ wait'[u] = wait[u]
      /\ wait'[t] = WaitFlags(t) /\ waiters' = [waiters EXCEPT ![folio(t)] = TRUE]
  BY <1>p DEF Repeat, Goto, queueVars, walkVars, Types, QueueOK
<1>1. Marked'
  <2>1. wait'[t] \subseteq {"EXCLUSIVE", "CUSTOM"} /\ ("EXCLUSIVE" \in wait'[t] => Exclusive(t))
    BY <1>0 DEF WaitFlags, Waits, folio, bit_nr, Exclusive
  <2>2. \A f \in Folios : waiters[f] => waiters'[f]
    BY <1>p, <1>0, Zenon DEF Types
  <2>3. waiters'[folio(t)]
    BY <1>p, <1>0, Zenon DEF Types
  <2>4. \A u \in Tasks : pc'[u] = "try" \/ u \in queued' => waiters'[folio(u)']
    BY <1>p, <1>0, <2>2, <2>3, Zenon DEF Marked, folio, bit_nr, Exclusive
  <2>5. \A u \in Tasks : pc'[u] \in {"walk", "delete"} =>
          \A e \in queued' \ left' : folio(e)' = folio(u)' => page_match'
    BY <1>p, <1>0, Zenon DEF Marked, folio, bit_nr, Exclusive
  <2>6. \A u \in Tasks : "EXCLUSIVE" \in wait'[u] => Exclusive(u)'
    BY <1>p, <1>0, <2>1, Zenon DEF Marked, folio, bit_nr, Exclusive
  <2>7. \A u \in Tasks : "DONE" \in wait'[u] => "WOKEN" \in wait'[u]
    <3>1. \A u \in Tasks \ {t} : "DONE" \in wait'[u] => "WOKEN" \in wait'[u]
      BY <1>p, <1>0, Zenon DEF Marked
    <3>2. "DONE" \notin wait'[t]
      BY <2>1, Zenon
    <3> QED BY <3>1, <3>2, Zenon
  <2> QED BY <1>p, <2>4, <2>5, <2>6, <2>7, Zenon DEF Marked, folio, bit_nr, Exclusive
<1>2. \A v \in Tasks : Pends(v)' => Pends(v)
  BY <1>p, <1>0 DEF Pends, Set, folio, bit_nr, Exclusive
<1>3. ASSUME NEW u \in Tasks, NEW v \in Tasks, Pends(v)', Rescues(u, v)
      PROVE  Rescues(u, v)'
  <2>1. CASE u # t
    BY <1>p, <1>0, <1>3, <2>1, StillRescues, Zenon DEF folio, bit_nr, Exclusive
  <2>2. CASE u = t
    BY <1>p, <1>0, <1>3, <2>2, Zenon DEF Rescues, Swallowed, folio, bit_nr, Exclusive
  <2> QED BY <2>1, <2>2
<1> QED BY <1>1, <1>2, <1>3, StillPending

(* An entry is queued for a bit that is set, under the lock of the queue.  *)
LEMMA TryFlagWakes ==
  ASSUME IInv, WInv, NEW t \in Tasks, TryFlag(t)
  PROVE  WInv'
<1> USE DEF IInv, TypeOK, WInv, Known
<1>p. Known
  BY AllKnown
<1>0. /\ prog' = prog /\ UNCHANGED <<waiters, waking, left, page_match>>
      /\ pc[t] = "try" /\ pc'[t] \in {"sleep", "locked"}
      /\ \A u \in Tasks \ {t} : pc'[u] = pc[u] /\ wait'[u] = wait[u]
  BY <1>p, Zenon DEF TryFlag, Goto, Enqueue, AddFlags, queueVars, walkVars, Types, QueueOK
<1>w. PICK fl \in SUBSET {"WOKEN", "DONE"} :
        /\ AddFlags(t, fl) /\ (fl = {} \/ fl = {"WOKEN", "DONE"})
  <2>1. wait' = wait \/ AddFlags(t, {"WOKEN", "DONE"})
    BY DEF TryFlag
  <2>2. wait' = wait => AddFlags(t, {})
    BY <1>p, SMTT(20) DEF AddFlags, Types
  <2> QED BY <2>1, <2>2
<1>f. \A v \in Tasks, x \in Flags : x \in wait'[v] <=> x \in wait[v] \/ (v = t /\ x \in fl)
  BY <1>w, AddFlagsFacts, Zenon
<1>1. Marked'
  <2>1. /\ pc[t] = "try" /\ qlock = t /\ left = {} /\ UNCHANGED <<waiters, left, page_match>>
        /\ pc' \in [Tasks -> Places] /\ \A u \in Tasks \ {t} : pc'[u] = pc[u]
        /\ pc'[t] \in {"sleep", "locked"}
    BY <1>p, Zenon DEF TryFlag, Goto, walkVars, Types, QueueOK, Places
  <2>2. queued' \subseteq queued \union {t}
    BY Zenon DEF TryFlag, Enqueue
  <2>3. \A u \in Tasks : pc'[u] \notin {"walk", "delete"}
    BY <1>p, <2>1 DEF QueueOK
  <2>4. \A u \in Tasks : "EXCLUSIVE" \in wait'[u] => Exclusive(u)'
    BY <1>p, <1>0, <1>f, Zenon DEF Flags, Marked, folio, bit_nr, Exclusive
  <2>5. \A u \in Tasks : "DONE" \in wait'[u] => "WOKEN" \in wait'[u]
    BY <1>p, <1>w, <1>f DEF Flags, Marked, folio, bit_nr, Exclusive
  <2>6. \A u \in Tasks : pc'[u] = "try" \/ u \in queued' => waiters'[folio(u)']
    <3> SUFFICES ASSUME NEW u \in Tasks, pc'[u] = "try" \/ u \in queued'
                 PROVE  waiters[folio(u)]
      BY <1>0, <2>1, Zenon DEF folio
    <3>1. pc[u] = "try" \/ u \in queued
      <4>1. CASE u = t
        BY <2>1, <4>1, Zenon
      <4>2. CASE u # t
        BY <2>1, <2>2, <4>2, Zenon
      <4> QED BY <4>1, <4>2
    <3> QED BY <1>p, <3>1, Zenon DEF Marked
  <2> QED BY <1>p, <2>3, <2>4, <2>5, <2>6 DEF Marked, folio, bit_nr, Exclusive
<1>2. \A v \in Tasks : Pends(v)' => Pends(v)
  <2>1. CASE Set(t)
    <3>1. bit' = bit /\ queued' = queued \union {t} /\ wait' = wait
      BY <2>1, Zenon DEF TryFlag, Enqueue
    <3> QED BY <1>p, <1>0, <2>1, <3>1 DEF Pends, Set, folio, bit_nr, Exclusive
  <2>2. CASE ~Set(t)
    <3>1. queued' = queued /\ (SetBit(t) \/ bit' = bit)
      BY <2>2, Zenon DEF TryFlag
    <3>2. \A f \in Folios : bit[f] \subseteq bit'[f]
      BY <1>p, <3>1, BitsGrow
    <3> QED BY <1>p, <1>0, <1>f, <3>1, <3>2, NoneNew, Zenon DEF Flags
  <2> QED BY <2>1, <2>2
<1>3. ASSUME NEW u \in Tasks, NEW v \in Tasks, Pends(v)', Rescues(u, v)
      PROVE  Rescues(u, v)'
  <2>1. CASE u # t
    BY <1>p, <1>0, <1>3, <2>1, StillRescues, Zenon DEF folio, bit_nr, Exclusive
  <2>2. CASE u = t
    BY <1>p, <1>0, <1>3, <2>2, Zenon DEF Rescues, Swallowed, folio, bit_nr, Exclusive
  <2> QED BY <2>1, <2>2
<1> QED BY <1>1, <1>2, <1>3, StillPending

(* A woken waiter that does not get the lock finds it taken again.         *)
LEMMA WokenWakes ==
  ASSUME IInv, WInv, NEW t \in Tasks, Woken(t)
  PROVE  WInv'
<1> USE DEF IInv, TypeOK, WInv, Known
<1>p. Known
  BY AllKnown
<1>0. /\ prog' = prog /\ UNCHANGED <<waiters, queued, waking, left, page_match>>
      /\ pc[t] = "sleep" /\ "WOKEN" \in wait[t] /\ prog[t].op # "async"
      /\ \A u \in Tasks \ {t} : pc'[u] = pc[u]
      /\ pc'[t] \in {"finish", "slow"}
  BY <1>p, Zenon DEF Woken, Goto, queueVars, walkVars, Types
<1>w. PICK fl \in SUBSET {"DONE"} : AddFlags(t, fl)
  <2>1. wait' = wait \/ AddFlags(t, {"DONE"})
    BY Zenon DEF Woken
  <2>2. wait' = wait => AddFlags(t, {})
    BY <1>p DEF AddFlags, Types
  <2> QED BY <2>1, <2>2
<1>f. \A v \in Tasks, x \in Flags : x \in wait'[v] <=> x \in wait[v] \/ (v = t /\ x \in fl)
  BY <1>w, AddFlagsFacts
<1>b. \A f \in Folios : bit[f] \subseteq bit'[f]
  BY <1>p, BitsGrow, Zenon DEF Woken
<1>1. Marked'
  <2>1. \A u \in Tasks : pc'[u] = "try" \/ u \in queued' => waiters'[folio(u)']
    BY <1>p, <1>0, Zenon DEF Marked, folio, bit_nr, Exclusive
  <2>2. \A u \in Tasks : pc'[u] \in {"walk", "delete"} =>
          \A e \in queued' \ left' : folio(e)' = folio(u)' => page_match'
    BY <1>p, <1>0, Zenon DEF Marked, folio, bit_nr, Exclusive
  <2>3. \A u \in Tasks : "EXCLUSIVE" \in wait'[u] => Exclusive(u)'
    BY <1>p, <1>0, <1>f DEF Flags, Marked, folio, bit_nr, Exclusive
  <2>4. \A u \in Tasks : "DONE" \in wait'[u] => "WOKEN" \in wait'[u]
    BY <1>p, <1>0, <1>f, Zenon DEF Flags, Marked, folio, bit_nr, Exclusive
  <2> QED BY <1>p, <2>1, <2>2, <2>3, <2>4, Zenon DEF Marked, folio, bit_nr, Exclusive
<1>2. \A v \in Tasks : Pends(v)' => Pends(v)
  BY <1>p, <1>0, <1>b, <1>f, NoneNew, Zenon DEF Flags
<1>3. ASSUME NEW u \in Tasks, NEW v \in Tasks, Pends(v)', Rescues(u, v)
      PROVE  Rescues(u, v)'
  <2>1. CASE u # t
    <3>1. pc'[u] = pc[u] /\ ("WOKEN" \in wait'[u] <=> "WOKEN" \in wait[u])
                        /\ ("DONE" \in wait'[u] <=> "DONE" \in wait[u])
      BY <1>0, <1>f, <2>1, Zenon DEF Flags
    <3> QED BY <1>p, <1>0, <1>3, <3>1, Zenon DEF Rescues, Swallowed, Match, folio, bit_nr, Exclusive
  <2>2. CASE u = t
    <3>1. folio(t) = folio(v) /\ bit_nr(v) = "locked" /\ Exclusive(t)
      BY <1>p, <1>0, <1>3, <2>2, Zenon DEF Rescues, Swallowed, folio, bit_nr, Exclusive
    <3>2. "locked" \in bit'[folio(t)]
      <4>1. CASE "DONE" \in wait[t]
        BY <1>p, <1>0, <1>b, <3>1, <4>1, Zenon DEF LockHasOneOwner, Owns, Exclusive, folio, bit_nr
      <4>2. CASE "DONE" \notin wait[t] /\ Set(t)
        BY <1>p, <1>b, <3>1, <4>2, Zenon DEF Set, folio, bit_nr, Exclusive
      <4>3. CASE "DONE" \notin wait[t] /\ ~Set(t)
        <5>1. SetBit(t)
          BY <3>1, <4>3, Zenon DEF Woken, Waits, folio, bit_nr, Exclusive
        <5> QED BY <1>p, <3>1, <5>1, SetBitFacts, Zenon
      <4> QED BY <4>1, <4>2, <4>3
    <3>3. Set(v)'
      BY <1>p, <1>0, <3>1, <3>2 DEF Set, folio, bit_nr, Exclusive
    <3> QED BY <1>3, <3>3 DEF Pends, folio, bit_nr, Exclusive
  <2> QED BY <2>1, <2>2
<1> QED BY <1>1, <1>2, <1>3, StillPending

(* A waiter that sees a signal has not been woken.                         *)
LEMMA KilledWakes ==
  ASSUME IInv, WInv, NEW t \in Tasks, Killed(t)
  PROVE  WInv'
<1> USE DEF IInv, TypeOK, WInv, Known
<1>p. Known
  BY AllKnown
<1>0. /\ prog' = prog /\ UNCHANGED <<bit, waiters, queued, wait, waking, left, page_match>>
      /\ pc[t] = "sleep" /\ pc'[t] = "finish" /\ "WOKEN" \notin wait[t]
      /\ \A u \in Tasks \ {t} : pc'[u] = pc[u] /\ wait'[u] = wait[u]
  BY <1>p, Zenon DEF Killed, Goto, queueVars, walkVars, Types, QueueOK
<1>1. Marked'
  BY <1>p, <1>0, Zenon DEF Marked, folio, bit_nr, Exclusive
<1>2. \A v \in Tasks : Pends(v)' => Pends(v)
  BY <1>p, <1>0, Zenon DEF Pends, Set, folio, bit_nr, Exclusive
<1>3. ASSUME NEW u \in Tasks, NEW v \in Tasks, Pends(v)', Rescues(u, v)
      PROVE  Rescues(u, v)'
  <2>1. CASE u # t
    BY <1>p, <1>0, <1>3, <2>1, StillRescues DEF folio, bit_nr, Exclusive
  <2>2. CASE u = t
    BY <1>p, <1>0, <1>3, <2>2, Zenon DEF Rescues, Swallowed, folio, bit_nr, Exclusive
  <2> QED BY <2>1, <2>2
<1> QED BY <1>1, <1>2, <1>3, StillPending

(* An entry goes, with its wait.                                           *)
LEMMA FinishWakes ==
  ASSUME IInv, WInv, NEW t \in Tasks, Finish(t)
  PROVE  WInv'
<1> USE DEF IInv, TypeOK, WInv, Known
<1>p. Known
  BY AllKnown
<1>0. /\ prog' = prog /\ UNCHANGED <<bit, waiters, wait, waking, left, page_match>>
      /\ pc[t] = "finish" /\ pc'[t] \in {"idle", "locked", "dead"}
      /\ queued' \subseteq queued
      /\ (Exclusive(t) /\ "DONE" \notin wait[t] => pc'[t] = "dead")
      /\ \A u \in Tasks \ {t} : pc'[u] = pc[u] /\ wait'[u] = wait[u]
  BY <1>p, Zenon DEF Finish, Goto, Dequeue, Waits, queueVars, walkVars, Types, QueueOK, folio, bit_nr, Exclusive
<1>1. Marked'
  BY <1>p, <1>0, Zenon DEF Marked, folio, bit_nr, Exclusive
<1>2. \A v \in Tasks : Pends(v)' => Pends(v)
  BY <1>p, <1>0, Zenon DEF Pends, Set, folio, bit_nr, Exclusive
<1>3. ASSUME NEW u \in Tasks, NEW v \in Tasks, Pends(v)', Rescues(u, v)
      PROVE  Rescues(u, v)'
  <2>1. CASE u # t
    BY <1>p, <1>0, <1>3, <2>1, StillRescues DEF folio, bit_nr, Exclusive
  <2>2. CASE u = t
    BY <1>p, <1>0, <1>3, <2>2, Zenon DEF Rescues, Swallowed, folio, bit_nr, Exclusive
  <2> QED BY <2>1, <2>2
<1> QED BY <1>1, <1>2, <1>3, StillPending

(* An asynchronous owner that was told takes the lock or finds it taken.   *)
LEMMA AsyncRetryWakes ==
  ASSUME IInv, WInv, NEW t \in Tasks, AsyncRetry(t)
  PROVE  WInv'
<1> USE DEF IInv, TypeOK, WInv, Known
<1>p. Known
  BY AllKnown
<1>0. /\ prog' = prog /\ UNCHANGED <<waiters, queued, wait, waking, left, page_match>>
      /\ pc[t] = "sleep" /\ pc'[t] \in {"slow", "locked"} /\ prog[t].op = "async"
      /\ \A u \in Tasks \ {t} : pc'[u] = pc[u] /\ wait'[u] = wait[u]
  BY <1>p, Zenon DEF AsyncRetry, Goto, queueVars, walkVars, Types, QueueOK
<1>b. \A f \in Folios : bit[f] \subseteq bit'[f]
  BY <1>p, BitsGrow, Zenon DEF AsyncRetry
<1>1. Marked'
  BY <1>p, <1>0, Zenon DEF Marked, folio, bit_nr, Exclusive
<1>2. \A v \in Tasks : Pends(v)' => Pends(v)
  BY <1>p, <1>0, <1>b, NoneNew, Zenon DEF folio, bit_nr, Exclusive
<1>3. ASSUME NEW u \in Tasks, NEW v \in Tasks, Pends(v)', Rescues(u, v)
      PROVE  Rescues(u, v)'
  <2>1. CASE u # t
    BY <1>p, <1>0, <1>3, <2>1, StillRescues, Zenon DEF folio, bit_nr, Exclusive
  <2>2. CASE u = t
    <3>1. folio(t) = folio(v) /\ bit_nr(v) = "locked" /\ bit_nr(t) = "locked"
      BY <1>p, <1>0, <1>3, <2>2, Zenon DEF Rescues, Swallowed, folio, bit_nr, Exclusive
    <3>2. bit_nr(t) \in bit'[folio(t)]
      <4>1. CASE Set(t)
        BY <1>p, <1>b, <4>1 DEF Set
      <4>2. CASE ~ Set(t)
        <5>1. SetBit(t)
          BY <4>2, Zenon DEF AsyncRetry
        <5>2. QED
          BY <1>p, <5>1, SetBitFacts, Zenon
      <4>3. QED
        BY <4>1, <4>2, Zenon
    <3>3. Set(v)'
      BY <1>p, <1>0, <3>1, <3>2, Zenon DEF Set, folio, bit_nr, Exclusive
    <3> QED BY <1>3, <3>3, Zenon DEF Pends, folio, bit_nr, Exclusive
  <2> QED BY <2>1, <2>2
<1> QED BY <1>1, <1>2, <1>3, StillPending

(* Setting the writeback bit leaves no one pending.                        *)
LEMMA StartWritebackWakes ==
  ASSUME IInv, WInv, NEW t \in Tasks, StartWriteback(t)
  PROVE  WInv'
<1> USE DEF IInv, TypeOK, WInv, Known
<1>p. Known
  BY AllKnown
<1>0. /\ prog' = prog /\ UNCHANGED <<waiters, queued, pc, wait, waking, left, page_match>>
      /\ pc[t] = "locked"
      /\ \A f \in Folios : bit[f] \subseteq bit'[f]
  BY <1>p, Zenon DEF StartWriteback, queueVars, walkVars, Types, QueueOK
<1>1. Marked'
  BY <1>p, <1>0 DEF Marked, folio, bit_nr, Exclusive
<1>2. \A v \in Tasks : Pends(v)' => Pends(v)
  BY <1>p, <1>0, NoneNew, Zenon DEF folio, bit_nr, Exclusive
<1>3. ASSUME NEW u \in Tasks, NEW v \in Tasks, Pends(v)', Rescues(u, v)
      PROVE  Rescues(u, v)'
  <2>1. CASE u # t
    BY <1>p, <1>0, <1>3, <2>1, StillRescues DEF folio, bit_nr, Exclusive
  <2>2. CASE u = t
    BY <1>p, <1>0, <1>3, <2>2, Zenon DEF Rescues, Swallowed, folio, bit_nr, Exclusive
  <2> QED BY <2>1, <2>2
<1> QED BY <1>1, <1>2, <1>3, StillPending

(* A waker that has the lock of the queue has all entries before it.       *)
LEMMA WakeBeginWakes ==
  ASSUME IInv, WInv, NEW t \in Tasks, WakeBegin(t)
  PROVE  WInv'
<1> USE DEF IInv, TypeOK, WInv, Known
<1>p. Known
  BY AllKnown
<1>0. /\ prog' = prog /\ UNCHANGED <<bit, waiters, queued, wait, waking>>
      /\ pc[t] = "wake" /\ pc'[t] = "walk" /\ left' = queued
      /\ \A u \in Tasks \ {t} : pc'[u] = pc[u] /\ wait'[u] = wait[u]
      /\ \A u \in Tasks : pc[u] \notin {"walk", "delete"}
  BY <1>p DEF WakeBegin, Goto, queueVars, walkVars, Types, QueueOK
<1>1. Marked'
  BY <1>p, <1>0, Zenon DEF Marked, folio, bit_nr, Exclusive
<1>2. \A v \in Tasks : Pends(v)' => Pends(v)
  BY <1>p, <1>0, Zenon DEF Pends, Set, folio, bit_nr, Exclusive
<1>3. ASSUME NEW u \in Tasks, NEW v \in Tasks, Pends(v)', Rescues(u, v)
      PROVE  Rescues(u, v)'
  <2>1. CASE u # t
    BY <1>p, <1>0, <1>3, <2>1, StillRescues DEF folio, bit_nr, Exclusive
  <2>2. CASE u = t
    BY <1>p, <1>0, <1>2, <1>3, <2>2, Zenon DEF Rescues, Swallowed, Match, Pends, folio, bit_nr, Exclusive
  <2> QED BY <2>1, <2>2
<1> QED BY <1>1, <1>2, <1>3, StillPending

(* The entry taken out is one that was woken.                              *)
LEMMA DeleteWakes ==
  ASSUME IInv, WInv, NEW t \in Tasks, Delete(t)
  PROVE  WInv'
<1> USE DEF IInv, TypeOK, WInv, Known
<1>p. Known
  BY AllKnown
<1>0. /\ prog' = prog /\ UNCHANGED <<bit, waiters, wait, waking, left, page_match>>
      /\ pc[t] = "delete" /\ pc'[t] = "walk" /\ queued' \subseteq queued
      /\ \A u \in Tasks \ {t} : pc'[u] = pc[u] /\ wait'[u] = wait[u]
  BY <1>p, Zenon DEF Delete, Goto, Dequeue, queueVars, walkVars, Types, QueueOK
<1>1. Marked'
  BY <1>p, <1>0, Zenon DEF Marked, folio, bit_nr, Exclusive
<1>2. \A v \in Tasks : Pends(v)' => Pends(v)
  BY <1>p, <1>0, Zenon DEF Pends, Set, folio, bit_nr, Exclusive
<1>3. ASSUME NEW u \in Tasks, NEW v \in Tasks, Pends(v)', Rescues(u, v)
      PROVE  Rescues(u, v)'
  <2>1. CASE u # t
    BY <1>p, <1>0, <1>3, <2>1, StillRescues DEF folio, bit_nr, Exclusive
  <2>2. CASE u = t
    BY <1>p, <1>0, <1>3, <2>2, Zenon DEF Rescues, Swallowed, Match, folio, bit_nr, Exclusive
  <2> QED BY <2>1, <2>2
<1> QED BY <1>1, <1>2, <1>3, StillPending

(* PG_waiters is cleared only if nobody waits for the folio.               *)
LEMMA WakeEndWakes ==
  ASSUME IInv, WInv, NEW t \in Tasks, WakeEnd(t)
  PROVE  WInv'
<1> USE DEF IInv, TypeOK, WInv, Known
<1>p. Known
  BY AllKnown
<1>0. /\ prog' = prog /\ UNCHANGED <<bit, queued, wait, waking, left, page_match>>
      /\ pc[t] = "walk" /\ pc'[t] \in {"idle", "writing"} /\ left = {}
      /\ qlock = t /\ \A u \in Tasks \ {t} : pc[u] \notin {"try", "walk", "delete"}
      /\ waiters' = waiters \/ (waiters' = [waiters EXCEPT ![folio(t)] = FALSE] /\ (queued = {} \/ ~page_match))
      /\ \A u \in Tasks \ {t} : pc'[u] = pc[u] /\ wait'[u] = wait[u]
  BY <1>p, Zenon DEF WakeEnd, Goto, AfterClear, queueVars, walkVars, Types, QueueOK, folio, bit_nr, Exclusive
<1>n. \A u \in Tasks : pc'[u] \notin {"try", "walk", "delete"}
  <2>1. pc'[t] \notin {"try", "walk", "delete"}
    BY <1>0, Zenon
  <2>2. \A u \in Tasks \ {t} : pc'[u] \notin {"try", "walk", "delete"}
    BY <1>0, Zenon
  <2> QED BY <2>1, <2>2, Zenon
<1>1. Marked'
  <2>1. \A u \in Tasks : pc'[u] = "try" \/ u \in queued' => waiters'[folio(u)']
    <3> SUFFICES ASSUME NEW u \in queued PROVE waiters'[folio(u)]
      <4>1. \A u \in Tasks : pc'[u] \notin {"try", "walk", "delete"}
        BY <1>n, Zenon
      <4> QED BY <1>0, <4>1, Zenon DEF folio
    <3>1. u \in Tasks /\ waiters[folio(u)]
      BY <1>p, Zenon DEF Marked, Types, folio, bit_nr, Exclusive
    <3>2. CASE waiters' = waiters
      BY <3>1, <3>2
    <3>3. CASE waiters' = [waiters EXCEPT ![folio(t)] = FALSE] /\ ~page_match
      <4>1. folio(u) # folio(t)
        BY <1>p, <1>0, <3>3, Zenon DEF Marked, folio, bit_nr, Exclusive
      <4> QED BY <1>p, <3>1, <3>3, <4>1 DEF Types
    <3> QED BY <1>0, <3>2, <3>3, Zenon DEF folio, bit_nr, Exclusive
  <2>2. \A u \in Tasks : pc'[u] \notin {"walk", "delete"}
    BY <1>n, Zenon
  <2> QED BY <1>p, <1>0, <2>1, <2>2, Zenon DEF Marked, folio, bit_nr, Exclusive
<1>2. \A v \in Tasks : Pends(v)' => Pends(v)
  BY <1>p, <1>0 DEF Pends, Set, folio, bit_nr, Exclusive
<1>3. ASSUME NEW u \in Tasks, NEW v \in Tasks, Pends(v)', Rescues(u, v)
      PROVE  Rescues(u, v)'
  <2>1. CASE u # t
    BY <1>p, <1>0, <1>3, <2>1, StillRescues, Zenon DEF folio, bit_nr, Exclusive
  <2>2. CASE u = t
    BY <1>p, <1>0, <1>3, <2>2, Zenon DEF Rescues, Swallowed, folio, bit_nr, Exclusive
  <2> QED BY <2>1, <2>2
<1> QED BY <1>1, <1>2, <1>3, StillPending

(* An entry passed over waits for something else.                          *)
LEMMA SkipWakes ==
  ASSUME IInv, WInv, NEW t \in Tasks, NEW e \in Tasks, Skip(t, e)
  PROVE  WInv'
<1> USE DEF IInv, TypeOK, WInv, Known
<1>p. Known
  BY AllKnown, Zenon
<1>0. /\ prog' = prog /\ UNCHANGED <<bit, waiters, queued, wait, waking, pc>>
      /\ pc[t] = "walk" /\ ~Match(t, e) /\ left' = left \ {e}
      /\ page_match' = (page_match \/ folio(e) = folio(t))
      /\ \A u \in Tasks \ {t} : pc[u] \notin {"walk", "delete"}
  BY <1>p DEF Skip, queueVars, walkVars, Types, QueueOK
<1>1. Marked'
  BY <1>p, <1>0, Zenon DEF Marked, folio, bit_nr, Exclusive
<1>2. \A v \in Tasks : Pends(v)' => Pends(v)
  BY <1>p, <1>0, Zenon DEF Pends, Set, folio, bit_nr, Exclusive
<1>3. ASSUME NEW u \in Tasks, NEW v \in Tasks, Pends(v)', Rescues(u, v)
      PROVE  Rescues(u, v)'
  <2>1. CASE u # t
    BY <1>p, <1>0, <1>3, <2>1, StillRescues, Zenon DEF folio, bit_nr, Exclusive
  <2>2. CASE u = t
    BY <1>p, <1>0, <1>3, <2>2, StillRescues, Zenon DEF Rescues, Swallowed, folio, bit_nr, Exclusive
  <2> QED BY <2>1, <2>2
<1> QED BY <1>1, <1>2, <1>3, StillPending

(* A walk is cut short only if the bit is set again.                       *)
LEMMA StopWakes ==
  ASSUME IInv, WInv, NEW t \in Tasks, NEW e \in Tasks, Stop(t, e)
  PROVE  WInv'
<1> USE DEF IInv, TypeOK, WInv, Known
<1>p. Known
  BY AllKnown
<1>0. /\ prog' = prog /\ UNCHANGED <<bit, waiters, queued, wait, waking, pc>>
      /\ pc[t] = "walk" /\ Match(t, e) /\ Set(e) /\ page_match' /\ left' = {}
      /\ \A u \in Tasks \ {t} : pc[u] \notin {"walk", "delete"}
  BY <1>p, Zenon DEF Stop, queueVars, walkVars, Types, QueueOK
<1>1. Marked'
  BY <1>p, <1>0, Zenon DEF Marked, folio, bit_nr, Exclusive
<1>2. \A v \in Tasks : Pends(v)' => Pends(v)
  BY <1>p, <1>0, Zenon DEF Pends, Set, folio, bit_nr, Exclusive
<1>3. ASSUME NEW u \in Tasks, NEW v \in Tasks, Pends(v)', Rescues(u, v)
      PROVE  Rescues(u, v)'
  <2>1. CASE u # t
    BY <1>p, <1>0, <1>3, <2>1, StillRescues, Zenon DEF folio, bit_nr, Exclusive
  <2>2. CASE u = t
    <3>1. Match(t, v)
      BY <1>p, <1>0, <1>3, <2>2, Zenon DEF Rescues, Swallowed, folio, bit_nr, Exclusive
    <3>2. Set(v)'
      BY <1>p, <1>0, <3>1, Zenon DEF Match, Set, folio, bit_nr, Exclusive
    <3> QED BY <1>3, <3>2 DEF Pends, folio, bit_nr, Exclusive
  <2> QED BY <2>1, <2>2
<1> QED BY <1>1, <1>2, <1>3, StillPending

(* The bit is cleared and PG_waiters read in one step: who waits for it    *)
(* has a waker.                                                            *)
LEMMA FolioUnlockWakes ==
  ASSUME IInv, WInv, NEW t \in Tasks, folio_unlock(t)
  PROVE  WInv'
<1> USE DEF IInv, TypeOK, WInv, Known
<1>p. Known
  BY AllKnown
<1>0. /\ prog' = prog /\ UNCHANGED <<waiters, queued, wait, left, page_match>>
      /\ pc[t] = "locked"
      /\ bit' = [bit EXCEPT ![folio(t)] = @ \ {"locked"}]
      /\ waking' = [waking EXCEPT ![t] = "locked"]
      /\ pc' = [pc EXCEPT ![t] = IF waiters[folio(t)] THEN "wake" ELSE AfterClear(t, "locked")]
  BY Zenon DEF folio_unlock, Goto, Clear, queueVars, walkVars
<1>1. Marked'
  BY <1>p, <1>0, Zenon DEF AfterClear, Marked, Types, folio, bit_nr, Exclusive
<1>2. ASSUME NEW v \in Tasks, Pends(v)'
      PROVE  \E u \in Tasks : Rescues(u, v)'
  <2>1. CASE folio(v) = folio(t) /\ bit_nr(v) = "locked"
    <3>1. waiters[folio(t)]
      BY <1>p, <1>0, <1>2, <2>1, Zenon DEF Marked, Pends, folio, bit_nr, Exclusive
    <3>2. Rescues(t, v)'
      BY <1>p, <1>0, <2>1, <3>1, Zenon DEF Rescues, Match, Types, folio, bit_nr, Exclusive
    <3> QED BY <3>2
  <2>2. CASE ~(folio(v) = folio(t) /\ bit_nr(v) = "locked")
    <3>1. Pends(v)
      BY <1>p, <1>0, <1>2, <2>2, Zenon DEF Pends, Set, Types, folio, bit_nr, Exclusive
    <3>2. PICK u \in Tasks : Rescues(u, v)
      BY <3>1 DEF Pending
    <3>3. u # t
      BY <1>p, <1>0, <3>2, Zenon DEF Rescues, Swallowed, folio, bit_nr, Exclusive
    <3>4. Rescues(u, v)'
      BY <1>p, <1>0, <3>2, <3>3, Zenon DEF Rescues, Swallowed, Match, Types, folio, bit_nr, Exclusive
    <3> QED BY <3>4
  <2> QED BY <2>1, <2>2
<1> QED BY <1>1, <1>2 DEF Pending

(* The same for the writeback bit.                                         *)
LEMMA FolioEndWritebackWakes ==
  ASSUME IInv, WInv, NEW t \in Tasks, folio_end_writeback(t)
  PROVE  WInv'
<1> USE DEF IInv, TypeOK, WInv, Known
<1>p. Known
  BY AllKnown
<1>0. /\ prog' = prog /\ UNCHANGED <<waiters, queued, wait, left, page_match>>
      /\ pc[t] = "writing"
      /\ bit' = [bit EXCEPT ![folio(t)] = @ \ {"writeback"}]
      /\ waking' = [waking EXCEPT ![t] = "writeback"]
      /\ pc' = [pc EXCEPT ![t] = IF waiters[folio(t)] THEN "wake" ELSE "idle"]
  BY Zenon DEF folio_end_writeback, Goto, Clear, queueVars, walkVars
<1>1. Marked'
  BY <1>p, <1>0, Zenon DEF Marked, Types, folio, bit_nr, Exclusive
<1>2. ASSUME NEW v \in Tasks, Pends(v)'
      PROVE  \E u \in Tasks : Rescues(u, v)'
  <2>1. CASE folio(v) = folio(t) /\ bit_nr(v) = "writeback"
    <3>1. waiters[folio(t)]
      BY <1>p, <1>0, <1>2, <2>1, Zenon DEF Marked, Pends, folio, bit_nr, Exclusive
    <3>2. Rescues(t, v)'
      BY <1>p, <1>0, <2>1, <3>1, Zenon DEF Rescues, Match, Types, folio, bit_nr, Exclusive
    <3> QED BY <3>2
  <2>2. CASE ~(folio(v) = folio(t) /\ bit_nr(v) = "writeback")
    <3>1. Pends(v)
      BY <1>p, <1>0, <1>2, <2>2, Zenon DEF Pends, Set, Types, folio, bit_nr, Exclusive
    <3>2. PICK u \in Tasks : Rescues(u, v)
      BY <3>1 DEF Pending
    <3>3. u # t
      BY <1>p, <1>0, <3>2, Zenon DEF Rescues, Swallowed, folio, bit_nr, Exclusive
    <3>4. Rescues(u, v)'
      BY <1>p, <1>0, <3>2, <3>3, Zenon DEF Rescues, Swallowed, Match, Types, folio, bit_nr, Exclusive
    <3> QED BY <3>4
  <2> QED BY <2>1, <2>2
<1> QED BY <1>1, <1>2 DEF Pending

(* Waking an exclusive waiter ends the walk: the one that was woken, or    *)
(* the lock that was handed to it, answers for the rest.                   *)
LEMMA WakeWakes ==
  ASSUME IInv, WInv, NEW t \in Tasks, NEW e \in Tasks, Wake(t, e)
  PROVE  WInv'
<1> USE DEF IInv, TypeOK, WInv, Known
<1>p. Known
  BY AllKnown
<1>0. /\ prog' = prog /\ UNCHANGED <<waiters, queued, waking>>
      /\ pc[t] = "walk" /\ pc' = [pc EXCEPT ![t] = "delete"]
      /\ page_match' = TRUE
      /\ e \in left /\ Match(t, e)
      /\ left' = (IF "EXCLUSIVE" \in wait[e] THEN {} ELSE left \ {e})
  BY Zenon DEF Wake, First, Goto, queueVars, walkVars
<1>w. PICK fl \in SUBSET {"WOKEN", "DONE"} :
        /\ AddFlags(e, fl) /\ "WOKEN" \in fl
        /\ "DONE" \in fl => "CUSTOM" \in wait[e]
        /\ "CUSTOM" \in wait[e] => SetBit(e)
        /\ "CUSTOM" \notin wait[e] => bit' = bit
  <2>1. CASE "CUSTOM" \in wait[e]
    <3>1. AddFlags(e, {"WOKEN", "DONE"}) /\ SetBit(e)
      BY <2>1, Zenon DEF Wake
    <3> QED BY <2>1, <3>1
  <2>2. CASE "CUSTOM" \notin wait[e]
    <3>1. AddFlags(e, {"WOKEN"}) /\ bit' = bit
      BY <2>2, Zenon DEF Wake
    <3> QED BY <2>2, <3>1, Zenon
  <2> QED BY <2>1, <2>2, Zenon
<1>f. \A v \in Tasks, x \in Flags : x \in wait'[v] <=> x \in wait[v] \/ (v = e /\ x \in fl)
  BY <1>w, AddFlagsFacts, Zenon
<1>b. \A f \in Folios : bit[f] \subseteq bit'[f]
  BY <1>p, <1>w, BitsGrow, Zenon
<1>e. e # t /\ pc[e] \in {"sleep", "finish"} /\ "WOKEN" \notin wait[e] /\ "DONE" \notin wait[e]
  <2>1. qlock = t /\ entry = None /\ e \in queued
    BY <1>p, <1>0, Zenon DEF QueueOK
  <2>2. "WOKEN" \notin wait[e] /\ pc[e] \in {"sleep", "finish"}
    BY <1>p, <2>1, Zenon DEF QueueOK, FlagsOK, Types
  <2> QED BY <1>p, <1>0, <2>2, Zenon DEF Marked, folio, bit_nr, Exclusive
<1>1. Marked'
  <2>1. \A u \in Tasks : pc'[u] = "try" \/ u \in queued' => waiters'[folio(u)']
    BY <1>p, <1>0, Zenon DEF Marked, Types, folio, bit_nr, Exclusive
  <2>2. \A u \in Tasks : pc'[u] \in {"walk", "delete"} =>
          \A x \in queued' \ left' : folio(x)' = folio(u)' => page_match'
    BY <1>0, Zenon DEF folio, bit_nr, Exclusive
  <2>3. \A u \in Tasks : "EXCLUSIVE" \in wait'[u] => Exclusive(u)'
    BY <1>p, <1>0, <1>f, Zenon DEF Flags, Marked, folio, bit_nr, Exclusive
  <2>4. \A u \in Tasks : "DONE" \in wait'[u] => "WOKEN" \in wait'[u]
    BY <1>p, <1>w, <1>f, Zenon DEF Flags, Marked, folio, bit_nr, Exclusive
  <2> QED BY <1>p, <2>1, <2>2, <2>3, <2>4, Zenon DEF Marked, folio, bit_nr, Exclusive
<1>2. \A v \in Tasks : Pends(v)' => Pends(v)
  BY <1>p, <1>0, <1>b, <1>f, NoneNew, Zenon DEF Flags
<1>3. ASSUME NEW v \in Tasks, Pends(v)'
      PROVE  \E u \in Tasks : Rescues(u, v)'
  <2>1. PICK u \in Tasks : Rescues(u, v)
    BY <1>2, <1>3 DEF Pending
  <2>2. v # e
    BY <1>w, <1>f, <1>3, Zenon DEF Pends, Flags, folio, bit_nr, Exclusive
  <2>3. CASE u # t
    <3>1. CASE u # e
      <4>1. pc'[u] = pc[u] /\ ("WOKEN" \in wait'[u] <=> "WOKEN" \in wait[u])
                          /\ ("DONE" \in wait'[u] <=> "DONE" \in wait[u])
        BY <1>p, <1>0, <1>f, <2>3, <3>1, Zenon DEF Flags, Types
      <4>2. ~(pc[u] \in {"walk", "delete"})
        BY <1>p, <1>0, <2>3, Zenon DEF QueueOK
      <4>3. Rescues(u, v)'
        BY <1>p, <1>0, <2>1, <4>1, <4>2, Zenon DEF Rescues, Swallowed, Match, folio, bit_nr, Exclusive
      <4> QED BY <4>3
    <3>2. CASE u = e
      BY <1>p, <1>e, <2>1, <3>2, Zenon DEF Rescues, Swallowed, folio, bit_nr, Exclusive
    <3> QED BY <3>1, <3>2
  <2>4. CASE u = t
    <3>1. Match(t, v) /\ v \in left
      BY <1>p, <1>0, <2>1, <2>4, Zenon DEF Rescues, Swallowed, folio, bit_nr, Exclusive
    <3>2. CASE "EXCLUSIVE" \notin wait[e]
      <4>1. Rescues(t, v)'
        BY <1>p, <1>0, <2>2, <3>1, <3>2, Zenon DEF Rescues, Match, Types, folio, bit_nr, Exclusive
      <4> QED BY <4>1
    <3>3. CASE "EXCLUSIVE" \in wait[e]
      <4>1. Exclusive(e) /\ folio(e) = folio(v) /\ bit_nr(v) = "locked"
        BY <1>p, <1>0, <3>1, <3>3, Zenon DEF Match, Marked, folio, bit_nr, Exclusive
      <4>2. CASE "CUSTOM" \in wait[e]
        <5>1. bit_nr(e) \in bit'[folio(e)]
          BY <1>p, <1>w, <4>2, SetBitFacts, Zenon
        <5>2. Set(v)'
          BY <1>p, <1>0, <4>1, <5>1, Zenon DEF Set, folio, bit_nr, Exclusive
        <5> QED BY <1>3, <5>2 DEF Pends, folio, bit_nr, Exclusive
      <4>3. CASE "CUSTOM" \notin wait[e]
        <5>1. pc'[e] = pc[e] /\ "WOKEN" \in wait'[e] /\ "DONE" \notin wait'[e]
          BY <1>p, <1>0, <1>w, <1>e, <1>f, <4>3, Zenon DEF Flags, Types
        <5>2. Rescues(e, v)'
          BY <1>p, <1>0, <1>e, <4>1, <5>1, Zenon DEF Rescues, Swallowed, folio, bit_nr, Exclusive
        <5> QED BY <5>2
      <4> QED BY <4>2, <4>3
    <3> QED BY <3>2, <3>3
  <2> QED BY <2>3, <2>4
<1> QED BY <1>1, <1>3 DEF Pending

(* Every step keeps the wake-ups.                                          *)
LEMMA NextWakes == IInv /\ WInv /\ [Next]_vars => WInv'
<1> SUFFICES ASSUME IInv, WInv, [Next]_vars PROVE WInv'
  BY Zenon
<1>1. ASSUME NEW t \in Tasks, Begin(t) \/ Continue(t) \/ Killed(t) PROVE WInv'
  BY <1>1, BeginWakes, RepeatWakes, TryFlagWakes, WokenWakes, KilledWakes, FinishWakes,
     AsyncRetryWakes, FolioUnlockWakes, StartWritebackWakes, FolioEndWritebackWakes,
     WakeBeginWakes, DeleteWakes, WakeEndWakes, SkipWakes, StopWakes, WakeWakes DEF Continue
<1>2. CASE UNCHANGED vars
  <2> USE <1>2 DEF vars, queueVars, walkVars
  <2>1. Marked'
    BY Zenon DEF WInv, Marked, folio, Exclusive
  <2>2. \A t \in Tasks : Pends(t)' => Pends(t)
    BY DEF Pends, Set, folio, bit_nr
  <2>3. ASSUME NEW u \in Tasks, NEW t \in Tasks, Rescues(u, t) PROVE Rescues(u, t)'
    BY <2>3, StillRescues, Zenon
  <2>4. Pending'
    BY <2>2, <2>3, StillPending DEF WInv
  <2> QED BY <2>1, <2>4 DEF WInv
<1> QED BY <1>1, <1>2 DEF Next, Done

(* No wake-up is lost, for any number of tasks and folios on one hashed    *)
(* queue: while somebody waits for a bit that is clear, a waker of         *)
(* folio_wake_bit has its entry before it, or a woken waiter is about to   *)
(* take the lock (WakeupPending); the one exception is a killed waiter     *)
(* that swallowed the wake-up.                                             *)
THEOREM NoWakeupLost == Spec => []WakeupPending
<1>1. Init => WInv
  BY ProgramsAssumption DEF Init, WInv, Marked, Pending, Pends
<1>2. IInv /\ WInv => WakeupPending
  <2> SUFFICES ASSUME IInv, WInv, NEW t \in queued, "WOKEN" \notin wait[t], ~Set(t)
               PROVE  \E u \in Tasks : Rescues(u, t)
    BY Zenon DEF WakeupPending, Rescues
  <2> QED BY DEF IInv, TypeOK, Types, WInv, Pending, Pends
<1> QED BY <1>1, <1>2, Invariance, NextWakes, PTL DEF Spec
=============================================================================
