---------------------------- MODULE MCFolioLock ----------------------------
(* Programs for FolioLock: three tasks on one folio or on two that share   *)
(* the queue.                                                              *)
EXTENDS FolioLock

Do(op, f, n) == [op |-> op, folio |-> f, rounds |-> n]
Three(x, y, z) == [t \in Tasks |-> IF t = "t1" THEN x ELSE IF t = "t2" THEN y ELSE z]

(* A killable task and another waiter.                                     *)
MCKilled == { Three(Do("lock", "f", 1), Do("killable", "f", 1), Do("lock", "f", 1)) }

MCPrograms ==
  { Three(Do("lock", "f", 2), Do("lock", "f", 2), Do(op, "f", 1)) : op \in {"lock", "wait", "async"} }
    \union { Three(Do("write", "f", 2), Do("wait_writeback", "f", 2), Do(op, "f", 1)) : op \in {"lock", "wait", "async"} }
    \union { Three(Do("lock", "f", 2), Do("lock", "g", 1), Do(op, f, 1)) : op \in {"wait", "lock"}, f \in {"f", "g"} }
    \union { Three(Do("lock", "f", 2), Do("killable", "f", 2), Do(op, "g", 1)) : op \in {"lock", "wait"} }
    \union MCKilled
=============================================================================
