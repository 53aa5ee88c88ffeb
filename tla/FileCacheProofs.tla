-------------------------- MODULE FileCacheProofs --------------------------
(* The contract of filemap_fault, for any tasks, files, folios and         *)
(* scenarios: whatever it waits for, whichever way it returns.             *)
EXTENDS FileCache, TLAPS

HasLock(x) == "mm" \in DOMAIN x /\ "fpin" \in DOMAIN x /\ "ret" \in DOMAIN x
Keeps(x) == x.mm = TRUE /\ x.fpin = FALSE    \* the mmap_lock
Pins(x) == x.mm = FALSE /\ x.fpin = TRUE     \* the file, instead of it

(* What holds of a task at p with locals x and readahead control r, that   *)
(* must not wait or may, and has the invalidate lock for reading or not.   *)
(* A fault, and the readahead it calls, has the mmap_lock or has pinned    *)
(* the file; where it may not have released the lock, it has it.           *)
Fits(p, x, r, nowait, shared) ==
  /\ HasLock(x) /\ "after" \in DOMAIN r
  /\ p \in {"sync_ra", "async_ra", "force_ra", "ra_order", "ra_order_lock", "ra_fill", "do_ra",
            "unbounded_lock", "unbounded"} =>
       \/ r.after \in {"get_pages_again", "check_uptodate"}
       \/ r.after \in {"fault_found", "retry_find"} /\ (Keeps(x) \/ Pins(x))
  /\ p \in {"map_pages", "next_uptodate", "look_folio", "try_folio", "recheck_folio", "map_folio",
            "fault", "recheck_size"} => Keeps(x)
  /\ p \in {"fault_found", "retry_find", "lock_folio", "lock_wait", "have_folio", "fault_read"} =>
       Keeps(x) \/ Pins(x)
  /\ p = "out_retry" => nowait \/ x.mm = FALSE
  /\ p = "fault_ret" => IF x.ret = "retry" THEN nowait \/ x.mm = FALSE ELSE x.mm = TRUE
  /\ shared => p \in {"ra_fill", "unbounded", "create_wait", "update_wait", "retry_find",
                      "lock_folio", "lock_wait", "have_folio", "fault_read", "out_retry"}

TaskFits(t) == Fits(pc[t], l[t], rac[t], Flag(t, "nowait"), t \in invl.readers)

Domains ==
  /\ DOMAIN pc = Task /\ DOMAIN l = Task /\ DOMAIN rac = Task /\ DOMAIN job = Task
  /\ "readers" \in DOMAIN invl

(* The inductive invariant of the contract.                                *)
ContractInv == Domains /\ \A t \in Task : TaskFits(t)

(* A step of t leaves what the others have alone ...                       *)
OwnStep(t) ==
  /\ Domains'
  /\ \A u \in Task \ {t} :
       /\ pc'[u] = pc[u] /\ l'[u] = l[u] /\ rac'[u] = rac[u] /\ job'[u] = job[u]
       /\ u \in invl'.readers => u \in invl.readers

(* ... and t itself fits where it then is.                                 *)
FitsAfter(t) ==
  Fits(pc'[t], l'[t], rac'[t], "nowait" \in Head(job'[t]).flags, t \in invl'.readers)

(* Such a step keeps the invariant.                                        *)
LEMMA OwnStepKeeps ==
  ASSUME ContractInv, NEW t \in Task, OwnStep(t), FitsAfter(t)
  PROVE  ContractInv'
<1>1. ASSUME NEW u \in Task PROVE TaskFits(u)'
  <2>1. CASE u = t
    BY <2>1 DEF FitsAfter, TaskFits, Flag, Op
  <2>2. CASE u # t
    BY <2>2 DEF ContractInv, OwnStep, TaskFits, Flag, Op, Fits
  <2>3. QED
    BY <2>1, <2>2
<1>2. QED
  BY <1>1 DEF ContractInv, OwnStep

(* The values locals and readahead controls start from.                    *)
LEMMA StartValues ==
  /\ HasLock(NoLocals) /\ NoLocals.mm = FALSE /\ NoLocals.fpin = FALSE
  /\ "after" \in DOMAIN NoRac
  /\ \A i, n, a : "after" \in DOMAIN Ractl(i, n, a) /\ Ractl(i, n, a).after = a
BY DEF NoLocals, NoRac, Ractl, HasLock

(* maybe_unlock_mmap_for_io gives the mmap_lock up only for a pinned file. *)
LEMMA UnlockForIo ==
  ASSUME NEW t, NEW x, HasLock(x), Keeps(x) \/ Pins(x)
  PROVE  /\ HasLock(maybe_unlock_mmap_for_io(t, x))
         /\ Keeps(maybe_unlock_mmap_for_io(t, x)) \/ Pins(maybe_unlock_mmap_for_io(t, x))
BY DEF maybe_unlock_mmap_for_io, HasLock, Keeps, Pins

(* The steps of a read keep it: they take the invalidate lock only to read *)
(* a folio and give it back before they go on.                             *)
LEMMA ReadKeeps ==
  ASSUME ContractInv, NEW t \in Task, ReadStep(t)
  PROVE  OwnStep(t) /\ FitsAfter(t)
<1> DEFINE nowait == "nowait" \in Head(job[t]).flags
<1>a. Domains
  BY DEF ContractInv
<1>b. Fits(pc[t], l[t], rac[t], nowait, t \in invl.readers)
  BY DEF ContractInv, TaskFits, Flag, Op
<1>c. HasLock(l[t]) /\ "after" \in DOMAIN rac[t]
  BY <1>b DEF Fits
<1> HIDE DEF nowait
<1> USE DEF Goto, Set
<1>1. CASE BeginRead(t)
  <2>1. OwnStep(t)
    BY <1>1, <1>a DEF BeginRead, OwnStep, Domains
  <2>2. FitsAfter(t)
    BY <1>1, <1>a, <1>b, StartValues
       DEF BeginRead, Domains, nowait, FitsAfter, Fits, HasLock, Keeps, Pins
  <2>3. QED
    BY <2>1, <2>2
<1>2. CASE filemap_read(t)
  <2>1. OwnStep(t)
    BY <1>2, <1>a DEF filemap_read, readVars, OwnStep, Domains
  <2>2. FitsAfter(t)
    BY <1>2, <1>a, <1>b
       DEF filemap_read, readVars, Domains, nowait, FitsAfter, Fits, HasLock, Keeps, Pins
  <2>3. QED
    BY <2>1, <2>2
<1>3. CASE filemap_get_pages(t)
  <2>1. OwnStep(t)
    BY <1>3, <1>a DEF filemap_get_pages, Fail, OwnStep, Domains
  <2>2. CASE t \in killed
    <3> DEFINE x == [l[t] EXCEPT !.error = "EINTR", !.batch = <<>>]
    <3>1. /\ pc[t] = "get_pages" /\ pc'[t] = "read_done" /\ l'[t] = x
          /\ rac'[t] = rac[t] /\ invl' = invl /\ job' = job
      BY <1>3, <1>a, <2>2 DEF filemap_get_pages, Fail, Domains
    <3>2. HasLock(x) /\ x.mm = l[t].mm /\ x.fpin = l[t].fpin
      BY <1>c DEF HasLock
    <3> HIDE DEF x
    <3>3. QED
      BY <1>b, <1>c, <2>1, <2>2, <3>1, <3>2, StartValues
         DEF nowait, FitsAfter, Fits, HasLock, Keeps, Pins
  <2>3. CASE t \notin killed /\ ReadBatch(m, l[t].pos, Last1(t) - 1) = <<>>
    <3>1. /\ pc[t] = "get_pages" /\ pc'[t] = "sync_ra" /\ l'[t] = l[t]
          /\ rac'[t] = Ractl(l[t].pos, Last1(t) - l[t].pos, "get_pages_again")
          /\ invl' = invl /\ job' = job
      BY <1>3, <1>a, <2>3 DEF filemap_get_pages, Fail, Domains
    <3>3. QED
      BY <1>b, <1>c, <2>1, <2>3, <3>1, StartValues
         DEF nowait, FitsAfter, Fits, HasLock, Keeps, Pins
  <2>4. CASE t \notin killed /\ ReadBatch(m, l[t].pos, Last1(t) - 1) # <<>>
    <3> DEFINE x == [l[t] EXCEPT !.batch = ReadBatch(m, l[t].pos, Last1(t) - 1)]
    <3>1. /\ pc[t] = "get_pages" /\ pc'[t] = "check_batch" /\ l'[t] = x
          /\ rac'[t] = rac[t] /\ invl' = invl /\ job' = job
      BY <1>3, <1>a, <2>4 DEF filemap_get_pages, Fail, Domains
    <3>2. HasLock(x) /\ x.mm = l[t].mm /\ x.fpin = l[t].fpin
      BY <1>c DEF HasLock
    <3> HIDE DEF x
    <3>3. QED
      BY <1>b, <1>c, <2>1, <2>4, <3>1, <3>2, StartValues
         DEF nowait, FitsAfter, Fits, HasLock, Keeps, Pins
  <2>5. QED
    BY <2>1, <2>2, <2>3, <2>4
<1>4. CASE GetPagesAgain(t)
  <2>1. OwnStep(t)
    BY <1>4, <1>a DEF GetPagesAgain, OwnStep, Domains
  <2>2. FitsAfter(t)
    BY <1>4, <1>a, <1>b, StartValues
       DEF GetPagesAgain, Domains, nowait, FitsAfter, Fits, HasLock, Keeps, Pins
  <2>3. QED
    BY <2>1, <2>2
<1>5. CASE filemap_create_folio(t)
  <2>1. OwnStep(t)
    <3>1. CASE Op(t).nowait \/ NoMemory(m)
      BY <1>5, <1>a, <3>1 DEF filemap_create_folio, Fail, LockShared, Domains, OwnStep
    <3>2. CASE ~Op(t).nowait /\ ~NoMemory(m) /\ HasConflict(m, l[t].pos, 1)
      BY <1>5, <1>a, <3>2 DEF filemap_create_folio, Fail, LockShared, Domains, OwnStep
    <3>3. CASE ~Op(t).nowait /\ ~NoMemory(m) /\ ~HasConflict(m, l[t].pos, 1)
      BY <1>5, <1>a, <3>3 DEF filemap_create_folio, Fail, LockShared, Domains, OwnStep
    <3>4. QED
      BY <3>1, <3>2, <3>3
  <2>2. /\ \/ pc'[t] \in {"read_done", "get_pages"} /\ invl' = invl
           \/ pc'[t] = "create_wait"
        /\ pc[t] = "create" /\ rac' = rac
    BY <1>5, <1>a DEF filemap_create_folio, Fail, LockShared, Domains
  <2>3. l'[t] \in {l[t], [l[t] EXCEPT !.error = "EAGAIN", !.batch = <<>>],
                   [l[t] EXCEPT !.error = "ENOMEM", !.batch = <<>>],
                   [l[t] EXCEPT !.f = NewFolio(m)]}
    BY <1>5, <1>a DEF filemap_create_folio, Fail, LockShared, Domains
  <2>4. HasLock(l'[t])
    BY <1>c, <2>3 DEF HasLock
  <2>5. QED
    BY <1>b, <2>1, <2>2, <2>4 DEF FitsAfter, Fits
<1>6. CASE CreateWait(t)
  <2>1. OwnStep(t)
    BY <1>6, <1>a DEF CreateWait, UnlockShared, OwnStep, Domains
  <2>2. FitsAfter(t)
    BY <1>6, <1>a, <1>b, StartValues
       DEF CreateWait, UnlockShared, Domains, nowait, FitsAfter, Fits, HasLock, Keeps, Pins
  <2>3. QED
    BY <2>1, <2>2
<1>7. CASE CheckReadahead(t)
  <2>1. OwnStep(t)
    BY <1>7, <1>a DEF CheckReadahead, readVars, OwnStep, Domains
  <2>2. FitsAfter(t)
    BY <1>7, <1>a, <1>b, StartValues
       DEF CheckReadahead, readVars, Domains, nowait, FitsAfter, Fits, HasLock, Keeps, Pins
  <2>3. QED
    BY <2>1, <2>2
<1>8. CASE CheckUptodate(t)
  <2>1. OwnStep(t)
    BY <1>8, <1>a DEF CheckUptodate, OwnStep, Domains
  <2>2. FitsAfter(t)
    BY <1>8, <1>a, <1>b, StartValues
       DEF CheckUptodate, Domains, nowait, FitsAfter, Fits, HasLock, Keeps, Pins
  <2>3. QED
    BY <2>1, <2>2
<1>9. CASE filemap_update_page(t)
  <2>1. OwnStep(t)
    BY <1>9, <1>a DEF filemap_update_page, Fail, LockShared, OwnStep, Domains
  <2>2. /\ \/ pc'[t] \in {"read_done", "put_wait", "get_pages", "copy_size"} /\ invl' = invl
           \/ pc'[t] = "update_wait"
        /\ pc[t] = "update" /\ rac' = rac
    BY <1>9, <1>a DEF filemap_update_page, Fail, LockShared, Domains
  <2>3. l'[t] \in {l[t], [l[t] EXCEPT !.error = "EAGAIN", !.batch = <<>>],
                   [l[t] EXCEPT !.batch = <<>>, !.f = l[t].batch[1]], [l[t] EXCEPT !.batch = <<>>]}
    BY <1>9, <1>a DEF filemap_update_page, Fail, LockShared, Domains
  <2>4. HasLock(l'[t])
    BY <1>c, <2>3 DEF HasLock
  <2>5. QED
    BY <1>b, <2>1, <2>2, <2>4 DEF FitsAfter, Fits
<1>10. CASE UpdateWait(t)
  <2>1. OwnStep(t)
    BY <1>10, <1>a DEF UpdateWait, Fail, UnlockShared, OwnStep, Domains
  <2>2. /\ pc'[t] \in {"copy_size", "read_done"}
        /\ rac' = rac /\ t \notin invl'.readers
    BY <1>10, <1>a DEF UpdateWait, Fail, UnlockShared, Domains
  <2>3. l'[t] \in {l[t], [l[t] EXCEPT !.error = ReadError(l[t].batch[1]), !.batch = <<>>]}
    BY <1>10, <1>a DEF UpdateWait, Fail, UnlockShared, Domains
  <2>4. HasLock(l'[t])
    BY <1>c, <2>3 DEF HasLock
  <2>5. QED
    BY <1>b, <2>1, <2>2, <2>4 DEF FitsAfter, Fits
<1>11. CASE folio_put_wait_locked(t)
  <2>1. OwnStep(t)
    BY <1>11, <1>a DEF folio_put_wait_locked, OwnStep, Domains
  <2>2. FitsAfter(t)
    BY <1>11, <1>a, <1>b, StartValues
       DEF folio_put_wait_locked, Domains, nowait, FitsAfter, Fits, HasLock, Keeps, Pins
  <2>3. QED
    BY <2>1, <2>2
<1>12. CASE CopySize(t)
  <2>1. OwnStep(t)
    BY <1>12, <1>a DEF CopySize, OwnStep, Domains
  <2>2. FitsAfter(t)
    BY <1>12, <1>a, <1>b, StartValues
       DEF CopySize, Domains, nowait, FitsAfter, Fits, HasLock, Keeps, Pins
  <2>3. QED
    BY <2>1, <2>2
<1>13. CASE Copy(t)
  <2>1. OwnStep(t)
    BY <1>13, <1>a DEF Copy, OwnStep, Domains
  <2>2. FitsAfter(t)
    BY <1>13, <1>a, <1>b, StartValues
       DEF Copy, Domains, nowait, FitsAfter, Fits, HasLock, Keeps, Pins
  <2>3. QED
    BY <2>1, <2>2
<1>14. CASE ReadDone(t)
  <2>1. OwnStep(t)
    BY <1>14, <1>a DEF ReadDone, Leave, OwnStep, Domains
  <2>2. FitsAfter(t)
    BY <1>14, <1>a, <1>b, StartValues
       DEF ReadDone, Leave, Domains, nowait, FitsAfter, Fits, HasLock, Keeps, Pins
  <2>3. QED
    BY <2>1, <2>2
<1>15. CASE BeginCacheFolio(t)
  <2>1. OwnStep(t)
    BY <1>15, <1>a DEF BeginCacheFolio, OwnStep, Domains
  <2>2. FitsAfter(t)
    BY <1>15, <1>a, <1>b, StartValues
       DEF BeginCacheFolio, Domains, nowait, FitsAfter, Fits, HasLock, Keeps, Pins
  <2>3. QED
    BY <2>1, <2>2
<1>16. CASE do_read_cache_folio(t)
  <2>1. OwnStep(t)
    BY <1>16, <1>a DEF do_read_cache_folio, Leave, OwnStep, Domains
  <2>2. /\ pc'[t] \in {"cache_folio_lock", "cache_folio_wait", "idle"}
        /\ pc[t] = "cache_folio" /\ rac' = rac /\ invl' = invl
    BY <1>16, <1>a DEF do_read_cache_folio, Leave, Domains
  <2>3. l'[t] \in {NoLocals, [l[t] EXCEPT !.f = m.pages[l[t].pos]],
     [l[t] EXCEPT !.f = NewFolio(m)]}
    BY <1>16, <1>a DEF do_read_cache_folio, Leave, Domains
  <2>4. HasLock(l'[t])
    BY <1>c, <2>3, StartValues DEF HasLock
  <2>5. QED
    BY <1>b, <2>1, <2>2, <2>4 DEF FitsAfter, Fits
<1>17. CASE CacheFolioLock(t)
  <2>1. OwnStep(t)
    BY <1>17, <1>a DEF CacheFolioLock, Leave, OwnStep, Domains
  <2>2. FitsAfter(t)
    BY <1>17, <1>a, <1>b, StartValues
       DEF CacheFolioLock, Leave, Domains, nowait, FitsAfter, Fits, HasLock, Keeps, Pins
  <2>3. QED
    BY <2>1, <2>2
<1>18. CASE CacheFolioWait(t)
  <2>1. OwnStep(t)
    BY <1>18, <1>a DEF CacheFolioWait, Leave, OwnStep, Domains
  <2>2. FitsAfter(t)
    BY <1>18, <1>a, <1>b, StartValues
       DEF CacheFolioWait, Leave, Domains, nowait, FitsAfter, Fits, HasLock, Keeps, Pins
  <2>3. QED
    BY <2>1, <2>2
<1>19. QED
  BY <1>1, <1>2, <1>3, <1>4, <1>5, <1>6, <1>7, <1>8, <1>9, <1>10, <1>11, <1>12, <1>13, <1>14,
     <1>15, <1>16, <1>17, <1>18
     DEF ReadStep

(* The steps of readahead keep it: they neither touch the mmap_lock nor    *)
(* return with the invalidate lock.                                        *)
LEMMA ReadaheadKeeps ==
  ASSUME ContractInv, NEW t \in Task, Readahead(t)
  PROVE  OwnStep(t) /\ FitsAfter(t)
<1> DEFINE nowait == "nowait" \in Head(job[t]).flags
<1>a. Domains
  BY DEF ContractInv
<1>b. Fits(pc[t], l[t], rac[t], nowait, t \in invl.readers)
  BY DEF ContractInv, TaskFits, Flag, Op
<1>c. HasLock(l[t]) /\ "after" \in DOMAIN rac[t]
  BY <1>b DEF Fits
<1> HIDE DEF nowait
<1> USE DEF Goto, Set
<1>d. UNCHANGED <<job, l>>
  BY DEF Readahead
<1>1. CASE page_cache_sync_ra(t)
  <2>1. OwnStep(t)
    BY <1>1, <1>a, <1>d DEF page_cache_sync_ra, OwnStep, Domains
  <2>2. FitsAfter(t)
    BY <1>1, <1>a, <1>b, <1>d
       DEF page_cache_sync_ra, Domains, nowait, FitsAfter, Fits, HasLock, Keeps, Pins
  <2>3. QED
    BY <2>1, <2>2
<1>2. CASE page_cache_ra_order(t)
  <2>1. OwnStep(t)
    BY <1>2, <1>a, <1>d DEF page_cache_ra_order, OwnStep, Domains
  <2>2. FitsAfter(t)
    BY <1>2, <1>a, <1>b, <1>d
       DEF page_cache_ra_order, Domains, nowait, FitsAfter, Fits, HasLock, Keeps, Pins
  <2>3. QED
    BY <2>1, <2>2
<1>3. CASE RaOrderLock(t)
  <2>1. OwnStep(t)
    BY <1>3, <1>a, <1>d DEF RaOrderLock, LockShared, OwnStep, Domains
  <2>2. FitsAfter(t)
    BY <1>3, <1>a, <1>b, <1>d
       DEF RaOrderLock, LockShared, Domains, nowait, FitsAfter, Fits, HasLock, Keeps, Pins
  <2>3. QED
    BY <2>1, <2>2
<1>4. CASE ra_alloc_folio(t)
  <2>1. OwnStep(t)
    BY <1>4, <1>a, <1>d DEF ra_alloc_folio, OwnStep, Domains
  <2>2. FitsAfter(t)
    BY <1>4, <1>a, <1>b, <1>d
       DEF ra_alloc_folio, Domains, nowait, FitsAfter, Fits, HasLock, Keeps, Pins
  <2>3. QED
    BY <2>1, <2>2
<1>5. ASSUME NEW left \in Leaves(t), RaOrderRead(t, left)
      PROVE  OwnStep(t) /\ FitsAfter(t)
  <2>1. OwnStep(t)
    BY <1>5, <1>a, <1>d DEF RaOrderRead, UnlockShared, Behind, OwnStep, Domains
  <2>2. pc[t] = "ra_fill" /\ t \notin invl'.readers
    BY <1>5, <1>a, <1>d DEF RaOrderRead, UnlockShared, Behind, Domains
  <2> DEFINE Rest(h) == Ra(t).size + h.up - ((rac[t].index + rac[t].nr) - rac[t].start)
             Left(h) == [Behind(rac[t], h, 0) EXCEPT !.limit = Rest(h),
                !.mark = Ra(t).async + h.up]
             g == readahead_expand(m, rac[t])
  <2>3. \/ pc' = [pc EXCEPT ![t] = "do_ra"] /\ rac' = [rac EXCEPT ![t] = Left(g)]
        \/ pc' = [pc EXCEPT ![t] = rac[t].after] /\ rac' = [rac EXCEPT ![t] = NoRac]
    BY <1>5 DEF RaOrderRead
  <2> HIDE DEF g
  <2>4. \/ pc'[t] = "do_ra" /\ rac'[t] = Left(g)
        \/ pc'[t] = rac[t].after /\ rac'[t] = NoRac
    BY <1>a, <2>3 DEF Domains
  <2>5. /\ "after" \in DOMAIN rac'[t]
        /\ (pc'[t] = "do_ra" /\ rac'[t].after = rac[t].after) \/ pc'[t] = rac[t].after
    BY <1>c, <2>4, StartValues DEF Behind
  <2>6. QED
    BY <1>b, <1>d, <2>1, <2>2, <2>5 DEF nowait, FitsAfter, Fits, HasLock, Keeps, Pins
<1>6. CASE do_page_cache_ra(t)
  <2>1. OwnStep(t)
    BY <1>6, <1>a, <1>d DEF do_page_cache_ra, Return, OwnStep, Domains
  <2>2. FitsAfter(t)
    BY <1>6, <1>a, <1>b, <1>d, StartValues
       DEF do_page_cache_ra, Return, Domains, nowait, FitsAfter, Fits, HasLock, Keeps, Pins
  <2>3. QED
    BY <2>1, <2>2
<1>7. CASE UnboundedLock(t)
  <2>1. OwnStep(t)
    BY <1>7, <1>a, <1>d DEF UnboundedLock, LockShared, OwnStep, Domains
  <2>2. FitsAfter(t)
    BY <1>7, <1>a, <1>b, <1>d
       DEF UnboundedLock, LockShared, Domains, nowait, FitsAfter, Fits, HasLock, Keeps, Pins
  <2>3. QED
    BY <2>1, <2>2
<1>8. CASE UnboundedAdd(t)
  <2>1. OwnStep(t)
    BY <1>8, <1>a, <1>d DEF UnboundedAdd, OwnStep, Domains
  <2>2. FitsAfter(t)
    BY <1>8, <1>a, <1>b, <1>d
       DEF UnboundedAdd, Domains, nowait, FitsAfter, Fits, HasLock, Keeps, Pins
  <2>3. QED
    BY <2>1, <2>2
<1>9. ASSUME NEW left \in Leaves(t), UnboundedSkip(t, left)
      PROVE  OwnStep(t) /\ FitsAfter(t)
  <2>1. OwnStep(t)
    BY <1>9, <1>a, <1>d DEF UnboundedSkip, Behind, OwnStep, Domains
  <2>2. FitsAfter(t)
    BY <1>9, <1>a, <1>b, <1>d
       DEF UnboundedSkip, Behind, Domains, nowait, FitsAfter, Fits, HasLock, Keeps, Pins
  <2>3. QED
    BY <2>1, <2>2
<1>10. ASSUME NEW left \in Leaves(t), UnboundedRead(t, left)
      PROVE  OwnStep(t) /\ FitsAfter(t)
  <2>1. OwnStep(t)
    BY <1>10, <1>a, <1>d DEF UnboundedRead, UnlockShared, Behind, Return, OwnStep, Domains
  <2>2. pc[t] = "unbounded" /\ t \notin invl'.readers
    BY <1>10, <1>a, <1>d DEF UnboundedRead, UnlockShared, Behind, Return, Domains
  <2>3. PICK g : Return(t, Behind(rac[t], g, 0))
    BY <1>10, <1>a, <1>d DEF UnboundedRead, Domains
  <2> DEFINE r == Behind(rac[t], g, 0)
  <2>4. "after" \in DOMAIN r /\ r.after = rac[t].after
    BY <1>c DEF Behind
  <2>5. Return(t, r)
    BY <2>3
  <2> HIDE DEF r
  <2>6. /\ "after" \in DOMAIN rac'[t]
        /\ (pc'[t] = "force_ra" /\ rac'[t].after = rac[t].after) \/ pc'[t] = rac[t].after
    BY <1>a, <2>4, <2>5, StartValues DEF Return, Domains
  <2>7. QED
    BY <1>b, <1>d, <2>1, <2>2, <2>6 DEF nowait, FitsAfter, Fits, HasLock, Keeps, Pins
<1>11. CASE force_page_cache_ra(t)
  <2>1. OwnStep(t)
    BY <1>11, <1>a, <1>d DEF force_page_cache_ra, OwnStep, Domains
  <2>2. FitsAfter(t)
    BY <1>11, <1>a, <1>b, <1>d
       DEF force_page_cache_ra, Domains, nowait, FitsAfter, Fits, HasLock, Keeps, Pins
  <2>3. QED
    BY <2>1, <2>2
<1>12. CASE page_cache_async_ra(t, IF l[t].f # 0 THEN l[t].f ELSE LastFolio(l[t].batch))
  <2>1. OwnStep(t)
    BY <1>12, <1>a, <1>d DEF page_cache_async_ra, OwnStep, Domains
  <2>2. FitsAfter(t)
    BY <1>12, <1>a, <1>b, <1>d, StartValues
       DEF page_cache_async_ra, Domains, nowait, FitsAfter, Fits, HasLock, Keeps, Pins
  <2>3. QED
    BY <2>1, <2>2
<1>13. QED
  BY <1>1, <1>2, <1>3, <1>4, <1>5, <1>6, <1>7, <1>8, <1>9, <1>10, <1>11, <1>12
     DEF Readahead, ReadaheadStep

(* The steps of a fault keep it: the mmap_lock is given up for a pinned    *)
(* file, and the ways out of filemap_fault tell the two apart.             *)
LEMMA FaultKeeps ==
  ASSUME ContractInv, NEW t \in Task, FaultStep(t)
  PROVE  OwnStep(t) /\ FitsAfter(t)
<1> DEFINE nowait == "nowait" \in Head(job[t]).flags
<1>a. Domains
  BY DEF ContractInv
<1>b. Fits(pc[t], l[t], rac[t], nowait, t \in invl.readers)
  BY DEF ContractInv, TaskFits, Flag, Op
<1>c. HasLock(l[t]) /\ "after" \in DOMAIN rac[t]
  BY <1>b DEF Fits
<1>d. HasLock(NextEntry(l[t])) /\ (Keeps(l[t]) => Keeps(NextEntry(l[t])))
  BY <1>c DEF HasLock, Keeps, NextEntry
<1> HIDE DEF nowait
<1> USE DEF Goto, Set
<1>1. CASE BeginFault(t)
  <2>1. OwnStep(t)
    BY <1>1, <1>a DEF BeginFault, FaultReturn, OwnStep, Domains
  <2> DEFINE x == [NoLocals EXCEPT !.pos = Op(t).pos, !.mm = TRUE, !.tried = l[t].tried]
             y == [x EXCEPT !.ret = "nopage"]
  <2>2. HasLock(x) /\ Keeps(x)
    BY StartValues DEF HasLock, Keeps
  <2>3. \/ l'[t] = y /\ pc'[t] = "fault_ret"
        \/ l'[t] = x /\ pc'[t] \in {"map_pages", "fault"}
    BY <1>1, <1>a DEF BeginFault, FaultReturn, Domains
  <2> HIDE DEF x
  <2>4. HasLock(y) /\ Keeps(y) /\ y.ret = "nopage"
    BY <2>2 DEF HasLock, Keeps
  <2> HIDE DEF y
  <2>5. pc[t] = "idle" /\ rac' = rac /\ invl' = invl
    BY <1>1, <1>a DEF BeginFault
  <2>6. QED
    BY <1>b, <2>1, <2>2, <2>3, <2>4, <2>5 DEF FitsAfter, Fits, Keeps
<1>2. CASE filemap_map_pages(t)
  <2>1. OwnStep(t)
    BY <1>2, <1>a DEF filemap_map_pages, OwnStep, Domains
  <2>2. FitsAfter(t)
    BY <1>2, <1>a, <1>b, StartValues
       DEF filemap_map_pages, Domains, nowait, FitsAfter, Fits, HasLock, Keeps, Pins
  <2>3. QED
    BY <2>1, <2>2
<1>3. CASE next_uptodate_folio(t)
  <2>1. OwnStep(t)
    BY <1>3, <1>a DEF next_uptodate_folio, FaultReturn, MapPagesDone, OwnStep, Domains
  <2> DEFINE x == [l[t] EXCEPT !.ptl = FALSE, !.hits = 0, !.cur = 0, !.file_end = 0, !.end = 0]
             y == [x EXCEPT !.ret = "nopage"]
             p == Min({ q \in l[t].cur .. l[t].end : m.pages[q] # 0 })
             z == [l[t] EXCEPT !.cur = p, !.f = m.pages[p]]
  <2>2. pc[t] = "next_uptodate" /\ rac' = rac /\ invl' = invl
    BY <1>3, <1>a DEF next_uptodate_folio
  <2>3. Keeps(l[t])
    BY <1>b, <2>2 DEF Fits
  <2>4. HasLock(x) /\ Keeps(x)
    BY <1>c, <2>3 DEF HasLock, Keeps
  <2>5. \/ pc'[t] = "look_folio" /\ l'[t] = z
        \/ pc'[t] = "fault_ret" /\ l'[t] = y
        \/ pc'[t] = "fault" /\ l'[t] = x
    BY <1>3, <1>a DEF next_uptodate_folio, FaultReturn, MapPagesDone, Domains
  <2> HIDE DEF x
  <2>6. HasLock(y) /\ Keeps(y) /\ y.ret = "nopage"
    BY <2>4 DEF HasLock, Keeps
  <2> HIDE DEF y
  <2>7. HasLock(l'[t]) /\ Keeps(l'[t])
    BY <1>c, <2>3, <2>4, <2>5, <2>6 DEF HasLock, Keeps
  <2>8. QED
    BY <1>b, <2>1, <2>2, <2>5, <2>6, <2>7 DEF FitsAfter, Fits, Keeps
<1>4. CASE filemap_map_folio_range(t)
  <2>1. OwnStep(t)
    BY <1>4, <1>a DEF filemap_map_folio_range, OwnStep, Domains
  <2>2. FitsAfter(t)
    BY <1>4, <1>a, <1>b, StartValues
       DEF filemap_map_folio_range, Domains, nowait, FitsAfter, Fits, HasLock, Keeps, Pins
  <2>3. QED
    BY <2>1, <2>2
<1>5. CASE filemap_fault(t)
  <2>1. OwnStep(t)
    BY <1>5, <1>a DEF filemap_fault, FaultReturn, AsyncMmap, SyncMmap, OwnStep, Domains
  <2>2. pc[t] = "fault" /\ invl' = invl
    BY <1>5, <1>a DEF filemap_fault
  <2>3. Keeps(l[t])
    BY <1>b, <2>2 DEF Fits
  <2>4. CASE l[t].pos >= m.isize
    <3> DEFINE x == [l[t] EXCEPT !.ret = "sigbus"]
    <3>1. pc'[t] = "fault_ret" /\ l'[t] = x /\ rac' = rac
      BY <1>5, <1>a, <2>4 DEF filemap_fault, FaultReturn, Domains
    <3>2. HasLock(x) /\ Keeps(x) /\ x.ret = "sigbus"
      BY <1>c, <2>3 DEF HasLock, Keeps
    <3> HIDE DEF x
    <3>3. QED
      BY <1>b, <2>1, <2>2, <3>1, <3>2 DEF FitsAfter, Fits, Keeps
  <2>5. CASE ~(l[t].pos >= m.isize) /\ m.pages[l[t].pos] # 0
    <3> DEFINE x == [l[t] EXCEPT !.f = m.pages[l[t].pos]]
    <3>1. HasLock(x) /\ Keeps(x)
      BY <1>c, <2>3 DEF HasLock, Keeps
    <3>2. AsyncMmap(t, m.pages[l[t].pos])
      BY <1>5, <2>5 DEF filemap_fault
    <3>3. \/ /\ pc'[t] = "async_ra" /\ l'[t] = maybe_unlock_mmap_for_io(t, x)
             /\ \E i, n : rac'[t] = Ractl(i, n, "fault_found")
          \/ pc'[t] = "fault_found" /\ l'[t] = x /\ rac' = rac
      BY <1>a, <3>2 DEF AsyncMmap, Domains
    <3> HIDE DEF x
    <3>4. HasLock(l'[t]) /\ (Keeps(l'[t]) \/ Pins(l'[t]))
      BY <3>1, <3>3, UnlockForIo
    <3>5. QED
      BY <1>b, <2>1, <2>2, <3>3, <3>4, StartValues DEF FitsAfter, Fits
  <2>6. CASE ~(l[t].pos >= m.isize) /\ m.pages[l[t].pos] = 0
    <3>1. SyncMmap(t)
      BY <1>5, <2>6 DEF filemap_fault
    <3>2. \/ pc'[t] = "retry_find" /\ l' = l /\ rac' = rac
          \/ /\ pc'[t] \in {"sync_ra", "ra_order"} /\ l'[t] = maybe_unlock_mmap_for_io(t, l[t])
             /\ \E i, n : rac'[t] = Ractl(i, n, "retry_find")
      BY <1>a, <3>1 DEF SyncMmap, Domains
    <3>3. HasLock(l'[t]) /\ (Keeps(l'[t]) \/ Pins(l'[t]))
      BY <1>c, <2>3, <3>2, UnlockForIo
    <3>4. QED
      BY <1>b, <2>1, <2>2, <3>2, <3>3, StartValues DEF FitsAfter, Fits
  <2>7. QED
    BY <2>4, <2>5, <2>6
<1>6. CASE FaultFound(t)
  <2>1. OwnStep(t)
    BY <1>6, <1>a DEF FaultFound, LockShared, OwnStep, Domains
  <2>2. FitsAfter(t)
    BY <1>6, <1>a, <1>b
       DEF FaultFound, LockShared, Domains, nowait, FitsAfter, Fits, HasLock, Keeps, Pins
  <2>3. QED
    BY <2>1, <2>2
<1>7. CASE RetryFind(t)
  <2>1. OwnStep(t)
    BY <1>7, <1>a DEF RetryFind, FaultReturn, LockShared, UnlockShared, OwnStep, Domains
  <2> DEFINE x == [l[t] EXCEPT !.mlock = TRUE,
                              !.f = IF m.pages[l[t].pos] # 0 THEN m.pages[l[t].pos]
                                    ELSE IF NoMemory(m) THEN 0 ELSE NewFolio(m)]
             y == [[x EXCEPT !.mlock = FALSE] EXCEPT !.ret = "oom"]
  <2>2. pc[t] = "retry_find" /\ rac' = rac
    BY <1>7, <1>a DEF RetryFind
  <2>3. Keeps(l[t]) \/ Pins(l[t])
    BY <1>b, <2>2 DEF Fits
  <2>4. HasLock(x) /\ (Keeps(x) \/ Pins(x))
    BY <1>c, <2>3 DEF HasLock, Keeps, Pins
  <2>5. \/ pc'[t] = "lock_folio" /\ l'[t] = x
        \/ pc'[t] = "out_retry" /\ l'[t] = x /\ x.fpin
        \/ pc'[t] = "fault_ret" /\ l'[t] = y /\ ~x.fpin /\ t \notin invl'.readers
    BY <1>7, <1>a DEF RetryFind, FaultReturn, LockShared, UnlockShared, Domains
  <2> HIDE DEF x
  <2>6. HasLock(y) /\ y.mm = x.mm /\ y.ret = "oom"
    BY <2>4 DEF HasLock
  <2> HIDE DEF y
  <2>7. QED
    BY <1>b, <2>1, <2>2, <2>4, <2>5, <2>6 DEF FitsAfter, Fits, Keeps, Pins
<1>8. CASE lock_folio_maybe_drop_mmap(t)
  <2>1. OwnStep(t)
    BY <1>8, <1>a DEF lock_folio_maybe_drop_mmap, Flag, Op, OwnStep, Domains
  <2>2. pc[t] = "lock_folio" /\ rac' = rac /\ job' = job
    BY <1>8, <1>a DEF lock_folio_maybe_drop_mmap
  <2>3. Keeps(l[t]) \/ Pins(l[t])
    BY <1>b, <2>2 DEF Fits
  <2>4. \/ pc'[t] = "have_folio" /\ l' = l
        \/ pc'[t] = "out_retry" /\ l' = l /\ nowait
        \/ pc'[t] = "lock_wait" /\ l'[t] = maybe_unlock_mmap_for_io(t, l[t])
    BY <1>8, <1>a DEF lock_folio_maybe_drop_mmap, Flag, Op, Domains, nowait
  <2>5. HasLock(l'[t]) /\ (Keeps(l'[t]) \/ Pins(l'[t]))
    BY <1>c, <2>3, <2>4, UnlockForIo
  <2>6. QED
    BY <1>b, <2>1, <2>2, <2>4, <2>5 DEF FitsAfter, Fits, nowait
<1>9. CASE LockWait(t)
  <2>1. OwnStep(t)
    BY <1>9, <1>a DEF LockWait, DropsMmapLock, OwnStep, Domains
  <2>2. FitsAfter(t)
    BY <1>9, <1>a, <1>b
       DEF LockWait, DropsMmapLock, Domains, nowait, FitsAfter, Fits, HasLock, Keeps, Pins
  <2>3. QED
    BY <2>1, <2>2
<1>10. CASE HaveFolio(t)
  <2>1. OwnStep(t)
    BY <1>10, <1>a DEF HaveFolio, UnlockShared, OwnStep, Domains
  <2> DEFINE x == [l[t] EXCEPT !.f = 0]
             y == [l[t] EXCEPT !.mlock = FALSE]
  <2>2. pc[t] = "have_folio" /\ rac' = rac
    BY <1>10, <1>a DEF HaveFolio
  <2>3. Keeps(l[t]) \/ Pins(l[t])
    BY <1>b, <2>2 DEF Fits
  <2>4. \/ pc'[t] = "retry_find" /\ l'[t] = x
        \/ pc'[t] = "fault_read" /\ l'[t] = maybe_unlock_mmap_for_io(t, l[t])
        \/ pc'[t] = "out_retry" /\ l' = l /\ l[t].fpin
        \/ pc'[t] = "recheck_size" /\ l'[t] = y /\ ~l[t].fpin /\ t \notin invl'.readers
    <3>1. CASE Truncated(l[t].f) \/ (~m.folio[l[t].f].uptodate /\ ~l[t].mlock)
      BY <1>10, <1>a, <3>1 DEF HaveFolio, Domains
    <3>2. CASE ~Truncated(l[t].f) /\ ~m.folio[l[t].f].uptodate /\ l[t].mlock
      BY <1>10, <1>a, <3>2 DEF HaveFolio, Domains
    <3>3. CASE ~Truncated(l[t].f) /\ m.folio[l[t].f].uptodate /\ l[t].fpin
      BY <1>10, <1>a, <3>3 DEF HaveFolio, Domains
    <3>4. CASE ~Truncated(l[t].f) /\ m.folio[l[t].f].uptodate /\ ~l[t].fpin
      BY <1>10, <1>a, <3>4 DEF HaveFolio, UnlockShared, Domains
    <3>5. QED
      BY <3>1, <3>2, <3>3, <3>4
  <2>5. /\ HasLock(x) /\ x.mm = l[t].mm /\ x.fpin = l[t].fpin
        /\ HasLock(y) /\ y.mm = l[t].mm /\ y.fpin = l[t].fpin
    BY <1>c DEF HasLock
  <2> HIDE DEF x, y
  <2>6. (Keeps(x) \/ Pins(x)) /\ (Keeps(y) \/ Pins(y))
    BY <2>3, <2>5 DEF Keeps, Pins
  <2>7. HasLock(l'[t]) /\ (Keeps(l'[t]) \/ Pins(l'[t]))
    BY <1>c, <2>3, <2>4, <2>5, <2>6, UnlockForIo
  <2>8. QED
    BY <1>b, <2>1, <2>2, <2>3, <2>4, <2>5, <2>7 DEF FitsAfter, Fits, Keeps, Pins
<1>11. CASE RecheckSize(t)
  <2>1. OwnStep(t)
    BY <1>11, <1>a DEF RecheckSize, FaultReturn, OwnStep, Domains
  <2>2. CASE l[t].pos >= m.isize
    <3> DEFINE x == [[l[t] EXCEPT !.f = 0] EXCEPT !.ret = "sigbus"]
    <3>1. /\ pc[t] = "recheck_size" /\ pc'[t] = "fault_ret" /\ l'[t] = x
          /\ rac'[t] = rac[t] /\ invl' = invl /\ job' = job
      BY <1>11, <1>a, <2>2 DEF RecheckSize, FaultReturn, Domains
    <3>2. HasLock(x) /\ x.mm = l[t].mm /\ x.fpin = l[t].fpin /\ x.ret = "sigbus"
      BY <1>c DEF HasLock
    <3> HIDE DEF x
    <3>3. QED
      BY <1>b, <1>c, <2>1, <2>2, <3>1, <3>2 DEF nowait, FitsAfter, Fits, HasLock, Keeps, Pins
  <2>3. CASE ~(l[t].pos >= m.isize)
    <3> DEFINE x == [l[t] EXCEPT !.ret = "locked"]
    <3>1. /\ pc[t] = "recheck_size" /\ pc'[t] = "fault_ret" /\ l'[t] = x
          /\ rac'[t] = rac[t] /\ invl' = invl /\ job' = job
      BY <1>11, <1>a, <2>3 DEF RecheckSize, FaultReturn, Domains
    <3>2. HasLock(x) /\ x.mm = l[t].mm /\ x.fpin = l[t].fpin /\ x.ret = "locked"
      BY <1>c DEF HasLock
    <3> HIDE DEF x
    <3>3. QED
      BY <1>b, <1>c, <2>1, <2>3, <3>1, <3>2 DEF nowait, FitsAfter, Fits, HasLock, Keeps, Pins
  <2>4. QED
    BY <2>1, <2>2, <2>3
<1>12. CASE FaultRead(t)
  <2>1. OwnStep(t)
    BY <1>12, <1>a DEF FaultRead, FaultReturn, UnlockShared, OwnStep, Domains
  <2> DEFINE x == [l[t] EXCEPT !.f = 0]
             y == [[l[t] EXCEPT !.f = 0, !.mlock = FALSE] EXCEPT !.ret = "sigbus"]
  <2>2. pc[t] = "fault_read" /\ rac' = rac
    BY <1>12, <1>a DEF FaultRead
  <2>3. Keeps(l[t]) \/ Pins(l[t])
    BY <1>b, <2>2 DEF Fits
  <2>4. \/ pc'[t] = "out_retry" /\ l' = l /\ l[t].fpin
        \/ pc'[t] = "retry_find" /\ l'[t] = x
        \/ pc'[t] = "fault_ret" /\ l'[t] = y /\ ~l[t].fpin /\ t \notin invl'.readers
    BY <1>12, <1>a DEF FaultRead, FaultReturn, UnlockShared, Domains
  <2>5. /\ HasLock(x) /\ x.mm = l[t].mm /\ x.fpin = l[t].fpin
        /\ HasLock(y) /\ y.mm = l[t].mm /\ y.ret = "sigbus"
    BY <1>c DEF HasLock
  <2> HIDE DEF x, y
  <2>6. QED
    BY <1>b, <1>c, <2>1, <2>2, <2>3, <2>4, <2>5 DEF FitsAfter, Fits, Keeps, Pins
<1>13. CASE OutRetry(t)
  <2>1. OwnStep(t)
    BY <1>13, <1>a DEF OutRetry, FaultReturn, UnlockShared, Flag, Op, OwnStep, Domains
  <2>2. FitsAfter(t)
    BY <1>13, <1>a, <1>b
       DEF OutRetry, FaultReturn, UnlockShared, Flag, Op, Domains, nowait, FitsAfter, Fits,
          HasLock, Keeps, Pins
  <2>3. QED
    BY <2>1, <2>2
<1>14. CASE finish_fault(t)
  <2>1. OwnStep(t)
    BY <1>14, <1>a DEF finish_fault, Leave, OwnStep, Domains
  <2>2. FitsAfter(t)
    BY <1>14, <1>a, <1>b, StartValues
       DEF finish_fault, Leave, Domains, nowait, FitsAfter, Fits, HasLock, Keeps, Pins
  <2>3. QED
    BY <2>1, <2>2
<1>15. CASE FaultDone(t)
  <2>1. OwnStep(t)
    BY <1>15, <1>a DEF FaultDone, Leave, OwnStep, Domains
  <2>2. FitsAfter(t)
    BY <1>15, <1>a, <1>b, StartValues
       DEF FaultDone, Leave, Domains, nowait, FitsAfter, Fits, HasLock, Keeps, Pins
  <2>3. QED
    BY <2>1, <2>2
<1>16. CASE LookFolio(t)
  <2>1. OwnStep(t)
    BY <1>16, <1>a DEF LookFolio, SkipFolio, NextEntry, OwnStep, Domains
  <2>2. pc[t] = "look_folio" /\ rac' = rac /\ invl' = invl
    BY <1>16, <1>a DEF LookFolio
  <2>3. /\ pc'[t] \in {"next_uptodate", "try_folio"}
        /\ l'[t] = l[t] \/ l'[t] = NextEntry(l[t])
    BY <1>16, <1>a DEF LookFolio, SkipFolio, Domains
  <2>4. QED
    BY <1>b, <1>d, <2>1, <2>2, <2>3 DEF FitsAfter, Fits
<1>17. CASE TryFolio(t)
  <2>1. OwnStep(t)
    BY <1>17, <1>a DEF TryFolio, SkipFolio, NextEntry, OwnStep, Domains
  <2>2. pc[t] = "try_folio" /\ rac' = rac /\ invl' = invl
    BY <1>17, <1>a DEF TryFolio
  <2>3. /\ pc'[t] \in {"next_uptodate", "recheck_folio"}
        /\ l'[t] = l[t] \/ l'[t] = NextEntry(l[t])
    BY <1>17, <1>a DEF TryFolio, SkipFolio, Domains
  <2>4. QED
    BY <1>b, <1>d, <2>1, <2>2, <2>3 DEF FitsAfter, Fits
<1>18. CASE RecheckFolio(t)
  <2>1. OwnStep(t)
    BY <1>18, <1>a DEF RecheckFolio, SkipFolio, NextEntry, OwnStep, Domains
  <2>2. pc[t] = "recheck_folio" /\ rac' = rac /\ invl' = invl
    BY <1>18, <1>a DEF RecheckFolio
  <2>3. /\ pc'[t] \in {"next_uptodate", "map_folio"}
        /\ l'[t] = l[t] \/ l'[t] = NextEntry(l[t])
    BY <1>18, <1>a DEF RecheckFolio, SkipFolio, Domains
  <2>4. QED
    BY <1>b, <1>d, <2>1, <2>2, <2>3 DEF FitsAfter, Fits
<1>19. CASE NoPageTable(t)
  <2>1. OwnStep(t)
    BY <1>19, <1>a DEF NoPageTable, OwnStep, Domains
  <2>2. FitsAfter(t)
    BY <1>19, <1>a, <1>b, StartValues
       DEF NoPageTable, Domains, nowait, FitsAfter, Fits, HasLock,
          Keeps, Pins
  <2>3. QED
    BY <2>1, <2>2
<1>20. QED
  BY <1>1, <1>2, <1>3, <1>4, <1>5, <1>6, <1>7, <1>8, <1>9, <1>10, <1>11, <1>12, <1>13, <1>14,
     <1>15, <1>16, <1>17, <1>18, <1>19
     DEF FaultStep

(* The steps of a truncation keep it: they are in none of these places.    *)
LEMMA TruncateKeeps ==
  ASSUME ContractInv, NEW t \in Task, Truncate(t)
  PROVE  OwnStep(t) /\ FitsAfter(t)
<1> DEFINE nowait == "nowait" \in Head(job[t]).flags
<1>a. Domains
  BY DEF ContractInv
<1>b. Fits(pc[t], l[t], rac[t], nowait, t \in invl.readers)
  BY DEF ContractInv, TaskFits, Flag, Op
<1>c. HasLock(l[t]) /\ "after" \in DOMAIN rac[t]
  BY <1>b DEF Fits
<1> HIDE DEF nowait
<1> USE DEF Goto, Set
<1>1. CASE BeginTruncate(t)
  <2>1. OwnStep(t)
    BY <1>1, <1>a DEF BeginTruncate, HeldTruncate, OwnStep, Domains
  <2>2. FitsAfter(t)
    BY <1>1, <1>a, <1>b
       DEF BeginTruncate, HeldTruncate, Domains, nowait, FitsAfter, Fits, HasLock, Keeps, Pins
  <2>3. QED
    BY <2>1, <2>2
<1>2. CASE unmap_mapping_range(t)
  <2>1. OwnStep(t)
    BY <1>2, <1>a DEF unmap_mapping_range, HeldTruncate, OwnStep, Domains
  <2>2. FitsAfter(t)
    BY <1>2, <1>a, <1>b
       DEF unmap_mapping_range, HeldTruncate, Domains, nowait, FitsAfter, Fits, HasLock, Keeps,
          Pins
  <2>3. QED
    BY <2>1, <2>2
<1>3. CASE TruncateBatch(t)
  <2>1. OwnStep(t)
    BY <1>3, <1>a DEF TruncateBatch, HeldTruncate, OwnStep, Domains
  <2>2. FitsAfter(t)
    BY <1>3, <1>a, <1>b
       DEF TruncateBatch, HeldTruncate, Domains, nowait, FitsAfter, Fits, HasLock, Keeps, Pins
  <2>3. QED
    BY <2>1, <2>2
<1>4. CASE find_get_entries(t)
  <2>1. OwnStep(t)
    BY <1>4, <1>a DEF find_get_entries, HeldTruncate, Leave, OwnStep, Domains
  <2>2. FitsAfter(t)
    BY <1>4, <1>a, <1>b, StartValues
       DEF find_get_entries, HeldTruncate, Leave, Domains, nowait, FitsAfter, Fits, HasLock,
          Keeps, Pins
  <2>3. QED
    BY <2>1, <2>2
<1>5. CASE TruncateFolio(t)
  <2>1. OwnStep(t)
    BY <1>5, <1>a DEF TruncateFolio, HeldTruncate, OwnStep, Domains
  <2>2. FitsAfter(t)
    BY <1>5, <1>a, <1>b, StartValues
       DEF TruncateFolio, HeldTruncate, Domains, nowait, FitsAfter, Fits, HasLock, Keeps, Pins
  <2>3. QED
    BY <2>1, <2>2
<1>6. QED
  BY <1>1, <1>2, <1>3, <1>4, <1>5 DEF Truncate

-----------------------------------------------------------------------------
(* At the start no task is in a call.                                      *)
LEMMA ContractInvStart ==
  ASSUME Init
  PROVE  ContractInv
BY ScenariosAssumption, StartValues DEF Init, ContractInv, Domains, TaskFits, Fits

(* Every step keeps the invariant: a task's own, and those of the disk, of *)
(* reclaim and of signals, which touch nothing it speaks of.               *)
LEMMA ContractInvKept ==
  ASSUME ContractInv, [Next]_vars
  PROVE  ContractInv'
<1>1. ASSUME NEW t \in Task, Step(t) PROVE ContractInv'
  <2>1. OwnStep(t) /\ FitsAfter(t)
    BY <1>1, ReadKeeps, ReadaheadKeeps, FaultKeeps, TruncateKeeps DEF Step, Read
  <2>2. QED
    BY <2>1, OwnStepKeeps
<1>2. ASSUME UNCHANGED <<invl, pc, rac, job, l>> PROVE ContractInv'
  BY <1>2 DEF ContractInv, Domains, TaskFits, Flag, Op
<1>3. ASSUME NEW t \in Task, Kill(t) PROVE ContractInv'
  BY <1>2, <1>3 DEF Kill
<1>4. CASE ReadCompletes \/ Reclaim \/ ClearUptodate
  BY <1>2, <1>4 DEF ReadCompletes, Reclaim, ClearUptodate, taskVars
<1>5. CASE Done \/ UNCHANGED vars
  BY <1>2, <1>5 DEF Done, vars
<1>6. QED
  BY <1>1, <1>3, <1>4, <1>5 DEF Next

(* A task that fits where filemap_fault has returned keeps the contract.   *)
LEMMA ContractInvMeans ==
  ASSUME ContractInv
  PROVE  FaultContract
<1>1. ASSUME NEW t \in Task, pc[t] = "fault_ret"
      PROVE  /\ l[t].ret # "retry" => l[t].mm
             /\ l[t].ret = "retry" /\ ~Flag(t, "nowait") => ~l[t].mm
             /\ t \notin invl.readers
  BY <1>1 DEF ContractInv, TaskFits, Fits
<1>2. QED
  BY <1>1 DEF FaultContract

(* filemap_fault keeps its contract whatever happens while it waits: it    *)
(* returns VM_FAULT_RETRY exactly when the mmap_lock is gone, unless it    *)
(* was not to wait, and never returns with the invalidate lock.            *)
THEOREM FaultsKeepContract == Spec => []FaultContract
<1>1. Init => ContractInv
  BY ContractInvStart
<1>2. ContractInv /\ [Next]_vars => ContractInv'
  BY ContractInvKept
<1>3. ContractInv => FaultContract
  BY ContractInvMeans
<1>4. QED
  BY <1>1, <1>2, <1>3, PTL DEF Spec
=============================================================================
