----------------------------- MODULE PageFault -----------------------------
(* A fault on a mapping of the file: filemap_map_pages maps what is cached *)
(* around the address, filemap_fault finds, reads and locks the folio.     *)
(* All tasks are threads of one mm with one mapping that covers the file;  *)
(* ptes[p] is the folio page p is mapped from.  The flags of the call are  *)
(* those of the vma ("rand", "seq", "exec", "huge"), "around" where        *)
(* do_fault_around runs first, and "nowait" for FAULT_FLAG_RETRY_NOWAIT.   *)
EXTENDS FileRead

CONSTANTS
  HPAGE_PMD_ORDER,   \* the order of a folio of a VM_HUGEPAGE mapping
  ExecOrder,         \* exec_folio_order()
  MMAP_LOTSAMISS,
  Around             \* the pages of the fault-around window

VARIABLES ptes

Flag(t, flag) == flag \in Op(t).flags

(* mm/internal.h: the mmap_lock is given up before I/O at the first try    *)
(* only, and the file pinned instead.                                      *)
maybe_unlock_mmap_for_io(t, x) ==
  IF x.fpin \/ x.tried \/ Flag(t, "nowait") THEN x ELSE [x EXCEPT !.fpin = TRUE, !.mm = FALSE]

(* The page table lock is free for t.                                      *)
PtlFree(t) == \A u \in Task \ {t} : ~l[u].ptl

(* Set the empty ones of the ptes of S to f.                               *)
set_pte_range(S, f) == [p \in Index |-> IF p \in S /\ ptes[p] = 0 THEN f ELSE ptes[p]]

FaultReturn(t, x, ret) == Set(t, [x EXCEPT !.ret = ret]) /\ Goto(t, "fault_ret")

-----------------------------------------------------------------------------
(* handle_mm_fault down to the calls of this file, with the mmap_lock.     *)
BeginFault(t) ==
  /\ pc[t] = "idle" /\ job[t] # <<>> /\ Op(t).op = "fault"
  /\ LET x == [NoLocals EXCEPT !.pos = Op(t).pos, !.mm = TRUE, !.tried = l[t].tried]
     IN IF ptes[x.pos] # 0 THEN FaultReturn(t, x, "nopage")
        ELSE Set(t, x) /\ Goto(t, IF Flag(t, "around") THEN "map_pages" ELSE "fault")
  /\ UNCHANGED <<m, invl, ra, rac, syncs, job, killed, ptes>>

(* filemap_map_pages reads the size of the file, then takes the folios of  *)
(* the window that can be locked without waiting one after the other.      *)
filemap_map_pages(t) ==
  LET start == RoundDown(l[t].pos, Around)
  IN /\ pc[t] = "map_pages"
     /\ Set(t, [l[t] EXCEPT !.cur = start, !.file_end = FileLimit,
                            !.end = Min2(start + Around - 1, FileLimit)])
     /\ Goto(t, "next_uptodate")
     /\ UNCHANGED <<m, invl, ra, rac, syncs, job, killed, ptes>>

(* The end of filemap_map_pages.                                           *)
MapPagesDone(t) ==
  LET x == [l[t] EXCEPT !.ptl = FALSE, !.hits = 0, !.cur = 0, !.file_end = 0, !.end = 0]
  IN /\ SetRa(t, [Ra(t) EXCEPT !.miss = Max2(0, @ - l[t].hits)])
     /\ IF l[t].ret = "nopage" THEN FaultReturn(t, x, "nopage")
        ELSE Set(t, x) /\ Goto(t, "fault")

(* next_uptodate_folio: find and reference the next folio, without a lock; *)
(* look at it; if it is fit, try to lock it; look again under the lock.    *)
next_uptodate_folio(t) ==
  LET found == { p \in l[t].cur .. l[t].end : m.pages[p] # 0 }
      p == Min(found)
  IN /\ pc[t] = "next_uptodate"
     /\ IF found # {}
        THEN /\ m' = Get(m, m.pages[p])
             /\ Set(t, [l[t] EXCEPT !.cur = p, !.f = m.pages[p]])
             /\ Goto(t, "look_folio")
             /\ UNCHANGED ra
        ELSE MapPagesDone(t) /\ UNCHANGED m
     /\ UNCHANGED <<invl, rac, syncs, job, killed, ptes>>

(* Past the folio that was found, which may not be there any more.         *)
NextEntry(x) == [x EXCEPT !.f = 0, !.cur = m.folio[x.f].index + m.folio[x.f].nr]

SkipFolio(t, c) == m' = Put(c, l[t].f) /\ Set(t, NextEntry(l[t])) /\ Goto(t, "next_uptodate")

LookFolio(t) ==
  LET f == l[t].f
      folio == m.folio[f]
  IN /\ pc[t] = "look_folio"
     /\ IF ~folio.locked /\ m.pages[l[t].cur] = f /\ folio.uptodate /\ ~folio.readahead
        THEN Goto(t, "try_folio") /\ UNCHANGED <<m, l>>
        ELSE SkipFolio(t, m)
     /\ UNCHANGED <<invl, ra, rac, syncs, job, killed, ptes>>

TryFolio(t) ==
  /\ pc[t] = "try_folio"
  /\ IF ~m.folio[l[t].f].locked
     THEN m' = Lock(m, l[t].f) /\ Goto(t, "recheck_folio") /\ UNCHANGED l
     ELSE SkipFolio(t, m)
  /\ UNCHANGED <<invl, ra, rac, syncs, job, killed, ptes>>

RecheckFolio(t) ==
  LET f == l[t].f
  IN /\ pc[t] = "recheck_folio"
     /\ IF m.folio[f].mapping /\ m.folio[f].uptodate /\ l[t].cur < m.isize
        THEN Goto(t, "map_folio") /\ UNCHANGED <<m, l>>
        ELSE SkipFolio(t, folio_unlock(m, f))
     /\ UNCHANGED <<invl, ra, rac, syncs, job, killed, ptes>>

(* pte_offset_map_lock finds no page table for the first folio: somebody   *)
(* took it away.                                                           *)
NoPageTable(t) ==
  /\ pc[t] = "map_folio" /\ ~l[t].ptl
  /\ m' = Put(folio_unlock(m, l[t].f), l[t].f)
  /\ Set(t, [l[t] EXCEPT !.f = 0, !.cur = 0, !.file_end = 0, !.end = 0])
  /\ Goto(t, "fault")
  /\ UNCHANGED <<invl, ra, rac, syncs, job, killed, ptes>>

(* The pages of folio f to map: all of them if the file goes beyond.       *)
MapRange(x, f) ==
  LET next == m.folio[f].index + m.folio[f].nr
  IN IF m.folio[f].nr > 1 /\ x.file_end >= next THEN PagesOf(m, f)
     ELSE x.cur .. Min2(next - 1, x.end)

(* filemap_map_order0_folio and filemap_map_folio_range: each pte set has  *)
(* a reference, the caller's being the first.                              *)
filemap_map_folio_range(t) ==
  LET f == l[t].f
      next == m.folio[f].index + m.folio[f].nr
      range == MapRange(l[t], f)
      set == { p \in range : ptes[p] = 0 }
      c == folio_unlock(m, f)
  IN /\ pc[t] = "map_folio" /\ PtlFree(t)
     /\ ptes' = set_pte_range(range, f)
     /\ m' = IF set = {} THEN Put(c, f) ELSE [c EXCEPT !.folio[f].refs = @ + Cardinality(set) - 1]
     /\ Set(t, [l[t] EXCEPT !.ptl = TRUE, !.f = 0, !.cur = next, !.hits = @ + Cardinality(range),
                            !.ret = IF l[t].pos \in set THEN "nopage" ELSE @])
     /\ Goto(t, "next_uptodate")
     /\ UNCHANGED <<invl, ra, rac, syncs, job, killed>>

-----------------------------------------------------------------------------
(* do_async_mmap_readahead, for a folio the first lookup found.            *)
AsyncMmap(t, f) ==
  LET s == Ra(t)
      x == [l[t] EXCEPT !.f = f]
      off == l[t].tried \/ Flag(t, "rand") \/ s.pages = 0
  IN /\ m' = Get(m, f)
     /\ IF off \/ m.folio[f].locked THEN UNCHANGED ra
        ELSE SetRa(t, [s EXCEPT !.miss = Max2(0, @ - 1)])
     /\ IF ~off /\ m.folio[f].readahead
        THEN /\ Set(t, maybe_unlock_mmap_for_io(t, x))
             /\ rac' = [rac EXCEPT ![t] = Ractl(x.pos, s.pages, "fault_found")]
             /\ Goto(t, "async_ra")
        ELSE Set(t, x) /\ Goto(t, "fault_found") /\ UNCHANGED rac

(* The windows of do_sync_mmap_readahead.                                  *)
HugeWindow(t, s) ==
  LET nr == 2^HPAGE_PMD_ORDER
  IN [s EXCEPT !.size = IF Flag(t, "rand") THEN nr ELSE 2 * nr, !.async = nr,
               !.order = HPAGE_PMD_ORDER]

ExecWindow(s, pos) ==
  LET start == RoundDown(pos, 2^ExecOrder)
      end == RoundDown(start + s.pages + 2^ExecOrder - 1, 2^ExecOrder)
  IN [s EXCEPT !.order = ExecOrder, !.start = start, !.size = Min2(end, sc.pages) - start, !.async = 0]

AroundWindow(s, pos) ==
  [s EXCEPT !.start = Max2(0, pos - (s.pages \div 2)), !.size = s.pages,
            !.async = s.pages \div 4, !.order = 0]

(* do_sync_mmap_readahead, for a fault that found nothing.                 *)
SyncMmap(t) ==
  LET huge == Flag(t, "huge")
      seq == Flag(t, "seq")
      old == Ra(t)
      s == IF seq \/ old.miss >= 10 * MMAP_LOTSAMISS THEN old ELSE [old EXCEPT !.miss = @ + 1]
      w == IF huge THEN HugeWindow(t, s)
           ELSE IF Flag(t, "exec") THEN ExecWindow(s, l[t].pos) ELSE AroundWindow(s, l[t].pos)
      first == IF huge THEN RoundDown(l[t].pos, 2^HPAGE_PMD_ORDER) ELSE w.start
  IN IF ~huge /\ ((Flag(t, "rand") /\ ~Flag(t, "exec")) \/ old.pages = 0)
     THEN Goto(t, "retry_find") /\ UNCHANGED <<l, ra, rac>>
     ELSE IF ~huge /\ seq
     THEN /\ Set(t, maybe_unlock_mmap_for_io(t, l[t]))
          /\ rac' = [rac EXCEPT ![t] = Ractl(l[t].pos, old.pages, "retry_find")]
          /\ Goto(t, "sync_ra")
          /\ UNCHANGED ra
     ELSE IF ~seq /\ s.miss > MMAP_LOTSAMISS
     THEN SetRa(t, s) /\ Goto(t, "retry_find") /\ UNCHANGED <<l, rac>>
     ELSE /\ SetRa(t, w)
          /\ Set(t, maybe_unlock_mmap_for_io(t, l[t]))
          /\ rac' = [rac EXCEPT ![t] = Ractl(first, 0, "retry_find")]
          /\ Goto(t, "ra_order")

(* filemap_fault to the end of its readahead.                              *)
filemap_fault(t) ==
  LET f == m.pages[l[t].pos]
  IN /\ pc[t] = "fault"
     /\ IF l[t].pos >= m.isize
        THEN FaultReturn(t, l[t], "sigbus") /\ UNCHANGED <<m, ra, rac>>
        ELSE IF f # 0
        THEN AsyncMmap(t, f)
        ELSE SyncMmap(t) /\ UNCHANGED m
     /\ UNCHANGED <<invl, syncs, job, killed, ptes>>

FaultFound(t) ==
  /\ pc[t] = "fault_found"
  /\ IF m.folio[l[t].f].uptodate
     THEN UNCHANGED <<invl, l>>
     ELSE LockShared(t) /\ Set(t, [l[t] EXCEPT !.mlock = TRUE])
  /\ Goto(t, "lock_folio")
  /\ UNCHANGED <<m, ra, rac, syncs, job, killed, ptes>>

(* Find the folio, or add one, under the invalidate lock.                  *)
RetryFind(t) ==
  LET found == m.pages[l[t].pos]
      x == [l[t] EXCEPT !.mlock = TRUE, !.f = IF found # 0 THEN found ELSE IF NoMemory(m) THEN 0 ELSE NewFolio(m)]
  IN /\ pc[t] = "retry_find"
     /\ invl.writer = Nobody
     /\ IF x.f # 0
        THEN /\ m' = filemap_get_folio_mpol(m, l[t].pos)
             /\ LockShared(t)
             /\ Set(t, x) /\ Goto(t, "lock_folio")
        ELSE /\ IF x.fpin
                THEN Set(t, x) /\ Goto(t, "out_retry") /\ LockShared(t)
                ELSE FaultReturn(t, [x EXCEPT !.mlock = FALSE], "oom") /\ UnlockShared(t)
             /\ UNCHANGED m
     /\ UNCHANGED <<ra, rac, syncs, job, killed, ptes>>

(* lock_folio_maybe_drop_mmap.                                             *)
lock_folio_maybe_drop_mmap(t) ==
  /\ pc[t] = "lock_folio"
  /\ IF ~m.folio[l[t].f].locked
     THEN m' = Lock(m, l[t].f) /\ Goto(t, "have_folio") /\ UNCHANGED l
     ELSE IF Flag(t, "nowait")
     THEN Goto(t, "out_retry") /\ UNCHANGED <<m, l>>
     ELSE Set(t, maybe_unlock_mmap_for_io(t, l[t])) /\ Goto(t, "lock_wait") /\ UNCHANGED m
  /\ UNCHANGED <<invl, ra, rac, syncs, job, killed, ptes>>

KeepsMmapLock(x) == x

DropsMmapLock(x) == [x EXCEPT !.mm = FALSE]

LockWait(t) ==
  LET f == l[t].f
  IN /\ pc[t] = "lock_wait" /\ WaitOver(t, f)
     /\ IF m.folio[f].locked
        THEN Set(t, DropsMmapLock(l[t])) /\ Goto(t, "out_retry") /\ UNCHANGED m
        ELSE m' = Lock(m, f) /\ Goto(t, "have_folio") /\ UNCHANGED l
     /\ UNCHANGED <<invl, ra, rac, syncs, job, killed, ptes>>

(* The folio is locked: it may have been truncated, or may need a read.    *)
TruncatedNever(f) == FALSE

Truncated(f) == ~m.folio[f].mapping

HaveFolio(t) ==
  LET f == l[t].f
      Again == /\ m' = Put(folio_unlock(m, f), f)
               /\ Set(t, [l[t] EXCEPT !.f = 0])
               /\ Goto(t, "retry_find")
               /\ UNCHANGED invl
  IN /\ pc[t] = "have_folio"
     /\ IF Truncated(f)
        THEN Again
        ELSE IF ~m.folio[f].uptodate
        THEN IF ~l[t].mlock THEN Again
             ELSE /\ m' = SubmitRead(m, {f})
                  /\ Set(t, maybe_unlock_mmap_for_io(t, l[t]))
                  /\ Goto(t, "fault_read")
                  /\ UNCHANGED invl
        ELSE IF l[t].fpin
        THEN m' = folio_unlock(m, f) /\ Goto(t, "out_retry") /\ UNCHANGED <<l, invl>>
        ELSE /\ UnlockShared(t)
             /\ Set(t, [l[t] EXCEPT !.mlock = FALSE])
             /\ Goto(t, "recheck_size")
             /\ UNCHANGED m
     /\ UNCHANGED <<ra, rac, syncs, job, killed, ptes>>

RecheckSize(t) ==
  LET f == l[t].f
  IN /\ pc[t] = "recheck_size"
     /\ IF l[t].pos >= m.isize
        THEN /\ m' = Put(folio_unlock(m, f), f)
             /\ FaultReturn(t, [l[t] EXCEPT !.f = 0], "sigbus")
        ELSE FaultReturn(t, l[t], "locked") /\ UNCHANGED m
     /\ UNCHANGED <<invl, ra, rac, syncs, job, killed, ptes>>

(* page_not_uptodate: the read filemap_read_folio started is over.         *)
FaultRead(t) ==
  LET f == l[t].f
      error == ReadError(f)
  IN /\ pc[t] = "fault_read" /\ WaitOver(t, f)
     /\ Shrunk(t, error = "EIO")
     /\ IF l[t].fpin
        THEN Goto(t, "out_retry") /\ UNCHANGED <<m, l, invl>>
        ELSE /\ m' = Put(m, f)
             /\ IF error = "none"
                THEN Set(t, [l[t] EXCEPT !.f = 0]) /\ Goto(t, "retry_find") /\ UNCHANGED invl
                ELSE FaultReturn(t, [l[t] EXCEPT !.f = 0, !.mlock = FALSE], "sigbus") /\ UnlockShared(t)
     /\ UNCHANGED <<rac, syncs, job, killed, ptes>>

OutRetryLeaks(t) ==
  /\ pc[t] = "out_retry"
  /\ UnlockShared(t)
  /\ FaultReturn(t, [l[t] EXCEPT !.f = 0, !.mlock = FALSE, !.fpin = FALSE], "retry")
  /\ UNCHANGED <<m, ra, rac, syncs, job, killed, ptes>>

OutRetry(t) ==
  /\ pc[t] = "out_retry"
  /\ m' = IF l[t].f = 0 THEN m ELSE Put(m, l[t].f)
  /\ UnlockShared(t)
  /\ FaultReturn(t, [l[t] EXCEPT !.f = 0, !.mlock = FALSE, !.fpin = FALSE], "retry")
  /\ UNCHANGED <<ra, rac, syncs, job, killed, ptes>>

-----------------------------------------------------------------------------
(* The callers (mm/memory.c): finish_fault maps a locked folio; a fault to *)
(* be retried is, once, with FAULT_FLAG_TRIED, unless it was not to wait.  *)
finish_fault(t) ==
  LET f == l[t].f
      c == folio_unlock(m, f)
  IN /\ pc[t] = "fault_ret" /\ l[t].ret = "locked" /\ PtlFree(t)
     /\ ptes' = set_pte_range({l[t].pos}, f)
     /\ m' = IF ptes[l[t].pos] = 0 THEN c ELSE Put(c, f)
     /\ Leave(t)
     /\ UNCHANGED <<invl, ra, rac, syncs, killed>>

FaultDone(t) ==
  /\ pc[t] = "fault_ret" /\ l[t].ret # "locked"
  /\ IF l[t].ret = "retry" /\ ~Flag(t, "nowait") /\ t \notin killed
     THEN Set(t, [NoLocals EXCEPT !.tried = TRUE]) /\ Goto(t, "idle") /\ UNCHANGED job
     ELSE Leave(t)
  /\ UNCHANGED <<m, invl, ra, rac, syncs, killed, ptes>>

FaultStep(t) ==
  \/ BeginFault(t) \/ filemap_map_pages(t) \/ next_uptodate_folio(t) \/ LookFolio(t)
  \/ TryFolio(t) \/ RecheckFolio(t) \/ NoPageTable(t) \/ filemap_map_folio_range(t)
  \/ filemap_fault(t) \/ FaultFound(t) \/ RetryFind(t)
  \/ lock_folio_maybe_drop_mmap(t) \/ LockWait(t) \/ HaveFolio(t) \/ RecheckSize(t)
  \/ FaultRead(t) \/ OutRetry(t) \/ finish_fault(t) \/ FaultDone(t)
=============================================================================
