----------------------------- MODULE FileRead ------------------------------
(* Reading a file through the page cache: filemap_read with                *)
(* filemap_get_pages, filemap_create_folio and filemap_update_page, and    *)
(* do_read_cache_folio, which reads one folio for the kernel.  Positions   *)
(* and lengths are in pages.  A task waits for a folio lock until the      *)
(* folio is unlocked; the wait queue is the subject of FolioLock.  Of the  *)
(* flags of a call IOCB_NOWAIT is modelled, IOCB_NOIO and IOCB_WAITQ are   *)
(* not; a filesystem knows no partly uptodate folios.                      *)
EXTENDS PageReadahead

VARIABLES
  job,      \* the calls each task has still to make
  l,        \* the local variables of its current call
  killed    \* tasks with a fatal signal pending

readVars == <<job, l, killed>>

NoLocals ==
  [pos |-> 0, last |-> -1, end |-> 0, got |-> 0, batch |-> <<>>, f |-> 0, error |-> "none",
   mm |-> FALSE, fpin |-> FALSE, tried |-> FALSE, mlock |-> FALSE, ptl |-> FALSE,
   cur |-> 0, file_end |-> 0, hits |-> 0, ret |-> "none"]

Op(t) == Head(job[t])
Set(t, x) == l' = [l EXCEPT ![t] = x]

(* The call returns; a killed task makes no other.                         *)
Leave(t) ==
  /\ job' = [job EXCEPT ![t] = IF t \in killed THEN <<>> ELSE Tail(@)]
  /\ Set(t, NoLocals)
  /\ Goto(t, "idle")

(* shrink_readahead_size_eio after a read that failed.                     *)
Shrunk(t, failed) == IF failed THEN SetRa(t, [Ra(t) EXCEPT !.pages = @ \div 4]) ELSE UNCHANGED ra

(* folio_wait_locked_killable in filemap_read_folio, and its outcome.      *)
WaitOver(t, f) == ~m.folio[f].locked \/ t \in killed
ReadErrorUnseen(f) == IF m.folio[f].locked THEN "EINTR" ELSE "none"

ReadError(f) ==
  IF m.folio[f].locked THEN "EINTR" ELSE IF m.folio[f].uptodate THEN "none" ELSE "EIO"

Last1(t) == l[t].pos + Op(t).len - l[t].got    \* last_index: the page beyond the read

-----------------------------------------------------------------------------
BeginRead(t) ==
  /\ pc[t] = "idle" /\ job[t] # <<>> /\ Op(t).op = "read"
  /\ Set(t, [NoLocals EXCEPT !.pos = Op(t).pos, !.last = Ra(t).prev])
  /\ Goto(t, "read")
  /\ UNCHANGED <<m, invl, ra, rac, syncs, job, killed>>

filemap_read(t) ==
  /\ pc[t] = "read"
  /\ Goto(t, IF l[t].pos >= m.isize THEN "read_done" ELSE "get_pages")
  /\ UNCHANGED <<m, invl, ra, rac, syncs, readVars>>

Fail(t, error) == Set(t, [l[t] EXCEPT !.error = error, !.batch = <<>>]) /\ Goto(t, "read_done")

(* The first lookup of filemap_get_pages; a miss starts readahead.         *)
filemap_get_pages(t) ==
  LET batch == ReadBatch(m, l[t].pos, Last1(t) - 1)
  IN /\ pc[t] = "get_pages"
     /\ IF t \in killed
        THEN Fail(t, "EINTR") /\ UNCHANGED <<m, rac>>
        ELSE IF batch = <<>>
        THEN /\ rac' = [rac EXCEPT ![t] = Ractl(l[t].pos, Last1(t) - l[t].pos, "get_pages_again")]
             /\ Goto(t, "sync_ra")
             /\ UNCHANGED <<m, l>>
        ELSE /\ m' = GetAll(m, batch)
             /\ Set(t, [l[t] EXCEPT !.batch = batch])
             /\ Goto(t, "check_batch")
             /\ UNCHANGED rac
     /\ UNCHANGED <<invl, ra, syncs, job, killed>>

GetPagesAgain(t) ==
  LET batch == ReadBatch(m, l[t].pos, Last1(t) - 1)
  IN /\ pc[t] = "get_pages_again"
     /\ m' = GetAll(m, batch)
     /\ Set(t, [l[t] EXCEPT !.batch = batch])
     /\ Goto(t, IF batch = <<>> THEN "create" ELSE "check_batch")
     /\ UNCHANGED <<invl, ra, rac, syncs, job, killed>>

(* filemap_create_folio up to the wait for the read it starts.             *)
filemap_create_folio(t) ==
  /\ pc[t] = "create"
  /\ IF Op(t).nowait
     THEN Fail(t, "EAGAIN") /\ UNCHANGED <<m, invl>>
     ELSE IF NoMemory(m)
     THEN Fail(t, "ENOMEM") /\ UNCHANGED <<m, invl>>
     ELSE /\ invl.writer = Nobody
          /\ IF HasConflict(m, l[t].pos, 1)
             THEN Goto(t, "get_pages") /\ UNCHANGED <<m, invl, l>>
             ELSE /\ LockShared(t)
                  /\ m' = SubmitRead(filemap_add_folio(m, l[t].pos, 1, FALSE), {NewFolio(m)})
                  /\ Set(t, [l[t] EXCEPT !.f = NewFolio(m)])
                  /\ Goto(t, "create_wait")
  /\ UNCHANGED <<ra, rac, syncs, job, killed>>

CreateWait(t) ==
  LET f == l[t].f
      error == ReadError(f)
  IN /\ pc[t] = "create_wait" /\ WaitOver(t, f)
     /\ UnlockShared(t)
     /\ Shrunk(t, error = "EIO")
     /\ m' = IF error = "none" THEN m ELSE Put(m, f)
     /\ Set(t, [l[t] EXCEPT !.f = 0, !.error = error, !.batch = IF error = "none" THEN <<f>> ELSE <<>>])
     /\ Goto(t, IF error = "none" THEN "copy_size" ELSE "read_done")
     /\ UNCHANGED <<rac, syncs, job, killed>>

(* The last folio of the batch carries the mark: filemap_readahead.        *)
CheckReadahead(t) ==
  LET f == LastFolio(l[t].batch)
      index == m.folio[f].index
  IN /\ pc[t] = "check_batch"
     /\ IF m.folio[f].readahead
        THEN /\ rac' = [rac EXCEPT ![t] = Ractl(index, Last1(t) - index, "check_uptodate")]
             /\ Goto(t, "async_ra")
        ELSE Goto(t, "check_uptodate") /\ UNCHANGED rac
     /\ UNCHANGED <<m, invl, ra, syncs, readVars>>

(* A last folio that is not uptodate is left for the next round, unless it *)
(* is the only one.                                                        *)
CheckUptodate(t) ==
  LET batch == l[t].batch
      f == LastFolio(batch)
  IN /\ pc[t] = "check_uptodate"
     /\ IF m.folio[f].uptodate
        THEN Goto(t, "copy_size") /\ UNCHANGED <<m, l>>
        ELSE IF Len(batch) > 1
        THEN /\ m' = Put(m, f)
             /\ Set(t, [l[t] EXCEPT !.batch = SubSeq(batch, 1, Len(batch) - 1)])
             /\ Goto(t, "copy_size")
        ELSE Goto(t, "update") /\ UNCHANGED <<m, l>>
     /\ UNCHANGED <<invl, ra, rac, syncs, job, killed>>

(* filemap_update_page up to one of its waits.                             *)
filemap_update_page(t) ==
  LET f == l[t].batch[1]
      folio == m.folio[f]
      nowait == Op(t).nowait
      GiveUp == /\ m' = Put(m, f) /\ Fail(t, "EAGAIN") /\ UNCHANGED invl
  IN /\ pc[t] = "update"
     /\ IF nowait /\ invl.writer # Nobody
        THEN GiveUp
        ELSE /\ invl.writer = Nobody
             /\ IF folio.locked
                THEN IF nowait THEN GiveUp
                     ELSE /\ m' = Put(m, f)
                          /\ Set(t, [l[t] EXCEPT !.batch = <<>>, !.f = f])
                          /\ Goto(t, "put_wait")
                          /\ UNCHANGED invl
                ELSE IF ~folio.mapping
                THEN /\ m' = Put(m, f)
                     /\ Set(t, [l[t] EXCEPT !.batch = <<>>])
                     /\ Goto(t, "get_pages")
                     /\ UNCHANGED invl
                ELSE IF folio.uptodate
                THEN Goto(t, "copy_size") /\ UNCHANGED <<m, l, invl>>
                ELSE IF nowait
                THEN GiveUp
                ELSE /\ LockShared(t)
                     /\ m' = SubmitRead(Lock(m, f), {f})
                     /\ Goto(t, "update_wait")
                     /\ UNCHANGED l
     /\ UNCHANGED <<ra, rac, syncs, job, killed>>

UpdateWait(t) ==
  LET f == l[t].batch[1]
      error == ReadError(f)
  IN /\ pc[t] = "update_wait" /\ WaitOver(t, f)
     /\ UnlockShared(t)
     /\ Shrunk(t, error = "EIO")
     /\ IF error = "none"
        THEN Goto(t, "copy_size") /\ UNCHANGED <<m, l>>
        ELSE m' = Put(m, f) /\ Fail(t, error)
     /\ UNCHANGED <<rac, syncs, job, killed>>

(* folio_put_wait_locked sleeps without a reference to the folio.          *)
folio_put_wait_locked(t) ==
  /\ pc[t] = "put_wait"
  /\ ~m.folio[l[t].f].locked \/ (t \in killed /\ Op(t).op = "read")
  /\ Set(t, [l[t] EXCEPT !.f = 0])
  /\ Goto(t, IF Op(t).op = "read" THEN "get_pages" ELSE "cache_folio")
  /\ UNCHANGED <<m, invl, ra, rac, syncs, job, killed>>

(* i_size is read once the pages are known to be uptodate.                 *)
CopySize(t) ==
  /\ pc[t] = "copy_size"
  /\ Set(t, [l[t] EXCEPT !.end = m.isize])
  /\ Goto(t, "copy")
  /\ UNCHANGED <<m, invl, ra, rac, syncs, job, killed>>

(* How many pages the batch gives: to its end, or that of the file, or of  *)
(* what was asked for.                                                     *)
Copied(t) ==
  LET f == LastFolio(l[t].batch)
      stop == Min2(Min2(l[t].end, Last1(t)), m.folio[f].index + m.folio[f].nr)
  IN Max2(0, stop - l[t].pos)

Copy(t) ==
  LET n == Copied(t)
      x == [l[t] EXCEPT !.pos = @ + n, !.got = @ + n, !.batch = <<>>,
                        !.last = IF n = 0 THEN @ ELSE l[t].pos + n]
  IN /\ pc[t] = "copy"
     /\ m' = PutAll(m, l[t].batch)
     /\ Set(t, x)
     /\ Goto(t, IF x.got < Op(t).len /\ x.pos < x.end THEN "read" ELSE "read_done")
     /\ UNCHANGED <<invl, ra, rac, syncs, job, killed>>

ReadDone(t) ==
  /\ pc[t] = "read_done"
  /\ SetRa(t, [Ra(t) EXCEPT !.prev = l[t].last])
  /\ Leave(t)
  /\ UNCHANGED <<m, invl, rac, syncs, killed>>

-----------------------------------------------------------------------------
(* do_read_cache_folio: find the folio or add it, and fill it.  The caller *)
(* drops its reference at once.                                            *)
BeginCacheFolio(t) ==
  /\ pc[t] = "idle" /\ job[t] # <<>> /\ Op(t).op = "cache_folio"
  /\ Set(t, [NoLocals EXCEPT !.pos = Op(t).pos])
  /\ Goto(t, "cache_folio")
  /\ UNCHANGED <<m, invl, ra, rac, syncs, job, killed>>

do_read_cache_folio(t) ==
  LET f == m.pages[l[t].pos]
      new == NewFolio(m)
  IN /\ pc[t] = "cache_folio"
     /\ IF f # 0
        THEN /\ m' = Get(m, f)
             /\ Set(t, [l[t] EXCEPT !.f = f])
             /\ Goto(t, "cache_folio_lock")
             /\ UNCHANGED job
        ELSE IF NoMemory(m)
        THEN Leave(t) /\ UNCHANGED m
        ELSE /\ m' = SubmitRead(filemap_add_folio(m, l[t].pos, 1, FALSE), {new})
             /\ Set(t, [l[t] EXCEPT !.f = new])
             /\ Goto(t, "cache_folio_wait")
             /\ UNCHANGED job
     /\ UNCHANGED <<invl, ra, rac, syncs, killed>>

CacheFolioLock(t) ==
  LET f == l[t].f
      folio == m.folio[f]
  IN /\ pc[t] = "cache_folio_lock"
     /\ IF folio.uptodate
        THEN m' = Put(m, f) /\ Leave(t)
        ELSE IF folio.locked
        THEN m' = Put(m, f) /\ Goto(t, "put_wait") /\ UNCHANGED <<job, l>>
        ELSE IF ~folio.mapping
        THEN /\ m' = Put(m, f)
             /\ Set(t, [l[t] EXCEPT !.f = 0])
             /\ Goto(t, "cache_folio")
             /\ UNCHANGED job
        ELSE /\ m' = SubmitRead(Lock(m, f), {f})
             /\ Goto(t, "cache_folio_wait")
             /\ UNCHANGED <<job, l>>
     /\ UNCHANGED <<invl, ra, rac, syncs, killed>>

CacheFolioWait(t) ==
  /\ pc[t] = "cache_folio_wait" /\ WaitOver(t, l[t].f)
  /\ m' = Put(m, l[t].f)
  /\ Shrunk(t, ReadError(l[t].f) = "EIO")
  /\ Leave(t)
  /\ UNCHANGED <<invl, rac, syncs, killed>>

ReadStep(t) ==
  \/ BeginRead(t) \/ filemap_read(t) \/ filemap_get_pages(t) \/ GetPagesAgain(t)
  \/ filemap_create_folio(t) \/ CreateWait(t) \/ CheckReadahead(t) \/ CheckUptodate(t)
  \/ filemap_update_page(t) \/ UpdateWait(t) \/ folio_put_wait_locked(t)
  \/ CopySize(t) \/ Copy(t) \/ ReadDone(t)
  \/ BeginCacheFolio(t) \/ do_read_cache_folio(t) \/ CacheFolioLock(t) \/ CacheFolioWait(t)
=============================================================================
