--------------------------- MODULE PageReadahead ---------------------------
(* Readahead of the page cache (mm/readahead.c).  A task that misses, or   *)
(* that meets the readahead mark, decides on a window (page_cache_sync_ra, *)
(* page_cache_async_ra), fills it with locked folios one at a time         *)
(* (page_cache_ra_order, page_cache_ra_unbounded) and hands each           *)
(* contiguous batch to the filesystem (read_pages).  Every folio of a      *)
(* batch is found again through i_pages, by its index.                     *)
EXTENDS PageCache

CONSTANTS
  Task,
  Nobody,
  Chunk     \* the 2 megabytes of force_page_cache_ra, in pages

VARIABLES
  sc,     \* what is fixed for a behaviour: the file, the device, what the tasks do
  invl,   \* mapping->invalidate_lock: [writer, readers]
  pc,     \* where each task is
  ra,     \* the struct file_ra_state of each open file
  rac,    \* the struct readahead_control of each task, with the variables of the loops
  syncs   \* ghost: page_cache_sync_ra calls of each task, up to two

raVars == <<invl, pc, ra, rac, syncs>>

NoRac ==
  [index |-> 0, nr |-> 0, start |-> 0, order |-> 0, limit |-> 0, mark |-> 0, force |-> 0,
   req |-> 0, after |-> "none"]

NoMark == -1

Ra(t) == ra[sc.file[t]]
SetRa(t, s) == ra' = [ra EXCEPT ![sc.file[t]] = s]

Ractl(index, req, after) == [NoRac EXCEPT !.index = index, !.req = req, !.after = after]

Min2(a, b) == IF a < b THEN a ELSE b
Max2(a, b) == IF a > b THEN a ELSE b
RoundDown(n, align) == n - (n % align)
Log2(n) == CHOOSE k \in 0..8 : 2^k <= n /\ n < 2^(k + 1)
roundup_pow_of_two(n) == 2^(CHOOSE k \in 0..8 : 2^k >= n /\ (k = 0 \/ 2^(k - 1) < n))
TrailingZeros(n) == CHOOSE k \in 0..8 : n % 2^k = 0 /\ n % 2^(k + 1) # 0

file_ra_state_init(pages) ==
  [start |-> 0, size |-> 0, async |-> 0, order |-> 0, pages |-> pages, prev |-> -1, miss |-> 0]

get_init_ra_size(size, max) ==
  LET new == roundup_pow_of_two(size)
  IN IF new <= max \div 32 THEN new * 4 ELSE IF new <= max \div 4 THEN new * 2 ELSE max

get_next_ra_size(cur, max) ==
  IF cur < max \div 16 THEN 4 * cur ELSE IF cur <= max \div 2 THEN 2 * cur ELSE max

ractl_max_pages(pages, req) ==
  IF req > pages /\ sc.ioPages > pages THEN Min2(req, sc.ioPages) ELSE pages

LockShared(t) == invl.writer = Nobody /\ invl' = [invl EXCEPT !.readers = @ \union {t}]
UnlockShared(t) == invl' = [invl EXCEPT !.readers = @ \ {t}]

Goto(t, label) == pc' = [pc EXCEPT ![t] = label]

(* read_pages: ->readahead() takes the folios before first + taken, which  *)
(* are on their way from the disk now; the others are removed again.       *)
(* readahead_folio drops the reference the batch has of each.              *)
ReadPages(c, first, nr, taken) ==
  LET batch == { c.pages[p] : p \in Span(first, nr) }
      sent == { f \in batch : c.folio[f].index < first + taken }
      read == IF sent = {} THEN c ELSE SubmitRead(c, sent)
      Drop(f, d) == folio_unlock(filemap_remove_folio(d, f), f)
  IN FoldSet(LAMBDA f, d : Put(d, f), FoldSet(Drop, read, batch \ sent), batch)

(* A congested filesystem may stop short of the whole batch.               *)
Leaves(t) == IF sc.congested THEN 0..rac[t].nr ELSE {0}

blk_cgroup_congested == IF sc.congested THEN BOOLEAN ELSE {FALSE}

-----------------------------------------------------------------------------
(* The order of the folio at index: aligned, and not past the limit.       *)
FolioOrder(index, order, limit) ==
  LET aligned == IF index % 2^order = 0 THEN order ELSE TrailingZeros(index)
  IN Max({ k \in 0..aligned : k = 0 \/ index + 2^k - 1 <= limit })

NextNr(r) == 2^FolioOrder(r.index + r.nr, r.order, r.limit)

(* readahead_expand, called by a filesystem that reads in blocks of        *)
(* sc.block pages: the batch grows downwards and then upwards, and stops   *)
(* at a page that is there or when memory runs out.                        *)
readahead_expand(c, r) ==
  LET room == Cardinality(Free(c))
      end == r.index + r.nr
      below == r.index % sc.block
      above == Max2(0, Min2(RoundDown(end + sc.block - 1, sc.block), c.isize) - end)
      Absent(S) == \A p \in S : c.pages[p] = 0
      down == Max({ k \in 0..Min2(below, room) : Absent((r.index - k) .. (r.index - 1)) })
      up == IF down < below THEN 0
            ELSE Max({ k \in 0..Min2(above, room - down) : Absent(end .. (end + k - 1)) })
  IN IF r.nr = 0 THEN [c |-> c, index |-> r.index, nr |-> 0, up |-> 0]
     ELSE [c |-> AddPages(c, ((r.index - down) .. (r.index - 1)) \union (end .. (end + up - 1))),
           index |-> r.index - down, nr |-> down + r.nr + up, up |-> up]

(* read_pages for the batch of t: the filesystem expands it and leaves the *)
(* last few pages to be cleaned up.  Afterwards the control stands behind  *)
(* the batch, and skip pages further.                                      *)
Reads(t, g, left) ==
  /\ m' = ReadPages(g.c, g.index, g.nr, g.nr - left)
  /\ SetRa(t, [Ra(t) EXCEPT !.size = @ + g.up, !.async = @ + g.up])

Behind(r, g, skip) == [r EXCEPT !.index = g.index + g.nr + skip, !.nr = 0]

-----------------------------------------------------------------------------
(* The window for a miss at rac.index of a request of rac.req pages.       *)
Sequential(s, index, req, max) ==
  index = 0 \/ req > max \/ (s.prev >= 0 /\ index - s.prev \in {0, 1})

InitialWindowUnsplit(s, index, req, max) ==
  LET size == get_init_ra_size(req, max)
  IN [s EXCEPT !.start = index, !.size = size, !.order = 0, !.async = size - req]

InitialWindow(s, index, req, max) ==
  LET size == get_init_ra_size(req, max)
  IN [s EXCEPT !.start = index, !.size = size, !.order = 0,
               !.async = IF size > req THEN size - req ELSE size \div 2]

HistoryWindow(s, index, req, max, miss) ==
  LET contig == (index - miss - 1) * (IF miss = -1 THEN 2 ELSE 1)
  IN [s EXCEPT !.start = index, !.size = Min2(contig + req, max), !.async = 1, !.order = 0]

page_cache_sync_ra(t) ==
  /\ pc[t] = "sync_ra"
  /\ syncs' = [syncs EXCEPT ![t] = Min2(2, @ + 1)]
  /\ \E busy \in blk_cgroup_congested :
       LET r == rac[t]
           s == Ra(t)
           disabled == s.pages = 0 \/ busy
           max == ractl_max_pages(s.pages, r.req)
           miss == page_cache_prev_miss(m, r.index - 1, max)
       IN IF disabled \/ sc.random
          THEN /\ rac' = [rac EXCEPT ![t].force =
                            Min2(IF disabled THEN 1 ELSE r.req, Max2(sc.ioPages, s.pages))]
               /\ Goto(t, "force_ra")
               /\ UNCHANGED ra
          ELSE IF Sequential(s, r.index, r.req, max)
          THEN /\ SetRa(t, InitialWindow(s, r.index, r.req, max))
               /\ Goto(t, "ra_order")
               /\ UNCHANGED rac
          ELSE IF r.index - miss - 1 <= r.req
          THEN /\ rac' = [rac EXCEPT ![t].limit = r.req]
               /\ Goto(t, "do_ra")
               /\ UNCHANGED ra
          ELSE /\ SetRa(t, HistoryWindow(s, r.index, r.req, max, miss))
               /\ Goto(t, "ra_order")
               /\ UNCHANGED rac
  /\ UNCHANGED <<m, invl>>

(* The window that follows the one whose mark, in folio f, was met.        *)
NextSize(s, max) == Max2(s.size, get_next_ra_size(s.size, max))

AlignEnd(s, max) ==
  LET order == s.order + 2
      end == RoundDown(s.start + s.size, 2^Min2(order, TrailingZeros(max)))
      size == IF end > s.start THEN end - s.start ELSE s.size
  IN [s EXCEPT !.order = order, !.size = size, !.async = size]

(* No folio is under writeback: nobody writes to the file.                 *)
page_cache_async_ra(t, f) ==
  LET r == rac[t]
      s == Ra(t)
      max == ractl_max_pages(s.pages, r.req)
      expected == RoundDown(s.start + s.size - s.async, m.folio[f].nr)
      start == page_cache_next_miss(m, r.index + 1, max)
      Window(w) == /\ SetRa(t, AlignEnd(w, max))
                   /\ rac' = [rac EXCEPT ![t].index = w.start]
                   /\ Goto(t, "ra_order")
      None == Goto(t, r.after) /\ rac' = [rac EXCEPT ![t] = NoRac] /\ UNCHANGED ra
  IN /\ pc[t] = "async_ra"
     /\ IF s.pages = 0
        THEN UNCHANGED m /\ None
        ELSE /\ m' = [m EXCEPT !.folio[f].readahead = FALSE]
             /\ \E busy \in blk_cgroup_congested :
                  IF busy THEN None
                  ELSE IF r.index = expected
                  THEN Window([s EXCEPT !.start = @ + s.size, !.size = NextSize(s, max)])
                  ELSE IF start - r.index <= max
                  THEN Window([s EXCEPT !.start = start,
                                        !.size = get_next_ra_size(start - r.index + r.req, max)])
                  ELSE None
     /\ UNCHANGED <<invl, syncs>>

-----------------------------------------------------------------------------
(* page_cache_ra_order: large folios as far as the file and the window go. *)
(* The size of the file is read here, before the invalidate lock is taken; *)
(* an empty file wraps around to no limit at all.                          *)
FileLimit == IF m.isize = 0 THEN Max(Index) ELSE m.isize - 1

page_cache_ra_order(t) ==
  /\ pc[t] = "ra_order"
  /\ LET r == rac[t]
         s == Ra(t)
         order == IF sc.maxOrder = 0 THEN 0 ELSE Min2(Min2(sc.maxOrder, s.order), Log2(s.size))
     IN /\ SetRa(t, [s EXCEPT !.order = order])
        /\ IF sc.maxOrder = 0
           THEN /\ rac' = [rac EXCEPT ![t].limit = s.size, ![t].mark = s.async]
                /\ Goto(t, "do_ra")
           ELSE /\ rac' = [rac EXCEPT ![t].limit = Min2(FileLimit, r.index + s.size - 1),
                                      ![t].mark = r.index + s.size - s.async,
                                      ![t].start = r.index, ![t].order = order]
                /\ Goto(t, "ra_order_lock")
  /\ UNCHANGED <<m, invl, syncs>>

RaOrderLock(t) ==
  /\ pc[t] = "ra_order_lock"
  /\ LockShared(t)
  /\ Goto(t, "ra_fill")
  /\ UNCHANGED <<m, ra, rac, syncs>>

ra_alloc_folio(t) ==
  LET r == rac[t]
      index == r.index + r.nr
      nr == NextNr(r)
  IN /\ pc[t] = "ra_fill"
     /\ index <= r.limit
     /\ ~NoMemory(m) /\ ~HasConflict(m, index, nr)
     /\ m' = filemap_add_folio(m, index, nr, index = RoundDown(r.mark, nr))
     /\ rac' = [rac EXCEPT ![t].nr = @ + nr]
     /\ UNCHANGED <<invl, pc, ra, syncs>>

(* The window is full, or a folio could not be added: start the I/O.  What *)
(* is left of the window goes to the page by page loop.                    *)
RaOrderRead(t, left) ==
  LET r == rac[t]
      index == r.index + r.nr
      Rest(g) == Ra(t).size + g.up - (index - r.start)
  IN /\ pc[t] = "ra_fill"
     /\ index <= r.limit => NoMemory(m) \/ HasConflict(m, index, NextNr(r))
     /\ \E g \in {readahead_expand(m, r)} :
          /\ Reads(t, g, left)
          /\ IF index <= r.limit /\ Rest(g) > 0
             THEN /\ rac' = [rac EXCEPT ![t] = [Behind(r, g, 0) EXCEPT
                                                  !.limit = Rest(g), !.mark = Ra(t).async + g.up]]
                  /\ Goto(t, "do_ra")
             ELSE /\ rac' = [rac EXCEPT ![t] = NoRac]
                  /\ Goto(t, r.after)
     /\ UnlockShared(t)
     /\ UNCHANGED syncs

-----------------------------------------------------------------------------
(* Where do_page_cache_ra returns to: the next chunk, or the caller.       *)
Return(t, r) ==
  IF r.force > 0
  THEN Goto(t, "force_ra") /\ rac' = [rac EXCEPT ![t] = r]
  ELSE Goto(t, r.after) /\ rac' = [rac EXCEPT ![t] = NoRac]

(* rac.limit pages are wanted, the last rac.mark of them asynchronously.   *)
do_page_cache_ra(t) ==
  LET r == rac[t]
      nr == IF r.limit > m.isize - 1 - r.index THEN m.isize - r.index ELSE r.limit
  IN /\ pc[t] = "do_ra"
     /\ IF r.index >= m.isize
        THEN Return(t, r)
        ELSE /\ Goto(t, "unbounded_lock")
             /\ rac' = [rac EXCEPT ![t].limit = r.index + nr - 1,
                                   ![t].mark = IF r.mark <= nr THEN r.index + nr - r.mark ELSE NoMark]
     /\ UNCHANGED <<m, invl, ra, syncs>>

UnboundedLock(t) ==
  /\ pc[t] = "unbounded_lock"
  /\ LockShared(t)
  /\ Goto(t, "unbounded")
  /\ UNCHANGED <<m, ra, rac, syncs>>

(* One page of page_cache_ra_unbounded: a page that is there already ends  *)
(* the batch, and so does the end of the window or of memory.              *)
UnboundedAdd(t) ==
  LET index == rac[t].index + rac[t].nr
  IN /\ pc[t] = "unbounded"
     /\ index <= rac[t].limit /\ ~Exists(m, index, 1) /\ ~NoMemory(m)
     /\ m' = filemap_add_folio(m, index, 1, index = rac[t].mark)
     /\ rac' = [rac EXCEPT ![t].nr = @ + 1]
     /\ UNCHANGED <<invl, pc, ra, syncs>>

UnboundedSkip(t, left) ==
  LET r == rac[t]
      index == r.index + r.nr
  IN /\ pc[t] = "unbounded"
     /\ index <= r.limit /\ Exists(m, index, 1)
     /\ \E g \in {readahead_expand(m, r)} :
          Reads(t, g, left) /\ rac' = [rac EXCEPT ![t] = Behind(r, g, 1)]
     /\ UNCHANGED <<invl, pc, syncs>>

UnboundedRead(t, left) ==
  LET r == rac[t]
      index == r.index + r.nr
  IN /\ pc[t] = "unbounded"
     /\ index > r.limit \/ (~Exists(m, index, 1) /\ NoMemory(m))
     /\ \E g \in {readahead_expand(m, r)} : Reads(t, g, left) /\ Return(t, Behind(r, g, 0))
     /\ UnlockShared(t)
     /\ UNCHANGED syncs

(* force_page_cache_ra: rac.force pages are left, a chunk at a time.       *)
force_page_cache_ra(t) ==
  LET this_chunk == Min2(Chunk, rac[t].force)
  IN /\ pc[t] = "force_ra"
     /\ Goto(t, "do_ra")
     /\ rac' = [rac EXCEPT ![t].limit = this_chunk, ![t].mark = 0, ![t].force = @ - this_chunk]
     /\ UNCHANGED <<m, invl, ra, syncs>>

ReadaheadStep(t) ==
  \/ page_cache_sync_ra(t)
  \/ page_cache_ra_order(t)
  \/ RaOrderLock(t)
  \/ ra_alloc_folio(t)
  \/ \E left \in Leaves(t) : RaOrderRead(t, left)
  \/ do_page_cache_ra(t)
  \/ UnboundedLock(t)
  \/ UnboundedAdd(t)
  \/ \E left \in Leaves(t) : UnboundedSkip(t, left)
  \/ \E left \in Leaves(t) : UnboundedRead(t, left)
  \/ force_page_cache_ra(t)
=============================================================================
