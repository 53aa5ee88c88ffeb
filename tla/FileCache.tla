----------------------------- MODULE FileCache -----------------------------
(* The page cache of a file as a whole: tasks that read it, fault on it    *)
(* and cut pieces out of it, the disk that completes reads, and memory     *)
(* reclaim.  What each task does, and the file and the device it does it   *)
(* to, is a scenario chosen at the start.                                  *)
EXTENDS PageFault

CONSTANTS Scenarios

ASSUME ScenariosAssumption == \A s \in Scenarios : DOMAIN s.jobs = Task

VARIABLES env    \* what reclaim and invalidation may still do: [reclaims, clears]

vars == <<m, sc, invl, pc, ra, rac, syncs, job, l, killed, ptes, env>>

Init ==
  /\ sc \in Scenarios
  /\ m = EmptyCache(sc.pages, sc.memory)
  /\ invl = [writer |-> Nobody, readers |-> {}]
  /\ pc = [t \in Task |-> "idle"]
  /\ ra = [a \in { sc.file[t] : t \in Task } |-> file_ra_state_init(sc.raPages)]
  /\ rac = [t \in Task |-> NoRac]
  /\ syncs = [t \in Task |-> 0]
  /\ job = sc.jobs
  /\ l = [t \in Task |-> NoLocals]
  /\ killed = {}
  /\ ptes = [p \in Index |-> 0]
  /\ env = [reclaims |-> sc.reclaims, clears |-> sc.clears]

-----------------------------------------------------------------------------
(* Truncation and hole punching (mm/truncate.c), under the invalidate      *)
(* lock: unmap the range, remove the folios in it that can be locked at    *)
(* once, then wait for each of the others.  Op.size is the new size.       *)
MappedIn(S) == { p \in S : ptes[p] # 0 }

Unmapped(c, S) == FoldSet(LAMBDA p, d : Put(d, ptes[p]), c, MappedIn(S))

Unmap(S) == ptes' = [p \in Index |-> IF p \in S THEN 0 ELSE ptes[p]]

AllPtlFree == \A t \in Task : ~l[t].ptl

HeldTruncate == <<ra, rac, syncs, killed, env>>

BeginTruncate(t) ==
  /\ pc[t] = "idle" /\ job[t] # <<>> /\ Op(t).op = "truncate"
  /\ invl = [writer |-> Nobody, readers |-> {}]
  /\ invl' = [invl EXCEPT !.writer = t]
  /\ m' = [m EXCEPT !.isize = Op(t).size]
  /\ Goto(t, "trunc_unmap")
  /\ UNCHANGED <<job, l, ptes, HeldTruncate>>

unmap_mapping_range(t) ==
  LET S == Op(t).lo .. Op(t).hi
  IN /\ pc[t] = "trunc_unmap" /\ AllPtlFree
     /\ m' = Unmapped(m, S) /\ Unmap(S)
     /\ Goto(t, "trunc_batch")
     /\ UNCHANGED <<invl, job, l, HeldTruncate>>

(* Folios that lie in the range as a whole.                                *)
Inside(lo, hi) ==
  { f \in Cached(m) : m.folio[f].index >= lo /\ m.folio[f].index + m.folio[f].nr - 1 <= hi }

find_lock_entries(lo, hi) == { f \in Inside(lo, hi) : ~m.folio[f].locked }

(* truncate_cleanup_folio unmaps a folio that was mapped again meanwhile.  *)
TruncateBatch(t) ==
  LET batch == find_lock_entries(Op(t).lo, Op(t).hi)
      S == UNION { PagesOf(m, f) : f \in batch }
  IN /\ pc[t] = "trunc_batch" /\ AllPtlFree
     /\ m' = delete_from_page_cache_batch(Unmapped(m, S), batch) /\ Unmap(S)
     /\ Goto(t, "trunc_find")
     /\ UNCHANGED <<invl, job, l, HeldTruncate>>

find_get_entries(t) ==
  LET left == Inside(Op(t).lo, Op(t).hi)
      f == CHOOSE g \in left : \A h \in left : m.folio[g].index <= m.folio[h].index
  IN /\ pc[t] = "trunc_find"
     /\ IF left = {}
        THEN /\ invl' = [invl EXCEPT !.writer = Nobody]
             /\ Leave(t)
             /\ UNCHANGED m
        ELSE /\ m' = Get(m, f)
             /\ Set(t, [l[t] EXCEPT !.f = f])
             /\ Goto(t, "trunc_lock")
             /\ UNCHANGED <<invl, job>>
     /\ UNCHANGED <<ptes, HeldTruncate>>

TruncateFolio(t) ==
  LET f == l[t].f
      S == PagesOf(m, f)
  IN /\ pc[t] = "trunc_lock" /\ ~m.folio[f].locked /\ AllPtlFree
     /\ m' = Put(filemap_remove_folio(Unmapped(m, S), f), f) /\ Unmap(S)
     /\ Set(t, [l[t] EXCEPT !.f = 0])
     /\ Goto(t, "trunc_find")
     /\ UNCHANGED <<invl, job, HeldTruncate>>

-----------------------------------------------------------------------------
taskVars == <<invl, pc, ra, rac, syncs, job, l, killed, ptes>>

(* The disk completes a read; folio_end_read unlocks the folios.           *)
ReadCompletes ==
  /\ \E batch \in m.io, success \in (IF sc.faulty THEN BOOLEAN ELSE {TRUE}) :
       m' = folio_end_read(m, batch, success)
  /\ UNCHANGED <<sc, taskVars, env>>

(* Reclaim removes a folio only i_pages refers to (external, mm/vmscan.c). *)
Reclaim ==
  /\ env.reclaims > 0
  /\ \E f \in Cached(m) :
       /\ ~m.folio[f].locked /\ m.folio[f].refs = 1
       /\ m' = filemap_remove_folio(m, f)
  /\ env' = [env EXCEPT !.reclaims = @ - 1]
  /\ UNCHANGED <<sc, taskVars>>

(* A filesystem takes the uptodate flag back under the folio lock.         *)
ClearUptodate ==
  /\ env.clears > 0
  /\ \E f \in Cached(m) :
       /\ ~m.folio[f].locked /\ m.folio[f].uptodate
       /\ m' = [m EXCEPT !.folio[f].uptodate = FALSE]
  /\ env' = [env EXCEPT !.clears = @ - 1]
  /\ UNCHANGED <<sc, taskVars>>

Kill(t) ==
  /\ t \in sc.killable \ killed /\ pc[t] # "idle"
  /\ killed' = killed \union {t}
  /\ UNCHANGED <<m, sc, invl, pc, ra, rac, syncs, job, l, ptes, env>>

Read(t) == (ReadStep(t) /\ UNCHANGED ptes)

Readahead(t) ==
  /\ \/ ReadaheadStep(t)
     \/ page_cache_async_ra(t, IF l[t].f # 0 THEN l[t].f ELSE LastFolio(l[t].batch))
  /\ UNCHANGED <<job, l, killed, ptes>>

Truncate(t) ==
  BeginTruncate(t) \/ unmap_mapping_range(t) \/ TruncateBatch(t) \/ find_get_entries(t) \/ TruncateFolio(t)

Step(t) ==
  \/ (Read(t) /\ UNCHANGED <<sc, env>>)
  \/ (Readahead(t) /\ UNCHANGED <<sc, env>>)
  \/ (FaultStep(t) /\ UNCHANGED <<sc, env>>)
  \/ (Truncate(t) /\ UNCHANGED sc)

Finished == \A t \in Task : pc[t] = "idle" /\ job[t] = <<>>

Done == Finished /\ m.io = {} /\ UNCHANGED vars

Next ==
  \/ \E t \in Task : Step(t) \/ Kill(t)
  \/ ReadCompletes
  \/ Reclaim
  \/ ClearUptodate
  \/ Done

Spec == Init /\ [][Next]_vars /\ \A t \in Task : WF_vars(Step(t)) /\ WF_vars(ReadCompletes)

-----------------------------------------------------------------------------
CountOf(seq, f) == Cardinality({ i \in DOMAIN seq : seq[i] = f })

(* The folios between filemap_add_folio and read_pages.                    *)
InRactl(t) == { m.pages[p] : p \in Span(rac[t].index, rac[t].nr) }

Holds(t, f) ==
  CountOf(l[t].batch, f)
    + (IF l[t].f = f /\ pc[t] # "put_wait" THEN 1 ELSE 0)
    + (IF f \in InRactl(t) THEN 1 ELSE 0)

SumOver(S, Op1(_)) == FoldSet(LAMBDA x, n : n + Op1(x), 0, S)

(* Every reference to a folio is accounted for: that of i_pages, one for   *)
(* each pte, and those of the tasks, through every retry, error and early  *)
(* return; so no folio is freed under a user, and none is leaked.          *)
RefsExact ==
  \A f \in Folio :
    m.folio[f].refs = (IF m.folio[f].mapping THEN 1 ELSE 0)
                        + Cardinality({ p \in Index : ptes[p] = f })
                        + SumOver(Task, LAMBDA t : Holds(t, f))

(* i_pages and the folios agree: a cached folio has all of its pages, no   *)
(* page has two folios, and a folio that was removed is found nowhere.     *)
CacheConsistent ==
  \A f \in Folio :
    { p \in Index : m.pages[p] = f } = (IF m.folio[f].mapping THEN PagesOf(m, f) ELSE {})

HasLocked(t) ==
  InRactl(t) \union
    (IF pc[t] \in {"recheck_folio", "map_folio", "have_folio", "recheck_size"}
        \/ (pc[t] = "fault_ret" /\ l[t].ret = "locked")
     THEN {l[t].f} ELSE {})

(* A locked folio has exactly one owner: a read under way, whose           *)
(* completion unlocks it, or a task that is about to read, map or unlock   *)
(* it; nobody else's read or unlock can come in between.                   *)
LocksOwned ==
  \A f \in Folio :
    Cardinality({ t \in Task : f \in HasLocked(t) }) + Cardinality({ b \in m.io : f \in b })
      = (IF m.folio[f].locked THEN 1 ELSE 0)

(* A pte maps the folio that is in the cache for its page, and one that    *)
(* was read: a fault that slept while the page was truncated, punched out  *)
(* or replaced does not map what it found before it slept.                 *)
MappedIsCached ==
  \A p \in Index :
    ptes[p] # 0 => /\ m.pages[p] = ptes[p]
                   /\ sc.clears = 0 => m.folio[ptes[p]].uptodate

(* When a read copies, its batch is the pages that follow its position,    *)
(* in order, none of them freed or reused since the lookup.                *)
CopiesItsPages ==
  \A t \in Task :
    pc[t] = "copy" =>
      LET batch == l[t].batch
          First(i) == m.folio[batch[i]].index
          Next1(i) == First(i) + m.folio[batch[i]].nr
      IN /\ First(1) <= l[t].pos /\ l[t].pos < Next1(1)
         /\ \A i \in 1 .. (Len(batch) - 1) : First(i + 1) = Next1(i)
         /\ sc.clears = 0 => \A i \in DOMAIN batch : m.folio[batch[i]].uptodate

(* The contract of filemap_fault: without VM_FAULT_RETRY the mmap_lock has *)
(* not been released, with it (unless the fault was not to wait) it has;   *)
(* and the invalidate lock is never taken out of the call.                 *)
FaultContract ==
  \A t \in Task :
    pc[t] = "fault_ret" =>
      /\ l[t].ret # "retry" => l[t].mm
      /\ l[t].ret = "retry" /\ ~Flag(t, "nowait") => ~l[t].mm
      /\ t \notin invl.readers

(* The longest window readahead may give a reader whose reads have the     *)
(* length of the first.                                                    *)
LongestWindow(t) == ractl_max_pages(sc.raPages, sc.jobs[t][1].len)

(* A lone sequential reader of a healthy file reads no page twice, and     *)
(* misses once: readahead stays in front of it to the end of the file      *)
(* whatever the sizes of its reads, of the window and of the folios, if    *)
(* the window is of two pages or more.  A window of one page has no part   *)
(* to be read ahead (half of it is zero pages): then no folio ever carries *)
(* the mark that would start the next one.                                 *)
StreamReadAhead ==
  sc.stream =>
    /\ \A p \in Index : m.reads[p] <= 1
    /\ \A t \in { u \in Task : sc.jobs[u] # <<>> } :
         IF LongestWindow(t) > 1 THEN syncs[t] <= 1 ELSE \A f \in Folio : ~m.folio[f].readahead

(* Every call returns.                                                     *)
EveryCallReturns == <>[]Finished
=============================================================================
