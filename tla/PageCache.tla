----------------------------- MODULE PageCache -----------------------------
(* The page cache of one file (mm/filemap.c): the array i_pages, the       *)
(* folios with their lock, their flags and their references, and the reads *)
(* under way.  The operations are functions on the record m, so that an    *)
(* action of a task can compose several of them.  A folio is a number, and *)
(* 0 is no folio; a folio nobody refers to is free.  The reference that    *)
(* i_pages holds counts once, whatever the size of the folio.              *)
EXTENDS Integers, Sequences, FiniteSets, FiniteSetsExt, Functions

CONSTANTS
  Index,    \* page indices, 0..n, beyond the end of every file and window
  Folio     \* folios, 1..n

VARIABLES
  m         \* [isize (in pages), memory (in folios), pages, folio, io, reads]

Unused == [index |-> 0, nr |-> 0, mapping |-> FALSE, locked |-> FALSE,
           uptodate |-> FALSE, readahead |-> FALSE, refs |-> 0]

EmptyCache(size, memory) ==
  [isize |-> size, memory |-> memory, pages |-> [p \in Index |-> 0], folio |-> [f \in Folio |-> Unused],
   io |-> {}, reads |-> [p \in Index |-> 0]]

Span(index, nr) == index .. (index + nr - 1)
PagesOf(c, f) == Span(c.folio[f].index, c.folio[f].nr)
Free(c) == { f \in Folio : f <= c.memory /\ c.folio[f].refs = 0 }
Cached(c) == { f \in Folio : c.folio[f].mapping }

Get(c, f) == [c EXCEPT !.folio[f].refs = @ + 1]

Put(c, f) ==
  [c EXCEPT !.folio[f] = IF @.refs = 1 THEN Unused ELSE [@ EXCEPT !.refs = @ - 1]]

(* A batch has no folio twice.                                             *)
PutAll(c, batch) ==
  [c EXCEPT !.folio = [f \in Folio |-> IF f \in Range(batch) THEN Put(c, f).folio[f] ELSE @[f]]]

Lock(c, f) == [c EXCEPT !.folio[f].locked = TRUE]

folio_unlock(c, f) == [c EXCEPT !.folio[f].locked = FALSE]

(* folio_end_read of every folio of a read, and what a mutant of it forgets. *)
EndReadStaysLocked(c, batch, success) ==
  [c EXCEPT !.io = @ \ {batch},
            !.folio = [f \in Folio |->
                         IF f \notin batch THEN @[f]
                         ELSE [@[f] EXCEPT !.locked = ~success, !.uptodate = success]]]

folio_end_read(c, batch, success) ==
  [c EXCEPT !.io = @ \ {batch},
            !.folio = [f \in Folio |->
                         IF f \notin batch THEN @[f]
                         ELSE [@[f] EXCEPT !.locked = FALSE, !.uptodate = success]]]

(* The filesystem sends a read of some locked folios to the disk.  How     *)
(* often a page is read (up to twice) is remembered for the properties.    *)
SubmitRead(c, batch) ==
  [c EXCEPT !.io = @ \union {batch},
            !.reads = [p \in Index |->
                         IF \E f \in batch : p \in PagesOf(c, f) THEN Min({2, @[p] + 1}) ELSE @[p]]]

(* __filemap_add_folio finds an entry in its range.                        *)
Exists(c, index, nr) == \E p \in Span(index, nr) : c.pages[p] # 0

ExistsAtStart(c, index, nr) == c.pages[index] # 0

HasConflict(c, index, nr) == Exists(c, index, nr)

NoMemory(c) == Free(c) = {}

NewFolio(c) == Min(Free(c))

(* A folio new from filemap_alloc_folio is locked and put into i_pages.    *)
Added(index, nr, mark) ==
  [index |-> index, nr |-> nr, mapping |-> TRUE, locked |-> TRUE, uptodate |-> FALSE,
   readahead |-> mark, refs |-> 2]

filemap_add_folio(c, index, nr, mark) ==
  LET f == NewFolio(c)
  IN [c EXCEPT !.folio[f] = Added(index, nr, mark),
               !.pages = [p \in Index |-> IF p \in Span(index, nr) THEN f ELSE @[p]]]

(* One page at a time for each page of S.                                  *)
AddPages(c, S) ==
  LET free == Free(c)
      At(p) == CHOOSE f \in free : Cardinality({ g \in free : g <= f }) = Cardinality({ q \in S : q <= p })
      new == { At(p) : p \in S }
  IN [c EXCEPT !.folio = [f \in Folio |->
                            IF f \in new THEN Added(CHOOSE p \in S : At(p) = f, 1, FALSE) ELSE @[f]],
               !.pages = [p \in Index |-> IF p \in S THEN At(p) ELSE @[p]]]

page_cache_delete(c, S) ==
  [c EXCEPT !.folio = [f \in Folio |-> IF f \in S THEN [@[f] EXCEPT !.mapping = FALSE] ELSE @[f]],
            !.pages = [p \in Index |-> IF @[p] \in S THEN 0 ELSE @[p]]]

(* filemap_free_folio puts the reference of i_pages at the end.            *)
filemap_remove_folio(c, f) == Put(page_cache_delete(c, {f}), f)

page_cache_delete_batch(c, batch) == page_cache_delete(c, batch)

delete_from_page_cache_batch(c, batch) ==
  FoldSet(LAMBDA f, d : Put(d, f), page_cache_delete_batch(c, batch), batch)

(* __filemap_get_folio with FGP_CREAT | FGP_FOR_MMAP: a folio it adds      *)
(* comes back unlocked, and not uptodate.                                  *)
filemap_get_folio_mpol(c, index) ==
  IF c.pages[index] # 0 THEN Get(c, c.pages[index])
  ELSE folio_unlock(filemap_add_folio(c, index, 1, FALSE), NewFolio(c))

(* The first gap at or after index, and the last one at or before it.      *)
page_cache_next_miss(c, index, max) ==
  Min({ p \in Span(index, max) : c.pages[p] = 0 } \union {index + max})

page_cache_prev_miss(c, index, max) ==
  LET gaps == { p \in (index - max + 1) .. index : p = -1 \/ (p >= 0 /\ c.pages[p] = 0) }
  IN IF gaps = {} THEN index - max + 1 ELSE Max(gaps)

(* filemap_get_read_batch: the folios that follow each other from index,   *)
(* up to the first that is not uptodate or carries the readahead mark.     *)
StopsAtMark(folio) == folio.readahead

Stops(folio) == ~folio.uptodate \/ folio.readahead

ReadBatch(c, index, last) ==
  LET Go[p \in Index] ==
        LET f == c.pages[p]
        IN IF p > last \/ f = 0 THEN <<>>
           ELSE IF Stops(c.folio[f]) \/ c.folio[f].index + c.folio[f].nr \notin Index THEN <<f>>
           ELSE <<f>> \o Go[c.folio[f].index + c.folio[f].nr]
  IN Go[index]

GetAll(c, batch) ==
  [c EXCEPT !.folio = [f \in Folio |-> IF f \in Range(batch) THEN Get(c, f).folio[f] ELSE @[f]]]

LastFolio(batch) == batch[Len(batch)]
=============================================================================
