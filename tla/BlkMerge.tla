------------------------------ MODULE BlkMerge ------------------------------
(***************************************************************************)
(* Merging of bios and requests, block/blk-merge.c of readaround-split, as *)
(* operators on requests.  A bio of n sectors has n segments of one sector *)
(* here, each on a page of its own, so that there are no gaps; the other   *)
(* attributes that must agree (hints, priority, cgroup, keys) are equal.   *)
(***************************************************************************)
EXTENDS BioChain

CONSTANTS
  max_sectors, max_segments, chunk_sectors,
  max_discard_sectors, max_discard_segments

(* struct request; `joined' remembers that discards joined it that nobody  *)
(* held against the limits.                                                *)
NewRequest(b) ==
  [bios |-> <<b>>, op |-> bio[b].op, sector |-> bio[b].sector, len |-> bio[b].size,
   segs |-> IF bio[b].op = "discard" THEN 1 ELSE bio[b].size,
   nomerge |-> bio[b].nomerge, failfast |-> bio_failfast(b), mixed |-> FALSE, joined |-> FALSE]

BoundaryLeft(sector) ==
  IF chunk_sectors = 0 THEN max_sectors ELSE chunk_sectors - (sector % chunk_sectors)

(* Mutant of blk_rq_get_max_sectors: chunks are not respected.             *)
MaxSectorsAnyChunk(rq, sector) == IF rq.op = "discard" THEN max_discard_sectors ELSE max_sectors
blk_rq_get_max_sectors(rq, sector) ==
  IF rq.op = "discard" THEN max_discard_sectors ELSE Min({max_sectors, BoundaryLeft(sector)})

blk_discard_mergable(rq) == rq.op = "discard" /\ max_discard_segments > 1

(* Mutant of blk_rq_merge_ok: the flags of the request are not looked at.  *)
MergeOkAnyRequest(rq, b) == ~bio[b].nomerge /\ rq.op = bio[b].op
blk_rq_merge_ok(rq, b) == ~rq.nomerge /\ ~bio[b].nomerge /\ rq.op = bio[b].op

blk_try_merge(rq, b) ==
  CASE blk_discard_mergable(rq) -> "discard"
    [] ~blk_discard_mergable(rq) /\ rq.sector + rq.len = bio[b].sector -> "back"
    [] ~blk_discard_mergable(rq) /\ bio[b].sector + bio[b].size = rq.sector -> "front"
    [] OTHER -> "none"

(* blk_attempt_bio_merge: which merge of b into rq is attempted.           *)
Attempt(rq, b) == IF blk_rq_merge_ok(rq, b) THEN blk_try_merge(rq, b) ELSE "none"

(* ll_back_merge_fn, ll_front_merge_fn, ll_new_hw_segment and the tests of *)
(* bio_attempt_discard_merge.                                              *)
MergeAllowed(rq, b, how) ==
  LET start == IF how = "front" THEN bio[b].sector ELSE rq.sector
  IN  /\ rq.len + bio[b].size <= blk_rq_get_max_sectors(rq, start)
      /\ CASE how = "discard" -> rq.segs < max_discard_segments
           [] how # "discard" /\ rq.op = "discard" -> TRUE
           [] OTHER -> rq.segs + bio[b].size <= max_segments

(* A merge that is not allowed closes the request to others.               *)
req_set_nomerge(rq) == [rq EXCEPT !.nomerge = TRUE]

-----------------------------------------------------------------------------
(* Failfast: a request whose bios disagree is "mixed", follows its first   *)
(* bio, and the bios carry their own attribute (blk_rq_set_mixed_merge,    *)
(* blk_update_mixed_merge).  Discards do not look at it.                   *)

BecomesMixed(rq, b, how) == rq.mixed \/ (how # "discard" /\ rq.failfast # bio_failfast(b))

SetMixed(bs, rq) ==
  [i \in BioIds |-> IF i \in Range(rq.bios) /\ ~rq.mixed
                    THEN [bs[i] EXCEPT !.failfast = @ \/ rq.failfast] ELSE bs[i]]

BiosAfterMerge(rq, b, how) ==
  IF ~BecomesMixed(rq, b, how) \/ how = "discard" THEN bio
  ELSE [SetMixed(bio, rq) EXCEPT ![b].failfast = bio_failfast(b)]

(* bio_attempt_back_merge, bio_attempt_front_merge,                        *)
(* bio_attempt_discard_merge                                               *)
MergedBio(rq, b, how) ==
  [rq EXCEPT
     !.bios = IF how = "front" THEN <<b>> \o @ ELSE Append(@, b),
     !.sector = IF how = "front" THEN bio[b].sector ELSE @,
     !.len = @ + bio[b].size,
     !.segs = CASE how = "discard" -> @ + 1
                [] how # "discard" /\ rq.op = "discard" -> @
                [] OTHER -> @ + bio[b].size,
     !.mixed = BecomesMixed(rq, b, how),
     !.failfast = IF how = "front" /\ BecomesMixed(rq, b, how)
                  THEN BiosAfterMerge(rq, b, how)[b].failfast ELSE @]

-----------------------------------------------------------------------------
(* attempt_merge: request next joins rq, a discard wherever it is.         *)

RequestsMerge(rq, next) ==
  /\ ~rq.nomerge /\ ~next.nomerge /\ rq.op = next.op
  /\ blk_discard_mergable(rq) \/ rq.sector + rq.len = next.sector

blk_rq_get_max_segments(rq) == IF rq.op = "discard" THEN max_discard_segments ELSE max_segments

(* req_attempt_discard_merge looks at the ranges of rq and at the first    *)
(* bio of next only, ll_merge_requests_fn at all of both.                  *)
RequestsFit(rq, next) ==
  IF blk_discard_mergable(rq)
  THEN /\ rq.segs < max_discard_segments
       /\ rq.len + bio[next.bios[1]].size <= blk_rq_get_max_sectors(rq, rq.sector)
  ELSE /\ rq.len + next.len <= blk_rq_get_max_sectors(rq, rq.sector)
       /\ rq.segs + next.segs <= blk_rq_get_max_segments(rq)

Joins(rq, next) == RequestsMerge(rq, next) /\ RequestsFit(rq, next)

(* A request that next did not fit: a discard is closed to others.         *)
NotJoined(rq) == IF blk_discard_mergable(rq) THEN req_set_nomerge(rq) ELSE rq

MixedRequests(rq, next) == rq.mixed \/ next.mixed \/ rq.failfast # next.failfast

(* The bios of next that req_attempt_discard_merge did not look at.        *)
JoinedUnseen(rq, next) == next.joined \/ (blk_discard_mergable(rq) /\ Len(next.bios) > 1)

(* Mutant of MergedRequest: one range is added, as for a bio.              *)
MergedRequestOneRange(rq, next) ==
  [rq EXCEPT !.bios = @ \o next.bios, !.len = @ + next.len,
             !.segs = @ + (IF rq.op = "discard" THEN 1 ELSE next.segs),
             !.mixed = MixedRequests(rq, next), !.joined = @ \/ JoinedUnseen(rq, next)]
MergedRequest(rq, next) ==
  [rq EXCEPT !.bios = @ \o next.bios, !.len = @ + next.len, !.segs = @ + next.segs,
             !.mixed = MixedRequests(rq, next), !.joined = @ \/ JoinedUnseen(rq, next)]

BiosAfterRequestMerge(bs, rq, next) ==
  IF MixedRequests(rq, next) THEN SetMixed(SetMixed(bs, rq), next) ELSE bs
=============================================================================
