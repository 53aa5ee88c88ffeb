------------------------------ MODULE BioSplit ------------------------------
(***************************************************************************)
(* Splitting one bio to the limits of its queue, block/blk-merge.c of      *)
(* readaround-split: __bio_split_to_limits cuts a piece off the front, the *)
(* rest is submitted again and split again, until the rest fits.  With the *)
(* read-around hook of get_max_io_size.                                    *)
(*                                                                         *)
(* Sizes are counted in sectors; a bvec that is not a whole number of      *)
(* sectors is not considered.  Masks become remainders: a limit x_mask is  *)
(* given as x_mask + 1, and 1 stands for no restriction.                   *)
(***************************************************************************)
EXTENDS Integers, Sequences, FiniteSetsExt

CONSTANTS
  Limits,    \* struct queue_limits of the devices considered
  Bios,      \* [op, flags, sector, size, vecs] of the bios considered
  PageSize,
  BIO_MAX_SECTORS,
  RASPLIT_TARGET_SECTORS,
  rasplit_enabled

ASSUME SizesAssumption ==
  PageSize \in Nat \ {0} /\ BIO_MAX_SECTORS \in Nat /\ RASPLIT_TARGET_SECTORS \in Nat

(* What blk_validate_limits guarantees: block sizes divide each other and  *)
(* the other limits. The granularity is at least 1 (__bio_split_discard    *)
(* sees to it); a zone write granularity is a power of two, as round_down  *)
(* needs, and not below a block, or 0 for none. A page and the segment     *)
(* boundary are powers of two.                                             *)
QueueLimits ==
  [lbs : Nat \ {0}, pbs : Nat \ {0}, max_sectors : Nat, chunk : Nat,
   atomic_max : Nat, atomic_boundary : Nat, max_segments : Nat, max_segment_size : Nat \ {0},
   seg_boundary : Nat \ {0}, virt_boundary : Nat \ {0}, dma : Nat \ {0},
   zone_write_granularity : Nat, max_zone_append : Nat, can_poll : BOOLEAN,
   max_write_zeroes : Nat, max_discard : Nat, max_secure_erase : Nat,
   granularity : Nat \ {0}, discard_alignment : Nat]
ASSUME LimitsAssumption ==
  \A l \in Limits :
    /\ l \in QueueLimits
    /\ l.pbs % l.lbs = 0 /\ l.max_sectors >= l.lbs /\ l.chunk % l.lbs = 0
    /\ l.granularity % l.lbs = 0 /\ l.discard_alignment % l.lbs = 0
    /\ l.zone_write_granularity % l.lbs = 0
    /\ l.seg_boundary % PageSize = 0 \/ PageSize % l.seg_boundary = 0

VARIABLES
  lim,
  op, flags,               \* of the bio
  sector, size, vecs,      \* bi_iter: what is left of the bio
  pc,
  max_bytes, k,            \* bio_split_io_at: its argument, index of the bvec
  nsegs, bytes,
  len, total_len,          \* bvec_split_segs
  pieces,                  \* what was split off, and at the end the rest
  status,                  \* bi_status
  orig                     \* the bio as it was submitted

bioVars == <<op, flags, orig>>
opVars == <<op, orig>>
iterVars == <<sector, size, vecs>>
scanVars == <<max_bytes, k, nsegs, bytes>>
segVars == <<len, total_len>>
vars == <<lim, bioVars, iterVars, pc, scanVars, segVars, pieces, status>>

Init ==
  /\ lim \in Limits
  /\ \E b \in Bios :
       /\ op = b.op /\ flags = b.flags
       /\ sector = b.sector /\ size = b.size /\ vecs = b.vecs
       /\ orig = b
  /\ pc = "submit"
  /\ max_bytes = 0 /\ k = 1 /\ nsegs = 0 /\ bytes = 0
  /\ len = 0 /\ total_len = 0
  /\ pieces = <<>>
  /\ status = "ok"

(* The operations that carry data and are split by bio_split_io_at.        *)
Scans == {"read", "write", "zone_append"}

-----------------------------------------------------------------------------
(* get_max_io_size *)

RoundDown(n, m) == n - (n % m)

blk_boundary_sectors ==
  IF "atomic" \in flags /\ lim.atomic_boundary # 0 THEN lim.atomic_boundary ELSE lim.chunk

OpMaxSectors ==
  CASE op = "write_zeroes" -> lim.max_write_zeroes
    [] op # "write_zeroes" /\ "atomic" \in flags -> lim.atomic_max
    [] OTHER -> lim.max_sectors

(* Mutant of MaxSectors: boundaries are crossed.                           *)
MaxSectorsNoBoundary == OpMaxSectors
(* With a boundary, no further than the next multiple of it.               *)
MaxSectors ==
  IF blk_boundary_sectors = 0 THEN OpMaxSectors
  ELSE Min({OpMaxSectors, blk_boundary_sectors - (sector % blk_boundary_sectors)})

(* Mutant of RasplitHook: only larger bios are cut.                        *)
RasplitHookLarger ==
  /\ rasplit_enabled
  /\ op = "read" /\ "rahead" \in flags
  /\ size > RASPLIT_TARGET_SECTORS
RasplitHook ==
  /\ rasplit_enabled
  /\ op = "read" /\ "rahead" \in flags
  /\ size = RASPLIT_TARGET_SECTORS

get_max_io_size ==
  LET start == sector % lim.pbs
      end == RoundDown(start + MaxSectors, lim.pbs)
  IN  CASE RasplitHook -> RASPLIT_TARGET_SECTORS \div 2
        [] ~RasplitHook /\ end > start -> end - start
        [] OTHER -> RoundDown(MaxSectors, lim.lbs)

-----------------------------------------------------------------------------
(* What becomes of the bio after a decision.                               *)

Fail(error) ==
  /\ status' = error
  /\ pc' = "done"
  /\ UNCHANGED <<lim, bioVars, iterVars, scanVars, segVars, pieces>>

(* The vectors of the first n sectors of vs, and the others (bio_advance). *)
Starts(vs) ==
  LET start[i \in 1 .. Len(vs) + 1] == IF i = 1 THEN 0 ELSE start[i - 1] + vs[i - 1].len
  IN  start
StartOf(vs, i) == Starts(vs)[i]
VecsBefore(vs, n) ==
  [i \in 1 .. Max({0} \union {j \in DOMAIN vs : StartOf(vs, j) < n}) |->
     [vs[i] EXCEPT !.len = Min({vs[i].len, n - StartOf(vs, i)})]]
(* Mutant of VecsAfter: a bvec that was cut is not advanced inside.        *)
VecsAfterWhole(vs, n) ==
  LET first == Min({j \in DOMAIN vs : StartOf(vs, j) + vs[j].len > n} \union {Len(vs) + 1})
  IN  SubSeq(vs, first, Len(vs))
VecsAfter(vs, n) ==
  LET first == Min({j \in DOMAIN vs : StartOf(vs, j) + vs[j].len > n} \union {Len(vs) + 1})
      done == n - StartOf(vs, first)
  IN  [i \in 1 .. Len(vs) + 1 - first |->
         IF i = 1 THEN [vs[first] EXCEPT !.off = @ + done, !.len = @ - done]
                  ELSE vs[first + i - 1]]

(* The bios a task may submit: a bio with data has the size of its vectors *)
(* (bio_add_page keeps them in step), which begin in a page each, the      *)
(* others have none.                                                       *)
Vec == [page : Nat, off : Nat, len : Nat \ {0}]
ASSUME BiosAssumption ==
  \A b \in Bios :
    /\ b.sector \in Nat /\ b.size \in Nat /\ b.vecs \in Seq(Vec)
    /\ \A i \in DOMAIN b.vecs : b.vecs[i].page % PageSize = 0
    /\ IF b.op \in Scans THEN b.vecs # <<>> /\ b.size = StartOf(b.vecs, Len(b.vecs) + 1)
       ELSE b.vecs = <<>>

Piece(n, segs, fl) ==
  [sector |-> sector, size |-> n, segs |-> segs, vecs |-> VecsBefore(vecs, n), flags |-> fl,
   hooked |-> RasplitHook]

(* bio_submit_split with 0: the bio goes out as it is.                     *)
Whole(segs) ==
  /\ pieces' = Append(pieces, Piece(size, segs, flags))
  /\ sector' = sector + size /\ size' = 0 /\ vecs' = <<>>
  /\ pc' = "done"
  /\ UNCHANGED <<lim, bioVars, scanVars, segVars, status>>

(* bio_split: the front n sectors become a clone that will not be merged,  *)
(* the rest is submitted again or made to fail (should_fail_bio).  fl are  *)
(* the flags of both parts.                                                *)
bio_split(n, segs, fl) ==
  /\ pieces' = Append(pieces, Piece(n, segs, fl \union {"nomerge"}))
  /\ sector' = sector + n /\ size' = size - n /\ vecs' = VecsAfter(vecs, n)
  /\ flags' = fl
  /\ \/ pc' = "submit" /\ UNCHANGED status
     \/ pc' = "done" /\ status' = "EIO"
  /\ UNCHANGED <<lim, opVars, scanVars, segVars>>

(* bio_submit_split.  bio_split warns of a cut that is not inside the bio, *)
(* and may find no memory for the clone.                                   *)
bio_submit_split(n, segs, fl) ==
  IF n = 0 THEN Whole(segs)
  ELSE \/ n < size /\ bio_split(n, segs, fl)
       \/ Fail(IF n >= size THEN "warned" ELSE "ENOMEM")

-----------------------------------------------------------------------------
(* blk_mq_submit_bio, before it splits: what is not whole blocks, and      *)
(* polling where there are no poll queues, is refused.                     *)
bio_unaligned == size % lim.lbs # 0 \/ sector % lim.lbs # 0
PollRefused == "polled" \in flags /\ ~lim.can_poll

SubmitRefused ==
  /\ pc = "submit"
  /\ \/ bio_unaligned /\ Fail("unaligned")
     \/ ~bio_unaligned /\ PollRefused /\ Fail("EOPNOTSUPP")

SplitToLimits(ops) == pc = "submit" /\ ~bio_unaligned /\ ~PollRefused /\ op \in ops

-----------------------------------------------------------------------------
(* bio_split_io_at for reads, writes and zone appends: one bvec per step,  *)
(* and in bvec_split_segs one segment per step.                            *)

bv == vecs[k]

ScanBegin ==
  /\ SplitToLimits(Scans)
  /\ max_bytes' = IF op = "zone_append" THEN lim.max_zone_append ELSE get_max_io_size
  /\ k' = 1 /\ nsegs' = 0 /\ bytes' = 0
  /\ pc' = "vec"
  /\ UNCHANGED <<lim, bioVars, iterVars, segVars, pieces, status>>

(* A bvec not aligned for DMA is refused.  No bio is encrypted, so that    *)
(* the masks are those of the device.                                      *)
VecAligned == bv.off % lim.dma = 0 /\ bv.len % lim.dma = 0

VecMisaligned ==
  /\ pc = "vec" /\ k <= Len(vecs) /\ ~VecAligned
  /\ Fail("EINVAL")

(* bvec_gap_to_prev: a device without gap support wants every inner end of *)
(* a bvec on the virt boundary.                                            *)
GapBetween(u, v) == v.off % lim.virt_boundary # 0 \/ (u.off + u.len) % lim.virt_boundary # 0

GapBefore == k > 1 /\ GapBetween(vecs[k - 1], bv)

VecGap ==
  /\ pc = "vec" /\ k <= Len(vecs) /\ VecAligned
  /\ GapBefore
  /\ pc' = "cut"
  /\ UNCHANGED <<lim, bioVars, iterVars, scanVars, segVars, pieces, status>>

max_fast_segment_size == Min({PageSize, lim.seg_boundary, lim.max_segment_size})

(* Mutant of FitsFast: the number of segments is not compared.             *)
FitsFastAnySegs ==
  /\ bytes + bv.len <= max_bytes
  /\ bv.off + bv.len <= max_fast_segment_size
FitsFast ==
  /\ nsegs < lim.max_segments
  /\ bytes + bv.len <= max_bytes
  /\ bv.off + bv.len <= max_fast_segment_size

VecFast ==
  /\ pc = "vec" /\ k <= Len(vecs) /\ VecAligned /\ ~GapBefore
  /\ FitsFast
  /\ nsegs' = nsegs + 1 /\ bytes' = bytes + bv.len /\ k' = k + 1
  /\ UNCHANGED <<lim, bioVars, iterVars, pc, max_bytes, segVars, pieces, status>>

VecSlow ==
  /\ pc = "vec" /\ k <= Len(vecs) /\ VecAligned /\ ~GapBefore
  /\ ~FitsFast
  /\ len' = Min({bv.len, max_bytes - bytes}) /\ total_len' = 0
  /\ pc' = "segs"
  /\ UNCHANGED <<lim, bioVars, iterVars, scanVars, pieces, status>>

(* get_max_segment_size: up to the segment boundary and the segment size.  *)
SegSize(phys, n) ==
  Min({n, lim.seg_boundary - (phys % lim.seg_boundary), lim.max_segment_size})

SegLoop == len > 0 /\ nsegs < lim.max_segments

(* Mutant of SegNext: the loop ends after one segment.                     *)
SegNextOnce ==
  /\ pc = "segs" /\ SegLoop
  /\ LET s == SegSize(bv.page + bv.off + total_len, len)
     IN  nsegs' = nsegs + 1 /\ total_len' = total_len + s /\ len' = len - s
  /\ pc' = "segs_done"
  /\ UNCHANGED <<lim, bioVars, iterVars, max_bytes, k, bytes, pieces, status>>
SegNext ==
  /\ pc = "segs" /\ SegLoop
  /\ LET s == SegSize(bv.page + bv.off + total_len, len)
     IN  /\ nsegs' = nsegs + 1
         /\ total_len' = total_len + s /\ len' = len - s
         /\ pc' = IF (bv.off + total_len + s) % lim.virt_boundary # 0 THEN "segs_done" ELSE "segs"
  /\ UNCHANGED <<lim, bioVars, iterVars, max_bytes, k, bytes, pieces, status>>

(* The bvec is counted, in full or up to where the limits are reached.     *)
SegsDone ==
  /\ pc = "segs_done" \/ (pc = "segs" /\ ~SegLoop)
  /\ bytes' = bytes + total_len
  /\ IF len > 0 \/ bv.len > max_bytes - bytes
     THEN pc' = "cut" /\ UNCHANGED k
     ELSE pc' = "vec" /\ k' = k + 1
  /\ UNCHANGED <<lim, bioVars, iterVars, max_bytes, nsegs, segVars, pieces, status>>

AllFits ==
  /\ pc = "vec" /\ k > Len(vecs)
  /\ Whole(nsegs)

bio_split_alignment ==
  IF op # "read" /\ lim.zone_write_granularity # 0 THEN lim.zone_write_granularity ELSE lim.lbs

bio_clear_polled == flags \ {"polled"}

(* Mutant of CutPoint: the cut is not rounded down.                        *)
CutPointUnaligned == bytes
CutPoint == RoundDown(bytes, bio_split_alignment)

(* The bio must be cut: atomic writes and zone appends may not be, a bio   *)
(* that must not wait cannot, and a cut at 0 is none.                      *)
(* Mutant of CutError: a bio that must not wait is split.                  *)
CutErrorWaits ==
  IF "atomic" \in flags \/ CutPoint = 0 \/ op = "zone_append" THEN "EINVAL" ELSE "none"
CutError ==
  CASE "atomic" \in flags -> "EINVAL"
    [] "atomic" \notin flags /\ "nowait" \in flags -> "EAGAIN"
    [] flags \cap {"atomic", "nowait"} = {} /\ (CutPoint = 0 \/ op = "zone_append") -> "EINVAL"
    [] OTHER -> "none"

CutRefused == pc = "cut" /\ CutError # "none" /\ Fail(CutError)

CutTaken ==
  /\ pc = "cut" /\ CutError = "none"
  /\ bio_submit_split(CutPoint, nsegs, bio_clear_polled)

-----------------------------------------------------------------------------
(* bio_split_write_zeroes *)

(* Mutant of WriteZeroes: a bio within the limit is cut too.               *)
WriteZeroesNoCheck ==
  /\ SplitToLimits({"write_zeroes"})
  /\ bio_submit_split(get_max_io_size, 0, flags)
WriteZeroes ==
  /\ SplitToLimits({"write_zeroes"})
  /\ IF get_max_io_size = 0 \/ size <= get_max_io_size
     THEN Whole(0)
     ELSE bio_submit_split(get_max_io_size, 0, flags)

(* A completion handler clears the limit while the bio is being split.     *)
ClearWriteZeroes ==
  /\ op = "write_zeroes" /\ lim.max_write_zeroes # 0 /\ pc # "done"
  /\ lim' = [lim EXCEPT !.max_write_zeroes = 0]
  /\ UNCHANGED <<bioVars, iterVars, pc, scanVars, segVars, pieces, status>>

(* __bio_split_discard *)

MaxDiscard ==
  LET max == IF op = "secure_erase" THEN lim.max_secure_erase ELSE lim.max_discard
  IN  RoundDown(Min({max, RoundDown(BIO_MAX_SECTORS, lim.lbs)}), lim.granularity)

(* Mutant of DiscardCut: the cut is not moved to the granularity.          *)
DiscardCutAnywhere == MaxDiscard
DiscardCut ==
  LET tmp == (sector + MaxDiscard - (lim.discard_alignment % lim.granularity)) % lim.granularity
  IN  IF MaxDiscard > tmp THEN MaxDiscard - tmp ELSE MaxDiscard

Discard ==
  /\ SplitToLimits({"discard", "secure_erase"})
  /\ IF MaxDiscard = 0 \/ size <= MaxDiscard
     THEN Whole(1)
     ELSE bio_submit_split(DiscardCut, 1, flags)

-----------------------------------------------------------------------------
Done == pc = "done" /\ UNCHANGED vars

Step ==
  \/ ScanBegin \/ VecMisaligned \/ VecGap \/ VecFast \/ VecSlow \/ SegNext \/ SegsDone
  \/ AllFits \/ CutRefused \/ CutTaken \/ WriteZeroes \/ Discard \/ SubmitRefused

Next == Step \/ ClearWriteZeroes \/ Done

(* The task that submits the bio runs until the bio is dealt with.         *)
Spec == Init /\ [][Next]_vars /\ WF_vars(Step)

-----------------------------------------------------------------------------
(* The pieces sent and what is left are the bio that was submitted: each   *)
(* piece begins where the one before ends, in sectors and in memory        *)
(* (bio_split and bio_advance), and bio_split is never asked to cut outside *)
(* the bio (its WARN_ON_ONCE). A bio that cannot be split is sent as one   *)
(* piece or not at all: atomic and non-waiting ones, and zone appends.     *)
EndOf(i) == IF i = 0 THEN orig.sector ELSE pieces[i].sector + pieces[i].size
Unsplittable == orig.flags \cap {"atomic", "nowait"} # {} \/ op = "zone_append"
Conserved ==
  /\ \A i \in DOMAIN pieces :
       /\ pieces[i].sector = EndOf(i - 1)
       /\ pieces[i].vecs
            = VecsBefore(VecsAfter(orig.vecs, pieces[i].sector - orig.sector), pieces[i].size)
  /\ sector = EndOf(Len(pieces)) /\ sector + size = orig.sector + orig.size
  /\ vecs = VecsAfter(orig.vecs, sector - orig.sector)
  /\ status # "warned"
  /\ op \in Scans /\ Unsplittable => \A i \in DOMAIN pieces : pieces[i].size = orig.size

(* blk_recalc_rq_segments: the segments of a bvec, counted without limits. *)
SegsOf(v) ==
  LET count[done \in 0 .. v.len] ==
        IF done = v.len THEN 0
        ELSE LET s == SegSize(v.page + v.off + done, v.len - done)
             IN  1 + IF (v.off + done + s) % lim.virt_boundary # 0 THEN 0 ELSE count[done + s]
  IN  count[0]
blk_recalc_rq_segments(vs) ==
  LET upto[i \in 0 .. Len(vs)] == IF i = 0 THEN 0 ELSE upto[i - 1] + SegsOf(vs[i])
  IN  upto[Len(vs)]

(* What one request to the device may be.                                  *)
NoGaps(vs) == \A i \in 2 .. Len(vs) : ~GapBetween(vs[i - 1], vs[i])
WithinSectors(p) ==
  LET max == IF op = "zone_append" THEN lim.max_zone_append
             ELSE IF "atomic" \in flags THEN lim.atomic_max ELSE lim.max_sectors
      b == IF "atomic" \in flags /\ lim.atomic_boundary # 0 THEN lim.atomic_boundary ELSE lim.chunk
  IN  /\ p.size <= max
      /\ b = 0 \/ op = "zone_append" \/ p.sector \div b = (p.sector + p.size - 1) \div b
WithinSegments(p) == NoGaps(p.vecs) /\ blk_recalc_rq_segments(p.vecs) <= lim.max_segments

(* Every piece of a read or write is one the device takes. Unless the hook *)
(* cut it, it is not too long and crosses no boundary of the device; hooked *)
(* or not, its memory has no gaps and not more segments than the device    *)
(* has room for; and the number of segments handed to the request is never *)
(* less than what blk_recalc_rq_segments counts again later.               *)
PiecesWithinLimits ==
  op \in Scans => \A i \in DOMAIN pieces :
    /\ pieces[i].hooked \/ WithinSectors(pieces[i])
    /\ WithinSegments(pieces[i])
    /\ blk_recalc_rq_segments(pieces[i].vecs) <= pieces[i].segs
    /\ pieces[i].segs <= lim.max_segments

(* Every cut is at a block: once a piece is out, the rest is never refused *)
(* as unaligned when it comes back through blk_mq_submit_bio; and the next *)
(* part of a discard begins on the granularity of the device, so that no   *)
(* block is left out between two parts.                                    *)
CutsAligned ==
  /\ pieces # <<>> => status # "unaligned"
  /\ op \in {"discard", "secure_erase"}
       => \A i \in 2 .. Len(pieces) : (pieces[i].sector - lim.discard_alignment) % lim.granularity = 0

(* Nothing is split that need not be, and no piece is shorter than it need *)
(* be: one block more, and the device would not take it or it would not end *)
(* on a physical block.                                                    *)
Fits(p) ==
  /\ WithinSectors(p)
  /\ WithinSegments(p)
  /\ LET start == p.sector % lim.pbs
         room == IF lim.chunk = 0 THEN lim.max_sectors
                 ELSE Min({lim.max_sectors, lim.chunk - (p.sector % lim.chunk)})
         end == RoundDown(start + room, lim.pbs)
     IN  end > start => start + p.size <= end
PiecesMaximal ==
  op \in {"read", "write"} => \A i \in DOMAIN pieces :
    LET p == pieces[i]
        longer == p.size + bio_split_alignment
        from == VecsAfter(orig.vecs, p.sector - orig.sector)
    IN  "nomerge" \notin p.flags \/ p.hooked
          \/ ~Fits([p EXCEPT !.size = longer, !.vecs = VecsBefore(from, longer)])

(* A read-around bio whose halves the device takes goes out as exactly     *)
(* these two halves (the purpose of the hook).                             *)
HalvedOnce ==
  LET half == RASPLIT_TARGET_SECTORS \div 2
      front == [sector |-> orig.sector, size |-> half, vecs |-> VecsBefore(orig.vecs, half)]
      back == [sector |-> orig.sector + half, size |-> half, vecs |-> VecsAfter(orig.vecs, half)]
  IN  /\ rasplit_enabled /\ op = "read" /\ "rahead" \in orig.flags
      /\ orig.size = RASPLIT_TARGET_SECTORS
      /\ Fits(front) /\ Fits(back)
      /\ pc = "done" /\ status = "ok"
      => Len(pieces) = 2 /\ pieces[1].size = half

(* What the comment of get_max_io_size promises of every bio: the pieces   *)
(* "may be submitted as a single request".                                 *)
SubmittableAsOneRequest == \A i \in DOMAIN pieces : op = "read" => WithinSectors(pieces[i])
=============================================================================
