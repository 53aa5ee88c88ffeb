----------------------------- MODULE MCBioSplit -----------------------------
(* Small devices and bios for BioSplit: a logical block of 2 sectors, a    *)
(* page of 4, a read-around window of 8.                                   *)
EXTENDS BioSplit, SequencesExt

Device ==
  [lbs |-> 2, pbs |-> 2, max_sectors |-> 6, chunk |-> 0, atomic_max |-> 4, atomic_boundary |-> 0,
   max_segments |-> 3, max_segment_size |-> 8, seg_boundary |-> 16, virt_boundary |-> 1, dma |-> 1,
   zone_write_granularity |-> 0, max_zone_append |-> 4, can_poll |-> TRUE,
   max_write_zeroes |-> 6, max_discard |-> 7, max_secure_erase |-> 4, granularity |-> 2,
   discard_alignment |-> 0]

MCLimits ==
  { Device,
    [Device EXCEPT !.max_segments = 2, !.max_segment_size = 4],
    [Device EXCEPT !.pbs = 4, !.max_sectors = 7],
    [Device EXCEPT !.max_segments = 1, !.seg_boundary = 4],
    [Device EXCEPT !.virt_boundary = 4],
    [Device EXCEPT !.virt_boundary = 4, !.seg_boundary = 8, !.dma = 2],
    [Device EXCEPT !.chunk = 4, !.can_poll = FALSE],
    [Device EXCEPT !.zone_write_granularity = 4, !.atomic_boundary = 4],
    [Device EXCEPT !.granularity = 4, !.discard_alignment = 2, !.max_discard = 6],
    [Device EXCEPT !.granularity = 4, !.max_discard = 2, !.max_secure_erase = 8] }

(* The memory of a bio: vectors in two regions, some not page aligned.     *)
VecsAt(page) ==
  { [page |-> page, off |-> v[1], len |-> v[2]] :
      v \in {<<0, 1>>, <<0, 2>>, <<0, 4>>, <<0, 8>>, <<1, 3>>, <<2, 2>>, <<2, 5>>} }
Memory ==
  { <<u>> : u \in VecsAt(0) } \union { <<u, v>> : u \in VecsAt(0), v \in VecsAt(16) }
    \union { <<[page |-> 0, off |-> 0, len |-> 4], [page |-> 16, off |-> 0, len |-> 4], v>> : v \in VecsAt(8) }
SizeOf(vs) == FoldSeq(LAMBDA v, n : n + v.len, 0, vs)

Data(ops, fls, sectors) ==
  { [op |-> o, flags |-> f, sector |-> s, size |-> SizeOf(m), vecs |-> m] :
      o \in ops, f \in fls, s \in sectors, m \in Memory }

NoData(ops) ==
  { [op |-> o, flags |-> {}, sector |-> s, size |-> n, vecs |-> <<>>] :
      o \in ops, s \in {0, 2, 3}, n \in {2, 5, 6, 10, 12} }

MCBios ==
  Data({"read"}, {{"rahead"}, {"polled"}, {"nowait"}}, {0, 2})
    \union Data({"write"}, {{}, {"atomic"}}, {2})
    \union Data({"zone_append"}, {{}}, {0})
    \union NoData({"write_zeroes", "discard", "secure_erase"})
=============================================================================
