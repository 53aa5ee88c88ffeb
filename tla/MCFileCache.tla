---------------------------- MODULE MCFileCache ----------------------------
(* Scenarios for FileCache.                                                *)
EXTENDS FileCache

MCIndex == 0..12

Calm ==
  [pages |-> 4, memory |-> 8, raPages |-> 4, ioPages |-> 4, maxOrder |-> 0, block |-> 1, random |-> FALSE,
   congested |-> FALSE, faulty |-> FALSE, stream |-> FALSE, file |-> [t \in Task |-> t],
   jobs |-> [t \in Task |-> <<>>], reclaims |-> 0, clears |-> 0, killable |-> {}]

rd(pos, len) == [op |-> "read", pos |-> pos, len |-> len, nowait |-> FALSE]
nw(pos, len) == [op |-> "read", pos |-> pos, len |-> len, nowait |-> TRUE]
fault(pos, flags) == [op |-> "fault", pos |-> pos, flags |-> flags]
cache(pos) == [op |-> "cache_folio", pos |-> pos]
punch(lo, hi, size) == [op |-> "truncate", lo |-> lo, hi |-> hi, size |-> size]
cut(size) == [op |-> "truncate", lo |-> size, hi |-> 12, size |-> size]

Two(a, b) == [t \in Task |-> IF t = "t1" THEN a ELSE b]

(* One task reads the file from its start in pieces; the window is of one  *)
(* page, or more, and the device may take larger requests than that.       *)
Pieces(n, len) == [i \in 1 .. ((n + len - 1) \div len) |-> rd((i - 1) * len, len)]

Streams ==
  { [Calm EXCEPT !.pages = n, !.raPages = w[1], !.ioPages = w[2], !.maxOrder = o, !.block = b,
                 !.stream = TRUE, !.jobs = Two(Pieces(n, len), <<>>)] :
      n \in {1, 2, 3, 5, 8}, w \in {<<1, 1>>, <<1, 4>>, <<2, 1>>, <<2, 4>>, <<3, 4>>, <<4, 4>>}, o \in {0, 2}, len \in 1..3, b \in {1, 4} }

Small == [Calm EXCEPT !.pages = 2, !.raPages = 2]

(* Faults of every kind of mapping race with a hole, with a truncation, or *)
(* with one another.                                                       *)
Vmas == { {}, {"around"}, {"rand"}, {"seq"}, {"exec"}, {"huge"}, {"nowait"} }

FaultRaces ==
  { [Small EXCEPT !.maxOrder = 1, !.jobs = Two(<<fault(0, v), fault(1, v)>>, <<punch(0, 1, 2)>>)] : v \in Vmas }
    \union { [Small EXCEPT !.jobs = Two(<<fault(1, v)>>, <<cut(1)>>)] : v \in Vmas }
    \union { [Small EXCEPT !.jobs = Two(<<fault(1, v)>>, <<fault(1, {})>>)] : v \in Vmas }
    \union { [Small EXCEPT !.maxOrder = 1, !.jobs = Two(<<fault(0, v)>>, <<cache(1)>>)] : v \in {{"huge"}, {"exec"}} }

(* The same with a page that is taken away, a disk that fails, a fatal     *)
(* signal, no memory to spare, and one file shared by the two.             *)
FaultTroubles ==
  { [Small EXCEPT !.jobs = Two(<<fault(0, {}), fault(1, v)>>, <<>>), !.clears = 1, !.reclaims = 1] : v \in {{}, {"seq"}} }
    \union { [Small EXCEPT !.jobs = Two(<<fault(1, v)>>, <<fault(1, {})>>), !.faulty = TRUE,
                          !.killable = {"t1"}, !.file = Two("a", "a")] : v \in {{}, {"rand"}} }
    \union { [Small EXCEPT !.jobs = Two(<<fault(0, v), fault(1, v)>>, <<cache(1)>>), !.memory = 1] : v \in {{}, {"seq"}} }

(* Readers with holes, truncation, reclaim, errors and signals.            *)
ReadRaces ==
  { [Small EXCEPT !.pages = 3, !.maxOrder = o, !.jobs = Two(<<r>>, <<x>>)] :
      o \in {0, 1}, r \in {rd(0, 3), rd(1, 2), nw(0, 2)},
      x \in {punch(0, 1, 3), cut(1), cut(0), cache(1)} }
    \union { [Small EXCEPT !.jobs = Two(<<rd(0, 2), nw(0, 2)>>, <<>>), !.reclaims = 2] }
    \union { [Small EXCEPT !.jobs = Two(<<rd(0, 2), nw(0, 2)>>, <<rd(1, 1)>>), !.faulty = TRUE,
                          !.killable = {"t1"}, !.file = Two("a", "a")] }
    \union { [Small EXCEPT !.pages = 3, !.jobs = Two(<<rd(1, 2)>>, <<cache(1)>>), !.faulty = TRUE,
                          !.memory = 1] }
    \union { [Small EXCEPT !.jobs = Two(<<x, x>>, <<punch(0, 1, 2)>>), !.faulty = TRUE] :
              x \in {cache(1), nw(0, 1)} }

(* A device that is busy, readahead that is off, a random file, and reads  *)
(* larger than the window.                                                 *)
Devices ==
  { [Calm EXCEPT !.pages = 3, !.congested = TRUE, !.raPages = r, !.maxOrder = o,
                 !.jobs = Two(<<rd(0, 2), rd(2, 1)>>, <<>>)] : r \in {0, 2}, o \in {0, 1} }
    \union { [Calm EXCEPT !.pages = 2, !.congested = TRUE, !.raPages = 2, !.jobs = Two(<<rd(0, 1)>>, <<cache(0)>>)] }
    \union { [Calm EXCEPT !.random = TRUE, !.raPages = 2, !.ioPages = 6, !.jobs = Two(<<rd(0, 4)>>, <<rd(3, 6)>>)] }
    \union { [Calm EXCEPT !.raPages = 2, !.ioPages = 3, !.jobs = Two(<<rd(1, 3)>>, <<rd(3, 1), rd(0, 1)>>)] }

(* A second open file meets what the first stream left behind, and a       *)
(* filesystem reads in blocks.                                             *)
Traces ==
  { [Calm EXCEPT !.pages = 5, !.raPages = 2, !.jobs = Two(<<rd(0, 1), rd(1, 1)>>, j)] :
      j \in {<<rd(2, 1)>>, <<cache(4), rd(2, 1)>>} }
    \union { [Calm EXCEPT !.pages = 5, !.raPages = 3, !.jobs = Two(<<rd(0, 1)>>, <<rd(3, 1)>>)] }
    \union { [Calm EXCEPT !.pages = 7, !.block = 4, !.maxOrder = o, !.raPages = 2, !.jobs = Two(<<rd(p, 1)>>, <<cache(q)>>)] :
                o \in {0, 1}, p \in {1, 3, 6}, q \in {0, 2} }

MCScenarios == Streams \union FaultRaces \union FaultTroubles \union ReadRaces \union Devices \union Traces
=============================================================================
