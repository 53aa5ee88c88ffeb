------------------------------ MODULE BioChain ------------------------------
(***************************************************************************)
(* The completion of bios that were split, block/bio.c of readaround-split:*)
(* bio_split clones the front of a bio, bio_chain makes the rest wait for  *)
(* it, and bio_endio walks from a clone to its parent.  Several contexts   *)
(* (CPUs that take completions, tasks whose submission fails) may be in    *)
(* bio_endio at once; each step of it that another can observe is a step.  *)
(***************************************************************************)
EXTENDS Naturals, Sequences, SequencesExt, FiniteSetsExt

CONSTANTS
  MaxBios,       \* bound on the bios of a behaviour, clones included
  Contexts       \* where bio_endio can run

VARIABLES
  bio,           \* struct bio by number
  ending,        \* bio_endio by context: the bio it looks at, and where it is
  end_io         \* how often the bi_end_io of the submitter was called

chainVars == <<bio, ending, end_io>>

BioIds == 1 .. MaxBios
NoBio == 0
Unused ==
  [op |-> "read", rahead |-> FALSE, failfast |-> FALSE, nomerge |-> FALSE, sector |-> 0, size |-> 0,
   parent |-> NoBio, chain |-> FALSE, remaining |-> 0, status |-> "ok", state |-> "unused"]
NotEnding == [bio |-> NoBio, at |-> "out"]

Live == {b \in BioIds : bio[b].state = "live"}
bio_failfast(b) == bio[b].rahead \/ bio[b].failfast

(* The bios bs are the submitter's, numbered in order.                     *)
ChainInit(bs) ==
  /\ bio = [i \in BioIds |->
              IF i \in DOMAIN bs
              THEN [Unused EXCEPT !.op = bs[i].op, !.rahead = bs[i].rahead, !.failfast = bs[i].failfast,
                                  !.sector = bs[i].sector, !.size = bs[i].size, !.remaining = 1,
                                  !.state = "live"]
              ELSE Unused]
  /\ ending = [c \in Contexts |-> NotEnding]
  /\ end_io = [i \in DOMAIN bs |-> 0]

-----------------------------------------------------------------------------
(* bio_submit_split_bioset: clone s takes the first n sectors of b, b      *)
(* keeps the rest and waits for s.  REQ_NOMERGE is set on the clone by     *)
(* bio_submit_split.  rest is the status of the rest: should_fail_bio may  *)
(* end it at once, which cannot be the last reference to it.               *)
Clone(b, n) ==
  [bio[b] EXCEPT !.size = n, !.parent = b, !.nomerge = TRUE, !.chain = FALSE, !.remaining = 1,
                 !.status = "ok"]

(* Mutant of bio_chain: the parent does not count the clone.               *)
bio_chain_uncounted(b) == [b EXCEPT !.chain = TRUE]
bio_chain(b) == [b EXCEPT !.chain = TRUE, !.remaining = @ + 1]
bio_advance(b, n) == [b EXCEPT !.sector = @ + n, !.size = @ - n]

BioSplit(b, s, n, rest) ==
  LET parent == bio_chain(bio_advance(bio[b], n))
  IN  bio' = [bio EXCEPT
        ![s] = Clone(b, n),
        ![b] = IF rest = "ok" THEN parent
               ELSE [parent EXCEPT !.status = rest, !.remaining = @ - 1]]

-----------------------------------------------------------------------------
(* bio_endio *)

BeginEndio(c, b) == ending' = [ending EXCEPT ![c] = [bio |-> b, at |-> "remaining"]]

At(c, place) == ending[c].at = place
Ends(c) == ending[c].bio

(* bio_remaining_done: of a chained bio, only the last call goes on.       *)
(* Mutant of EndioRemaining: the count is not looked at.                   *)
EndioRemainingAny(c) ==
  /\ At(c, "remaining")
  /\ ending' = [ending EXCEPT ![c].at = "end"]
  /\ UNCHANGED <<bio, end_io>>
EndioRemaining(c) ==
  /\ At(c, "remaining")
  /\ LET b == Ends(c)
         last == bio[b].remaining = 1
     IN  IF ~bio[b].chain
         THEN ending' = [ending EXCEPT ![c].at = "end"] /\ UNCHANGED bio
         ELSE /\ bio' = [bio EXCEPT ![b].remaining = @ - 1, ![b].chain = ~last]
              /\ ending' = [ending EXCEPT ![c] = IF last THEN [@ EXCEPT !.at = "end"] ELSE NotEnding]
  /\ UNCHANGED end_io

(* The submitter's bi_end_io.                                              *)
EndioCall(c) ==
  /\ At(c, "end") /\ bio[Ends(c)].parent = NoBio
  /\ bio' = [bio EXCEPT ![Ends(c)].state = "ended"]
  /\ end_io' = [end_io EXCEPT ![Ends(c)] = @ + 1]
  /\ ending' = [ending EXCEPT ![c] = NotEnding]

(* __bio_chain_endio: the parent's status is read, written in another      *)
(* step, and the clone is put.                                             *)
Put(c) == [bio EXCEPT ![Ends(c)].state = "freed"]
ToParent(c) == ending' = [ending EXCEPT ![c] = [bio |-> bio[Ends(c)].parent, at |-> "remaining"]]

(* Mutant of ChainTest: the status of a clone stays with the clone.        *)
ChainTestIgnored(c) ==
  /\ At(c, "end") /\ bio[Ends(c)].parent # NoBio
  /\ bio' = Put(c) /\ ToParent(c)
  /\ UNCHANGED end_io
ChainTest(c) ==
  /\ At(c, "end") /\ bio[Ends(c)].parent # NoBio
  /\ LET b == bio[Ends(c)]
     IN  IF b.status # "ok" /\ bio[b.parent].status = "ok"
         THEN ending' = [ending EXCEPT ![c].at = "status"] /\ UNCHANGED bio
         ELSE bio' = Put(c) /\ ToParent(c)
  /\ UNCHANGED end_io

ChainStatus(c) ==
  /\ At(c, "status")
  /\ bio' = [Put(c) EXCEPT ![bio[Ends(c)].parent].status = bio[Ends(c)].status]
  /\ ToParent(c)
  /\ UNCHANGED end_io

bio_endio(c) == EndioRemaining(c) \/ EndioCall(c) \/ ChainTest(c) \/ ChainStatus(c)
=============================================================================
