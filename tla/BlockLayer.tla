----------------------------- MODULE BlockLayer -----------------------------
(***************************************************************************)
(* The way of bios through the block layer of readaround-split: tasks      *)
(* submit them with or without a plug (blk_mq_submit_bio), each is split,  *)
(* merged into a request or made one, plugged, inserted or issued, and the *)
(* device completes requests in any order, in part or whole, well or not   *)
(* (blk_update_request), on several CPUs.  The queue has one hardware      *)
(* queue; requests are found by merges in `sched' (the elevator, or the    *)
(* list of the software queue) and not in `issued' (hctx->dispatch and the *)
(* driver).                                                                *)
(***************************************************************************)
EXTENDS BlkMerge

CONSTANTS
  Tasks, CPUs,
  Programs,               \* [bios : Seq, by : what each task submits, elevator]
  Plugged,                \* the tasks with a plug
  RASPLIT_TARGET_SECTORS,
  BLK_MAX_REQUEST_COUNT, BLK_PLUG_FLUSH_SIZE,
  ListChecks              \* how far blk_bio_list_merge looks back

ASSUME ContextsAssumption == Contexts = Tasks \union CPUs /\ Tasks \cap CPUs = {}
ASSUME LimitsAssumption ==
  /\ max_sectors \in Nat \ {0} /\ max_segments \in Nat \ {0} /\ chunk_sectors \in Nat
  /\ max_discard_sectors \in Nat \ {0}

VARIABLES
  prog,                   \* the program of this behaviour
  todo,                   \* by task: bios it has still to submit
  bio_list,               \* current->bio_list: remainders to submit first
  cur, pc,                \* blk_mq_submit_bio: its bio, and where it is
  plug,                   \* plug->mq_list
  sched, issued,
  cpu,                    \* blk_update_request by CPU: request, bytes left, status
  transferred             \* sectors of data moved so far

taskVars == <<todo, bio_list, cur, pc>>
queueVars == <<plug, sched, issued>>
deviceVars == <<cpu, transferred>>
vars == <<chainVars, prog, taskVars, queueVars, deviceVars>>

NoRequest == [bios |-> <<>>]
Idle == [rq |-> NoRequest, left |-> 0, status |-> "ok"]

Init ==
  /\ prog \in Programs
  /\ ChainInit(prog.bios)
  /\ todo = prog.by
  /\ bio_list = [t \in Tasks |-> <<>>]
  /\ cur = [t \in Tasks |-> NoBio] /\ pc = [t \in Tasks |-> "idle"]
  /\ plug = [t \in Tasks |-> <<>>] /\ sched = <<>> /\ issued = {}
  /\ cpu = [c \in CPUs |-> Idle]
  /\ transferred = {}

Goto(t, place) == pc' = [pc EXCEPT ![t] = place]

-----------------------------------------------------------------------------
(* submit_bio_noacct (external): what a split left over goes before the    *)
(* next bio of the task; one bio at a time.                                *)
TakeBio(t) ==
  /\ pc[t] = "idle" /\ ending[t] = NotEnding
  /\ \/ /\ bio_list[t] # <<>>
        /\ cur' = [cur EXCEPT ![t] = Head(bio_list[t])]
        /\ bio_list' = [bio_list EXCEPT ![t] = Tail(@)]
        /\ UNCHANGED todo
     \/ /\ bio_list[t] = <<>> /\ todo[t] # <<>>
        /\ cur' = [cur EXCEPT ![t] = Head(todo[t])]
        /\ todo' = [todo EXCEPT ![t] = Tail(@)]
        /\ UNCHANGED bio_list
  /\ Goto(t, "enter")
  /\ UNCHANGED <<chainVars, prog, queueVars, deviceVars>>

(* bio_queue_enter fails: the device is going away.                        *)
EnterFails(t) ==
  /\ pc[t] = "enter"
  /\ bio' = [bio EXCEPT ![cur[t]].status = "IOERR"]
  /\ BeginEndio(t, cur[t])
  /\ Goto(t, "idle")
  /\ UNCHANGED <<end_io, prog, todo, bio_list, cur, queueVars, deviceVars>>

(* get_max_io_size and max_segments for bios of whole pages.               *)
SplitAt(b) ==
  CASE bio[b].op = "read" /\ bio[b].rahead /\ bio[b].size = RASPLIT_TARGET_SECTORS
         -> RASPLIT_TARGET_SECTORS \div 2
    [] bio[b].op = "discard" -> max_discard_sectors
    [] OTHER -> Min({max_sectors, max_segments, BoundaryLeft(bio[b].sector)})

NeedNotSplit(t) ==
  /\ pc[t] = "enter" /\ bio[cur[t]].size <= SplitAt(cur[t])
  /\ Goto(t, "merge")
  /\ UNCHANGED <<chainVars, prog, todo, bio_list, cur, queueVars, deviceVars>>

SplitBio(t) ==
  /\ pc[t] = "enter" /\ bio[cur[t]].size > SplitAt(cur[t])
  /\ \E s \in BioIds, rest \in {"ok", "IOERR"} :
       /\ s = Min({i \in BioIds : bio[i].state = "unused"})
       /\ BioSplit(cur[t], s, SplitAt(cur[t]), rest)
       /\ bio_list' = [bio_list EXCEPT ![t] = IF rest = "ok" THEN <<cur[t]>> \o @ ELSE @]
       /\ cur' = [cur EXCEPT ![t] = s]
  /\ Goto(t, "merge")
  /\ UNCHANGED <<ending, end_io, prog, todo, queueVars, deviceVars>>

-----------------------------------------------------------------------------
(* blk_mq_attempt_bio_merge: the last request of the plug, then those that *)
(* were inserted; bios that may not be merged skip both.                   *)

PlugAttempt(t) ==
  IF plug[t] = <<>> \/ bio[cur[t]].nomerge THEN "none" ELSE Attempt(Last(plug[t]), cur[t])

MergeInto(rq, b, how) == bio' = BiosAfterMerge(rq, b, how)

(* blk_attempt_plug_merge *)
PlugMerge(t) ==
  LET rq == Last(plug[t])
      how == PlugAttempt(t)
      n == Len(plug[t])
  IN  /\ pc[t] = "merge" /\ how # "none"
      /\ IF MergeAllowed(rq, cur[t], how)
         THEN /\ plug' = [plug EXCEPT ![t][n] = MergedBio(rq, cur[t], how)]
              /\ MergeInto(rq, cur[t], how)
              /\ Goto(t, "idle")
         ELSE /\ plug' = [plug EXCEPT ![t][n] = req_set_nomerge(rq)]
              /\ Goto(t, "sched_merge")
              /\ UNCHANGED bio
      /\ UNCHANGED <<ending, end_io, prog, todo, bio_list, cur, sched, issued, deviceVars>>

PlugNoMerge(t) ==
  /\ pc[t] = "merge" /\ PlugAttempt(t) = "none"
  /\ Goto(t, IF bio[cur[t]].nomerge THEN "new" ELSE "sched_merge")
  /\ UNCHANGED <<chainVars, prog, todo, bio_list, cur, queueVars, deviceVars>>

Mergeable(t) == {i \in DOMAIN sched : Attempt(sched[i], cur[t]) # "none"}

(* The request a merge is tried with: without an elevator the latest one   *)
(* (blk_bio_list_merge), with one the one elv_merge (external) finds.      *)
Candidates(t) ==
  IF prog.elevator THEN Mergeable(t)
  ELSE LET near == {i \in Mergeable(t) : i + ListChecks > Len(sched)}
       IN  {i \in near : i = Max(near)}

SchedNoMerge(t) ==
  /\ pc[t] = "sched_merge" /\ Candidates(t) = {}
  /\ Goto(t, "new")
  /\ UNCHANGED <<chainVars, prog, todo, bio_list, cur, queueVars, deviceVars>>

(* elv_latter_request and elv_former_request (external): the neighbours of *)
(* sched[i] by sector.                                                     *)
Latter(q, i) ==
  LET after == {j \in DOMAIN q : q[j].sector > q[i].sector}
  IN  {j \in after : \A m \in after : q[j].sector <= q[m].sector}
Former(q, i) ==
  LET before == {j \in DOMAIN q : q[j].sector < q[i].sector}
  IN  {j \in before : \A m \in before : q[j].sector >= q[m].sector}

(* attempt_merge of q[i] and q[j], the later of the two goes away.         *)
Joined(q, i, j) == RemoveAt([q EXCEPT ![i] = MergedRequest(q[i], q[j])], j)

SchedMerge(t) ==
  /\ pc[t] = "sched_merge"
  /\ \E i \in Candidates(t) :
       LET rq == sched[i]
           how == Attempt(rq, cur[t])
           q == [sched EXCEPT ![i] = MergedBio(rq, cur[t], how)]
           bs == BiosAfterMerge(rq, cur[t], how)
           (* attempt_back_merge, attempt_front_merge: only an elevator    *)
           pairs == IF ~prog.elevator \/ how = "discard" THEN {}
                    ELSE IF how = "back" THEN {<<i, j>> : j \in Latter(q, i)}
                    ELSE {<<j, i>> : j \in Former(q, i)}
           joining == {p \in pairs : Joins(q[p[1]], q[p[2]])}
       IN  IF MergeAllowed(rq, cur[t], how)
           THEN /\ Goto(t, "idle")
                /\ \/ joining = {} /\ sched' = q /\ bio' = bs
                   \/ \E p \in joining :
                        /\ sched' = Joined(q, p[1], p[2])
                        /\ bio' = BiosAfterRequestMerge(bs, q[p[1]], q[p[2]])
           ELSE /\ Goto(t, "new")
                /\ sched' = [sched EXCEPT ![i] = req_set_nomerge(rq)]
                /\ UNCHANGED bio
  /\ UNCHANGED <<ending, end_io, prog, todo, bio_list, cur, plug, issued, deviceVars>>

-----------------------------------------------------------------------------
(* Requests on their way to the device.                                    *)

(* blk_attempt_req_merge of rq into request i of what is queued.           *)
Offer(acc, i, rq) ==
  IF Joins(acc.q[i], rq)
  THEN [q |-> [acc.q EXCEPT ![i] = MergedRequest(@, rq)],
        bs |-> BiosAfterRequestMerge(acc.bs, acc.q[i], rq)]
  ELSE [q |-> Append([acc.q EXCEPT ![i] = NotJoined(@)], rq), bs |-> acc.bs]

(* Insertion behind what is queued.  An elevator first offers the request  *)
(* to one it can join (elv_attempt_insert_merge, external): one that ends  *)
(* where it starts; of discards, to the one that was merged last, if any.  *)
InsertOne(acc, rq) ==
  LET into == {i \in DOMAIN acc.q : prog.elevator /\ RequestsMerge(acc.q[i], rq)}
  IN  {Offer(acc, i, rq) : i \in into}
        \union (IF into = {} \/ blk_discard_mergable(rq)
                THEN {[q |-> Append(acc.q, rq), bs |-> acc.bs]} ELSE {})
Insert(rqs) ==
  \E after \in FoldLeft(LAMBDA accs, rq : UNION {InsertOne(acc, rq) : acc \in accs},
                        {[q |-> sched, bs |-> bio]}, rqs) :
    sched' = after.q /\ bio' = after.bs

(* blk_mq_flush_plug_list: without an elevator the driver takes what it    *)
(* can and the others are inserted; at a schedule() all are inserted.      *)
blk_mq_flush_plug_list(t, from_schedule) ==
  \E k \in 0 .. Len(plug[t]) :
    /\ prog.elevator \/ from_schedule => k = 0
    /\ issued' = issued \union {plug[t][i] : i \in 1 .. k}
    /\ Insert(SubSeq(plug[t], k + 1, Len(plug[t])))

(* blk_finish_plug, and a task that sleeps while it waits for a tag.       *)
FinishPlug(t) ==
  /\ pc[t] = "idle" /\ ending[t] = NotEnding
  /\ bio_list[t] = <<>> /\ todo[t] = <<>> /\ plug[t] # <<>>
  /\ blk_mq_flush_plug_list(t, FALSE)
  /\ plug' = [plug EXCEPT ![t] = <<>>]
  /\ UNCHANGED <<ending, end_io, prog, taskVars, deviceVars>>

FlushAsleep(t) ==
  /\ pc[t] = "new" /\ plug[t] # <<>>
  /\ blk_mq_flush_plug_list(t, TRUE)
  /\ plug' = [plug EXCEPT ![t] = <<>>]
  /\ UNCHANGED <<ending, end_io, prog, taskVars, deviceVars>>

PlugIsFull(t) ==
  /\ plug[t] # <<>>
  /\ Len(plug[t]) >= BLK_MAX_REQUEST_COUNT \/ Head(plug[t]).len >= BLK_PLUG_FLUSH_SIZE

(* blk_add_rq_to_plug *)
(* Mutant of AddToPlug: what was plugged is lost when the plug is flushed. *)
AddToPlugLoses(t) ==
  /\ pc[t] = "new" /\ t \in Plugged
  /\ plug' = [plug EXCEPT ![t] = IF PlugIsFull(t) THEN <<NewRequest(cur[t])>>
                                 ELSE Append(@, NewRequest(cur[t]))]
  /\ Goto(t, "idle")
  /\ UNCHANGED <<chainVars, prog, todo, bio_list, cur, sched, issued, deviceVars>>
AddToPlug(t) ==
  /\ pc[t] = "new" /\ t \in Plugged
  /\ IF PlugIsFull(t)
     THEN blk_mq_flush_plug_list(t, FALSE) /\ plug' = [plug EXCEPT ![t] = <<NewRequest(cur[t])>>]
     ELSE plug' = [plug EXCEPT ![t] = Append(@, NewRequest(cur[t]))] /\ UNCHANGED <<bio, sched, issued>>
  /\ Goto(t, "idle")
  /\ UNCHANGED <<ending, end_io, prog, todo, bio_list, cur, deviceVars>>

(* Without a plug the request is inserted or issued at once.               *)
InsertOrIssue(t) ==
  /\ pc[t] = "new" /\ t \notin Plugged
  /\ \/ Insert(<<NewRequest(cur[t])>>) /\ UNCHANGED issued
     \/ ~prog.elevator /\ issued' = issued \union {NewRequest(cur[t])} /\ UNCHANGED <<bio, sched>>
  /\ Goto(t, "idle")
  /\ UNCHANGED <<ending, end_io, prog, todo, bio_list, cur, plug, deviceVars>>

(* The hardware queue runs: an elevator chooses (external), the list does  *)
(* not.                                                                    *)
Dispatch ==
  /\ \E i \in DOMAIN sched :
       /\ prog.elevator \/ i = 1
       /\ issued' = issued \union {sched[i]}
       /\ sched' = RemoveAt(sched, i)
  /\ UNCHANGED <<chainVars, prog, taskVars, plug, deviceVars>>

-----------------------------------------------------------------------------
(* blk_update_request: the driver reports n sectors done, one bio a step.  *)

Report(c) ==
  /\ cpu[c] = Idle
  /\ \E rq \in issued, status \in {"ok", "IOERR"} : \E n \in 1 .. rq.len :
       /\ rq.op = "discard" => n = rq.len
       /\ cpu' = [cpu EXCEPT ![c] = [rq |-> rq, left |-> n, status |-> status]]
       /\ issued' = issued \ {rq}
  /\ UNCHANGED <<chainVars, prog, taskVars, plug, sched, transferred>>

UpdateBio(c) ==
  LET rq == cpu[c].rq
      b == Head(rq.bios)
      n == Min({bio[b].size, cpu[c].left})
      ok == cpu[c].status = "ok"
  IN  /\ cpu[c].left > 0 /\ ending[c] = NotEnding
      /\ bio' = [bio EXCEPT ![b] = [bio_advance(@, n) EXCEPT !.status = IF ok THEN @ ELSE cpu[c].status]]
      /\ transferred' = transferred \union
           IF ok THEN bio[b].sector .. bio[b].sector + n - 1 ELSE {}
      /\ cpu' = [cpu EXCEPT
           ![c].left = @ - n,
           ![c].rq = [@ EXCEPT !.sector = @ + n, !.len = @ - n,
                               !.bios = IF n = bio[b].size THEN Tail(@) ELSE @]]
      /\ IF n = bio[b].size THEN BeginEndio(c, b) ELSE UNCHANGED ending
      /\ UNCHANGED <<end_io, prog, taskVars, queueVars>>

(* What is left of the request: its segments are counted again, a mixed    *)
(* one follows its new first bio, and the driver goes on with it.          *)
(* Mutant of Leftover: it keeps the attribute of the bio that is gone.     *)
LeftoverStale(rq) == [rq EXCEPT !.segs = rq.len]
Leftover(rq) ==
  [rq EXCEPT !.segs = rq.len,
             !.failfast = IF rq.mixed THEN bio[rq.bios[1]].failfast ELSE @]

UpdateDone(c) ==
  /\ cpu[c] # Idle /\ cpu[c].left = 0 /\ ending[c] = NotEnding
  /\ issued' = issued \union IF cpu[c].rq.bios = <<>> THEN {} ELSE {Leftover(cpu[c].rq)}
  /\ cpu' = [cpu EXCEPT ![c] = Idle]
  /\ UNCHANGED <<chainVars, prog, taskVars, plug, sched, transferred>>

-----------------------------------------------------------------------------
Endio(c) == bio_endio(c) /\ UNCHANGED <<prog, taskVars, queueVars, deviceVars>>

TaskStep(t) ==
  \/ TakeBio(t) \/ EnterFails(t) \/ NeedNotSplit(t) \/ SplitBio(t)
  \/ PlugMerge(t) \/ PlugNoMerge(t) \/ SchedMerge(t) \/ SchedNoMerge(t)
  \/ AddToPlug(t) \/ InsertOrIssue(t) \/ FinishPlug(t)
  \/ Endio(t)
CpuStep(c) == Report(c) \/ UpdateBio(c) \/ UpdateDone(c) \/ Endio(c)

Finished ==
  /\ \A t \in Tasks : pc[t] = "idle" /\ todo[t] = <<>> /\ bio_list[t] = <<>> /\ plug[t] = <<>>
  /\ sched = <<>> /\ issued = {} /\ \A c \in CPUs : cpu[c] = Idle
  /\ \A c \in Contexts : ending[c] = NotEnding
Done == Finished /\ UNCHANGED vars

Progress ==
  \/ \E t \in Tasks : TaskStep(t)
  \/ Dispatch
  \/ \E c \in CPUs : CpuStep(c)

Next == Progress \/ (\E t \in Tasks : FlushAsleep(t)) \/ Done

(* As long as a task can run, a request can be dispatched or the device    *)
(* has one to answer, one of these happens.                                *)
Spec == Init /\ [][Next]_vars /\ WF_vars(Progress)

-----------------------------------------------------------------------------
Requests ==
  UNION {Range(plug[t]) : t \in Tasks} \union Range(sched) \union issued
Held(b) ==
  \/ \E t \in Tasks : (pc[t] # "idle" /\ cur[t] = b) \/ b \in Range(bio_list[t]) \union Range(todo[t])
  \/ \E rq \in Requests : b \in Range(rq.bios)
  \/ \E c \in CPUs : b \in Range(cpu[c].rq.bios)
Children(b) == {i \in Live : bio[i].parent = b}
Origin(b) == IF bio[b].parent = NoBio THEN b ELSE bio[b].parent

(* __bi_remaining of a chained bio is exactly the number of completions    *)
(* still to come: its own, those of its clones, and those under way.  So   *)
(* the BUG_ON of bio_remaining_done never fires.                           *)
ChainCount ==
  \A b \in Live : bio[b].chain =>
    bio[b].remaining =
      Cardinality(Children(b))
        + Cardinality({c \in Contexts : ending[c] = [bio |-> b, at |-> "remaining"]})
        + (IF Held(b) THEN 1 ELSE 0)

(* The submitter is told once, and only when no part of its bio is left    *)
(* anywhere: nobody touches a bio after it ended or was freed, and what    *)
(* bio_remaining_done counts is what is still to come (bio.c:1731).        *)
EndsOnceAfterAllParts ==
  /\ ChainCount
  /\ \A b \in DOMAIN end_io : end_io[b] <= 1 /\ (end_io[b] = 1 => Children(b) = {})
  /\ \A b \in BioIds : Held(b) => b \in Live
  /\ \A c \in Contexts : ending[c] # NotEnding => ending[c].bio \in Live

(* A bio that ends well has had every one of its sectors transferred: no   *)
(* failure of a part is lost, whichever CPU saw it (__bio_chain_endio).    *)
OkMeansTransferred ==
  \A b \in DOMAIN end_io :
    end_io[b] = 1 /\ bio[b].status = "ok"
      => prog.bios[b].sector .. prog.bios[b].sector + prog.bios[b].size - 1 \subseteq transferred

(* Two parts of one bio are never in one request: what was split stays     *)
(* split, whatever plug and elevator merge (REQ_NOMERGE of                 *)
(* bio_submit_split).                                                      *)
PartsApart ==
  \A rq \in Requests : \A i, j \in DOMAIN rq.bios : i # j => Origin(rq.bios[i]) # Origin(rq.bios[j])

(* A request is its bios: contiguous, in ascending order, its length the   *)
(* sum of theirs (discards may lie anywhere), also after the device has    *)
(* completed a part of it that ends inside a bio. And "mixed attributes    *)
(* always follow the first bio": a request of bios that disagree on        *)
(* failfast has that of its first, another agrees with all.                *)
RequestsAreTheirBios ==
  \A rq \in Requests :
    /\ rq.len = FoldSeq(LAMBDA b, n : n + bio[b].size, 0, rq.bios)
    /\ rq.sector = bio[rq.bios[1]].sector
    /\ \A i \in 2 .. Len(rq.bios) :
         blk_discard_mergable(rq)
           \/ bio[rq.bios[i]].sector = bio[rq.bios[i - 1]].sector + bio[rq.bios[i - 1]].size
    /\ rq.op # "discard" =>
         IF rq.mixed THEN rq.failfast = bio_failfast(rq.bios[1])
         ELSE \A i \in DOMAIN rq.bios : bio_failfast(rq.bios[i]) = rq.failfast

(* Merging makes no request that the device would not take, with one       *)
(* exception: req_attempt_discard_merge lets a request of several bios     *)
(* join and holds only the first of them against the limits                *)
(* (blk-merge.c:706). Such a join aside, discards keep to them too, and    *)
(* the number of ranges the driver is told is right in every case.         *)
MergedWithinLimits ==
  \A rq \in Requests : Len(rq.bios) > 1 =>
    IF rq.op = "discard"
    THEN /\ rq.joined \/ (rq.len <= max_discard_sectors /\ rq.segs <= Max({1, max_discard_segments}))
         /\ blk_discard_mergable(rq) => rq.segs = Len(rq.bios)
    ELSE /\ rq.len <= max_sectors /\ rq.segs <= max_segments
         /\ chunk_sectors = 0
              \/ rq.sector \div chunk_sectors = (rq.sector + rq.len - 1) \div chunk_sectors

(* Every bio submitted is ended in the end.                                *)
AllEnd == <>(\A b \in DOMAIN end_io : end_io[b] = 1)
=============================================================================
