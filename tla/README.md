# Verification of C-Systems-Playground

TLA+ models of the three programs of the repository, TLC runs on small instances of them, and TLAPS
proofs. `PROJECT.json` lists the runs, the line of the source behind every definition, the hazards
each property is aimed at, and for every property a mutation of the model that breaks it.

## 1. The system

| Program | What it is | Where |
|---|---|---|
| mini-malloc | a first-fit heap allocator over `sbrk` | `src/mini-malloc` |
| prefetch-sim | a user-space simulator of read-ahead policies over small block caches | `src/prefetch-sim` |
| readaround-split | five files of a Linux tree (`block/bio.c`, `blk-merge.c`, `blk-mq.c`, `mm/readahead.c`, `mm/filemap.c`), with a hook that cuts the I/O of mmap read-around in two | `src/readaround-split` |

The programs do not call each other. Within them:

* **mini-malloc.** State: the break, the headers written so far (`size`, `free`, `prev`, `next`), the
  head `free_list`. Operations: `my_malloc` (search, reuse or grow), `my_free`. Environment: the
  client, which frees in any order and possibly twice, and other users of `sbrk`. Hard: the four
  kinds of removal from a doubly linked list, double frees, `sbrk` failing, unsigned against signed
  sizes, blocks that are not adjacent.
* **prefetch-sim.** A driver (`main.c` and five benchmarks) generates a trace of block numbers and
  for each looks the block up in a pool, reads and inserts it on a miss, and calls a policy, which
  inserts more blocks. Two pools: FIFO by a rotating position (`buffer_pool.c`) and LRU by a logical
  clock (`lru_buffer_pool.c`). Three policies: fixed read-ahead, adaptive read-ahead, read-around.
  Hard: the policy's equality test on its edge, the interaction of window and capacity, blocks
  inserted a second time, cutting at the borders of the file, a run of several repeats.
* **readaround-split.** `filemap_read` and `filemap_fault` look a page up in the page cache and ask
  `mm/readahead.c` for a window when it is missing or marked; the window becomes a bio.
  `blk_mq_submit_bio` enters the queue (`q_usage_counter`), splits the bio to the limits of the queue
  (`blk-merge.c`, with the hook in `get_max_io_size`), merges it into requests in the plug or the
  elevator or allocates a request with a tag; requests wait in a software queue or the dispatch list,
  are issued with a budget and a driver tag, come back, time out, are requeued or completed, which
  completes bios, which are chained (`bio.c`), which unlocks folios. Tasks freeze and quiesce the
  queue, truncate the file, and are killed meanwhile. Hard: everything runs concurrently on several
  tasks and CPUs, splits recur on the remainder, errors arrive in the middle, merging could undo
  splitting, a run of the queue or a wake-up can be missed, a page can be gone after a sleep.

## 2. Modules

| Module | Models | Built on |
|---|---|---|
| `MiniMalloc` | `malloc.c` | |
| `MiniMallocProofs` | the proofs about it | `MiniMalloc` |
| `BufferPool` | `buffer_pool.c` | |
| `FifoCache` | what a FIFO pool promises: a queue | |
| `WorkloadGen` | `workload_gen.c` | |
| `PrefetchDriver` | the measuring loop and the traces of `main.c`, `interrupted_bench.c`, `adaptive_bench.c`, `mixed_bench.c`; the loop of `buffer_pool_prefetch_range` | `BufferPool`, `WorkloadGen` |
| `Readahead`, `AdaptiveReadahead` | `readahead.c`, `adaptive_readahead.c` | `PrefetchDriver` |
| `PrefetchBench`, `MCPrefetchBench` | the composition; its programs for TLC | the above, `FifoCache` |
| `PrefetchBenchProofs` | the proofs about it: the pool, the policies, the trace | `PrefetchBench` |
| `LruBufferPool`, `LruCache` | `lru_buffer_pool.c`; what an LRU pool promises | |
| `ReadAround` | `read_around.c` with `read_around_bench.c` | `LruBufferPool`, `LruCache` |
| `ReadAroundProofs` | the proof that the neighbourhood is kept | `ReadAround` |
| `BioSplit`, `MCBioSplit` | splitting one bio to the limits of its queue; devices and bios for TLC | |
| `BioSplitProofs` | the proofs that a bio is tiled by its pieces and cut where it may be | `BioSplit` |
| `BioSegmentProofs` | the proof that the device takes every piece | `BioSplitProofs` |
| `BioChain` | `bio_split`, `bio_chain`, `bio_endio` across contexts | |
| `BlkMerge` | the merge tests and merges of `blk-merge.c` | `BioChain` |
| `BlockLayer`, `MCBlockLayer` | submission, plug, elevator, issue, partial completion; programs for TLC | `BlkMerge` |
| `FolioLock`, `MCFolioLock` | locking and waiting for a folio in `mm/filemap.c`; programs for TLC | |
| `FolioLockProofs` | the proofs about it | `FolioLock` |
| `PageCache` | `i_pages` and the folios of one file: operations of `mm/filemap.c` as functions | |
| `PageReadahead` | `mm/readahead.c` | `PageCache` |
| `FileRead` | `filemap_read` and what it calls, `do_read_cache_folio` | `PageReadahead` |
| `PageFault` | `filemap_fault`, `do_sync_mmap_readahead`, `do_async_mmap_readahead`, `filemap_map_pages` | `FileRead` |
| `FileCache`, `MCFileCache` | the composition, with truncation, reclaim and the disk; scenarios for TLC | `PageFault` |
| `FileCacheProofs` | the proof of the contract of a fault | `FileCache` |
| `QueueGate` | freeze, quiesce and `q_usage_counter` of `blk-mq.c`, as a protocol of their own | |
| `RequestQueue` | requests, tags, start, end, requeue, timeout of `blk-mq.c`: operations as functions | `QueueGate` |
| `HwQueue`, `MCHwQueue` | submission, dispatch, plugs, workers and the device; scenarios for TLC | `RequestQueue` |
| `HwQueueProofs` | the proofs about the protocol, that the queue implements it, and that a quiesce stops the issue of requests | `HwQueue` |

Conventions. Names are the source's where TLA+ allows. A loop of the code is one step per iteration,
so that its termination and its intermediate states are visible; a function without a loop is one
action, or one action per outcome. What a program was called with (its command line, the bios a task
submits, the device) is a variable chosen in `Init` from a constant set, so that one run covers many
calls. A definition whose comment begins with "Mutant of" is a faulty variant of the next definition.

### mini-malloc

A block is the address of its header; `bsize`, `bfree`, `prev`, `next` are functions on the set
`blocks` of headers written. A link the code has not initialised has the value `Uninit`. `my_malloc`
is `MallocReject` (size 0, or the overflow guard), or `MallocBegin`, the steps `FindNext` of
`find_free_block`, and then `MallocReuse` (with `remove_free_block`), `MallocGrow`, or
`MallocNoMemory` (`sbrk` failed). `my_free` is `FreeIgnored` (NULL, or already free) or
`FreeInsert`. `Increment` is the argument as `sbrk` sees it: `sizeof(block_t) + size` reduced to a
signed word. `ForeignSbrk` stands for the C library's own use of the break. `owned` is a ghost: the
pointers the client holds and the sizes it asked for.

The client frees blocks it received, possibly twice; a pointer that never came from `my_malloc` is
outside the contract and not modelled.

### prefetch-sim

`BufferPool` keeps the array `slots`, `count` and `evict_pos`; an insertion is `InsertPresent`
(nothing changes: the block is not renewed), `InsertFree` or `InsertEvict`. `LruBufferPool` adds
`clock` and `last_used`. Both are shown to implement an abstract cache, a queue and a recency order
(`ImplementsFifo`, `ImplementsLru`), through a refinement mapping that reads the queue off the array.
`PrefetchDriver` has an access as one action (lookup, and on a miss `pread` and insertion, or its
failure, which ends the program), then the policy, which sets up a range, then one `Prefetch` per
block of the range. `ReadAround` does the same for the locality walk of its benchmark. Timing, the
creation of the test file and printing are left out.

`WorkloadGen` has the checks of `generate_offsets`, one step per swap of `partial_shuffle` with the
random index chosen freely, and the final sort and scaling in one step. The driver of `main.c` runs it
first (`DoGenerate`) and takes its block numbers from the offsets (`OffsetBlock`).

### readaround-split

`BioSplit` follows one bio: `ScanBegin` computes the limit (`get_max_io_size` with the hook),
`VecMisaligned`, `VecGap`, `VecFast`, `VecSlow`, `SegNext`, `SegsDone` are the iterations of
`bio_split_io_at` and `bvec_split_segs`, `AllFits`, `CutRefused`, `CutTaken` its exits;
`WriteZeroes`, `Discard` the other kinds of bio. A cut sends the front off to `pieces` and starts
again with the rest, as the resubmission does, including the test for alignment of
`blk_mq_submit_bio`. `ClearWriteZeroes` is a completion handler that disables write-zeroes
concurrently. Sizes are in sectors, masks are given as moduli. What a device and a bio may be is
stated by assumptions. `LimitsAssumption`: the limits are numbers and divide each other as
`blk_validate_limits` (not in the repository) sees to, and a page and the segment boundary, both
powers of two, divide one another. `BiosAssumption`: a bio with data has the size of its vectors, of
which there is at least one, each with a length and beginning in an aligned page. No bio is encrypted:
the masks a vector is tested with are those of the device.

`BioChain` holds bios as records with the count `__bi_remaining`, status and parent. `bio_endio` is
taken apart where other CPUs can step between: the count (`EndioRemaining`), the call of `bi_end_io`,
the test and the setting of the parent's status. `BlockLayer` adds two tasks, one with a plug, each
in `blk_mq_submit_bio`: entering (which may fail), splitting, merging into the plug, merging into the
elevator or software queue (with the join of two requests that became adjacent), and either the plug
(flushed when full) or insertion or direct issue. An elevator offers a request that is inserted to one
it could join (`Offer`), discards also when they are not adjacent; the join that
`elv_attempt_insert_merge` (external) then tries with the result is left out. `FlushAsleep` is the flush of a plug whose task is
put to sleep. The device may report any prefix of a request, well or in error, on any CPU; `UpdateBio`
is one iteration of `blk_update_request`, `Leftover` what it does to the rest of the request. In
`BlockLayer` a sector is a segment and only the cuts at the window, at `max_sectors` and at a chunk
are made, since what is cut where is the business of `BioSplit`.

`submit_bio_noacct`, the elevator and the device are not in the repository. They are modelled from
their use: the remainder of a split goes first, an elevator offers any of its requests, a device
completes in any order.

`FolioLock` is the lock bit of a folio (`mm/filemap.c`): tasks test and set it without a lock, waiters
queue themselves under the lock of a hashed wait queue (`qlock`) that folios share, and whoever clears
a bit looks into the queue if `PG_waiters` is set. A program gives each task one kind of work on one
folio. `Repeat`, `TryFlag`, `Woken`, `Killed` and `Finish` are `folio_wait_bit_common` taken apart
where another CPU can step between; `WakeBegin`, `Skip`, `Stop`, `Wake`, `Delete`, `WakeEnd` are
`folio_wake_bit` with one entry of the queue per step, the removal of the entry being a step of its own
because the woken task may run before it. The queue is a set with the entries ahead of each, which
serves the proof as well. The inline fast paths, `wake_page_match`, the list operations and the
callback of an asynchronous reader (`AsyncRetry`) are outside these files. A folio whose writeback
ends is not dropped behind.

The page cache of one file is a record `m` (`PageCache`): `i_pages`, the folios with lock, flags and
references, the reads under way. Its operations are functions of the record, so that one step of a
task can compose several. A task is at a program counter with the locals of its call; a step is what
the code does between two points where another task can matter: a lookup under RCU, a lock, the
addition of one folio, the submission of a batch, a sleep. `PageReadahead` has the decisions
(`page_cache_sync_ra`, `page_cache_async_ra`, `force_page_cache_ra`) as one step each and the filling
of the window as one step per folio under the shared invalidate lock; `read_pages` hands the batch
to the disk. `FileRead` is `filemap_read` with `filemap_get_pages`, `filemap_create_folio`,
`filemap_update_page` and the copy, and `do_read_cache_folio`. `PageFault` is a fault with the mmap
lock, which is dropped before I/O at the first try, fault-around (the lookup, the look at the flags, the
trylock and the second look of `next_uptodate_folio` are steps of their own; the page table may be gone)
under the page table lock, the retry paths and the results of `filemap_fault`. `FileCache` adds truncation and hole punching (external,
under the exclusive invalidate lock: unmap, remove what can be locked, wait for the rest), reclaim,
invalidation that clears `uptodate`, fatal signals, and the disk, which completes reads in any order
and, in some scenarios, with errors. Waiting for a folio is waiting until it is unlocked; how the
waiter is woken is the business of `FolioLock`. Positions are in pages.

The request queue is modelled in three layers. `QueueGate` is the protocol between users of a queue
and those who freeze or quiesce it: the users count in `usage`, a dispatch is membership in `section`,
and `synchronize_rcu` waits for the members it found (`grace`). `RequestQueue` has the state of
requests, tags, budgets, lists, timer and device as a record `m` with the operations as functions:
allocation (alone and in batches), start, freeing with its reference, end, requeue, completion on the
submitting CPU or remotely, the marks `RESTART` and `stopped`, the average of busyness. `HwQueue` puts
threads on it: tasks in `blk_mq_submit_bio` or `blk_execute_rq`, with a plug or without, which freeze,
quiesce and stop the queue; `run_work`, `requeue_work` and `timeout_work`; the device, which accepts,
refuses in the ways the driver's interface allows, loses, completes and fails. Where the code reads
shared state and acts on it later, those are two steps; so the test of a direct issue for a stopped or
quiesced queue, the insertion that follows, and the run of the queue are three (`TryIssue` or
`IssueNext`, `InsertRequest`, `blk_mq_run_hw_queue`). Merged into one step are: an asynchronous run
of the queue (test and queueing of the work), the entry of a dispatch section with its test of
`quiesced`, the insertion of a bio behind an elevator with its test for one, the flush of the plug of
a task that sleeps, the taking of a budget with the decision to issue, and the walk's short reference
to a request that has not expired. A thread that finds the queue quiesced is not counted in `section`
while it inserts, although it is still in its RCU section there: a quiesce may return earlier in the
model than in the code, never later. A driver may refuse a request before or after it has started it. The delay of a delayed
run is abstracted to "later". A start of a request takes less than `rq_timeout`. `QuietNoDispatch`,
`FrozenIsEmpty` and `ImplementsGate` tie the layers together. blk-mq has one hardware queue here.

## 3. Runs

| Run | Expect | What is checked |
|---|---|---|
| `mini_malloc` | pass | free list sound, blocks disjoint, pointers usable, the heap grows only when nothing fits |
| `mini_malloc_huge` | violation | a size above `INTPTR_MAX` passes the guard and lowers the break |
| `prefetch_bench` | pass | the offsets of a trace are distinct whole blocks of the file in every repeat, FIFO refinement, a window is still cached when the reader comes, a sequential trace misses twice, the adaptive window reaches its maximum |
| `read_around` | pass | LRU refinement, the neighbourhood of the latest access is cached |
| `bio_split` | pass | pieces tile the bio in sectors and memory, and what may not be split is sent whole or not at all; each piece fits the device, none is shorter than it need be; cuts are at blocks, so that the remainder is never refused; a read-around bio is cut exactly once |
| `bio_split_hook` | violation | "may be submitted as a single request": the hook returns before it looks at chunk or limits |
| `block_layer` | pass | the chain count is exact, each bio ends once, after all its parts, without losing an error; halves do not rejoin; requests are contiguous and within limits, joins of discards that the code does not test excepted; everything ends |
| `folio_lock` | pass | the lock has one owner, a waiter on a clear bit has a wake-up coming, everybody returns, unless a killed waiter swallows a wake-up |
| `folio_lock_killed` | violation | "wakes up any thread sleeping on the page lock": not if the thread it woke has just seen a signal |
| `page_cache` | pass | references and locks of folios add up through every retry and error, `i_pages` is consistent, page tables map what the cache holds, a read copies the pages it asked for, a fault keeps its contract about the mmap lock, a stream reads nothing twice and misses once, unless its windows are of one page, every call returns |
| `request_queue` | pass | a request is in one place with the right references, `q_usage_counter` is exact, no tag or budget leaks, frozen means empty, nothing reaches the driver while quiesced, the queue implements the gate, every bio ends and every call returns |
| `request_queue_timer` | violation | "no requests are pending": a request is in flight and no timer is armed |

Bounds, and why they are enough:

* `mini_malloc`: header 32, a byte-sized `size_t`, sizes 0, 8, 24 and one over the guard, heap of 192
  bytes. That is up to four blocks of two sizes: head, inner, tail and only node of the list occur,
  reuse of a larger block, failure of `sbrk`, and gaps between blocks.
* `prefetch_bench`: a pool of 4 blocks, windows from 0 to one more than the pool, traces of up to 13
  accesses so that the pool wraps around and the window is renewed several times, two repeats; files
  with a partial last block.
* `read_around`: pool 3, file of 7 blocks, radii 0 to 3, so that the neighbourhood is cut at both ends
  and is smaller or larger than the pool.
* `bio_split`: ten devices which differ from a base device in one or two limits each, and every bio of
  one to three vectors out of seven shapes at two positions; windows of 8 sectors on chunks of 4.
* `block_layer`: 17 programs of one to three bios for two tasks, a plug of 2 requests, two CPUs, with
  and without an elevator. The programs put a window between reads adjacent to it on either side, so
  that each kind of merge, and each refusal, happens; discards that lie apart meet in the plug, and in
  the queue of an elevator with a request of one bio or of two, or find it full.
* `folio_lock`: 13 programs for three tasks: locks, waits, writeback, asynchronous and killable locks
  on one folio, or on two that share the queue. Three tasks make an owner, a waiter and one that
  overtakes; two rounds let the owner come back for the lock while the waiter wakes;
  `sysctl_page_lock_unfairness` is 1, so that a waiter tries once and then asks for a handoff. Rounds
  are bounded because the code does not exclude starvation: with two or more tasks that keep taking
  the lock, even a waiter that asked for a handoff can find it taken each time, since
  `wake_page_function` then leaves it where it is.
* `page_cache`: two tasks with one or two calls each. Streams over files of 1 to 8 pages with windows
  of 1 to 4 pages, reads of 1 to 3, folios of 1 or up to 4 pages and filesystem blocks of 1 or 4;
  races of each kind of mapping with a hole, a truncation, another fault and a cached read on files of
  two or three pages; the same with a failing disk, a fatal signal, a single folio of memory, one page
  to reclaim; a congested device; readahead off; a random file; a second open file that meets what the
  first left. At most one signal per killable task, and `reclaims` and `clears` bound reclaim and
  invalidation. Files of 8 pages let a window be renewed at least twice.
* `request_queue`: thirty-three scenarios of two tasks with one to four calls each, two or three
  requests, one or two driver tags, budgets of one or two, and caps on how often the device refuses
  (`trouble`), loses (`losses`) or sends back (`retries`), on resets and on time (`clock`). They are
  grouped by what they bring together: direct issue, an elevator with scarce tags, plugs with batches
  against freezes, freezes and quiesces of two tasks, timeouts against late answers. `Weight` and
  `Factor` of the average are 2 and 2 instead of 8 and 16: they set how long a queue counts as busy.
  Plugs hold at most two requests when the device refuses, so that one branch is not reached: the
  second attempt of a flush (`blk_mq_try_issue_list_directly`) being refused with requests left over.

No symmetry is declared. Counters are bounded by the length of the trace, the number of bios or the
calls of a scenario.

Fairness. `block_layer` assumes weak fairness of `Progress`, that is of "some task runs, a request is
dispatched, or a CPU or the device does its next step". This is weaker than fairness for each of them
and suffices because every step makes progress. That the device answers is an assumption on hardware;
a device that does not is a case of `request_queue`, where the timeout deals with it. `FlushAsleep` is
not fair: a task need not sleep. `folio_lock` assumes weak fairness of each task's steps once it has
begun, unlocking included: owners of a folio lock let go of it. Nobody has to begin or to be killed.
`page_cache` assumes weak fairness of each task and of the disk: the scheduler runs every runnable
task, and a read ends, well or not. Signals, reclaim and invalidation are not fair. `request_queue`
assumes weak fairness of each task, of each worker, of the completion of requests the device has not
lost, of the softirq, of the other queue that shares the tags, and of time. Deadlock is checked except
in the runs of `FolioLock`, where a swallowed wake-up really stops the system (`EveryoneReturns` says
it is the only thing that does), and of `HwQueue`, which stops when its tasks are done (`AllReturn`
says it does not stop before). Elsewhere a finished program stutters explicitly (`Done`, `Stopped`).

## 4. Proofs

`MiniMallocProofs` proves, for every header size, every width of `size_t`, every set of request sizes
and every heap, under the assumption `SaneSizes` (no accepted size is negative as an `intptr_t`; the
run `mini_malloc_huge` shows that it is needed):

* `TypeCorrect`: `Spec => []TypeOK`;
* `FreeListCorrect`: `Spec => []FreeListSound`;
* `NoOverlap`: `Spec => []BlocksDisjoint`;
* `PointersUsable`: `Spec => []OwnedFits`;
* `FirstFit` and `GrowthJustified`: the search passes no block that fits, so `my_malloc` moves the
  break only when none does.

The argument. `FreeListSound` is not inductive: that a removed block leaves a sound list needs that a
block is not its own neighbour, which needs acyclicity; that a new block is fresh needs that all
blocks end below the break; completeness, which speaks of all sets closed under `next`, is awkward to
preserve directly. The inductive invariant `IInv` therefore joins type correctness, `CallOK` (a call
in progress is for an accepted size), `ListLinked`, `ListAcyclic`, `BackToHead` (following `prev`
leads out of every set without the head), `BlocksDisjoint` and `OwnedFits`. Lists are described by
quantification over sets of free blocks, so that no induction over the list is needed: to preserve
acyclicity under removal of `b`, a set `S` of the new list is tested in the old one as `S` or
`S \union {b}`. One lemma per action shows that it preserves `IInv`; `HeadReachesAll` derives
completeness from it. First fit is a second induction relative to `IInv`: the blocks not yet passed
are those in every set that contains the cursor and is closed under `next`.

`FolioLockProofs` proves for any number of tasks and folios, any programs and any unfairness:

* `TypeCorrect`: `Spec => []TypeOK`, which includes who holds the lock of the queue and who is in it;
* `OneOwner`: `Spec => []LockHasOneOwner`;
* `NoWakeupLost`: `Spec => []WakeupPending`.

`LockHasOneOwner` is not inductive: when `Wake` takes the bit for a waiter, the waiter must still be
there to own it, so the entries of the queue must belong to tasks that sleep or are about to finish
(`QueueOK`, part of `TypeOK`), and an entry that was woken must be the one its waker is about to take
out, or a task that began again would be found in the queue (`FlagsOK`). Each action is one of three
cases, each a lemma: nobody gains or loses the lock, one task takes a free lock, the owner lets go.

`NoWakeupLost` is a second induction relative to the first. `WakeupPending` speaks of a waiter asleep;
the invariant must speak of every entry of the queue whose bit is clear and that was not told
(`Pends`), and say who will tell it (`Rescues`): a waker that has yet to look into the queue, a walk
that has the entry still before it, a waiter for the lock that was woken and will take it and let go
of it, or one that swallowed the wake-up, which is finding 3. For that the walk must happen, so
`PG_waiters` is set while somebody is queued, and it must not be cleared too early, so that a walk
remembers the entries it passed (`Marked`). An entry rescued by a taker is rescued by the unlock that
follows, which is why the case of the lock and that of writeback differ: nobody takes the latter, and
for it `WakeupPending` admits neither a taker nor a swallowed wake-up.

`HwQueueProofs` proves of the protocol `QueueGate`, for any threads:

* `GateHolds`: `GateSpec => [](FreezeInv /\ QuiesceInv)`, and from it
* `FreezeEmpties`: `GateSpec => []FrozenIsEmpty`, and
* `QuiesceSilences`: `GateSpec => []QuietNoDispatch`.

That a frozen queue is empty is not inductive: an unfreeze by another thread must not open the gate.
`FreezeInv` adds that `mq_freeze_depth` is the number of threads between their two calls, so that it
stays above zero while one of them has the queue frozen. The number is expressed by a numbering of
these threads (`Counts`), which needs no assumption that the threads are finitely many. `QuiesceInv`
says the same of `quiesce_depth`, and that a quiesce which still waits for its grace period waits for
every thread that is in a dispatch: those who entered later found the queue quiesced.

It lifts this to the model of `blk-mq.c`, for any tasks, workers, requests, tags and scenarios:
`QueueImplementsGate` is `Spec => ImplementsGate`, and `QueueFreezes` and `QueueQuiesces` follow from
it and the theorems about the gate. The refinement mapping is the identity on the variables of the
gate. One lemma per group of actions (dispatches, tasks, endings, timeouts) shows that a step is a
step of the gate or leaves its variables alone; only steps that take references or give them back
need that the counter is a natural number, which the gate itself keeps. `QuiesceStopsIssue` is the
action property `Spec => QuiescedStaysOut`: `SectionInv` says that whoever is between its test of
`quiesced` and the end of its dispatch is in the section; a step that adds to what the driver has is
taken there; and while a task has the queue quiesced nobody is in the section.

`PrefetchBenchProofs` proves of prefetch-sim, for every capacity and every set of accepted programs:

* `PoolImplementsFifo`: `Spec => ImplementsFifo`;
* `WindowRetained`: `Spec => []FreshWindowRetained`;
* `TwoMisses`: `Spec => []SequentialMissesTwice`;
* `WindowGrows`: `Spec => []LongRunReachesMax`;
* `TraceCorrect`: `Spec => []TraceValid`.

For the first, the queue is read off the array from `evict_pos` onward, modulo the capacity. `PoolInv`
says that nothing is evicted before the array is full, without which an insertion into a free slot
would not be at the end of the queue; `RangeInv` bounds what a policy can ask for, so that the blocks
are those of `FifoCache`. The lemmas `Place`, `Advance` and `Moved` are the arithmetic of the circular
array: advancing the cursor by one is `Tail`, and the slot just overwritten is the last.

The next three share `PolicyInv`. `EdgeInv` places the reader: inside the range that was fetched last,
before its edge, so that the equality test of the policy is met and never jumped over. While the
window grows, the blocks from the begin of the run up to the edge are the first two and the windows
`min`, `2 min`, ..., `window` (`Growing`), which bounds how long it can grow. `RetainInv` says that a
range whose blocks were all new is the end of the queue, so that a window no longer than the pool is
all there; `RunInv` says that in a single run the whole queue is a stretch of the file, so that every
range is new and only the first two accesses can miss.

For `TraceCorrect`, the array of `partial_shuffle` stays a permutation of the block numbers
(`Permutation`) under every swap. The final sort of the sequential pattern places each element by its
rank; `main.c` asks for all blocks of the file, and in a permutation of `0 .. n - 1` an element is its
own rank, by counting (`RankIsElement`), so that the sorted trace is the file in order.

`FileCacheProofs` proves `FaultsKeepContract`, `Spec => []FaultContract`, for any tasks, files, folios
and scenarios (`ScenariosAssumption`: every task has its list of calls): a fault that returns
`VM_FAULT_RETRY` has let go of the mmap lock unless it must not wait, any other return has it, and
none returns with the invalidate lock.
The contract is about the return; the invariant (`Fits`) gives the locks of a fault at each place it
can be: it has the mmap lock or has pinned the file instead, also while it is in the readahead
it called, which reads and faults share and which returns to where `rac.after` says; and it lists the
places where a task can have the invalidate lock for reading.
Each step is shown to leave the others' locals alone (`OwnStep`) and to fit where it leads
(`FitsAfter`).

`BioSplitProofs` and `BioSegmentProofs` prove, for every device and every bio of any length and number
of vectors that the assumptions of `BioSplit` admit, with the hook or without:

* `PiecesTileTheBio`: `Spec => []Conserved`;
* `RestIsAligned`: `Spec => []CutsAligned`;
* `PiecesFitTheDevice`: `Spec => []PiecesWithinLimits`.

`Conserved` relates the pieces to the bio as it was submitted, so a step needs that advancing by `a`
and then by `b` is advancing by `a + b` (`AfterAfter`), whatever vectors the cuts fall into, and that
a cut is inside the bio. The latter is where the scan matters: `ScanOK` says that `bytes` is the data
before the bvec, and what `bvec_split_segs` has counted and has left is the part of the bvec within
the limit. `CutOK` adds what was tested stays true: the bio is aligned once a scan began, and what may
not be split has no piece before it ends. For `CutsAligned`, each limit a cut can come from is a
multiple of the logical block, or is rounded down to one (`MaxIoBlocks`, `DiscardCutIs`): a lemma on
multiples of multiples for each rounding. A completion that clears `max_write_zeroes_sectors`
meanwhile changes none of the limits these need (`LimitsOK`).

`PiecesWithinLimits` compares two ways to count segments: `bvec_split_segs`, as it goes, up to its
limits, and `blk_recalc_rq_segments`, of a piece, afterwards. `SegInv` says, inside a bvec, that
wherever the bvec is later cut beyond what is counted, the segments up to the cut are those counted
and those the rest of the bvec would add. The fast path, which counts one without looking, is right
because a bvec within one page and one boundary is one segment (`OneSegment`, which is what needs pages
and boundaries to divide one another). A cut is then moved back to a block, possibly into an earlier
bvec, so that the counts must be monotone: a shorter vector has no more segments (`CountsMono`), nor
have fewer vectors (`SegsGrows`, `FrontFits`). Here sums over sequences are recursive functions, their
equations are proved from well-foundedness (`StartsDef`, `CountsDef`, `SegsDef`), and inductions are
by the smallest counterexample (`Smallest`).

`ReadAroundProofs` proves `NeighbourhoodKept`, `Spec => []NeighbourhoodCached`, for every capacity,
radius and walk. The invariant says that since some value `base` of the clock, the one at which the
range began, exactly the blocks of the range up to the cursor have been used (`Recent`). An eviction
takes the slot with the smallest `last_used`; if that were one of them, then all slots would have been
used since `base` and hold distinct blocks of the range, which is shorter than the pool
(`VictimNotRecent`, by counting). So the range never evicts itself.

Only model-checked:

* liveness, which is out of reach of the prover: `AllEnd` of the block layer, `EveryoneReturns` of the
  folio lock, `EveryCallReturns` of the page cache, `AllReturn` of the request queue;
* `ImplementsLru`, whose mapping sorts the slots by a count;
* of splitting, `PiecesMaximal` and `HalvedOnce`: they need that the scan counts exactly, not only
  that it never counts too little, and stops no earlier than it must;
* the block layer: its counts are sums over bios, requests and contexts, and its merges walk lists
  of any length;
* of the page cache, all but the contract of faults: the references of a folio are a sum over tasks,
  batches and the cache, and what a read copies or a stream reads ahead depends on that of every other
  task;
* of the request queue, who owns a request, the exact value of the counter, and leaks: again sums, over
  every list, plug and thread that can hold a request.

## 5. What the runs found

1. `malloc.c:59`: sizes whose total exceeds `INTPTR_MAX` pass the guard of line 42, and `sbrk` moves down.
2. `blk-merge.c:326`: the hook ignores `max_sectors` and chunk boundaries. `bio_split` therefore
   excepts hooked pieces from the sector part of `PiecesWithinLimits`.
3. `filemap.c:1376`: a killable waiter that has seen a signal is still in the queue. If it is woken for
   the lock there, it returns `-EINTR` and the wake-up is lost; the next waiter sleeps on a free lock
   until somebody else locks and unlocks the folio. `WakeupPending` and `EveryoneReturns` except this.
4. `blk-mq.c:1396`: `blk_mq_start_request` arms the timer before it marks the request as in flight. If
   the timer of an earlier request goes off between the two lines, `blk_mq_timeout_work` concludes that
   no request is pending (`:1793`) and leaves the timer off; a request the device then loses is not
   timed out until another one starts. `blk_add_timer` is not in the repository and is modelled from
   its use, and the window is two statements wide. The scenarios of `request_queue` do not reach it.

Seen while modelling, without a run:

* `malloc.c:57` does not round sizes, so that pointers are unaligned after an odd size, against
  `docs/design.md:93`.
* `docs/stage_progression.md:86` says that random traces never prefetch (two neighbours in a row by
  chance do), `:144` that the first two blocks always miss (not if an earlier run cached them), and
  `:195` that prefetched blocks are all consumed before they are evicted: inserting a cached block does
  not renew it (`buffer_pool.c:61`), so that a window that fits into the pool can lose a block an
  earlier run left there to its own tail. `adaptive_bench.c` accepts `min_window` 0, with which the
  window never grows, against `adaptive_readahead.h:9`.
* `documents/plan.md:31` says of the read-around cut that "the first half returns before the second".
  The halves are chained (`blk-merge.c:147`), and the pages of the front half are made available by the
  `bi_end_io` of the whole, which runs after both.
* `req_attempt_discard_merge` (`blk-merge.c:704`) compares only the first request's segments and the
  second's first bio with the limits, so that a request of several bios that joins can exceed
  `max_discard_sectors` and `max_discard_segments`. It is reached only through the insertion merge of
  an elevator. `MergedWithinLimits` excepts the requests such a join has made (`joined`); without the
  exception `block_layer` violates it.
* `page_cache_sync_ra` gives a stream a window of `ra_pages` at most, half of it as `async_size`
  (`readahead.c:609`): with one page that half is 0, no folio is marked (`readahead.c:257`), and every
  read is a synchronous miss. `StreamReadAhead` says so for windows of one page.
* `page_cache_prev_miss` (`filemap.c:1840`) promises an index outside the range when there is no gap,
  and returns `index - max_scan + 1`, which is inside.
* `page_cache_ra_order` reads `i_size` before it takes the invalidate lock; after a truncation in
  between it caches pages past the end of the file, against "Don't allocate pages past EOF"
  (`readahead.c:528`). Readers test the size again, so that nothing is copied or mapped from them.

## 6. Not modelled

* `test_malloc.c`, `timer.c`, `mmaptest.c`, scripts: drivers, clocks, no state of their own.
* `baseline_bench.c`: reads without a cache.
* In `bio.c`: allocation caches and the rescuer, page iteration and dirtying (data movement).
* In `blk-merge.c`: integrity and encryption contexts (with the data unit that
  `bio_split_io_at` adds to its masks), gaps between merged bios, chains of joins.
* In `blk-mq.c`: several hardware queues, their mapping and CPU hotplug, set-up and resizing of tag
  sets (they change the shape of the system under frozen queues; what they rely on is
  `FrozenIsEmpty`), polling, the flush machine, zone write plugs, `->queue_rqs`, sharing of tags by
  share (`hctx_may_queue`), passthrough requests in a plug.
* In `mm/filemap.c`: writing, writeback and its errors, direct I/O, dropbehind, splice, `SEEK_HOLE`,
  PMD mappings, shadow entries, `mincore`-like statistics, partly uptodate folios, reads with
  `IOCB_NOIO` or `IOCB_WAITQ`; in `mm/readahead.c` the system call, minimum folio orders and folios
  under writeback (nothing is written, so that the early return of `page_cache_async_ra` is not met). Of waiting for a folio, the reference a `DROP` waiter
  gives up inside the wait, migration entries and the thrashing statistics.
* Memory ordering: every model is sequentially consistent. The barriers the code places between a
  store and a load of two threads are assumed to do what their comments say.

## 7. Plan

1. Several hardware queues: the mapping of CPUs, hotplug (`blk_mq_hctx_notify_offline` against
   allocation), tags shared by share.
2. Writing: `generic_perform_write`, dirty folios and writeback errors (`errseq`), against truncation.
3. Proofs: `EndsOnceAfterAllParts` for any number of bios and contexts; `RefsExact` and `LocksOwned`
   of the page cache; `UsageExact` of the request queue; `PiecesMaximal` of `BioSplit`.
