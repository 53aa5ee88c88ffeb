----------------------------- MODULE MiniMalloc -----------------------------
(***************************************************************************)
(* The heap allocator of mini-malloc/src/malloc.c.                         *)
(*                                                                         *)
(* Memory is a range of byte addresses that ends at the program break brk. *)
(* A block is the address of a block_t header of HDR bytes, followed by    *)
(* its payload.  The fields of block_t are functions of the block's        *)
(* address.  Freed blocks form the doubly linked list free_list; my_malloc *)
(* searches it first fit and asks the operating system (sbrk) only when    *)
(* the search fails.  The search loop of find_free_block is modelled one   *)
(* iteration per step, so that its termination is a property and not an    *)
(* assumption.                                                             *)
(*                                                                         *)
(* size_t has 2^w values with SIZE_MAX the largest; sbrk takes an          *)
(* intptr_t, the same bits read as a signed number.                        *)
(***************************************************************************)
EXTENDS Integers

CONSTANTS
  HDR,        \* sizeof(block_t)
  SIZE_MAX,   \* the largest size_t
  Sizes,      \* the sizes the client asks for
  Growths,    \* what other users of sbrk (the C library) add to the break
  HeapBase,   \* the break before the first call
  HeapLimit   \* bound: where the operating system refuses to move the break

ASSUME MallocAssumption ==
  /\ HDR \in Nat \ {0}
  /\ SIZE_MAX \in Nat /\ SIZE_MAX > HDR
  /\ Sizes \subseteq 0 .. SIZE_MAX
  /\ Growths \subseteq Nat \ {0}
  /\ HeapBase \in Nat \ {0}
  /\ HeapLimit \in Nat /\ HeapLimit >= HeapBase

VARIABLES
  brk,        \* the program break
  blocks,     \* addresses of the block_t headers created so far
  bsize,      \* block_t.size
  bfree,      \* block_t.free
  prev, next, \* block_t.prev, block_t.next
  free_list,  \* head of the free list
  pc,         \* "idle", or "find" inside find_free_block
  size,       \* argument of the call to my_malloc in progress
  current,    \* cursor of find_free_block
  owned       \* pointers the client holds, with the size it asked for

heapVars == <<brk, blocks, bsize, bfree, prev, next, free_list>>
callVars == <<pc, size, current>>
vars == <<heapVars, callVars, owned>>

NULL == 0

(* The link fields of a header that my_malloc has just carved out of the   *)
(* heap: the code does not write them.                                     *)
Uninit == -1

Payload(b) == b + HDR
BlockEnd(b) == b + HDR + bsize[b]
FreeBlocks == {b \in blocks : bfree[b]}

Extend(f, b, v) == [a \in DOMAIN f \union {b} |-> IF a = b THEN v ELSE f[a]]
Without(f, p) == [a \in DOMAIN f \ {p} |-> f[a]]

Init ==
  /\ brk = HeapBase
  /\ blocks = {}
  /\ bsize = [b \in {} |-> 0]
  /\ bfree = [b \in {} |-> FALSE]
  /\ prev = [b \in {} |-> NULL]
  /\ next = [b \in {} |-> NULL]
  /\ free_list = NULL
  /\ pc = "idle"
  /\ size = 0
  /\ current = NULL
  /\ owned = [p \in {} |-> 0]

-----------------------------------------------------------------------------
(* my_malloc *)

(* size = 0, or sizeof(block_t) + size would not fit in a size_t: returns  *)
(* NULL.                                                                   *)
MallocReject(n) ==
  /\ pc = "idle"
  /\ n = 0 \/ n > SIZE_MAX - HDR
  /\ UNCHANGED vars

MallocBegin(n) ==
  /\ pc = "idle"
  /\ n # 0 /\ n <= SIZE_MAX - HDR
  /\ pc' = "find"
  /\ size' = n
  /\ current' = free_list
  /\ UNCHANGED <<heapVars, owned>>

(* Mutants of Fits: the header counted as payload; a strict comparison.    *)
FitsWithHeader(b) == bfree[b] /\ bsize[b] + HDR >= size
Fits(b) == bfree[b] /\ bsize[b] >= size

(* One more iteration of the while loop of find_free_block.                *)
FindNext ==
  /\ pc = "find" /\ current # NULL /\ ~Fits(current)
  /\ current' = next[current]
  /\ UNCHANGED <<heapVars, pc, size, owned>>

(* Mutants of remove_free_block: the head is not moved; the successor      *)
(* keeps its link to the removed block.                                    *)
RemoveKeepsHead(b) ==
  /\ free_list' = free_list
  /\ next' = [a \in blocks |-> IF a = b THEN NULL
                               ELSE IF a = prev[b] THEN next[b] ELSE next[a]]
  /\ prev' = [a \in blocks |-> IF a = b THEN NULL
                               ELSE IF a = next[b] THEN prev[b] ELSE prev[a]]

remove_free_block(b) ==
  /\ free_list' = IF prev[b] # NULL THEN free_list ELSE next[b]
  /\ next' = [a \in blocks |-> IF a = b THEN NULL
                               ELSE IF a = prev[b] THEN next[b] ELSE next[a]]
  /\ prev' = [a \in blocks |-> IF a = b THEN NULL
                               ELSE IF a = next[b] THEN prev[b] ELSE prev[a]]

Return(p, n) ==
  /\ pc' = "idle"
  /\ size' = 0
  /\ current' = NULL
  /\ owned' = IF p = NULL THEN owned ELSE Extend(owned, p, n)

(* find_free_block returned a block: reuse it, with its old size.          *)
MallocReuse ==
  /\ pc = "find" /\ current # NULL /\ Fits(current)
  /\ remove_free_block(current)
  /\ bfree' = [bfree EXCEPT ![current] = FALSE]
  /\ Return(Payload(current), size)
  /\ UNCHANGED <<brk, blocks, bsize>>

(* Mutant of Increment: the header is not counted.                         *)
IncrementPayload(n) == n

(* total_size as sbrk sees it: an intptr_t.                                *)
Increment(n) ==
  LET total_size == HDR + n
  IN  IF 2 * total_size > SIZE_MAX THEN total_size - (SIZE_MAX + 1) ELSE total_size

(* Mutant of MallocGrow: the search is given up at the first block that is *)
(* too small.                                                              *)
GrowEarly ==
  /\ pc = "find" /\ (current # NULL => ~Fits(current))
  /\ brk + Increment(size) \in HeapBase .. HeapLimit
  /\ brk' = brk + Increment(size)
  /\ blocks' = blocks \union {brk}
  /\ bsize' = Extend(bsize, brk, size)
  /\ bfree' = Extend(bfree, brk, FALSE)
  /\ prev' = Extend(prev, brk, Uninit)
  /\ next' = Extend(next, brk, Uninit)
  /\ Return(Payload(brk), size)
  /\ UNCHANGED free_list

(* sbrk moves the break by the increment and returns the old break, where  *)
(* my_malloc writes the header.                                            *)
MallocGrow ==
  /\ pc = "find" /\ current = NULL
  /\ brk + Increment(size) \in HeapBase .. HeapLimit
  /\ brk' = brk + Increment(size)
  /\ blocks' = blocks \union {brk}
  /\ bsize' = Extend(bsize, brk, size)
  /\ bfree' = Extend(bfree, brk, FALSE)
  /\ prev' = Extend(prev, brk, Uninit)
  /\ next' = Extend(next, brk, Uninit)
  /\ Return(Payload(brk), size)
  /\ UNCHANGED free_list

(* sbrk returned (void * )-1.                                              *)
MallocNoMemory ==
  /\ pc = "find" /\ current = NULL
  /\ Return(NULL, size)
  /\ UNCHANGED heapVars

-----------------------------------------------------------------------------
(* my_free(ptr), for NULL or the payload of any block, held or freed before. *)

(* ptr = NULL, or block->free is set: a double free is ignored.            *)
FreeIgnored(ptr) ==
  /\ pc = "idle"
  /\ ptr # NULL => bfree[ptr - HDR]
  /\ UNCHANGED vars

(* Mutants of FreeInsert: a double free is not ignored; the old list is    *)
(* dropped instead of linked behind the block.                             *)
FreeTwice(ptr) ==
  LET block == ptr - HDR
  IN  /\ pc = "idle"
      /\ ptr # NULL
      /\ bfree' = [bfree EXCEPT ![block] = TRUE]
      /\ prev' = [a \in blocks |-> IF a = free_list THEN block
                                   ELSE IF a = block THEN NULL ELSE prev[a]]
      /\ next' = [next EXCEPT ![block] = free_list]
      /\ free_list' = block
      /\ owned' = Without(owned, ptr)
      /\ UNCHANGED <<brk, blocks, bsize, callVars>>

(* Mark the block and insert it at the head of the free list.              *)
FreeInsert(ptr) ==
  LET block == ptr - HDR
  IN  /\ pc = "idle"
      /\ ptr # NULL /\ ~bfree[block]
      /\ bfree' = [bfree EXCEPT ![block] = TRUE]
      /\ prev' = [a \in blocks |-> IF a = block THEN NULL
                                   ELSE IF a = free_list THEN block ELSE prev[a]]
      /\ next' = [next EXCEPT ![block] = free_list]
      /\ free_list' = block
      /\ owned' = Without(owned, ptr)
      /\ UNCHANGED <<brk, blocks, bsize, callVars>>

my_free(ptr) == FreeIgnored(ptr) \/ FreeInsert(ptr)

(* The C library moves the break between two calls: blocks need not be     *)
(* adjacent.                                                               *)
ForeignSbrk(n) ==
  /\ pc = "idle"
  /\ brk + n <= HeapLimit
  /\ brk' = brk + n
  /\ UNCHANGED <<blocks, bsize, bfree, prev, next, free_list, callVars, owned>>

(* The part of my_malloc that runs once its argument is accepted.          *)
MallocStep ==
  \/ FindNext
  \/ MallocReuse
  \/ MallocGrow
  \/ MallocNoMemory

Next ==
  \/ \E n \in Sizes : MallocReject(n) \/ MallocBegin(n)
  \/ MallocStep
  \/ \E ptr \in {NULL} \union {Payload(b) : b \in blocks} : my_free(ptr)
  \/ \E n \in Growths : ForeignSbrk(n)

Spec == Init /\ [][Next]_vars

-----------------------------------------------------------------------------
(* Properties *)

(* The sizes for which total_size is a positive intptr_t whenever my_malloc *)
(* accepts them.                                                           *)
SaneSizes == \A n \in Sizes : n <= SIZE_MAX - HDR => Increment(n) > 0

(* The type invariant: links and cursors point to block headers, the head  *)
(* of the free list and the cursor to free ones, and exactly the payloads  *)
(* of the blocks not marked free are held.                                 *)
TypeOK ==
  /\ brk \in Nat /\ brk >= HeapBase
  /\ blocks \subseteq Nat \ {NULL}
  /\ bsize \in [blocks -> Nat \ {0}]
  /\ bfree \in [blocks -> BOOLEAN]
  /\ prev \in [blocks -> blocks \union {NULL, Uninit}]
  /\ next \in [blocks -> blocks \union {NULL, Uninit}]
  /\ free_list \in FreeBlocks \union {NULL}
  /\ pc \in {"idle", "find"}
  /\ size \in Nat
  /\ current \in FreeBlocks \union {NULL}
  /\ owned \in [{Payload(b) : b \in blocks \ FreeBlocks} -> Nat]

(* The free list is a well-formed doubly linked list: the head is the one  *)
(* node without a predecessor, and prev and next are inverse to each other. *)
(* It breaks if remove_free_block or my_free forgets one of the four links *)
(* they maintain, or a link my_malloc never initialised is followed.       *)
ListLinked ==
  \A b \in FreeBlocks :
    /\ prev[b] = NULL <=> b = free_list
    /\ prev[b] # NULL => prev[b] \in FreeBlocks /\ next[prev[b]] = b
    /\ next[b] # NULL => next[b] \in FreeBlocks /\ prev[next[b]] = b

(* No set of free blocks is closed under next: the list has no cycle, which *)
(* is what the double-free guard of my_free is for (malloc.c:81-82), and   *)
(* find_free_block cannot loop.                                            *)
ListAcyclic ==
  \A S \in SUBSET FreeBlocks : S # {} => \E b \in S : next[b] \notin S

(* No freed block is lost: whatever contains the head and is closed under  *)
(* next contains every block that is marked free.                          *)
ListComplete ==
  \A S \in SUBSET FreeBlocks :
    /\ free_list # NULL => free_list \in S
    /\ \A b \in S : next[b] # NULL => next[b] \in S
    => S = FreeBlocks

(* The free list is a doubly linked list of exactly the blocks marked free. *)
(* It takes several calls of my_malloc and my_free to break it: a double   *)
(* free closes a cycle, a removal that forgets a link loses a block.       *)
FreeListSound == ListLinked /\ ListAcyclic /\ ListComplete

(* Blocks, header and payload, lie inside the heap and do not overlap: what *)
(* a client writes to its payload reaches no header and no other payload.  *)
BlocksDisjoint ==
  /\ \A b \in blocks : b >= HeapBase /\ BlockEnd(b) <= brk
  /\ \A b, c \in blocks : b # c => BlockEnd(b) <= c \/ BlockEnd(c) <= b

(* A pointer the client holds has at least the bytes it asked for, and its *)
(* block is not in the free list, so no later my_malloc returns it again.  *)
OwnedFits ==
  \A p \in DOMAIN owned :
    /\ p - HDR \in blocks \ FreeBlocks
    /\ owned[p] <= bsize[p - HDR]

(* First fit: the free blocks large enough for the request are still ahead *)
(* of the cursor of find_free_block.                                       *)
NothingFittingSkipped ==
  pc = "find" =>
    \A S \in SUBSET FreeBlocks :
      /\ current # NULL => current \in S
      /\ \A b \in S : next[b] # NULL => next[b] \in S
      => \A b \in FreeBlocks : bsize[b] >= size => b \in S

(* The heap grows for a request only when no free block could serve it.    *)
GrowOnlyWhenNothingFits ==
  [][pc = "find" /\ brk' # brk => \A b \in FreeBlocks : bsize[b] < size]_vars

(* my_malloc moves the break up and never down, as docs/design.md says of  *)
(* sbrk(increment).                                                        *)
HeapOnlyGrows == [][brk' >= brk]_vars
=============================================================================
