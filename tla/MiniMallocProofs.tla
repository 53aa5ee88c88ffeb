-------------------------- MODULE MiniMallocProofs --------------------------
(***************************************************************************)
(* Proofs about MiniMalloc, for every header size, size_t, set of request  *)
(* sizes and heap.  They assume SaneSizes: no accepted request turns       *)
(* negative when sbrk reads it as an intptr_t.                             *)
(***************************************************************************)
EXTENDS MiniMalloc, TLAPS

(* A call in progress is for a size that my_malloc accepted.               *)
CallOK == pc = "find" => size \in Sizes /\ size # 0 /\ size <= SIZE_MAX - HDR

(* Following prev from any free block leads out of every set that does not *)
(* contain the head.  With ListLinked it gives ListComplete.               *)
BackToHead ==
  \A S \in SUBSET FreeBlocks :
    S # {} /\ free_list \notin S => \E b \in S : prev[b] \notin S

(* The inductive invariant.  The links can be kept right only together     *)
(* with acyclicity (a removed block must not be its own neighbour), and    *)
(* the new block of MallocGrow is fresh only because blocks end before the *)
(* break.                                                                  *)
IInv ==
  /\ TypeOK
  /\ CallOK
  /\ ListLinked
  /\ ListAcyclic
  /\ BackToHead
  /\ BlocksDisjoint
  /\ OwnedFits

(* The inductive invariant holds before the first call.                    *)
LEMMA InitInv == Init => IInv
BY MallocAssumption DEF Init, IInv, TypeOK, CallOK, ListLinked, ListAcyclic, BackToHead,
   BlocksDisjoint, OwnedFits, FreeBlocks, Payload, NULL, Uninit

(* A free block is not its own neighbour.                                  *)
LEMMA NotOwnNeighbour ==
  ASSUME IInv, NEW b \in FreeBlocks
  PROVE  next[b] # b /\ prev[b] # b
<1>1. next[b] # b
  <2>1. {b} \in SUBSET FreeBlocks /\ {b} # {}
    OBVIOUS
  <2>2. \E c \in {b} : next[c] \notin {b}
    BY <2>1 DEF IInv, ListAcyclic
  <2>. QED BY <2>2
<1>2. prev[b] # b
  BY <1>1 DEF IInv, ListLinked, TypeOK, FreeBlocks, NULL
<1>. QED BY <1>1, <1>2

(* find_free_block and the calls that change nothing in the heap.          *)
LEMMA HeapUnchanged ==
  ASSUME IInv, UNCHANGED <<heapVars, owned>>,
         pc' \in {"idle", "find"}, size' \in Nat, current' \in FreeBlocks \union {NULL},
         CallOK'
  PROVE  IInv'
BY DEF IInv, TypeOK, ListLinked, ListAcyclic, BackToHead, BlocksDisjoint, OwnedFits,
       FreeBlocks, Payload, BlockEnd, heapVars

(* Entering find_free_block only sets the cursor.                          *)
LEMMA MallocBeginInv ==
  ASSUME IInv, NEW n \in Sizes, MallocBegin(n)
  PROVE  IInv'
<1>1. n \in Nat /\ CallOK'
  BY MallocAssumption DEF MallocBegin, CallOK
<1>. QED BY <1>1, HeapUnchanged DEF MallocBegin, IInv, TypeOK

(* Advancing the cursor keeps it on a free block or NULL.                  *)
LEMMA FindNextInv ==
  ASSUME IInv, FindNext
  PROVE  IInv'
<1>1. current \in FreeBlocks
  BY DEF IInv, TypeOK, FindNext
<1>2. next[current] \in FreeBlocks \union {NULL}
  BY <1>1 DEF IInv, ListLinked
<1>. QED BY <1>2, HeapUnchanged DEF FindNext, IInv, TypeOK, CallOK

(* A failed sbrk changes no block.                                         *)
LEMMA MallocNoMemoryInv ==
  ASSUME IInv, MallocNoMemory
  PROVE  IInv'
BY HeapUnchanged DEF MallocNoMemory, Return, IInv, TypeOK, CallOK

(* A foreign sbrk call leaves every block below the break.                 *)
LEMMA ForeignSbrkInv ==
  ASSUME IInv, NEW n \in Growths, ForeignSbrk(n)
  PROVE  IInv'
<1>1. n \in Nat /\ brk' \in Nat /\ brk' >= brk
  BY MallocAssumption DEF ForeignSbrk, IInv, TypeOK
<1>2. TypeOK' /\ CallOK'
  BY <1>1, MallocAssumption DEF ForeignSbrk, IInv, TypeOK, CallOK, callVars, FreeBlocks, Payload
<1>3. ListLinked' /\ ListAcyclic' /\ BackToHead' /\ OwnedFits'
  BY DEF ForeignSbrk, IInv, ListLinked, ListAcyclic, BackToHead, OwnedFits, FreeBlocks
<1>4. BlocksDisjoint'
  BY <1>1, MallocAssumption DEF ForeignSbrk, IInv, TypeOK, BlocksDisjoint, BlockEnd
<1>. QED BY <1>2, <1>3, <1>4 DEF IInv

(* The new block starts at the old break, so it is not one of the blocks.  *)
LEMMA MallocGrowInv ==
  ASSUME IInv, SaneSizes, MallocGrow
  PROVE  IInv'
<1>1. size \in Nat /\ size # 0 /\ Increment(size) = HDR + size
  <2>1. size \in Sizes /\ size # 0 /\ size <= SIZE_MAX - HDR
    BY DEF IInv, CallOK, MallocGrow
  <2>2. Increment(size) > 0
    BY <2>1 DEF SaneSizes
  <2>. QED BY <2>1, <2>2, MallocAssumption DEF Increment
<1>2. brk' = brk + HDR + size /\ brk' \in Nat /\ brk' > brk
  BY <1>1, MallocAssumption DEF MallocGrow, IInv, TypeOK
<1>3. brk \notin blocks /\ brk \in Nat \ {NULL}
  BY MallocAssumption DEF IInv, TypeOK, BlocksDisjoint, BlockEnd, NULL
<1>4. /\ blocks' = blocks \union {brk}
      /\ bsize' = [a \in blocks' |-> IF a = brk THEN size ELSE bsize[a]]
      /\ bfree' = [a \in blocks' |-> IF a = brk THEN FALSE ELSE bfree[a]]
      /\ prev' = [a \in blocks' |-> IF a = brk THEN Uninit ELSE prev[a]]
      /\ next' = [a \in blocks' |-> IF a = brk THEN Uninit ELSE next[a]]
  BY DEF MallocGrow, Extend, IInv, TypeOK
<1>5. FreeBlocks' = FreeBlocks /\ FreeBlocks \subseteq blocks
  BY <1>3, <1>4 DEF FreeBlocks
<1>6. owned' = [p \in DOMAIN owned \union {Payload(brk)} |->
                 IF p = Payload(brk) THEN size ELSE owned[p]]
  BY <1>3, MallocAssumption DEF MallocGrow, Return, Extend, Payload, NULL
<1>7. {Payload(b) : b \in blocks \ FreeBlocks}' = {Payload(b) : b \in blocks \ FreeBlocks} \union {Payload(brk)}
  BY <1>3, <1>4, <1>5 DEF Payload
<1>8. TypeOK'
  <2>1. owned' \in [{Payload(b) : b \in blocks \ FreeBlocks} -> Nat]'
    BY <1>1, <1>6, <1>7 DEF IInv, TypeOK
  <2>2. /\ bsize' \in [blocks' -> Nat \ {0}]
        /\ bfree' \in [blocks' -> BOOLEAN]
        /\ prev' \in [blocks' -> blocks' \union {NULL, Uninit}]
        /\ next' \in [blocks' -> blocks' \union {NULL, Uninit}]
        /\ blocks' \subseteq Nat \ {NULL}
    BY <1>1, <1>3, <1>4 DEF IInv, TypeOK
  <2>3. brk' >= HeapBase /\ free_list' \in FreeBlocks' \union {NULL}
    BY <1>2, <1>5, MallocAssumption DEF MallocGrow, IInv, TypeOK
  <2>4. pc' = "idle" /\ size' = 0 /\ current' = NULL
    BY DEF MallocGrow, Return
  <2>. QED BY <1>2, <2>1, <2>2, <2>3, <2>4 DEF TypeOK
<1>9. \A b \in FreeBlocks : next'[b] = next[b] /\ prev'[b] = prev[b]
  BY <1>3, <1>4, <1>5
<1>10. ListLinked'
  <2>1. free_list' = free_list
    BY DEF MallocGrow
  <2>. QED BY <2>1, <1>5, <1>9 DEF IInv, ListLinked
<1>11. ListAcyclic' /\ BackToHead'
  <2>1. free_list' = free_list
    BY DEF MallocGrow
  <2>. QED BY <2>1, <1>5, <1>9 DEF IInv, ListAcyclic, BackToHead
<1>12. BlocksDisjoint'
  <2>1. bsize'[brk] = size /\ brk + HDR + bsize'[brk] = brk'
    BY <1>1, <1>2, <1>4, MallocAssumption DEF IInv, TypeOK
  <2>2. \A b \in blocks : bsize'[b] = bsize[b] /\ b + HDR + bsize[b] \in Nat
    BY <1>3, <1>4, MallocAssumption DEF IInv, TypeOK
  <2>3. \A b \in blocks : b >= HeapBase /\ b + HDR + bsize[b] <= brk
    BY DEF IInv, BlocksDisjoint, BlockEnd
  <2>4. \A b \in blocks' : b >= HeapBase /\ b + HDR + bsize'[b] <= brk'
    BY <1>2, <1>4, <2>1, <2>2, <2>3, MallocAssumption DEF IInv, TypeOK
  <2>5. \A b, c \in blocks' : b # c => b + HDR + bsize'[b] <= c \/ c + HDR + bsize'[c] <= b
    BY <1>4, <2>1, <2>2, <2>3 DEF IInv, BlocksDisjoint, BlockEnd
  <2>. QED BY <2>4, <2>5 DEF BlocksDisjoint, BlockEnd
<1>13. OwnedFits'
  <2>1. Payload(brk) - HDR = brk
    BY MallocAssumption DEF Payload, IInv, TypeOK
  <2>2. \A p \in DOMAIN owned : p - HDR \in blocks \ FreeBlocks /\ owned[p] <= bsize[p - HDR]
    BY DEF IInv, OwnedFits
  <2>3. \A p \in DOMAIN owned : p # Payload(brk) /\ p - HDR # brk
    BY <1>3, <2>1, <2>2
  <2>. QED BY <1>1, <1>3, <1>4, <1>5, <1>6, <2>1, <2>2, <2>3 DEF OwnedFits
<1>14. CallOK'
  BY DEF MallocGrow, Return, CallOK
<1>. QED BY <1>8, <1>10, <1>11, <1>12, <1>13, <1>14 DEF IInv

(* Taking a block out of the list: its neighbours are joined.              *)
LEMMA MallocReuseInv ==
  ASSUME IInv, MallocReuse
  PROVE  IInv'
<1> DEFINE b == current
           F == FreeBlocks
<1>1. b \in F /\ F \subseteq blocks /\ b # NULL
  BY DEF IInv, TypeOK, MallocReuse, FreeBlocks
<1>2. next[b] # b /\ prev[b] # b
  BY <1>1, NotOwnNeighbour
<1>3. /\ bfree' = [bfree EXCEPT ![b] = FALSE]
      /\ free_list' = IF prev[b] # NULL THEN free_list ELSE next[b]
      /\ next' = [a \in blocks |-> IF a = b THEN NULL
                                   ELSE IF a = prev[b] THEN next[b] ELSE next[a]]
      /\ prev' = [a \in blocks |-> IF a = b THEN NULL
                                   ELSE IF a = next[b] THEN prev[b] ELSE prev[a]]
      /\ brk' = brk /\ blocks' = blocks /\ bsize' = bsize
      /\ pc' = "idle" /\ size' = 0 /\ current' = NULL
  BY DEF MallocReuse, remove_free_block, Return
<1>4. FreeBlocks' = F \ {b}
  BY <1>1, <1>3 DEF IInv, TypeOK, FreeBlocks
<1>5a. \A a \in F : prev[a] = NULL <=> a = free_list
  BY DEF IInv, ListLinked
<1>5b. \A a \in F : prev[a] # NULL => prev[a] \in F /\ next[prev[a]] = a
  BY DEF IInv, ListLinked
<1>5c. \A a \in F : next[a] # NULL => next[a] \in F /\ prev[next[a]] = a
  BY DEF IInv, ListLinked
<1>5d. /\ prev[b] = NULL <=> b = free_list
       /\ prev[b] # NULL => prev[b] \in F /\ next[prev[b]] = b
       /\ next[b] # NULL => next[b] \in F /\ prev[next[b]] = b
  BY <1>1, <1>5a, <1>5b, <1>5c
<1>6. NULL \notin F
  BY <1>1 DEF IInv, TypeOK
<1>7. ListLinked'
  <2> SUFFICES ASSUME NEW a \in F \ {b}
               PROVE  /\ prev'[a] = NULL <=> a = free_list'
                      /\ prev'[a] # NULL => prev'[a] \in F \ {b} /\ next'[prev'[a]] = a
                      /\ next'[a] # NULL => next'[a] \in F \ {b} /\ prev'[next'[a]] = a
    BY <1>4 DEF ListLinked
  <2>1. prev'[a] = NULL <=> a = free_list'
    BY <1>1, <1>2, <1>3, <1>5a, <1>5d, <1>6
  <2>2. prev'[a] # NULL => prev'[a] \in F \ {b} /\ next'[prev'[a]] = a
    BY <1>1, <1>2, <1>3, <1>5b, <1>5d, <1>6
  <2>3. next'[a] # NULL => next'[a] \in F \ {b} /\ prev'[next'[a]] = a
    BY <1>1, <1>2, <1>3, <1>5c, <1>5d, <1>6
  <2>. QED BY <2>1, <2>2, <2>3
<1>8. ListAcyclic'
  <2> SUFFICES ASSUME NEW S \in SUBSET (F \ {b}), S # {}
               PROVE  \E a \in S : next'[a] \notin S
    BY <1>4 DEF ListAcyclic
  <2>1. CASE prev[b] \notin S
    <3>1. PICK a \in S : next[a] \notin S
      BY <1>1 DEF IInv, ListAcyclic
    <3>. QED BY <2>1, <3>1, <1>1, <1>3
  <2>2. CASE prev[b] \in S
    <3>1. PICK a \in S \union {b} : next[a] \notin S \union {b}
      BY <1>1 DEF IInv, ListAcyclic
    <3>2. CASE a = b
      BY <2>2, <3>1, <3>2, <1>1, <1>2, <1>3
    <3>3. CASE a # b
      <4>1. a \in S /\ a # prev[b]
        BY <2>2, <3>1, <3>3, <1>1, <1>5d, <1>6
      <4>. QED BY <4>1, <3>1, <3>3, <1>1, <1>3
    <3>. QED BY <3>2, <3>3
  <2>. QED BY <2>1, <2>2
<1>9. BackToHead'
  <2> SUFFICES ASSUME NEW S \in SUBSET (F \ {b}), S # {}, free_list' \notin S
               PROVE  \E a \in S : prev'[a] \notin S
    BY <1>4 DEF BackToHead
  <2>1. CASE next[b] \notin S
    <3>1. free_list \notin S
      BY <1>1, <1>3, <1>5a, <1>5d, <1>6
    <3>2. PICK a \in S : prev[a] \notin S
      BY <3>1, <1>1 DEF IInv, BackToHead
    <3>. QED BY <2>1, <3>2, <1>1, <1>3
  <2>2. CASE next[b] \in S
    <3>1. free_list \notin S \union {b}
      BY <2>2, <1>1, <1>3, <1>5a, <1>5d, <1>6
    <3>2. PICK a \in S \union {b} : prev[a] \notin S \union {b}
      BY <3>1, <1>1 DEF IInv, BackToHead
    <3>3. CASE a = b
      BY <2>2, <3>2, <3>3, <1>1, <1>2, <1>3
    <3>4. CASE a # b
      <4>1. a \in S /\ a # next[b]
        BY <2>2, <3>2, <3>4, <1>1, <1>5d, <1>6
      <4>. QED BY <4>1, <3>2, <3>4, <1>1, <1>3
    <3>. QED BY <3>3, <3>4
  <2>. QED BY <2>1, <2>2
<1>10. BlocksDisjoint'
  BY <1>3 DEF IInv, BlocksDisjoint, BlockEnd
<1>11. owned' = [p \in DOMAIN owned \union {Payload(b)} |->
                  IF p = Payload(b) THEN size ELSE owned[p]]
  BY <1>1, MallocAssumption DEF IInv, TypeOK, MallocReuse, Return, Extend, Payload, NULL
<1>12. TypeOK'
  <2>1. {Payload(a) : a \in blocks \ FreeBlocks}' = {Payload(a) : a \in blocks \ F} \union {Payload(b)}
    BY <1>1, <1>3, <1>4 DEF Payload
  <2>2. owned' \in [{Payload(a) : a \in blocks \ FreeBlocks} -> Nat]'
    BY <1>11, <2>1 DEF IInv, TypeOK
  <2>3. free_list' \in FreeBlocks' \union {NULL}
    BY <1>1, <1>2, <1>3, <1>4, <1>5d DEF IInv, TypeOK
  <2>4. prev' \in [blocks' -> blocks' \union {NULL, Uninit}] /\ next' \in [blocks' -> blocks' \union {NULL, Uninit}]
    BY <1>1, <1>3 DEF IInv, TypeOK
  <2>5. bfree' \in [blocks' -> BOOLEAN]
    BY <1>1, <1>3 DEF IInv, TypeOK
  <2>. QED BY <1>3, <2>2, <2>3, <2>4, <2>5 DEF IInv, TypeOK
<1>13. OwnedFits'
  <2>1. Payload(b) - HDR = b
    BY <1>1, MallocAssumption DEF Payload, IInv, TypeOK
  <2>2. \A p \in DOMAIN owned : p - HDR \in blocks \ F /\ owned[p] <= bsize[p - HDR]
    BY DEF IInv, OwnedFits
  <2>3. size <= bsize[b]
    BY <1>1 DEF MallocReuse, Fits, IInv, TypeOK
  <2>. QED BY <1>1, <1>3, <1>4, <1>11, <2>1, <2>2, <2>3 DEF OwnedFits
<1>14. CallOK'
  BY <1>3 DEF CallOK
<1>. QED BY <1>7, <1>8, <1>9, <1>10, <1>12, <1>13, <1>14 DEF IInv

(* Inserting a block at the head: nothing in the list points to it yet.    *)
LEMMA FreeInsertInv ==
  ASSUME IInv, NEW b \in blocks, FreeInsert(Payload(b))
  PROVE  IInv'
<1> DEFINE F == FreeBlocks
<1>1. Payload(b) - HDR = b /\ b # NULL
  BY MallocAssumption DEF IInv, TypeOK, Payload
<1>2. /\ ~bfree[b]
      /\ bfree' = [bfree EXCEPT ![b] = TRUE]
      /\ prev' = [a \in blocks |-> IF a = b THEN NULL
                                   ELSE IF a = free_list THEN b ELSE prev[a]]
      /\ next' = [next EXCEPT ![b] = free_list]
      /\ free_list' = b
      /\ owned' = [p \in DOMAIN owned \ {Payload(b)} |-> owned[p]]
      /\ brk' = brk /\ blocks' = blocks /\ bsize' = bsize
      /\ pc' = pc /\ size' = size /\ current' = current
  BY <1>1 DEF FreeInsert, callVars, Without
<1>3. b \notin F /\ F \subseteq blocks /\ NULL \notin F
  BY <1>2 DEF IInv, TypeOK, FreeBlocks
<1>4. FreeBlocks' = F \union {b}
  BY <1>2 DEF IInv, TypeOK, FreeBlocks
<1>5a. \A a \in F : prev[a] = NULL <=> a = free_list
  BY DEF IInv, ListLinked
<1>5b. \A a \in F : prev[a] # NULL => prev[a] \in F /\ next[prev[a]] = a
  BY DEF IInv, ListLinked
<1>5c. \A a \in F : next[a] # NULL => next[a] \in F /\ prev[next[a]] = a
  BY DEF IInv, ListLinked
<1>5d. free_list \in F \union {NULL}
  BY DEF IInv, TypeOK
<1>6. /\ next'[b] = free_list /\ prev'[b] = NULL
      /\ \A a \in F : next'[a] = next[a]
      /\ \A a \in F : a # free_list => prev'[a] = prev[a]
      /\ free_list \in F => prev'[free_list] = b
  BY <1>2, <1>3 DEF IInv, TypeOK
<1>7. ListLinked'
  <2> SUFFICES ASSUME NEW a \in F \union {b}
               PROVE  /\ prev'[a] = NULL <=> a = b
                      /\ prev'[a] # NULL => prev'[a] \in F \union {b} /\ next'[prev'[a]] = a
                      /\ next'[a] # NULL => next'[a] \in F \union {b} /\ prev'[next'[a]] = a
    BY <1>2, <1>4 DEF ListLinked
  <2>1. CASE a = b
    BY <2>1, <1>3, <1>5d, <1>6
  <2>2. CASE a # b /\ a = free_list
    BY <2>2, <1>1, <1>3, <1>5c, <1>5a, <1>6
  <2>3. CASE a # b /\ a # free_list
    <3>1. a \in F /\ prev'[a] = prev[a] /\ next'[a] = next[a] /\ prev[a] # NULL
      BY <2>3, <1>5a, <1>6
    <3>2. next[a] # NULL => next[a] \in F /\ next[a] # free_list
      BY <3>1, <1>1, <1>3, <1>5a, <1>5c
    <3>. QED BY <2>3, <3>1, <3>2, <1>5b, <1>5c, <1>6
  <2>. QED BY <2>1, <2>2, <2>3
<1>8. ListAcyclic'
  <2> SUFFICES ASSUME NEW S \in SUBSET (F \union {b}), S # {}
               PROVE  \E a \in S : next'[a] \notin S
    BY <1>4 DEF ListAcyclic
  <2>1. CASE S \subseteq {b}
    BY <2>1, <1>1, <1>3, <1>5d, <1>6
  <2>2. CASE ~(S \subseteq {b})
    <3>1. PICK a \in S \ {b} : next[a] \notin S \ {b}
      BY <2>2 DEF IInv, ListAcyclic
    <3>2. next[a] # b
      BY <3>1, <1>1, <1>3, <1>5c
    <3>. QED BY <3>1, <3>2, <1>6
  <2>. QED BY <2>1, <2>2
<1>9. BackToHead'
  <2> SUFFICES ASSUME NEW S \in SUBSET (F \union {b}), S # {}, b \notin S
               PROVE  \E a \in S : prev'[a] \notin S
    BY <1>2, <1>4 DEF BackToHead
  <2>1. CASE free_list \in S
    BY <2>1, <1>6
  <2>2. CASE free_list \notin S
    <3>1. PICK a \in S : prev[a] \notin S
      BY <2>2 DEF IInv, BackToHead
    <3>. QED BY <2>2, <3>1, <1>6
  <2>. QED BY <2>1, <2>2
<1>10. BlocksDisjoint'
  BY <1>2 DEF IInv, BlocksDisjoint, BlockEnd
<1>11. TypeOK'
  <2>1. \A a \in blocks : Payload(a) = Payload(b) => a = b
    BY MallocAssumption DEF IInv, TypeOK, Payload
  <2>2. {Payload(a) : a \in blocks \ FreeBlocks}' = {Payload(a) : a \in blocks \ F} \ {Payload(b)}
    BY <1>2, <1>4, <2>1 DEF Payload
  <2>3. owned' \in [{Payload(a) : a \in blocks \ FreeBlocks} -> Nat]'
    BY <1>2, <2>2 DEF IInv, TypeOK
  <2>4. prev' \in [blocks' -> blocks' \union {NULL, Uninit}] /\ next' \in [blocks' -> blocks' \union {NULL, Uninit}]
    BY <1>2, <1>3, <1>5d DEF IInv, TypeOK
  <2>5. bfree' \in [blocks' -> BOOLEAN]
    BY <1>2 DEF IInv, TypeOK
  <2>6. free_list' \in FreeBlocks' \union {NULL} /\ current' \in FreeBlocks' \union {NULL}
    BY <1>2, <1>4 DEF IInv, TypeOK
  <2>. QED BY <1>2, <2>3, <2>4, <2>5, <2>6 DEF IInv, TypeOK
<1>12. OwnedFits'
  <2>1. \A p \in DOMAIN owned \ {Payload(b)} : p - HDR # b
    BY MallocAssumption DEF IInv, TypeOK, Payload
  <2>2. DOMAIN owned' = DOMAIN owned \ {Payload(b)} /\ \A p \in DOMAIN owned' : owned'[p] = owned[p]
    BY <1>2
  <2>. QED BY <1>2, <1>4, <2>1, <2>2 DEF IInv, OwnedFits
<1>13. CallOK'
  BY <1>2 DEF IInv, CallOK
<1>. QED BY <1>7, <1>8, <1>9, <1>10, <1>11, <1>12, <1>13 DEF IInv

(* Every step keeps the invariant.                                         *)
LEMMA NextInv ==
  ASSUME IInv, SaneSizes, [Next]_vars
  PROVE  IInv'
<1>1. CASE UNCHANGED vars
  BY <1>1 DEF IInv, TypeOK, CallOK, ListLinked, ListAcyclic, BackToHead, BlocksDisjoint,
              OwnedFits, FreeBlocks, Payload, BlockEnd, vars, heapVars, callVars
<1>2. ASSUME NEW n \in Sizes, MallocReject(n) \/ MallocBegin(n)
      PROVE  IInv'
  BY <1>1, <1>2, MallocBeginInv DEF MallocReject
<1>3. CASE MallocStep
  BY <1>3, FindNextInv, MallocReuseInv, MallocGrowInv, MallocNoMemoryInv DEF MallocStep
<1>4. ASSUME NEW ptr \in {NULL} \union {Payload(b) : b \in blocks}, my_free(ptr)
      PROVE  IInv'
  <2>1. CASE FreeIgnored(ptr)
    BY <2>1, <1>1 DEF FreeIgnored
  <2>2. CASE FreeInsert(ptr)
    <3>1. PICK b \in blocks : ptr = Payload(b)
      BY <2>2 DEF FreeInsert
    <3>. QED BY <2>2, <3>1, FreeInsertInv
  <2>. QED BY <1>4, <2>1, <2>2 DEF my_free
<1>5. ASSUME NEW n \in Growths, ForeignSbrk(n)
      PROVE  IInv'
  BY <1>5, ForeignSbrkInv
<1>. QED BY <1>1, <1>2, <1>3, <1>4, <1>5 DEF Next

(* The allocator's heap is sound for every header size, every set of       *)
(* request sizes that fit an intptr_t and every interleaving of my_malloc, *)
(* my_free, repeated my_free and foreign sbrk calls.                       *)
THEOREM HeapInvariant ==
  ASSUME SaneSizes
  PROVE  Spec => []IInv
<1>1. IInv /\ [Next]_vars => IInv'
  BY NextInv
<1>. QED BY <1>1, InitInv, PTL DEF Spec

(* Type correctness of the allocator's state.                              *)
THEOREM TypeCorrect ==
  ASSUME SaneSizes
  PROVE  Spec => []TypeOK
<1>1. IInv => TypeOK
  BY DEF IInv
<1>. QED BY <1>1, HeapInvariant, PTL

(* What contains the head and is closed under next holds every free block. *)
LEMMA HeadReachesAll ==
  ASSUME IInv, NEW S \in SUBSET FreeBlocks,
         free_list # NULL => free_list \in S,
         \A b \in S : next[b] # NULL => next[b] \in S
  PROVE  S = FreeBlocks
<1> DEFINE T == FreeBlocks \ S
<1> SUFFICES ASSUME T # {} PROVE FALSE
  OBVIOUS
<1>1. NULL \notin FreeBlocks
  BY DEF IInv, TypeOK, FreeBlocks
<1>2. free_list \notin T
  BY <1>1
<1>3. PICK b \in T : prev[b] \notin T
  BY <1>2 DEF IInv, BackToHead
<1>4. prev[b] # NULL
  BY <1>1, <1>2, <1>3 DEF IInv, ListLinked
<1>5. prev[b] \in FreeBlocks /\ next[prev[b]] = b
  BY <1>3, <1>4 DEF IInv, ListLinked
<1>6. prev[b] \in S /\ b # NULL
  BY <1>1, <1>3, <1>5
<1>. QED BY <1>3, <1>5, <1>6

(* The free list is always a well-formed doubly linked list, without a     *)
(* cycle, that holds every freed block: what my_free and remove_free_block *)
(* maintain.                                                               *)
THEOREM FreeListCorrect ==
  ASSUME SaneSizes
  PROVE  Spec => []FreeListSound
<1>1. IInv => FreeListSound
  BY HeadReachesAll DEF IInv, FreeListSound, ListComplete
<1>. QED BY <1>1, HeapInvariant, PTL

(* Blocks never overlap and stay below the break.                          *)
THEOREM NoOverlap ==
  ASSUME SaneSizes
  PROVE  Spec => []BlocksDisjoint
<1>1. IInv => BlocksDisjoint
  BY DEF IInv
<1>. QED BY <1>1, HeapInvariant, PTL

(* A held pointer has the bytes it was asked for and is not free.          *)
THEOREM PointersUsable ==
  ASSUME SaneSizes
  PROVE  Spec => []OwnedFits
<1>1. IInv => OwnedFits
  BY DEF IInv
<1>. QED BY <1>1, HeapInvariant, PTL

(* What the cursor has passed was too small, step by step.                 *)
LEMMA FirstFitStep ==
  ASSUME IInv, NothingFittingSkipped, [Next]_vars
  PROVE  NothingFittingSkipped'
<1> SUFFICES ASSUME pc' = "find",
                    NEW S \in SUBSET FreeBlocks',
                    current' # NULL => current' \in S,
                    \A b \in S : next'[b] # NULL => next'[b] \in S,
                    NEW b \in FreeBlocks', bsize'[b] >= size'
             PROVE  b \in S
  BY DEF NothingFittingSkipped
<1>1. CASE UNCHANGED vars
  BY <1>1 DEF NothingFittingSkipped, vars, heapVars, callVars, FreeBlocks
<1>2. ASSUME NEW n \in Sizes, MallocBegin(n)
      PROVE  b \in S
  <2>1. FreeBlocks' = FreeBlocks /\ next' = next /\ current' = free_list
    BY <1>2 DEF MallocBegin, heapVars, FreeBlocks
  <2>. QED BY <2>1, HeadReachesAll
<1>3. CASE FindNext
  <2>1. /\ FreeBlocks' = FreeBlocks /\ next' = next /\ bsize' = bsize /\ size' = size
        /\ current' = next[current] /\ current # NULL /\ ~Fits(current) /\ pc = "find"
    BY <1>3 DEF FindNext, heapVars, FreeBlocks
  <2>2. current \in FreeBlocks
    BY <2>1 DEF IInv, TypeOK
  <2>3. S \union {current} \in SUBSET FreeBlocks
    BY <2>1, <2>2
  <2>4. \A c \in S \union {current} : next[c] # NULL => next[c] \in S \union {current}
    BY <2>1
  <2>5. b \in S \union {current}
    BY <2>1, <2>3, <2>4 DEF NothingFittingSkipped
  <2>6. b # current
    BY <2>1, <2>2 DEF Fits, FreeBlocks
  <2>. QED BY <2>5, <2>6
<1>4. CASE ~UNCHANGED vars /\ ~FindNext /\ ~\E n \in Sizes : MallocBegin(n)
  BY <1>4 DEF Next, MallocReject, MallocStep, MallocReuse, MallocGrow, MallocNoMemory, Return,
              my_free, FreeIgnored, FreeInsert, ForeignSbrk, callVars
<1>. QED BY <1>1, <1>2, <1>3, <1>4

(* The search of find_free_block is first fit: it never steps over a block *)
(* that could serve the request.                                           *)
THEOREM FirstFit ==
  ASSUME SaneSizes
  PROVE  Spec => []NothingFittingSkipped
<1>1. Init => NothingFittingSkipped
  BY DEF Init, NothingFittingSkipped
<1>2. IInv /\ NothingFittingSkipped /\ [Next]_vars => NothingFittingSkipped'
  BY FirstFitStep
<1>. QED BY <1>1, <1>2, HeapInvariant, PTL DEF Spec

(* my_malloc moves the break only when no free block could serve the       *)
(* request.                                                                *)
THEOREM GrowthJustified ==
  ASSUME SaneSizes
  PROVE  Spec => GrowOnlyWhenNothingFits
<1> DEFINE G == pc = "find" /\ brk' # brk => \A b \in FreeBlocks : bsize[b] < size
<1>1. ASSUME IInv, NothingFittingSkipped, [Next]_vars
      PROVE  [G]_vars
  <2> SUFFICES ASSUME pc = "find", brk' # brk, NEW b \in FreeBlocks
               PROVE  bsize[b] < size
    OBVIOUS
  <2>1. MallocGrow
    BY <1>1 DEF Next, MallocReject, MallocBegin, MallocStep, FindNext, MallocReuse, MallocNoMemory,
                my_free, FreeIgnored, FreeInsert, ForeignSbrk, vars, heapVars
  <2>2. current = NULL
    BY <2>1 DEF MallocGrow
  <2>3. ~(bsize[b] >= size)
    <3>1. {} \in SUBSET FreeBlocks
      OBVIOUS
    <3>. QED BY <1>1, <2>2, <3>1 DEF NothingFittingSkipped
  <2>. QED BY <1>1, <2>3 DEF IInv, TypeOK, FreeBlocks
<1>. QED BY <1>1, HeapInvariant, FirstFit, PTL DEF Spec, GrowOnlyWhenNothingFits
=============================================================================
