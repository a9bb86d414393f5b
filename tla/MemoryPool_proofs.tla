-------------------------- MODULE MemoryPool_proofs --------------------------
(* The frame pool never hands out overlapping blocks and never damages a      *)
(* frame in use, for every memory size, table length and request size, and    *)
(* its steps are those of AbstractPool.                                       *)
EXTENDS MemoryPool, TLAPS, FiniteSetTheorems

\* The inductive invariant.  Disjointness alone is not inductive: that the block
\* placed after a compaction fits needs the accounting of the gaps that were
\* merged, and that needs the sentinels to bound the walk.
IInv == TypeOK /\ Sentinels /\ Disjoint /\ ContentIntact /\ GapAccounting

\* The address order of the table is a strict total order.
LEMMA BeforeOrder ==
  ASSUME TypeOK, NEW e \in Entries, NEW d \in Entries, NEW f \in Entries
  PROVE  /\ ~(Before(e, d) /\ Before(d, e))
         /\ e # d => Before(e, d) \/ Before(d, e)
         /\ Before(e, d) /\ Before(d, f) => Before(e, f)
  BY SMTT(30), PoolAssumption DEF TypeOK, Before, Entries

\* Used entries other than a neighbouring pair lie wholly on one side of it.
LEMMA Neighbours ==
  ASSUME TypeOK, Disjoint, NEW e, NEW d, IsSucc(e, d), NEW f \in Used
  PROVE  /\ e \in Used /\ d \in Used /\ e # d /\ End(e) <= pmem[d]
         /\ \/ (f = e \/ Before(f, e)) /\ End(f) <= End(e)
            \/ (f = d \/ Before(d, f)) /\ pmem[d] <= pmem[f]
<1>1. /\ e \in Used /\ d \in Used /\ Before(e, d) /\ ~(Before(e, f) /\ Before(f, d))
      /\ e \in Entries /\ d \in Entries /\ f \in Entries
  BY DEF IsSucc, Used
<1>2. f = e \/ Before(f, e) \/ f = d \/ Before(d, f)
  BY <1>1, BeforeOrder
<1>3. Before(f, e) => End(f) <= pmem[e]
  BY <1>1 DEF Disjoint
<1>4. /\ pmem[e] \in Nat /\ memSize[e] \in Nat /\ pmem[f] \in Nat /\ memSize[f] \in Nat
      /\ pmem[d] \in Nat
  BY <1>1, PoolAssumption DEF TypeOK
<1>5. QED
  BY <1>1, <1>2, <1>3, <1>4, BeforeOrder DEF Disjoint, End, Before

\* Giving up, or returning, with the table as it was.
LEMMA ReturnSafe ==
  ASSUME IInv, NEW r \in Entries, Return(r), UNCHANGED table
  PROVE  IInv'
<1>1. TypeOK'
  BY PoolAssumption DEF IInv, TypeOK, Return, table, Entries
<1>2. Sentinels' /\ Disjoint' /\ ContentIntact'
  BY DEF IInv, Sentinels, Disjoint, ContentIntact, table, Used, Before, End
<1>3. GapAccounting'
  BY PoolAssumption DEF IInv, Sentinels, GapAccounting, Return, table, Used, Entries
<1>4. QED BY <1>1, <1>2, <1>3 DEF IInv

\* Taking a free entry for a block at the end of e, when the room up to the next
\* used block is large enough.
LEMMA PlaceSafe ==
  ASSUME IInv, NEW e, NEW d, IsSucc(e, d), size > 0, End(e) + size <= pmem[d],
         Place(End(e))
  PROVE  IInv'
<1> DEFINE a == End(e)
<1>1. CASE TableFull /\ Return(None) /\ UNCHANGED table
  BY <1>1, ReturnSafe, PoolAssumption DEF None, Entries
<1>2. CASE \E b \in Blocks :
             /\ FirstFree(b)
             /\ usageFlag' = [usageFlag EXCEPT ![b] = TRUE]
             /\ pmem' = [pmem EXCEPT ![b] = a]
             /\ memSize' = [memSize EXCEPT ![b] = size]
             /\ memory' = [c \in Cells |-> IF a <= c /\ c < a + size
                                           THEN <<b, c - a>> ELSE memory[c]]
             /\ Return(b)
  <2>1. PICK b \in Blocks :
             /\ FirstFree(b)
             /\ usageFlag' = [usageFlag EXCEPT ![b] = TRUE]
             /\ pmem' = [pmem EXCEPT ![b] = a]
             /\ memSize' = [memSize EXCEPT ![b] = size]
             /\ memory' = [c \in Cells |-> IF a <= c /\ c < a + size
                                           THEN <<b, c - a>> ELSE memory[c]]
             /\ Return(b)
    BY <1>2
  <2>2. /\ b \in Entries /\ b # 0 /\ b # Last /\ ~usageFlag[b] /\ b \notin Used
        /\ 0 \in Entries /\ Last \in Entries
    BY <2>1, PoolAssumption DEF Blocks, Entries, Last, FirstFree, Used
  <2>3. TypeOK /\ Sentinels /\ Disjoint /\ ContentIntact /\ GapAccounting
    BY DEF IInv
  <2>4. \A f \in Used : \/ (f = e \/ Before(f, e)) /\ End(f) <= a
                        \/ (f = d \/ Before(d, f)) /\ a + size <= pmem[f]
    <3> SUFFICES ASSUME NEW f \in Used
                 PROVE  \/ (f = e \/ Before(f, e)) /\ End(f) <= a
                        \/ (f = d \/ Before(d, f)) /\ a + size <= pmem[f]
      OBVIOUS
    <3>1. /\ f \in Entries /\ d \in Entries /\ e \in Entries
      BY DEF IsSucc, Used
    <3>2. End(e) \in Nat /\ pmem[f] \in Nat /\ pmem[d] \in Nat /\ size \in Nat
      BY <3>1, <2>3, PoolAssumption DEF TypeOK, End
    <3>3. QED BY <3>2, <2>3, Neighbours
  <2>5. a \in 0 .. MemorySize /\ size \in 0 .. MemorySize /\ a + size <= MemorySize
        /\ d \in Entries /\ e \in Entries
    <3>1. d \in Entries /\ e \in Entries
      BY DEF IsSucc, Used
    <3>2. pmem[d] \in 0 .. MemorySize /\ End(e) \in Nat /\ size \in Nat
      BY <3>1, <2>3, PoolAssumption DEF TypeOK, End
    <3>3. QED BY <3>1, <3>2, PoolAssumption
  <2>6. TypeOK'
    <3>1. usageFlag' \in [Entries -> BOOLEAN] /\ pmem' \in [Entries -> 0 .. MemorySize]
          /\ memSize' \in [Entries -> 0 .. MemorySize]
      BY <2>1, <2>2, <2>3, <2>5 DEF TypeOK
    <3>2. memory' \in [Cells -> Entries \X Nat]
      <4>1. \A c \in Cells : a <= c => c - a \in Nat
        BY <2>5, PoolAssumption DEF Cells
      <4>2. QED BY <2>1, <2>2, <2>3, <4>1 DEF TypeOK
    <3>3. QED BY <2>1, <2>2, <2>3, <3>1, <3>2 DEF TypeOK, Return
  <2>7. Sentinels'
    BY <2>1, <2>2, <2>3 DEF Sentinels, Blocks, TypeOK
  <2>8. \A f \in Used' : f = b \/ (f # b /\ f \in Used /\ f \in Entries
                                   /\ pmem'[f] = pmem[f] /\ memSize'[f] = memSize[f])
    BY <2>1, <2>2, <2>3 DEF Used, TypeOK
  <2>9. pmem'[b] = a /\ memSize'[b] = size
    BY <2>1, <2>2, <2>3 DEF TypeOK
  <2>10. \A f \in Entries : pmem[f] \in Nat /\ memSize[f] \in Nat
    BY <2>3, PoolAssumption DEF TypeOK
  <2>11. Disjoint'
    <3> SUFFICES ASSUME NEW x \in Used', NEW y \in Used', Before(x, y)'
                 PROVE  pmem'[x] + memSize'[x] <= pmem'[y]
      BY DEF Disjoint, End
    <3>1. CASE x = b /\ y = b
      BY <3>1, <2>5, <2>9, PoolAssumption DEF Before, Blocks
    <3>2. CASE x = b /\ y # b
      <4>1. y \in Used /\ y \in Entries /\ pmem'[y] = pmem[y] BY <2>8, <3>2
      <4>2. CASE a + size <= pmem[y]
        BY <4>1, <4>2, <3>2, <2>9
      <4>3. CASE (y = e \/ Before(y, e)) /\ pmem[y] + memSize[y] <= a
        <5>1. memSize[y] > 0 \/ y = 0 \/ y = Last
          BY <4>1, <2>3, PoolAssumption DEF Sentinels, Blocks, Entries, Last, Used
        <5>2. y # Last
          <6>1. Before(e, Last) 
            BY <2>3, <2>5, <2>2, PoolAssumption, SMTT(30) DEF IsSucc, Sentinels, TypeOK, Before, Entries, Last, Used, Blocks
          <6>2. QED BY <6>1, <4>3, BeforeOrder, <4>1, <2>3, <2>5, <2>2
        <5>3. a <= pmem[y] /\ (a = pmem[y] => b < y)
          BY <3>2, <2>9, <4>1, <2>10, <2>5 DEF Before
        <5>4. ~(memSize[y] > 0)
          BY <5>3, <4>3, <4>1, <2>10, <2>5
        <5>5. QED BY <5>1, <5>2, <5>3, <5>4, <4>3, <4>1, <2>10, <2>5, <2>2, PoolAssumption DEF Blocks, Entries
      <4>4. QED BY <4>1, <4>2, <4>3, <2>4 DEF End
    <3>3. CASE x # b /\ y = b
      <4>1. x \in Used /\ x \in Entries /\ pmem'[x] = pmem[x] /\ memSize'[x] = memSize[x]
        BY <2>8, <3>3
      <4>2. pmem[x] <= a
        BY <4>1, <3>3, <2>9, <2>10, <2>5 DEF Before
      <4>3. ~(a + size <= pmem[x])
        BY <4>1, <4>2, <2>10, <2>5
      <4>4. QED BY <4>1, <4>3, <2>4, <2>9, <3>3 DEF End
    <3>4. CASE x # b /\ y # b
      BY <3>4, <2>8, <2>3 DEF Disjoint, Before, End
    <3>5. QED BY <3>1, <3>2, <3>3, <3>4
  <2>12. ContentIntact'
    <3> SUFFICES ASSUME NEW f \in Blocks, f \in Used', NEW k \in 0 .. memSize'[f] - 1
                 PROVE  memory'[pmem'[f] + k] = <<f, k>>
      BY DEF ContentIntact
    <3>1. CASE f = b
      <4>1. k \in Nat /\ k < size /\ a + k \in Cells
        BY <3>1, <2>9, <2>5, PoolAssumption DEF Cells
      <4>2. memory'[a + k] = <<b, (a + k) - a>>
        BY <2>1, <4>1, <2>5
      <4>3. QED BY <4>1, <4>2, <3>1, <2>9, <2>5
    <3>2. CASE f # b
      <4>1. f \in Used /\ f \in Entries /\ pmem'[f] = pmem[f] /\ memSize'[f] = memSize[f]
        BY <2>8, <3>2
      <4>2. memory[pmem[f] + k] = <<f, k>>
        BY <4>1, <2>3 DEF ContentIntact
      <4>3. k \in Nat /\ k < memSize[f]
        BY <4>1, <2>10
      <4>4. End(f) <= a \/ a + size <= pmem[f]
        BY <4>1, <2>4
      <4>5. ~(a <= pmem[f] + k /\ pmem[f] + k < a + size)
        BY <4>1, <4>3, <4>4, <2>10, <2>5 DEF End
      <4>6. pmem[f] + k \in Cells
        <5>1. End(f) <= MemorySize
          <6>1. Before(f, Last)
            BY <4>1, <2>3, <2>2, PoolAssumption, SMTT(30) DEF Sentinels, TypeOK, Before, Entries, Last, Blocks, Used
          <6>2. QED BY <6>1, <4>1, <2>3, <2>2 DEF Disjoint, Sentinels, Used
        <5>2. QED BY <5>1, <4>1, <4>3, <2>10, PoolAssumption DEF Cells, End
      <4>7. QED BY <4>1, <4>2, <4>5, <4>6, <2>1
    <3>3. QED BY <3>1, <3>2
  <2>13. GapAccounting'
    BY <2>1, <2>2, <2>3 DEF GapAccounting, Return, Used, Sentinels, TypeOK
  <2>14. QED BY <2>6, <2>7, <2>11, <2>12, <2>13 DEF IInv
<1>3. QED BY <1>1, <1>2 DEF Place

\* One iteration of the walk keeps the account of the gaps below the cursor.
LEMMA ScanSafe == ASSUME IInv, ScanStep PROVE IInv'
<1>1. PICK d \in Used :
         /\ IsSucc(cursor, d)
         /\ below' = [below EXCEPT ![d] = below[cursor] + Gap(cursor, d)]
         /\ mem_used' = mem_used + memSize[d]
         /\ cursor' = d
  BY DEF ScanStep
<1>2. /\ pc = "scan" /\ pc' = "scan" /\ UNCHANGED <<table, size, result>>
      /\ TypeOK /\ Sentinels /\ Disjoint /\ ContentIntact /\ GapAccounting
  BY DEF ScanStep, IInv
<1>3. /\ cursor \in Used /\ cursor \in Entries /\ d \in Entries /\ cursor # d
      /\ End(cursor) <= pmem[d]
  BY <1>1, <1>2, Neighbours DEF GapAccounting, Used
<1>4. /\ \A f \in Entries : pmem[f] \in Nat /\ memSize[f] \in Nat /\ below[f] \in Nat
      /\ mem_used \in Nat
  BY <1>2, PoolAssumption DEF TypeOK
<1>5. Gap(cursor, d) \in Nat /\ Gap(cursor, d) = pmem[d] - End(cursor) /\ End(cursor) \in Nat
  BY <1>3, <1>4 DEF Gap, End
<1>6. TypeOK'
  BY <1>1, <1>2, <1>3, <1>4, <1>5 DEF TypeOK, table
<1>7. Sentinels' /\ Disjoint' /\ ContentIntact'
  BY <1>2 DEF Sentinels, Disjoint, ContentIntact, table, Used, Before, End
<1>8. GapAccounting'
  <2>1. cursor' \in Used' /\ size' > 0 /\ size' <= MemorySize
    BY <1>1, <1>2 DEF GapAccounting, Used, table
  <2>2. below'[0] = 0
    <3>1. d # 0
      <4>1. ~Before(cursor, 0)
        BY <1>2, <1>3, <1>4, PoolAssumption DEF Sentinels, Before, Entries
      <4>2. QED BY <4>1, <1>1 DEF IsSucc
    <3>2. below[0] = 0
      BY <1>2 DEF GapAccounting
    <3>3. QED BY <3>1, <3>2, <1>1, <1>2, PoolAssumption DEF TypeOK, Entries
  <2>3. below'[d] + mem_used' = End(d)
    <3>1. below'[d] = below[cursor] + Gap(cursor, d)
      BY <1>1, <1>2, <1>3 DEF TypeOK
    <3>2. below[cursor] + mem_used = End(cursor)
      BY <1>2 DEF GapAccounting
    <3>3. below'[d] + mem_used' = pmem[d] + memSize[d]
      BY <1>1, <1>3, <1>4, <1>5, <3>1, <3>2
    <3>4. QED BY <3>3 DEF End
  <2>4. \A x, f \in Used : IsSucc(x, f) /\ ~Before(d, f) =>
            below'[f] = below'[x] + Gap(x, f)
    <3> SUFFICES ASSUME NEW x \in Used, NEW f \in Used, IsSucc(x, f), ~Before(d, f)
                 PROVE  below'[f] = below'[x] + Gap(x, f)
      OBVIOUS
    <3>1. x \in Entries /\ f \in Entries /\ Before(x, f)
          /\ \A g \in Used : ~(Before(x, g) /\ Before(g, f))
      BY DEF IsSucc, Used
    <3>2. Before(cursor, d) /\ \A g \in Used : ~(Before(cursor, g) /\ Before(g, d))
      BY <1>1 DEF IsSucc
    <3>3. CASE f = d
      <4>1. x = cursor
        BY <3>1, <3>2, <3>3, <1>2, <1>3, BeforeOrder
      <4>2. QED BY <4>1, <3>3, <1>1, <1>2, <1>3 DEF TypeOK
    <3>4. CASE f # d
      <4>1. Before(f, d)
        BY <3>1, <3>4, <1>2, <1>3, BeforeOrder
      <4>2. ~Before(cursor, f) /\ x # d
        BY <4>1, <3>1, <3>2, <1>2, <1>3, BeforeOrder
      <4>3. below[f] = below[x] + Gap(x, f)
        BY <4>2, <1>2 DEF GapAccounting
      <4>4. below'[f] = below[f] /\ below'[x] = below[x]
        BY <3>1, <3>4, <4>2, <1>1, <1>2, <1>3 DEF TypeOK
      <4>5. QED BY <4>3, <4>4
    <3>5. QED BY <3>3, <3>4
  <2>5. /\ Used' = Used
        /\ \A x, f : /\ IsSucc(x, f)' <=> IsSucc(x, f)
                     /\ Before(x, f)' <=> Before(x, f)
                     /\ Gap(x, f)' = Gap(x, f)
                     /\ End(x)' = End(x)
    BY <1>2 DEF table, Used, IsSucc, Before, Gap, End
  <2>6. QED BY <2>1, <2>2, <2>3, <2>4, <2>5, <1>1, <1>2 DEF GapAccounting
<1>9. QED BY <1>6, <1>7, <1>8 DEF IInv

\* When the walk is over all gaps together have room for the request, so the
\* compaction loop stops below the last sentinel.
LEMMA StartCompactionSafe == ASSUME IInv, StartCompaction PROVE IInv'
<1>1. /\ pc = "scan" /\ cursor = Last /\ mem_used + size <= MemorySize
      /\ pc' = "compact" /\ cursor' = 0
      /\ UNCHANGED <<table, size, mem_used, below, result>>
      /\ TypeOK /\ Sentinels /\ Disjoint /\ ContentIntact /\ GapAccounting
  BY DEF StartCompaction, ScanDone, IInv
<1>2. 0 \in Entries /\ Last \in Entries
  BY PoolAssumption DEF Entries, Last
<1>3. TypeOK'
  BY <1>1, <1>2 DEF TypeOK, table
<1>4. Sentinels' /\ Disjoint' /\ ContentIntact'
  BY <1>1 DEF Sentinels, Disjoint, ContentIntact, table, Used, Before, End
<1>5. below[Last] >= size
  <2>1. below[Last] + mem_used = pmem[Last] + memSize[Last]
    BY <1>1 DEF GapAccounting, End
  <2>2. below[Last] \in Nat /\ mem_used \in Nat /\ size \in Nat
    BY <1>1, <1>2 DEF TypeOK
  <2>3. QED BY <2>1, <2>2, <1>1, PoolAssumption DEF Sentinels
<1>6. \A x, f \in Used : IsSucc(x, f) => below[f] = below[x] + Gap(x, f)
  <2> SUFFICES ASSUME NEW x \in Used, NEW f \in Used, IsSucc(x, f)
               PROVE  below[f] = below[x] + Gap(x, f)
    OBVIOUS
  <2>1. f \in Entries
    BY DEF Used
  <2>2. ~Before(Last, f)
    BY <2>1, <1>1, <1>2, PoolAssumption DEF Sentinels, TypeOK, Before, Entries, Last
  <2>3. QED BY <2>2, <1>1 DEF GapAccounting
<1>7. \A f \in Used : IsSucc(0, f) => below[f] = Gap(0, f)
  <2> SUFFICES ASSUME NEW f \in Used, IsSucc(0, f) PROVE below[f] = Gap(0, f)
    OBVIOUS
  <2>1. f \in Entries /\ 0 \in Used
    BY <1>1, <1>2 DEF Used, Sentinels
  <2>2. below[f] = below[0] + Gap(0, f) /\ below[0] = 0
    BY <2>1, <1>1, <1>6 DEF GapAccounting
  <2>3. Gap(0, f) \in Int
    BY <2>1, <1>1, <1>2, PoolAssumption DEF TypeOK, Gap, End
  <2>4. QED BY <2>2, <2>3
<1>8. GapAccounting'
  <2>1. 0 \in Used /\ Used' = Used
    BY <1>1, <1>2 DEF Used, Sentinels, table
  <2>2. \A x, f : (IsSucc(x, f)' <=> IsSucc(x, f)) /\ Gap(x, f)' = Gap(x, f)
                 /\ (Before(x, f)' <=> Before(x, f))
    BY <1>1, <2>1 DEF IsSucc, Gap, End, Before, table
  <2>3. below' = below /\ size' = size /\ pc' = "compact" /\ cursor' = 0
        /\ size > 0 /\ size <= MemorySize
    BY <1>1 DEF GapAccounting
  <2>4. QED BY <2>1, <2>2, <2>3, <1>5, <1>6, <1>7 DEF GapAccounting
<1>9. QED BY <1>3, <1>4, <1>8 DEF IInv

\* Sliding one block down to the end of the block below it.
LEMMA CompactSafe == ASSUME IInv, CompactStep PROVE IInv'
<1> DEFINE p == End(cursor)
<1>1. PICK d \in Used :
         /\ IsSucc(cursor, d)
         /\ below[d] < size
         /\ IF pmem[d] > p THEN MoveDown(d, p) ELSE UNCHANGED table
         /\ cursor' = d
  BY DEF CompactStep
<1>2. /\ pc = "compact" /\ pc' = "compact" /\ UNCHANGED <<size, mem_used, below, result>>
      /\ TypeOK /\ Sentinels /\ Disjoint /\ ContentIntact /\ GapAccounting
  BY DEF CompactStep, IInv
<1>3. /\ cursor \in Used /\ cursor \in Entries /\ d \in Entries /\ cursor # d
      /\ p <= pmem[d] /\ Before(cursor, d)
  BY <1>1, <1>2, Neighbours DEF GapAccounting, Used, IsSucc
<1>4. /\ \A f \in Entries : /\ pmem[f] \in Nat /\ memSize[f] \in Nat /\ below[f] \in Nat
                            /\ pmem[f] <= MemorySize
      /\ size \in Nat /\ p \in Nat
  BY <1>2, <1>3, PoolAssumption DEF TypeOK, End
<1>5. d # 0 /\ d # Last /\ d \in Blocks /\ memSize[d] > 0
  <2>1. d # Last
    BY <1>1, <1>2, <1>3, <1>4 DEF GapAccounting
  <2>2. d # 0
    BY <1>2, <1>3, <1>4, PoolAssumption DEF Before, Sentinels, Entries
  <2>3. d \in Blocks
    BY <2>1, <2>2, <1>3, PoolAssumption DEF Blocks, Entries, Last
  <2>4. QED BY <2>1, <2>2, <2>3, <1>2 DEF Sentinels, Used
<1>6. /\ usageFlag' = usageFlag /\ memSize' = memSize
      /\ pmem' \in [Entries -> 0 .. MemorySize]
      /\ pmem'[d] = p /\ \A f \in Entries : f # d => pmem'[f] = pmem[f]
  <2>1. CASE pmem[d] > p
    BY <2>1, <1>1, <1>2, <1>3, <1>4, PoolAssumption DEF MoveDown, TypeOK
  <2>2. CASE ~(pmem[d] > p)
    BY <2>2, <1>1, <1>2, <1>3, <1>4 DEF table, TypeOK
  <2>3. QED BY <2>1, <2>2
<1>7. Used' = Used /\ \A f \in Used : f \in Entries
  BY <1>6 DEF Used
\* Where the other used blocks lie, relative to the one that moves.
<1>8. \A f \in Used : f # d =>
         \/ (f = cursor \/ Before(f, cursor)) /\ Before(f, d) /\ pmem[f] + memSize[f] <= p
         \/ Before(d, f) /\ pmem[d] + memSize[d] <= pmem[f]
  <2> SUFFICES ASSUME NEW f \in Used, f # d
               PROVE
         \/ (f = cursor \/ Before(f, cursor)) /\ Before(f, d) /\ pmem[f] + memSize[f] <= p
         \/ Before(d, f) /\ pmem[d] + memSize[d] <= pmem[f]
    OBVIOUS
  <2>1. \/ (f = cursor \/ Before(f, cursor)) /\ End(f) <= p
        \/ (f = d \/ Before(d, f))
    BY <1>1, <1>2, Neighbours
  <2>2. Before(f, cursor) => Before(f, d)
    BY <1>2, <1>3, <1>7, BeforeOrder
  <2>3. Before(d, f) => pmem[d] + memSize[d] <= pmem[f]
    BY <1>1, <1>2 DEF Disjoint, End
  <2>4. QED BY <2>1, <2>2, <2>3, <1>3 DEF End
<1>9. \A f \in Used : f = 0 \/ memSize[f] > 0 \/ pmem[f] = MemorySize
  BY <1>2, <1>7, PoolAssumption DEF Sentinels, Used, Blocks, Entries, Last
<1>10. \A x, y \in Used : Before(x, y)' <=> Before(x, y)
  <2>1. \A f \in Used : f # d => (Before(f, d)' <=> Before(f, d)) /\ (Before(d, f)' <=> Before(d, f))
    <3> SUFFICES ASSUME NEW f \in Used, f # d
                 PROVE  (Before(f, d)' <=> Before(f, d)) /\ (Before(d, f)' <=> Before(d, f))
      OBVIOUS
    <3>1. f \in Entries /\ pmem'[f] = pmem[f] /\ pmem'[d] = p
      BY <1>6, <1>7
    <3>2. CASE Before(d, f) /\ pmem[d] + memSize[d] <= pmem[f]
      <4>1. p < pmem[f]
        BY <3>1, <3>2, <1>3, <1>4, <1>5
      <4>2. Before(d, f)' /\ ~Before(f, d)'
        BY <4>1, <3>1, <1>4 DEF Before
      <4>3. QED BY <4>2, <3>2, <3>1, <1>2, <1>3, BeforeOrder
    <3>3. CASE Before(f, d) /\ pmem[f] + memSize[f] <= p
      <4>1. pmem[f] < p \/ (pmem[f] = p /\ f < d)
        <5>1. CASE f = 0
          BY <5>1, <3>3, <3>1, <1>2, <1>4, <1>5, PoolAssumption DEF Sentinels, Blocks
        <5>2. CASE memSize[f] > 0
          BY <5>2, <3>3, <3>1, <1>4
        <5>3. CASE pmem[f] = MemorySize
          <6>1. pmem[d] = MemorySize /\ f < d
            BY <5>3, <3>3, <3>1, <1>3, <1>4, PoolAssumption DEF Before
          <6>2. d \in Used /\ Before(d, Last)
            BY <6>1, <1>2, <1>3, <1>5, PoolAssumption DEF Before, Sentinels, Blocks, Last
          <6>3. pmem[d] + memSize[d] <= MemorySize
            BY <6>2, <1>2, PoolAssumption DEF Disjoint, Sentinels, End, Used, Entries, Last
          <6>4. QED BY <6>1, <6>3, <1>3, <1>4, <1>5, PoolAssumption
        <5>4. QED BY <5>1, <5>2, <5>3, <1>9
      <4>2. Before(f, d)' /\ ~Before(d, f)'
        BY <4>1, <3>1, <1>3, <1>4, PoolAssumption DEF Before, Entries
      <4>3. QED BY <4>2, <3>3, <3>1, <1>2, <1>3, BeforeOrder
    <3>4. QED BY <3>2, <3>3, <1>8
  <2>2. ~Before(d, d) /\ ~Before(d, d)'
    BY <1>3, <1>4, <1>6, PoolAssumption DEF Before, Entries
  <2>3. \A x, y \in Used : x # d /\ y # d => (Before(x, y)' <=> Before(x, y))
    BY <1>6, <1>7 DEF Before
  <2>4. QED BY <2>1, <2>2, <2>3
<1>11. TypeOK'
  <2>1. memory' \in [Cells -> Entries \X Nat]
    <3>1. CASE pmem[d] > p
      <4>1. memory' = [c \in Cells |->
                  IF p <= c /\ c < p + memSize[d] THEN memory[pmem[d] + (c - p)]
                  ELSE IF p + memSize[d] <= c /\ c < End(d) THEN Blank
                  ELSE memory[c]]
        BY <3>1, <1>1 DEF MoveDown
      <4>2. End(d) <= MemorySize
        <5>1. Before(d, Last)
          BY <1>2, <1>3, <1>4, <1>5, PoolAssumption DEF Before, Sentinels, Blocks, Last
        <5>2. QED BY <5>1, <1>2, PoolAssumption DEF Disjoint, Sentinels, Used, Entries, Last
      <4>3. \A c \in Cells : p <= c /\ c < p + memSize[d] => pmem[d] + (c - p) \in Cells
        BY <4>2, <1>3, <1>4, PoolAssumption DEF Cells, End
      <4>4. Blank \in Entries \X Nat
        BY PoolAssumption DEF Blank, None, Entries
      <4>5. \A c \in Cells : memory[c] \in Entries \X Nat
        BY <1>2 DEF TypeOK
      <4>6. \A c \in Cells : memory'[c] \in Entries \X Nat
        BY <4>1, <4>3, <4>4, <4>5
      <4>7. QED BY <4>1, <4>6
    <3>2. CASE ~(pmem[d] > p)
      BY <3>2, <1>1, <1>2 DEF table, TypeOK
    <3>3. QED BY <3>1, <3>2
  <2>2. QED BY <2>1, <1>1, <1>2, <1>3, <1>6 DEF TypeOK
<1>12. Sentinels'
  BY <1>2, <1>5, <1>6, PoolAssumption DEF Sentinels, Entries, Last
<1>13. Disjoint'
  <2> SUFFICES ASSUME NEW x \in Used, NEW y \in Used, Before(x, y)
               PROVE  pmem'[x] + memSize'[x] <= pmem'[y]
    BY <1>7, <1>10 DEF Disjoint, End
  <2>1. pmem[x] + memSize[x] <= pmem[y] /\ x # y /\ ~Before(y, x)
    BY <1>2, <1>3, <1>7, BeforeOrder DEF Disjoint, End
  <2>2. CASE x = d
    <3>1. pmem[d] + memSize[d] <= pmem[y]
      BY <2>1, <2>2
    <3>2. pmem'[x] = p /\ pmem'[y] = pmem[y] /\ memSize'[x] = memSize[d] /\ y \in Entries
      BY <2>1, <2>2, <1>6, <1>7
    <3>3. QED BY <3>1, <3>2, <1>3, <1>4
  <2>3. CASE y = d
    <3>1. pmem[x] + memSize[x] <= p
      BY <2>1, <2>3, <1>8
    <3>2. QED BY <3>1, <2>1, <2>3, <1>6, <1>7
  <2>4. CASE x # d /\ y # d
    BY <2>1, <2>4, <1>6, <1>7
  <2>5. QED BY <2>2, <2>3, <2>4
<1>14. ContentIntact'
  <2>1. CASE pmem[d] > p
    <3>1. memory' = [c \in Cells |->
                  IF p <= c /\ c < p + memSize[d] THEN memory[pmem[d] + (c - p)]
                  ELSE IF p + memSize[d] <= c /\ c < End(d) THEN Blank
                  ELSE memory[c]]
      BY <2>1, <1>1 DEF MoveDown
    <3> SUFFICES ASSUME NEW f \in Blocks, f \in Used, NEW k \in 0 .. memSize[f] - 1
                 PROVE  memory'[pmem'[f] + k] = <<f, k>>
      BY <1>6, <1>7 DEF ContentIntact
    <3>2. f \in Entries /\ k \in Nat /\ k < memSize[f] /\ memory[pmem[f] + k] = <<f, k>>
      BY <1>2, <1>4, <1>7 DEF ContentIntact
    <3>3. pmem[f] + memSize[f] <= MemorySize
      <4>1. Before(f, Last)
        BY <1>2, <1>4, <3>2, PoolAssumption DEF Before, Sentinels, Blocks, Last
      <4>2. QED BY <4>1, <1>2, PoolAssumption DEF Disjoint, Sentinels, Used, Entries, Last, End
    <3>4. CASE f = d
      <4>1. p + k \in Cells /\ p <= p + k /\ p + k < p + memSize[d] /\ (p + k) - p = k
        BY <3>2, <3>3, <3>4, <1>3, <1>4, PoolAssumption DEF Cells
      <4>2. memory'[p + k] = memory[pmem[d] + ((p + k) - p)]
        BY <4>1, <3>1
      <4>3. QED BY <4>1, <4>2, <3>2, <3>4, <1>6
    <3>5. CASE f # d
      <4>1. pmem[f] + k \in Cells
        BY <3>2, <3>3, <1>4, PoolAssumption DEF Cells
      <4>2. pmem[f] + memSize[f] <= p \/ pmem[d] + memSize[d] <= pmem[f]
        BY <3>5, <1>8
      <4>3. /\ ~(p <= pmem[f] + k /\ pmem[f] + k < p + memSize[d])
            /\ ~(p + memSize[d] <= pmem[f] + k /\ pmem[f] + k < End(d))
        BY <4>2, <3>2, <1>3, <1>4 DEF End
      <4>4. QED BY <4>1, <4>3, <3>1, <3>2, <3>5, <1>6
    <3>6. QED BY <3>4, <3>5
  <2>2. CASE ~(pmem[d] > p)
    BY <2>2, <1>1, <1>2 DEF table, ContentIntact, Used
  <2>3. QED BY <2>1, <2>2
<1>15. GapAccounting'
  <2>1. \A x, f : (x \in Used /\ f \in Used) => (IsSucc(x, f)' <=> IsSucc(x, f))
    BY <1>7, <1>10 DEF IsSucc
  <2>2. \A f \in Used : IsSucc(d, f) => below[f] = Gap(d, f)'
    <3> SUFFICES ASSUME NEW f \in Used, IsSucc(d, f) PROVE below[f] = Gap(d, f)'
      OBVIOUS
    <3>1. below[f] = below[d] + Gap(d, f) /\ below[d] = Gap(cursor, d)
      BY <1>1, <1>2, <1>3 DEF GapAccounting
    <3>2. f \in Entries /\ f # d
      BY <1>2, <1>3, <1>7, BeforeOrder DEF IsSucc
    <3>3. /\ Gap(d, f)' = pmem[f] - (p + memSize[d])
          /\ Gap(d, f) = pmem[f] - (pmem[d] + memSize[d])
          /\ Gap(cursor, d) = pmem[d] - p
      BY <3>2, <1>6 DEF Gap, End
    <3>4. QED BY <3>1, <3>2, <3>3, <1>3, <1>4
  <2>3. \A x, f \in Used : IsSucc(x, f) /\ Before(d, x) => below[f] = below[x] + Gap(x, f)'
    <3> SUFFICES ASSUME NEW x \in Used, NEW f \in Used, IsSucc(x, f), Before(d, x)
                 PROVE  below[f] = below[x] + Gap(x, f)'
      OBVIOUS
    <3>1. Before(cursor, x) /\ x # d /\ f # d
      BY <1>2, <1>3, <1>7, BeforeOrder DEF IsSucc
    <3>2. Gap(x, f)' = Gap(x, f)
      BY <3>1, <1>6, <1>7 DEF Gap, End
    <3>3. QED BY <3>1, <3>2, <1>2 DEF GapAccounting
  <2>4. size > 0 /\ size <= MemorySize /\ below[Last] >= size
    BY <1>2 DEF GapAccounting
  <2>5. /\ below' = below /\ size' = size /\ cursor' = d /\ pc' = "compact"
    BY <1>1, <1>2
  <2>6. \A f \in Used' : IsSucc(cursor, f)' => below'[f] = Gap(cursor, f)'
    BY <2>1, <2>2, <2>5, <1>7
  <2>7. \A x, f \in Used' : IsSucc(x, f)' /\ Before(cursor, x)' =>
           below'[f] = below'[x] + Gap(x, f)'
    BY <2>1, <2>3, <2>5, <1>7, <1>10
  <2>8. QED BY <2>4, <2>5, <2>6, <2>7, <1>7 DEF GapAccounting
<1>16. QED BY <1>11, <1>12, <1>13, <1>14, <1>15 DEF IInv

\* freeMemory only ever shrinks the set of used blocks.
LEMMA FreeSafe == ASSUME IInv, NEW e \in Entries, FreeMemory(e) PROVE IInv'
<1>1. /\ pc = "idle" /\ pc' = "idle"
      /\ usageFlag' = [usageFlag EXCEPT ![e] = e \in {0, Last}]
      /\ memory' = [c \in Cells |-> IF usageFlag[e] /\ pmem[e] <= c /\ c < End(e)
                                    THEN Blank ELSE memory[c]]
      /\ UNCHANGED <<pmem, memSize, size, cursor, mem_used, below, result>>
      /\ TypeOK /\ Sentinels /\ Disjoint /\ ContentIntact /\ GapAccounting
  BY DEF FreeMemory, IInv
<1>2. TypeOK'
  <2>1. Blank \in Entries \X Nat
    BY PoolAssumption DEF Blank, None, Entries
  <2>2. memory' \in [Cells -> Entries \X Nat]
    BY <2>1, <1>1 DEF TypeOK
  <2>3. usageFlag' \in [Entries -> BOOLEAN]
    BY <1>1 DEF TypeOK
  <2>4. QED BY <2>2, <2>3, <1>1 DEF TypeOK
<1>3. Used' \subseteq Used /\ (\A f \in Used : f # e => f \in Used') /\ Used \subseteq Entries
      /\ (e \in Used' => e \in {0, Last})
  BY <1>1 DEF Used, TypeOK, Sentinels
<1>4. Sentinels'
  BY <1>1, PoolAssumption DEF Sentinels, TypeOK, Blocks, Entries, Last
<1>5. Disjoint'
  BY <1>1, <1>3 DEF Disjoint, Before, End
<1>6. ContentIntact'
  <2> SUFFICES ASSUME NEW f \in Blocks, f \in Used', NEW k \in 0 .. memSize[f] - 1
               PROVE  memory'[pmem[f] + k] = <<f, k>>
    BY <1>1 DEF ContentIntact
  <2>1. f \in Used /\ f # e /\ f \in Entries /\ f # Last
    BY <1>3, PoolAssumption DEF Blocks, Last
  <2>2. /\ pmem[f] \in Nat /\ memSize[f] \in Nat /\ pmem[e] \in Nat /\ memSize[e] \in Nat
        /\ pmem[f] <= MemorySize /\ k \in Nat /\ k < memSize[f]
    BY <1>1, <2>1, PoolAssumption DEF TypeOK
  <2>3. pmem[f] + memSize[f] <= MemorySize
    <3>1. Before(f, Last)
      BY <1>1, <2>1, <2>2, PoolAssumption DEF Before, Sentinels, Blocks, Last
    <3>2. QED BY <3>1, <1>1, <2>1, PoolAssumption DEF Disjoint, Sentinels, Used, Entries, Last, End
  <2>4. pmem[f] + k \in Cells /\ memory[pmem[f] + k] = <<f, k>>
    <3>1. pmem[f] + k \in Cells
      BY <2>2, <2>3, PoolAssumption DEF Cells
    <3>2. QED BY <3>1, <1>1, <2>1 DEF ContentIntact
  <2>5. usageFlag[e] => ~(pmem[e] <= pmem[f] + k /\ pmem[f] + k < End(e))
    <3> SUFFICES ASSUME usageFlag[e]
                 PROVE  ~(pmem[e] <= pmem[f] + k /\ pmem[f] + k < pmem[e] + memSize[e])
      BY DEF End
    <3>1. Before(f, e) \/ Before(e, f)
      BY <1>1, <2>1, BeforeOrder
    <3>2. pmem[f] + memSize[f] <= pmem[e] \/ pmem[e] + memSize[e] <= pmem[f]
      BY <3>1, <1>1, <2>1 DEF Disjoint, Used, End
    <3>3. QED BY <3>2, <2>2
  <2>6. QED BY <2>4, <2>5, <1>1
<1>7. GapAccounting'
  BY <1>1, <1>3, PoolAssumption DEF GapAccounting, Used, Sentinels, TypeOK
<1>8. QED BY <1>2, <1>4, <1>5, <1>6, <1>7 DEF IInv

\* Nothing has been walked when the scan starts, so its account is empty.
LEMMA StartScanSafe == ASSUME IInv, StartScan PROVE IInv'
<1>1. /\ pc = "check" /\ pc' = "scan" /\ size <= MemorySize
      /\ UNCHANGED <<table, size, cursor, mem_used, below, result>>
      /\ TypeOK /\ Sentinels /\ Disjoint /\ ContentIntact /\ GapAccounting
  BY DEF StartScan, IInv
<1>2. TypeOK' /\ Sentinels' /\ Disjoint' /\ ContentIntact'
  BY <1>1 DEF TypeOK, Sentinels, Disjoint, ContentIntact, table, Used, Before, End
<1>3. /\ cursor = 0 /\ mem_used = 0 /\ below[0] = 0 /\ End(0) = 0 /\ cursor \in Used
      /\ size > 0 /\ size <= MemorySize
  BY <1>1 DEF GapAccounting, Sentinels, End
<1>4. /\ Used' = Used
      /\ \A x, f : /\ IsSucc(x, f)' <=> IsSucc(x, f)
                   /\ Before(x, f)' <=> Before(x, f)
                   /\ End(x)' = End(x)
  BY <1>1 DEF table, Used, IsSucc, Before, End
<1>5. \A x, f \in Used : IsSucc(x, f) => Before(0, f)
  <2> SUFFICES ASSUME NEW x \in Used, NEW f \in Used, IsSucc(x, f) PROVE Before(0, f)
    OBVIOUS
  <2>1. x \in Entries /\ f \in Entries /\ 0 \in Entries /\ Before(x, f)
    BY PoolAssumption DEF Used, Entries, IsSucc
  <2>2. x = 0 \/ Before(0, x)
    BY <1>1, <2>1, PoolAssumption DEF Before, Sentinels, TypeOK, Entries
  <2>3. QED BY <1>1, <2>1, <2>2, BeforeOrder
<1>6. GapAccounting'
  BY <1>1, <1>3, <1>4, <1>5 DEF GapAccounting
<1>7. QED BY <1>2, <1>6 DEF IInv

\* A call only brings its argument, which is positive.
LEMMA AllocCallSafe == ASSUME IInv, NEW n \in Sizes, AllocCall(n) PROVE IInv'
<1>1. /\ pc = "idle" /\ pc' = "check" /\ size' = n /\ n \in Nat /\ n > 0
      /\ UNCHANGED <<table, cursor, mem_used, below, result>>
      /\ TypeOK /\ Sentinels /\ Disjoint /\ ContentIntact /\ GapAccounting
  BY PoolAssumption DEF AllocCall, IInv
<1>2. TypeOK' /\ Sentinels' /\ Disjoint' /\ ContentIntact'
  BY <1>1 DEF TypeOK, Sentinels, Disjoint, ContentIntact, table, Used, Before, End
<1>3. GapAccounting'
  BY <1>1 DEF GapAccounting, table, Used
<1>4. QED BY <1>2, <1>3 DEF IInv

\* Placing in the best fitting gap.
LEMMA BestFitSafe == ASSUME IInv, PlaceBestFit PROVE IInv'
<1>1. PICK e \in Used : BestFit(e) /\ Place(End(e))
  BY DEF PlaceBestFit
<1>2. PICK d \in Used : IsSucc(e, d) /\ Gap(e, d) >= size
  BY <1>1 DEF BestFit, Fits
<1>3. size > 0 /\ e \in Entries /\ d \in Entries
  BY DEF PlaceBestFit, ScanDone, IInv, GapAccounting, Used
<1>4. End(e) + size <= pmem[d]
  BY <1>2, <1>3, PoolAssumption DEF IInv, TypeOK, Gap, End
<1>5. QED BY <1>1, <1>2, <1>3, <1>4, PlaceSafe

\* Placing above the blocks the compaction has moved down.
LEMMA CompactedSafe == ASSUME IInv, PlaceCompacted PROVE IInv'
<1>1. PICK d \in Used : IsSucc(cursor, d) /\ below[d] >= size
  BY DEF PlaceCompacted
<1>2. pc = "compact" /\ TypeOK /\ GapAccounting /\ Place(End(cursor))
  BY DEF PlaceCompacted, IInv
<1>3. below[d] = Gap(cursor, d) /\ size > 0 /\ cursor \in Entries /\ d \in Entries
  BY <1>1, <1>2 DEF GapAccounting, Used
<1>4. End(cursor) + size <= pmem[d]
  BY <1>1, <1>2, <1>3, PoolAssumption DEF TypeOK, Gap, End
<1>5. QED BY <1>1, <1>2, <1>3, <1>4, PlaceSafe

\* setupMMU leaves the two sentinels alone in use, which satisfies everything.
LEMMA InitSafe == Init => IInv
<1> SUFFICES ASSUME Init PROVE IInv
  OBVIOUS
<1>1. 0 \in Entries /\ Last \in Entries /\ Last # 0
  BY PoolAssumption DEF Entries, Last
<1>2. TypeOK
  BY <1>1, PoolAssumption DEF Init, TypeOK, Blank, None
<1>3. \A b \in Blocks : b \in Entries /\ b # 0 /\ b # Last
  BY PoolAssumption DEF Blocks, Entries, Last
<1>4. /\ usageFlag[0] /\ usageFlag[Last] /\ \A e \in Entries : usageFlag[e] => e \in {0, Last}
      /\ pmem[0] = 0 /\ pmem[Last] = MemorySize
      /\ memSize[0] = 0 /\ memSize[Last] = 0
  BY <1>1 DEF Init
<1>5. Sentinels
  BY <1>3, <1>4 DEF Sentinels
<1>6. Used = {0, Last}
  BY <1>1, <1>4 DEF Used
<1>7. Disjoint
  BY <1>1, <1>4, <1>6, PoolAssumption DEF Disjoint, Before, End, Last
<1>8. ContentIntact
  BY <1>3, <1>6 DEF ContentIntact
<1>9. GapAccounting
  BY <1>1, <1>6 DEF Init, GapAccounting
<1>10. QED BY <1>2, <1>5, <1>7, <1>8, <1>9 DEF IInv

\* Every step of allocMemory and freeMemory preserves the inductive invariant.
LEMMA NextSafe == IInv /\ [Next]_vars => IInv'
<1> SUFFICES ASSUME IInv, [Next]_vars PROVE IInv'
  OBVIOUS
<1>1. CASE \E n \in Sizes : AllocCall(n)
  BY <1>1, AllocCallSafe
<1>2. CASE RefuseTooLong \/ RefuseNoMemory
  BY <1>2, ReturnSafe, PoolAssumption DEF RefuseTooLong, RefuseNoMemory, None, Entries
<1>3. CASE StartScan
  BY <1>3, StartScanSafe
<1>4. CASE ScanStep
  BY <1>4, ScanSafe
<1>5. CASE PlaceBestFit
  BY <1>5, BestFitSafe
<1>6. CASE StartCompaction
  BY <1>6, StartCompactionSafe
<1>7. CASE CompactStep
  BY <1>7, CompactSafe
<1>8. CASE PlaceCompacted
  BY <1>8, CompactedSafe
<1>9. CASE \E e \in Entries : FreeMemory(e)
  BY <1>9, FreeSafe
<1>10. CASE UNCHANGED vars
  BY <1>10 DEF vars, IInv, TypeOK, Sentinels, Disjoint, ContentIntact, GapAccounting,
               Used, Before, End, IsSucc, Gap
<1>11. QED
  BY <1>1, <1>2, <1>3, <1>4, <1>5, <1>6, <1>7, <1>8, <1>9, <1>10 DEF Next, AllocStep

\* The account of the gaps, the order of the blocks and their contents hold in
\* every reachable state, for every size of pool and table.
THEOREM Inductive == Spec => []IInv
  BY InitSafe, NextSafe, PTL DEF Spec

\* Type correctness of the pool's table and of allocMemory's locals.
THEOREM TypeCorrect == Spec => []TypeOK
<1>1. IInv => TypeOK BY DEF IInv
<1>2. QED BY <1>1, Inductive, PTL

\* No two used blocks ever overlap, not even between two memmoves, and none
\* leaves `memory`.
THEOREM NoOverlap == Spec => [](Sentinels /\ Disjoint)
<1>1. IInv => Sentinels /\ Disjoint BY DEF IInv
<1>2. QED BY <1>1, Inductive, PTL

\* A frame in use is never overwritten by allocMemory or its compaction.
THEOREM FramesSurvive == Spec => []ContentIntact
<1>1. IInv => ContentIntact BY DEF IInv
<1>2. QED BY <1>1, Inductive, PTL

\* The compaction loop finds exactly the room the scan has promised.
THEOREM RoomAsCounted == Spec => []GapAccounting
<1>1. IInv => GapAccounting BY DEF IInv
<1>2. QED BY <1>1, Inductive, PTL

-----------------------------------------------------------------------------
(* The pool without addresses *)

\* The bytes of the entries in a set, each by its entry and its place there.
BytesOf(S) == UNION {{e} \X (0 .. memSize[e] - 1) : e \in S}

\* The entries the scan has walked.
Walked == {e \in Used : ~Before(cursor, e)}

\* What allocMemory's locals say of the request and of the bytes in use: mem_used is
\* the number of bytes of the entries walked, in the end of all.
Counting ==
  /\ pc = "idle" => size = 0
  /\ pc \in {"scan", "compact"} => size <= MaxAlloc
  /\ pc = "scan" => IsFiniteSet(BytesOf(Walked)) /\ mem_used = Cardinality(BytesOf(Walked))
  /\ pc = "compact" => mem_used = Cardinality(BytesOf(Used)) /\ mem_used + size <= MemorySize

CInv == IInv /\ Counting

\* What a caller sees of a block: its size, and the bytes it reads in it.
Held == [b \in Blocks |-> IF usageFlag[b] THEN memSize[b] ELSE 0]
Data == [b \in Blocks |-> [k \in 0 .. (IF usageFlag[b] THEN memSize[b] ELSE 0) - 1 |->
                             memory[pmem[b] + k]]]

\* Every owner reads its own bytes, as many as it asked for.
OwnRead == Data = [b \in Blocks |-> Abstract!OwnBytes(b, Held[b])]

LEMMA OwnBytesRead == IInv => OwnRead
<1> SUFFICES ASSUME IInv PROVE OwnRead
  OBVIOUS
<1>1. Blocks \subseteq Entries
  BY PoolAssumption DEF Blocks, Entries
<1>2. ASSUME NEW b \in Blocks
      PROVE  [k \in 0 .. (IF usageFlag[b] THEN memSize[b] ELSE 0) - 1 |-> memory[pmem[b] + k]]
               = Abstract!OwnBytes(b, IF usageFlag[b] THEN memSize[b] ELSE 0)
  <2>1. CASE usageFlag[b]
    <3>1. \A k \in 0 .. memSize[b] - 1 : memory[pmem[b] + k] = <<b, k>>
      BY <1>1, <2>1 DEF IInv, ContentIntact, Used
    <3>2. QED BY <2>1, <3>1 DEF Abstract!OwnBytes
  <2>2. CASE ~usageFlag[b]
    <3>1. 0 .. 0 - 1 = {}
      OBVIOUS
    <3>2. QED BY <2>2, <3>1 DEF Abstract!OwnBytes
  <2>3. QED BY <2>1, <2>2
<1>3. QED BY <1>2 DEF OwnRead, Held, Data

LEMMA EntryKinds == /\ Blocks \subseteq Entries /\ Blocks \cap {0, Last} = {}
                    /\ Entries = Blocks \cup {0, Last}
  BY PoolAssumption DEF Blocks, Entries, Last

\* The sentinels hold nothing, so the bytes of all entries are those of the blocks.
LEMMA HeldAreUsed ==
  ASSUME IInv
  PROVE  Abstract!HeldBytes = BytesOf(Used)
<1> DEFINE held(b) == IF usageFlag[b] THEN memSize[b] ELSE 0
<1>1. Blocks \subseteq Entries /\ Entries = Blocks \cup {0, Last} /\ 0 .. 0 - 1 = {}
  BY PoolAssumption DEF Blocks, Entries, Last
<1>2. memSize[0] = 0 /\ memSize[Last] = 0 /\ Used \subseteq Entries
  BY DEF IInv, Sentinels, Used
<1>3. Abstract!HeldBytes = UNION {{b} \X (0 .. held(b) - 1) : b \in Blocks}
  BY DEF Abstract!HeldBytes
<1>4. ASSUME NEW x PROVE x \in UNION {{b} \X (0 .. held(b) - 1) : b \in Blocks} <=> x \in BytesOf(Used)
  <2>1. ASSUME NEW b \in Blocks, x \in {b} \X (0 .. held(b) - 1) PROVE x \in BytesOf(Used)
    <3>1. usageFlag[b]
      BY <1>1, <2>1
    <3>2. b \in Used /\ held(b) = memSize[b]
      BY <1>1, <3>1 DEF Used
    <3>3. QED BY <2>1, <3>2 DEF BytesOf
  <2>2. ASSUME NEW e \in Used, x \in {e} \X (0 .. memSize[e] - 1)
        PROVE  x \in UNION {{b} \X (0 .. held(b) - 1) : b \in Blocks}
    <3>1. e \in Blocks
      BY <1>1, <1>2, <2>2
    <3>2. held(e) = memSize[e]
      BY DEF Used
    <3>3. QED BY <2>2, <3>1, <3>2
  <2>3. QED BY <2>1, <2>2 DEF BytesOf
<1>5. QED BY <1>3, <1>4

\* One entry more is walked.
LEMMA OneMore ==
  ASSUME NEW S, NEW d \in Entries, d \notin S, TypeOK, IsFiniteSet(BytesOf(S))
  PROVE  /\ IsFiniteSet(BytesOf(S \cup {d}))
         /\ Cardinality(BytesOf(S \cup {d})) = Cardinality(BytesOf(S)) + memSize[d]
<1> DEFINE D == {d} \X (0 .. memSize[d] - 1)
<1>1. memSize[d] \in Nat
  BY PoolAssumption DEF TypeOK
<1>2. IsFiniteSet(0 .. memSize[d] - 1) /\ Cardinality(0 .. memSize[d] - 1) = memSize[d]
  <2>1. 0 \in Int /\ memSize[d] - 1 \in Int
    BY <1>1
  <2>2. /\ IsFiniteSet(0 .. memSize[d] - 1)
        /\ Cardinality(0 .. memSize[d] - 1) = IF 0 > memSize[d] - 1 THEN 0 ELSE (memSize[d] - 1) - 0 + 1
    BY <2>1, FS_Interval
  <2>3. QED BY <1>1, <2>2
<1>3. IsFiniteSet({d}) /\ Cardinality({d}) = 1
  BY FS_Singleton
<1>4. IsFiniteSet(D) /\ Cardinality(D) = memSize[d]
  <2>1. IsFiniteSet(D) /\ Cardinality(D) = Cardinality({d}) * Cardinality(0 .. memSize[d] - 1)
    BY <1>2, <1>3, FS_Product
  <2>2. Cardinality(D) = 1 * memSize[d]
    BY <1>2, <1>3, <2>1
  <2>3. QED BY <1>1, <2>1, <2>2
<1>5. BytesOf(S \cup {d}) = BytesOf(S) \cup D
  BY DEF BytesOf
<1>6. BytesOf(S) \cap D = {}
  BY DEF BytesOf
<1>7. Cardinality(BytesOf(S)) \in Nat /\ Cardinality({}) = 0
  BY FS_CardinalityType, FS_EmptySet
<1>8. /\ IsFiniteSet(BytesOf(S) \cup D)
      /\ Cardinality(BytesOf(S) \cup D)
           = Cardinality(BytesOf(S)) + Cardinality(D) - Cardinality(BytesOf(S) \cap D)
  BY <1>4, FS_Union
<1>9. Cardinality(BytesOf(S) \cap D) = 0
  BY <1>6, <1>7, Zenon
<1>10. Cardinality(BytesOf(S) \cup D) = Cardinality(BytesOf(S)) + memSize[d]
  <2> HIDE DEF D
  <2>1. QED BY <1>1, <1>4, <1>7, <1>8, <1>9
<1>11. QED BY <1>5, <1>8, <1>10, Zenon

LEMMA Stutters ==
  ASSUME OwnRead, OwnRead', Held' = Held, size' = size, result' = result
  PROVE  UNCHANGED Abstract!vars
<1>1. Data' = Data
  BY DEF OwnRead, Abstract!OwnBytes
<1>2. QED BY <1>1 DEF Abstract!vars, Held, Data

\* A block that is taken or given back changes what is read in it and nowhere else.
LEMMA OneBlock ==
  ASSUME OwnRead, OwnRead', NEW b \in Blocks, NEW n, Held' = [Held EXCEPT ![b] = n]
  PROVE  Data' = [Data EXCEPT ![b] = Abstract!OwnBytes(b, n)]
<1>1. /\ Data = [c \in Blocks |-> Abstract!OwnBytes(c, Held[c])]
      /\ Data' = [c \in Blocks |-> Abstract!OwnBytes(c, Held'[c])]
  BY DEF OwnRead, Abstract!OwnBytes
<1>2. Held \in [Blocks -> {Held[c] : c \in Blocks}]
  BY DEF Held
<1>3. \A c \in Blocks : Held'[c] = IF c = b THEN n ELSE Held[c]
  BY <1>2
<1>4. QED BY <1>1, <1>3

\* A call that returns the null pointer has one of the three reasons.
LEMMA Refused ==
  ASSUME CInv, OwnRead, OwnRead', UNCHANGED table, Return(None), size > 0,
         size > MaxAlloc \/ size > MemorySize \/ Abstract!Occupied + size > MemorySize \/ TableFull
  PROVE  Counting' /\ Abstract!Next
<1>1. size' = 0 /\ pc' = "idle" /\ result' = 0 /\ size \in Nat
  BY DEF Return, None, CInv, IInv, TypeOK
<1>2. Counting'
  BY <1>1 DEF Counting
<1>3. Held' = Held
  BY DEF Held, table
<1>4. Data' = Data
  BY DEF Data, table
<1>5. TableFull => \A b \in Blocks : Held[b] > 0
  BY DEF TableFull, Held, CInv, IInv, Sentinels
<1>6. \/ size > (IF MaxAlloc < MemorySize THEN MaxAlloc ELSE MemorySize)
      \/ Abstract!Occupied + size > MemorySize
      \/ \A b \in Blocks : Held[b] > 0
  BY <1>1, <1>5, PoolAssumption
<1>7. Abstract!Refuse
  BY <1>1, <1>3, <1>4, <1>6 DEF Abstract!Refuse, Held, Data
<1>8. QED BY <1>2, <1>7 DEF Abstract!Next

\* A block is taken for a request that fits in the free bytes.
LEMMA Granted ==
  ASSUME CInv, OwnRead, OwnRead', NEW a, Place(a), size > 0, size <= MaxAlloc, size <= MemorySize,
         Abstract!Occupied + size <= MemorySize
  PROVE  Counting' /\ Abstract!Next
<1>1. CASE TableFull /\ Return(None) /\ UNCHANGED table
  BY <1>1, Refused
<1>2. CASE \E b \in Blocks :
             /\ FirstFree(b)
             /\ usageFlag' = [usageFlag EXCEPT ![b] = TRUE]
             /\ memSize' = [memSize EXCEPT ![b] = size]
             /\ Return(b)
  <2>1. PICK b \in Blocks : /\ FirstFree(b)
                            /\ usageFlag' = [usageFlag EXCEPT ![b] = TRUE]
                            /\ memSize' = [memSize EXCEPT ![b] = size]
                            /\ Return(b)
    BY <1>2
  <2>2. /\ Blocks \subseteq Entries /\ usageFlag \in [Entries -> BOOLEAN]
        /\ memSize \in [Entries -> 0 .. MemorySize] /\ size \in Nat
    BY PoolAssumption DEF CInv, IInv, TypeOK, Blocks, Entries
  <2>3. Held[b] = 0
    BY <2>1 DEF Held, FirstFree
  <2>4. Held' = [Held EXCEPT ![b] = size]
    <3>1. \A c \in Blocks : (IF usageFlag'[c] THEN memSize'[c] ELSE 0) = IF c = b THEN size ELSE Held[c]
      BY <2>1, <2>2 DEF Held
    <3>2. QED BY <3>1 DEF Held
  <2>5. Data' = [Data EXCEPT ![b] = Abstract!OwnBytes(b, size)]
    BY <2>4, OneBlock
  <2>6. size' = 0 /\ pc' = "idle" /\ result' = b
    BY <2>1 DEF Return
  <2>7. size <= IF MaxAlloc < MemorySize THEN MaxAlloc ELSE MemorySize
    OBVIOUS
  <2>8. Abstract!Grant(b)
    BY <2>3, <2>4, <2>5, <2>6, <2>7 DEF Abstract!Grant, Held, Data
  <2>9. QED BY <2>1, <2>6, <2>8 DEF Abstract!Next, Counting
<1>3. QED BY <1>1, <1>2 DEF Place
\* A step inside allocMemory that neither takes nor refuses.
LEMMA Walking ==
  ASSUME CInv, OwnRead, OwnRead', StartScan \/ ScanStep \/ StartCompaction \/ CompactStep
  PROVE  UNCHANGED Abstract!vars
<1>1. usageFlag' = usageFlag /\ memSize' = memSize /\ size' = size /\ result' = result
  BY DEF StartScan, ScanStep, StartCompaction, CompactStep, MoveDown, table
<1>2. Held' = Held
  BY <1>1 DEF Held
<1>3. QED BY <1>1, <1>2, Stutters

\* The walk starts at the first sentinel and ends at the last.
LEMMA WalkEnds ==
  ASSUME CInv
  PROVE  /\ cursor = 0 => Walked = {0}
         /\ cursor = Last => Walked = Used
         /\ BytesOf({0}) = {}
<1>1. /\ Used \subseteq Entries /\ 0 \in Used /\ Last \in Used /\ 0 \in Entries /\ Last \in Entries
      /\ TypeOK /\ memSize[0] = 0 /\ pmem[0] = 0 /\ pmem[Last] = MemorySize
  BY PoolAssumption DEF CInv, IInv, Sentinels, Used, Entries, Last
<1>2. \A e \in Used : e # 0 => Before(0, e)
  BY <1>1, PoolAssumption DEF TypeOK, Before, Entries
<1>3. \A e \in Used : ~Before(Last, e)
  BY <1>1, PoolAssumption DEF TypeOK, Before, Entries, Last
<1>4. ~Before(0, 0)
  BY <1>1 DEF Before
<1>5. 0 .. 0 - 1 = {}
  OBVIOUS
<1>6. BytesOf({0}) = {}
  BY <1>1, <1>5 DEF BytesOf
<1>7. QED BY <1>1, <1>2, <1>3, <1>4, <1>6 DEF Walked

LEMMA StartScanCounts ==
  ASSUME CInv, StartScan
  PROVE  Counting'
<1>1. /\ pc' = "scan" /\ size' = size /\ size <= MaxAlloc /\ mem_used' = 0 /\ cursor' = 0 /\ cursor = 0
      /\ UNCHANGED table
  BY DEF StartScan, CInv, IInv, GapAccounting
<1>2. Used' = Used /\ Walked' = Walked
  BY <1>1 DEF Walked, Used, Before, table
<1>3. Walked' = {0}
  BY <1>1, <1>2, WalkEnds
<1>4. BytesOf(Walked)' = BytesOf({0})
  BY <1>1, <1>3 DEF BytesOf, table
<1>5. IsFiniteSet(BytesOf(Walked)') /\ Cardinality(BytesOf(Walked)') = 0
  BY <1>4, WalkEnds, FS_EmptySet
<1>6. QED BY <1>1, <1>5 DEF Counting

LEMMA ScanCounts ==
  ASSUME CInv, ScanStep
  PROVE  Counting'
<1>1. PICK d \in Used : /\ IsSucc(cursor, d)
                        /\ mem_used' = mem_used + memSize[d]
                        /\ cursor' = d
  BY DEF ScanStep
<1>2. /\ pc = "scan" /\ pc' = "scan" /\ UNCHANGED <<table, size>> /\ size <= MaxAlloc
      /\ IsFiniteSet(BytesOf(Walked)) /\ mem_used = Cardinality(BytesOf(Walked))
  BY DEF ScanStep, CInv, Counting
<1>3. TypeOK /\ cursor \in Entries /\ d \in Entries /\ Used \subseteq Entries /\ Before(cursor, d)
      /\ \A f \in Used : ~(Before(cursor, f) /\ Before(f, d))
  BY <1>1 DEF CInv, IInv, GapAccounting, Used, IsSucc
<1>4. d \notin Walked
  BY <1>3 DEF Walked
<1>5. Walked' = Walked \cup {d}
  <2>1. ASSUME NEW f \in Used PROVE ~Before(d, f) <=> f = d \/ ~Before(cursor, f)
    <3>1. f \in Entries /\ (f # d => Before(f, d) \/ Before(d, f)) /\ ~(Before(f, d) /\ Before(d, f))
      BY <1>3, BeforeOrder
    <3>2. Before(d, f) => Before(cursor, f)
      BY <1>3, <3>1, BeforeOrder
    <3>3. QED BY <1>3, <3>1, <3>2
  <2>2. Walked' = {f \in Used : ~Before(d, f)}
    BY <1>1, <1>2 DEF Walked, Used, Before, table
  <2>3. QED BY <2>1, <2>2 DEF Walked
<1>6. BytesOf(Walked)' = BytesOf(Walked \cup {d})
  BY <1>2, <1>5 DEF BytesOf, table
<1>7. /\ IsFiniteSet(BytesOf(Walked \cup {d}))
      /\ Cardinality(BytesOf(Walked \cup {d})) = Cardinality(BytesOf(Walked)) + memSize[d]
  BY <1>2, <1>3, <1>4, OneMore
<1>8. QED BY <1>1, <1>2, <1>6, <1>7 DEF Counting

\* When the scan is over, mem_used is what the owners hold together.
LEMMA ScanTells ==
  ASSUME CInv, (pc = "scan" /\ cursor = Last) \/ pc = "compact"
  PROVE  mem_used = Abstract!Occupied /\ mem_used = Cardinality(BytesOf(Used))
<1>1. Abstract!Occupied = Cardinality(BytesOf(Used))
  <2>1. Abstract!HeldBytes = BytesOf(Used)
    BY HeldAreUsed DEF CInv
  <2>2. QED BY <2>1, Zenon DEF Abstract!Occupied, Abstract!Cardinality, Cardinality
<1>2. mem_used = Cardinality(BytesOf(Used))
  BY WalkEnds DEF CInv, Counting
<1>3. QED BY <1>1, <1>2

LEMMA CompactCounts ==
  ASSUME CInv, StartCompaction \/ CompactStep
  PROVE  Counting'
<1>1. /\ usageFlag' = usageFlag /\ memSize' = memSize /\ size' = size /\ mem_used' = mem_used
      /\ pc' = "compact" /\ size <= MaxAlloc /\ mem_used + size <= MemorySize
      /\ mem_used = Cardinality(BytesOf(Used))
  BY ScanTells DEF StartCompaction, CompactStep, ScanDone, MoveDown, table, CInv, Counting
<1>2. BytesOf(Used)' = BytesOf(Used)
  BY <1>1 DEF BytesOf, Used
<1>3. QED BY <1>1, <1>2 DEF Counting

LEMMA ReturnCounts ==
  ASSUME CInv, OwnRead, OwnRead',
         RefuseTooLong \/ RefuseNoMemory \/ PlaceBestFit \/ PlaceCompacted
  PROVE  Counting' /\ Abstract!Next
<1>1. size > 0 /\ size \in Nat /\ mem_used \in Nat
  BY DEF RefuseTooLong, RefuseNoMemory, PlaceBestFit, PlaceCompacted, ScanDone, CInv, IInv, TypeOK,
         GapAccounting
<1>2. CASE RefuseTooLong
  BY <1>1, <1>2, Refused DEF RefuseTooLong
<1>3. CASE RefuseNoMemory
  <2>1. mem_used = Abstract!Occupied /\ Abstract!Occupied + size > MemorySize
    BY <1>1, <1>3, ScanTells, PoolAssumption DEF RefuseNoMemory, ScanDone
  <2>2. QED BY <1>1, <1>3, <2>1, Refused DEF RefuseNoMemory
<1>4. CASE PlaceBestFit
  <2>1. Abstract!Occupied + size <= MemorySize /\ size <= MaxAlloc /\ size <= MemorySize
    BY <1>4, ScanTells DEF PlaceBestFit, ScanDone, CInv, IInv, Counting, GapAccounting
  <2>2. PICK e \in Used : Place(End(e))
    BY <1>4 DEF PlaceBestFit
  <2>3. QED BY <1>1, <2>1, <2>2, Granted
<1>5. CASE PlaceCompacted
  <2>1. Abstract!Occupied + size <= MemorySize /\ size <= MaxAlloc /\ size <= MemorySize
    BY <1>5, ScanTells DEF PlaceCompacted, CInv, IInv, Counting, GapAccounting
  <2>2. QED BY <1>1, <1>5, <2>1, Granted DEF PlaceCompacted
<1>6. QED BY <1>2, <1>3, <1>4, <1>5

LEMMA CallCounts ==
  ASSUME CInv, OwnRead, OwnRead', NEW n \in Sizes, AllocCall(n)
  PROVE  Counting' /\ Abstract!Next
<1>1. pc = "idle" /\ size = 0 /\ pc' = "check" /\ size' = n /\ result' = result /\ UNCHANGED table
  BY DEF AllocCall, CInv, Counting
<1>2. Held' = Held /\ Data' = Data
  BY <1>1 DEF Held, Data, table
<1>3. Abstract!Ask(n)
  BY <1>1, <1>2 DEF Abstract!Ask, Held, Data
<1>4. QED BY <1>1, <1>3 DEF Abstract!Next, Counting

LEMMA FreeCounts ==
  ASSUME CInv, OwnRead, OwnRead', NEW e \in Entries, FreeMemory(e)
  PROVE  Counting' /\ (Abstract!Next \/ UNCHANGED Abstract!vars)
<1>1. /\ pc = "idle" /\ size = 0 /\ pc' = "idle" /\ size' = 0 /\ result' = result
      /\ usageFlag' = [usageFlag EXCEPT ![e] = e \in {0, Last}] /\ memSize' = memSize
  BY DEF FreeMemory, CInv, Counting
<1>2. Counting'
  BY <1>1 DEF Counting
<1>3. /\ usageFlag \in [Entries -> BOOLEAN] /\ Blocks \subseteq Entries
      /\ Blocks \cap {0, Last} = {} /\ Entries = Blocks \cup {0, Last}
  BY EntryKinds DEF CInv, IInv, TypeOK
<1>4. CASE e \in Blocks
  <2>1. Held' = [Held EXCEPT ![e] = 0]
    <3>1. \A c \in Blocks : (IF usageFlag'[c] THEN memSize'[c] ELSE 0) = IF c = e THEN 0 ELSE Held[c]
      BY <1>1, <1>3, <1>4 DEF Held
    <3>2. QED BY <3>1 DEF Held
  <2>2. Data' = [Data EXCEPT ![e] = Abstract!OwnBytes(e, 0)]
    BY <1>4, <2>1, OneBlock
  <2>3. Abstract!Release(e)
    BY <1>1, <2>1, <2>2 DEF Abstract!Release, Held, Data
  <2>4. QED BY <1>2, <1>4, <2>3 DEF Abstract!Next
<1>5. CASE e \in {0, Last}
  <2>1. Held' = Held
    BY <1>1, <1>3, <1>5 DEF Held
  <2>2. QED BY <1>1, <1>2, <2>1, Stutters
<1>6. QED BY <1>3, <1>4, <1>5

LEMMA InitCounts == Init => Counting /\ Abstract!Init
<1> SUFFICES ASSUME Init PROVE Counting /\ Abstract!Init
  OBVIOUS
<1>1. \A b \in Blocks : b \in Entries /\ ~usageFlag[b]
  BY EntryKinds DEF Init
<1>2. Held = [b \in Blocks |-> 0]
  BY <1>1 DEF Held
<1>3. Data = [b \in Blocks |-> Abstract!OwnBytes(b, 0)]
  BY <1>2, InitSafe, OwnBytesRead DEF OwnRead, Abstract!OwnBytes
<1>4. Abstract!Init
  BY <1>2, <1>3 DEF Abstract!Init, Init, Held, Data, None
<1>5. QED BY <1>4 DEF Init, Counting

LEMMA NextCounts ==
  ASSUME CInv, OwnRead, OwnRead', [Next]_vars
  PROVE  Counting' /\ (Abstract!Next \/ UNCHANGED Abstract!vars)
<1>1. CASE \E n \in Sizes : AllocCall(n)
  BY <1>1, CallCounts
<1>2. CASE StartScan \/ ScanStep \/ StartCompaction \/ CompactStep
  BY <1>2, Walking, StartScanCounts, ScanCounts, CompactCounts
<1>3. CASE RefuseTooLong \/ RefuseNoMemory \/ PlaceBestFit \/ PlaceCompacted
  BY <1>3, ReturnCounts
<1>4. CASE \E e \in Entries : FreeMemory(e)
  BY <1>4, FreeCounts
<1>5. CASE UNCHANGED vars
  <2>1. Counting'
    BY <1>5 DEF vars, CInv, Counting, BytesOf, Walked, Used, Before
  <2>2. Held' = Held
    BY <1>5 DEF Held, vars
  <2>3. QED BY <1>5, <2>1, <2>2, Stutters DEF vars
<1>6. QED BY <1>1, <1>2, <1>3, <1>4, <1>5 DEF Next, AllocStep

\* Nobody can tell the pool from one without addresses: allocMemory grants a request that
\* fits in the free bytes however they are scattered, returns the null pointer only for one
\* of the three reasons, and no allocation, compaction or freeMemory changes what another
\* owner reads.  The liveness half of ImplementsAbstract is not stated here.
THEOREM PoolImplementsAbstract == Spec => Abstract!Steps
<1>1. Init => CInv /\ Abstract!Init
  BY InitSafe, InitCounts DEF CInv
<1>2. CInv /\ OwnRead /\ OwnRead' /\ [Next]_vars => Counting' /\ [Abstract!Next]_(Abstract!vars)
  BY NextCounts
<1>3. IInv => OwnRead
  BY OwnBytesRead
<1>4. CInv <=> IInv /\ Counting
  BY DEF CInv
<1>5. QED BY <1>1, <1>2, <1>3, <1>4, Inductive, PTL DEF Spec, Abstract!Steps
=============================================================================
