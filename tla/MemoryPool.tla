----------------------------- MODULE MemoryPool -----------------------------
(* The frame buffer pool of CoreAPI (osdk-core/src/DJI_Memory.cpp): the table *)
(* MMU of entries over the array `memory`.  Entry 0 and entry Last are        *)
(* sentinels of size 0 at the two ends.  allocMemory walks the used entries   *)
(* in address order, takes the best fitting gap, and when no gap is large     *)
(* enough slides blocks down with memmove until the gaps below have merged    *)
(* into one that is.                                                          *)
(*                                                                            *)
(* allocMemory runs entirely under the memory mutex of its callers, so one    *)
(* call is in progress at a time; the loops are kept as steps because the     *)
(* invariants they maintain are what makes the result right.                  *)
EXTENDS Integers

CONSTANTS MemorySize,    \* MEMORY_SIZE, bytes of `memory`
          MmuTableNum,   \* MMU_TABLE_NUM, entries of MMU with the sentinels
          MaxAlloc,      \* PRO_PURE_DATA_MAX_SIZE
          Sizes          \* the frame lengths callers ask for

Entries == 0 .. MmuTableNum - 1
Last    == MmuTableNum - 1
Blocks  == 1 .. MmuTableNum - 2
Cells   == 0 .. MemorySize - 1
None    == 0             \* the null MMU_Tab pointer
Blank   == <<None, 0>>

\* Frames are never empty: calculateLength adds a header and a CRC.
ASSUME PoolAssumption == /\ MemorySize \in Nat \ {0}
                         /\ MmuTableNum \in Nat /\ MmuTableNum >= 3
                         /\ MaxAlloc \in Nat
                         /\ Sizes \subseteq Nat \ {0}

VARIABLES usageFlag,  \* MMU[e].usageFlag
          pmem,       \* MMU[e].pmem, as an offset in `memory`
          memSize,    \* MMU[e].memSize
          memory,     \* each byte: the entry whose frame it belongs to and the
                      \* offset there; a byte no frame in use needs is Blank
          pc,         \* where allocMemory is: "idle", "check", "scan", "compact"
          size,       \* its argument, 0 outside a call
          cursor,     \* the entry its loop index points at
          mem_used,   \* bytes of the used entries up to cursor
          below,      \* record_temp32: gap bytes below each entry walked so far
          result      \* what the last call returned

table == <<usageFlag, pmem, memSize, memory>>
vars  == <<usageFlag, pmem, memSize, memory, pc, size, cursor, mem_used, below, result>>

Used == {e \in Entries : usageFlag[e]}

End(e)    == pmem[e] + memSize[e]

\* As if the size of the lower block were forgotten.
Gap_FromStart(e, d) == pmem[d] - pmem[e]

Gap(e, d) == pmem[d] - End(e)

\* The order the bubble sort leaves: by address, ties by index (it is stable).
Before(e, d) == pmem[e] < pmem[d] \/ (pmem[e] = pmem[d] /\ e < d)

\* d is the element after e in mmu_tab_used_index once sorted.
IsSucc(e, d) == /\ e \in Used
                /\ d \in Used
                /\ Before(e, d)
                /\ \A f \in Used : ~(Before(e, f) /\ Before(f, d))

\* As if a gap one byte short were accepted.
Fits_OffByOne(e, d) == IsSucc(e, d) /\ Gap(e, d) + 1 >= size

\* The best fitting gap starts at the end of e: the smallest that is large
\* enough, the lowest among equals.
Fits(e, d)  == IsSucc(e, d) /\ Gap(e, d) >= size
BestFit(e)  == \E d \in Used :
                 /\ Fits(e, d)
                 /\ \A f, g \in Used : Fits(f, g) =>
                      \/ Gap(e, d) < Gap(f, g)
                      \/ Gap(e, d) = Gap(f, g) /\ ~Before(f, e)
SomeFit == \E e, d \in Used : Fits(e, d)

FirstFree(b) == ~usageFlag[b] /\ \A c \in Blocks : c < b => usageFlag[c]
TableFull    == \A b \in Blocks : usageFlag[b]

Init == /\ usageFlag = [e \in Entries |-> e \in {0, Last}]
        /\ pmem = [e \in Entries |-> IF e = Last THEN MemorySize ELSE 0]
        /\ memSize = [e \in Entries |-> 0]
        /\ memory = [a \in Cells |-> Blank]
        /\ pc = "idle"
        /\ size = 0
        /\ cursor = 0
        /\ mem_used = 0
        /\ below = [e \in Entries |-> 0]
        /\ result = None

AllocCall(n) == /\ pc = "idle"
                /\ pc' = "check"
                /\ size' = n
                /\ UNCHANGED <<table, cursor, mem_used, below, result>>

\* The locals are dead once the call has returned.
Return(r) == /\ pc' = "idle"
             /\ size' = 0
             /\ cursor' = 0
             /\ mem_used' = 0
             /\ below' = [e \in Entries |-> 0]
             /\ result' = r

RefuseTooLong == /\ pc = "check"
                 /\ size > MaxAlloc \/ size > MemorySize
                 /\ Return(None)
                 /\ UNCHANGED table

StartScan == /\ pc = "check"
             /\ size <= MaxAlloc /\ size <= MemorySize
             /\ pc' = "scan"
             /\ UNCHANGED <<table, size, cursor, mem_used, below, result>>

\* As if record_temp32 were assigned where it is added to.
ScanStep_NotSummed == /\ pc = "scan"
                      /\ \E d \in Used :
                           /\ IsSucc(cursor, d)
                           /\ below' = [below EXCEPT ![d] = Gap(cursor, d)]
                           /\ mem_used' = mem_used + memSize[d]
                           /\ cursor' = d
                      /\ UNCHANGED <<table, pc, size, result>>

\* One iteration over the sorted index.  The code sums mem_used in a loop of
\* its own before it sorts; addition commutes, so one walk does for both.
ScanStep == /\ pc = "scan"
            /\ \E d \in Used :
                 /\ IsSucc(cursor, d)
                 /\ below' = [below EXCEPT ![d] = below[cursor] + Gap(cursor, d)]
                 /\ mem_used' = mem_used + memSize[d]
                 /\ cursor' = d
            /\ UNCHANGED <<table, pc, size, result>>

ScanDone == pc = "scan" /\ cursor = Last

RefuseNoMemory == /\ ScanDone
                  /\ MemorySize < mem_used + size
                  /\ Return(None)
                  /\ UNCHANGED table

\* Entry b becomes the block at address a, and the caller, which still holds
\* the mutex, encodes its frame into it.  An entry b is taken only while one is
\* free: with none left, allocMemory returns the null pointer.
Place(a) ==
  \/ /\ TableFull
     /\ Return(None)
     /\ UNCHANGED table
  \/ \E b \in Blocks :
       /\ FirstFree(b)
       /\ usageFlag' = [usageFlag EXCEPT ![b] = TRUE]
       /\ pmem' = [pmem EXCEPT ![b] = a]
       /\ memSize' = [memSize EXCEPT ![b] = size]
       /\ memory' = [c \in Cells |-> IF a <= c /\ c < a + size
                                     THEN <<b, c - a>> ELSE memory[c]]
       /\ Return(b)

\* With the pool empty the only gap is the whole of `memory` and the first free
\* entry is 1, which is what the code's shortcut for mem_used == 0 returns.
PlaceBestFit == /\ ScanDone
                /\ mem_used + size <= MemorySize
                /\ \E e \in Used : BestFit(e) /\ Place(End(e))

\* As if a request no single gap can take were refused.
StartCompaction_GivesUp == /\ ScanDone
                           /\ mem_used + size <= MemorySize
                           /\ ~SomeFit
                           /\ Return(None)
                           /\ UNCHANGED table

StartCompaction == /\ ScanDone
                   /\ mem_used + size <= MemorySize
                   /\ ~SomeFit
                   /\ pc' = "compact"
                   /\ cursor' = 0
                   /\ UNCHANGED <<table, size, mem_used, below, result>>

\* As if only the pointer were moved.
MoveDown_NoCopy(d, to) == /\ pmem' = [pmem EXCEPT ![d] = to]
                          /\ UNCHANGED <<usageFlag, memSize, memory>>

\* memmove of the block of d down to the end of the block below it.  The code's
\* j, where the loop stops, is the first index whose gaps sum to size or more:
\* the blocks that move are the ones with fewer gap bytes than that below them.
MoveDown(d, to) ==
  /\ memory' = [c \in Cells |->
                  IF to <= c /\ c < to + memSize[d] THEN memory[pmem[d] + (c - to)]
                  ELSE IF to + memSize[d] <= c /\ c < End(d) THEN Blank
                  ELSE memory[c]]
  /\ pmem' = [pmem EXCEPT ![d] = to]
  /\ UNCHANGED <<usageFlag, memSize>>

CompactStep == /\ pc = "compact"
               /\ \E d \in Used :
                    /\ IsSucc(cursor, d)
                    /\ below[d] < size
                    /\ IF pmem[d] > End(cursor) THEN MoveDown(d, End(cursor))
                                                ELSE UNCHANGED table
                    /\ cursor' = d
               /\ UNCHANGED <<pc, size, mem_used, below, result>>

PlaceCompacted == /\ pc = "compact"
                  /\ \E d \in Used : IsSucc(cursor, d) /\ below[d] >= size
                  /\ Place(End(cursor))

\* freeMemory: the sentinels are left alone, any other entry becomes free and
\* keeps its address and size.  Its callers hold the mutex.
FreeMemory(e) == /\ pc = "idle"
                 /\ usageFlag' = [usageFlag EXCEPT ![e] = e \in {0, Last}]
                 /\ memory' = [c \in Cells |-> IF usageFlag[e] /\ pmem[e] <= c /\ c < End(e)
                                               THEN Blank ELSE memory[c]]
                 /\ UNCHANGED <<pmem, memSize, pc, size, cursor, mem_used, below, result>>

AllocStep == \/ RefuseTooLong \/ StartScan \/ ScanStep \/ RefuseNoMemory
             \/ PlaceBestFit \/ StartCompaction \/ CompactStep \/ PlaceCompacted

Next == \/ \E n \in Sizes : AllocCall(n)
        \/ AllocStep
        \/ \E e \in Entries : FreeMemory(e)

\* A thread inside allocMemory keeps running: nothing in it waits.
Spec == Init /\ [][Next]_vars /\ WF_vars(AllocStep)

-----------------------------------------------------------------------------
TypeOK == /\ usageFlag \in [Entries -> BOOLEAN]
          /\ pmem \in [Entries -> 0 .. MemorySize]
          /\ memSize \in [Entries -> 0 .. MemorySize]
          /\ memory \in [Cells -> Entries \X Nat]
          /\ pc \in {"idle", "check", "scan", "compact"}
          /\ size \in Nat
          /\ cursor \in Entries
          /\ mem_used \in Nat
          /\ below \in [Entries -> Nat]
          /\ result \in Entries

\* The sentinels stay where setupMMU put them and every other used entry has
\* at least one byte.
Sentinels == /\ usageFlag[0] /\ pmem[0] = 0 /\ memSize[0] = 0
             /\ usageFlag[Last] /\ pmem[Last] = MemorySize /\ memSize[Last] = 0
             /\ \A b \in Blocks : usageFlag[b] => memSize[b] > 0

\* No two used blocks overlap, at any point of allocMemory, the compaction
\* loop included; with the sentinels, no block leaves `memory`.
Disjoint == \A e, d \in Used : Before(e, d) => End(e) <= pmem[d]

\* Every frame in use can be read back unharmed through its entry: neither a
\* later allocation nor a memmove of the compaction writes over it.
ContentIntact == \A b \in Blocks \cap Used :
                   \A k \in 0 .. memSize[b] - 1 : memory[pmem[b] + k] = <<b, k>>

\* The gap bytes counted in the scan are what the compaction will find: once the
\* blocks up to cursor have moved down, the gap above cursor is all of them, and
\* when the loop stops there the block being allocated fits in it.
GapAccounting ==
  /\ cursor \in Used
  /\ pc \in {"idle", "check"} => cursor = 0 /\ mem_used = 0 /\ below[0] = 0
  /\ pc # "idle" => size > 0
  /\ pc \in {"scan", "compact"} => size <= MemorySize
  /\ pc = "scan" =>
       /\ below[0] = 0
       /\ below[cursor] + mem_used = End(cursor)
       /\ \A e, d \in Used : IsSucc(e, d) /\ ~Before(cursor, d) =>
            below[d] = below[e] + Gap(e, d)
  /\ pc = "compact" =>
       /\ below[Last] >= size
       /\ \A d \in Used : IsSucc(cursor, d) => below[d] = Gap(cursor, d)
       /\ \A e, d \in Used : IsSucc(e, d) /\ Before(cursor, e) =>
            below[d] = below[e] + Gap(e, d)

\* A caller cannot tell the pool from one without addresses: a request that
\* fits in the free bytes is granted however fragmented they are, a refusal
\* has one of the three reasons, no frame ever changes under its owner, and every
\* call returns.
Abstract == INSTANCE AbstractPool WITH
              Capacity <- MemorySize,
              MaxAlloc <- IF MaxAlloc < MemorySize THEN MaxAlloc ELSE MemorySize,
              held     <- [b \in Blocks |-> IF usageFlag[b] THEN memSize[b] ELSE 0],
              data     <- [b \in Blocks |->
                             [k \in 0 .. (IF usageFlag[b] THEN memSize[b] ELSE 0) - 1 |->
                                memory[pmem[b] + k]]],
              request  <- size,
              granted  <- result
ImplementsAbstract == Abstract!Spec
=============================================================================
