---------------------------- MODULE AbstractPool ----------------------------
(* What the frame buffer pool of CoreAPI promises its callers: a set of       *)
(* numbered blocks, each either free or held with a size and a content.  The  *)
(* addresses, the gaps and the compaction of MemoryPool are invisible here.   *)
EXTENDS Integers, FiniteSets

CONSTANTS Blocks,     \* the numbers of the blocks a caller can hold
          Capacity,   \* the bytes all held blocks may occupy together
          MaxAlloc,   \* the longest single allocation
          Sizes       \* the sizes callers ask for

VARIABLES held,       \* bytes held in each block, 0 when it is free
          data,       \* what its owner reads in each held block
          request,    \* size of the request being served, 0 when there is none
          granted     \* the answer to the last request: a block, or 0 for NULL

vars == <<held, data, request, granted>>

\* The bytes in use, each by its block and its place there.
HeldBytes == UNION {{b} \X (0 .. held[b] - 1) : b \in Blocks}
Occupied  == Cardinality(HeldBytes)

\* A fresh block holds what its new owner writes into it, byte after byte.
OwnBytes(b, n) == [k \in 0 .. n - 1 |-> <<b, k>>]

Init == /\ held = [b \in Blocks |-> 0]
        /\ data = [b \in Blocks |-> OwnBytes(b, 0)]
        /\ request = 0
        /\ granted = 0

Ask(n) == /\ request = 0
          /\ request' = n
          /\ UNCHANGED <<held, data, granted>>

\* A request that fits is granted whatever holes earlier releases have left,
\* and the content of every other block stays what it was.
Grant(b) == /\ request > 0
            /\ request <= MaxAlloc
            /\ held[b] = 0
            /\ Occupied + request <= Capacity
            /\ held' = [held EXCEPT ![b] = request]
            /\ data' = [data EXCEPT ![b] = OwnBytes(b, request)]
            /\ granted' = b
            /\ request' = 0

\* A request is refused for its length, for want of bytes, or for want of a
\* block number, and for no other reason.
Refuse == /\ request > 0
          /\ \/ request > MaxAlloc
             \/ Occupied + request > Capacity
             \/ \A b \in Blocks : held[b] > 0
          /\ granted' = 0
          /\ request' = 0
          /\ UNCHANGED <<held, data>>

Release(b) == /\ request = 0
              /\ held' = [held EXCEPT ![b] = 0]
              /\ data' = [data EXCEPT ![b] = OwnBytes(b, 0)]
              /\ UNCHANGED <<request, granted>>

Next == \/ \E n \in Sizes : Ask(n)
        \/ \E b \in Blocks : Grant(b) \/ Release(b)
        \/ Refuse

\* Every request is granted or refused in the end.
EveryRequestEnds == request > 0 ~> request = 0

Steps == Init /\ [][Next]_vars

Spec == Steps /\ EveryRequestEnds
=============================================================================
