---------------------------- MODULE MCMemoryPool ----------------------------
(* A pool of 6 bytes and 3 entries: two blocks with a hole between them and a *)
(* request no single hole can take, so the compaction moves blocks and stops  *)
(* early; a request longer than MaxAlloc; a full table with bytes left.       *)
EXTENDS MemoryPool
=============================================================================
