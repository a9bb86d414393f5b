--------------------------- MODULE MCStreamFilter ---------------------------
(* StreamFilter with headers of 3 bytes: frames that are a header alone, that *)
(* fit inside the data of a damaged longer one, or that reach past its end.   *)
EXTENDS StreamFilter
=============================================================================
