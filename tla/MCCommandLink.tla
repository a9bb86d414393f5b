--------------------------- MODULE MCCommandLink ----------------------------
(* CommandLink on small instances, in the surroundings the runs tell apart.   *)
EXTENDS CommandLink

\* Both threads, over a link that loses, delays and repeats.
Lossy == {[poll |-> TRUE, acks |-> {0, 2}]}

\* Only the read thread, as LinuxSetup starts the API, over a perfect link; and
\* both threads facing a flight controller that never answers.
NoLateAcks == {[poll |-> FALSE, acks |-> {1}], [poll |-> TRUE, acks |-> {0}]}

\* Both threads, over a perfect link.
Perfect == {[poll |-> TRUE, acks |-> {1}]}
=============================================================================
