--------------------------- MODULE RequestService ---------------------------
(* What the link layer promises the code that handles requests of the flight  *)
(* controller: the requests of one session are handled one at a time and in   *)
(* the order they were made, none is handled twice however often it is        *)
(* repeated, and the next one has to wait for the answer to the last.         *)
(* RequestSessions implements this for the sessions it guards.                *)
EXTENDS Naturals

CONSTANTS Sessions, Requests    \* requests are numbered as they are made

VARIABLES latest,   \* last request handled in each session
          open      \* sessions whose last request has not been answered

Init == latest = [s \in Sessions |-> 0] /\ open = {}

Handle(s, r) == /\ s \notin open /\ open' = open \cup {s}
                /\ latest[s] < r /\ latest' = [latest EXCEPT ![s] = r]

Reply(s) == /\ s \in open /\ open' = open \ {s}
            /\ UNCHANGED latest

Next == \E s \in Sessions : Reply(s) \/ \E r \in Requests : Handle(s, r)

Spec == Init /\ [][Next]_<<latest, open>>
=============================================================================
