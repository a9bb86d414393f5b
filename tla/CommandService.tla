--------------------------- MODULE CommandService ---------------------------
(* What the link layer promises the code that sends commands, whatever        *)
(* happens to sessions, slots and frames: a command is accepted or refused    *)
(* once; an accepted command that wants an ACK is waiting until either its    *)
(* ACK is handed on or it is given up, and neither of the two is taken back.  *)
(* CommandLink implements this, AckDelivery starts from it.                   *)
CONSTANT Commands

VARIABLE fate     \* what has become of each command

Init == fate = [c \in Commands |-> "unsent"]

Becomes(c, before, after) == fate[c] = before /\ fate' = [fate EXCEPT ![c] = after]

Refuse(c) == Becomes(c, "unsent", "refused")
Accept(c) == Becomes(c, "unsent", "waiting")
Post(c)   == Becomes(c, "unsent", "done")        \* sent without wanting an ACK
Answer(c) == Becomes(c, "waiting", "acked")
GiveUp(c) == Becomes(c, "waiting", "dropped")

Next == \E c \in Commands : Refuse(c) \/ Accept(c) \/ Post(c) \/ Answer(c) \/ GiveUp(c)

Spec == Init /\ [][Next]_fate
=============================================================================
