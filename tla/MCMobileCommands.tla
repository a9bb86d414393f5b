-------------------------- MODULE MCMobileCommands --------------------------
(* RequestSessions and MobileCommands on small instances.                     *)
EXTENDS MobileCommands

Request(s, kind, enc) == [ses |-> s, kind |-> kind, enc |-> enc, id |-> 0]
Mobile(ids)           == {[ses |-> 0, kind |-> "mobile", enc |-> FALSE, id |-> id] : id \in ids}

\* A line that loses a frame, a pool that may be full, no key, and a flight
\* controller that may give up.
Troubled == {[asks |-> {Request(1, "lostctrl", FALSE), Request(2, "lostctrl", TRUE),
                        Request(2, "event", FALSE)},
              losses |-> 1, callbacks |-> {"event"}, key |-> FALSE, room |-> FALSE,
              cmds |-> TRUE, insists |-> FALSE,
              spin |-> "none", raised |-> {}, commandCallbacks |-> {}, ends |-> FALSE]}

\* A flight controller that repeats until it is answered, over a line that loses
\* two frames.
Insistent == {[asks |-> {Request(2, "event", FALSE), Request(2, "lostctrl", TRUE),
                         Request(1, "lostctrl", FALSE)},
               losses |-> 2, callbacks |-> {"event"}, key |-> TRUE, room |-> TRUE,
               cmds |-> FALSE, insists |-> TRUE,
               spin |-> "none", raised |-> {}, commandCallbacks |-> {}, ends |-> FALSE]}

\* Commands of the mobile device, over a perfect line.
Device(loop, ids, raised, handlers, calls, ends) ==
  [asks |-> Mobile(ids), losses |-> 0, callbacks |-> calls, key |-> TRUE, room |-> TRUE,
   cmds |-> FALSE, insists |-> TRUE,
   spin |-> loop, raised |-> raised, commandCallbacks |-> handlers, ends |-> ends]
Devices == {Device("blocking", {2, 7, 10}, {}, {}, {}, FALSE),
            Device("blocking", {2, 64}, {7}, {2}, {}, TRUE),
            Device("nonBlocking", {3, 6, 9}, {}, {}, {}, FALSE),
            Device("precision", {69, 25, 26}, {}, {}, {}, FALSE),
            Device("precision", {27, 24, 0}, {}, {}, {}, FALSE),
            Device("blocking", {8}, {}, {}, {"mobile"}, FALSE)}

Surroundings == Troubled \cup Insistent \cup Devices
=============================================================================
