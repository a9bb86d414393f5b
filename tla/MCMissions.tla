----------------------------- MODULE MCMissions -----------------------------
(* Missions on small instances, for the ways the objects are used.            *)
EXTENDS Missions

Use(uses, stops, blocking, calls) ==
  [uses |-> uses, stops |-> stops, blocking |-> blocking, calls |-> calls, prompt |-> TRUE,
   refuses |-> {}, careless |-> FALSE, heeds |-> FALSE]

\* The wrapper's example, over a good line and a bad one, and with commands refused.
Example2 == Use({"example"}, {}, {TRUE}, 2)
Examples == {Example2, [Example2 EXCEPT !.prompt = FALSE]}
            \cup {[Example2 EXCEPT !.refuses = {kind, "start"}] : kind \in {"init", "add"}}

\* Programs of their own: waypoints with either kind of calls and reads of the settings,
\* of which one heeds refused inits, and one is careless.
Waypoints == {[Use({"waypoint"}, {}, {TRUE}, 7) EXCEPT !.refuses = {"add"}],
              [Use({"waypoint"}, {}, {TRUE}, 6) EXCEPT !.refuses = {"init", "add"}, !.heeds = TRUE],
              [Use({"waypoint"}, {}, {FALSE}, 6) EXCEPT !.refuses = {"start"}],
              [Use({"waypoint"}, {}, BOOLEAN, 5) EXCEPT !.careless = TRUE]}

\* The two missions that can be changed in flight, with changes refused.
Others    == {[Use({"hotpoint"}, {"hotpoint"}, BOOLEAN, 5) EXCEPT !.refuses = {"rate", "radius"}, !.careless = TRUE],
              [Use({"follow"}, {"follow"}, BOOLEAN, 5) EXCEPT !.refuses = {"follow", "aim"}]}

AllUses == Examples \cup Waypoints \cup Others
=============================================================================
