--------------------------- MODULE MCFlightTasks ---------------------------
(* FlightTasks and SetpointLoops, for each firmware.                          *)
EXTENDS SetpointLoops

\* An aircraft that may ignore an order, over a line that may lose it: the old
\* firmware only, whose landing is given up when it does not start.
OldFirmware == [firmware |-> "old", stays |-> {"ground", "hover"}, lossy |-> TRUE]

\* The new firmware: the aircraft may refuse to lift off but not to land.
NewFirmware == [firmware |-> "new", stays |-> {"ground"}, lossy |-> FALSE]

OneFirmware   == {NewFirmware}
BothFirmwares == {OldFirmware, NewFirmware}

FewOffsets == {Way(-2, 1)}
=============================================================================
