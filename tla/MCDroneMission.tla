--------------------------- MODULE MCDroneMission ---------------------------
(* DroneMission with the firmware of the Matrice 100 and a line that may lose *)
(* commands.                                                                  *)
EXTENDS DroneMission

OldFirmware == {[firmware |-> "old", stays |-> {"ground", "hover"}, lossy |-> TRUE]}
=============================================================================
