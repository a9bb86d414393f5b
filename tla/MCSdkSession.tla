---------------------------- MODULE MCSdkSession ----------------------------
(* SdkSession with the four firmwares of DJI_Version.h and the one with a     *)
(* quirk of its own.                                                          *)
EXTENDS SdkSession

Craft(hw, reports, fw, old) == [hw |-> hw, reports |-> reports, fw |-> fw, old |-> old]
Crafts == {Craft("M100", <<2, 3, 1, 0>>, MakeVersion(2, 3, 10, 0), TRUE),
           Craft("M100", <<3, 1, 1, 0>>, MakeVersion(3, 1, 10, 0), FALSE),
           Craft("A3", <<3, 1, 100, 0>>, MakeVersion(3, 1, 100, 0), FALSE),
           Craft("A3", <<3, 2, 0, 0>>, MakeVersion(3, 2, 0, 0), FALSE),
           Craft("pm820v3pro", <<3, 2, 10, 0>>, MakeVersion(3, 2, 100, 0), FALSE)}
M100 == Craft("M100", <<3, 1, 1, 0>>, MakeVersion(3, 1, 10, 0), FALSE)

Session(craft, late, callbacks, wrapper, x86, encrypt) ==
  [craft |-> craft, late |-> late, callbacks |-> callbacks, wrapper |-> wrapper, x86 |-> x86, encrypt |-> encrypt,
   activation |-> {0, 3}, obtain |-> {0, 2, 3, 201}, release |-> {1, 4}, junk |-> 99]

Prompt == {Session(craft, FALSE, FALSE, FALSE, x86, encrypt) :
             craft \in Crafts, x86 \in BOOLEAN, encrypt \in BOOLEAN}
WithCallbacks == {Session(M100, late, TRUE, wrapper, FALSE, encrypt) :
                    late \in BOOLEAN, wrapper \in BOOLEAN, encrypt \in BOOLEAN}

\* The program on its line, which may lose and delay.
OnTheDrone == {Session(M100, TRUE, FALSE, FALSE, FALSE, FALSE)}

AllSessions == Prompt \cup WithCallbacks \cup OnTheDrone
=============================================================================
