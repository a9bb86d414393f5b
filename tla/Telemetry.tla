----------------------------- MODULE Telemetry ------------------------------
(* What CoreAPI knows of the aircraft's version, and the two things that      *)
(* depend on it: the table of broadcast frequencies (setBroadcastFreq) and    *)
(* the decoding of a broadcast (broadcast and passData of DJI_App.cpp).       *)
EXTENDS Integers, Sequences, FiniteSetsExt

-----------------------------------------------------------------------------
(* parseDroneVersionInfo *)

\* MAKE_VERSION: a byte for each of the four numbers.
MakeVersion(a, b, c, d) ==
  (a % 256) * 16777216 + (b % 256) * 65536 + (c % 256) * 256 + (d % 256)

Unknown == [hw |-> "", fw |-> 0]

\* The M100 reports a tenth of its third number, other aircraft so only for 3.2.100.0.
Firmware(hw, v) ==
  LET third == IF hw = "M100" THEN 10 * v[3] ELSE v[3]
      fw    == MakeVersion(v[1], v[2], third, v[4])
  IN  IF fw = MakeVersion(3, 2, 10, 0) THEN MakeVersion(v[1], v[2], 10 * third, v[4]) ELSE fw

-----------------------------------------------------------------------------
(* The broadcast: the channels of an aircraft in the order of their bits      *)

First == <<"timeStamp", "q", "a", "v", "w", "pos">>
Last  == <<"mag", "rc", "gimbal", "status", "battery", "ctrlInfo">>

Fields == Range(First) \cup {"gps", "rtk"} \cup Range(Last)

\* As documented in setBroadcastFreqDefaults.
Channels(hw) == IF hw = "M100" THEN First \o Last ELSE First \o <<"gps", "rtk">> \o Last

\* As if detailed GPS and RTK were expected of every aircraft.
Passed_All(hw) == First \o <<"gps", "rtk">> \o Last

\* The calls of passData, each of which takes the next bit of the enable flag.
Passed(hw) == First \o (IF hw # "M100" THEN <<"gps", "rtk">> ELSE <<>>) \o Last

Fixed == [q |-> 16, a |-> 12, v |-> 13, w |-> 12, pos |-> 25, gps |-> 32, rtk |-> 44,
          mag |-> 6, rc |-> 12, status |-> 1, battery |-> 1]

\* Bytes passData takes for a field, by the firmware the API knows of.
Width(field, fw) ==
  IF field = "timeStamp" THEN IF fw > MakeVersion(3, 1, 0, 0) THEN 9 ELSE 4
  ELSE IF field = "gimbal" THEN IF fw < MakeVersion(3, 1, 0, 0) THEN 12 ELSE 13
  ELSE IF field = "ctrlInfo" THEN IF fw < MakeVersion(3, 1, 0, 0) THEN 1 ELSE 2
  ELSE Fixed[field]

\* Bytes an aircraft sends for a field; the old ones sent the first fields' first versions.
WireWidth(field, old) ==
  IF field = "timeStamp" THEN IF old THEN 4 ELSE 9
  ELSE IF field = "gimbal" THEN IF old THEN 12 ELSE 13
  ELSE IF field = "ctrlInfo" THEN IF old THEN 1 ELSE 2
  ELSE Fixed[field]

\* The fields of a frame whose flag has the bits of mask, with the place of each.
Placed(order, mask, width) ==
  LET sent == mask \cap DOMAIN order
  IN  {<<order[i], 2 + MapThenSumSet(LAMBDA j : width[order[j]], {j \in sent : j < i})>> : i \in sent}

\* broadcast: what is copied where from a frame.
Decoded(known, mask) == Placed(Passed(known.hw), mask, [f \in Fields |-> Width(f, known.fw)])

\* The frame as the aircraft means it.
Sent(craft, mask) == Placed(Channels(craft.hw), mask, [f \in Fields |-> WireWidth(f, craft.old)])

-----------------------------------------------------------------------------
(* Frequencies: BROADCAST_FREQ codes *)

\* setBroadcastFreq caps the codes and clears what is no channel of the aircraft;
\* the last entries of the callers' tables have no value.
Adjusted(hw, table) ==
  [i \in 1 .. 16 |-> IF i <= (IF hw = "M100" THEN 12 ELSE 14) THEN Min({table[i], 5}) ELSE 0]

Unset == <<99, 99>>

\* As if every aircraft had the channels of the A3.
DefaultTable_A3(hw) == <<1, 2, 3, 4, 3, 2, 0, 0, 1, 2, 3, 4, 3, 2>> \o Unset

\* setBroadcastFreqDefaults.
DefaultTable(hw) == IF hw = "M100"
                    THEN <<1, 2, 3, 4, 3, 2, 1, 2, 3, 4, 3, 2>> \o Unset \o Unset
                    ELSE <<1, 2, 3, 4, 3, 2, 0, 0, 1, 2, 3, 4, 3, 2>> \o Unset

\* validateSerialDevice: time and acceleration at 100 Hz, to have something to read.
ProbeTable == [i \in 1 .. 16 |-> IF i \in {1, 3} THEN 4 ELSE 0]

\* What the aircraft makes of a table.
Rates(craft, table) == {<<Channels(craft.hw)[i], table[i]>> : i \in DOMAIN Channels(craft.hw)}

\* The default rate of each field, whatever its channel.
DefaultRate == [timeStamp |-> 1, q |-> 2, a |-> 3, v |-> 4, w |-> 3, pos |-> 2, gps |-> 0,
                rtk |-> 0, mag |-> 1, rc |-> 2, gimbal |-> 3, status |-> 4, battery |-> 3,
                ctrlInfo |-> 2]
=============================================================================
