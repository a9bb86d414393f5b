---------------------------- MODULE SetpointLoops ----------------------------
(* The setpoint loops of the wrapper (LinuxFlight.cpp 264-532) and the square *)
(* that is drawn with them (drawSqrPosCtrlSample).  A loop sends its setpoint *)
(* every 20 ms until the telemetry is within the thresholds or its time is    *)
(* up.  That of moveByPositionOffset recedes: it is SpeedFactor ahead of the  *)
(* aircraft, and the remaining way from there on.                             *)
(*                                                                            *)
(* Distances are integers in a unit of which Drift is what the aircraft, led  *)
(* or blown, moves between two samples, in telemetry that may lag.            *)
EXTENDS FlightTasks, Sequences

CONSTANTS LoopCycles,    \* cycles until a loop times out: 100 or 500
          SpeedFactor,   \* 2 m
          Threshold,     \* 5 cm
          Drift,
          Side,          \* of the square: 10 m
          Offsets        \* the offsets a caller may ask for

Axes == {"x", "y"}

ASSUME SetpointAssumption ==
  /\ LoopCycles \in Nat /\ Side \in Nat
  /\ SpeedFactor \in Nat /\ Threshold \in Nat
  /\ Drift \in Nat /\ Drift < SpeedFactor
  /\ Offsets \subseteq [Axes -> Int]

VARIABLES loop,     \* the loop main is in: its kind, the way left along each axis in
                    \* the last sample, the setpoint sent next, whether height, attitude
                    \* or speed are within their thresholds, and elapsedTime in cycles
          square    \* legs of the square begun, 0: none is being drawn

setpoints == <<loop, square>>
allFlightVars == <<flightVars, setpoints>>

Abs(n) == IF n < 0 THEN -n ELSE n

\* hold: attitudeControl, attitudeAltitudeControl and moveWithVelocity; climb:
\* moveByPositionOffset2; offset: moveByPositionOffset.
Kinds  == {"hold", "climb", "offset"}
NoWay  == [a \in Axes |-> 0]
NoLoop == [kind |-> "none", left |-> NoWay, cmd |-> NoWay, level |-> TRUE, elapsed |-> 0]

SetpointInit == Init /\ loop = NoLoop /\ square = 0

-----------------------------------------------------------------------------
(* One loop *)

\* The first setpoint.
Ahead(n) == IF Abs(n) < SpeedFactor THEN n ELSE IF n > 0 THEN SpeedFactor ELSE -SpeedFactor

Start(kind, offset) ==
  \E level \in BOOLEAN :
    loop' = [kind |-> kind, left |-> offset, cmd |-> [a \in Axes |-> Ahead(offset[a])],
             level |-> level, elapsed |-> 0]

Arrived == loop.level /\ \A a \in Axes : Abs(loop.left[a]) <= Threshold
TimedOut == loop.elapsed >= LoopCycles

\* Where the aircraft can be a cycle later.
Moved == {[a \in Axes |-> loop.left[a] + d[a]] : d \in [Axes -> -Drift .. Drift]}

\* As if the setpoint were made of the sample before the sleep.
Steered_Before(left) == [a \in Axes |-> IF Abs(loop.left[a]) < SpeedFactor THEN loop.left[a] ELSE loop.cmd[a]]

\* Only a way shorter than SpeedFactor changes the setpoint.
Steered(left) == [a \in Axes |-> IF Abs(left[a]) < SpeedFactor THEN left[a] ELSE loop.cmd[a]]

\* Send, sleep, look.
Cycle == /\ loop.kind # "none" /\ ~Arrived /\ ~TimedOut
         /\ \E level \in BOOLEAN, left \in (IF loop.kind = "offset" THEN Moved ELSE {NoWay}) :
              loop' = [kind |-> loop.kind, left |-> left, level |-> level,
                       cmd |-> IF loop.kind = "offset" THEN Steered(left) ELSE loop.cmd,
                       elapsed |-> loop.elapsed + 1]
         /\ UNCHANGED <<flightVars, square>>

\* The result is 1 whether the goal was reached or not.
EndLoop == /\ loop.kind # "none" /\ (Arrived \/ TimedOut)
           /\ loop' = NoLoop
           /\ UNCHANGED <<flightVars, square>>

-----------------------------------------------------------------------------
(* The callers: a program that has called monitoredTakeoff, whatever it returned *)

MayCall == at = "flown" /\ loop.kind = "none" /\ square = 0

\* attitudeControl and attitudeAltitudeControl hold what they are asked for.
AttitudeControl == Start("hold", NoWay)
MoveWithVelocity == Start("hold", NoWay)
MoveByPositionOffset2 == Start("climb", NoWay)

CallLoop == /\ MayCall
            /\ \/ AttitudeControl \/ MoveWithVelocity \/ MoveByPositionOffset2
               \/ \E offset \in Offsets : Start("offset", offset)
            /\ UNCHANGED <<flightVars, square>>

Way(x, y) == [a \in Axes |-> IF a = "x" THEN x ELSE y]

\* The legs of the square and its diagonals; it begins with a climb.
Legs == <<Way(0, 0), Way(0, Side), Way(Side, 0), Way(0, -Side), Way(-Side, 0),
          Way(Side, Side), Way(0, -Side), Way(-Side, Side)>>

\* As if the square were drawn without a look at the status.
CallSquare_Blind == /\ MayCall
                    /\ square' = 1 /\ Start("offset", Legs[1])
                    /\ UNCHANGED flightVars

\* Only an aircraft that is seen in the air draws it.
CallSquare == /\ MayCall /\ InAir
              /\ square' = 1 /\ Start("offset", Legs[1])
              /\ UNCHANGED flightVars

\* Each leg starts where the one before has left the aircraft, on time or not.
NextLeg == /\ square \in 1 .. Len(Legs) - 1 /\ loop.kind = "none"
           /\ square' = square + 1 /\ Start("offset", Legs[square'])
           /\ UNCHANGED flightVars

\* The last call, with thresholds of 0, stops the aircraft.
Stabilize == /\ square = Len(Legs) /\ loop.kind = "none"
             /\ square' = 0 /\ Start("hold", NoWay)
             /\ UNCHANGED flightVars

-----------------------------------------------------------------------------
LoopStep == Cycle \/ EndLoop \/ NextLeg \/ Stabilize

\* Main is in one function at a time; the aircraft goes on meanwhile.
SetpointNext ==
  \/ loop.kind = "none" /\ square = 0 /\ Next /\ UNCHANGED setpoints
  \/ AircraftStep /\ UNCHANGED setpoints
  \/ CallLoop \/ CallSquare \/ LoopStep

SetpointSpec ==
  /\ SetpointInit /\ [][SetpointNext]_allFlightVars
  /\ WF_allFlightVars(TaskStep /\ UNCHANGED setpoints)
  /\ WF_allFlightVars(Broadcast /\ UNCHANGED setpoints)
  /\ WF_allFlightVars(flight \notin setup.stays /\ FlightStep /\ UNCHANGED setpoints)
  /\ WF_allFlightVars(LoopStep)

-----------------------------------------------------------------------------
(* Properties *)

\* The setpoint of moveByPositionOffset leads to the goal: it is the way that is
\* left, or, far from the goal, lies ahead by at least what a cycle's drift leaves of
\* SpeedFactor, however the aircraft overshoots or is blown away and comes back.
Leads(left, cmd) == IF Abs(left) < SpeedFactor THEN cmd = left
                    ELSE /\ Abs(cmd) \in SpeedFactor - Drift .. SpeedFactor
                         /\ cmd > 0 <=> left > 0

LeadsHome == loop.kind = "offset" => \A a \in Axes : Leads(loop.left[a], loop.cmd[a])

\* A square is drawn only while the aircraft is in the air, though the status that was
\* looked at may be late, and it stays there until the square is finished.
SquareInAir == square > 0 => at = "flown" /\ flight \in {"climb", "hover"}

\* Setpoints are sent in the air and lead to where they were meant to.
SteersWell == LeadsHome /\ SquareInAir

\* Whatever main calls returns, also if the aircraft never arrives.
CallsReturn == /\ TasksReturn
               /\ loop.kind # "none" ~> loop.kind = "none"
               /\ square > 0 ~> square = 0
=============================================================================
