------------------------- MODULE FlightTasks_proofs -------------------------
(* What monitoredTakeoff and landing report is true for every length of their *)
(* loops, both firmwares and any loss of tasks and ACKs: telemetry that lags  *)
(* by at most one phase is enough to tell the phases apart where the tasks    *)
(* look at it.                                                                *)
EXTENDS SetpointLoops, DroneMission, FiniteSetTheorems, WellFoundedInduction, TLAPS

-----------------------------------------------------------------------------
(* The inductive invariant *)

Prior == [ground |-> "cleanup", climb |-> "ground", hover |-> "climb", sink |-> "hover",
          cleanup |-> "sink"]

Shows(phase) == seen \in Views(phase)

\* Telemetry is of this phase or of the one before.
Lag == Shows(flight) \/ Shows(Prior[flight])

\* An order waits only for the phase in which it can begin.
Orders == /\ order = "takeoff" => flight = "ground"
          /\ order = "landing" => flight \in {"climb", "hover"}

\* Until the takeoff returns nobody orders a landing; once the aircraft was seen in
\* the air it is, and telemetry is no longer of the ground; once it was seen not to
\* climb after it was seen to climb, the climb is over.
TakingOff ==
  at \in TakeoffPlaces =>
    /\ order # "landing" /\ flight \in {"ground", "climb", "hover"}
    /\ at \in {"liftoff", "ascend", "settle"} =>
         flight # "ground" /\ (flight = "climb" => Shows("climb"))
    /\ at = "ascend" /\ velocity # "up" => flight = "hover"
    /\ at = "settle" => flight = "hover" /\ settled <= cycles

Flown == at = "flown" /\ result.takeoff = 1 => flight = "hover" /\ order = "none"

\* A landing that follows a takeoff that succeeded, and that was not refused.
Landing ==
  at \in LandingPlaces /\ result.takeoff = 1 /\ attempt = 1 =>
    /\ order # "takeoff" /\ flight # "climb"
    /\ at = "landing" => flight = "hover" /\ order = "none"
    /\ at = "startLanding" => setup.firmware = "old"
    /\ at = "descend" /\ setup.firmware = "old" =>
         flight # "hover" /\ (flight = "sink" => Shows("sink"))
    /\ at = "cleanup" => IF setup.firmware = "old"
                         THEN \/ flight = "ground"
                              \/ flight = "cleanup" /\ Shows("cleanup")
                         ELSE flight = "ground"

Landed == at = "ready" /\ attempt = 1 /\ result = [takeoff |-> 1, landing |-> 1] =>
            flight = "ground" /\ order = "none"

FInv == FlightTypeOK /\ Lag /\ Orders /\ TakingOff /\ Flown /\ Landing /\ Landed

-----------------------------------------------------------------------------
(* What telemetry says of the phase *)

LEMMA Firmware ==
  ASSUME FlightTypeOK
  PROVE  setup.firmware \in {"old", "new"}
  BY FlightAssumption DEF FlightTypeOK, SetupRecords

\* The phases one sample can come from.
LEMMA Sight ==
  ASSUME FlightTypeOK, NEW p \in Phases, Shows(p)
  PROVE  /\ seen \in [status : Int, vz : {"up", "still", "down"}]
         /\ InAir => p \notin {"ground", "cleanup"}
         /\ seen.vz = "up" <=> p = "climb"
         /\ setup.firmware = "old" => (seen.status = 4 <=> p = "sink") /\ (seen.status = 5 <=> p = "cleanup")
         /\ setup.firmware = "new" => (seen.status = 0 <=> p = "ground")
<1>1. PICK s \in Statuses(p), v \in Speeds(p) : seen = [status |-> s, vz |-> v]
  BY DEF Shows, Views
<1>2. seen.status = s /\ seen.vz = v
  BY <1>1
<1>3. setup.firmware \in {"old", "new"}
  BY Firmware
<1>4. CASE p = "ground"
  BY <1>1, <1>2, <1>3, <1>4 DEF Statuses, Speeds, InAir
<1>5. CASE p = "climb"
  BY <1>1, <1>2, <1>3, <1>5 DEF Statuses, Speeds, InAir
<1>6. CASE p = "hover"
  BY <1>1, <1>2, <1>3, <1>6 DEF Statuses, Speeds, InAir
<1>7. CASE p = "sink"
  BY <1>1, <1>2, <1>3, <1>7 DEF Statuses, Speeds, InAir
<1>8. CASE p = "cleanup"
  BY <1>1, <1>2, <1>3, <1>8 DEF Statuses, Speeds, InAir
<1>9. QED BY <1>4, <1>5, <1>6, <1>7, <1>8 DEF Phases

\* What the main thread may conclude from the last sample.
LEMMA Known ==
  ASSUME FlightTypeOK, Lag
  PROVE  /\ InAir => flight # "ground"
         /\ InAir /\ flight = "climb" => Shows("climb")
         /\ seen.vz \in {"up", "still", "down"}
         /\ Shows("climb") => seen.vz = "up"
         /\ setup.firmware = "old" =>
              /\ seen.status = 4 => flight \in {"sink", "cleanup"} /\ (flight = "sink" => Shows("sink"))
              /\ Shows("sink") => seen.status = 4
              /\ Shows("cleanup") => seen.status = 5
              /\ seen.status # 4 /\ flight = "cleanup" => Shows("cleanup")
         /\ setup.firmware = "new" => (seen.status = 0 => flight \in {"ground", "climb"})
<1>1. flight \in Phases /\ Prior[flight] \in Phases
  BY DEF FlightTypeOK, Phases, Prior
<1>2. /\ Prior["ground"] = "cleanup" /\ Prior["climb"] = "ground" /\ Prior["hover"] = "climb"
      /\ Prior["sink"] = "hover" /\ Prior["cleanup"] = "sink"
  BY DEF Prior
<1>3. \A p \in Phases : Shows(p) =>
         /\ seen \in [status : Int, vz : {"up", "still", "down"}]
         /\ InAir => p \notin {"ground", "cleanup"}
         /\ seen.vz = "up" <=> p = "climb"
         /\ setup.firmware = "old" => (seen.status = 4 <=> p = "sink") /\ (seen.status = 5 <=> p = "cleanup")
         /\ setup.firmware = "new" => (seen.status = 0 <=> p = "ground")
  BY Sight
<1>4. Shows(flight) \/ Shows(Prior[flight])
  BY DEF Lag
<1> HIDE DEF Shows, InAir, Prior
<1>5. QED BY <1>1, <1>2, <1>3, <1>4 DEF Phases

-----------------------------------------------------------------------------
(* The aircraft *)

\* Nothing that telemetry says of a phase changes with the tasks.
LEMMA SameSight ==
  ASSUME UNCHANGED <<setup, seen>>
  PROVE  \A p \in Phases : Shows(p)' <=> Shows(p)
  BY DEF Shows, Views, Statuses, Speeds

LEMMA BroadcastSafe ==
  ASSUME FInv, Broadcast
  PROVE  FInv'
<1>1. seen' \in Views(flight) /\ UNCHANGED <<setup, flight, order, at, attempt, cycles, velocity, settled, result>>
  BY DEF Broadcast, tasks
<1>2. \A p \in Phases : Shows(p)' <=> seen' \in Views(p)
  BY <1>1 DEF Shows, Views, Statuses, Speeds
<1>3. flight \in Phases
  BY DEF FInv, FlightTypeOK
<1>4. Shows(flight)'
  BY <1>1, <1>2, <1>3
<1>5. FlightTypeOK'
  <2>1. \E phase \in Phases : seen' \in Views(phase)'
    BY <1>3, <1>4, <1>1 DEF Shows
  <2>2. QED BY <1>1, <2>1 DEF FInv, FlightTypeOK
<1>6. Lag'
  BY <1>1, <1>4 DEF Lag
<1>7. TakingOff'
  BY <1>1, <1>4 DEF FInv, TakingOff
<1>8. Landing'
  BY <1>1, <1>4 DEF FInv, Landing
<1>9. QED BY <1>1, <1>5, <1>6, <1>7, <1>8 DEF FInv, Orders, Flown, Landed

LEMMA FlightSafe ==
  ASSUME FInv, FlightStep
  PROVE  FInv'
<1>1. /\ flight' \in Phases /\ Shows(flight) /\ flight = Prior[flight'] /\ flight' # flight
      /\ UNCHANGED <<setup, seen, at, attempt, cycles, velocity, settled, result>>
  BY DEF FlightStep, Fly, tasks, Prior, Shows, Phases
<1>2. /\ flight = "ground" => flight' = "climb" /\ order = "takeoff" /\ order' = "none"
      /\ flight = "climb" => flight' = "hover" /\ order' = order
      /\ flight = "hover" => flight' = "sink" /\ order = "landing" /\ order' = "none"
      /\ flight = "sink" => flight' = "cleanup" /\ order' = order
      /\ flight = "cleanup" => flight' = "ground" /\ order' = order
  BY DEF FlightStep, Fly
<1>3. flight \in Phases /\ order \in {"none", "takeoff", "landing"}
  BY DEF FInv, FlightTypeOK
<1>4. \A p \in Phases : Shows(p)' <=> Shows(p)
  BY <1>1, SameSight
<1>5. FlightTypeOK'
  <2>1. \E phase \in Phases : seen' \in Views(phase)'
    BY <1>1, <1>3, <1>4 DEF Shows
  <2>2. order' \in {"none", "takeoff", "landing"}
    BY <1>2, <1>3 DEF Phases
  <2>3. QED BY <1>1, <2>1, <2>2 DEF FInv, FlightTypeOK
<1>6. Lag'
  BY <1>1, <1>3, <1>4 DEF Lag, Shows, Prior
<1>7. Orders'
  BY <1>2, <1>3 DEF FInv, Orders, Phases
<1>8. TakingOff'
  <2>1. at \in TakeoffPlaces => flight \in {"ground", "climb"} /\ order # "landing"
    BY <1>2 DEF FInv, TakingOff
  <2>2. at \in {"liftoff", "ascend", "settle"} => flight = "climb"
    BY <2>1 DEF FInv, TakingOff, TakeoffPlaces
  <2>3. QED BY <1>1, <1>2, <2>1, <2>2 DEF FInv, TakingOff
<1>9. Flown'
  BY <1>1, <1>2, <1>3 DEF FInv, Flown
<1>10. Landing'
  <2> SUFFICES ASSUME at \in LandingPlaces, result.takeoff = 1, attempt = 1
               PROVE  Landing'
    BY <1>1 DEF Landing
  <2>1. order # "takeoff" /\ flight \in {"hover", "sink", "cleanup"} /\ flight' \in {"sink", "cleanup", "ground"}
    BY <1>2, <1>3 DEF FInv, Landing, Phases
  <2>2. order' # "takeoff"
    BY <1>2, <2>1
  <2>3. at # "landing"
    BY <1>2, <2>1 DEF FInv, Landing
  <2>4. at = "startLanding" => setup.firmware = "old"
    BY DEF FInv, Landing
  <2>5. at = "descend" /\ setup.firmware = "old" => flight' \in {"cleanup", "ground"}
    BY <1>2, <2>1 DEF FInv, Landing
  <2>6. at = "cleanup" => setup.firmware = "old" /\ flight' = "ground"
    BY <1>2, <2>1 DEF FInv, Landing
  <2>7. QED BY <1>1, <2>1, <2>2, <2>3, <2>4, <2>5, <2>6 DEF Landing
<1>11. Landed'
  BY <1>1, <1>2, <1>3 DEF FInv, Landed
<1>12. QED BY <1>5, <1>6, <1>7, <1>8, <1>9, <1>10, <1>11 DEF FInv

-----------------------------------------------------------------------------
(* The tasks *)

Limit == LiftoffCycles + TakeoffCycles + SettleCycles + StartCycles
FlightPlaces == {"ready", "flown"} \cup TakeoffPlaces \cup LandingPlaces
Results == [takeoff : -2 .. 1, landing : -1 .. 1]

\* What is left to show of a step of the tasks.
LEMMA TasksSafe ==
  ASSUME FInv, UNCHANGED <<setup, flight, seen>>, order' \in {"none", "takeoff", "landing"}, Orders',
         at' \in FlightPlaces, attempt' \in 0 .. 2, cycles' \in 0 .. Limit,
         velocity' \in {"up", "still", "down"}, settled' \in 0 .. SettleCycles, result' \in Results,
         TakingOff', Flown', Landing', Landed'
  PROVE  FInv'
<1>1. \A p \in Phases : Shows(p)' <=> Shows(p)
  BY SameSight
<1>2. \E phase \in Phases : seen' \in Views(phase)'
  BY <1>1 DEF FInv, FlightTypeOK, Shows
<1>3. FlightTypeOK'
  BY <1>2 DEF FInv, FlightTypeOK, FlightPlaces, Limit, Results
<1>4. Lag'
  BY DEF FInv, Lag, Shows, Views, Statuses, Speeds
<1>5. QED BY <1>3, <1>4 DEF FInv

LEMMA QuietSafe ==
  ASSUME FInv, Quiet, at' \in FlightPlaces, attempt' \in 0 .. 2, cycles' \in 0 .. Limit,
         velocity' \in {"up", "still", "down"}, settled' \in 0 .. SettleCycles, result' \in Results,
         TakingOff', Flown', Landing', Landed'
  PROVE  FInv'
<1>1. UNCHANGED <<setup, flight, order, seen>>
  BY DEF Quiet, aircraft
<1>2. order' \in {"none", "takeoff", "landing"} /\ Orders'
  BY <1>1 DEF FInv, FlightTypeOK, Orders
<1>3. QED BY <1>1, <1>2, TasksSafe

LEMMA Counting ==
  ASSUME FlightTypeOK
  PROVE  /\ cycles \in 0 .. Limit /\ attempt \in 0 .. 2 /\ result \in Results /\ at \in FlightPlaces
         /\ 0 \in 0 .. Limit /\ 0 \in 0 .. SettleCycles /\ settled \in 0 .. SettleCycles
         /\ \A n \in {TakeoffCycles, LiftoffCycles, SettleCycles, StartCycles} :
              cycles < n => cycles + 1 \in 0 .. Limit
         /\ \A r \in -2 .. 1 : [result EXCEPT !.takeoff = r] \in Results /\ [result EXCEPT !.takeoff = r].takeoff = r
         /\ \A r \in -1 .. 1 : [result EXCEPT !.landing = r] \in Results
                                 /\ [result EXCEPT !.landing = r].takeoff = result.takeoff
  BY FlightAssumption DEF FlightTypeOK, Limit, Results, FlightPlaces

\* A takeoff that returns at this moment must have ended in hovering to be successful.
LEMMA ReturnsTruly ==
  ASSUME FInv, Quiet, NEW r \in -2 .. 1, TakeoffDone(r), at \in TakeoffPlaces,
         r = 1 => flight = "hover"
  PROVE  FInv'
<1>1. /\ at' = "flown" /\ attempt' = attempt /\ cycles' = 0 /\ result' \in Results
      /\ result'.takeoff = r /\ velocity' = "still" /\ settled' = 0
  BY Counting DEF TakeoffDone, FInv
<1>2. UNCHANGED <<flight, order>> /\ order \in {"none", "takeoff", "landing"}
  BY DEF Quiet, aircraft, FInv, FlightTypeOK
<1>3. TakingOff' /\ Landing' /\ Landed'
  BY <1>1 DEF TakingOff, Landing, Landed, TakeoffPlaces, LandingPlaces
<1>4. Flown'
  BY <1>1, <1>2 DEF Flown, FInv, TakingOff, Orders
<1>5. QED BY <1>1, <1>3, <1>4, Counting, QuietSafe DEF FInv, FlightTypeOK, FlightPlaces

\* A step from one place of the takeoff to another.
LEMMA FliesOn ==
  ASSUME FInv, Quiet, at' \in TakeoffPlaces, attempt' \in 0 .. 2, cycles' \in 0 .. Limit,
         velocity' \in {"up", "still", "down"}, settled' \in 0 .. SettleCycles, result' = result,
         TakingOff'
  PROVE  FInv'
<1>1. Flown' /\ Landing' /\ Landed'
  BY DEF Flown, Landing, Landed, TakeoffPlaces, LandingPlaces
<1>2. QED BY <1>1, Counting, QuietSafe DEF FInv, FlightPlaces

LEMMA CallTakeoffSafe ==
  ASSUME FInv, CallTakeoff, flight = "ground"
  PROVE  FInv'
<1>1. /\ at' = "takeoff" /\ attempt' = 1 /\ UNCHANGED <<cycles, result, velocity, settled>>
      /\ UNCHANGED <<flight, order>> /\ Quiet
  BY DEF CallTakeoff, Order, Steady, Quiet, aircraft
<1>2. TakingOff'
  BY <1>1 DEF FInv, TakingOff, Orders
<1>3. QED BY <1>1, <1>2, FliesOn, Counting DEF FInv, FlightTypeOK, TakeoffPlaces

LEMMA CheckSafe ==
  ASSUME FInv, CheckInAir
  PROVE  FInv'
<1>1. at = "checkInAir" /\ Quiet /\ UNCHANGED <<flight, order, seen, setup>>
  BY DEF CheckInAir, Quiet, aircraft
<1>2. at \in TakeoffPlaces /\ order # "landing" /\ flight \in {"ground", "climb", "hover"}
  BY <1>1 DEF TakeoffPlaces, FInv, TakingOff
<1>3. CASE cycles = TakeoffCycles /\ RetryTakeoff
  <2>1. CASE attempt = 1
    <3>1. at' = "takeoff" /\ attempt' = 2 /\ UNCHANGED <<cycles, result, velocity, settled>>
      BY <1>3, <2>1 DEF RetryTakeoff, Order, Steady
    <3>2. TakingOff'
      BY <1>1, <1>2, <3>1 DEF TakingOff
    <3>3. QED BY <1>1, <1>3, <3>1, <3>2, FliesOn, Counting DEF FInv, FlightTypeOK, TakeoffPlaces
  <2>2. CASE attempt # 1
    BY <1>1, <1>2, <1>3, <2>2, ReturnsTruly DEF RetryTakeoff
  <2>3. QED BY <2>1, <2>2
<1>4. CASE cycles < TakeoffCycles /\ InAir /\ GoTo("liftoff") /\ velocity' = seen.vz /\ UNCHANGED settled
  <2>1. at' = "liftoff" /\ cycles' = 0 /\ UNCHANGED <<attempt, result>>
    BY <1>4 DEF GoTo
  <2>2. flight # "ground" /\ (flight = "climb" => Shows("climb")) /\ seen.vz \in {"up", "still", "down"}
    BY <1>4, Known DEF FInv
  <2>3. TakingOff'
    BY <1>1, <1>2, <2>1, <2>2, SameSight DEF TakingOff, Phases
  <2>4. QED BY <1>1, <1>4, <2>1, <2>2, <2>3, FliesOn, Counting DEF FInv, TakeoffPlaces
<1>5. CASE cycles < TakeoffCycles /\ ~InAir /\ Again /\ Steady
  <2>1. at' = at /\ cycles' = cycles + 1 /\ UNCHANGED <<attempt, result, velocity, settled>>
    BY <1>5 DEF Again, Steady
  <2>2. TakingOff'
    BY <1>1, <1>2, <2>1 DEF TakingOff
  <2>3. QED BY <1>1, <1>2, <1>5, <2>1, <2>2, FliesOn, Counting DEF FInv, FlightTypeOK
<1>6. QED BY <1>3, <1>4, <1>5 DEF CheckInAir

LEMMA TakeoffSafe ==
  ASSUME FInv, Takeoff
  PROVE  FInv'
<1>1. at = "takeoff" /\ UNCHANGED <<setup, flight, seen>>
  BY DEF Takeoff, Task
<1>2. order # "landing" /\ flight \in {"ground", "climb", "hover"}
  BY <1>1 DEF TakeoffPlaces, FInv, TakingOff
<1>3. order' = order \/ (order' = "takeoff" /\ flight = "ground")
  BY DEF Takeoff, Task, Begin, CanBegin
<1>4. order' \in {"none", "takeoff"} /\ Orders'
  BY <1>1, <1>2, <1>3 DEF FInv, FlightTypeOK, Orders
<1>5. velocity' \in {"up", "still", "down"} /\ settled' \in 0 .. SettleCycles
  BY Counting DEF Takeoff, TakeoffDone, Steady, FInv, FlightTypeOK
<1>6. CASE TakeoffDone(-1)
  <2>1. at' = "flown" /\ attempt' = attempt /\ cycles' = 0 /\ result' \in Results /\ result'.takeoff = -1
    BY <1>6, Counting DEF TakeoffDone, FInv
  <2>2. TakingOff' /\ Flown' /\ Landing' /\ Landed'
    BY <2>1 DEF TakingOff, Flown, Landing, Landed, TakeoffPlaces, LandingPlaces
  <2>3. QED BY <1>1, <1>4, <1>5, <2>1, <2>2, TasksSafe, Counting DEF FInv, FlightPlaces
<1>7. CASE GoTo("checkInAir")
  <2>1. at' = "checkInAir" /\ cycles' = 0 /\ UNCHANGED <<attempt, result>>
    BY <1>7 DEF GoTo
  <2>2. TakingOff' /\ Flown' /\ Landing' /\ Landed'
    BY <1>1, <1>2, <1>4, <2>1 DEF TakingOff, Flown, Landing, Landed, TakeoffPlaces, LandingPlaces
  <2>3. at' \in FlightPlaces
    BY <2>1 DEF FlightPlaces, TakeoffPlaces
  <2>4. QED BY <1>1, <1>4, <1>5, <2>1, <2>2, <2>3, TasksSafe, Counting DEF FInv
<1>8. QED BY <1>6, <1>7 DEF Takeoff

LEMMA LiftoffSafe ==
  ASSUME FInv, Liftoff
  PROVE  FInv'
<1>1. at = "liftoff" /\ Quiet /\ UNCHANGED <<flight, order, seen, setup>>
  BY DEF Liftoff, Quiet, aircraft
<1>2. /\ at \in TakeoffPlaces /\ order # "landing" /\ flight \in {"climb", "hover"}
      /\ flight = "climb" => Shows("climb")
  BY <1>1 DEF TakeoffPlaces, FInv, TakingOff
<1>3. Shows("climb")' <=> Shows("climb")
  BY <1>1, SameSight DEF Phases
<1>4. CASE cycles = LiftoffCycles /\ TakeoffDone(-2)
  BY <1>1, <1>2, <1>4, ReturnsTruly
<1>5. CASE cycles < LiftoffCycles /\ velocity = "up" /\ GoTo("ascend") /\ Steady
  <2>1. at' = "ascend" /\ cycles' = 0 /\ UNCHANGED <<attempt, result, velocity, settled>>
    BY <1>5 DEF GoTo, Steady
  <2>2. TakingOff'
    BY <1>1, <1>2, <1>3, <1>5, <2>1 DEF TakingOff
  <2>3. QED BY <1>1, <1>5, <2>1, <2>2, FliesOn, Counting DEF FInv, FlightTypeOK, TakeoffPlaces
<1>6. CASE cycles < LiftoffCycles /\ velocity # "up" /\ Again /\ velocity' = seen.vz /\ UNCHANGED settled
  <2>1. at' = at /\ cycles' = cycles + 1 /\ UNCHANGED <<attempt, result>>
    BY <1>6 DEF Again
  <2>2. TakingOff'
    BY <1>1, <1>2, <1>3, <2>1 DEF TakingOff
  <2>3. seen.vz \in {"up", "still", "down"}
    BY Known DEF FInv
  <2>4. QED BY <1>1, <1>2, <1>6, <2>1, <2>2, <2>3, FliesOn, Counting DEF FInv
<1>7. QED BY <1>4, <1>5, <1>6 DEF Liftoff

LEMMA AscendSafe ==
  ASSUME FInv, Ascend
  PROVE  FInv'
<1>1. at = "ascend" /\ Quiet /\ UNCHANGED <<flight, order, seen, setup>>
  BY DEF Ascend, Quiet, aircraft
<1>2. /\ at \in TakeoffPlaces /\ order # "landing" /\ flight \in {"climb", "hover"}
      /\ flight = "climb" => Shows("climb")
      /\ velocity # "up" => flight = "hover"
  BY <1>1 DEF TakeoffPlaces, FInv, TakingOff
<1>3. Shows("climb")' <=> Shows("climb")
  BY <1>1, SameSight DEF Phases
<1>4. CASE velocity = "up" /\ velocity' = seen.vz /\ UNCHANGED <<at, attempt, cycles, settled, result>>
  <2>1. seen.vz \in {"up", "still", "down"} /\ (Shows("climb") => seen.vz = "up")
    BY Known DEF FInv
  <2>2. TakingOff'
    BY <1>1, <1>2, <1>3, <1>4, <2>1 DEF TakingOff
  <2>3. QED BY <1>1, <1>2, <1>4, <2>1, <2>2, FliesOn, Counting DEF FInv
<1>5. CASE velocity # "up" /\ GoTo("settle") /\ settled' = 0 /\ UNCHANGED velocity
  <2>1. at' = "settle" /\ cycles' = 0 /\ UNCHANGED <<attempt, result>>
    BY <1>5 DEF GoTo
  <2>2. TakingOff'
    BY <1>1, <1>2, <1>5, <2>1 DEF TakingOff
  <2>3. QED BY <1>1, <1>5, <2>1, <2>2, FliesOn, Counting DEF FInv, FlightTypeOK, TakeoffPlaces
<1>6. QED BY <1>4, <1>5 DEF Ascend

LEMMA SettleSafe ==
  ASSUME FInv, Settle
  PROVE  FInv'
<1>1. at = "settle" /\ Quiet /\ UNCHANGED <<flight, order, seen, setup>>
  BY DEF Settle, Quiet, aircraft
<1>2. /\ at \in TakeoffPlaces /\ order # "landing" /\ flight = "hover" /\ settled <= cycles
  BY <1>1 DEF TakeoffPlaces, FInv, TakingOff
<1>3. cycles \in Nat /\ settled \in Nat /\ SettleCycles \in Nat
  BY FlightAssumption DEF FInv, FlightTypeOK
<1>4. CASE cycles < SettleCycles /\ Again /\ velocity' = seen.vz
             /\ settled' = IF velocity = "still" THEN settled + 1 ELSE 0
  <2>1. at' = at /\ cycles' = cycles + 1 /\ UNCHANGED <<attempt, result>>
    BY <1>4 DEF Again
  <2>2. settled' <= cycles' /\ settled' \in 0 .. SettleCycles
    BY <1>2, <1>3, <1>4, <2>1
  <2>3. seen.vz \in {"up", "still", "down"}
    BY Known DEF FInv
  <2>4. TakingOff'
    BY <1>1, <1>2, <2>1, <2>2 DEF TakingOff
  <2>5. QED BY <1>1, <1>2, <1>4, <2>1, <2>2, <2>3, <2>4, FliesOn, Counting DEF FInv
<1>5. CASE cycles = SettleCycles /\ TakeoffDone(IF 4 * settled > cycles THEN 1 ELSE -2)
  <2>1. (IF 4 * settled > cycles THEN 1 ELSE -2) \in -2 .. 1
    OBVIOUS
  <2>2. QED BY <1>1, <1>2, <1>5, <2>1, ReturnsTruly
<1>6. QED BY <1>4, <1>5 DEF Settle

\* Of the landing: from one of its places to another, and its return.
LEMMA LandsOn ==
  ASSUME FInv, Quiet, Steady, at \in LandingPlaces, NEW place \in LandingPlaces,
         GoTo(place), Landing'
  PROVE  FInv'
<1>1. at' = place /\ cycles' = 0 /\ UNCHANGED <<attempt, result, velocity, settled>>
  BY DEF GoTo, Steady
<1>2. TakingOff' /\ Flown' /\ Landed'
  BY <1>1 DEF TakingOff, Flown, Landed, TakeoffPlaces, LandingPlaces
<1>3. QED BY <1>1, <1>2, QuietSafe, Counting DEF FInv, FlightTypeOK, FlightPlaces

LEMMA LandingReturns ==
  ASSUME FInv, UNCHANGED <<setup, flight, seen>>, Steady, NEW r \in -1 .. 1, LandingDone(r),
         order' \in {"none", "takeoff", "landing"}, Orders', Landed'
  PROVE  FInv'
<1>1. at' = "ready" /\ attempt' = attempt /\ cycles' = 0 /\ result' \in Results
      /\ UNCHANGED <<velocity, settled>>
  BY Counting DEF LandingDone, Steady, FInv
<1>2. TakingOff' /\ Flown' /\ Landing'
  BY <1>1 DEF TakingOff, Flown, Landing, TakeoffPlaces, LandingPlaces
<1>3. QED BY <1>1, <1>2, TasksSafe, Counting DEF FInv, FlightTypeOK, FlightPlaces

\* A result of -1 or an attempt that is the second leaves nothing to show of it.
LEMMA NotLanded ==
  ASSUME FInv, NEW r \in -1 .. 1, LandingDone(r), r # 1 \/ attempt = 2
  PROVE  Landed'
<1>1. attempt' = attempt /\ result' = [result EXCEPT !.landing = r]
  BY DEF LandingDone
<1>2. r # 1 => result'.landing # 1
  <2>1. result \in Results
    BY Counting DEF FInv
  <2>2. QED BY <1>1, <2>1 DEF Results
<1>3. QED BY <1>1, <1>2 DEF Landed

LEMMA CallLandingSafe ==
  ASSUME FInv, CallLanding
  PROVE  FInv'
<1>1. /\ at = "flown" /\ at' = "landing" /\ attempt' = 1 /\ UNCHANGED <<cycles, result, velocity, settled>>
      /\ UNCHANGED <<flight, order>> /\ Quiet
  BY DEF CallLanding, Order, Steady, Quiet, aircraft
<1>2. TakingOff' /\ Flown' /\ Landed'
  BY <1>1 DEF TakingOff, Flown, Landed, TakeoffPlaces
<1>3. Landing'
  BY <1>1 DEF FInv, Flown, Landing
<1>4. at' \in FlightPlaces
  BY <1>1 DEF FlightPlaces, LandingPlaces
<1>5. QED BY <1>1, <1>2, <1>3, <1>4, QuietSafe, Counting DEF FInv, FlightTypeOK

LEMMA LandSafe ==
  ASSUME FInv, Land
  PROVE  FInv'
<1>1. at = "landing" /\ UNCHANGED <<setup, flight, seen, velocity, settled>>
  BY DEF Land, Task, Steady
<1>2. order' = order \/ (order' = "landing" /\ flight \in {"climb", "hover"})
  BY DEF Land, Task, Begin, CanBegin
<1>3. order' \in {"none", "takeoff", "landing"} /\ Orders'
  BY <1>1, <1>2 DEF FInv, FlightTypeOK, Orders
<1>4. velocity' \in {"up", "still", "down"} /\ settled' \in 0 .. SettleCycles /\ cycles \in 0 .. Limit
  BY <1>1, Counting DEF FInv, FlightTypeOK
<1>5. CASE attempt = 1 /\ Order("landing", 2)
  <2>1. at' = "landing" /\ attempt' = 2 /\ UNCHANGED <<cycles, result>>
    BY <1>5 DEF Order
  <2>2. TakingOff' /\ Flown' /\ Landing' /\ Landed'
    BY <2>1 DEF TakingOff, Flown, Landing, Landed, TakeoffPlaces
  <2>3. at' \in FlightPlaces
    BY <2>1 DEF FlightPlaces, LandingPlaces
  <2>4. QED BY <1>1, <1>3, <1>4, <2>1, <2>2, <2>3, TasksSafe, Counting DEF FInv
<1>6. CASE attempt = 1 /\ GoTo(IF setup.firmware = "old" THEN "startLanding" ELSE "descend")
  <2>1. /\ at' = (IF setup.firmware = "old" THEN "startLanding" ELSE "descend")
        /\ cycles' = 0 /\ UNCHANGED <<attempt, result>>
    BY <1>6 DEF GoTo
  <2>2. TakingOff' /\ Flown' /\ Landed'
    BY <2>1 DEF TakingOff, Flown, Landed, TakeoffPlaces
  <2>3. Landing'
    <3>1. result.takeoff = 1 => order = "none" /\ flight = "hover"
      BY <1>1, <1>6 DEF FInv, Landing, LandingPlaces
    <3>2. QED BY <1>1, <1>2, <1>3, <2>1, <3>1 DEF Landing
  <2>4. at' \in FlightPlaces
    BY <2>1 DEF FlightPlaces, LandingPlaces
  <2>5. QED BY <1>1, <1>3, <1>4, <2>1, <2>2, <2>3, <2>4, TasksSafe, Counting DEF FInv
<1>7. CASE LandingDone(-1)
  BY <1>1, <1>3, <1>7, LandingReturns, NotLanded DEF Steady
<1>8. CASE attempt = 2 /\ LandingDone(1)
  BY <1>1, <1>3, <1>8, LandingReturns, NotLanded DEF Steady
<1>9. QED
  <2>1. PICK ack \in Acks :
          \/ attempt = 1 /\ ack = Failed /\ Order("landing", 2)
          \/ /\ attempt = 1 /\ ack = Started
             /\ GoTo(IF setup.firmware = "old" THEN "startLanding" ELSE "descend")
          \/ attempt = 1 /\ ack \notin {Failed, Started} /\ LandingDone(-1)
          \/ attempt = 2 /\ LandingDone(IF ack = Failed THEN -1 ELSE 1)
    BY DEF Land
  <2>2. ack = Failed \/ ack # Failed
    OBVIOUS
  <2>3. QED BY <1>5, <1>6, <1>7, <1>8, <2>1, <2>2

LEMMA StartLandingSafe ==
  ASSUME FInv, StartLanding
  PROVE  FInv'
<1>1. /\ at = "startLanding" /\ Quiet /\ Steady
      /\ UNCHANGED <<flight, order, seen, setup, velocity, settled>>
  BY DEF StartLanding, Steady, Quiet, aircraft
<1>2. at \in LandingPlaces /\ order \in {"none", "takeoff", "landing"} /\ Orders'
  BY <1>1 DEF LandingPlaces, FInv, FlightTypeOK, Orders
<1>3. CASE LandingDone(-1)
  BY <1>1, <1>2, <1>3, LandingReturns, NotLanded
<1>4. CASE seen.status = 4 /\ GoTo("descend")
  <2>1. at' = "descend" /\ UNCHANGED <<attempt, result>>
    BY <1>4 DEF GoTo
  <2>2. Shows("sink")' <=> Shows("sink")
    BY <1>1, SameSight DEF Phases
  <2>3. Landing'
    BY <1>1, <1>2, <1>4, <2>1, <2>2, Known DEF FInv, Landing
  <2>4. QED BY <1>1, <1>2, <1>4, <2>3, LandsOn DEF LandingPlaces
<1>5. CASE cycles < StartCycles /\ Again
  <2>1. at' = at /\ cycles' = cycles + 1 /\ UNCHANGED <<attempt, result>>
    BY <1>5 DEF Again
  <2>2. TakingOff' /\ Flown' /\ Landing' /\ Landed'
    BY <1>1, <1>2, <2>1 DEF FInv, TakingOff, Flown, Landing, Landed, TakeoffPlaces
  <2>3. cycles' \in 0 .. Limit /\ at' \in FlightPlaces
    BY <1>2, <1>5, <2>1, Counting DEF FInv, FlightPlaces
  <2>4. QED BY <1>1, <2>1, <2>2, <2>3, QuietSafe, Counting DEF FInv, FlightTypeOK
<1>6. QED BY <1>3, <1>4, <1>5 DEF StartLanding

LEMMA DescendSafe ==
  ASSUME FInv, Descend
  PROVE  FInv'
<1>1. /\ at = "descend" /\ Quiet /\ Steady /\ Descended /\ GoTo("cleanup")
      /\ UNCHANGED <<flight, order, seen, setup>>
  BY DEF Descend, Quiet, aircraft
<1>2. at \in LandingPlaces /\ at' = "cleanup" /\ UNCHANGED <<attempt, result>>
  BY <1>1 DEF LandingPlaces, GoTo
<1>3. Shows("cleanup")' <=> Shows("cleanup")
  BY <1>1, SameSight DEF Phases
<1>4. flight \in Phases /\ setup.firmware \in {"old", "new"}
  BY Firmware DEF FInv, FlightTypeOK
<1>5. Landing'
  <2>1. CASE setup.firmware = "old"
    <3>1. seen.status # 4
      BY <1>1, <2>1 DEF Descended
    <3>2. (Shows("sink") => seen.status = 4) /\ (flight = "cleanup" => Shows("cleanup"))
      BY <2>1, <3>1, Known DEF FInv
    <3>3. result.takeoff = 1 /\ attempt = 1 => order # "takeoff" /\ flight \in {"cleanup", "ground"}
      BY <1>1, <1>2, <1>4, <2>1, <3>1, <3>2 DEF FInv, Landing, Phases
    <3>4. QED BY <1>1, <1>2, <1>3, <2>1, <3>2, <3>3 DEF Landing
  <2>2. CASE setup.firmware = "new"
    <3>1. seen.status = 0
      BY <1>1, <2>2 DEF Descended
    <3>2. flight \in {"ground", "climb"}
      BY <2>2, <3>1, Known DEF FInv
    <3>3. QED BY <1>1, <1>2, <2>2, <3>2 DEF FInv, Landing
  <2>3. QED BY <1>4, <2>1, <2>2
<1>6. QED BY <1>1, <1>2, <1>5, LandsOn DEF LandingPlaces

LEMMA CleanupSafe ==
  ASSUME FInv, Cleanup
  PROVE  FInv'
<1>1. /\ at = "cleanup" /\ Quiet /\ Steady /\ ~(setup.firmware = "old" /\ seen.status = 5)
      /\ LandingDone(1) /\ UNCHANGED <<flight, order, seen, setup>>
  BY DEF Cleanup, Quiet, aircraft
<1>2. order \in {"none", "takeoff", "landing"} /\ Orders'
  BY <1>1 DEF FInv, FlightTypeOK, Orders
<1>3. result.takeoff = 1 /\ attempt = 1 => flight = "ground" /\ order = "none"
  <2>1. result.takeoff = 1 /\ attempt = 1 => flight = "ground" /\ order # "takeoff"
    <3>1. setup.firmware = "old" => ~Shows("cleanup")
      BY <1>1, Known DEF FInv
    <3>2. QED BY <1>1, <3>1 DEF FInv, Landing, LandingPlaces
  <2>2. QED BY <1>2, <2>1 DEF FInv, Orders
<1>4. Landed'
  <2>1. attempt' = attempt /\ result'.takeoff = result.takeoff
    BY <1>1, Counting DEF LandingDone, FInv
  <2>2. QED BY <1>1, <1>3, <2>1 DEF Landed
<1>5. QED BY <1>1, <1>2, <1>4, LandingReturns

-----------------------------------------------------------------------------
LEMMA InitSafe ==
  ASSUME Init
  PROVE  FInv
<1>1. flight = "ground" /\ order = "none" /\ seen \in Views("ground") /\ at = "ready"
      /\ result = [takeoff |-> 0, landing |-> 0]
  BY DEF Init
<1>2. FlightTypeOK
  <2>1. \E phase \in Phases : seen \in Views(phase)
    BY <1>1 DEF Phases
  <2>2. result \in [takeoff : -2 .. 1, landing : -1 .. 1]
    BY <1>1
  <2>3. cycles \in 0 .. LiftoffCycles + TakeoffCycles + SettleCycles + StartCycles /\ settled \in 0 .. SettleCycles
    BY FlightAssumption DEF Init
  <2>4. QED BY <2>1, <2>2, <2>3 DEF Init, FlightTypeOK, Phases
<1>3. QED BY <1>1, <1>2 DEF FInv, Lag, Shows, Orders, TakingOff, Flown, Landing, Landed,
                            TakeoffPlaces, LandingPlaces

LEMMA NextSafe ==
  ASSUME FInv, [Next]_flightVars
  PROVE  FInv'
<1>1. CASE UNCHANGED flightVars
  <2>1. UNCHANGED <<setup, flight, order, seen, at, attempt, cycles, velocity, settled, result>> /\ Quiet
    BY <1>1 DEF flightVars, aircraft, tasks, Quiet
  <2>2. \A p \in Phases : Shows(p)' <=> Shows(p)
    BY <2>1, SameSight
  <2>3. TakingOff' /\ Flown' /\ Landing' /\ Landed'
    BY <2>1, <2>2 DEF FInv, TakingOff, Flown, Landing, Landed, Phases
  <2>4. QED BY <2>1, <2>3, QuietSafe, Counting DEF FInv, FlightTypeOK
<1>2. CASE flight = "ground" /\ CallTakeoff
  BY <1>2, CallTakeoffSafe
<1>3. CASE CallLanding
  BY <1>3, CallLandingSafe
<1>4. CASE TakeoffStep
  BY <1>4, TakeoffSafe, CheckSafe, LiftoffSafe, AscendSafe, SettleSafe DEF TakeoffStep
<1>5. CASE LandingStep
  BY <1>5, LandSafe, StartLandingSafe, DescendSafe, CleanupSafe DEF LandingStep
<1>6. CASE AircraftStep
  BY <1>6, BroadcastSafe, FlightSafe DEF AircraftStep
<1>7. QED BY <1>1, <1>2, <1>3, <1>4, <1>5, <1>6 DEF Next, TaskStep

LEMMA Invariant == Spec => []FInv
<1>1. Init => FInv
  BY InitSafe
<1>2. FInv /\ [Next]_flightVars => FInv'
  BY NextSafe
<1>3. QED BY <1>1, <1>2, PTL DEF Spec

\* When monitoredTakeoff reports success the aircraft hovers, whatever the lengths of
\* its loops, the firmware, and the tasks and ACKs lost on the way.
THEOREM TakeoffTold == Spec => []TakeoffTruth
<1>1. FInv => TakeoffTruth
  BY DEF FInv, Flown, TakeoffTruth
<1>2. QED BY <1>1, Invariant, PTL

\* When landing reports success after a takeoff that succeeded, and was accepted at its
\* first attempt, the aircraft is on the ground.
THEOREM LandingTold == Spec => []FirstLandingWaits
<1>1. FInv => FirstLandingWaits
  BY DEF FInv, Landed, FirstLandingWaits, LandingWaits
<1>2. QED BY <1>1, Invariant, PTL

-----------------------------------------------------------------------------
(* SETPOINT LOOPS.  The setpoints lead to their goal for every offset, drift  *)
(* below SpeedFactor and time limit, and what monitoredTakeoff and landing    *)
(* report stays true with the setpoint loops between them.                    *)

-----------------------------------------------------------------------------
(* The inductive invariant *)

LoopTyped == /\ loop.kind \in {"none"} \cup Kinds /\ square \in 0 .. Len(Legs)
             /\ loop.left \in [Axes -> Int] /\ loop.cmd \in [Axes -> Int]

\* Between a takeoff and the next landing nothing brings the aircraft down.
Airborne == at = "flown" => order # "landing" /\ flight \in {"ground", "climb", "hover"}

SInv == FInv /\ LoopTyped /\ Airborne /\ LeadsHome /\ SquareInAir

-----------------------------------------------------------------------------
(* The setpoint *)

LEMMA AheadLeads ==
  ASSUME NEW n \in Int
  PROVE  Ahead(n) \in Int /\ Leads(n, Ahead(n))
<1>1. SpeedFactor \in Nat /\ Drift \in Nat /\ Drift < SpeedFactor
  BY SetpointAssumption
<1>2. QED BY <1>1 DEF Ahead, Leads, Abs

LEMMA DriftLeads ==
  ASSUME NEW n \in Int, NEW c \in Int, Leads(n, c), NEW d \in -Drift .. Drift
  PROVE  Leads(n + d, IF Abs(n + d) < SpeedFactor THEN n + d ELSE c)
<1>1. SpeedFactor \in Nat /\ Drift \in Nat /\ Drift < SpeedFactor
  BY SetpointAssumption
<1>2. CASE Abs(n + d) < SpeedFactor
  BY <1>2 DEF Leads
<1>3. CASE ~(Abs(n + d) < SpeedFactor) /\ Abs(n) < SpeedFactor
  BY <1>1, <1>3 DEF Leads, Abs
<1>4. CASE ~(Abs(n + d) < SpeedFactor) /\ ~(Abs(n) < SpeedFactor)
  BY <1>1, <1>4 DEF Leads, Abs
<1>5. QED BY <1>2, <1>3, <1>4

LEMMA StartLeads ==
  ASSUME NEW kind \in Kinds, NEW offset \in [Axes -> Int], Start(kind, offset)
  PROVE  /\ loop'.kind = kind /\ loop'.left \in [Axes -> Int] /\ loop'.cmd \in [Axes -> Int]
         /\ LeadsHome'
<1>1. /\ loop'.kind = kind /\ loop'.left = offset
      /\ loop'.cmd = [a \in Axes |-> Ahead(offset[a])]
  BY DEF Start
<1>2. \A a \in Axes : Ahead(offset[a]) \in Int /\ Leads(offset[a], Ahead(offset[a]))
  BY AheadLeads
<1>3. QED BY <1>1, <1>2 DEF LeadsHome, Leads

LEMMA Ways ==
  /\ NoWay \in [Axes -> Int]
  /\ Len(Legs) = 8 /\ \A i \in 1 .. 8 : Legs[i] \in [Axes -> Int]
<1>1. \A x, y \in Int : Way(x, y) \in [Axes -> Int]
  BY DEF Way
<1>2. Side \in Int /\ -Side \in Int /\ 0 \in Int
  BY SetpointAssumption
<1>3. Len(Legs) = 8
  BY DEF Legs
<1>4. \A i \in 1 .. 8 : Legs[i] \in [Axes -> Int]
  <2>1. /\ Way(0, 0) \in [Axes -> Int] /\ Way(0, Side) \in [Axes -> Int]
        /\ Way(Side, 0) \in [Axes -> Int] /\ Way(0, -Side) \in [Axes -> Int]
        /\ Way(-Side, 0) \in [Axes -> Int] /\ Way(Side, Side) \in [Axes -> Int]
        /\ Way(-Side, Side) \in [Axes -> Int]
    BY <1>1, <1>2
  <2>2. /\ Legs[1] = Way(0, 0) /\ Legs[2] = Way(0, Side)
        /\ Legs[3] = Way(Side, 0) /\ Legs[4] = Way(0, -Side)
        /\ Legs[5] = Way(-Side, 0) /\ Legs[6] = Way(Side, Side)
        /\ Legs[7] = Way(0, -Side) /\ Legs[8] = Way(-Side, Side)
    BY DEF Legs
  <2>3. \A i \in 1 .. 8 : i = 1 \/ i = 2 \/ i = 3 \/ i = 4 \/ i = 5 \/ i = 6 \/ i = 7 \/ i = 8
    OBVIOUS
  <2>4. QED BY <2>1, <2>2, <2>3
<1>5. QED BY <1>3, <1>4 DEF NoWay

LEMMA LoopSafe ==
  ASSUME LoopTyped, LeadsHome, LoopStep \/ CallLoop \/ CallSquare
  PROVE  LoopTyped' /\ LeadsHome'
<1>1. ASSUME NEW kind \in Kinds, NEW offset \in [Axes -> Int], Start(kind, offset),
             square' \in 0 .. Len(Legs)
      PROVE  LoopTyped' /\ LeadsHome'
  BY <1>1, StartLeads DEF LoopTyped
<1>2. CASE Cycle
  <2>1. PICK left \in (IF loop.kind = "offset" THEN Moved ELSE {NoWay}) :
          /\ loop'.kind = loop.kind /\ loop'.left = left
          /\ loop'.cmd = IF loop.kind = "offset" THEN Steered(left) ELSE loop.cmd
    BY <1>2 DEF Cycle
  <2>2. square' = square
    BY <1>2 DEF Cycle
  <2>3. CASE loop.kind = "offset"
    <3>1. PICK d \in [Axes -> -Drift .. Drift] : left = [a \in Axes |-> loop.left[a] + d[a]]
      BY <2>1, <2>3 DEF Moved
    <3>2. ASSUME NEW a \in Axes
          PROVE  /\ left[a] \in Int /\ Steered(left)[a] \in Int
                 /\ Leads(left[a], Steered(left)[a])
      <4>1. loop.left[a] \in Int /\ loop.cmd[a] \in Int /\ d[a] \in -Drift .. Drift /\ d[a] \in Int
        BY <3>1, SetpointAssumption DEF LoopTyped
      <4>2. Leads(loop.left[a], loop.cmd[a])
        BY <2>3 DEF LeadsHome
      <4>3. left[a] = loop.left[a] + d[a]
        BY <3>1
      <4>4. Steered(left)[a] = IF Abs(left[a]) < SpeedFactor THEN left[a] ELSE loop.cmd[a]
        BY DEF Steered
      <4>5. Leads(left[a], Steered(left)[a])
        BY <4>1, <4>2, <4>3, <4>4, DriftLeads
      <4>6. QED BY <4>1, <4>3, <4>4, <4>5
    <3>3. left \in [Axes -> Int] /\ Steered(left) \in [Axes -> Int]
      BY <3>1, <3>2 DEF Steered
    <3>4. QED BY <2>1, <2>2, <2>3, <3>2, <3>3 DEF LoopTyped, LeadsHome, Leads
  <2>4. CASE loop.kind # "offset"
    BY <2>1, <2>2, <2>4, Ways DEF LoopTyped, LeadsHome
  <2>5. QED BY <2>3, <2>4
<1>3. CASE EndLoop
  <2>1. loop' = NoLoop /\ square' = square
    BY <1>3 DEF EndLoop
  <2>2. loop'.kind = "none" /\ loop'.left = NoWay /\ loop'.cmd = NoWay
    BY <2>1 DEF NoLoop
  <2>3. QED BY <2>1, <2>2, Ways DEF LoopTyped, LeadsHome
<1>4. CASE CallLoop
  <2>1. square' = square /\ \A offset \in Offsets : offset \in [Axes -> Int]
    BY <1>4, SetpointAssumption DEF CallLoop, AttitudeControl, MoveWithVelocity, MoveByPositionOffset2
  <2>2. QED BY <1>1, <1>4, <2>1, Ways DEF CallLoop, AttitudeControl, MoveWithVelocity, MoveByPositionOffset2,
                                          Kinds, LoopTyped
<1>5. CASE CallSquare
  BY <1>1, <1>5, Ways DEF CallSquare, Kinds
<1>6. CASE NextLeg
  <2>1. square' \in 1 .. 8 /\ Start("offset", Legs[square'])
    BY <1>6, Ways DEF NextLeg
  <2>2. QED BY <1>1, <2>1, Ways DEF Kinds
<1>7. CASE Stabilize
  BY <1>1, <1>7, Ways DEF Stabilize, Kinds
<1>8. QED BY <1>2, <1>3, <1>4, <1>5, <1>6, <1>7 DEF LoopStep

-----------------------------------------------------------------------------
(* The aircraft under the loops *)

LEMMA AircraftStaysUp ==
  ASSUME FInv, Airborne, SquareInAir, AircraftStep, UNCHANGED setpoints
  PROVE  Airborne' /\ SquareInAir'
<1>1. at' = at /\ square' = square
  BY DEF AircraftStep, Broadcast, FlightStep, tasks, setpoints
<1>2. \/ UNCHANGED <<flight, order>>
      \/ flight = "ground" /\ flight' = "climb" /\ order' = "none"
      \/ flight = "climb" /\ flight' = "hover" /\ order' = order
      \/ order = "landing"
      \/ flight \in {"sink", "cleanup"}
  BY DEF AircraftStep, Broadcast, FlightStep, Fly
<1>3. QED BY <1>1, <1>2 DEF Airborne, SquareInAir

LEMMA TasksStayUp ==
  ASSUME FInv, Airborne, Next
  PROVE  Airborne'
<1>1. CASE AircraftStep
  <2>1. at' = at
    BY <1>1 DEF AircraftStep, Broadcast, FlightStep, tasks
  <2>2. \/ UNCHANGED <<flight, order>>
        \/ flight = "ground" /\ flight' = "climb" /\ order' = "none"
        \/ flight = "climb" /\ flight' = "hover" /\ order' = order
        \/ order = "landing"
        \/ flight \in {"sink", "cleanup"}
    BY <1>1 DEF AircraftStep, Broadcast, FlightStep, Fly
  <2>3. QED BY <2>1, <2>2 DEF Airborne
<1>2. CASE CallTakeoff \/ CallLanding \/ LandingStep
  BY <1>2 DEF CallTakeoff, CallLanding, LandingStep, Land, StartLanding, Descend, Cleanup,
              Order, GoTo, Again, LandingDone, Airborne
<1>3. CASE TakeoffStep
  <2>1. at \in TakeoffPlaces /\ flight' = flight /\ order' \in {order, "takeoff"}
    BY <1>3 DEF TakeoffStep, Takeoff, CheckInAir, Liftoff, Ascend, Settle, TakeoffPlaces, Task,
                Begin, Quiet, aircraft
  <2>2. QED BY <2>1 DEF FInv, TakingOff, Airborne
<1>4. QED BY <1>1, <1>2, <1>3 DEF Next, TaskStep

LEMMA SetpointSafe ==
  ASSUME SInv, [SetpointNext]_allFlightVars
  PROVE  SInv'
<1>1. CASE loop.kind = "none" /\ square = 0 /\ Next /\ UNCHANGED setpoints
  <2>1. FInv' /\ Airborne'
    BY <1>1, NextSafe, TasksStayUp DEF SInv
  <2>2. QED BY <1>1, <2>1 DEF SInv, setpoints, LoopTyped, LeadsHome, SquareInAir
<1>2. CASE AircraftStep /\ UNCHANGED setpoints
  <2>1. FInv'
    BY <1>2, NextSafe DEF SInv, Next
  <2>2. QED BY <1>2, <2>1, AircraftStaysUp DEF SInv, setpoints, LoopTyped, LeadsHome
<1>3. CASE CallLoop \/ CallSquare \/ LoopStep
  <2>1. UNCHANGED flightVars
    BY <1>3 DEF CallLoop, AttitudeControl, MoveWithVelocity, MoveByPositionOffset2,
                CallSquare, LoopStep, Cycle, EndLoop, NextLeg, Stabilize
  <2>2. FInv' /\ Airborne'
    BY <2>1, NextSafe DEF SInv, Airborne, flightVars, aircraft, tasks
  <2>3. LoopTyped' /\ LeadsHome'
    BY <1>3, LoopSafe DEF SInv
  <2>4. square' > 0 => at = "flown" /\ flight \in {"climb", "hover"}
    <3>1. CASE square > 0
      BY <3>1 DEF SInv, SquareInAir
    <3>2. CASE ~(square > 0)
      <4>1. square = 0
        BY <3>2, Ways DEF SInv, LoopTyped
      <4>2. CallSquare \/ square' = 0
        BY <1>3, <4>1, Ways DEF CallLoop, AttitudeControl, MoveWithVelocity, MoveByPositionOffset2,
                                LoopStep, Cycle, EndLoop, NextLeg, Stabilize
      <4>3. CASE CallSquare
        <5>1. flight # "ground"
          BY <4>3, Known DEF SInv, FInv, CallSquare
        <5>2. QED BY <4>3, <5>1 DEF SInv, Airborne, CallSquare, MayCall
      <4>4. QED BY <4>2, <4>3
    <3>3. QED BY <3>1, <3>2
  <2>5. SquareInAir'
    BY <2>1, <2>4 DEF SquareInAir, flightVars, aircraft, tasks
  <2>6. QED BY <2>2, <2>3, <2>5 DEF SInv
<1>4. CASE UNCHANGED allFlightVars
  <2>1. FInv'
    BY <1>4, NextSafe DEF SInv, allFlightVars
  <2>2. QED BY <1>4, <2>1 DEF SInv, allFlightVars, flightVars, aircraft, tasks, setpoints,
                              LoopTyped, Airborne, LeadsHome, SquareInAir
<1>5. QED BY <1>1, <1>2, <1>3, <1>4 DEF SetpointNext

LEMMA SetpointInvariant == SetpointSpec => []SInv
<1>1. SetpointInit => SInv
  <2>1. ASSUME SetpointInit PROVE SInv
    <3>1. FInv
      BY <2>1, InitSafe DEF SetpointInit
    <3>2. loop.kind = "none" /\ loop.left = NoWay /\ loop.cmd = NoWay /\ square = 0 /\ at = "ready"
      BY <2>1 DEF SetpointInit, NoLoop, Init
    <3>3. QED BY <3>1, <3>2, Ways DEF SInv, LoopTyped, Airborne, LeadsHome, SquareInAir
  <2>2. QED BY <2>1
<1>2. QED BY <1>1, SetpointSafe, PTL DEF SetpointSpec

-----------------------------------------------------------------------------
\* A receding setpoint leads to the goal however far the aircraft overshoots or is
\* blown between two samples, as long as that is less than SpeedFactor, and a square is
\* drawn in the air from its first to its last leg.
THEOREM SetpointsLead == SetpointSpec => []SteersWell
<1>1. SInv => SteersWell
  BY DEF SInv, SteersWell
<1>2. QED BY <1>1, SetpointInvariant, PTL

\* Setpoint loops between the takeoff and the landing leave what these report true.
THEOREM LoopsBetween == SetpointSpec => [](TakeoffTruth /\ FirstLandingWaits)
<1>1. FInv => TakeoffTruth /\ FirstLandingWaits
  BY DEF FInv, Flown, Landed, TakeoffTruth, FirstLandingWaits, LandingWaits
<1>2. SInv => FInv
  BY DEF SInv
<1>3. QED BY <1>1, <1>2, SetpointInvariant, PTL
-----------------------------------------------------------------------------
(* THE MISSION.  The descriptors, threads and objects around the flights: over*)
(* any number of attempts, for every limit of descriptors and every number of *)
(* heights, the copies that close the LED's number, the polls that leak and   *)
(* the attempts that fail never reach what an attempt in progress uses.       *)

-----------------------------------------------------------------------------
(* The inductive invariant *)

Counts == at = "settle" => settled <= cycles

\* The numbers an attempt holds refer to what it opened; it has given up those it closed.
Held == /\ port # NoFd => fds[port] = "port"
        /\ log # NoFd => fds[log] = "log"
        /\ main \notin {"wait", "error", "objects"} /\ modem # NoFd => fds[modem] = "modem"

\* The LED's number is free only where nothing is opened but the button's value file.
Led == /\ led = 0 /\ fds[led] \in {"led", "button", "free"}
       /\ fds[led] = "free" => main \notin {"objects", "modem", "setup", "activate", "takeControl",
                                           "openLog", "battery", "countdown"}

Unstarted == {"wait", "error", "objects", "modem", "setup", "finish"}

\* Where the thread of the attempt is, and its API.
Thread == /\ reader = "none" <=> main \in Unstarted
          /\ main \notin Unstarted => port # NoFd
          /\ main \notin {"wait", "error", "objects", "finish"} => api = "live"
          /\ reader = "stopped" => main \in {"join", "delete"}
          /\ main = "delete" => reader = "stopped"
          /\ stopCond => main \in {"join", "delete", "finish", "wait", "error", "objects"}

\* Without a press the attempt has no descriptors to go on with.
Pressed == \/ pressed \/ main \in {"wait", "error"}
           \/ main \in {"objects", "modem", "setup"} /\ FreeFds = {}

MInv == AttemptsApart /\ Counts /\ Held /\ Led /\ Thread /\ Pressed

-----------------------------------------------------------------------------
(* The tasks keep their types, wherever the aircraft is when they are called *)

FTypes == FlightTypeOK /\ Counts

LEMMA Sample ==
  ASSUME FlightTypeOK
  PROVE  seen.vz \in {"up", "still", "down"}
<1>1. PICK p \in Phases : seen \in Views(p)
  BY DEF FlightTypeOK
<1>2. PICK s \in Statuses(p), v \in Speeds(p) : seen = [status |-> s, vz |-> v]
  BY <1>1 DEF Views
<1>3. p = "ground" \/ p = "climb" \/ p = "hover" \/ p = "sink" \/ p = "cleanup"
  BY DEF Phases
<1>4. Speeds(p) \subseteq {"up", "still", "down"}
  BY <1>3 DEF Speeds
<1>5. seen.vz = v
  BY <1>2
<1>6. QED BY <1>2, <1>4, <1>5

LEMMA FlightTyped ==
  ASSUME FTypes, UNCHANGED setup,
         flight' \in Phases, order' \in {"none", "takeoff", "landing"},
         seen' = seen \/ seen' \in Views(flight),
         at' \in {"ready", "flown"} \cup TakeoffPlaces \cup LandingPlaces, attempt' \in 0 .. 2,
         \/ cycles' \in {0, cycles}
         \/ \E n \in {TakeoffCycles, LiftoffCycles, SettleCycles, StartCycles} :
              cycles < n /\ cycles' = cycles + 1,
         velocity' \in {velocity, seen.vz, "still"},
         settled' \in 0 .. SettleCycles, at' = "settle" => settled' <= cycles',
         \/ result' = result
         \/ \E r \in -2 .. 1 : result' = [result EXCEPT !.takeoff = r]
         \/ \E r \in -1 .. 1 : result' = [result EXCEPT !.landing = r]
  PROVE  FTypes'
<1>1. \A p \in Phases : Views(p)' = Views(p)
  BY DEF Views, Statuses, Speeds
<1>2. \E phase \in Phases : seen' \in Views(phase)'
  BY <1>1 DEF FTypes, FlightTypeOK
<1>3. velocity' \in {"up", "still", "down"}
  BY Sample DEF FTypes, FlightTypeOK
<1>4. cycles' \in 0 .. LiftoffCycles + TakeoffCycles + SettleCycles + StartCycles
  BY FlightAssumption DEF FTypes, FlightTypeOK
<1>5. result' \in [takeoff : -2 .. 1, landing : -1 .. 1]
  BY DEF FTypes, FlightTypeOK
<1>6. setup' \in Setups
  BY DEF FTypes, FlightTypeOK
<1>7. QED BY <1>2, <1>3, <1>4, <1>5, <1>6 DEF FTypes, FlightTypeOK, Counts

\* The aircraft does not change with a step of the tasks, but for its order.
Ordered == UNCHANGED <<setup, flight, seen>> /\ order' \in {"none", "takeoff", "landing"}

LEMMA OrderTyped ==
  ASSUME FTypes
  PROVE  /\ Quiet => Ordered
         /\ \A task \in {"takeoff", "landing"}, ack \in Acks : Task(task, ack) => Ordered
         /\ flight \in Phases /\ attempt \in 0 .. 2 /\ settled \in 0 .. SettleCycles /\ Counts
         /\ cycles \in Nat /\ SettleCycles \in Nat
         /\ at \in {"ready", "flown"} \cup TakeoffPlaces \cup LandingPlaces
  BY FlightAssumption DEF FTypes, FlightTypeOK, Quiet, aircraft, Task, Begin, Ordered

LEMMA TakeoffTyped ==
  ASSUME FTypes, CallTakeoff \/ TakeoffStep
  PROVE  FTypes'
<1>1. CASE CallTakeoff
  BY <1>1, OrderTyped, FlightTyped DEF CallTakeoff, Order, Steady, TakeoffPlaces, Ordered
<1>2. CASE Takeoff
  <2>1. Ordered
    BY <1>2, OrderTyped DEF Takeoff
  <2>2. CASE TakeoffDone(-1)
    BY <2>1, <2>2, OrderTyped, FlightTyped DEF TakeoffDone, Ordered
  <2>3. CASE GoTo("checkInAir") /\ Steady
    BY <2>1, <2>3, OrderTyped, FlightTyped DEF GoTo, Steady, Ordered, TakeoffPlaces
  <2>4. QED BY <1>2, <2>2, <2>3 DEF Takeoff
<1>3. CASE CheckInAir
  <2>1. Ordered /\ at = "checkInAir"
    BY <1>3, OrderTyped DEF CheckInAir
  <2>2. CASE RetryTakeoff
    <3>1. CASE Order("takeoff", 2) /\ Steady
      BY <2>1, <3>1, OrderTyped, FlightTyped DEF Order, Steady, Ordered, TakeoffPlaces
    <3>2. CASE TakeoffDone(-1)
      BY <2>1, <3>2, OrderTyped, FlightTyped DEF TakeoffDone, Ordered
    <3>3. QED BY <2>2, <3>1, <3>2 DEF RetryTakeoff
  <2>3. CASE GoTo("liftoff") /\ velocity' = seen.vz /\ UNCHANGED settled
    BY <2>1, <2>3, OrderTyped, FlightTyped DEF GoTo, Ordered, TakeoffPlaces
  <2>4. CASE cycles < TakeoffCycles /\ Again /\ Steady
    BY <2>1, <2>4, OrderTyped, FlightTyped DEF Again, Steady, Ordered
  <2>5. QED BY <1>3, <2>2, <2>3, <2>4 DEF CheckInAir
<1>4. CASE Liftoff
  <2>1. Ordered /\ at = "liftoff"
    BY <1>4, OrderTyped DEF Liftoff
  <2>2. CASE TakeoffDone(-2)
    BY <2>1, <2>2, OrderTyped, FlightTyped DEF TakeoffDone, Ordered
  <2>3. CASE GoTo("ascend") /\ Steady
    BY <2>1, <2>3, OrderTyped, FlightTyped DEF GoTo, Steady, Ordered, TakeoffPlaces
  <2>4. CASE cycles < LiftoffCycles /\ Again /\ velocity' = seen.vz /\ UNCHANGED settled
    BY <2>1, <2>4, OrderTyped, FlightTyped DEF Again, Ordered
  <2>5. QED BY <1>4, <2>2, <2>3, <2>4 DEF Liftoff
<1>5. CASE Ascend
  <2>1. Ordered /\ at = "ascend"
    BY <1>5, OrderTyped DEF Ascend
  <2>2. CASE velocity' = seen.vz /\ UNCHANGED <<at, attempt, cycles, settled, result>>
    BY <2>1, <2>2, OrderTyped, FlightTyped DEF Ordered
  <2>3. CASE GoTo("settle") /\ settled' = 0 /\ UNCHANGED velocity
    BY <2>1, <2>3, OrderTyped, FlightTyped DEF GoTo, Ordered, TakeoffPlaces
  <2>4. QED BY <1>5, <2>2, <2>3 DEF Ascend
<1>6. CASE Settle
  <2>1. Ordered /\ at = "settle" /\ settled <= cycles
    BY <1>6, OrderTyped DEF Settle, Counts
  <2>2. CASE cycles < SettleCycles /\ Again /\ velocity' = seen.vz
             /\ settled' = IF velocity = "still" THEN settled + 1 ELSE 0
    <3>1. settled' \in 0 .. SettleCycles /\ settled' <= cycles + 1
      BY <2>1, <2>2, OrderTyped
    <3>2. QED BY <2>1, <2>2, <3>1, OrderTyped, FlightTyped DEF Again, Ordered
  <2>3. CASE TakeoffDone(IF 4 * settled > cycles THEN 1 ELSE -2)
    <3>1. (IF 4 * settled > cycles THEN 1 ELSE -2) \in -2 .. 1
      OBVIOUS
    <3>2. QED BY <2>1, <2>3, <3>1, OrderTyped, FlightTyped DEF TakeoffDone, Ordered
  <2>4. QED BY <1>6, <2>2, <2>3 DEF Settle
<1>7. QED BY <1>1, <1>2, <1>3, <1>4, <1>5, <1>6 DEF TakeoffStep

LEMMA LandingTyped ==
  ASSUME FTypes, CallLanding \/ LandingStep
  PROVE  FTypes'
<1>1. CASE CallLanding
  BY <1>1, OrderTyped, FlightTyped DEF CallLanding, Order, Steady, LandingPlaces, Ordered
<1>2. CASE Land
  <2>1. Ordered /\ UNCHANGED <<velocity, settled>>
    BY <1>2, OrderTyped DEF Land, Steady
  <2>2. CASE Order("landing", 2)
    BY <2>1, <2>2, OrderTyped, FlightTyped DEF Order, Ordered, LandingPlaces
  <2>3. CASE GoTo(IF setup.firmware = "old" THEN "startLanding" ELSE "descend")
    <3>1. at' \in {"startLanding", "descend"}
      BY <2>3 DEF GoTo
    <3>2. QED BY <2>1, <2>3, <3>1, OrderTyped, FlightTyped DEF GoTo, Ordered, LandingPlaces
  <2>4. ASSUME NEW r \in -1 .. 1, LandingDone(r) PROVE FTypes'
    BY <2>1, <2>4, OrderTyped, FlightTyped DEF LandingDone, Ordered
  <2>5. PICK ack \in Acks :
          \/ Order("landing", 2)
          \/ GoTo(IF setup.firmware = "old" THEN "startLanding" ELSE "descend")
          \/ LandingDone(-1)
          \/ LandingDone(IF ack = Failed THEN -1 ELSE 1)
    BY <1>2 DEF Land
  <2>6. (IF ack = Failed THEN -1 ELSE 1) \in -1 .. 1 /\ -1 \in -1 .. 1
    OBVIOUS
  <2>7. QED BY <2>2, <2>3, <2>4, <2>5, <2>6
<1>3. CASE StartLanding
  <2>1. Ordered /\ UNCHANGED <<velocity, settled>> /\ at = "startLanding"
    BY <1>3, OrderTyped DEF StartLanding, Steady
  <2>2. CASE LandingDone(-1)
    BY <2>1, <2>2, OrderTyped, FlightTyped DEF LandingDone, Ordered
  <2>3. CASE GoTo("descend")
    BY <2>1, <2>3, OrderTyped, FlightTyped DEF GoTo, Ordered, LandingPlaces
  <2>4. CASE cycles < StartCycles /\ Again
    BY <2>1, <2>4, OrderTyped, FlightTyped DEF Again, Ordered
  <2>5. QED BY <1>3, <2>2, <2>3, <2>4 DEF StartLanding
<1>4. CASE Descend
  BY <1>4, OrderTyped, FlightTyped DEF Descend, GoTo, Steady, Ordered, LandingPlaces
<1>5. CASE Cleanup
  BY <1>5, OrderTyped, FlightTyped DEF Cleanup, LandingDone, Steady, Ordered
<1>6. QED BY <1>1, <1>2, <1>3, <1>4, <1>5 DEF LandingStep

LEMMA AircraftTyped ==
  ASSUME FTypes, Broadcast \/ FlightStep \/ UNCHANGED flightVars
  PROVE  FTypes'
<1>1. /\ flight' \in Phases /\ order' \in {"none", order} /\ (seen' = seen \/ seen' \in Views(flight))
      /\ UNCHANGED <<setup, at, attempt, cycles, velocity, settled, result>>
  BY OrderTyped DEF Broadcast, FlightStep, Fly, Phases, tasks, flightVars, aircraft
<1>2. order' \in {"none", "takeoff", "landing"}
  BY <1>1 DEF FTypes, FlightTypeOK
<1>3. QED BY <1>1, <1>2, OrderTyped, FlightTyped DEF Counts
-----------------------------------------------------------------------------
(* Descriptors *)

LEMMA Least ==
  ASSUME NEW T, T \subseteq Nat, T # {}
  PROVE  \E x \in T : \A y \in T : x <= y
<1>1. PICK x \in T : \A y \in T : ~(<<y, x>> \in OpToRel(<, Nat))
  BY NatLessThanWellFounded, WFMin, Zenon
<1>2. ASSUME NEW y \in T, y < x PROVE <<y, x>> \in OpToRel(<, Nat)
  BY <1>2, Zenon DEF OpToRel
<1>3. \A y \in T : ~(y < x)
  BY <1>1, <1>2, Zenon
<1>4. QED BY <1>3

PortFds == {d \in Fds : fds[d] = "port"}

\* What an open gives: the least number that is free, if there is one.
LEMMA NewFree ==
  /\ FreeFds = {} => NewFd = NoFd
  /\ FreeFds # {} => NewFd \in FreeFds /\ \A d \in FreeFds : NewFd <= d
<1>1. FreeFds \subseteq Nat
  BY MissionAssumption DEF FreeFds, Fds
<1>2. CASE FreeFds # {}
  <2>1. \E x \in FreeFds : \A y \in FreeFds : x <= y
    BY <1>1, <1>2, Least
  <2>2. QED BY <1>2, <2>1 DEF NewFd, Min
<1>3. QED BY <1>2 DEF NewFd

LEMMA NumberedFds == 0 \in Fds /\ NoFd \notin Fds /\ Fds \subseteq Nat
  BY MissionAssumption DEF Fds, NoFd

LEMMA FiniteFds == IsFiniteSet(Fds) /\ Cardinality(Fds) = NFds
<1>1. IsFiniteSet(0 .. NFds - 1)
      /\ Cardinality(0 .. NFds - 1) = IF 0 > NFds - 1 THEN 0 ELSE (NFds - 1) - 0 + 1
  BY MissionAssumption, FS_Interval
<1>2. QED BY <1>1, MissionAssumption DEF Fds

LEMMA FinitePorts ==
  IsFiniteSet(PortFds) /\ Cardinality(PortFds) \in Nat /\ Cardinality(PortFds) <= NFds
<1>1. PortFds \subseteq Fds
  BY DEF PortFds
<1>2. QED BY <1>1, FiniteFds, FS_Subset, FS_CardinalityType

LEMMA Opening ==
  ASSUME fds \in [Fds -> Uses], NEW use \in Uses \ {"free"}, fds' = Opened(use)
  PROVE  /\ fds' \in [Fds -> Uses]
         /\ NewFd \in Fds \cup {NoFd}
         /\ \A d \in Fds : fds[d] # "free" => d # NewFd /\ fds'[d] = fds[d]
         /\ NewFd # NoFd => NewFd \in Fds /\ fds[NewFd] = "free" /\ fds'[NewFd] = use
         /\ fds[0] = "free" => fds'[0] = use
         /\ fds'[0] = "free" => fds[0] = "free"
         /\ fds'[0] \in {fds[0], use}
         /\ FreeFds = {} => NewFd = NoFd /\ FreeFds' = {}
         /\ use # "port" => Cardinality(PortFds') = Cardinality(PortFds)
         /\ use = "port" /\ NewFd # NoFd => Cardinality(PortFds') = Cardinality(PortFds) + 1
<1>1. fds' \in [Fds -> Uses] /\ \A d \in Fds : fds'[d] = IF d = NewFd THEN use ELSE fds[d]
  BY DEF Opened, Uses
<1>2. NewFd # NoFd => NewFd \in Fds /\ fds[NewFd] = "free"
  BY NewFree DEF FreeFds
<1>3. \A d \in Fds : fds[d] # "free" => d # NewFd /\ fds'[d] = fds[d]
  <2>1. \A d \in Fds : d = NewFd => fds[d] = "free"
    BY <1>2, NumberedFds
  <2>2. QED BY <1>1, <2>1
<1>4. fds[0] = "free" => NewFd = 0
  <2>1. fds[0] = "free" => 0 \in FreeFds
    BY NumberedFds DEF FreeFds
  <2>2. fds[0] = "free" => NewFd \in FreeFds /\ NewFd <= 0
    BY <2>1, NewFree
  <2>3. FreeFds \subseteq Nat
    BY NumberedFds DEF FreeFds
  <2>4. ASSUME NEW d, d \in Nat, d <= 0 PROVE d = 0
    BY <2>4
  <2>5. QED BY <2>2, <2>3, <2>4, Zenon
<1>5. FreeFds = {} => NewFd = NoFd /\ FreeFds' = {}
  <2>1. FreeFds = {} => NewFd = NoFd
    BY NewFree
  <2>2. ASSUME FreeFds = {}, NEW d \in Fds PROVE fds'[d] # "free"
    BY <2>2, <1>3 DEF FreeFds
  <2>3. QED BY <2>1, <2>2 DEF FreeFds
<1>6. ASSUME use # "port" PROVE Cardinality(PortFds') = Cardinality(PortFds)
  <2>1. \A d \in Fds : fds'[d] = "port" <=> fds[d] = "port"
    <3>1. TAKE d \in Fds
    <3>2. CASE d = NewFd
      BY <1>1, <1>2, <1>6, <3>2, NumberedFds
    <3>3. CASE d # NewFd
      BY <1>1, <3>3
    <3>4. QED BY <3>2, <3>3
  <2>2. PortFds' = PortFds
    BY <2>1 DEF PortFds
  <2>3. QED BY <2>2
<1>7. ASSUME use = "port", NewFd # NoFd
      PROVE  Cardinality(PortFds') = Cardinality(PortFds) + 1
  <2>1. NewFd \notin PortFds
    BY <1>2, <1>7 DEF PortFds
  <2>2. PortFds' = PortFds \cup {NewFd}
    BY <1>1, <1>2, <1>7 DEF PortFds
  <2>3. QED BY <2>1, <2>2, FinitePorts, FS_AddElement
<1>8. fds'[0] \in {fds[0], use} /\ (fds[0] = "free" => fds'[0] = use)
  BY <1>1, <1>4, NumberedFds
<1>9. QED BY <1>1, <1>2, <1>3, <1>5, <1>6, <1>7, <1>8, NumberedFds

LEMMA Closing ==
  ASSUME fds \in [Fds -> Uses], NEW n \in Fds \cup {NoFd}, fds' = Closed(fds, n)
  PROVE  /\ fds' \in [Fds -> Uses]
         /\ \A d \in Fds : d # n => fds'[d] = fds[d]
         /\ \A d \in Fds : fds'[d] \in {fds[d], "free"}
         /\ n = NoFd \/ fds[n] # "port" => Cardinality(PortFds') = Cardinality(PortFds)
         /\ n # NoFd /\ fds[n] = "port" => Cardinality(PortFds') = Cardinality(PortFds) - 1
<1>1. fds' \in [Fds -> Uses] /\ \A d \in Fds : fds'[d] = IF d = n THEN "free" ELSE fds[d]
  BY DEF Closed, Uses
<1>2. ASSUME n = NoFd \/ fds[n] # "port"
      PROVE  Cardinality(PortFds') = Cardinality(PortFds)
  <2>1. PortFds' = PortFds
    BY <1>1, <1>2, NumberedFds DEF PortFds
  <2>2. QED BY <2>1
<1>3. ASSUME n # NoFd, fds[n] = "port"
      PROVE  Cardinality(PortFds') = Cardinality(PortFds) - 1
  <2>1. n \in PortFds
    BY <1>3 DEF PortFds
  <2>2. PortFds' = PortFds \ {n}
    BY <1>1 DEF PortFds
  <2>3. QED BY <2>1, <2>2, FinitePorts, FS_RemoveElement
<1>4. QED BY <1>1, <1>2, <1>3
-----------------------------------------------------------------------------
(* The steps *)

\* The part of the types that is main's own.
Typed == /\ main \in Places
         /\ fds \in [Fds -> Uses]
         /\ {modem, port, log} \subseteq Fds \cup {NoFd}
         /\ reader \in {"none", "running", "stopped"}
         /\ api \in {"none", "live", "deleted"} /\ abandoned \in Nat
         /\ stopCond \in BOOLEAN /\ pressed \in BOOLEAN
         /\ step \in 0 .. Steps

Readers == IF reader = "none" THEN 0 ELSE 1
Ported  == Cardinality(PortFds) = abandoned + Readers

LEMMA Parts == MInv <=> FTypes /\ Typed /\ Ported /\ Held /\ Led /\ Thread /\ Pressed
<1>1. ASSUME Typed, Ported PROVE abandoned \in 0 .. NFds
  <2>1. abandoned <= Cardinality(PortFds)
    BY <1>1, FinitePorts DEF Typed, Ported, Readers
  <2>2. QED BY <1>1, <2>1, FinitePorts, MissionAssumption DEF Typed
<1>2. Ported <=> PortsHaveReaders
  BY DEF Ported, PortsHaveReaders, PortFds, Readers
<1>3. Typed /\ Thread => NoUseAfterDelete
  BY DEF Typed, Thread, NoUseAfterDelete, Unstarted
<1>4. ASSUME FTypes, Typed, Ported, Held, Led, Thread, Pressed PROVE MInv
  <2>1. led \in Fds
    BY <1>4, NumberedFds DEF Led
  <2>2. MissionTypeOK
    BY <1>1, <1>4, <2>1 DEF MissionTypeOK, FTypes, Typed
  <2>3. QED BY <1>2, <1>3, <1>4, <2>2 DEF MInv, AttemptsApart, FTypes
<1>5. ASSUME MInv PROVE FTypes /\ Typed /\ Ported /\ Held /\ Led /\ Thread /\ Pressed
  <2>1. Typed
    BY <1>5, MissionAssumption DEF MInv, AttemptsApart, MissionTypeOK, Typed
  <2>2. QED BY <1>2, <1>5, <2>1 DEF MInv, AttemptsApart, MissionTypeOK, FTypes
<1>6. QED BY <1>4, <1>5

LEMMA MissionInitSafe ==
  ASSUME MissionInit PROVE MInv
<1>1. FTypes
  <2>1. seen \in Views("ground") /\ "ground" \in Phases
    BY DEF MissionInit, Init, Phases
  <2>2. QED
    BY <2>1, FlightAssumption DEF MissionInit, Init, FTypes, FlightTypeOK, Counts
<1>2. Held /\ Led /\ Thread /\ Pressed
  BY NumberedFds DEF MissionInit, Held, Led, Thread, Pressed, Unstarted
<1>3. Typed
  <2>1. fds \in [Fds -> Uses]
    BY DEF MissionInit, Uses
  <2>2. {modem, port, log} \subseteq Fds \cup {NoFd} /\ step \in 0 .. Steps
    BY MissionAssumption DEF MissionInit
  <2>3. QED BY <2>1, <2>2 DEF MissionInit, Typed, Places
<1>4. Ported
  <2>1. PortFds = {}
    BY DEF MissionInit, PortFds
  <2>2. QED BY <2>1, FS_EmptySet DEF Ported, Readers, MissionInit
<1>5. QED BY <1>1, <1>2, <1>3, <1>4, Parts

LEMMA PartsNext ==
  FTypes' /\ Typed' /\ Ported' /\ Held' /\ Led' /\ Thread' /\ Pressed' => MInv'
BY Parts, PTL

\* A step of main that is none of the aircraft's.
LEMMA Grounded ==
  ASSUME MInv, UNCHANGED <<flightVars, led>>,
         Typed', Ported', Held', Thread', Pressed',
         fds'[0] \in {"led", "button", "free"},
         fds'[0] = "free" => main' \notin {"objects", "modem", "setup", "activate", "takeControl",
                                           "openLog", "battery", "countdown"}
  PROVE  MInv'
<1>1. FTypes'
  BY AircraftTyped, Parts
<1>2. Led'
  BY DEF MInv, Led
<1>3. QED BY <1>1, <1>2, PartsNext
\* What holds of the attempt while main is where it may open and close.
LEMMA Facts ==
  ASSUME MInv
  PROVE  /\ fds \in [Fds -> Uses] /\ modem \in Fds \cup {NoFd} /\ port \in Fds \cup {NoFd}
         /\ log \in Fds \cup {NoFd}
         /\ main \in Places /\ reader \in {"none", "running", "stopped"}
         /\ api \in {"none", "live", "deleted"} /\ abandoned \in Nat
         /\ stopCond \in BOOLEAN /\ pressed \in BOOLEAN /\ step \in 0 .. Steps
         /\ fds[0] \in {"led", "button", "free"} /\ led = 0
         /\ Cardinality(PortFds) = abandoned + Readers
         /\ Held /\ Led /\ Thread /\ Pressed
  BY Parts DEF Typed, Ported, Led

LEMMA PollSafe ==
  ASSUME MInv, PollButton PROVE MInv'
<1>1. main = "wait" /\ fds' = Opened("button") /\ UNCHANGED <<flightVars, led, held, thread, step>>
      /\ (UNCHANGED <<main, pressed>> \/ (main' = "objects" /\ pressed' = (FreeFds # {})))
  BY DEF PollButton
<1>2. "button" \in Uses \ {"free"} /\ "button" # "port"
  BY DEF Uses
<1>3. Typed'
  BY <1>1, <1>2, Facts, Opening DEF Typed, held, thread, Places
<1>4. Ported'
  BY <1>1, <1>2, Facts, Opening DEF Ported, Readers, thread
<1>5. Held'
  BY <1>1, <1>2, Facts, Opening, NumberedFds DEF Held, held
<1>6. Thread'
  BY <1>1, Facts DEF Thread, Unstarted, thread, held
<1>7. Pressed'
  BY <1>1, <1>2, Facts, Opening DEF Pressed
<1>8. fds'[0] \in {"led", "button"}
  BY <1>1, <1>2, Facts, Opening
<1>9. QED BY <1>1, <1>3, <1>4, <1>5, <1>6, <1>7, <1>8, Grounded

\* The modem is begun twice, and the first descriptor stays open.
LEMMA ModemSafe ==
  ASSUME MInv, NewObjects \/ BeginModem PROVE MInv'
<1>1. /\ (main = "objects" /\ main' = "modem") \/ (main = "modem" /\ main' = "setup")
      /\ fds' = Opened("modem") /\ modem' = NewFd
      /\ (UNCHANGED port \/ port' = NoFd) /\ (UNCHANGED log \/ log' = NoFd)
      /\ UNCHANGED <<flightVars, led, reader, abandoned, pressed>>
      /\ api' \in {api, "live"} /\ stopCond' \in {stopCond, FALSE} /\ step' \in {step, 0}
      /\ main = "modem" => stopCond' = stopCond /\ api' = api
      /\ main = "objects" => stopCond' = FALSE /\ api' = "live"
  BY DEF NewObjects, BeginModem, From, thread, progress
<1>2. "modem" \in Uses \ {"free"} /\ "modem" # "port"
  BY DEF Uses
<1>3. Typed'
  <2>1. fds' \in [Fds -> Uses] /\ {modem', port', log'} \subseteq Fds \cup {NoFd}
    BY <1>1, <1>2, Facts, Opening
  <2>2. step' \in 0 .. Steps
    BY <1>1, Facts, MissionAssumption
  <2>3. QED BY <1>1, <2>1, <2>2, Facts DEF Typed, Places
<1>4. Ported'
  BY <1>1, <1>2, Facts, Opening DEF Ported, Readers
<1>5. Held'
  BY <1>1, <1>2, Facts, Opening, NumberedFds DEF Held
<1>6. Thread'
  BY <1>1, Facts DEF Thread, Unstarted
<1>7. Pressed'
  BY <1>1, <1>2, Facts, Opening DEF Pressed
<1>8. fds'[0] \in {"led", "button"}
  <2>1. fds[0] # "free"
    BY <1>1, Facts DEF Led
  <2>2. fds'[0] \in {fds[0], "modem"} /\ fds'[0] = fds[0]
    BY <1>1, <1>2, <2>1, Facts, Opening, NumberedFds
  <2>3. QED BY <2>1, <2>2, Facts
<1>9. QED BY <1>1, <1>3, <1>4, <1>5, <1>6, <1>7, <1>8, Grounded

Opens == {"setup", "activate", "takeControl", "openLog", "battery"}

LEMMA FailSafe ==
  ASSUME MInv, NEW here \in Opens, Fail(here) PROVE MInv'
<1>1. /\ main = here /\ main' = "error" /\ reader' = "none"
      /\ abandoned' = abandoned + (IF reader = "running" THEN 1 ELSE 0)
      /\ UNCHANGED <<flightVars, led, fds, modem, port, log, stopCond, api, pressed, step>>
  BY DEF Fail, From, held, progress
<1>2. reader # "stopped"
  BY <1>1, Facts DEF Thread, Opens
<1>3. Typed'
  BY <1>1, Facts DEF Typed, Places
<1>4. Ported'
  <2>1. PortFds' = PortFds
    BY <1>1 DEF PortFds
  <2>2. QED BY <1>1, <1>2, <2>1, Facts DEF Ported, Readers
<1>5. Held' /\ Thread' /\ Pressed'
  BY <1>1, Facts DEF Held, Thread, Pressed, Unstarted, Opens
<1>6. QED BY <1>1, <1>3, <1>4, <1>5, Facts, Grounded

\* Steps that touch no descriptor, no thread and no object.
LEMMA OnlyMain ==
  ASSUME MInv, UNCHANGED <<flightVars, led, fds, held, thread, progress>>,
         \/ main = "error" /\ main' = "wait"
         \/ main = "activate" /\ main' = "takeControl"
         \/ main = "takeControl" /\ main' = "openLog"
         \/ main = "battery" /\ main' = "countdown"
         \/ main = "join" /\ main' = "delete" /\ reader = "stopped"
  PROVE  MInv'
<1>1. Typed'
  BY Facts DEF Typed, Places, held, thread, progress
<1>2. Ported'
  <2>1. PortFds' = PortFds
    BY DEF PortFds
  <2>2. QED BY <2>1, Facts DEF Ported, Readers, thread
<1>3. Held' /\ Pressed'
  BY Facts DEF Held, Pressed, held, progress
<1>4. Thread'
  BY Facts DEF Thread, Unstarted, held, thread
<1>5. fds'[0] = "free" => main' \notin {"objects", "modem", "setup", "activate", "takeControl",
                                        "openLog", "battery", "countdown"}
  BY Facts DEF Led
<1>6. QED BY <1>1, <1>2, <1>3, <1>4, <1>5, Facts, Grounded

LEMMA OpenPortSafe ==
  ASSUME MInv, OpenPort PROVE MInv'
<1>1. CASE Fail("setup")
  BY <1>1, FailSafe DEF Opens
<1>2. CASE ~Fail("setup")
  <2>1. /\ NewFd # NoFd /\ main = "setup" /\ main' = "activate"
        /\ fds' = Opened("port") /\ port' = NewFd /\ reader' = "running"
        /\ UNCHANGED <<flightVars, led, modem, log, stopCond, api, abandoned, pressed, step>>
    BY <1>2 DEF OpenPort, From, progress
  <2>2. "port" \in Uses \ {"free"}
    BY DEF Uses
  <2>3. pressed
    BY <2>1, Facts, NewFree DEF Pressed
  <2>4. Typed'
    BY <2>1, <2>2, Facts, Opening DEF Typed, Places
  <2>5. Ported'
    <3>1. Readers = 0 /\ Readers' = 1
      BY <2>1, Facts DEF Thread, Unstarted, Readers
    <3>2. QED BY <2>1, <2>2, <3>1, Facts, Opening DEF Ported
  <2>6. Held'
    BY <2>1, <2>2, Facts, Opening, NumberedFds DEF Held
  <2>7. Thread' /\ Pressed'
    BY <2>1, <2>3, Facts DEF Thread, Unstarted, Pressed
  <2>8. fds'[0] \in {"led", "button"}
    <3>1. fds[0] # "free"
      BY <2>1, Facts DEF Led
    <3>2. QED BY <2>1, <2>2, <3>1, Facts, Opening, NumberedFds
  <2>9. QED BY <2>1, <2>4, <2>5, <2>6, <2>7, <2>8, Grounded
<1>3. QED BY <1>1, <1>2
LEMMA OpenLogSafe ==
  ASSUME MInv, OpenLog PROVE MInv'
<1>1. CASE Fail("openLog")
  BY <1>1, FailSafe DEF Opens
<1>2. CASE ~Fail("openLog")
  <2>1. /\ NewFd # NoFd /\ main = "openLog" /\ main' = "battery"
        /\ fds' = Opened("log") /\ log' = NewFd
        /\ UNCHANGED <<flightVars, led, modem, port, reader, stopCond, api, abandoned, pressed, step>>
    BY <1>2 DEF OpenLog, From, thread, progress
  <2>2. "log" \in Uses \ {"free"} /\ "log" # "port"
    BY DEF Uses
  <2>3. Typed'
    BY <2>1, <2>2, Facts, Opening DEF Typed, Places
  <2>4. Ported'
    BY <2>1, <2>2, Facts, Opening DEF Ported, Readers
  <2>5. Held'
    BY <2>1, <2>2, Facts, Opening, NumberedFds DEF Held
  <2>6. Thread' /\ Pressed'
    BY <2>1, Facts DEF Thread, Unstarted, Pressed
  <2>7. fds'[0] \in {"led", "button"}
    <3>1. fds[0] # "free"
      BY <2>1, Facts DEF Led
    <3>2. fds'[0] = fds[0]
      BY <2>1, <2>2, <3>1, Facts, Opening, NumberedFds
    <3>3. QED BY <3>1, <3>2, Facts
  <2>8. QED BY <2>1, <2>3, <2>4, <2>5, <2>6, <2>7, Grounded
<1>3. QED BY <1>1, <1>2

\* A copy of the protoboard is destroyed.
LEMMA CopySafe ==
  ASSUME MInv, Countdown \/ MeasureStep PROVE MInv'
<1>1. /\ (main = "countdown" /\ main' = "fly") \/ (main = "flying" /\ main' = "flying")
      /\ fds' = Closed(fds, 0) /\ step' \in 0 .. Steps
      /\ UNCHANGED <<flightVars, led, modem, port, log, reader, stopCond, api, abandoned, pressed>>
  BY Facts, MissionAssumption DEF Countdown, MeasureStep, From, held, thread, progress
<1>2. 0 \in Fds \cup {NoFd} /\ 0 # NoFd
  BY NumberedFds
<1>3. Typed'
  BY <1>1, <1>2, Facts, Closing DEF Typed, Places
<1>4. Ported'
  <2>1. fds[0] # "port"
    BY Facts
  <2>2. Cardinality(PortFds') = Cardinality(PortFds)
    BY <1>1, <1>2, <2>1, Facts, Closing
  <2>3. QED BY <1>1, <2>2, Facts DEF Ported, Readers
<1>5. Held'
  <2>1. \A d \in Fds : d # 0 => fds'[d] = fds[d]
    BY <1>1, <1>2, Facts, Closing
  <2>2. \A d \in Fds : fds[d] \in {"port", "log", "modem"} => fds'[d] = fds[d]
    BY <2>1, Facts
  <2>3. main \notin {"wait", "error", "objects"}
    BY <1>1
  <2>4. QED BY <1>1, <2>2, <2>3, Facts DEF Held
<1>6. Thread' /\ Pressed'
  BY <1>1, Facts DEF Thread, Unstarted, Pressed
<1>7. fds'[0] \in {"led", "button", "free"}
  BY <1>1, <1>2, Facts, Closing, NumberedFds
<1>8. QED BY <1>1, <1>3, <1>4, <1>5, <1>6, <1>7, Grounded

\* The end of the attempt closes its log, its port and the modem's.
LEMMA CloseSafe ==
  ASSUME MInv, CloseLog \/ Finish PROVE MInv'
<1>1. /\ \/ main = "landing" /\ main' = "cleanup" /\ fds' = Closed(fds, log)
            /\ log' = NoFd /\ port' = port
         \/ main = "finish" /\ main' = "wait" /\ fds' = Closed(fds, modem)
            /\ log' = log /\ port' = port
      /\ UNCHANGED <<flightVars, led, modem, reader, stopCond, api, abandoned, pressed, step>>
  BY DEF CloseLog, Finish, From, held, thread, progress
<1>2. PICK n \in {log, modem} :
        /\ fds' = Closed(fds, n)
        /\ main = "landing" => n = log
        /\ main = "finish" => n = modem
  BY <1>1
<1>3. n \in Fds \cup {NoFd} /\ (n # NoFd => fds[n] \in {"log", "modem"})
  BY <1>1, <1>2, Facts DEF Held
<1>4. Typed'
  BY <1>1, <1>2, <1>3, Facts, Closing DEF Typed, Places
<1>5. Ported'
  <2>1. n = NoFd \/ fds[n] # "port"
    BY <1>3
  <2>2. Cardinality(PortFds') = Cardinality(PortFds)
    BY <1>2, <1>3, <2>1, Facts, Closing
  <2>3. QED BY <1>1, <2>2, Facts DEF Ported, Readers
<1>6. \A d \in Fds : d # n => fds'[d] = fds[d]
  BY <1>2, <1>3, Facts, Closing
<1>7. Held'
  <2>1. port # NoFd => fds'[port] = "port"
    BY <1>3, <1>6, Facts DEF Held
  <2>2. CASE main = "landing"
    <3>1. modem # NoFd => modem # n /\ fds[modem] = "modem"
      BY <1>2, <1>3, <2>2, Facts DEF Held
    <3>2. QED BY <1>1, <1>6, <2>1, <2>2, <3>1, Facts DEF Held
  <2>3. CASE main = "finish"
    <3>1. log # NoFd => log # n /\ fds[log] = "log"
      BY <1>2, <1>3, <2>3, Facts DEF Held
    <3>2. QED BY <1>1, <1>6, <2>1, <2>3, <3>1, Facts DEF Held
  <2>4. QED BY <1>1, <2>2, <2>3
<1>8. Thread' /\ Pressed'
  BY <1>1, Facts DEF Thread, Unstarted, Pressed
<1>9. fds'[0] \in {"led", "button", "free"} /\ main' \in {"cleanup", "wait"}
  BY <1>1, <1>2, <1>3, Facts, Closing, NumberedFds
<1>10. QED BY <1>1, <1>4, <1>5, <1>7, <1>8, <1>9, Grounded

\* The port goes with its reader, which has stopped.
LEMMA DeleteSafe ==
  ASSUME MInv, Delete PROVE MInv'
<1>1. /\ main = "delete" /\ main' = "finish" /\ reader = "stopped" /\ reader' = "none"
      /\ fds' = Closed(fds, port) /\ port' = NoFd /\ api' = "deleted"
      /\ UNCHANGED <<flightVars, led, modem, log, stopCond, abandoned, pressed, step>>
  BY Facts DEF Delete, From, progress, Thread
<1>2. port \in Fds /\ fds[port] = "port" /\ port # NoFd
  BY <1>1, Facts DEF Held, Thread, Unstarted
<1>3. Typed'
  BY <1>1, <1>2, Facts, Closing DEF Typed, Places
<1>4. Ported'
  <2>1. Cardinality(PortFds') = Cardinality(PortFds) - 1
    BY <1>1, <1>2, Facts, Closing
  <2>2. QED BY <1>1, <2>1, Facts DEF Ported, Readers
<1>5. Held'
  BY <1>1, <1>2, Facts, Closing DEF Held
<1>6. Thread' /\ Pressed'
  BY <1>1, Facts DEF Thread, Unstarted, Pressed
<1>7. fds'[0] \in {"led", "button", "free"}
  BY <1>1, <1>2, Facts, Closing, NumberedFds
<1>8. QED BY <1>1, <1>3, <1>4, <1>5, <1>6, <1>7, Grounded

\* stopThread asks the read thread to stop, and it does.
LEMMA StopSafe ==
  ASSUME MInv, StopThread \/ ReadLoop PROVE MInv'
<1>1. /\ \/ main = "cleanup" /\ main' = "join" /\ stopCond' = TRUE /\ reader' = reader
         \/ reader = "running" /\ reader' = "stopped" /\ stopCond /\ UNCHANGED <<main, stopCond>>
      /\ UNCHANGED <<flightVars, led, fds, modem, port, log, api, abandoned, pressed, step>>
  BY DEF StopThread, ReadLoop, From, held, progress
<1>2. Typed'
  BY <1>1, Facts DEF Typed, Places
<1>3. Ported'
  <2>1. PortFds' = PortFds
    BY <1>1 DEF PortFds
  <2>2. QED BY <1>1, <2>1, Facts DEF Ported, Readers
<1>4. Held' /\ Pressed'
  <2>1. main \notin Unstarted
    BY <1>1, Facts DEF Thread, Unstarted
  <2>2. pressed
    BY <2>1, Facts DEF Pressed, Unstarted
  <2>3. QED BY <1>1, <2>1, <2>2, Facts DEF Held, Pressed, Unstarted
<1>5. Thread'
  BY <1>1, Facts DEF Thread, Unstarted
<1>6. fds'[0] = "free" => main' \notin {"objects", "modem", "setup", "activate", "takeControl",
                                        "openLog", "battery", "countdown"}
  BY <1>1, Facts DEF Led
<1>7. QED BY <1>1, <1>2, <1>3, <1>4, <1>5, <1>6, Facts, Grounded

\* Steps of the tasks and of the aircraft, and steps of another.
LEMMA FlySafe ==
  ASSUME MInv,
         \/ TakeOff \/ LandNow \/ ReadPoll
         \/ (TaskStep /\ UNCHANGED mission) \/ (FlightStep /\ UNCHANGED mission)
         \/ UNCHANGED missionVars
  PROVE  MInv'
<1>1. /\ UNCHANGED <<fds, led, held, thread, progress>>
      /\ \/ UNCHANGED main
         \/ main = "fly" /\ main' = "flying"
         \/ main = "flying" /\ main' = "landing"
  BY DEF TakeOff, LandNow, ReadPoll, mission, missionVars
<1>2. FTypes
  BY Parts
<1>3. FTypes'
  BY <1>2, TakeoffTyped, LandingTyped, AircraftTyped
     DEF TakeOff, LandNow, ReadPoll, TaskStep, missionVars
<1>4. Typed'
  BY <1>1, Facts DEF Typed, Places, held, thread, progress
<1>5. Ported'
  <2>1. PortFds' = PortFds
    BY <1>1 DEF PortFds
  <2>2. QED BY <1>1, <2>1, Facts DEF Ported, Readers, thread
<1>6. Held' /\ Led' /\ Thread'
  BY <1>1, Facts DEF Held, Led, Thread, Unstarted, held, thread
<1>7. Pressed'
  BY <1>1, Facts DEF Pressed, FreeFds, progress
<1>8. QED BY <1>3, <1>4, <1>5, <1>6, <1>7, PartsNext

LEMMA MissionNextSafe ==
  ASSUME MInv, [MissionNext]_missionVars PROVE MInv'
<1>1. CASE PollButton
  BY <1>1, PollSafe
<1>2. CASE MainStep
  <2>1. CASE NewObjects \/ BeginModem
    BY <2>1, ModemSafe
  <2>2. CASE Blink \/ Join
    BY <2>2, OnlyMain DEF Blink, Join, From
  <2>3. CASE OpenPort \/ OpenLog
    BY <2>3, OpenPortSafe, OpenLogSafe
  <2>4. CASE Activate
    <3>1. CASE Fail("activate")
      BY <3>1, FailSafe DEF Opens
    <3>2. QED BY <2>4, <3>1, OnlyMain DEF Activate, From
  <2>5. CASE TakeControl
    <3>1. CASE Fail("takeControl")
      BY <3>1, FailSafe DEF Opens
    <3>2. QED BY <2>5, <3>1, OnlyMain DEF TakeControl, From
  <2>6. CASE Battery
    <3>1. CASE Fail("battery")
      BY <3>1, FailSafe DEF Opens
    <3>2. QED BY <2>6, <3>1, OnlyMain DEF Battery, From
  <2>7. CASE Countdown \/ MeasureStep
    BY <2>7, CopySafe
  <2>8. CASE CloseLog \/ Finish
    BY <2>8, CloseSafe
  <2>9. CASE TakeOff \/ LandNow \/ (TaskStep /\ UNCHANGED mission)
    BY <2>9, FlySafe
  <2>10. CASE StopThread
    BY <2>10, StopSafe
  <2>11. CASE Delete
    BY <2>11, DeleteSafe
  <2>12. QED
    BY <1>2, <2>1, <2>2, <2>3, <2>4, <2>5, <2>6, <2>7, <2>8, <2>9, <2>10, <2>11 DEF MainStep
<1>3. CASE ReadLoop
  BY <1>3, StopSafe
<1>4. CASE ReadPoll \/ (FlightStep /\ UNCHANGED mission) \/ UNCHANGED missionVars
  BY <1>4, FlySafe
<1>5. QED BY <1>1, <1>2, <1>3, <1>4 DEF MissionNext

-----------------------------------------------------------------------------
(* The theorems *)

\* The inductive invariant holds in every state of the program.
LEMMA MissionInvariant == MissionSpec => []MInv
<1>1. MissionInit => MInv
  BY MissionInitSafe
<1>2. MInv /\ [MissionNext]_missionVars => MInv'
  BY MissionNextSafe
<1>3. QED BY <1>1, <1>2, PTL DEF MissionSpec

\* Each open port has exactly one read thread, no thread runs on a deleted API, and
\* the types hold, however many attempts failed before and left theirs behind.
THEOREM AttemptsStayApart == MissionSpec => []AttemptsApart
<1>1. MInv => AttemptsApart
  BY DEF MInv
<1>2. QED BY <1>1, MissionInvariant, PTL

\* However often a copy of the protoboard closes the LED's number, it is never the
\* serial port's or the log's of an attempt that still uses it.
THEOREM DescriptorsKept == MissionSpec => []OwnDescriptors
<1>1. MInv => OwnDescriptors
  BY DEF MInv, Held, Led, OwnDescriptors
<1>2. QED BY <1>1, MissionInvariant, PTL

\* The aircraft takes off only in an attempt that the button started: a poll that
\* could not read it leaves no descriptor to open the port with.
THEOREM PressedToFly == MissionSpec => []FliesOnPress
<1>1. MInv => FliesOnPress
  BY DEF MInv, Pressed, FliesOnPress
<1>2. QED BY <1>1, MissionInvariant, PTL
=============================================================================
