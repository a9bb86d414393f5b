----------------------------- MODULE FlightTasks -----------------------------
(* The monitored flight commands of the wrapper (osdk-wrapper/src/LinuxFlight *)
(* .cpp): monitoredTakeoff with takeoff and takeoffConverged, and landing.    *)
(* They order a task from the flight controller and then watch the broadcast  *)
(* telemetry, which the read thread refreshes behind their back, in loops     *)
(* that are bounded by a count of cycles or not at all.                       *)
(*                                                                            *)
(* A task that is lost or whose ACK is lost times out in Flight::task, which  *)
(* then returns what an earlier command left in the ACK union: any ACK.       *)
EXTENDS Integers

CONSTANTS TakeoffCycles,   \* polls for the in-air status: 40 or 100
          LiftoffCycles,   \* polls for an upward speed: 500
          SettleCycles,    \* samples of the speed after the climb: 40
          StartCycles,     \* polls for the landing status: 3 s of 50 ms
          Setups           \* what the aircraft may do, see SetupRecords

Phases == {"ground", "climb", "hover", "sink", "cleanup"}

\* stays are the phases the aircraft may never leave; on a lossy line a task or
\* its ACK may be lost.
SetupRecords == [firmware : {"old", "new"}, stays : SUBSET Phases, lossy : BOOLEAN]

ASSUME FlightAssumption ==
  /\ {TakeoffCycles, LiftoffCycles, SettleCycles, StartCycles} \subseteq Nat \ {0}
  /\ Setups \subseteq SetupRecords

VARIABLES setup,
          flight, order,   \* the aircraft's phase and the task it has yet to begin
          seen,            \* broadcastData: flight status and vertical speed
          at,              \* where the main thread is
          attempt,         \* how often the task was sent in this call
          cycles,          \* the counter of the loop the thread is in
          velocity, settled,
          result           \* the status of the last takeoff and landing, 0: none

aircraft == <<flight, order, seen>>
tasks    == <<at, attempt, cycles, velocity, settled, result>>
flightVars == <<setup, aircraft, tasks>>

-----------------------------------------------------------------------------
(* The aircraft and its flight controller *)

Acks == {1, 2, 3}        \* failed, started, and any other
Failed  == 1
Started == 2

\* Before FW 3.2.0.0 the status is Flight::Status; later it is 0 on the ground
\* and 2 in the air.
Statuses(phase) ==
  IF setup.firmware = "old"
  THEN [ground |-> {1}, climb |-> {2, 3}, hover |-> {3}, sink |-> {4}, cleanup |-> {5}][phase]
  ELSE [ground |-> {0}, climb |-> {2}, hover |-> {2}, sink |-> {2}, cleanup |-> {1}][phase]

Speeds(phase) == [ground |-> {"still"}, climb |-> {"up"}, hover |-> {"still", "down"},
                  sink |-> {"down"}, cleanup |-> {"still"}][phase]

Views(phase) == [status : Statuses(phase), vz : Speeds(phase)]

Broadcast == /\ seen' \in Views(flight)
             /\ UNCHANGED <<setup, flight, order, tasks>>

\* A phase lasts until it has been broadcast.
Fly(from, to) == flight = from /\ seen \in Views(from) /\ flight' = to

FlightStep == /\ \/ order = "takeoff" /\ Fly("ground", "climb") /\ order' = "none"
                 \/ Fly("climb", "hover") /\ UNCHANGED order
                 \/ order = "landing" /\ Fly("hover", "sink") /\ order' = "none"
                 \/ Fly("sink", "cleanup") /\ UNCHANGED order
                 \/ Fly("cleanup", "ground") /\ UNCHANGED order
              /\ UNCHANGED <<setup, seen, tasks>>

CanBegin(task) == \/ task = "takeoff" /\ flight = "ground"
                  \/ task = "landing" /\ flight \in {"climb", "hover"}

Begin(task) == CanBegin(task) /\ order' = task

\* Flight::task: the controller begins the task or refuses it, or the caller
\* times out and finds an old ACK.
Task(task, ack) == /\ \/ ack = Started /\ Begin(task)
                      \/ ack = Failed /\ UNCHANGED order
                      \/ setup.lossy /\ ack \in Acks /\ (Begin(task) \/ UNCHANGED order)
                   /\ UNCHANGED <<setup, flight, seen>>

-----------------------------------------------------------------------------
(* monitoredTakeoff.  Each loop looks at its condition, sleeps and counts. *)

Quiet == UNCHANGED <<setup, aircraft>>

GoTo(place) == at' = place /\ cycles' = 0 /\ UNCHANGED <<attempt, result>>
Again       == cycles' = cycles + 1 /\ UNCHANGED <<at, attempt, result>>
Order(place, n) == at' = place /\ attempt' = n /\ UNCHANGED <<cycles, result>>

Steady == UNCHANGED <<velocity, settled>>

\* A task's locals end with it.
TakeoffDone(status) == /\ at' = "flown" /\ result' = [result EXCEPT !.takeoff = status]
                       /\ cycles' = 0 /\ velocity' = "still" /\ settled' = 0
                       /\ UNCHANGED attempt
LandingDone(status) == /\ at' = "ready" /\ result' = [result EXCEPT !.landing = status]
                       /\ cycles' = 0 /\ UNCHANGED attempt

CallTakeoff == at = "ready" /\ Order("takeoff", 1) /\ Steady /\ Quiet

\* takeoff: a refusal ends the first call; after the second nobody looks at it.
Takeoff == /\ at = "takeoff"
           /\ \E ack \in Acks :
                /\ Task("takeoff", ack)
                /\ IF attempt = 1 /\ ack # Started THEN TakeoffDone(-1)
                   ELSE GoTo("checkInAir") /\ Steady

InAir == seen.status = (IF setup.firmware = "old" THEN 3 ELSE 2)

\* The takeoff is tried a second time, then given up.
RetryTakeoff == IF attempt = 1 THEN Order("takeoff", 2) /\ Steady ELSE TakeoffDone(-1)

\* As if the takeoff were complete once the aircraft is in the air.
CheckInAir_Only == /\ at = "checkInAir"
                   /\ \/ cycles = TakeoffCycles /\ RetryTakeoff
                      \/ cycles < TakeoffCycles /\ InAir /\ TakeoffDone(1)
                      \/ cycles < TakeoffCycles /\ ~InAir /\ Again /\ Steady
                   /\ Quiet

\* First check.  A status that comes with the last poll comes too late.
CheckInAir == /\ at = "checkInAir"
              /\ \/ cycles = TakeoffCycles /\ RetryTakeoff
                 \/ /\ cycles < TakeoffCycles /\ InAir /\ GoTo("liftoff")
                    /\ velocity' = seen.vz /\ UNCHANGED settled
                 \/ cycles < TakeoffCycles /\ ~InAir /\ Again /\ Steady
              /\ Quiet

\* As if the wait for an upward speed had no end.
Liftoff_Endless == /\ at = "liftoff"
                   /\ \/ velocity = "up" /\ GoTo("ascend") /\ UNCHANGED velocity
                      \/ velocity # "up" /\ velocity' = seen.vz
                         /\ UNCHANGED <<at, attempt, cycles, result>>
                   /\ UNCHANGED settled /\ Quiet

\* takeoffConverged: wait for an upward speed.
Liftoff == /\ at = "liftoff"
           /\ \/ cycles = LiftoffCycles /\ TakeoffDone(-2)
              \/ cycles < LiftoffCycles /\ velocity = "up" /\ GoTo("ascend") /\ Steady
              \/ /\ cycles < LiftoffCycles /\ velocity # "up" /\ Again
                 /\ velocity' = seen.vz /\ UNCHANGED settled
           /\ Quiet

\* Wait for the climb to end, for ever if need be.
Ascend == /\ at = "ascend"
          /\ \/ /\ velocity = "up" /\ velocity' = seen.vz
                /\ UNCHANGED <<at, attempt, cycles, settled, result>>
             \/ velocity # "up" /\ GoTo("settle") /\ settled' = 0 /\ UNCHANGED velocity
          /\ Quiet

\* Sample the speed; the takeoff converged if more than the last quarter of the
\* samples were still.
Settle == /\ at = "settle"
          /\ \/ /\ cycles < SettleCycles /\ Again
                /\ settled' = IF velocity = "still" THEN settled + 1 ELSE 0
                /\ velocity' = seen.vz
             \/ /\ cycles = SettleCycles
                /\ TakeoffDone(IF 4 * settled > cycles THEN 1 ELSE -2)
          /\ Quiet

-----------------------------------------------------------------------------
(* landing *)

CallLanding == at = "flown" /\ Order("landing", 1) /\ Steady /\ Quiet

\* A refused landing is ordered again after 4 s, and then not watched.
Land == /\ at = "landing"
        /\ \E ack \in Acks :
             /\ Task("landing", ack)
             /\ \/ attempt = 1 /\ ack = Failed /\ Order("landing", 2)
                \/ /\ attempt = 1 /\ ack = Started
                   /\ GoTo(IF setup.firmware = "old" THEN "startLanding" ELSE "descend")
                \/ attempt = 1 /\ ack \notin {Failed, Started} /\ LandingDone(-1)
                \/ attempt = 2 /\ LandingDone(IF ack = Failed THEN -1 ELSE 1)
        /\ Steady

\* Old firmware: landing mode must show within 3 s.
StartLanding == /\ at = "startLanding"
                /\ \/ cycles = StartCycles /\ LandingDone(-1)
                   \/ cycles < StartCycles /\ seen.status = 4 /\ GoTo("descend")
                   \/ cycles < StartCycles /\ seen.status # 4 /\ Again
                /\ Steady /\ Quiet

\* As if the new firmware also had a status for landing.
Descended_AnyFirmware == seen.status # 4

\* The descent loop ends, without a bound on its cycles.
Descended == IF setup.firmware = "old" THEN seen.status # 4 ELSE seen.status = 0

Descend == at = "descend" /\ Descended /\ GoTo("cleanup") /\ Steady /\ Quiet

\* The last loop.  landingTimer stays below 3, and it is landingFinishTimeout, 4
\* at first, that the loop increments: the loop ends only with the status.
Cleanup == /\ at = "cleanup"
           /\ ~(setup.firmware = "old" /\ seen.status = 5)
           /\ LandingDone(1) /\ Steady /\ Quiet

-----------------------------------------------------------------------------
Init == /\ setup \in Setups
        /\ flight = "ground" /\ order = "none"
        /\ seen \in Views("ground")
        /\ at = "ready" /\ attempt = 0 /\ cycles = 0
        /\ velocity = "still" /\ settled = 0
        /\ result = [takeoff |-> 0, landing |-> 0]

TakeoffStep == Takeoff \/ CheckInAir \/ Liftoff \/ Ascend \/ Settle
LandingStep == Land \/ StartLanding \/ Descend \/ Cleanup
TaskStep    == TakeoffStep \/ LandingStep
AircraftStep == Broadcast \/ FlightStep

\* The button that starts a takeoff is on the aircraft, which is on the ground.
Next == (flight = "ground" /\ CallTakeoff) \/ CallLanding \/ TaskStep \/ AircraftStep

\* A thread's loop runs on, telemetry keeps coming, and the aircraft gets on with
\* every phase but those it may stay in.
Fairness == /\ WF_flightVars(TaskStep)
            /\ WF_flightVars(Broadcast)
            /\ WF_flightVars(flight \notin setup.stays /\ FlightStep)

Spec == Init /\ [][Next]_flightVars /\ Fairness

-----------------------------------------------------------------------------
TakeoffPlaces == {"takeoff", "checkInAir", "liftoff", "ascend", "settle"}
LandingPlaces == {"landing", "startLanding", "descend", "cleanup"}

\* Types; a task is ordered at most twice in a call.
FlightTypeOK ==
  /\ setup \in Setups
  /\ flight \in Phases /\ order \in {"none", "takeoff", "landing"}
  /\ \E phase \in Phases : seen \in Views(phase)
  /\ at \in {"ready", "flown"} \cup TakeoffPlaces \cup LandingPlaces
  /\ attempt \in 0 .. 2
  /\ cycles \in 0 .. LiftoffCycles + TakeoffCycles + SettleCycles + StartCycles
  /\ velocity \in {"up", "still", "down"} /\ settled \in 0 .. SettleCycles
  /\ result \in [takeoff : -2 .. 1, landing : -1 .. 1]

\* When monitoredTakeoff returns 1 the aircraft has ended its climb and is in
\* the air: what the thread saw of it, late and in samples, was enough to know.
TakeoffTruth == at = "flown" /\ result.takeoff = 1 => flight = "hover"

\* When landing returns 1, after a takeoff that was seen to succeed, the aircraft
\* is on the ground and ready again.
LandingWaits == at = "ready" /\ result = [takeoff |-> 1, landing |-> 1] => flight = "ground"

\* It is so when the landing starts at the first attempt.
FirstLandingWaits == attempt = 1 => LandingWaits

\* monitoredTakeoff returns, also when the aircraft never leaves the ground, and so
\* does landing.
TasksReturn == /\ at \in TakeoffPlaces ~> at = "flown"
               /\ at \in LandingPlaces ~> at = "ready"
=============================================================================
