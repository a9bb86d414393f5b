---------------------------- MODULE DroneMission ----------------------------
(* The program (drone/src/DroneKTU.cpp): main waits for the button, sets the  *)
(* SDK up (LinuxSetup.cpp), flies one experiment with the tasks of            *)
(* FlightTasks, cleans up (LinuxCleanup.cpp) and waits again.  An error ends  *)
(* the attempt with blinks of the LED, and what the attempt has opened and    *)
(* started stays behind.  Protoboard objects are passed by value and close    *)
(* the LED's descriptor when a copy is destroyed.                             *)
EXTENDS FlightTasks, FiniteSetsExt

CONSTANTS NFds,      \* file descriptors the process may have
          Steps      \* altitude / interval: heights to measure at

Fds == 0 .. NFds - 1
NoFd == -1

ASSUME MissionAssumption == NFds \in Nat \ {0} /\ Steps \in Nat

VARIABLES main,                \* where main is
          fds,                 \* what each descriptor refers to
          led,                 \* the number the LED objects hold
          modem, port, log,    \* the numbers held by this attempt
          reader, stopCond,    \* this attempt's read thread
          api,                 \* and its CoreAPI
          abandoned,           \* read threads of earlier attempts that still run
          pressed,             \* whether the button was pressed for this attempt
          step

held     == <<modem, port, log>>
thread   == <<reader, stopCond, api, abandoned>>
progress == <<pressed, step>>
mission  == <<main, fds, led, held, thread, progress>>
missionVars == <<flightVars, mission>>

Uses == {"free", "led", "button", "modem", "port", "log"}

-----------------------------------------------------------------------------
(* File descriptors *)

FreeFds == {d \in Fds : fds[d] = "free"}
NewFd == IF FreeFds = {} THEN NoFd ELSE Min(FreeFds)
Opened(use)      == [d \in Fds |-> IF d = NewFd THEN use ELSE fds[d]]
Closed(table, n) == [d \in Fds |-> IF d = n THEN "free" ELSE table[d]]

-----------------------------------------------------------------------------
(* main *)

MissionInit == /\ Init
               /\ main = "wait"
               /\ led = 0 /\ fds = [d \in Fds |-> IF d = 0 THEN "led" ELSE "free"]
               /\ modem = NoFd /\ port = NoFd /\ log = NoFd
               /\ reader = "none" /\ stopCond = FALSE /\ api = "none" /\ abandoned = 0
               /\ pressed = FALSE /\ step = 0

From(here, there) == main = here /\ main' = there /\ UNCHANGED <<flightVars, led>>

\* As if ButtonStatus came to its close.
PollButton_Closes == /\ main = "wait" /\ FreeFds # {}
                     /\ flight = "ground" /\ main' = "objects" /\ pressed' = TRUE
                     /\ UNCHANGED <<flightVars, led, fds, held, thread, step>>

\* ButtonStatus opens the value file and returns before its close.  Without a
\* descriptor it tests a value it has not read.
PollButton == /\ main = "wait" /\ fds' = Opened("button")
              /\ \/ UNCHANGED <<main, pressed>>
                 \/ main' = "objects" /\ pressed' = (FreeFds # {})
                    /\ (pressed' => flight = "ground")
              /\ UNCHANGED <<flightVars, led, held, thread, step>>

\* The objects of the attempt; Modem's constructor calls begin.
NewObjects == /\ From("objects", "modem")
              /\ fds' = Opened("modem")
              /\ port' = NoFd /\ log' = NoFd /\ modem' = NewFd
              /\ api' = "live" /\ stopCond' = FALSE /\ step' = 0
              /\ UNCHANGED <<reader, abandoned, pressed>>

\* main calls begin again; its test assigns 0 to the result, which is lost.
BeginModem == /\ From("modem", "setup")
              /\ fds' = Opened("modem") /\ modem' = NewFd
              /\ UNCHANGED <<port, log, thread, progress>>

\* As if an error were shown and the attempt went on.
Fail_GoesOn(here) == /\ From(here, "countdown")
                     /\ UNCHANGED <<fds, held, thread, progress>>

\* The LED blinks and main waits for the button again: the read thread runs on
\* and nothing is closed.
Fail(here) == /\ From(here, "error")
              /\ abandoned' = abandoned + (IF reader = "running" THEN 1 ELSE 0)
              /\ reader' = "none"
              /\ UNCHANGED <<fds, held, stopCond, api, progress>>

Blink == /\ From("error", "wait")
         /\ UNCHANGED <<fds, held, thread, progress>>

\* setup up to the read thread: the port is there and can be opened, or not.
OpenPort == \/ Fail("setup")
            \/ /\ NewFd # NoFd /\ From("setup", "activate")
               /\ fds' = Opened("port") /\ port' = NewFd
               /\ reader' = "running"
               /\ UNCHANGED <<modem, log, stopCond, api, abandoned, progress>>

Activate == \/ Fail("activate")
            \/ /\ From("activate", "takeControl")
               /\ UNCHANGED <<fds, held, thread, progress>>

\* Any ACK but three that name a reason counts as success.  While the controller
\* answers OBTAIN_RUNNING takeControl calls itself again, and what that call
\* returns is not looked at: it is one step here, which assumes that this ends.
TakeControl == \/ Fail("takeControl")
               \/ /\ From("takeControl", "openLog")
                  /\ UNCHANGED <<fds, held, thread, progress>>

OpenLog == \/ Fail("openLog")
           \/ /\ NewFd # NoFd /\ From("openLog", "battery")
              /\ fds' = Opened("log") /\ log' = NewFd
              /\ UNCHANGED <<modem, port, thread, progress>>

Battery == \/ Fail("battery")
           \/ From("battery", "countdown") /\ UNCHANGED <<fds, held, thread, progress>>

\* countdown is given a copy of the protoboard and destroys it.
Countdown == /\ From("countdown", "fly")
             /\ fds' = Closed(fds, led)
             /\ UNCHANGED <<held, thread, progress>>

\* The result of monitoredTakeoff is not looked at.
TakeOff == /\ main = "fly" /\ main' = "flying" /\ CallTakeoff
           /\ UNCHANGED <<fds, led, held, thread, progress>>

\* One height: climb to it within a time limit, count down, measure and write to
\* the log.
MeasureStep == /\ at = "flown" /\ step < Steps /\ step' = step + 1
               /\ From("flying", "flying")
               /\ fds' = Closed(fds, led)
               /\ UNCHANGED <<held, thread, pressed>>

LandNow == /\ main = "flying" /\ step = Steps /\ main' = "landing" /\ CallLanding
           /\ UNCHANGED <<fds, led, held, thread, progress>>

CloseLog == /\ at = "ready" /\ From("landing", "cleanup")
            /\ fds' = Closed(fds, log) /\ log' = NoFd
            /\ UNCHANGED <<modem, port, thread, progress>>

\* cleanup: a control that is not released is only reported.
StopThread == /\ From("cleanup", "join")
              /\ stopCond' = TRUE
              /\ UNCHANGED <<fds, held, reader, api, abandoned, pressed, step>>

\* As if stopThread did not wait for the thread.
Join_NoWait == /\ From("join", "delete")
               /\ UNCHANGED <<fds, held, thread, progress>>

Join == /\ reader = "stopped" /\ From("join", "delete")
        /\ UNCHANGED <<fds, held, thread, progress>>

\* delete serialDevice closes the port; the API goes with it.
Delete == /\ From("delete", "finish")
          /\ fds' = Closed(fds, port) /\ port' = NoFd
          /\ api' = "deleted"
          /\ reader' = IF reader = "stopped" THEN "none" ELSE reader
          /\ UNCHANGED <<modem, log, stopCond, abandoned, progress>>

Finish == /\ From("finish", "wait")
          /\ fds' = Closed(fds, modem)
          /\ UNCHANGED <<held, thread, progress>>

-----------------------------------------------------------------------------
\* As if read_call never looked at stopCond.
ReadLoop_NoStop == /\ reader = "running" /\ stopCond
                   /\ UNCHANGED missionVars

\* The read thread ends when it finds stopCond set.
ReadLoop == /\ reader = "running" /\ stopCond /\ reader' = "stopped"
            /\ UNCHANGED <<flightVars, main, fds, led, held, stopCond, api, abandoned, progress>>

\* readPoll refreshes broadcastData.
ReadPoll == reader = "running" /\ Broadcast /\ UNCHANGED mission

MainStep == \/ NewObjects \/ BeginModem \/ Blink \/ OpenPort \/ Activate \/ TakeControl
            \/ OpenLog \/ Battery \/ Countdown \/ TakeOff \/ MeasureStep \/ LandNow
            \/ CloseLog \/ StopThread \/ Join \/ Delete \/ Finish
            \/ (TaskStep /\ UNCHANGED mission)

MissionNext == \/ PollButton \/ MainStep \/ ReadLoop \/ ReadPoll
               \/ (FlightStep /\ UNCHANGED mission)

\* Threads run.  Telemetry comes for sure only while no other read thread takes
\* bytes from the same port.
MissionSpec ==
  /\ MissionInit /\ [][MissionNext]_missionVars
  /\ WF_missionVars(MainStep)
  /\ WF_missionVars(ReadLoop)
  /\ WF_missionVars(abandoned = 0 /\ ReadPoll)
  /\ WF_missionVars(flight \notin setup.stays /\ FlightStep /\ UNCHANGED mission)

-----------------------------------------------------------------------------
Places == {"wait", "objects", "modem", "setup", "activate", "takeControl", "openLog",
           "battery", "countdown", "fly", "flying", "landing", "cleanup", "join",
           "delete", "finish", "error"}

\* Types; no more heights are measured at than planned.
MissionTypeOK == /\ FlightTypeOK
                 /\ main \in Places
                 /\ fds \in [Fds -> Uses] /\ led \in Fds
                 /\ {modem, port, log} \subseteq Fds \cup {NoFd}
                 /\ reader \in {"none", "running", "stopped"}
                 /\ api \in {"none", "live", "deleted"} /\ abandoned \in 0 .. NFds
                 /\ stopCond \in BOOLEAN /\ pressed \in BOOLEAN
                 /\ step \in 0 .. Steps

\* Copies of the protoboard close the LED's descriptor time and again, and its
\* number is given to other files: never to the serial port or to the log, whose
\* descriptors stay theirs for as long as the attempt uses them.
OwnDescriptors == /\ port # NoFd /\ main # "wait" /\ main # "error" => fds[port] = "port"
                  /\ log # NoFd /\ main # "wait" /\ main # "error" => fds[log] = "log"
                  /\ fds[led] \in {"led", "button", "free"}

\* Each open serial port has its read thread, and each thread its port.
PortsHaveReaders == Cardinality({d \in Fds : fds[d] = "port"}) =
                      abandoned + (IF reader = "none" THEN 0 ELSE 1)

\* No read thread runs on an API that has been deleted.
NoUseAfterDelete == reader = "running" => api = "live"

\* However many attempts have failed, what belongs to this one is of its own kind:
\* threads, ports and the API they use.
AttemptsApart == MissionTypeOK /\ PortsHaveReaders /\ NoUseAfterDelete

\* The aircraft takes off only after the button was pressed, though without
\* descriptors ButtonStatus may say so at any time.
FliesOnPress == main = "fly" => pressed

\* An attempt ends, and the program waits for the button again.
AttemptEnds == main # "wait" ~> (main = "wait" \/ abandoned > 0)
=============================================================================
