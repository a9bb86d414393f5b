------------------------------ MODULE Missions ------------------------------
(* Waypoint, hotpoint and follow missions (DJI_WayPoint.cpp, DJI_HotPoint.cpp,*)
(* DJI_Follow.cpp): what the objects of the program keep of a mission, what   *)
(* the flight controller has of it, and wayPointMissionExample of             *)
(* LinuxWaypoint.cpp, which uploads and starts one without a look at any ACK. *)
(*                                                                            *)
(* Main makes the calls; the read thread runs the callbacks of reads, which   *)
(* overwrite the objects.  A point is told by the mission it was made for.    *)
EXTENDS Integers, SequencesExt

CONSTANTS Setups,      \* what surrounds the missions, see setup
          MaxPoints    \* bound: waypoints of a mission

ASSUME MissionsAssumption == MaxPoints \in Nat \ {0}

\* A read is answered with what there is.  The example waits for each of its calls, looks
\* at no answer, and no other call is made beside it.
ASSUME UsesAssumption ==
  \A s \in Setups : /\ s.calls \in Nat /\ s.blocking \subseteq BOOLEAN
                    /\ s.prompt \in BOOLEAN /\ s.careless \in BOOLEAN /\ s.heeds \in BOOLEAN
                    /\ s.refuses \cap {"settings", "readOrbit"} = {}
                    /\ "example" \in s.uses =>
                         s.uses = {"example"} /\ s.stops = {} /\ s.blocking = {TRUE} /\ ~s.heeds

VARIABLES setup,    \* never changes: the missions the program uses (uses) and stops (stops),
                    \* whether it waits for answers (blocking), whether the line is prompt,
                    \* loses nothing and keeps the order (prompt), the commands the flight
                    \* controller may refuse for reasons of its own (refuses), whether the
                    \* program makes calls while the answer of a read with a callback is on
                    \* its way and uploads again what it has not uploaded (careless), whether
                    \* it goes on after an init only when that is answered, and after a
                    \* refused one only with a new one (heeds), and a bound of its calls
                    \* (calls), of which the example takes one
          wp,       \* WayPoint: info.indexNumber (n), the size of the table index, or None,
                    \* and the points written into it
          data,     \* hotPointData.radius and yawRate, followData.target
          apart,    \* history, read by no action: the fields of data that the program has
                    \* set apart from what is flown, see below
          fc,       \* flight controller: what it flies, and what it holds of each mission
          air,      \* commands on their way: [kind, arg, back], back telling what waits
          acks,     \* answers on their way: [kind, back, ok, data]
          caller    \* main: [at, calls, step, made, n, refused], step in the example (0:
                    \* not in it), made and n: missions initialised, and points of the
                    \* last, refused: it has heard that its last init was refused

objects == <<wp, data, apart>>
vars == <<setup, objects, fc, air, acks, caller>>

None  == -1
Junk  == [of |-> 0, n |-> 0]            \* what new leaves in a point
Point == [of |-> caller.made, n |-> caller.n]

\* Radii, rates and targets; 0 is the one of initData and of resetData.
Values   == 0 .. 1
Circle   == {"radius", "rate"}
Fields   == Circle \cup {"target"}
Owner(f) == IF f = "target" THEN "follow" ELSE "hotpoint"
Defaults(fields) == [f \in fields |-> 0]
With(d, values)  == [f \in DOMAIN d |-> IF f \in DOMAIN values THEN values[f] ELSE d[f]]

\* A table with a point written into it.
Written(f, pos, p) == [i \in DOMAIN f \cup {pos} |-> IF i = pos THEN p ELSE f[i]]

Init == /\ setup \in Setups
        /\ wp = [n |-> 0, size |-> None, points |-> <<>>]
        /\ data = Defaults(Fields) /\ apart = {}
        /\ fc = [flies |-> "none", n |-> 0, points |-> <<>>, flown |-> <<>>,
                 has |-> Defaults(Fields)]
        /\ air = <<>> /\ acks = <<>>
        /\ caller = [at |-> "idle", calls |-> 0, step |-> 0, made |-> 0, n |-> 0,
                     refused |-> FALSE]

-----------------------------------------------------------------------------
(* Flight controller and line *)

Idle     == fc.flies = "none"
Ground   == fc.flies # "waypoint"    \* an upload does not change a running mission
Complete == fc.n > 0 /\ DOMAIN fc.points = 0 .. fc.n - 1

Reads    == {"settings", "readOrbit"}
Begins   == {"orbit", "follow"}
Changes  == {"rate", "radius", "aim"}
Steers   == Begins \cup Changes      \* the argument holds fields of data
Flying(m) == IF m.kind \in {"follow", "aim"} THEN "follow" ELSE "hotpoint"

\* What a command asks for must be there; a read needs something to read.
Allowed(m) ==
  \/ m.kind = "init" /\ Ground
  \/ m.kind = "add" /\ Ground /\ m.arg[1] < fc.n
  \/ m.kind = "start" /\ Idle /\ Complete
  \/ m.kind \in Begins /\ Idle
  \/ m.kind \in Changes /\ fc.flies = Flying(m)
  \/ m.kind = "stop" /\ fc.flies = m.arg
  \/ m.kind = "settings" /\ fc.n > 0
  \/ m.kind = "readOrbit" /\ fc.flies = "hotpoint"

After(m) ==
  CASE m.kind = "init"   -> [fc EXCEPT !.n = m.arg, !.points = <<>>]
    [] m.kind = "add"    -> [fc EXCEPT !.points = Written(@, m.arg[1], m.arg[2])]
    [] m.kind = "start"  -> [fc EXCEPT !.flies = "waypoint", !.flown = fc.points]
    [] m.kind \in Steers -> [fc EXCEPT !.flies = Flying(m), !.has = With(@, m.arg)]
    [] m.kind = "stop"   -> [fc EXCEPT !.flies = "none"]
    [] OTHER -> fc

\* A read is answered with what there is; an answer that refuses it has no data, and its
\* reader takes what lies on its stack.
Data(m, ok) == CASE m.kind = "settings"  -> IF ok THEN {fc.n} ELSE {0, MaxPoints}
                 [] m.kind = "readOrbit" -> IF ok THEN {[f \in Circle |-> fc.has[f]]}
                                            ELSE [Circle -> Values]
                 [] OTHER -> {0}

\* A command is carried out, or refused; one for what is flown that is refused leaves what
\* it was about apart.
Take(m, ok) ==
  /\ IF ok THEN Allowed(m) ELSE ~Allowed(m) \/ m.kind \in setup.refuses
  /\ fc' = IF ok THEN After(m) ELSE fc
  /\ apart' = IF m.kind \in Steers /\ ~ok /\ fc.flies = Flying(m)
              THEN apart \cup DOMAIN m.arg ELSE apart
  /\ IF m.back = "none" THEN UNCHANGED acks
     ELSE \E d \in Data(m, ok) :
            acks' = Append(acks, [kind |-> m.kind, back |-> m.back, ok |-> ok, data |-> d])

\* Without a prompt line, commands that are sent again come after later ones.
FcStep == /\ \E i \in DOMAIN air, ok \in BOOLEAN :
               (setup.prompt => i = 1) /\ air' = RemoveAt(air, i) /\ Take(air[i], ok)
          /\ UNCHANGED <<setup, wp, data, caller>>

Lose == /\ ~setup.prompt /\ \E i \in DOMAIN air : air' = RemoveAt(air, i)
        /\ UNCHANGED <<setup, objects, fc, acks, caller>>

\* The mission ends by itself.
Finish == /\ ~Ground /\ fc' = [fc EXCEPT !.flies = "none"]
          /\ UNCHANGED <<setup, objects, air, acks, caller>>

-----------------------------------------------------------------------------
(* The read thread: the answers, in their order *)

\* The next answer comes, for one who waits or for a callback of this kind.
Answered(back) == /\ acks # <<>> /\ Head(acks).back = back /\ acks' = Tail(acks)
                  /\ UNCHANGED <<setup, apart, fc, air>>

Heard == IF Head(acks).kind = "init" THEN setup.heeds /\ ~Head(acks).ok ELSE caller.refused

\* notifyCaller wakes main, which looks at the answer if it does that.
Wake == /\ Answered("wait")
        /\ caller' = [caller EXCEPT !.at = IF @ = "waiting" THEN "woken" ELSE @, !.refused = Heard]
        /\ UNCHANGED <<wp, data>>

\* missionCallback, startCallback and uploadIndexDataCallback only print; a program that
\* heeds its answers has a callback of its own.
Printed == /\ Answered("printed")
           /\ caller' = [caller EXCEPT !.refused = Heard] /\ UNCHANGED <<wp, data>>

\* getWaypointSettingsCallback puts the flight controller's settings over info, whatever
\* the answer says, and leaves the table alone.
GetWaypointSettingsCallback ==
  /\ Answered("callback") /\ Head(acks).kind = "settings"
  /\ wp' = [wp EXCEPT !.n = Head(acks).data] /\ UNCHANGED <<caller, data>>

\* readCallback, where the program passes it: the flight controller's orbit over the
\* object's, whatever the answer says.
ReadCallback == /\ Answered("callback") /\ Head(acks).kind = "readOrbit"
                /\ data' = With(data, Head(acks).data) /\ UNCHANGED <<caller, wp>>

ReadStep == Wake \/ Printed \/ GetWaypointSettingsCallback \/ ReadCallback

-----------------------------------------------------------------------------
(* The calls *)

Send(kind, arg, back) == air' = Append(air, [kind |-> kind, arg |-> arg, back |-> back])

\* A call of c sends a command; main waits for its answer, or goes on and leaves the
\* answer to a callback.
CommandOf(c, kind, arg, backs) ==
  \E back \in backs :
     /\ (back = "wait") \in setup.blocking /\ Send(kind, arg, back)
     /\ caller' = [c EXCEPT !.at = IF back = "wait" THEN "waiting" ELSE "idle",
                            !.calls = IF caller.step > 0 THEN @ ELSE @ + 1]
     /\ UNCHANGED <<setup, fc, acks>>
Command(kind, arg, backs) == CommandOf(caller, kind, arg, backs)
Plain == {"wait", "printed"}

\* A call that sends nothing.
Local == /\ caller' = [caller EXCEPT !.calls = @ + 1]
         /\ UNCHANGED <<setup, fc, air, acks>>

Crash == /\ caller' = [caller EXCEPT !.at = "crashed"]
         /\ UNCHANGED <<setup, objects, fc, air, acks>>

\* As if the settings were sent before they were taken over.
Making(n) == [caller EXCEPT !.made = @ + 1, !.n = n, !.refused = FALSE]
InitMission_Before(n) == /\ wp' = [n |-> n, size |-> None, points |-> <<>>]
                         /\ CommandOf(Making(n), "init", wp.n, Plain) /\ UNCHANGED <<data, apart>>

\* WayPoint::init with new settings: setInfo drops the table.
InitMission(n) == /\ wp' = [n |-> n, size |-> None, points |-> <<>>]
                  /\ CommandOf(Making(n), "init", n, Plain) /\ UNCHANGED <<data, apart>>

\* init without settings sends the old ones and keeps the table.
InitAgain == caller.made > 0 /\ Command("init", wp.n, Plain) /\ UNCHANGED objects

\* As if setIndex made a table for the points so far.
Table_Short(pos) == [wp EXCEPT !.size = IF @ = None THEN pos + 1 ELSE @,
                               !.points = Written(@, pos, Point)]

\* setIndex: a table for indexNumber points is made when there is none.
Table(pos) == [wp EXCEPT !.size = IF @ = None THEN wp.n ELSE @,
                         !.points = Written(@, pos, Point)]

\* uploadIndexData of a point: it is written to the table, and then its index compared;
\* the call that waits throws, the other one returns false.
Upload(pos) ==
  \/ pos >= Table(pos).size /\ Crash
  \/ /\ pos < Table(pos).size /\ wp' = Table(pos) /\ UNCHANGED <<data, apart>>
     /\ \/ pos < wp.n /\ Command("add", <<pos, Point>>, Plain)
        \/ /\ pos >= wp.n
           /\ \E blocking \in setup.blocking :
                caller' = [caller EXCEPT !.at = IF blocking THEN "thrown" ELSE @,
                                         !.calls = IF caller.step > 0 THEN @ ELSE @ + 1]
           /\ UNCHANGED <<setup, fc, air, acks>>

\* A caller of its own may catch the error.
Catch == /\ caller.at = "thrown" /\ caller.step = 0 /\ caller' = [caller EXCEPT !.at = "idle"]
         /\ UNCHANGED <<setup, objects, fc, air, acks>>

\* uploadIndexData of an index, which never waits: what the table holds there.
UploadAgain(pos) ==
  /\ FALSE \in setup.blocking
  /\ \/ pos < wp.n /\ pos >= wp.size /\ Crash
     \/ /\ pos < wp.n /\ pos < wp.size /\ UNCHANGED objects
        /\ LET p == IF pos \in DOMAIN wp.points THEN wp.points[pos] ELSE Junk
           IN  Command("add", <<pos, p>>, {"printed"})

GetWaypointSettings == Command("settings", 0, {"wait", "callback"}) /\ UNCHANGED objects

\* start of the waypoints, stop of any mission.
Start == Command("start", 0, Plain) /\ UNCHANGED objects
Stop(mission) == Command("stop", mission, Plain) /\ UNCHANGED objects

\* The fields of data stand apart from what is flown by a call of a set function, which
\* changes the object only; by updateRadius, which changes the flight controller only; and
\* when they are sent while a read is on its way to readCallback, which puts older values
\* over them.  Another start, update or read with readCallback brings them together.
Rereading == \E m \in ToSet(air) \cup ToSet(acks) : m.kind = "readOrbit" /\ m.back = "callback"
Meets(fields) == apart' = apart \ fields
Parts(fields) == apart' = apart \cup fields
Sends(fields) == IF Rereading THEN Parts(fields) ELSE Meets(fields)

\* HotPoint::start sends what the object holds.
StartHotpoint == /\ Sends(Circle) /\ Command("orbit", [f \in Circle |-> data[f]], Plain)
                 /\ UNCHANGED <<wp, data>>

\* As if the rate were changed like the radius, in the flight controller only.
UpdateYawRate_Sent(rate) == /\ Sends({"rate"}) /\ Command("rate", [rate |-> rate], Plain)
                            /\ UNCHANGED <<wp, data>>

\* updateYawRate changes the object too, updateRadius does not.
UpdateYawRate(rate) == /\ data' = [data EXCEPT !.rate = rate] /\ Sends({"rate"})
                       /\ Command("rate", [rate |-> rate], Plain) /\ UNCHANGED wp
UpdateRadius(meter) == /\ Parts({"radius"}) /\ Command("radius", [radius |-> meter], Plain)
                       /\ UNCHANGED <<wp, data>>

\* readData prints what it reads unless the program passes readCallback and the object.
ReadData == /\ \/ Command("readOrbit", 0, Plain) /\ UNCHANGED apart
               \/ Command("readOrbit", 0, {"callback"}) /\ Meets(Circle)
            /\ UNCHANGED <<wp, data>>

\* Follow::start with data, or with where the drone is (0); updateTarget has no answer.
StartFollow(t) == /\ data' = [data EXCEPT !.target = t] /\ Meets({"target"})
                  /\ Command("follow", [target |-> t], Plain) /\ UNCHANGED wp
UpdateTarget(t) == /\ data' = [data EXCEPT !.target = t] /\ Meets({"target"})
                   /\ Send("aim", [target |-> t], "none")
                   /\ caller' = [caller EXCEPT !.calls = @ + 1] /\ UNCHANGED <<setup, wp, fc, acks>>

\* setRadius, setYawRate, setData and initData of HotPoint; setTarget, setData and
\* resetData of Follow.
SetFields(values) == data' = With(data, values) /\ Parts(DOMAIN values) /\ Local /\ UNCHANGED wp
SetHotpoint == \E fields \in SUBSET Circle \ {{}} :
                 \E values \in [fields -> Values] : SetFields(values)
SetFollow   == \E values \in [{"target"} -> Values] : SetFields(values)

-----------------------------------------------------------------------------
(* Programs *)

Coming(kinds) == \E m \in ToSet(air) \cup ToSet(acks) : m.kind \in kinds

\* A careful program makes no call while an answer it needs is on its way, and no program
\* on a prompt line announces a mission while it flies one, unless it looks at the answer.
Awaited(m) == \/ m.kind \in Reads /\ m.back = "callback"
              \/ m.kind = "init" /\ setup.heeds
Quiet  == setup.careless \/ \A m \in ToSet(air) \cup ToSet(acks) : ~Awaited(m)
Landed == setup.prompt /\ ~setup.heeds => Ground /\ ~Coming({"start"})
Free   == caller.at = "idle" /\ caller.step = 0 /\ caller.calls < setup.calls /\ Quiet

Announce == "waypoint" \in setup.uses /\ Landed /\ \E n \in 1 .. MaxPoints : InitMission(n)

WaypointCalls ==
  /\ "waypoint" \in setup.uses
  /\ \/ Landed /\ InitAgain
     \/ \E pos \in 0 .. caller.n - 1 : Upload(pos)
     \/ \E pos \in IF setup.careless THEN 0 .. caller.n - 1 ELSE DOMAIN wp.points : UploadAgain(pos)
     \/ Start \/ GetWaypointSettings

HotpointCalls ==
  /\ "hotpoint" \in setup.uses
  /\ \/ StartHotpoint \/ ReadData \/ SetHotpoint
     \/ \E v \in Values : UpdateYawRate(v) \/ UpdateRadius(v)

FollowCalls ==
  /\ "follow" \in setup.uses
  /\ SetFollow \/ \E v \in Values : StartFollow(v) \/ UpdateTarget(v)

OwnCall == /\ Free
           /\ \/ Announce
              \/ /\ ~caller.refused
                 /\ \/ WaypointCalls \/ HotpointCalls \/ FollowCalls
                    \/ \E mission \in setup.stops : Stop(mission)

\* As if the example left out its last point.
ExampleCall_Short(step) == IF step = 1 THEN InitMission(MaxPoints)
                           ELSE IF step <= MaxPoints THEN Upload(step - 2)
                           ELSE Start

\* wayPointMissionExample: init, the points, start.
ExampleCall(step) == IF step = 1 THEN InitMission(MaxPoints)
                     ELSE IF step <= MaxPoints + 1 THEN Upload(step - 2)
                     ELSE Start
Sleeping == MaxPoints + 3

Begin == /\ Free /\ "example" \in setup.uses
         /\ caller' = [caller EXCEPT !.calls = @ + 1, !.step = 1]
         /\ UNCHANGED <<setup, objects, fc, air, acks>>

Example == /\ caller.at = "idle" /\ caller.step \in 1 .. Sleeping - 1
           /\ ExampleCall(caller.step)

\* The wait ends with any answer, or with the timeout.
Resume == /\ caller.at = "woken" \/ (caller.at = "waiting" /\ ~setup.prompt)
          /\ caller' = [caller EXCEPT !.at = "idle", !.step = IF @ > 0 THEN @ + 1 ELSE 0]
          /\ UNCHANGED <<setup, objects, fc, air, acks>>

\* The example sleeps until the mission has ended, it hopes.
SleepOver == /\ caller.step = Sleeping /\ Landed
             /\ caller' = [caller EXCEPT !.step = 0]
             /\ UNCHANGED <<setup, objects, fc, air, acks>>

MainStep == OwnCall \/ Catch \/ Begin \/ Example \/ Resume \/ SleepOver

-----------------------------------------------------------------------------
Next == FcStep \/ Lose \/ Finish \/ ReadStep \/ MainStep

Spec == Init /\ [][Next]_vars
-----------------------------------------------------------------------------
(* Properties *)

Points == [of : 0 .. setup.calls, n : 0 .. MaxPoints]
Held(f) == DOMAIN f \subseteq 0 .. MaxPoints - 1 /\ \A i \in DOMAIN f : f[i] \in Points

\* A point lies in the table that was made for it, and the flight controller holds no
\* point beyond the settings it has.
MissionsTypeOK ==
  /\ setup \in Setups /\ Held(wp.points) /\ Held(fc.points) /\ Held(fc.flown)
  /\ wp.n \in 0 .. MaxPoints /\ wp.size \in {None} \cup 0 .. MaxPoints
  /\ \A i \in DOMAIN wp.points : i < wp.size
  /\ \A i \in DOMAIN fc.points : i < fc.n
  /\ data \in [Fields -> Values] /\ fc.has \in [Fields -> Values] /\ apart \subseteq Fields
  /\ caller.at \in {"idle", "waiting", "woken", "crashed", "thrown"}
  /\ caller.step \in 0 .. Sleeping

\* A program that makes no call while an answer it needs is on its way, uploads only what
\* it has announced, and looks whether its inits were refused if they may be.
Careful == setup.prompt /\ ~setup.careless /\ ("init" \in setup.refuses => setup.heeds)

\* and a careful program neither leaves the table nor is told of a range error.
TableHolds == MissionsTypeOK /\ (Careful => caller.at \notin {"crashed", "thrown"})

\* What is flown was uploaded whole, and for one mission: no point of an older one, and
\* none that was never written, whatever else the flight controller refuses.
FlownIsUploaded == Careful => \A i \in DOMAIN fc.flown :
                                /\ fc.flown[i] = fc.flown[0]
                                /\ fc.flown[i].n = Cardinality(DOMAIN fc.flown)

\* When nothing is on its way, the objects of HotPoint and Follow and the mission that is
\* flown agree in every field that the program or a refusal has not set apart: by the last
\* start, update or read, whichever came last, in any program on a prompt line.
Still == air = <<>> /\ acks = <<>>
ObjectsAgree == setup.prompt /\ Still =>
                  \A f \in Fields \ apart : fc.flies = Owner(f) => fc.has[f] = data[f]

\* While the example sleeps on a prompt line its own mission is flown, if nothing is
\* refused; if either inits or points may be refused, no other waypoints are.
ExampleFlies ==
  setup.prompt /\ caller.step = Sleeping =>
    /\ setup.refuses = {} => fc.flown # <<>> /\ \A i \in DOMAIN fc.flown : fc.flown[i] = Point
    /\ ~({"init", "add"} \subseteq setup.refuses) /\ ~Ground =>
         \A i \in DOMAIN fc.flown : fc.flown[i] = Point

=============================================================================
