# DroneKTU in TLA+

A verification development for the DroneKTU program: the DJI Onboard SDK core
(`osdk-core`), its Linux wrapper (`osdk-wrapper`) and the experiment program
(`drone`), which waits for a button, flies a drone through a series of heights,
measures radio signals at each and lands. The modules model the parts in which
threads, frames, memory and time meet, and the state a program and its flight
controller keep of each other. TLC checks them on small instances; TLAPS proves every
safety property the passing runs check for all values of the constants (one of them,
`SentAsAsked`, of behaviours in which a race is not lost), and that the frame pool and
the two kinds of session implement the services they promise.

Check a run with `tlc -config <run>.cfg MC<module>.tla`, the proofs with
`tlapm <module>_proofs.tla`. `PROJECT.json` lists runs, mutants, the source
lines of every definition, findings, hazards and theorems.

## 1. Inventory of the system

Three threads matter. The *application thread* (main, or whoever calls the API)
sends commands. The *read thread* reads the serial port, assembles frames, and
hands ACKs, requests and telemetry on. The *poll thread* retransmits and times
out; the SDK documents it as necessary, and this program never starts it. A
fourth, the *callback thread*, exists only in the non-blocking setup. They share
the session tables, the frame pool under one memory mutex, the one
`missionACKUnion` under an ACK mutex and condition variable, and
`broadcastData`, the latest telemetry.

| component | state | operations | what makes it correct |
|---|---|---|---|
| frame pool (`DJI_Memory.cpp`) | table `MMU` of entries over the array `memory` | setupMMU, allocMemory (best fit, compaction by memmove), freeMemory | blocks stay apart, frames survive compaction, a request that fits in the free bytes is granted |
| command sessions (`DJI_Link.cpp`, `DJI_Memory.cpp`) | `CMDSessionTab`, `seq_num`, memory mutex, pool | sendInterface, appHandler (ACK branch), sendPoll, allocSession, freeSession | a session owns its frame; an ACK reaches the command it answers; each command ends; the mutex comes back |
| ACK delivery (`DJI_Link.cpp`, `DJI_API.cpp`, `DJI_Flight.cpp`, serial driver, `LinuxThread.cpp`) | `missionACKUnion`, two mutexes and condition variables, globals `callBack`, `data`, `protHeader` | send + lockACK + wait + read; notifyCaller; notifyNonBlockingCaller; callbackPoll | a blocking call returns its own answer or a timeout; callbacks see their ACK; nobody waits for ever |
| stream filter (`DJI_Codec.cpp`) | `recvBuf`, `recvIndex`, `reuseIndex`, `reuseCount` | byteHandler, streamHandler, checkStream, verifyHead, verifyData, callApp, the shift and reuse helpers | no byte skipped or reordered, every whole frame found, once and in order |
| request sessions (`DJI_Link.cpp` 107-161, 331-375; `DJI_App.cpp` recvReqData) | `ACKSessionTab` | appHandler (request branch), ackInterface, allocACK, freeACK | a repeated request is answered again and not executed again; a stored reply and the blocks of commands do not disturb each other |
| mobile commands (`DJI_API.cpp` 842-1020, `LinuxMobile.cpp`) | a flag and a handler per command | parseFromMobileCallback, mobileCommandSpin, mobileCommandSpinNonBlocking | each command begun for each time it was asked for, and none that was not |
| telemetry (`DJI_App.cpp`) | `broadcastData` | broadcast, passData | each field is read from its own offset for every mask and firmware |
| flight tasks (`LinuxFlight.cpp`, `DJI_Flight.cpp`) | locals of loops over telemetry | monitoredTakeoff, takeoffConverged, landing, setpoint loops, arm, go home | a status says what the aircraft did; the loops end |
| program, setup and cleanup (`DroneKTU.cpp`, `LinuxSetup.cpp`, `LinuxCleanup.cpp`, `LinuxThread.cpp`, `Button.cpp`, `Led.cpp`, `Protoboard.cpp`) | file descriptors, thread and its `stopCond`, the objects of an attempt | main's loop with its error exits, setup, takeControl, cleanup | descriptors belong to who uses them; no thread outlives its API; flight only after a press; errors are shown |
| waypoint, hotpoint and follow missions (`DJI_WayPoint.cpp`, `DJI_HotPoint.cpp`, `DJI_Follow.cpp`, `LinuxWaypoint.cpp`) | settings and table of waypoints, data of the hotpoint, target | init, setIndex, uploadIndexData, start, stop, reads and updates with their callbacks, the example | index within the table; what is flown is what was uploaded; object and flight controller agree |
| session with the flight controller (`DJI_API.cpp` 178-820, 1024-1112; `LinuxSetup.cpp`, `LinuxCleanup.cpp`) | `versionData`, key, the answer in the union | getDroneVersion, activate, setControl, setBroadcastFreq, setup, takeControl, cleanup, their callbacks | the key only once activated, control given back, frequencies restored |
| camera, virtual RC | none | send without an ACK | - |
| codec arithmetic, port settings, configuration file, measurement, modem, logging, other platforms | - | pure computations and I/O | - |

How they interact: a call of the application goes through `CoreAPI::send` to
`sendInterface`, which takes a session and a block of the pool under the memory
mutex and writes to the port. Bytes from the port go one at a time through the
stream filter; a whole frame goes to `appHandler`, which looks for the session
of an ACK under the memory mutex, copies the ACK to the union under the ACK
mutex, and wakes the caller or runs its callback; telemetry goes to
`broadcastData`, which the flight tasks poll. The program starts and stops all
this once per press of the button.

Hard behaviours, each at its line under "hazards" in `PROJECT.json`: sendPoll
reads session fields before it takes the mutex and acts after; ACKs are late or
doubled and meet reused sessions; signals come before waits; one union serves
all commands; data of a damaged frame is fed again from the end of the buffer it
is being collected in; flight decisions are made on late samples; a failed
attempt leaves a thread and descriptors behind; destructors of by-value copies
close descriptors; a refused ACK leaves a pointer to a block it has freed; one
code (0) means version, success and activation; callbacks of reads overwrite
objects main has changed since.

## 2. Modules

### MemoryPool, refining AbstractPool

One variable per field of `MMU_Tab` (`usageFlag`, `pmem`, `memSize`), the bytes
of `memory` (each cell names the entry and offset whose byte lies there), and the
locals of `allocMemory` (`cursor`, `mem_used`, `below` for `record_temp32`). The
two loops, the scan and the compaction, are steps: their intermediate states are
where a mistake would sit, and their invariants are what the proof needs. The
sorted index is represented by the order `Before` and its successor relation.
Calls are not interleaved with each other because every caller holds the memory
mutex. `AbstractPool` is the same service without addresses: a request is
granted if its bytes and a number are free, whatever the fragmentation, refused
for one of three reasons, and the content of other blocks does not change.

### CommandLink, refining CommandService

`SendBegin`, `SendBusy`, `SendNoAck`, `SendNoMemory`, `SendNoKey`, `SendFinish`
are `sendInterface`: from the mutex taken at its start to each of its returns
for session modes 0, 1 and 2. `RecvAck`, `RecvStaleAck`, `RecvLateAck`,
`RecvIgnored` and `Deliver` are the ACK branch of `appHandler`; `RecvLateAck` is
the path that returns without unlocking. `PollLook` reads the session table
without the mutex as the code does; `PollGiveUp`, `PollResend`, `PollCrash` are
what follows. `Expire` lets the timeout of a session pass. A frame is the
command it carries and `hdr` what its header says; the pool is a set of free
slots, justified by MemoryPool; the flight controller answers a transmission
with any number of ACKs of `setup.acks`, delivered in any order at any time.
`CommandService` says what a sender may rely on: each command is refused or
accepted once, and an accepted one is answered or given up, never both and never
twice.

### AckDelivery, using CommandService

Starts where `CommandLink` ends: `MatchAck` is an answer `CommandService` allows.
`SendCmd`, `LockAck`, the waits, `Read` and setControl's rewriting of the union are
the caller; `LockAndStore`, `NotifyAndFree`, `HandToCallback` the read thread;
`AwaitSignal`, `StartCallback`, `EndCallback` the callback thread. The union's content
is the command whose ACK was copied into it. A POSIX signal without a waiter is lost,
and the wait of a blocking call has a time limit. `setup` says how the API is used:
which threads send, which kinds of call they make, whether the callback thread runs,
whether the link is *prompt* (an answer that comes at all comes before its caller's
timeout).

### StreamFilter

One step per byte (`ByteHandler`) or per iteration of the reuse loop (`Refeed`,
`RefeedDone`). `StreamHandler` does storeData and then exactly one of: collect
on, call the application with a complete frame, drop the first byte of a wrong
header and move the rest down (`Shift`, which stands for the loop of
reuse and verifyHead), or move the data of a damaged frame to the end of the
buffer and feed it again (`UpdateReusePart`). A byte is the frame and place it
comes from, so a CRC is valid exactly if the bytes it covers are one frame's; a
CRC collision is outside the model. The line loses, damages and inserts bytes.

### FlightTasks

`CallTakeoff`, `Takeoff` with its retry, `CheckInAir`, `Liftoff`, `Ascend`,
`Settle` are `monitoredTakeoff`, `takeoff` and `takeoffConverged`; `CallLanding`,
`Land`, `StartLanding`, `Descend`, `Cleanup` are `landing`. The aircraft
(`FlightStep`) is external: it may ignore a task, and goes through the phases
ground, climb, hover, sink, cleanup, each of which lasts until it was broadcast
once (`Broadcast`); `setup.stays` are the phases it may never leave. A lost task
times out, and its call then returns any ACK, since the union keeps an earlier
one. Telemetry shows the status words of the firmware before 3.2 or of the later
one. Altitudes are not modelled; vertical speed is up, still or down.

### SetpointLoops, extending FlightTasks

What a program does between takeoff and landing: `CallLoop` starts any of
`attitudeControl`, `attitudeAltitudeControl`, `moveWithVelocity` (`hold`),
`moveByPositionOffset2` (`climb`) and `moveByPositionOffset` (`offset`); `Cycle`
is one turn of the loop (send, sleep, look at the telemetry), `EndLoop` its
return, in time or not. For `offset` the way left along each axis and the
setpoint are kept as integers: `Ahead` is the first setpoint, `Steered` the
change after each sample, and between two samples the aircraft moves by up to
`Drift` in any direction (`Moved`). The other loops send a constant setpoint, so
their `level` (within the thresholds) is all that is kept. `CallSquare`,
`NextLeg` and `Stabilize` are `drawSqrPosCtrlSample`. Other tasks of FlightTasks
are taken only while no loop runs; the aircraft goes on at any time.

### DroneMission, extending FlightTasks

`main` from `PollButton` to `Finish`, with an exit to `error` wherever the code
has one, for any number of attempts. `fds` is the descriptor table of the
process (descriptors beyond stdin, stdout, stderr; the lowest free number is
given out, as POSIX demands), `led`, `modem`, `port` and `log` the numbers the
objects hold. `Protoboard` objects are passed by value and each destroyed copy
closes the LED's number. The read thread runs from `OpenPort` on, refreshes the
telemetry of FlightTasks, and stops after it finds `stopCond`. After a failed
attempt nothing is closed and its thread keeps reading: `abandoned` counts them.
The modelled build is the one for the ARM board, without the serial validation
of x86_64 builds.

### RequestSessions, refining RequestService

The other direction: requests of the flight controller. `DropWaiting`,
`TakeIdle`, `RepeatAck` and `TakeNext` are the request branch of appHandler by
the status of the session; `HearEvent`, `LostControlEnds` and
`LostControlAcked` are recvReqData, which answers the loss of control itself
and hands events to the application; `AppAckTooLong`, `AppAckFails`, `AppAckSent`
and `AppMarks` are `CoreAPI::ack` on a thread of its own, which may be given an
over-sized reply, with the mark that comes after the mutex is given back. `AckBlock` and `AckRefused` are allocACK with its free
before the allocation. `CommandAllocates` and `CommandFrees` are what the
command sessions do with the same pool. The flight controller repeats a request
until it sees its ACK or gives up; `setup` says what it may ask, what the line
loses, whether there is room, a key and a callback. `RequestService` is the
promise: in a session requests are handled in order, once, one at a time.

### MobileCommands, extending RequestSessions

`HearMobile` is parseFromMobileCallback: data of a request becomes a callback or
a flag, on the read thread. The thread that spins tests the flags in the order
of the compiled loop (`TestNext`). One that is up is found (`FindCommand`), cleared
in a step of its own, and the command run (`BeginCommand`, `EndCommand`), or it takes
off and flies a precision mission (`BeginPrecision` to `EndFlight`), with the
`continue` after a failed takeoff. A flag has no count: requests of one id that come
before it is cleared are one request for the loop, and `pending` holds them as one.

### Telemetry and SdkSession

`Telemetry` has no state: the version numbers with the quirks of two firmwares
(`Firmware`), the channels an aircraft sends (`Channels`) and those the code
takes apart (`Passed`, `Width`), and the tables of frequencies. `SdkSession` is
setup and cleanup as a dialogue with the flight controller: main's calls
(`Connect`, `Activate`, `TakeControl`, `Fly`, `Close`, `Release`, and their
returns), the read thread with `NotifyCaller` and the callbacks of the
non-blocking forms, and a flight controller that grants activation and control
or does not. The callbacks are either CoreAPI's, which look into their own frame and
set the key (`ActivateCallback`, `ControlCallback`), or the wrapper's
(`WrapperCallback`), which look into the union, where a later answer may lie by then,
and set no key. A blocking call returns with whatever code is in the union after
any ACK or its timeout, as AckDelivery has it; the line keeps order and, in some
setups, loses and delays. It includes the validation of x86 builds.

### Missions

What the three mission objects hold, what the flight controller holds, and the
calls and callbacks between them. `Upload` and `UploadAgain` are the two
uploadIndexData, `Table` is setIndex, whose table is made for the number of
points in the settings at that moment. setIndex writes before the index is compared,
so a refused point is in the table all the same; the blocking call then throws, which
ends the program or is caught by its caller (`Catch`), and the other returns false.
`SetHotpoint` and `SetFollow` are the functions that change an object and tell the
flight controller nothing: setRadius, setYawRate, setData and initData of HotPoint,
setTarget, setData and resetData of Follow. `UpdateYawRate` changes both sides,
`UpdateRadius` the flight controller only.

The callbacks run on the read thread. `GetWaypointSettingsCallback` is the default of
its read. `ReadCallback` is not: readData runs it only where the program passes it
with its object, and prints otherwise. Both take over whatever the answer brings: an
answer that refuses a read has no data, and what lies on the stack is stored
(`Data`).

`OwnCall` is a program that uses the objects in any order within `setup.uses`;
`Begin`, `Example` and `SleepOver` are wayPointMissionExample. The flight controller is
external. What a command needs must be there (`Allowed`: a mission to start or to
change, no upload into one that is flown), and beyond that it may refuse for reasons
of its own any command in `setup.refuses`, as the table of `DJI_Mission.cpp:20-87`
has it (0xC3, a rate that is too large; 0xE0 and 0xE4, points and missions): in the
runs those are inits, points, starts, rates, radii and targets.

`apart` is a history variable, which no action reads: the fields in which object and
mission may differ, by a set function, by updateRadius, by a refused change of what is
flown, or because a read on its way to readCallback was overtaken by a later change.

### MC modules

Each `MC*` module extends a component and names the surroundings (`Setups`) its
configurations use. The proofs about a component are in its `*_proofs` module;
those about SetpointLoops and DroneMission, which extend FlightTasks, are in
`FlightTasks_proofs`, and those about MobileCommands in `RequestSessions_proofs`.

## 3. Runs

| run | asks | answer |
|---|---|---|
| MemoryPool | are blocks apart, frames intact, the compaction's arithmetic right, calls finite, and the pool like one without addresses? | yes |
| LinkSafety | does a session own its frame, is no slot lost or shared, does an ACK reach its command, are fates those of CommandService, with retries, lost, late and doubled ACKs and failing allocation and encryption? | yes |
| LinkProgress | is a command transmitted as often as asked, does each end, and with its ACK on a link that loses nothing, in the absence of late ACKs? | yes |
| LinkLateAck | is the mutex always released? | no: an ACK that finds its session free leaves it locked (`DJI_Link.cpp:105`) |
| AckDelivery | does a blocking call return a new answer or a timeout, on a prompt link its own answer; is a callback left undisturbed and never a null pointer; does everyone come back? | yes |
| StreamFilter | is no byte skipped or moved, every whole frame handled once in order, none missed, the loop finite? | yes |
| FlightTasks | is a takeoff reported as successful one; does a landing that starts at once return on the ground; does every setpoint lead to the goal and is a square drawn in the air only; do tasks, loops and square return? | yes |
| LandingWaits | does any landing reported as successful return on the ground? | no: a landing accepted at the second attempt is not waited for |
| DroneMission | over many attempts: descriptors belong to their users, ports have readers, no thread on a deleted API, flight only after a press, attempts end? | yes |
| Requests | are replies and commands safe from each other in the pool, requests handled once and in order, answered in the end; are mobile commands neither forgotten nor invented, and flown with their own options? | yes |
| Session | is what the API knows of the aircraft true, is telemetry taken apart as it was sent, are rates restored and control given back, do setup and cleanup end, for five firmwares? | yes, on a prompt line; with callbacks the key is right on any line |
| Missions | does the waypoint table hold what is written, is what is flown what was uploaded, do objects and flight controller agree, does the example fly its mission? | yes on a prompt line, with three limits: waypoints for careful programs (below), agreement in the fields that nothing has set apart, the example only where no command it gives is refused |

The two answers "no" are the findings of `PROJECT.json`, each with the sentence
of the repository it contradicts.

Further facts the models show, for which no run is kept:

- sendPoll may resend or give up another command than the one it saw time out,
  and dereferences the null block of a session whose first allocation has failed
  (`PollActsOnWhatItSaw` and `PollCrash` of CommandLink).
- Without the poll thread, which setup never starts (`LinuxSetup.cpp:52`; the
  comment at `DJI_API.h:202` speaks of two poll threads), a command whose ACK is
  lost keeps its session and its block for ever.
- A late ACK of a call that has timed out wakes the next blocking call early
  (`DJI_API.h:275` says it returns on its ACK or its timeout), and that call then
  reads the older answer. On such a line setup can report an activation nobody
  granted, since the ACK of a version request is a 0 like success.
- On the callback thread the next ACK may replace the one a callback was
  signalled for, before it starts (`DJI_Link.cpp:197` and `:278`).
- The countdown's copy of the protoboard closes the descriptor of the LED, which
  shows no error from then on (`DroneKTU.cpp:133`, `:244`).
- `CoreAPI::ack` ignores the result of ackInterface: an ACK that finds no memory
  or no key leaves its session in PROCESS, which drops every later request. The
  pointer to the freed block then stays; it is harmless in a session that is
  never acknowledged again. Session 1 has no such guard, and there the next ACK
  would free through it: RequestAssumption takes the flight controller to encrypt
  in session 1 only where the key is set.
- takeControl calls itself for a request that is running and drops the result,
  and counts codes it does not know as success: setup may return 1 without
  control. CoreAPI's own activation callback sets the key as a blocking activate does
  (`DJI_API.cpp:760`); the wrapper's, which activateNonBlocking passes, never does
  (`LinuxSetup.cpp:321`).
- Flags and handlers of mobile commands have no value before init
  (`setup.raised`): a loop may begin what nobody asked for. Ids 24 and 69 share a
  flag; ids 10, 11, 13, 61, 63 and 66 to 68 set flags no loop looks at.
- A waypoint program that uploads while its settings are being read, or uploads
  points it has not set, writes outside the table or is told of a range error; one
  that goes on after a refused init mixes the points of two missions, or leaves its
  table. Missions contains such programs (`careless`, and `refuses` without `heeds`);
  TableHolds and FlownIsUploaded are about the others (`Careful`).
- The same befalls the example: if an init of its is refused its points go into the
  older mission, and if one of its points is refused too, start flies a mixture.
- Objects and mission differ after a set function in flight (as DJI_HotPoint.h:55-59
  says), after updateRadius, after a refused updateYawRate or start, and after a
  readCallback that comes later than an update. ObjectsAgree leaves those fields out
  until the next start, update or read brings them together.

Every property of a passing run has a mutant, a change of one mapped definition
in the manner of a likely mistake, under which TLC finds the property violated.
The mutated forms stand next to the definitions they change, commented "As if".

### Bounds

- *MemoryPool*: 6 bytes, 3 entries, lengths 1 to 4, allocations of up to 3 bytes. Two
  blocks with a hole between them and a request that no single hole takes are
  possible, hence compactions that move one block, two, or stop early; a full table
  with bytes left; a full memory with entries left; a request that is too long. The
  proofs remove the bound for the safety part.
- *CommandLink*: up to 4 commands, 2 automatic sessions or 1 with the shared session
  1, 1 or 2 slots, at most 2 ACKs of a command on the way. Sessions and slots are
  therefore reused while ACKs of their former commands still travel. `SeqMod` exceeds
  `2 * MaxCmds`: the model excludes an ACK that is delayed by a whole turn (65536) of
  the sequence number. `RetryMod` is 4 in LinkSafety, so that a retry of 4 is stored
  as 0, as 32 is in the 5 bits of the code. `MaxTx` only stops a counter.
- *AckDelivery*: 3 commands and up to 2 callers: one call that has timed out, the
  next, and one more to overwrite the union. Four uses of the API.
- *StreamFilter*: headers of 3 bytes, frames of 3, 5 and 9 bytes, 10 places, 3 frames,
  2 faults, one of which may cut off the rest of a frame: a header alone, a frame
  inside the data a cut one claims, a frame that reaches past their end, and damage
  within data that is being fed again.
- *FlightTasks*: loops of 2, 2, 4 and 2 cycles for 40 (or 100), 500, 40 and 60: every
  loop can end by its status in its first and in its last cycle, or run out. Calls
  repeat without a bound. The setpoint loops have 3 cycles for 100 or 500, a speed
  factor of 2, a drift of 1 and threshold 0; the square has sides of 3, and
  `FewOffsets` an offset of -2 and 1: one that starts at the speed factor and one
  below it, so that within 3 cycles an axis can leave the near range, pass the goal or
  come back. The proof removes these bounds; it needs `Drift < SpeedFactor`, that in
  20 ms the aircraft moves less than 2 m.
- *DroneMission*: 8 descriptors, 2 heights, loops of 1 cycle: each poll of the button
  takes one for good and each attempt several, so that descriptors run out before,
  between or in the middle of the openings of an attempt. Attempts repeat without a
  bound.

- *Requests*: 3 requests in up to 2 of the sessions 0, 1 and 2, a pool of 2
  entries shared with commands, 2 frames on the line, 1 or 2 of them lost. A
  session can answer, be repeated, take a next request and find the pool full of
  commands. The proofs remove these bounds for RepliesKept and ImplementsRequests.
  The mobile device sends 3 commands of 3 ids, so that one comes twice while the
  loop executes another.
- *Session*: the five firmwares for which the code takes different branches, 9
  calls (`MaxSent`), enough for setup, two obtain calls that find one running and
  cleanup; `MaxRunning` bounds the answers OBTAIN_RUNNING in a row.
- *Missions*: tables of up to 2 points, two values of each field, 5 to 7 calls and two
  turns of the example: upload a mission, fly it, change it and read it back, with one
  call more than the shortest run that breaks a mutated form. Each set of refusals
  goes with the program it endangers: points alone, inits and points for one that heeds
  its answers, starts, and the changes of orbit and target.

Deadlock is checked where the system never rests (MemoryPool, FlightTasks,
DroneMission, and their counterexample runs). It is off where a bound on commands,
requests, calls or frames lets the model come to its end, or where the code really
stops (a locked mutex, a crash, a program that has ended); there the liveness
properties say what must still happen.

### Fairness

- *MemoryPool*: a thread in `allocMemory` runs on; it waits for nothing. That
  every call returns is part of `ImplementsAbstract`.
- *CommandLink*: threads that can go on do; the read thread handles bytes that
  have arrived; with `setup.poll` the poll thread loops; time passes. No fairness
  on `SendBegin`: nobody must send. The flight controller owes nothing beyond
  `setup.acks`. Weak fairness suffices: the mutex is held for one or two steps,
  and a caller that waits for it is modelled at its first step, not inside.
- *AckDelivery*: callers, read thread and callback thread run on, a timed wait
  ends, and a command is answered or given up. The last is what
  `EveryCommandEnds` shows in LinkProgress.
- *StreamFilter*: only the loop inside byteHandler; the line may fall silent.
- *FlightTasks*: the calling thread runs, telemetry keeps coming, and the
  aircraft leaves each phase not in `stays`. For the new firmware `stays` is
  only the ground, because the descent loop of `landing` there has no bound
  (`LinuxFlight.cpp:626`), and for both the cleanup phase must end, because the
  timeout of the last loop counts the wrong variable (`:640`). The setpoint loops
  run on; nothing is asked of the aircraft there, because each has a time limit.
- *Requests*: the read thread, the application thread that acknowledges and the
  thread that spins run on. The flight controller is owed nothing but, with
  `setup.insists`, that it repeats a request which has not been answered; its
  repetition competes with others for the line, hence strong fairness on `Repeat`.
- *Session*: main runs on; without `setup.late` the flight controller answers and
  the read thread handles what has arrived. With it nothing is owed: every call of
  main then ends by its timeout.
- *Missions*: none; its properties are all of safety.
- *DroneMission*: as above, but telemetry is owed only while no abandoned read
  thread takes bytes from the same port; so `AttemptEnds` lets an attempt hang
  once there is one.

## 4. Proofs

### The frame pool

`MemoryPool_proofs` proves, for every `MemorySize` > 0, `MmuTableNum` >= 3,
`MaxAlloc` and every set of positive lengths (`PoolAssumption`, which the code's
`MEMORY_SIZE` 1024, `MMU_TABLE_NUM` 32 and frames with header and CRC satisfy):

- `Inductive`: `Spec => []IInv`, where `IInv` is
  `TypeOK /\ Sentinels /\ Disjoint /\ ContentIntact /\ GapAccounting`;
- `TypeCorrect`, `NoOverlap`, `FramesSurvive`, `RoomAsCounted`: its parts;
- `PoolImplementsAbstract`: `Spec => Abstract!Steps`, the safety half of
  `ImplementsAbstract`.

`Disjoint` and `ContentIntact` alone are not inductive. The compaction moves a
block down to the end of the one below because that one has been moved, and the
request is placed above `cursor` because the scan counted enough gap bytes.
`GapAccounting` says so: in the scan `below[cursor] + mem_used` is the end of the
block at `cursor`; while compacting, all gaps below have come together above
`cursor` and equal `below` of the next block. From it follows that the new block
ends at or before its successor (`PlaceSafe`), and that a memmove writes only
over free bytes and bytes of the same block (`CompactSafe`). `BeforeOrder` and
`Neighbours` are the facts about the address order both need: a block is at or
below a block e or at or above its successor. One lemma per action, and
`NextSafe` puts them together.

The abstract pool counts: what it grants or refuses depends on the number of bytes
held (`Occupied`, the cardinality of a set of pairs of block and offset). The
concrete one adds sizes up while it walks. `Counting` connects them: `mem_used` is the
cardinality of the bytes of the entries walked so far (`OneMore` adds one entry,
`ScanTells` says that at the end of the walk it is `Occupied`). `OwnRead` makes the
content of the mapped blocks a function of their sizes, so that a step which
keeps the sizes is a stutter however many bytes it has moved.

### The command sessions

`CommandLink_proofs` proves, for any number of callers, sessions and slots
(`LinkAssumption`), `SessionsSafe` (`SessionsIntact`), `AcksMatch`
(`RightHandler`) and `LinkImplementsService` (the step part of the refinement;
CommandService states no liveness). The invariant `LInv` adds to these:

- `Filling`: a caller between the two halves of sendInterface holds the mutex, its
  session is in use, and its command has not been sent. Everyone else who touches
  the table takes the mutex first, except the poll thread's look, and `Holder`
  turns this into: with the mutex free, every session in use is complete.
- `Numbered`: a command uses up at most two sequence numbers, so that no two
  commands have carried the same one. `RightHandler` rests on it: the frame
  the session points at has the header of the ACK, hence is the command of the
  ACK. This is where `SeqMod > 2 * MaxCmds` is needed: with the code's 65536 the
  theorem speaks of behaviours of fewer than 32768 commands. In longer ones numbers
  come again, and an ACK delayed by a whole turn could meet its successor.
- `Awaited`: the commands of sessions in use are still waiting; so is the one
  appHandler has matched and not yet delivered, whose session is already free.

What sendPoll does after a look that is out of date is harmless for these
properties because it acts on the session's present content under the mutex:
`GiveUpSafe` and `LookSafe` need nothing of `poller.cmd`.

For the number of transmissions it is not harmless: if the session is freed between
the look and the act, by an ACK or by a send that takes it and then finds no memory
or no key, sendPoll transmits whatever lies in the session's old block, once more
than its sender asked. `TransmitsAsAsked` (`SentAsAsked`) is therefore a theorem about
behaviours: `Spec /\ [][DueIsKept]_vars => []SentAsAsked`, where `DueIsKept` says that
no step frees the session sendPoll has looked at before sendPoll acts. Nothing else is
asked: ACKs may be lost, late or double, sends may fail, the sessions of other commands
may come and go. This program, which starts no poll thread, has only such behaviours,
and so has the instance of LinkProgress. `RetriesFit` asks that the retry
parameter fits its five bits and is not 0, which means for ever. `Counted` says that the
field `sent` of a session is the number of transmissions of the command that has it, and
`StillThere` what sendPoll then finds under the mutex; without `DueIsKept` TLC
finds `SentAsAsked` violated.

### The request sessions

`RequestSessions_proofs` proves, for any number of sessions, entries and requests,
`RepliesSafe` and `MobileRepliesSafe` (`RepliesKept`, without and with the mobile
commands) and `RequestsRefined` (`ImplementsRequests`). `RepliesKept` is not inductive,
because allocACK leaves a pointer behind when it frees and then fails. The
invariant says where that may be:

- `Pointer`: a session's pointer may dangle only while its status is PROCESS and
  nobody has its request; such a session drops whatever comes and frees
  nothing. Whoever has the request (the read thread in recvReqData, the inbox of
  the application, or either between its ACK and the mark after it) finds the
  pointer clean or the reply in place.
- `OneHolder`: in a guarded session one of these four has the request, and it is
  the last one handled.
- `Ordered`, for the refinement: the flight controller repeats only the last
  request of a session, so the requests of a session that are still on the line
  come in their order and are at most the one asked last.

`RequestAssumption` demands that the flight controller encrypts in session 1 only
where the key is set. Session 1 is not guarded by a status, so there a failed
encryption leaves a pointer that the next ACK frees through: with the assumption
dropped TLC finds `RepliesKept` violated.

### ACK delivery

`AckDelivery_proofs` proves, for any number of callers and commands and every use
of the API (`DeliveryAssumption`), `NewAnswers` (`AnswerIsNew`), `OwnAnswers`
(`OwnAnswer`) and `CallbacksUndisturbed` (`CallbackUndisturbed`); `DeliveryTyped`
is the type invariant. The parts of `DInv`:

- `Past`: while only the read thread writes the union, what it holds and what the
  callers remember are ACKs that were delivered, and the answer on its way is none
  of them. A caller that is woken without a timeout therefore reads something it
  had not seen, whoever was meant by the signal.
- `Promptly`: a lone caller on a prompt link is at its only open call, and the ACK
  of that call stays in the union until it is read. This covers the signal that
  comes before the wait: the call sleeps for its whole timeout, and the ACK is its own.
- `Called`: where every command has a handler, the callback thread is woken only
  after `callBack` was set.

With setControl's rewriting of the union (`DJI_API.cpp:734`) `Past` does not hold;
`AnswerIsNew` excludes that kind of call, as its comment says.

### The mobile commands

`RequestSessions_proofs` continues with the mobile commands: `CommandsAsAsked`
(`EachAsAsked`) and `CommandsAsked` (`OnlyWhatWasAsked`). In `Spinning` a pending
command has its flag up, and its converse holds when the flags were cleared before the
start (`setup.raised`); the options are empty unless a trajectory is being flown, and
then those of its own id. `Bounds` says that counters stay within the requests made,
which the type invariant in `EachAsAsked` needs. `MobileAssumption` says which flags
there are: ids 24 and 69 share one.

### The flight tasks

`FlightTasks_proofs` proves `TakeoffTold` (`TakeoffTruth`) and `LandingTold`
(`FirstLandingWaits`) for all cycle counts, both firmwares, any phases the aircraft
may refuse to leave and any loss of tasks or ACKs. The argument (`FInv`):

- `Lag`: telemetry is of the current phase or of the one before, because a phase
  lasts until it was broadcast. It is the only assumption on the aircraft's timing.
- `Orders`: a landing is ordered only in the air, a takeoff begins only on the ground.
- `TakingOff`: a status in the air means the ground is left, and speed up, then not
  up, means that the climb is over: two samples tell what one that lags could not.
- `Landing`: the same for the way down, separately for the two firmwares, whose
  status words differ, and only for a landing that was not ordered twice.

### The setpoint loops

`FlightTasks_proofs` also proves `SetpointsLead` (`SteersWell`) for every offset, side,
time limit, threshold and `Drift < SpeedFactor`, and with `LoopsBetween` that
`TakeoffTruth` and `FirstLandingWaits` survive the loops. `Leads` is inductive for
one axis: a way below the speed factor becomes the setpoint itself (`DriftLeads`),
and a way that grows beyond it was, one drift ago, a setpoint of its own sign and of
at least `SpeedFactor - Drift`; it then stays constant until the aircraft is near
again. A drift as large as the speed factor would let an axis jump over the near
range and be led away from its goal. `Airborne` says why a square is drawn
in the air: telemetry that shows the air excludes the ground (`Lag`), and nothing
between takeoff and landing orders a landing.

### The program

In the same module `AttemptsStayApart` (`AttemptsApart`), `DescriptorsKept`
(`OwnDescriptors`) and `PressedToFly` (`FliesOnPress`) are proved for every limit of
descriptors, every number of heights and any number of failed attempts. An opening
takes the least free number (`Opening`). `Led` says that the LED's number 0 is the
LED's, a file's that a poll of the button has left open, or free, and free only where
the next file opened is the button's; so the copies that close 0 never close what an
attempt uses. `AttemptsApart`
counts: one open port for every thread that reads. `Pressed` is the chain behind the
last theorem: an attempt begins without a press only if no descriptor was left to
read the button with, and then the port cannot be opened.

### The stream filter

`StreamFilter_proofs` proves `FilterSkipsNothing` (`NothingSkipped`) and
`FilterHandlesFrames` (`FramesHandled`) for every header, buffer, set of lengths and
number of frames and faults. `FilterAssumption` says that a frame is at least a header
and shorter than the buffer, which the code tests in verifyHead (`DJI_Codec.cpp:725`).
No induction over the buffer is needed: the invariant speaks of all its places at
once.

- `Aligned`: the collected part at the front of the buffer and the part to be fed
  again at its end are, laid end to end, the last bytes that arrived. From it, a
  move of either part is a move of a window over `arrived`, and neither part
  writes over the other (`n <= next` in `Fed`).
- `Collecting`: more than a header is collected only behind a header, so there is
  always room for the next byte.
- `Came`: `intact` lists exactly the frames that lie whole in `arrived` (`Partial`
  for the one being sent, `Ordered` and `SentBefore` for the order).
- `Kept`: the first byte of a frame that is, or may still become, whole has left the
  buffer exactly if the frame was handled. This is the heart: whatever the filter
  drops, after a false header or a damaged frame, is no beginning of a whole frame.

### The session with the flight controller

`SdkSession_proofs` proves `SessionBelievesTruly` (`BelievesTruly`),
`SessionDecodesRight` (`DecodesRight`), `CleanupRestoresFrequencies`
(`FrequenciesRestored`) and `SetupLeavesNoControl` (`NoControlLeft`) for every craft
whose reported version the code parses to its firmware (`CraftAssumption`: the rows of
the version tables and any others of that kind), every content of the union before the
first ACK, and any bound on calls. `ReleaseAssumption` takes a flight controller that
has accepted the program not to refuse it the release; where one does, cleanup tells
the user to switch control by hand (`LinuxCleanup.cpp:28`).

`Posted` and `Accepted` carry the properties for the callbacks, on any line. For the
blocking calls the line must be prompt (`OnTime`), as in the properties, and the
invariant is `Waiting`: main's command is the only one on its way, or its ACK is, or
that ACK is in the union (`Alone`); the ACK and the union then tell the flight
controller's state (`Answers`); what is asked is what main's place says (`Asks`). The
probe of the port validation of x86 builds is sent with a handler and without being
awaited; `Probe` says that it is answered before main's first ACK, so that its
callback writes the union no later. `Reached` says what holds from each place of setup
on.

### The missions

`Missions_proofs` proves `MissionsStayInTables` (`TableHolds`),
`MissionsAreFlownWhole` (`FlownIsUploaded`), `MissionsAgree` (`ObjectsAgree`) and
`TheExampleFlies` (`ExampleFlies`) for every size of table, number of calls and mix of
calls, and every set of commands that may be refused. `UsesAssumption` says that the
example runs alone and waits, as its code does. The properties themselves ask for a
prompt line; the two about waypoints also for a program that is `Careful`: it makes no
call while an answer it needs is on its way, uploads what it has announced and, if
inits may be refused, looks whether they were.

The line keeps order but calls need not wait for it, so that an upload may be on its
way long after the objects changed. The invariant is about the commands on the line as
a sequence, with what the flight controller holds before its first place and what the
object holds behind its last.

`Steady` says of each field that is not in `apart`: with no read on its way to
readCallback, the last command that carries the field holds what the object has, or, if
none does, the flight controller has it (`Unfetched`); with such a read on its way, no
command that carries the field is behind it, and its answer, once there is one, is what
the flight controller has (`Refetched`).

For waypoints, `OneMission`: two points at places with no announcement (`init`) between
them (`Parted`) are of one mission, and of the size announced before them
(`Together`); so what is complete at a `start` is one mission, as `Uploaded` says of
what is flown. A refused init breaks this for what main uploads next, unless main hears
of it first: `Heeded` and `AwaitedLast` say that by then nothing is on its way, and that
the answer of a read describes the state its callback overwrites. `OwnTable` and
`Announces` say that the table is the one of the mission made last, and that it is
announced on the ground or under a program that heeds the answer.

For the example the invariant `Ex` follows its calls in their order: which of them are
done, which one is on the line, and what the flight controller has made of them.

### Only model-checked

- Liveness, which with fairness and ENABLED is out of the prover's reach:
  `EveryCommandEnds`, `EveryoneReturns`, `ByteHandlerReturns`, `CallsReturn`,
  `AttemptEnds`, `EveryRequestAnswered`, `EveryCommandBegun`, `SessionEnds`, and the
  liveness half of `ImplementsAbstract`.
- `SentAsAsked` for a poll thread that loses its race: there it does not hold, as
  the section on command sessions says.

## 5. Not modelled

- Of LinuxFlight arm, disArm, goHome and the non-blocking forms: one task each,
  whose answer is printed. Altitude, yaw and the conversion of GPS positions to
  metres in the setpoint loops. In DroneMission a climb between two heights and a
  measurement are one step: the setpoint loop returns (`CallsReturn`), and the
  modem's reads are taken to return. takeControl is one step there, and calls itself
  only in SdkSession.
- The callback thread of the non-blocking setup after cleanupNonBlocking has
  deleted the API it uses (`LinuxCleanup.cpp:56`): what follows is undefined.
- `encodeSendData` is shared by all senders and filled outside the mutex; two
  threads that send at once mix payloads. In this program only main sends.
- An ACK longer than the union makes notifyCaller throw with the ACK mutex held;
  the flight controller's ACKs fit.
- The flight controller is external everywhere. Its answers are taken from the
  tables of ACK codes the code prints; each model says what they depend on: in
  SdkSession on the activation and the version, in Missions on what is flown and held
  (`Allowed`) and on `setup.refuses`, elsewhere on nothing. Pauses, idle velocity and
  the reset of the yaw send a constant and change nothing the model holds.
- A wait that ends with neither signal nor timeout, which POSIX allows
  (`LinuxSerialDevice.cpp:148` does not test for it): the call would then return
  whatever lies in the union.
- Of telemetry: broadcasts that arrive before the version is known are taken apart
  with the offsets of the A3 (`DJI_App.cpp:106`), an M100's wrongly so (Telemetry has
  the branch, DecodesRight is about the time after setup); the values of fields.
  parseDroneVersionInfo fills `hwVersion[12]` without a bound, and the callers'
  frequency tables leave their last two entries unset; versions in the model fit,
  and those two channels are not looked at.
- Acknowledgements by the application of requests in session 1, which the code
  would allow: nothing sends any.
- The blocking activate does not set `ack_activation`, and the wrapper's
  non-blocking one takes the key from a buffer of its caller; `delete` is
  applied to an array in places. These are about storage the models do not have.
- wayPointMissionExample waits a fixed time for its takeoff; the model takes it to
  be long enough.
- AES, CRC tables, termios, parsing of the modem's answers, statistics of
  measurements, formatting and logging: arithmetic and I/O without shared state.
- Camera, gimbal and virtual RC calls send without waiting for anything.
- Manifold and Qt drivers: not built into this program.

## 6. Plan

Done in this order: MemoryPool and its proofs, CommandLink, AckDelivery,
StreamFilter, FlightTasks, DroneMission: from the memory under everything up to
the program; then RequestSessions and MobileCommands, Telemetry and SdkSession,
Missions, SetpointLoops; the proofs of CommandLink, RequestSessions,
MobileCommands, AckDelivery, FlightTasks, SetpointLoops and DroneMission; and last
those of StreamFilter, SdkSession and Missions, the refinement of AbstractPool and
`TransmitsAsAsked`.

What could follow, in order:

1. The callback thread in SdkSession, as far as the delete of the API.
2. Payloads in `encodeSendData` when callbacks on the read thread send while main
   does.
