--------------------------- MODULE MobileCommands ---------------------------
(* Commands of the mobile device (parseFromMobileCallback of DJI_API.cpp and  *)
(* the polling loops of LinuxMobile.cpp): the read thread turns the data of a *)
(* request into a callback or a flag, and the thread that spins looks at the  *)
(* flags in a fixed order, clears the one it finds, executes the command and  *)
(* reports to the device.  What a command does to the aircraft is FlightTasks *)
(* and SdkSession; the reports are sends in session 0 and change nothing here.*)
EXTENDS RequestSessions

VARIABLES flags,     \* ids of the commands whose flag is TRUE
          pending,   \* commands received and not begun
          spin,      \* polling thread: [at, i, id], i its place in the order
          options    \* what the trajectory has enabled

mobileVars == <<flags, pending, spin, options>>
allVars == <<requestVars, mobileVars>>

\* Ids with a callback in CoreAPI, and those that only have a flag.
CallbackIds == (2 .. 11) \cup {13}
FlagIds     == {20, 21} \cup (24 .. 27) \cup (61 .. 69)

\* A flag that happens to be TRUE is a flag there is.
ASSUME MobileAssumption == \A x \in Setups : x.raised \subseteq (FlagIds \cup CallbackIds) \ {69}

\* Two ids share the flag of the precision mission.
Flag(id) == IF id = 69 THEN 24 ELSE id

Basic     == <<2, 3, 4, 7, 8, 5, 6, 9, 62, 65, 64, 20, 21>>
Precision == <<24, 25, 26, 27>>

\* The order of the tests in one turn of the loop; setup.spin says which is compiled
\* and called.
Order == IF setup.spin = "nonBlocking" THEN SubSeq(Basic, 1, 7)
         ELSE IF setup.spin = "precision" THEN Basic \o Precision ELSE Basic
Polled == {Order[i] : i \in DOMAIN Order}

\* init gives the flags no value: those in setup.raised happen to be TRUE.
MobileInit == /\ Init
              /\ flags = setup.raised /\ pending = {} /\ options = {}
              /\ spin = [at |-> IF setup.spin = "none" THEN "ended" ELSE "poll", i |-> 1, id |-> 0]

-----------------------------------------------------------------------------
(* recvReqData and parseFromMobileCallback, on the read thread *)

\* fromMobileCallback replaces the parser.
HearMobile == /\ Received("mobile")
              /\ reader' = Idle("reading")
              /\ LET id == reqs[reader.req].id IN
                 IF "mobile" \in setup.callbacks
                 THEN inbox' = inbox \cup {reader.req} /\ UNCHANGED <<flags, pending>>
                 ELSE /\ UNCHANGED inbox
                      /\ IF id \in FlagIds \cup CallbackIds /\ id \notin setup.commandCallbacks
                         THEN flags' = flags \cup {Flag(id)} /\ pending' = pending \cup {Flag(id)}
                         ELSE UNCHANGED <<flags, pending>>
              /\ UNCHANGED <<setup, fc, session, pool, app, spin, options>>

-----------------------------------------------------------------------------
(* mobileCommandSpin and mobileCommandSpinNonBlocking *)

Moves(at, i, id) == spin' = [at |-> at, i |-> i, id |-> id]
SpinOnly == UNCHANGED requestVars
Found(id) == spin.at = "poll" /\ spin.i \in DOMAIN Order /\ id = Order[spin.i] /\ id \in flags

TestNext == /\ spin.at = "poll" /\ spin.i \in DOMAIN Order /\ Order[spin.i] \notin flags
            /\ Moves("poll", spin.i + 1, 0)
            /\ SpinOnly /\ UNCHANGED <<flags, pending, options>>

\* The test and the clearing of a flag are two steps of the loop.
FindCommand(id) == /\ Found(id) /\ Moves("found", spin.i, id)
                   /\ SpinOnly /\ UNCHANGED <<flags, pending, options>>

\* As if the flag were cleared with the report, after the command.
BeginCommand_Later ==
                /\ spin.at = "found" /\ spin.id \notin 24 .. 27
                /\ UNCHANGED flags /\ pending' = pending \ {spin.id}
                /\ Moves("run", spin.i, spin.id)
                /\ SpinOnly /\ UNCHANGED options

\* The flag is cleared before the command is executed, which may take long; what the
\* device has asked for meanwhile is begun with it.
BeginCommand == /\ spin.at = "found" /\ spin.id \notin 24 .. 27
                /\ flags' = flags \ {spin.id} /\ pending' = pending \ {spin.id}
                /\ Moves("run", spin.i, spin.id)
                /\ SpinOnly /\ UNCHANGED options

EndCommand == /\ spin.at = "run" /\ Moves("poll", spin.i + 1, 0)
              /\ SpinOnly /\ UNCHANGED <<flags, pending, options>>

\* A precision mission is acknowledged first; it takes off if the status, as it was
\* last broadcast, is below 2.
BeginPrecision == /\ spin.at = "found" /\ spin.id \in 24 .. 27
                  /\ flags' = flags \ {spin.id} /\ pending' = pending \ {spin.id}
                  /\ \E at \in {"takeoff", "ready"} : Moves(at, spin.i, spin.id)
                  /\ SpinOnly /\ UNCHANGED options

\* As if a mission whose takeoff failed were tried again at once.
PrecisionTakeoff_Again == /\ spin.at = "takeoff"
                    /\ \/ Moves("ready", spin.i, spin.id) /\ UNCHANGED flags
                       \/ Moves("poll", 1, 0) /\ flags' = flags \cup {spin.id}
                    /\ SpinOnly /\ UNCHANGED <<pending, options>>

\* After a failed takeoff the loop starts again without its sleep and its count.
PrecisionTakeoff == /\ spin.at = "takeoff"
                    /\ \/ Moves("ready", spin.i, spin.id)
                       \/ Moves("poll", 1, 0)
                    /\ SpinOnly /\ UNCHANGED <<flags, pending, options>>

Wanted(id) == (IF id \in {25, 27} THEN {"avoidance"} ELSE {})
              \cup (IF id \in {26, 27} THEN {"lidar"} ELSE {})

Fly == /\ spin.at = "ready" /\ Moves("flying", spin.i, spin.id)
       /\ options' = options \cup Wanted(spin.id)
       /\ SpinOnly /\ UNCHANGED <<flags, pending>>

\* As if only the collision avoidance were taken back.
EndFlight_Half == /\ spin.at = "flying" /\ Moves("poll", spin.i + 1, 0)
                  /\ options' = options \ {"avoidance"}
                  /\ SpinOnly /\ UNCHANGED <<flags, pending>>

EndFlight == /\ spin.at = "flying" /\ Moves("poll", spin.i + 1, 0)
             /\ options' = options \ Wanted(spin.id)
             /\ SpinOnly /\ UNCHANGED <<flags, pending>>

\* The end of a turn: sleep, count, and leave the loop after 100000 turns, which
\* only a setup with setup.ends goes as far as.
NextTurn == /\ spin.at = "poll" /\ spin.i \notin DOMAIN Order
            /\ \/ Moves("poll", 1, 0)
               \/ setup.ends /\ Moves("ended", 1, 0)
            /\ SpinOnly /\ UNCHANGED <<flags, pending, options>>

SpinStep == \/ TestNext \/ BeginCommand \/ EndCommand \/ BeginPrecision \/ PrecisionTakeoff
            \/ Fly \/ EndFlight \/ NextTurn
            \/ \E id \in Polled : FindCommand(id)

-----------------------------------------------------------------------------
MobileNext == \/ Next /\ UNCHANGED mobileVars
              \/ HearMobile
              \/ SpinStep

MobileSpec == /\ MobileInit /\ [][MobileNext]_allVars
              /\ WF_allVars((ReadStep /\ UNCHANGED mobileVars) \/ HearMobile)
              /\ WF_allVars(AppStep /\ UNCHANGED mobileVars)
              /\ WF_allVars(SpinStep)
              /\ \A s \in Sessions : SF_allVars(Repeat(s) /\ UNCHANGED mobileVars)

-----------------------------------------------------------------------------
(* Properties *)

MobileTypeOK == /\ RequestTypeOK
                /\ flags \cup pending \subseteq (FlagIds \cup CallbackIds) \ {69}
                /\ spin.at \in {"poll", "found", "run", "takeoff", "ready", "flying", "ended"}
                /\ spin.i \in 1 .. Len(Order) + 1 /\ spin.id \in {0} \cup Polled
                /\ options \subseteq {"avoidance", "lidar"}

\* A command that arrives while the loop is busy, even with an earlier one of the
\* same id, is not forgotten: its flag is set until it is begun.  A trajectory is flown
\* with the options of its own command, not with those an earlier mission has left.
EachAsAsked == /\ MobileTypeOK
               /\ pending \subseteq flags
               /\ spin.at = "flying" => options = Wanted(spin.id)

\* Every command the loop polls for is begun, whatever fails in the commands before:
\* again and again none is left to begin.
EveryCommandBegun == ~setup.ends => []<>(pending \cap Polled = {})

\* If the flags start cleared, the loop executes only what the device asked for,
\* and once for each time it found it asked for.
OnlyWhatWasAsked ==
  [][setup.raised = {} => \A id \in Polled :
       spin'.id = id /\ spin.at = "found" => id \in pending]_allVars
=============================================================================
