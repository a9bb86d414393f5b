----------------------------- MODULE SdkSession -----------------------------
(* One session with the flight controller: version, activation, control,      *)
(* frequencies, and their end (LinuxSetup.cpp, LinuxCleanup.cpp and the calls *)
(* of DJI_API.cpp they make).  A blocking call sends a command, waits for any *)
(* ACK or its timeout, and reads the one ACK union; the callbacks of the      *)
(* non-blocking calls get the ACK of their own command.                       *)
(*                                                                            *)
(* setup starts the read thread only, so that nothing is sent twice.  An ACK  *)
(* that is lost is one that stays on its way for ever.                        *)
EXTENDS Telemetry

CONSTANTS Setups,      \* what surrounds the session, see setup
          MaxRunning,  \* bound: requests for control answered "running"
          MaxSent      \* bound: commands sent

ASSUME SessionAssumption == MaxRunning \in Nat /\ MaxSent \in Nat

VARIABLES setup,    \* never changes: the aircraft (craft), whether messages and ACKs
                    \* may be later than the timeout (late), whether the callbacks are
                    \* used (callbacks), those of the wrapper in place of CoreAPI's
                    \* (wrapper), whether setup validates the port (x86), whether
                    \* control is encrypted (encrypt), what the flight controller may
                    \* answer (activation, obtain, release), and what the union holds
                    \* before the first ACK (junk)
          fc,       \* flight controller: [active, control, rates, running]
          air,      \* commands on their way: [n, kind, arg, handler]
          acks,     \* ACKs on their way: [n, kind, code, handler]
          union,    \* missionACKUnion: simpleACK, and whether a version lies behind it
          known,    \* versionData: hw and fw
          key,      \* filter.encode
          caller,   \* main: [at, woken, inner], inner inside a nested takeControl
          sent,     \* commands sent so far
          result    \* what setup returned, 0 before

session == <<known, key, caller, result>>
vars == <<setup, fc, air, acks, union, session, sent>>

\* Values of ACK_ACTIVE_CODE, ACK_SETCONTROL_CODE and ACK_COMMON_CODE.
Success         == 0
VersionError    == 8
ErrorMode       == 0
ReleaseSuccess  == 1
ObtainSuccess   == 2
ObtainRunning   == 3
ReleaseRunning  == 4
NeedModeP       == 5
NeedModeF       == 6
InIOC           == 201
NoAuthorization == 65281

\* An aircraft reports the version it has, and has one from before 3.1 or a later one.
ASSUME CraftAssumption ==
  \A s \in Setups : /\ s.craft.hw # "" /\ s.craft.fw \in Nat \ {0}
                    /\ Firmware(s.craft.hw, s.craft.reports) = s.craft.fw
                    /\ IF s.craft.old THEN s.craft.fw < MakeVersion(3, 1, 0, 0)
                                      ELSE s.craft.fw > MakeVersion(3, 1, 0, 0)

\* A flight controller that has accepted the program does not refuse it the release.
ASSUME ReleaseAssumption ==
  \A s \in Setups : s.release \subseteq {ReleaseSuccess, ReleaseRunning}

Init == /\ setup \in Setups
        /\ fc = [active |-> FALSE, control |-> "rc", running |-> 0,
                 rates |-> Rates(setup.craft, DefaultTable(setup.craft.hw))]
        /\ air = {} /\ acks = {} /\ sent = 0
        /\ union = [code |-> setup.junk, text |-> FALSE]
        /\ known = Unknown /\ key = FALSE /\ result = 0
        /\ caller = [at |-> "start", woken |-> FALSE, inner |-> FALSE]

-----------------------------------------------------------------------------
(* Flight controller and line *)

Answer(m, code) == /\ air' = air \ {m}
                   /\ acks' = acks \cup {[n |-> m.n, kind |-> m.kind, code |-> code,
                                          handler |-> m.handler]}
                   /\ UNCHANGED <<setup, union, session, sent>>

FcVersion(m) == /\ m.kind = "version" /\ Answer(m, Success) /\ UNCHANGED fc

FcActivate(m) == /\ m.kind = "activate"
                 /\ \E code \in setup.activation \cup {VersionError} :
                      /\ (code = VersionError) <=> (m.arg # setup.craft.fw)
                      /\ Answer(m, code)
                      /\ fc' = [fc EXCEPT !.active = @ \/ code = Success]

FcObtain(m) == /\ m.kind = "obtain"
               /\ \E code \in setup.obtain \cup {NoAuthorization} :
                    /\ fc.active <=> code # NoAuthorization
                    /\ code = ObtainRunning => fc.running < MaxRunning
                    /\ Answer(m, code)
                    /\ fc' = [fc EXCEPT !.control = IF code = ObtainSuccess THEN "sdk" ELSE @,
                                        !.running = IF code = ObtainRunning THEN @ + 1 ELSE @]

FcRelease(m) == /\ m.kind = "release"
                /\ \E code \in setup.release \cup {NoAuthorization} :
                     /\ fc.active <=> code # NoAuthorization
                     /\ code = ReleaseRunning => fc.running < MaxRunning
                     /\ Answer(m, code)
                     /\ fc' = [fc EXCEPT !.control = IF code = ReleaseSuccess THEN "rc" ELSE @,
                                         !.running = IF code = ReleaseRunning THEN @ + 1 ELSE @]

FcFrequency(m) == /\ m.kind = "frequency" /\ Answer(m, Success)
                  /\ fc' = [fc EXCEPT !.rates = Rates(setup.craft, m.arg)]

\* The serial line keeps the order of commands, and may lose them.
FcStep == \E m \in air : /\ \A other \in air : m.n <= other.n
                         /\ FcVersion(m) \/ FcActivate(m) \/ FcObtain(m) \/ FcRelease(m) \/ FcFrequency(m)

Lose == /\ setup.late /\ \E m \in air : air' = air \ {m}
        /\ UNCHANGED <<setup, fc, acks, union, session, sent>>

\* send: what is to be encrypted without a key is not sent.
Send(kind, arg, handler) ==
  IF setup.encrypt /\ ~key /\ kind \in {"obtain", "release"}
  THEN UNCHANGED <<air, sent>>
  ELSE /\ sent < MaxSent /\ sent' = sent + 1
       /\ air' = air \cup {[n |-> sent', kind |-> kind, arg |-> arg, handler |-> handler]}

-----------------------------------------------------------------------------
(* The read thread: notifyCaller, and the callbacks *)

Parsed == [hw |-> setup.craft.hw, fw |-> Firmware(setup.craft.hw, setup.craft.reports)]

\* A short ACK overwrites the first bytes of the union only.
NotifyCaller(a) == /\ ~a.handler /\ acks' = acks \ {a}
                   /\ union' = [code |-> a.code, text |-> union.text \/ a.kind = "version"]
                   /\ caller' = [caller EXCEPT !.woken = TRUE]
                   /\ UNCHANGED <<setup, fc, air, known, key, result, sent>>

Handled(a, kind) == a.handler /\ a.kind = kind /\ acks' = acks \ {a}

VersionCallback(a) == /\ Handled(a, "version") /\ known' = Parsed
                      /\ UNCHANGED <<setup, fc, air, union, key, caller, result, sent>>

\* As if the callback looked into the union.
ActivateCallback_Union(a) == /\ ~setup.wrapper /\ Handled(a, "activate")
                             /\ key' = (key \/ union.code = Success)
                             /\ UNCHANGED <<setup, fc, air, union, known, caller, result, sent>>

\* CoreAPI::activateCallback looks into the frame of its own ACK.
ActivateCallback(a) == /\ ~setup.wrapper /\ Handled(a, "activate")
                       /\ key' = (key \/ a.code = Success)
                       /\ UNCHANGED <<setup, fc, air, union, known, caller, result, sent>>

\* What is said to be running is sent again.
ControlCallback(a) == /\ ~setup.wrapper
                      /\ \/ /\ Handled(a, "obtain")
                            /\ IF a.code = ObtainRunning THEN Send("obtain", 0, TRUE)
                               ELSE UNCHANGED <<air, sent>>
                         \/ /\ Handled(a, "release")
                            /\ IF a.code = ReleaseRunning THEN Send("release", 0, TRUE)
                               ELSE UNCHANGED <<air, sent>>
                      /\ UNCHANGED <<setup, fc, union, session>>

\* The wrapper's callbacks look into the union, where a later answer may be by then;
\* nothing else reads it between calls that do not wait.
Seen(a) == {a.code} \cup {b.code : b \in {b \in acks : b.n > a.n}}

\* Its activateCallback prints what it sees, and sets no key.
WrapperActivateCallback(a) == /\ setup.wrapper /\ Handled(a, "activate")
                              /\ UNCHANGED <<setup, fc, air, union, session, sent>>

TakeControlCallback(a) ==
  /\ setup.wrapper /\ Handled(a, "obtain")
  /\ \/ ObtainRunning \in Seen(a) /\ Send("obtain", 0, TRUE)
     \/ Seen(a) # {ObtainRunning} /\ UNCHANGED <<air, sent>>
  /\ UNCHANGED <<setup, fc, union, session>>

ReleaseControlCallback(a) ==
  /\ setup.wrapper /\ Handled(a, "release")
  /\ \/ ReleaseRunning \in Seen(a) /\ Send("release", 0, TRUE)
     \/ Seen(a) # {ReleaseRunning} /\ UNCHANGED <<air, sent>>
  /\ UNCHANGED <<setup, fc, union, session>>

WrapperCallback(a) == WrapperActivateCallback(a) \/ TakeControlCallback(a) \/ ReleaseControlCallback(a)

FrequencyCallback(a) == /\ Handled(a, "frequency")
                        /\ UNCHANGED <<setup, fc, air, union, session, sent>>

ReadStep == \E a \in acks : \/ NotifyCaller(a) \/ VersionCallback(a) \/ ActivateCallback(a)
                            \/ ControlCallback(a) \/ WrapperCallback(a) \/ FrequencyCallback(a)

-----------------------------------------------------------------------------
(* Blocking calls: the command is sent, and main waits *)

External == UNCHANGED <<setup, fc, acks>>
Goes(at) == caller' = [caller EXCEPT !.at = at, !.woken = FALSE]
Calls(from, kind, arg, to) == /\ caller.at = from /\ Goes(to)
                              /\ Send(kind, arg, FALSE)
                              /\ External /\ UNCHANGED <<union, key, result>>

\* wait ends with the ACK of any call, or with the timeout.
Returns(from) == /\ caller.at = from /\ (caller.woken \/ setup.late)
                 /\ External

\* getDroneVersion forgets the firmware and keeps the hardware.
GetVersion(from, to) == /\ Calls(from, "version", 0, to)
                        /\ known' = [known EXCEPT !.fw = 0]

\* It parses whatever lies in the union.
VersionReturns(from, to) == /\ Returns(from) /\ Goes(to)
                            /\ known' = IF union.text THEN Parsed ELSE [known EXCEPT !.fw = 0]
                            /\ UNCHANGED <<air, union, key, result, sent>>

-----------------------------------------------------------------------------
(* setup *)

\* validateSerialDevice, on a PC: the default callback takes the ACK of the probe,
\* and the port may bring nothing (or nothing of a drone).
Validate == /\ caller.at = "start" /\ ~setup.callbacks /\ setup.x86
            /\ Goes("connect") \/ Goes("probeFailed")
            /\ Send("frequency", Adjusted(known.hw, ProbeTable), TRUE)
            /\ External /\ UNCHANGED <<union, known, key, result>>

\* The default rates are asked for if nothing was read, not if it made no sense.
ValidateFails == /\ caller.at = "probeFailed" /\ Goes("failed") /\ result' = -1
                 /\ \/ Send("frequency", Adjusted(known.hw, DefaultTable(known.hw)), TRUE)
                    \/ UNCHANGED <<air, sent>>
                 /\ External /\ UNCHANGED <<union, known, key>>

Connect == \/ /\ caller.at = "start" /\ ~setup.callbacks /\ ~setup.x86
              /\ GetVersion("start", "version")
           \/ GetVersion("connect", "version")
           \/ VersionReturns("version", "activate")

\* activate asks for the version once more if it is unknown.
Activate == \/ known.fw = 0 /\ GetVersion("activate", "versionAgain")
            \/ VersionReturns("versionAgain", "sendActivate")
            \/ /\ known.fw # 0 /\ Calls("activate", "activate", known.fw, "activating")
               /\ UNCHANGED known
            \/ Calls("sendActivate", "activate", known.fw, "activating") /\ UNCHANGED known

ActivateReturns == /\ Returns("activating")
                   /\ IF union.code = Success
                      THEN key' = TRUE /\ Goes("control") /\ UNCHANGED result
                      ELSE Goes("failed") /\ result' = -1 /\ UNCHANGED key
                   /\ UNCHANGED <<air, union, known, sent>>

TakeControl == Calls("control", "obtain", 0, "obtaining") /\ UNCHANGED known

\* setControl replaces the old error code in the union, by the firmware it knows.
Rewritten == IF union.code # ErrorMode THEN union.code
             ELSE IF known.fw < MakeVersion(3, 2, 0, 0) THEN NeedModeF ELSE NeedModeP

ControlAnswered == /\ Returns("obtaining")
                   /\ union' = [union EXCEPT !.code = Rewritten]
                   /\ UNCHANGED <<air, known, key, sent>>

\* As if the answer to a request that is running were only waited for.
ControlRunning_Waits == /\ Rewritten = ObtainRunning /\ ControlAnswered
                        /\ Goes("obtaining") /\ UNCHANGED result

\* A request that is running is made again, by a takeControl whose result is lost.
ControlRunning == /\ Rewritten = ObtainRunning /\ ControlAnswered
                  /\ caller' = [at |-> "control", woken |-> FALSE, inner |-> TRUE]
                  /\ UNCHANGED result

\* Whatever is no refusal counts as success.
ControlReturns == /\ Rewritten # ObtainRunning /\ ControlAnswered
                  /\ IF Rewritten \in {NeedModeF, NeedModeP, InIOC} /\ ~caller.inner
                     THEN Goes("failed") /\ result' = -1
                     ELSE Goes("defaults") /\ result' = 1

-----------------------------------------------------------------------------
(* main after setup, and cleanup *)

\* setBroadcastFreqDefaults, after setup and again in cleanup.
SetDefaults(from, to) == /\ Calls(from, "frequency", Adjusted(known.hw, DefaultTable(known.hw)), to)
                         /\ UNCHANGED known
Passes(from, to) == Returns(from) /\ Goes(to) /\ UNCHANGED <<air, union, known, key, result, sent>>

Fly == \/ SetDefaults("defaults", "settingDefaults")
       \/ Passes("settingDefaults", "flying")

Close == \/ SetDefaults("flying", "closing")
         \/ Passes("closing", "release")

Release == /\ ~setup.callbacks /\ Calls("release", "release", 0, "releasing") /\ UNCHANGED known

\* As if a release that is running were enough.
ReleaseReturns_Running == /\ Returns("releasing") /\ union' = [union EXCEPT !.code = Rewritten]
                  /\ Goes("ended")
                  /\ UNCHANGED <<air, known, key, sent, result>>

\* A release that is running is asked for again.
ReleaseReturns == /\ Returns("releasing") /\ union' = [union EXCEPT !.code = Rewritten]
                  /\ Goes(IF Rewritten = ReleaseRunning THEN "release" ELSE "ended")
                  /\ UNCHANGED <<air, known, key, sent, result>>

-----------------------------------------------------------------------------
(* The calls with callbacks: main does not wait *)

Posts(from, kind, arg, to) == /\ setup.callbacks /\ caller.at = from /\ Goes(to)
                              /\ Send(kind, arg, TRUE)
                              /\ External /\ UNCHANGED <<union, known, key, result>>

NonBlocking == \/ Posts("start", "version", 0, "activate")
               \/ known.fw # 0 /\ Posts("activate", "activate", known.fw, "control")
               \/ Posts("control", "obtain", 0, "flying")
               \/ Posts("release", "release", 0, "ended")

\* activate returns without sending if the version is unknown.
ActivateTooEarly == /\ setup.callbacks /\ caller.at = "activate" /\ known.fw = 0
                    /\ Goes("failed")
                    /\ External /\ UNCHANGED <<air, union, known, key, result, sent>>

-----------------------------------------------------------------------------
Blocking == ~setup.callbacks /\ (Connect \/ Activate \/ TakeControl)
MainStep == \/ Validate \/ ValidateFails \/ Blocking \/ ActivateReturns
            \/ ControlRunning \/ ControlReturns \/ Fly \/ Close
            \/ Release \/ ReleaseReturns \/ NonBlocking \/ ActivateTooEarly

Next == FcStep \/ Lose \/ ReadStep \/ MainStep

\* Main runs; the read thread too, and the flight controller answers, unless messages
\* may be late.
Fairness == /\ WF_vars(MainStep)
            /\ WF_vars(~setup.late /\ FcStep) /\ WF_vars(~setup.late /\ ReadStep)

Spec == Init /\ [][Next]_vars /\ Fairness
-----------------------------------------------------------------------------
(* Properties *)

Places == {"start", "connect", "probeFailed", "version", "activate", "versionAgain",
           "sendActivate", "activating", "control", "obtaining", "defaults",
           "settingDefaults", "flying", "closing", "release", "releasing", "ended", "failed"}

\* What is parsed, from a fresh or an old answer, is the aircraft's own version, with
\* the quirks of the firmwares undone, or nothing.
SessionTypeOK == /\ setup \in Setups /\ caller.at \in Places
                 /\ known.hw \in {"", setup.craft.hw} /\ known.fw \in {0, setup.craft.fw}
                 /\ known.fw # 0 => known.hw # ""
                 /\ sent \in 0 .. MaxSent /\ fc.running \in 0 .. MaxRunning
                 /\ result \in {-1, 0, 1}
                 /\ {m.n : m \in air} \cup {a.n : a \in acks} \subseteq 1 .. sent

\* What the program believes of its session is so.  Frames are encrypted with the
\* account's key only if the flight controller has accepted it: on a prompt line, and
\* with callbacks on any line.
BelievesTruly == /\ SessionTypeOK
                 /\ (~setup.late \/ setup.callbacks) /\ key => fc.active

\* On a prompt line a successful setup leaves an activated session behind, and every
\* broadcast from then on is taken apart as the aircraft put it together, whatever
\* fields it has.
Masks == SUBSET {1, 6, 7, 11} \cup {{1, 7, 8, 9, 10, 12}, {2, 8, 11, 14}, 1 .. 16, 3 .. 16}
DecodesRight == ~setup.late /\ result = 1 =>
                  /\ fc.active /\ key
                  /\ \A mask \in Masks : Decoded(known, mask) = Sent(setup.craft, mask)

\* After cleanup on a prompt line each field has its default rate again, on whichever
\* channel the aircraft has it.
FrequenciesRestored ==
  ~setup.late /\ ~setup.callbacks /\ caller.at = "ended" =>
     fc.rates = {<<f, DefaultRate[f]>> : f \in {Channels(setup.craft.hw)[i] : i \in DOMAIN Channels(setup.craft.hw)}}

\* On a prompt line the aircraft is not left under control of a program that was told
\* setup has failed, or that has cleaned up and was not refused the release.
NoControlLeft == ~setup.late /\ ~setup.callbacks /\ caller.at \in {"failed", "ended"}
                   => fc.control = "rc"

\* setup and cleanup return, unless an answer stays "running" for ever.
SessionEnds == ~setup.late => <>(caller.at \in {"failed", "ended"})
=============================================================================
