------------------------- MODULE SdkSession_proofs --------------------------
(* The session, for every aircraft, any bound on what is sent, and whatever   *)
(* the flight controller answers: what the program believes of its session is *)
(* so, it takes apart every broadcast as the aircraft put it together, and    *)
(* cleanup leaves the default rates and no control behind.                    *)
EXTENDS SdkSession, SequenceTheorems, TLAPS

-----------------------------------------------------------------------------
(* The inductive invariant *)

FcTyped == /\ fc = [active |-> fc.active, control |-> fc.control, running |-> fc.running,
                    rates |-> fc.rates]
           /\ fc.active \in BOOLEAN /\ fc.running \in 0 .. MaxRunning
UnionTyped  == union = [code |-> union.code, text |-> union.text] /\ union.text \in BOOLEAN
KnownTyped  == /\ known \in [hw : {"", setup.craft.hw}, fw : {0, setup.craft.fw}]
               /\ known.fw # 0 => known.hw # ""
CallerTyped == /\ caller \in [at : Places, woken : BOOLEAN, inner : BOOLEAN]
               /\ key \in BOOLEAN /\ result \in {-1, 0, 1}
SentTyped   == /\ sent \in 0 .. MaxSent
               /\ \A m \in air \cup acks : m.n \in 1 .. sent /\ m.handler \in BOOLEAN

Typed == /\ setup \in Setups
         /\ FcTyped /\ UnionTyped /\ KnownTyped /\ CallerTyped /\ SentTyped

\* An activation is told to be accepted only if it is; with callbacks nothing else sets
\* the key.
Accepted == \A a \in acks : a.kind = "activate" /\ a.code = Success => fc.active
Posted   == setup.callbacks =>
              /\ caller.at \in {"start", "activate", "control", "flying", "closing", "release",
                                "ended", "failed"}
              /\ result = 0 /\ (key => fc.active)

\* The rest holds where no message is later than the timeout, and main waits.
OnTime == ~setup.late /\ ~setup.callbacks

\* What main waits for, where it waits.
KindOf(at) == IF at = "version" THEN "version"
              ELSE IF at = "activating" THEN "activate"
              ELSE IF at = "obtaining" THEN "obtain"
              ELSE IF at \in {"settingDefaults", "closing"} THEN "frequency"
              ELSE IF at = "releasing" THEN "release" ELSE "none"

\* It is the only command on its way, or its ACK is the only ACK, or that is in the union.
OnWay == \E m \in air : ~m.handler
Back  == \E a \in acks : ~a.handler
Alone == /\ \A m, o \in air : ~m.handler /\ ~o.handler => m = o
         /\ \A a, b \in acks : ~a.handler /\ ~b.handler => a = b
         /\ ~(OnWay /\ Back) /\ (caller.woken => ~OnWay /\ ~Back)
         /\ \A m \in air \cup acks : ~m.handler => m.kind = KindOf(caller.at) /\ m.kind # "none"

\* The flight controller is as the code of the ACK tells.
Rest(craft) == Rates(craft, Adjusted(craft.hw, DefaultTable(craft.hw)))
Told(code) ==
  /\ caller.at = "activating" /\ code = Success => fc.active
  /\ caller.at = "obtaining" /\ code # ObtainSuccess => fc.control = "rc"
  /\ caller.at = "releasing" => /\ code \in {ReleaseSuccess, ReleaseRunning}
                                /\ code = ReleaseSuccess => fc.control = "rc"
  /\ caller.at = "closing" => fc.rates = Rest(setup.craft)
Answers == /\ \A a \in acks : ~a.handler => Told(a.code)
           /\ caller.woken => Told(union.code) /\ (caller.at = "version" => union.text)
Asks == \A m \in air : ~m.handler =>
          /\ caller.at = "activating" => m.arg = setup.craft.fw
          /\ caller.at = "closing" => m.arg = Adjusted(setup.craft.hw, DefaultTable(setup.craft.hw))
          /\ caller.at = "obtaining" => fc.control = "rc"

\* The probe of validateSerialDevice is answered before main gets its first ACK.
Before == {"start", "connect", "probeFailed", "failed"}
Probe  == /\ \A m \in air \cup acks : m.handler => m.kind = "frequency"
          /\ \A h, m \in air : h.handler /\ ~m.handler => h.n < m.n
          /\ caller.at = "version" => OnWay \/ \A m \in air : ~m.handler
          /\ caller.at \notin Before \cup {"version"} => \A m \in air : ~m.handler

\* What is reached stays so.
Activated == {"control", "obtaining", "defaults", "settingDefaults", "flying", "closing",
              "release", "releasing", "ended"}
Reached ==
  /\ caller.at \notin {"versionAgain", "sendActivate"}
  /\ caller.at \in {"activate", "activating"} \cup Activated =>
       known.hw = setup.craft.hw /\ known.fw = setup.craft.fw
  /\ caller.at \in Activated => fc.active /\ key
  /\ key => fc.active
  /\ caller.at \in {"release", "releasing", "ended"} => fc.rates = Rest(setup.craft)
  /\ caller.at \in Before \cup {"version", "activate", "activating", "control", "ended"}
       => fc.control = "rc"
  /\ result = 1 => caller.at \in Activated \ {"control", "obtaining"}

Waiting == Alone /\ Answers /\ Asks /\ Probe /\ Reached

IInv == Typed /\ Accepted /\ Posted /\ (OnTime => Waiting)

-----------------------------------------------------------------------------
(* Types *)

LEMMA Craft ==
  ASSUME setup \in Setups
  PROVE  /\ setup.craft.hw # "" /\ setup.craft.fw \in Nat /\ setup.craft.fw # 0
         /\ Parsed = [hw |-> setup.craft.hw, fw |-> setup.craft.fw]
  BY CraftAssumption DEF Parsed

LEMMA Sending ==
  ASSUME SentTyped, NEW kind, NEW arg, NEW handler \in BOOLEAN, Send(kind, arg, handler)
  PROVE  /\ sent' \in 0 .. MaxSent /\ sent \in Nat /\ sent <= sent' /\ air \subseteq air'
         /\ \/ air' = air /\ sent' = sent /\ setup.encrypt /\ ~key /\ kind \in {"obtain", "release"}
            \/ /\ sent' = sent + 1
               /\ air' = air \cup {[n |-> sent + 1, kind |-> kind, arg |-> arg, handler |-> handler]}
<1>1. sent \in Nat /\ sent <= MaxSent /\ MaxSent \in Nat
  BY SessionAssumption DEF SentTyped
<1>2. QED BY <1>1 DEF Send

LEMMA SendTyped ==
  ASSUME SentTyped, NEW kind, NEW arg, NEW handler \in BOOLEAN, Send(kind, arg, handler),
         acks' \subseteq acks
  PROVE  SentTyped'
<1>1. /\ sent' \in 0 .. MaxSent /\ sent \in Nat /\ sent <= sent'
      /\ \/ air' = air /\ sent' = sent
         \/ /\ sent' = sent + 1
            /\ air' = air \cup {[n |-> sent + 1, kind |-> kind, arg |-> arg, handler |-> handler]}
  BY Sending
<1>2. ASSUME NEW m \in air' \cup acks' PROVE m.n \in 1 .. sent' /\ m.handler \in BOOLEAN
  <2>1. CASE m \in air \cup acks
    BY <1>1, <2>1 DEF SentTyped
  <2>2. CASE m = [n |-> sent + 1, kind |-> kind, arg |-> arg, handler |-> handler] /\ sent' = sent + 1
    <3>1. m.n = sent + 1 /\ m.handler = handler
      BY <2>2
    <3>2. QED BY <1>1, <2>2, <3>1
  <2>3. QED BY <1>1, <1>2, <2>1, <2>2
<1>3. QED BY <1>1, <1>2 DEF SentTyped

LEMMA KeepTyped ==
  ASSUME SentTyped, air' \subseteq air, acks' \subseteq acks, sent' = sent
  PROVE  SentTyped'
  BY DEF SentTyped

LEMMA FcStepTyped ==
  ASSUME Typed, NEW m \in air,
         FcVersion(m) \/ FcActivate(m) \/ FcObtain(m) \/ FcRelease(m) \/ FcFrequency(m)
  PROVE  Typed'
<1>1. FcTyped /\ SentTyped
  BY DEF Typed
<1>2. FcTyped'
  <2>1. CASE FcVersion(m)
    BY <1>1, <2>1 DEF FcVersion, FcTyped
  <2>2. CASE FcActivate(m)
    <3>1. PICK code : fc' = [fc EXCEPT !.active = @ \/ code = Success]
      BY <2>2 DEF FcActivate
    <3>2. QED BY <1>1, <3>1 DEF FcTyped
  <2>3. CASE FcObtain(m)
    <3>1. PICK code : /\ code = ObtainRunning => fc.running < MaxRunning
                      /\ fc' = [fc EXCEPT !.control = IF code = ObtainSuccess THEN "sdk" ELSE @,
                                          !.running = IF code = ObtainRunning THEN @ + 1 ELSE @]
      BY <2>3 DEF FcObtain
    <3>2. fc'.running \in 0 .. MaxRunning
      BY <1>1, <3>1, SessionAssumption DEF FcTyped
    <3>3. QED BY <1>1, <3>1, <3>2 DEF FcTyped
  <2>4. CASE FcRelease(m)
    <3>1. PICK code : /\ code = ReleaseRunning => fc.running < MaxRunning
                      /\ fc' = [fc EXCEPT !.control = IF code = ReleaseSuccess THEN "rc" ELSE @,
                                          !.running = IF code = ReleaseRunning THEN @ + 1 ELSE @]
      BY <2>4 DEF FcRelease
    <3>2. fc'.running \in 0 .. MaxRunning
      BY <1>1, <3>1, SessionAssumption DEF FcTyped
    <3>3. QED BY <1>1, <3>1, <3>2 DEF FcTyped
  <2>5. CASE FcFrequency(m)
    BY <1>1, <2>5 DEF FcFrequency, FcTyped
  <2>6. QED BY <2>1, <2>2, <2>3, <2>4, <2>5
<1>3. PICK code : Answer(m, code)
  BY DEF FcVersion, FcActivate, FcObtain, FcRelease, FcFrequency
<1>4. /\ air' = air \ {m} /\ sent' = sent /\ setup' = setup /\ union' = union
      /\ known' = known /\ key' = key /\ caller' = caller /\ result' = result
      /\ acks' = acks \cup {[n |-> m.n, kind |-> m.kind, code |-> code, handler |-> m.handler]}
  BY <1>3 DEF Answer, session
<1>5. SentTyped'
  <2>1. ASSUME NEW a \in air' \cup acks' PROVE a.n \in 1 .. sent' /\ a.handler \in BOOLEAN
    <3>1. CASE a \in air \cup acks
      BY <1>1, <1>4, <3>1 DEF SentTyped
    <3>2. CASE a = [n |-> m.n, kind |-> m.kind, code |-> code, handler |-> m.handler]
      BY <1>1, <1>4, <3>2 DEF SentTyped
    <3>3. QED BY <1>4, <2>1, <3>1, <3>2
  <2>2. QED BY <1>1, <1>4, <2>1 DEF SentTyped
<1>6. QED BY <1>2, <1>4, <1>5 DEF Typed, UnionTyped, KnownTyped, CallerTyped

LEMMA ReadStepTyped ==
  ASSUME Typed, NEW a \in acks,
         \/ NotifyCaller(a) \/ VersionCallback(a) \/ ActivateCallback(a)
         \/ ControlCallback(a) \/ WrapperCallback(a) \/ FrequencyCallback(a)
  PROVE  Typed'
<1>1. /\ setup \in Setups /\ FcTyped /\ UnionTyped /\ KnownTyped /\ CallerTyped /\ SentTyped
  BY DEF Typed
<1>2. CASE NotifyCaller(a)
  <2>1. /\ acks' = acks \ {a} /\ union' = [code |-> a.code, text |-> union.text \/ a.kind = "version"]
        /\ caller' = [caller EXCEPT !.woken = TRUE]
        /\ UNCHANGED <<setup, fc, air, known, key, result, sent>>
    BY <1>2 DEF NotifyCaller
  <2>2. UnionTyped' /\ CallerTyped'
    BY <1>1, <2>1 DEF UnionTyped, CallerTyped
  <2>3. SentTyped'
    BY <1>1, <2>1, KeepTyped
  <2>4. QED BY <1>1, <2>1, <2>2, <2>3 DEF Typed, FcTyped, KnownTyped
<1>3. CASE VersionCallback(a)
  <2>1. acks' = acks \ {a} /\ known' = Parsed /\ UNCHANGED <<setup, fc, air, union, key, caller, result, sent>>
    BY <1>3 DEF VersionCallback, Handled
  <2>2. KnownTyped'
    <3>1. known' = [hw |-> setup.craft.hw, fw |-> setup.craft.fw] /\ setup.craft.hw # ""
      BY <1>1, <2>1, Craft
    <3>2. setup' = setup
      BY <2>1
    <3>3. QED BY <3>1, <3>2 DEF KnownTyped
  <2>3. SentTyped'
    BY <1>1, <2>1, KeepTyped
  <2>4. QED BY <1>1, <2>1, <2>2, <2>3 DEF Typed, FcTyped, UnionTyped, CallerTyped
<1>4. CASE ActivateCallback(a)
  <2>1. /\ acks' = acks \ {a} /\ key' = (key \/ a.code = Success)
        /\ UNCHANGED <<setup, fc, air, union, known, caller, result, sent>>
    BY <1>4 DEF ActivateCallback, Handled
  <2>2. CallerTyped'
    BY <1>1, <2>1 DEF CallerTyped
  <2>3. SentTyped'
    BY <1>1, <2>1, KeepTyped
  <2>4. QED BY <1>1, <2>1, <2>2, <2>3 DEF Typed, FcTyped, UnionTyped, KnownTyped
<1>5. CASE ControlCallback(a) \/ WrapperCallback(a) \/ FrequencyCallback(a)
  <2>1. acks' = acks \ {a} /\ UNCHANGED <<setup, fc, union, known, key, caller, result>>
    BY <1>5 DEF ControlCallback, FrequencyCallback, WrapperCallback, WrapperActivateCallback,
                TakeControlCallback, ReleaseControlCallback, Handled, session
  <2>2. \/ UNCHANGED <<air, sent>> \/ Send("obtain", 0, TRUE) \/ Send("release", 0, TRUE)
    BY <1>5 DEF ControlCallback, FrequencyCallback, WrapperCallback, WrapperActivateCallback,
                TakeControlCallback, ReleaseControlCallback
  <2>3. SentTyped'
    <3>1. acks' \subseteq acks
      BY <2>1
    <3>2. CASE UNCHANGED <<air, sent>>
      BY <1>1, <3>1, <3>2, KeepTyped
    <3>3. CASE Send("obtain", 0, TRUE) \/ Send("release", 0, TRUE)
      BY <1>1, <3>1, <3>3, SendTyped
    <3>4. QED BY <2>2, <3>2, <3>3
  <2>4. QED BY <1>1, <2>1, <2>3 DEF Typed, FcTyped, UnionTyped, KnownTyped, CallerTyped
<1>6. QED BY <1>2, <1>3, <1>4, <1>5

\* What a step of main can change.
Move(at) == caller' = [caller EXCEPT !.at = at, !.woken = FALSE]
Changes ==
  /\ setup' = setup /\ fc' = fc /\ acks' = acks
  /\ \/ UNCHANGED <<air, sent>>
     \/ \E kind, arg : \E handler \in BOOLEAN : Send(kind, arg, handler)
  /\ union' = union \/ union' = [union EXCEPT !.code = Rewritten]
  /\ known' = known \/ known' = [known EXCEPT !.fw = 0] \/ known' = Parsed
  /\ \/ \E at \in Places : Move(at)
     \/ caller' = [at |-> "control", woken |-> FALSE, inner |-> TRUE]
  /\ key' = key \/ key' = TRUE
  /\ result' \in {result, -1, 1}

LEMMA CallsChange ==
  ASSUME NEW from, NEW kind, NEW arg, NEW to \in Places, Calls(from, kind, arg, to),
         known' = known \/ known' = [known EXCEPT !.fw = 0]
  PROVE  Changes
<1>1. Move(to)
  BY DEF Calls, Goes, Move
<1>2. /\ setup' = setup /\ fc' = fc /\ acks' = acks /\ union' = union /\ key' = key /\ result' = result
      /\ Send(kind, arg, FALSE)
  BY DEF Calls, External
<1>3. \E k, a : \E handler \in BOOLEAN : Send(k, a, handler)
  BY <1>2
<1>4. QED BY <1>1, <1>2, <1>3 DEF Changes

LEMMA PostsChange ==
  ASSUME NEW from, NEW kind, NEW arg, NEW to \in Places, Posts(from, kind, arg, to)
  PROVE  Changes
<1>1. Move(to)
  BY DEF Posts, Goes, Move
<1>2. /\ setup' = setup /\ fc' = fc /\ acks' = acks /\ union' = union /\ key' = key /\ result' = result
      /\ known' = known /\ Send(kind, arg, TRUE)
  BY DEF Posts, External
<1>3. \E k, a : \E handler \in BOOLEAN : Send(k, a, handler)
  BY <1>2
<1>4. QED BY <1>1, <1>2, <1>3 DEF Changes

LEMMA MainChanges ==
  ASSUME MainStep
  PROVE  Changes
<1>1. CASE Validate
  <2>1. PICK at \in {"connect", "probeFailed"} : Move(at)
    BY <1>1 DEF Validate, Goes, Move
  <2>2. \E k, a : \E handler \in BOOLEAN : Send(k, a, handler)
    BY <1>1 DEF Validate
  <2>3. at \in Places
    BY DEF Places
  <2>4. QED BY <1>1, <2>1, <2>2, <2>3 DEF Validate, External, Changes
<1>2. CASE ValidateFails
  <2>1. Move("failed") /\ "failed" \in Places
    BY <1>2 DEF ValidateFails, Goes, Move, Places
  <2>2. UNCHANGED <<air, sent>> \/ \E k, a : \E handler \in BOOLEAN : Send(k, a, handler)
    BY <1>2 DEF ValidateFails
  <2>3. QED BY <1>2, <2>1, <2>2 DEF ValidateFails, External, Changes
<1>3. ASSUME NEW from, NEW to \in Places, GetVersion(from, to) PROVE Changes
  BY <1>3, CallsChange DEF GetVersion
<1>4. ASSUME NEW from, NEW to \in Places, VersionReturns(from, to) PROVE Changes
  <2>1. Move(to)
    BY <1>4 DEF VersionReturns, Goes, Move
  <2>2. known' = Parsed \/ known' = [known EXCEPT !.fw = 0]
    BY <1>4 DEF VersionReturns
  <2>3. QED BY <1>4, <2>1, <2>2 DEF VersionReturns, Returns, External, Changes
<1>5. ASSUME NEW from, NEW kind, NEW arg, NEW to \in Places, Calls(from, kind, arg, to),
             UNCHANGED known
      PROVE  Changes
  BY <1>5, CallsChange
<1>6. /\ "version" \in Places /\ "activate" \in Places /\ "versionAgain" \in Places
      /\ "sendActivate" \in Places /\ "activating" \in Places /\ "control" \in Places
      /\ "obtaining" \in Places /\ "settingDefaults" \in Places /\ "flying" \in Places
      /\ "closing" \in Places /\ "release" \in Places /\ "releasing" \in Places
      /\ "ended" \in Places /\ "failed" \in Places /\ "defaults" \in Places
  BY DEF Places
<1>7. CASE Blocking
  BY <1>3, <1>4, <1>5, <1>6, <1>7 DEF Blocking, Connect, Activate, TakeControl
<1>8. CASE ActivateReturns
  <2>1. /\ \/ key' = TRUE /\ Goes("control") /\ UNCHANGED result
           \/ Goes("failed") /\ result' = -1 /\ UNCHANGED key
        /\ UNCHANGED <<air, union, known, sent>> /\ External
    BY <1>8 DEF ActivateReturns, Returns
  <2>2. Move("control") \/ Move("failed")
    BY <2>1 DEF Goes, Move
  <2>3. QED BY <1>6, <2>1, <2>2 DEF External, Changes
<1>9. CASE ControlRunning
  BY <1>9 DEF ControlRunning, ControlAnswered, Returns, External, Changes
<1>10. CASE ControlReturns
  <2>1. /\ (Goes("failed") /\ result' = -1) \/ (Goes("defaults") /\ result' = 1)
        /\ union' = [union EXCEPT !.code = Rewritten]
        /\ UNCHANGED <<air, known, key, sent>> /\ External
    BY <1>10 DEF ControlReturns, ControlAnswered, Returns
  <2>2. Move("failed") \/ Move("defaults")
    BY <2>1 DEF Goes, Move
  <2>3. QED BY <1>6, <2>1, <2>2 DEF External, Changes
<1>11. ASSUME NEW from, NEW to \in Places, Passes(from, to) PROVE Changes
  <2>1. Move(to)
    BY <1>11 DEF Passes, Goes, Move
  <2>2. QED BY <1>11, <2>1 DEF Passes, Returns, External, Changes
<1>12. CASE Fly \/ Close
  BY <1>5, <1>6, <1>11, <1>12 DEF Fly, Close, SetDefaults
<1>13. CASE Release
  BY <1>5, <1>6, <1>13 DEF Release
<1>14. CASE ReleaseReturns
  <2>1. PICK at \in {"release", "ended"} : Goes(at)
    BY <1>14 DEF ReleaseReturns
  <2>2. at \in Places /\ Move(at)
    BY <1>6, <2>1 DEF Goes, Move
  <2>3. QED BY <1>14, <2>2 DEF ReleaseReturns, Returns, External, Changes
<1>15. CASE NonBlocking
  BY <1>6, <1>15, PostsChange DEF NonBlocking
<1>16. CASE ActivateTooEarly
  <2>1. Move("failed")
    BY <1>16 DEF ActivateTooEarly, Goes, Move
  <2>2. QED BY <1>6, <1>16, <2>1 DEF ActivateTooEarly, External, Changes
<1>17. QED BY <1>1, <1>2, <1>7, <1>8, <1>9, <1>10, <1>12, <1>13, <1>14, <1>15, <1>16 DEF MainStep

LEMMA MainStepTyped ==
  ASSUME Typed, Changes
  PROVE  Typed'
<1>1. /\ setup \in Setups /\ FcTyped /\ UnionTyped /\ KnownTyped /\ CallerTyped /\ SentTyped
  BY DEF Typed
<1>2. setup' = setup /\ fc' = fc /\ acks' = acks
  BY DEF Changes
<1>3. UnionTyped'
  BY <1>1 DEF Changes, UnionTyped
<1>4. KnownTyped'
  <2>1. CASE known' = known
    BY <1>1, <1>2, <2>1 DEF KnownTyped
  <2>2. CASE known' = [known EXCEPT !.fw = 0]
    BY <1>1, <1>2, <2>2 DEF KnownTyped
  <2>3. CASE known' = Parsed
    <3>1. known' = [hw |-> setup.craft.hw, fw |-> setup.craft.fw] /\ setup.craft.hw # ""
      BY <1>1, <2>3, Craft
    <3>2. QED BY <1>2, <3>1 DEF KnownTyped
  <2>4. QED BY <2>1, <2>2, <2>3 DEF Changes
<1>5. CallerTyped'
  <2>1. caller' \in [at : Places, woken : BOOLEAN, inner : BOOLEAN]
    <3>1. CASE \E at \in Places : Move(at)
      BY <1>1, <3>1 DEF CallerTyped, Move
    <3>2. CASE caller' = [at |-> "control", woken |-> FALSE, inner |-> TRUE]
      BY <3>2 DEF Places
    <3>3. QED BY <3>1, <3>2 DEF Changes
  <2>2. key' \in BOOLEAN
    BY <1>1 DEF Changes, CallerTyped
  <2>3. result' \in {-1, 0, 1}
    BY <1>1 DEF Changes, CallerTyped
  <2>4. QED BY <2>1, <2>2, <2>3 DEF CallerTyped
<1>6. SentTyped'
  <2>1. CASE UNCHANGED <<air, sent>>
    BY <1>1, <1>2, <2>1, KeepTyped
  <2>2. CASE \E kind, arg : \E handler \in BOOLEAN : Send(kind, arg, handler)
    BY <1>1, <1>2, <2>2, SendTyped
  <2>3. QED BY <2>1, <2>2 DEF Changes
<1>7. QED BY <1>1, <1>2, <1>3, <1>4, <1>5, <1>6 DEF Typed, FcTyped

-----------------------------------------------------------------------------
(* Acceptance, and the calls with callbacks *)

LEMMA FcStepAccepts ==
  ASSUME Typed, Accepted, NEW m \in air,
         FcVersion(m) \/ FcActivate(m) \/ FcObtain(m) \/ FcRelease(m) \/ FcFrequency(m)
  PROVE  Accepted' /\ (fc.active => fc'.active)
<1>1. FcTyped
  BY DEF Typed
<1>2. CASE FcActivate(m)
  <2>1. PICK code : /\ acks' = acks \cup {[n |-> m.n, kind |-> m.kind, code |-> code,
                                            handler |-> m.handler]}
                    /\ fc' = [fc EXCEPT !.active = @ \/ code = Success]
    BY <1>2 DEF FcActivate, Answer
  <2>2. fc'.active <=> (fc.active \/ code = Success)
    BY <1>1, <2>1 DEF FcTyped
  <2>3. QED BY <2>1, <2>2 DEF Accepted
<1>3. CASE FcVersion(m) \/ FcObtain(m) \/ FcRelease(m) \/ FcFrequency(m)
  <2>1. m.kind # "activate"
    BY <1>3 DEF FcVersion, FcObtain, FcRelease, FcFrequency
  <2>2. PICK code : acks' = acks \cup {[n |-> m.n, kind |-> m.kind, code |-> code,
                                        handler |-> m.handler]}
    BY <1>3 DEF FcVersion, FcObtain, FcRelease, FcFrequency, Answer
  <2>3. fc'.active = fc.active
    BY <1>1, <1>3 DEF FcTyped, FcVersion, FcObtain, FcRelease, FcFrequency
  <2>4. QED BY <2>1, <2>2, <2>3 DEF Accepted
<1>4. QED BY <1>2, <1>3

LEMMA KeepAccepted ==
  ASSUME Accepted, acks' \subseteq acks, fc' = fc
  PROVE  Accepted'
  BY DEF Accepted

LEMMA ReadStepPosts ==
  ASSUME Typed, Accepted, Posted, NEW a \in acks,
         \/ NotifyCaller(a) \/ VersionCallback(a) \/ ActivateCallback(a)
         \/ ControlCallback(a) \/ WrapperCallback(a) \/ FrequencyCallback(a)
  PROVE  Accepted' /\ Posted'
<1>1. /\ acks' \subseteq acks /\ fc' = fc /\ setup' = setup /\ result' = result
      /\ caller' = caller \/ caller' = [caller EXCEPT !.woken = TRUE]
  BY DEF NotifyCaller, VersionCallback, ActivateCallback, ControlCallback, FrequencyCallback,
         WrapperCallback, WrapperActivateCallback,
         TakeControlCallback, ReleaseControlCallback,
         Handled, session
<1>2. caller'.at = caller.at
  BY <1>1 DEF Typed, CallerTyped
<1>3. key' => (key \/ fc.active)
  <2>1. CASE ActivateCallback(a)
    BY <2>1 DEF ActivateCallback, Handled, Accepted
  <2>2. CASE \/ NotifyCaller(a) \/ VersionCallback(a) \/ ControlCallback(a)
            \/ WrapperCallback(a) \/ FrequencyCallback(a)
    BY <2>2 DEF NotifyCaller, VersionCallback, ControlCallback, FrequencyCallback,
                WrapperCallback, WrapperActivateCallback,
                TakeControlCallback, ReleaseControlCallback, session
  <2>3. QED BY <2>1, <2>2
<1>4. QED BY <1>1, <1>2, <1>3, KeepAccepted DEF Posted

\* With callbacks main only sends, and passes through few places.
LEMMA MainStepPosts ==
  ASSUME Typed, Posted, setup.callbacks, MainStep
  PROVE  Posted'
<1>1. /\ setup' = setup /\ fc' = fc
      /\ caller \in [at : Places, woken : BOOLEAN, inner : BOOLEAN]
  BY MainChanges DEF Changes, Typed, CallerTyped
<1>2. /\ caller.at \in {"start", "activate", "control", "flying", "closing", "release",
                        "ended", "failed"}
      /\ result = 0 /\ (key => fc.active)
  BY DEF Posted
<1>3. ~Validate /\ ~ValidateFails /\ ~Blocking /\ ~Release
  BY <1>2 DEF Validate, ValidateFails, Blocking, Release
<1>4. ~ActivateReturns /\ ~ControlRunning /\ ~ControlReturns /\ ~ReleaseReturns
  BY <1>2 DEF ActivateReturns, ControlRunning, ControlReturns, ControlAnswered, ReleaseReturns, Returns
<1>5. CASE Fly \/ Close
  <2>1. /\ caller'.at \in {"closing", "release"}
        /\ key' = key /\ result' = result
    BY <1>1, <1>2, <1>5 DEF Fly, Close, SetDefaults, Calls, Passes, Returns, Goes
  <2>2. QED BY <1>1, <1>2, <2>1 DEF Posted
<1>6. CASE NonBlocking \/ ActivateTooEarly
  <2>1. /\ caller'.at \in {"activate", "control", "flying", "ended", "failed"}
        /\ key' = key /\ result' = result
    BY <1>1, <1>6 DEF NonBlocking, Posts, ActivateTooEarly, Goes
  <2>2. QED BY <1>1, <1>2, <2>1 DEF Posted
<1>7. QED BY <1>3, <1>4, <1>5, <1>6 DEF MainStep

-----------------------------------------------------------------------------
(* What main waits for, on a prompt line *)

\* Where main does not wait, and once it is woken, nothing of its own is on its way.
LEMMA NothingOut ==
  ASSUME Waiting, caller.woken \/ KindOf(caller.at) = "none"
  PROVE  ~OnWay /\ ~Back
  BY DEF Waiting, Alone, OnWay, Back

\* Main goes on, or sends what it does not wait for.
LEMMA Idle ==
  ASSUME ~OnWay', ~Back', ~caller'.woken, caller'.at # "version",
         \A m \in air' \cup acks' : m.handler => m.kind = "frequency",
         caller'.at \notin Before => \A m \in air' : ~m.handler
  PROVE  Alone' /\ Answers' /\ Asks' /\ Probe'
<1>1. \A m \in air' \cup acks' : m.handler
  BY DEF OnWay, Back
<1>2. Alone'
  BY <1>1 DEF Alone, OnWay, Back
<1>3. Answers' /\ Asks'
  BY <1>1 DEF Answers, Asks
<1>4. Probe'
  BY <1>1 DEF Probe
<1>5. QED BY <1>2, <1>3, <1>4

\* Main sends a command and waits for its ACK.
LEMMA Asking ==
  ASSUME Typed, Waiting, ~OnWay, ~Back, NEW kind, NEW arg, NEW to,
         Send(kind, arg, FALSE), kind \in {"obtain", "release"} => key,
         setup' = setup, fc' = fc, acks' = acks,
         caller' = [caller EXCEPT !.at = to, !.woken = FALSE],
         kind = KindOf(to), kind # "none",
         to = "activating" => arg = setup.craft.fw,
         to = "closing" => arg = Adjusted(setup.craft.hw, DefaultTable(setup.craft.hw)),
         to = "obtaining" => fc.control = "rc",
         to # "version" => \A m \in air : ~m.handler
  PROVE  Alone' /\ Answers' /\ Asks' /\ Probe'
<1> DEFINE new == [n |-> sent + 1, kind |-> kind, arg |-> arg, handler |-> FALSE]
<1>1. air' = air \cup {new} /\ sent \in Nat
  BY Sending DEF Typed
<1>2. new.n = sent + 1 /\ new.kind = kind /\ new.arg = arg /\ ~new.handler
  OBVIOUS
<1>3. caller'.at = to /\ ~caller'.woken
  BY DEF Typed, CallerTyped
<1>4. (\A m \in air \cup acks : m.handler) /\ \A m \in air \cup acks : m.n \in 1 .. sent
  BY DEF OnWay, Back, Typed, SentTyped
<1>5. \A m \in air \cup acks : m.kind = "frequency"
  BY <1>4 DEF Waiting, Probe
<1> HIDE DEF new
<1>6. Alone'
  BY <1>1, <1>2, <1>3, <1>4 DEF Alone, OnWay, Back, KindOf
<1>7. Answers'
  BY <1>3, <1>4 DEF Answers
<1>8. Asks'
  BY <1>1, <1>2, <1>3, <1>4 DEF Asks
<1>9. Probe'
  <2>1. \A m \in air' \cup acks' : m.handler => m.kind = "frequency"
    BY <1>1, <1>2, <1>5
  <2>2. ASSUME NEW h \in air', NEW m \in air', h.handler, ~m.handler PROVE h.n < m.n
    <3>1. m = new /\ h \in air
      BY <1>1, <1>2, <1>4, <2>2
    <3>2. m.n = sent + 1 /\ h.n \in 1 .. sent
      BY <1>2, <1>4, <3>1
    <3>3. QED BY <1>1, <3>2
  <2>3. caller'.at = "version" => OnWay'
    BY <1>1, <1>2 DEF OnWay
  <2>4. caller'.at # "version" => \A m \in air' : ~m.handler
    BY <1>1, <1>2, <1>3
  <2>5. QED BY <2>1, <2>2, <2>3, <2>4 DEF Probe
<1>10. QED BY <1>6, <1>7, <1>8, <1>9

\* The answer to the probe changes nothing that main relies on.
LEMMA FcStepProbe ==
  ASSUME Typed, Waiting, NEW m \in air, m.handler,
         FcVersion(m) \/ FcActivate(m) \/ FcObtain(m) \/ FcRelease(m) \/ FcFrequency(m)
  PROVE  Waiting'
<1>1. m.kind = "frequency" /\ caller.at \in Before \cup {"version"}
  BY DEF Waiting, Probe
<1>2. FcFrequency(m)
  BY <1>1 DEF FcVersion, FcActivate, FcObtain, FcRelease
<1>3. PICK a : /\ a.kind = "frequency" /\ a.handler
               /\ air' = air \ {m} /\ acks' = acks \cup {a}
               /\ UNCHANGED <<setup, union, known, key, caller, result>>
  <2>1. PICK a : a = [n |-> m.n, kind |-> m.kind, code |-> Success, handler |-> m.handler]
    OBVIOUS
  <2>2. a.kind = "frequency" /\ a.handler
    BY <1>1, <2>1
  <2>3. QED BY <1>2, <2>1, <2>2 DEF FcFrequency, Answer, session
<1>4. fc'.active = fc.active /\ fc'.control = fc.control
  BY <1>2 DEF FcFrequency, Typed, FcTyped
<1>5. (OnWay' <=> OnWay) /\ (Back' <=> Back)
  BY <1>3 DEF OnWay, Back
<1>6. Alone'
  <2>1. \A x \in air' : x \in air
    BY <1>3
  <2>2. \A x \in acks' : ~x.handler => x \in acks
    BY <1>3
  <2>3. \A x \in air' \cup acks' : ~x.handler => x \in air \cup acks
    BY <2>1, <2>2
  <2>4. caller' = caller
    BY <1>3
  <2>5. QED BY <1>5, <2>1, <2>2, <2>3, <2>4 DEF Waiting, Alone
<1>7. Answers'
  BY <1>1, <1>3 DEF Waiting, Answers, Told, Before
<1>8. Asks'
  BY <1>1, <1>3 DEF Asks, Before
<1>9. Probe'
  <2>1. \A x \in air' \cup acks' : x.handler => x.kind = "frequency"
    BY <1>3 DEF Waiting, Probe
  <2>2. \A h, x \in air' : h.handler /\ ~x.handler => h.n < x.n
    BY <1>3 DEF Waiting, Probe
  <2>3. caller'.at = "version" => OnWay' \/ \A x \in air' : ~x.handler
    BY <1>3, <1>5 DEF Waiting, Probe
  <2>4. caller'.at \notin Before \cup {"version"} => \A x \in air' : ~x.handler
    BY <1>1, <1>3
  <2>5. QED BY <2>1, <2>2, <2>3, <2>4 DEF Probe
<1>10. Reached'
  BY <1>1, <1>3, <1>4 DEF Waiting, Reached, Before, Activated
<1>11. QED BY <1>6, <1>7, <1>8, <1>9, <1>10 DEF Waiting

\* The answer to a call of main: the flight controller is then as the ACK says.
LEMMA FcStepAnswers ==
  ASSUME Typed, Waiting, NEW m \in air, ~m.handler, \A other \in air : m.n <= other.n,
         FcVersion(m) \/ FcActivate(m) \/ FcObtain(m) \/ FcRelease(m) \/ FcFrequency(m)
  PROVE  Waiting'
<1>1. m.kind = KindOf(caller.at) /\ OnWay /\ ~Back /\ ~caller.woken
  BY DEF Waiting, Alone, OnWay
<1>2. PICK code : Answer(m, code)
                  /\ \/ FcVersion(m)
                     \/ /\ m.kind = "activate"
                        /\ fc' = [fc EXCEPT !.active = @ \/ code = Success]
                     \/ /\ m.kind = "obtain"
                        /\ \E running : fc' = [fc EXCEPT !.control = IF code = ObtainSuccess THEN "sdk" ELSE @,
                                                         !.running = running]
                     \/ /\ m.kind = "release" /\ code \in setup.release \cup {NoAuthorization}
                        /\ fc.active <=> code # NoAuthorization
                        /\ \E running : fc' = [fc EXCEPT !.control = IF code = ReleaseSuccess THEN "rc" ELSE @,
                                                         !.running = running]
                     \/ FcFrequency(m)
  BY DEF FcVersion, FcActivate, FcObtain, FcRelease, FcFrequency
<1> DEFINE a == [n |-> m.n, kind |-> m.kind, code |-> code, handler |-> m.handler]
<1>3. /\ a.kind = m.kind /\ ~a.handler /\ a.code = code
      /\ air' = air \ {m} /\ acks' = acks \cup {a}
      /\ UNCHANGED <<setup, union, known, key, caller, result>>
  BY <1>2 DEF Answer, session
<1> HIDE DEF a
<1>4. air' = {}
  <2>1. ASSUME NEW o \in air, o.handler PROVE FALSE
    <3>1. o.n < m.n /\ m.n <= o.n
      BY <2>1 DEF Waiting, Probe
    <3>2. o.n \in Int /\ m.n \in Int
      BY <2>1 DEF Typed, SentTyped
    <3>3. QED BY <3>1, <3>2
  <2>2. \A o \in air : o = m
    BY <2>1 DEF Waiting, Alone
  <2>3. QED BY <1>3, <2>2
<1>5. ~OnWay' /\ \A b \in acks' : ~b.handler => b = a
  BY <1>1, <1>3, <1>4 DEF OnWay, Back
<1>6. /\ m.kind = "version" <=> caller.at = "version"
      /\ m.kind = "activate" <=> caller.at = "activating"
      /\ m.kind = "obtain" <=> caller.at = "obtaining"
      /\ m.kind = "release" <=> caller.at = "releasing"
      /\ m.kind = "frequency" <=> caller.at \in {"settingDefaults", "closing"}
      /\ caller.at \in {"version", "activating", "obtaining", "releasing", "settingDefaults", "closing"}
  <2>1. m.kind # "none"
    BY DEF Waiting, Alone
  <2>2. QED BY <1>1, <2>1 DEF KindOf
<1>7. FcTyped
  BY DEF Typed
<1>8. /\ fc'.active <=> fc.active \/ (m.kind = "activate" /\ code = Success)
      /\ fc'.control = IF m.kind = "obtain" /\ code = ObtainSuccess THEN "sdk"
                       ELSE IF m.kind = "release" /\ code = ReleaseSuccess THEN "rc" ELSE fc.control
      /\ fc'.rates = IF m.kind = "frequency" THEN Rates(setup.craft, m.arg) ELSE fc.rates
  BY <1>2, <1>7 DEF FcVersion, FcFrequency, FcTyped
<1>9. Told(code)'
  <2>1. caller.at = "activating" /\ code = Success => fc'.active
    BY <1>6, <1>8
  <2>2. ASSUME caller.at = "obtaining", code # ObtainSuccess PROVE fc'.control = "rc"
    <3>1. fc.control = "rc"
      BY <2>2 DEF Waiting, Asks
    <3>2. QED BY <1>6, <1>8, <2>2, <3>1
  <2>3. ASSUME caller.at = "releasing"
        PROVE  /\ code \in {ReleaseSuccess, ReleaseRunning}
               /\ code = ReleaseSuccess => fc'.control = "rc"
    <3>1. fc.active
      BY <2>3 DEF Waiting, Reached, Activated
    <3>2. m.kind = "release"
      BY <1>6, <2>3
    <3>3. code \in setup.release
      BY <1>2, <3>1, <3>2 DEF FcVersion, FcFrequency
    <3>4. code \in {ReleaseSuccess, ReleaseRunning}
      BY <3>3, ReleaseAssumption DEF Typed
    <3>5. QED BY <1>8, <3>2, <3>4
  <2>4. ASSUME caller.at = "closing" PROVE fc'.rates = Rest(setup.craft)
    <3>1. m.arg = Adjusted(setup.craft.hw, DefaultTable(setup.craft.hw))
      BY <2>4 DEF Waiting, Asks
    <3>2. QED BY <1>6, <1>8, <2>4, <3>1 DEF Rest
  <2>5. caller' = caller /\ setup' = setup
    BY <1>3
  <2>6. QED BY <2>1, <2>2, <2>3, <2>4, <2>5 DEF Told
<1>10. Alone'
  <2>1. a.kind = KindOf(caller'.at) /\ a.kind # "none"
    BY <1>1, <1>3, <1>6
  <2>2. \A x \in air' \cup acks' : ~x.handler => x.kind = KindOf(caller'.at) /\ x.kind # "none"
    BY <1>4, <1>5, <2>1
  <2>3. \A x, y \in acks' : ~x.handler /\ ~y.handler => x = y
    BY <1>5
  <2>4. ~caller'.woken
    BY <1>1, <1>3
  <2>5. QED BY <1>4, <1>5, <2>2, <2>3, <2>4 DEF Alone
<1>11. Answers'
  <2>1. a.code = code /\ ~caller'.woken
    BY <1>1, <1>3
  <2>2. \A b \in acks' : ~b.handler => b.code = code
    BY <1>5, <2>1
  <2>3. QED BY <1>9, <2>1, <2>2 DEF Answers
<1>12. Asks' /\ Probe'
  <2>1. \A x \in acks' : x.handler => x.kind = "frequency"
    BY <1>3 DEF Waiting, Probe
  <2>2. QED BY <1>4, <2>1 DEF Asks, Probe
<1>13. Reached'
  BY <1>3, <1>6, <1>8 DEF Waiting, Reached, Before, Activated
<1>14. QED BY <1>10, <1>11, <1>12, <1>13 DEF Waiting

\* The ACK wakes main, or that of the probe is taken by the default callback.
LEMMA ReadStepWaits ==
  ASSUME Typed, Waiting, NEW a \in acks,
         \/ NotifyCaller(a) \/ VersionCallback(a) \/ ActivateCallback(a)
         \/ ControlCallback(a) \/ WrapperCallback(a) \/ FrequencyCallback(a)
  PROVE  Waiting'
<1>1. CASE NotifyCaller(a)
  <2>1. /\ ~a.handler /\ acks' = acks \ {a}
        /\ union' = [code |-> a.code, text |-> union.text \/ a.kind = "version"]
        /\ UNCHANGED <<setup, fc, air, known, key, result, sent>>
    BY <1>1 DEF NotifyCaller
  <2>2. caller'.at = caller.at /\ caller'.woken
    BY <1>1 DEF NotifyCaller, Typed, CallerTyped
  <2>3. a.kind = KindOf(caller.at) /\ Told(a.code)
    BY <2>1 DEF Waiting, Alone, Answers
  <2>4. (\A m \in air' : m.handler) /\ \A b \in acks' : b.handler
    BY <2>1 DEF Waiting, Alone, OnWay, Back
  <2>5. Alone'
    BY <2>4 DEF Alone, OnWay, Back
  <2>6. Answers'
    <3>1. Told(a.code)'
      BY <2>1, <2>2, <2>3 DEF Told
    <3>2. union'.code = a.code /\ (union'.text <=> union.text \/ a.kind = "version")
      BY <2>1
    <3>3. caller.at = "version" => union'.text
      BY <2>3, <3>2 DEF KindOf
    <3>4. Told(union.code)'
      BY <3>1, <3>2 DEF Told
    <3>5. QED BY <2>2, <2>4, <3>3, <3>4 DEF Answers
  <2>7. Asks' /\ Probe'
    BY <2>1, <2>2, <2>4 DEF Waiting, Asks, Probe, Alone, OnWay, Back
  <2>8. Reached'
    BY <2>1, <2>2 DEF Waiting, Reached
  <2>9. QED BY <2>5, <2>6, <2>7, <2>8 DEF Waiting
<1>2. CASE a.handler
  <2>1. a.kind = "frequency"
    BY <1>2 DEF Waiting, Probe
  <2>2. FrequencyCallback(a)
    BY <1>2, <2>1 DEF NotifyCaller, VersionCallback, ActivateCallback, ControlCallback, Handled,
            WrapperCallback, WrapperActivateCallback, TakeControlCallback, ReleaseControlCallback
  <2>3. acks' = acks \ {a} /\ UNCHANGED <<setup, fc, air, union, known, key, caller, result, sent>>
    BY <2>2 DEF FrequencyCallback, Handled, session
  <2>4. (OnWay' <=> OnWay) /\ (Back' <=> Back)
    BY <1>2, <2>3 DEF OnWay, Back
  <2>5. Alone'
    BY <2>3, <2>4 DEF Waiting, Alone
  <2>6. Answers' /\ Asks'
    BY <2>3 DEF Waiting, Answers, Told, Asks
  <2>7. Probe' /\ Reached'
    BY <2>3, <2>4 DEF Waiting, Probe, Reached
  <2>8. QED BY <2>5, <2>6, <2>7 DEF Waiting
<1>3. QED BY <1>1, <1>2 DEF VersionCallback, ActivateCallback, ControlCallback, FrequencyCallback,
                            WrapperCallback, WrapperActivateCallback,
                            TakeControlCallback, ReleaseControlCallback, Handled

-----------------------------------------------------------------------------
(* The steps of main on a prompt line *)

\* A call that main waits for.
LEMMA CallsWait ==
  ASSUME Typed, Waiting, NEW from, NEW kind, NEW arg, NEW to, Calls(from, kind, arg, to),
         KindOf(from) = "none", kind = KindOf(to), kind # "none",
         kind \in {"obtain", "release"} => key,
         to = "activating" => arg = setup.craft.fw,
         to = "closing" => arg = Adjusted(setup.craft.hw, DefaultTable(setup.craft.hw)),
         to = "obtaining" => fc.control = "rc",
         to # "version" => \A m \in air : ~m.handler
  PROVE  Alone' /\ Answers' /\ Asks' /\ Probe'
<1>1. /\ caller.at = from /\ Send(kind, arg, FALSE) /\ setup' = setup /\ fc' = fc /\ acks' = acks
      /\ caller' = [caller EXCEPT !.at = to, !.woken = FALSE]
  BY DEF Calls, Goes, External
<1>2. ~OnWay /\ ~Back
  BY <1>1, NothingOut
<1>3. QED BY <1>1, <1>2, Asking

\* Main goes on, with the ACK it waited for.
LEMMA ReturnsIdle ==
  ASSUME Typed, Waiting, OnTime, NEW from, Returns(from), UNCHANGED <<air, sent>>,
         ~caller'.woken, caller'.at # "version",
         caller.at \notin Before
  PROVE  /\ caller.at = from /\ Told(union.code) /\ (from = "version" => union.text)
         /\ fc' = fc /\ setup' = setup
         /\ Alone' /\ Answers' /\ Asks' /\ Probe'
<1>1. caller.at = from /\ caller.woken /\ setup' = setup /\ fc' = fc /\ acks' = acks /\ air' = air
  BY DEF Returns, External, OnTime
<1>2. ~OnWay /\ ~Back
  BY <1>1, NothingOut
<1>3. \A m \in air : ~m.handler
  BY <1>2 DEF Waiting, Probe
<1>4. \A m \in air' \cup acks' : m.handler => m.kind = "frequency"
  BY <1>1 DEF Waiting, Probe
<1>5. ~OnWay' /\ ~Back'
  BY <1>1, <1>2 DEF OnWay, Back
<1>6. Alone' /\ Answers' /\ Asks' /\ Probe'
  BY <1>1, <1>3, <1>4, <1>5, Idle
<1>7. QED BY <1>1, <1>6 DEF Waiting, Answers

LEMMA ValidateWaits ==
  ASSUME Typed, Waiting, Validate \/ ValidateFails
  PROVE  Waiting'
<1>1. /\ caller.at \in {"start", "probeFailed"} /\ caller'.at \in {"connect", "probeFailed", "failed"}
      /\ ~caller'.woken
      /\ setup' = setup /\ fc' = fc /\ acks' = acks /\ known' = known /\ key' = key
      /\ result' \in {result, -1}
  BY DEF Validate, ValidateFails, External, Goes, Typed, CallerTyped, Places
<1>2. UNCHANGED <<air, sent>> \/ \E arg : Send("frequency", arg, TRUE)
  BY DEF Validate, ValidateFails
<1>3. UNCHANGED <<air, sent>>
      \/ \E h : h.handler /\ h.kind = "frequency" /\ air' = air \cup {h}
  <2>1. ASSUME NEW arg, Send("frequency", arg, TRUE)
        PROVE  \E h : h.handler /\ h.kind = "frequency" /\ air' = air \cup {h}
    <3>1. PICK h : h = [n |-> sent + 1, kind |-> "frequency", arg |-> arg, handler |-> TRUE]
      OBVIOUS
    <3>2. air' = air \cup {h}
      BY <2>1, <3>1, Sending DEF Typed
    <3>3. h.handler /\ h.kind = "frequency"
      BY <3>1
    <3>4. QED BY <3>2, <3>3
  <2>2. QED BY <1>2, <2>1
<1>4. ~OnWay /\ ~Back
  BY <1>1, NothingOut DEF KindOf
<1>5. ~OnWay' /\ ~Back'
  BY <1>1, <1>3, <1>4 DEF OnWay, Back
<1>6. \A m \in air' \cup acks' : m.handler => m.kind = "frequency"
  BY <1>1, <1>3 DEF Waiting, Probe
<1>7. Alone' /\ Answers' /\ Asks' /\ Probe'
  BY <1>1, <1>5, <1>6, Idle DEF Before
<1>8. Reached'
  BY <1>1 DEF Waiting, Reached, Before, Activated
<1>9. QED BY <1>7, <1>8 DEF Waiting

LEMMA BlockingWaits ==
  ASSUME Typed, Waiting, OnTime, Blocking
  PROVE  Waiting'
<1>1. /\ known \in [hw : {"", setup.craft.hw}, fw : {0, setup.craft.fw}]
      /\ setup.craft.fw # 0 /\ Parsed = [hw |-> setup.craft.hw, fw |-> setup.craft.fw]
  BY Craft DEF Typed, KnownTyped
<1>2. ASSUME NEW from, NEW kind, NEW arg, NEW to, Calls(from, kind, arg, to)
      PROVE  /\ caller.at = from /\ caller'.at = to
             /\ setup' = setup /\ fc' = fc /\ key' = key /\ result' = result
  BY <1>2 DEF Calls, Goes, External, Typed, CallerTyped
<1>3. CASE GetVersion("start", "version") \/ GetVersion("connect", "version")
  <2>1. PICK from \in {"start", "connect"} : Calls(from, "version", 0, "version")
    BY <1>3 DEF GetVersion
  <2>2. Alone' /\ Answers' /\ Asks' /\ Probe'
    BY <2>1, CallsWait DEF KindOf
  <2>3. Reached'
    BY <1>2, <2>1 DEF Waiting, Reached, Before, Activated
  <2>4. QED BY <2>2, <2>3 DEF Waiting
<1>4. CASE VersionReturns("version", "activate")
  <2>1. /\ Returns("version") /\ UNCHANGED <<air, sent>> /\ key' = key /\ result' = result
        /\ caller'.at = "activate" /\ ~caller'.woken /\ caller.at = "version"
    BY <1>4 DEF VersionReturns, Returns, Goes, Typed, CallerTyped
  <2>2. /\ union.text /\ fc' = fc /\ setup' = setup
        /\ Alone' /\ Answers' /\ Asks' /\ Probe'
    BY <2>1, ReturnsIdle DEF Before
  <2>3. known'.hw = setup.craft.hw /\ known'.fw = setup.craft.fw
    BY <1>1, <1>4, <2>2 DEF VersionReturns
  <2>4. Reached'
    BY <2>1, <2>2, <2>3 DEF Waiting, Reached, Before, Activated
  <2>5. QED BY <2>2, <2>4 DEF Waiting
<1>5. CASE Calls("activate", "activate", known.fw, "activating") /\ UNCHANGED known
  <2>1. caller.at = "activate"
    BY <1>5 DEF Calls
  <2>2. known.fw = setup.craft.fw /\ \A m \in air : ~m.handler
    BY <2>1 DEF Waiting, Reached, Probe, Before
  <2>3. Alone' /\ Answers' /\ Asks' /\ Probe'
    BY <1>5, <2>2, CallsWait DEF KindOf
  <2>4. Reached'
    BY <1>2, <1>5 DEF Waiting, Reached, Before, Activated
  <2>5. QED BY <2>3, <2>4 DEF Waiting
<1>6. CASE TakeControl
  <2>1. Calls("control", "obtain", 0, "obtaining") /\ UNCHANGED known /\ caller.at = "control"
    BY <1>6 DEF TakeControl, Calls
  <2>2. key /\ fc.control = "rc" /\ \A m \in air : ~m.handler
    BY <2>1 DEF Waiting, Reached, Probe, Activated, Before
  <2>3. /\ KindOf("control") = "none" /\ KindOf("obtaining") = "obtain" /\ "obtain" # "none"
        /\ "obtaining" \notin {"activating", "closing", "version"}
    BY DEF KindOf
  <2>4. Alone' /\ Answers' /\ Asks' /\ Probe'
    BY <2>1, <2>2, <2>3, CallsWait
  <2>5. /\ caller'.at = "obtaining"
        /\ setup' = setup /\ fc' = fc /\ key' = key /\ known' = known /\ result' = result
    BY <1>2, <2>1
  <2>6. Reached'
    BY <2>1, <2>5 DEF Waiting, Reached, Before, Activated
  <2>7. QED BY <2>4, <2>6 DEF Waiting
<1>7. ASSUME known.fw = 0 PROVE ~GetVersion("activate", "versionAgain")
  BY <1>1, <1>7 DEF GetVersion, Calls, Waiting, Reached
<1>8. ~VersionReturns("versionAgain", "sendActivate")
      /\ ~Calls("sendActivate", "activate", known.fw, "activating")
  BY DEF VersionReturns, Returns, Calls, Waiting, Reached
<1>9. CASE Connect
  BY <1>3, <1>4, <1>9 DEF Connect
<1>10. CASE Activate
  BY <1>5, <1>7, <1>8, <1>10 DEF Activate
<1>11. QED BY <1>6, <1>9, <1>10 DEF Blocking

LEMMA ActivateReturnsWaits ==
  ASSUME Typed, Waiting, OnTime, ActivateReturns
  PROVE  Waiting'
<1>1. /\ Returns("activating") /\ UNCHANGED <<air, sent>> /\ known' = known
      /\ caller.at = "activating" /\ ~caller'.woken
      /\ \/ union.code = Success /\ key' = TRUE /\ caller'.at = "control" /\ result' = result
         \/ caller'.at = "failed" /\ result' = -1 /\ key' = key
  BY DEF ActivateReturns, Returns, Goes, Typed, CallerTyped
<1>2. /\ Told(union.code) /\ fc' = fc /\ setup' = setup
      /\ Alone' /\ Answers' /\ Asks' /\ Probe'
  BY <1>1, ReturnsIdle DEF Before
<1>3. union.code = Success => fc.active
  BY <1>1, <1>2 DEF Told
<1>4. Reached'
  BY <1>1, <1>2, <1>3 DEF Waiting, Reached, Before, Activated
<1>5. QED BY <1>2, <1>4 DEF Waiting

LEMMA ControlReturnsWaits ==
  ASSUME Typed, Waiting, OnTime, ControlRunning \/ ControlReturns
  PROVE  Waiting'
<1>1. /\ Returns("obtaining") /\ UNCHANGED <<air, sent>> /\ known' = known /\ key' = key
      /\ caller.at = "obtaining" /\ ~caller'.woken
      /\ \/ Rewritten = ObtainRunning /\ caller'.at = "control" /\ result' = result
         \/ /\ Rewritten \in {NeedModeF, NeedModeP, InIOC}
            /\ caller'.at = "failed" /\ result' = -1
         \/ caller'.at = "defaults" /\ result' = 1
  <2>1. /\ Returns("obtaining") /\ UNCHANGED <<air, sent>> /\ known' = known /\ key' = key
        /\ caller.at = "obtaining"
    BY DEF ControlRunning, ControlReturns, ControlAnswered, Returns
  <2>2. CASE ControlRunning
    <3>1. /\ Rewritten = ObtainRunning /\ result' = result
          /\ caller' = [at |-> "control", woken |-> FALSE, inner |-> TRUE]
      BY <2>2 DEF ControlRunning
    <3>2. caller'.at = "control" /\ ~caller'.woken
      BY <3>1
    <3>3. QED BY <2>1, <3>1, <3>2
  <2>3. CASE ControlReturns
    <3>1. \/ /\ Rewritten \in {NeedModeF, NeedModeP, InIOC}
             /\ Goes("failed") /\ result' = -1
          \/ Goes("defaults") /\ result' = 1
      BY <2>3 DEF ControlReturns
    <3>2. QED BY <2>1, <3>1 DEF Goes, Typed, CallerTyped
  <2>4. QED BY <2>2, <2>3
<1>2. /\ Told(union.code) /\ fc' = fc /\ setup' = setup
      /\ Alone' /\ Answers' /\ Asks' /\ Probe'
  BY <1>1, ReturnsIdle DEF Before
<1>3. union.code # ObtainSuccess => fc.control = "rc"
  BY <1>1, <1>2 DEF Told
<1>4. Rewritten \in {ObtainRunning, NeedModeF, NeedModeP, InIOC} => union.code # ObtainSuccess
  BY DEF Rewritten, ErrorMode, ObtainSuccess, ObtainRunning, NeedModeF, NeedModeP, InIOC
<1>5. Reached'
  BY <1>1, <1>2, <1>3, <1>4 DEF Waiting, Reached, Before, Activated
<1>6. QED BY <1>2, <1>5 DEF Waiting

LEMMA FlyWaits ==
  ASSUME Typed, Waiting, OnTime, Fly \/ Close
  PROVE  Waiting'
<1>1. CASE Passes("settingDefaults", "flying") \/ Passes("closing", "release")
  <2>1. PICK from \in {"settingDefaults", "closing"} :
          /\ Returns(from) /\ UNCHANGED <<air, sent>>
          /\ caller.at = from /\ caller'.at = (IF from = "closing" THEN "release" ELSE "flying")
          /\ ~caller'.woken /\ known' = known /\ key' = key /\ result' = result
    BY <1>1 DEF Passes, Returns, Goes, Typed, CallerTyped
  <2>2. /\ Told(union.code) /\ fc' = fc /\ setup' = setup
        /\ Alone' /\ Answers' /\ Asks' /\ Probe'
    BY <2>1, ReturnsIdle DEF Before
  <2>3. from = "closing" => fc.rates = Rest(setup.craft)
    BY <2>1, <2>2 DEF Told
  <2>4. Reached'
    BY <2>1, <2>2, <2>3 DEF Waiting, Reached, Before, Activated
  <2>5. QED BY <2>2, <2>4 DEF Waiting
<1>2. ASSUME NEW from \in {"defaults", "flying"}, NEW to \in {"settingDefaults", "closing"},
             SetDefaults(from, to)
      PROVE  Waiting'
  <2>1. PICK arg : arg = Adjusted(known.hw, DefaultTable(known.hw))
    OBVIOUS
  <2>2. Calls(from, "frequency", arg, to) /\ known' = known
    BY <1>2, <2>1 DEF SetDefaults
  <2>3. /\ caller.at = from /\ caller'.at = to
        /\ setup' = setup /\ fc' = fc /\ key' = key /\ result' = result
    BY <2>2 DEF Calls, Goes, External, Typed, CallerTyped
  <2>4. known.hw = setup.craft.hw /\ \A m \in air : ~m.handler
    BY <1>2, <2>3 DEF Waiting, Reached, Probe, Before, Activated
  <2>5. arg = Adjusted(setup.craft.hw, DefaultTable(setup.craft.hw))
    BY <2>1, <2>4
  <2>6. /\ KindOf(from) = "none" /\ KindOf(to) = "frequency"
        /\ "frequency" \notin {"none", "obtain", "release"}
        /\ to \notin {"activating", "obtaining", "version"}
    BY <1>2 DEF KindOf
  <2>7. Alone' /\ Answers' /\ Asks' /\ Probe'
    BY <2>2, <2>4, <2>5, <2>6, CallsWait
  <2>8. Reached'
    BY <1>2, <2>2, <2>3 DEF Waiting, Reached, Before, Activated
  <2>9. QED BY <2>7, <2>8 DEF Waiting
<1>3. QED BY <1>1, <1>2 DEF Fly, Close

LEMMA ReleaseWaits ==
  ASSUME Typed, Waiting, OnTime, Release \/ ReleaseReturns
  PROVE  Waiting'
<1>1. CASE Release
  <2>1. Calls("release", "release", 0, "releasing") /\ known' = known
    BY <1>1 DEF Release
  <2>2. /\ caller.at = "release" /\ caller'.at = "releasing"
        /\ setup' = setup /\ fc' = fc /\ key' = key /\ result' = result
    BY <2>1 DEF Calls, Goes, External, Typed, CallerTyped
  <2>3. key /\ \A m \in air : ~m.handler
    BY <2>2 DEF Waiting, Reached, Probe, Before, Activated
  <2>4. /\ KindOf("release") = "none" /\ KindOf("releasing") = "release" /\ "release" # "none"
        /\ "releasing" \notin {"activating", "closing", "obtaining", "version"}
    BY DEF KindOf
  <2>5. Alone' /\ Answers' /\ Asks' /\ Probe'
    BY <2>1, <2>3, <2>4, CallsWait
  <2>6. Reached'
    BY <2>1, <2>2 DEF Waiting, Reached, Before, Activated
  <2>7. QED BY <2>5, <2>6 DEF Waiting
<1>2. CASE ReleaseReturns
  <2>1. /\ Returns("releasing") /\ UNCHANGED <<air, sent>> /\ known' = known /\ key' = key
        /\ result' = result /\ caller.at = "releasing" /\ ~caller'.woken
        /\ \/ Rewritten = ReleaseRunning /\ caller'.at = "release"
           \/ Rewritten # ReleaseRunning /\ caller'.at = "ended"
    BY <1>2 DEF ReleaseReturns, Returns, Goes, Typed, CallerTyped
  <2>2. /\ Told(union.code) /\ fc' = fc /\ setup' = setup
        /\ Alone' /\ Answers' /\ Asks' /\ Probe'
    BY <2>1, ReturnsIdle DEF Before
  <2>3. /\ union.code \in {ReleaseSuccess, ReleaseRunning}
        /\ union.code = ReleaseSuccess => fc.control = "rc"
    BY <2>1, <2>2 DEF Told
  <2>4. union.code = ReleaseRunning => Rewritten = ReleaseRunning
    BY DEF Rewritten, ErrorMode, ReleaseRunning
  <2>5. Reached'
    BY <2>1, <2>2, <2>3, <2>4 DEF Waiting, Reached, Before, Activated
  <2>6. QED BY <2>2, <2>5 DEF Waiting
<1>3. QED BY <1>1, <1>2

LEMMA MainStepWaits ==
  ASSUME Typed, Waiting, OnTime, MainStep
  PROVE  Waiting'
<1>1. ~NonBlocking /\ ~ActivateTooEarly
  BY DEF NonBlocking, Posts, ActivateTooEarly, OnTime
<1>2. QED
  BY <1>1, ValidateWaits, BlockingWaits, ActivateReturnsWaits, ControlReturnsWaits, FlyWaits,
     ReleaseWaits DEF MainStep

-----------------------------------------------------------------------------
(* The invariant *)

LEMMA InitSafe ==
  ASSUME Init
  PROVE  IInv
<1>1. /\ setup \in Setups /\ sent = 0 /\ air = {} /\ acks = {} /\ key = FALSE /\ result = 0
      /\ fc = [active |-> FALSE, control |-> "rc", running |-> 0,
               rates |-> Rates(setup.craft, DefaultTable(setup.craft.hw))]
      /\ union = [code |-> setup.junk, text |-> FALSE]
      /\ known = [hw |-> "", fw |-> 0]
      /\ caller = [at |-> "start", woken |-> FALSE, inner |-> FALSE]
  BY DEF Init, Unknown
<1>2. Typed
  <2> 0 \in 0 .. MaxRunning /\ 0 \in 0 .. MaxSent
    BY SessionAssumption
  <2>1. FcTyped
    <3>1. /\ fc.active = FALSE /\ fc.running = 0
          /\ fc = [active |-> fc.active, control |-> fc.control, running |-> fc.running,
                   rates |-> fc.rates]
      BY <1>1
    <3>2. QED BY <3>1 DEF FcTyped
  <2>2. UnionTyped /\ KnownTyped
    BY <1>1 DEF UnionTyped, KnownTyped
  <2>3. CallerTyped
    BY <1>1 DEF CallerTyped, Places
  <2>4. SentTyped
    BY <1>1 DEF SentTyped
  <2>5. QED BY <1>1, <2>1, <2>2, <2>3, <2>4 DEF Typed
<1>3. Accepted /\ Posted
  BY <1>1 DEF Accepted, Posted
<1>4. ~OnWay /\ ~Back /\ ~caller.woken /\ caller.at = "start" /\ fc.control = "rc" /\ ~key
  BY <1>1 DEF OnWay, Back
<1>5. Alone /\ Answers /\ Asks /\ Probe
  BY <1>1, <1>4 DEF Alone, Answers, Asks, Probe, OnWay, Back
<1>6. Reached
  <2>1. result = 0 /\ ~key
    BY <1>1
  <2>2. QED BY <1>4, <2>1 DEF Reached, Before, Activated
<1>7. QED BY <1>2, <1>3, <1>5, <1>6 DEF IInv, Waiting

LEMMA FcStepSafe ==
  ASSUME IInv, FcStep
  PROVE  IInv'
<1>1. Typed /\ Accepted /\ Posted /\ (OnTime => Waiting)
  BY DEF IInv
<1>2. PICK m \in air : /\ \A other \in air : m.n <= other.n
                       /\ \/ FcVersion(m) \/ FcActivate(m) \/ FcObtain(m) \/ FcRelease(m)
                          \/ FcFrequency(m)
  BY DEF FcStep
<1>3. setup' = setup /\ key' = key /\ caller' = caller /\ result' = result
  BY <1>2 DEF FcVersion, FcActivate, FcObtain, FcRelease, FcFrequency, Answer, session
<1>4. Typed' /\ Accepted' /\ (fc.active => fc'.active)
  BY <1>1, <1>2, FcStepTyped, FcStepAccepts
<1>5. Posted'
  BY <1>1, <1>3, <1>4 DEF Posted
<1>6. Waiting => Waiting'
  BY <1>1, <1>2, FcStepProbe, FcStepAnswers
<1>7. QED BY <1>1, <1>3, <1>4, <1>5, <1>6 DEF IInv, OnTime

LEMMA LoseSafe ==
  ASSUME IInv, Lose
  PROVE  IInv'
<1>1. Typed /\ Accepted /\ Posted
  BY DEF IInv
<1>2. /\ setup.late /\ air' \subseteq air
      /\ UNCHANGED <<setup, fc, acks, union, known, key, caller, result, sent>>
  BY DEF Lose, session
<1>3. SentTyped'
  BY <1>1, <1>2, KeepTyped DEF Typed
<1>4. Typed'
  BY <1>1, <1>2, <1>3 DEF Typed, FcTyped, UnionTyped, KnownTyped, CallerTyped
<1>5. Accepted' /\ Posted'
  BY <1>1, <1>2 DEF Accepted, Posted
<1>6. QED BY <1>2, <1>4, <1>5 DEF IInv, OnTime

LEMMA ReadStepSafe ==
  ASSUME IInv, ReadStep
  PROVE  IInv'
<1>1. Typed /\ Accepted /\ Posted /\ (OnTime => Waiting)
  BY DEF IInv
<1>2. PICK a \in acks : \/ NotifyCaller(a) \/ VersionCallback(a) \/ ActivateCallback(a)
                        \/ ControlCallback(a) \/ WrapperCallback(a) \/ FrequencyCallback(a)
  BY DEF ReadStep
<1>3. setup' = setup
  BY <1>2 DEF NotifyCaller, VersionCallback, ActivateCallback, ControlCallback, FrequencyCallback,
              WrapperCallback, WrapperActivateCallback,
              TakeControlCallback, ReleaseControlCallback
<1>4. Typed' /\ Accepted' /\ Posted'
  BY <1>1, <1>2, ReadStepTyped, ReadStepPosts
<1>5. Waiting => Waiting'
  BY <1>1, <1>2, ReadStepWaits
<1>6. QED BY <1>1, <1>3, <1>4, <1>5 DEF IInv, OnTime

LEMMA MainStepSafe ==
  ASSUME IInv, MainStep
  PROVE  IInv'
<1>1. Typed /\ Accepted /\ Posted /\ (OnTime => Waiting)
  BY DEF IInv
<1>2. Changes /\ setup' = setup /\ fc' = fc /\ acks' = acks
  BY MainChanges DEF Changes
<1>3. Typed' /\ Accepted'
  BY <1>1, <1>2, MainStepTyped, KeepAccepted
<1>4. Posted'
  BY <1>1, <1>2, MainStepPosts DEF Posted
<1>5. OnTime => Waiting'
  BY <1>1, MainStepWaits
<1>6. QED BY <1>2, <1>3, <1>4, <1>5 DEF IInv, OnTime

LEMMA NextSafe ==
  ASSUME IInv, [Next]_vars
  PROVE  IInv'
<1>1. CASE Next
  BY <1>1, FcStepSafe, LoseSafe, ReadStepSafe, MainStepSafe DEF Next
<1>2. CASE UNCHANGED vars
  <2>1. UNCHANGED <<setup, fc, air, acks, union, known, key, caller, result, sent>>
    BY <1>2 DEF vars, session
  <2>2. Typed'
    BY <2>1 DEF IInv, Typed, FcTyped, UnionTyped, KnownTyped, CallerTyped, SentTyped
  <2>3. Accepted' /\ Posted'
    BY <2>1 DEF IInv, Accepted, Posted
  <2>4. (OnWay' <=> OnWay) /\ (Back' <=> Back)
    BY <2>1 DEF OnWay, Back
  <2>5. OnTime => Alone' /\ Probe'
    BY <2>1, <2>4 DEF IInv, Waiting, Alone, Probe
  <2>6. OnTime => Answers' /\ Asks' /\ Reached'
    BY <2>1 DEF IInv, Waiting, Answers, Told, Asks, Reached
  <2>7. OnTime' <=> OnTime
    BY <2>1 DEF OnTime
  <2>8. QED BY <2>2, <2>3, <2>5, <2>6, <2>7 DEF IInv, Waiting
<1>3. QED BY <1>1, <1>2

LEMMA Invariant == Spec => []IInv
  BY InitSafe, NextSafe, PTL DEF Spec

-----------------------------------------------------------------------------
(* The decoder and the tables *)

\* The decoder takes for each field the bytes the aircraft sends.
LEMMA Widths ==
  ASSUME setup \in Setups, NEW f \in Fields
  PROVE  Width(f, setup.craft.fw) = WireWidth(f, setup.craft.old)
<1>1. /\ setup.craft.fw \in Nat
      /\ IF setup.craft.old THEN setup.craft.fw < MakeVersion(3, 1, 0, 0)
                            ELSE setup.craft.fw > MakeVersion(3, 1, 0, 0)
  BY CraftAssumption
<1>2. MakeVersion(3, 1, 0, 0) \in Int
  BY DEF MakeVersion
<1>3. /\ setup.craft.fw > MakeVersion(3, 1, 0, 0) <=> ~setup.craft.old
      /\ setup.craft.fw < MakeVersion(3, 1, 0, 0) <=> setup.craft.old
  BY <1>1, <1>2
<1>4. QED BY <1>3 DEF Width, WireWidth

LEMMA Decodes ==
  ASSUME setup \in Setups, known.hw = setup.craft.hw, known.fw = setup.craft.fw, NEW mask
  PROVE  Decoded(known, mask) = Sent(setup.craft, mask)
<1>1. [f \in Fields |-> Width(f, known.fw)] = [f \in Fields |-> WireWidth(f, setup.craft.old)]
  BY Widths
<1>2. Passed(known.hw) = Channels(setup.craft.hw)
  BY DEF Passed, Channels
<1>3. QED BY <1>1, <1>2, Zenon DEF Decoded, Sent

LEMMA Concat ==
  ASSUME NEW S, NEW s \in Seq(S), NEW t \in Seq(S)
  PROVE  /\ s \o t \in Seq(S) /\ Len(s \o t) = Len(s) + Len(t)
         /\ DOMAIN (s \o t) = 1 .. Len(s) + Len(t)
         /\ \A i \in 1 .. Len(s) + Len(t) :
              (s \o t)[i] = IF i <= Len(s) THEN s[i] ELSE t[i - Len(s)]
<1>1. /\ s \o t \in Seq(S) /\ Len(s \o t) = Len(s) + Len(t)
      /\ \A i \in 1 .. Len(s) + Len(t) : (s \o t)[i] = IF i <= Len(s) THEN s[i] ELSE t[i - Len(s)]
  BY ConcatProperties
<1>2. QED BY <1>1

\* setBroadcastFreqDefaults asks for the default rate of each field.
LEMMA DefaultsAsked ==
  ASSUME NEW craft
  PROVE  Rest(craft) = {<<f, DefaultRate[f]>> :
                          f \in {Channels(craft.hw)[i] : i \in DOMAIN Channels(craft.hw)}}
<1> DEFINE ch    == Channels(craft.hw)
           table == Adjusted(craft.hw, DefaultTable(craft.hw))
<1>1. ASSUME NEW k \in 0 .. 5 PROVE Min({k, 5}) = k
  BY DEF Min
<1> DEFINE Names == {"timeStamp", "q", "a", "v", "w", "pos", "gps", "rtk",
                    "mag", "rc", "gimbal", "status", "battery", "ctrlInfo"}
           Second == <<"gps", "rtk">>
<1>2. /\ First \in Seq(Names) /\ Len(First) = 6 /\ Last \in Seq(Names) /\ Len(Last) = 6
      /\ Second \in Seq(Names) /\ Len(Second) = 2
      /\ Unset \in Seq(Nat) /\ Len(Unset) = 2
  <2>1. First \in Seq(Names) /\ Len(First) = 6
    BY DEF First
  <2>2. Last \in Seq(Names) /\ Len(Last) = 6
    BY DEF Last
  <2>3. Second \in Seq(Names) /\ Len(Second) = 2
    OBVIOUS
  <2>4. Unset \in Seq(Nat) /\ Len(Unset) = 2
    BY DEF Unset
  <2>5. QED BY <2>1, <2>2, <2>3, <2>4
<1> HIDE DEF Names
<1>3. ASSUME NEW i \in DOMAIN ch PROVE table[i] = DefaultRate[ch[i]]
  <2>1. CASE craft.hw = "M100"
    <3>1. /\ DOMAIN ch = 1 .. 12
          /\ \A k \in 1 .. 6 : ch[k] = First[k]
          /\ \A k \in 7 .. 12 : ch[k] = Last[k - 6]
      <4>1. PICK all : all = First \o Last
        OBVIOUS
      <4>2. ch = all
        BY <2>1, <4>1 DEF Channels
      <4> HIDE DEF ch
      <4>3. /\ DOMAIN all = 1 .. Len(First) + Len(Last)
            /\ \A k \in 1 .. Len(First) + Len(Last) :
                 all[k] = IF k <= Len(First) THEN First[k] ELSE Last[k - Len(First)]
        BY <1>2, <4>1, Concat
      <4>4. Len(First) + Len(Last) = 12
        BY <1>2
      <4>5. QED BY <1>2, <4>2, <4>3, <4>4
    <3>2. \A k \in 1 .. 12 : DefaultTable(craft.hw)[k] = <<1, 2, 3, 4, 3, 2, 1, 2, 3, 4, 3, 2>>[k]
      <4>1. DefaultTable(craft.hw) = <<1, 2, 3, 4, 3, 2, 1, 2, 3, 4, 3, 2>> \o Unset \o Unset
        BY <2>1 DEF DefaultTable
      <4>2. /\ <<1, 2, 3, 4, 3, 2, 1, 2, 3, 4, 3, 2>> \in Seq(Nat)
            /\ Len(<<1, 2, 3, 4, 3, 2, 1, 2, 3, 4, 3, 2>>) = 12
        OBVIOUS
      <4>3. QED BY <1>2, <4>1, <4>2, Concat
    <3>3. i \in 1 .. 12
      BY <1>3, <3>1
    <3>4. table[i] = Min({DefaultTable(craft.hw)[i], 5})
      BY <2>1, <3>3 DEF Adjusted
    <3>5. DefaultTable(craft.hw)[i] = DefaultRate[ch[i]] /\ DefaultRate[ch[i]] \in 0 .. 5
      BY <3>1, <3>2, <3>3 DEF DefaultRate, First, Last
    <3>6. QED BY <1>1, <3>4, <3>5
  <2>2. CASE craft.hw # "M100"
    <3>1. /\ DOMAIN ch = 1 .. 14
          /\ \A k \in 1 .. 6 : ch[k] = First[k]
          /\ \A k \in 7 .. 8 : ch[k] = Second[k - 6]
          /\ \A k \in 9 .. 14 : ch[k] = Last[k - 8]
      <4> HIDE DEF Second
      <4>1. PICK head, all : head = First \o Second /\ all = head \o Last
        OBVIOUS
      <4>2. ch = all
        BY <2>2, <4>1 DEF Channels, Second
      <4> HIDE DEF ch
      <4>3. /\ head \in Seq(Names) /\ Len(head) = Len(First) + Len(Second)
            /\ \A k \in 1 .. Len(First) + Len(Second) :
                 head[k] = IF k <= Len(First) THEN First[k] ELSE Second[k - Len(First)]
        BY <1>2, <4>1, Concat
      <4>4. Len(First) + Len(Second) = 8
        BY <1>2
      <4>5. /\ DOMAIN all = 1 .. Len(head) + Len(Last)
            /\ \A k \in 1 .. Len(head) + Len(Last) :
                 all[k] = IF k <= Len(head) THEN head[k] ELSE Last[k - Len(head)]
        <5>1. head \in Seq(Names) /\ Last \in Seq(Names) /\ all = head \o Last
          BY <1>2, <4>1, <4>3
        <5>2. QED BY <5>1, Concat
      <4>6. Len(head) + Len(Last) = 14
        BY <1>2, <4>3, <4>4
      <4>7. QED BY <1>2, <4>2, <4>3, <4>4, <4>5, <4>6
    <3>2. \A k \in 1 .. 14 :
            DefaultTable(craft.hw)[k] = <<1, 2, 3, 4, 3, 2, 0, 0, 1, 2, 3, 4, 3, 2>>[k]
      <4>1. DefaultTable(craft.hw) = <<1, 2, 3, 4, 3, 2, 0, 0, 1, 2, 3, 4, 3, 2>> \o Unset
        BY <2>2 DEF DefaultTable
      <4>2. /\ <<1, 2, 3, 4, 3, 2, 0, 0, 1, 2, 3, 4, 3, 2>> \in Seq(Nat)
            /\ Len(<<1, 2, 3, 4, 3, 2, 0, 0, 1, 2, 3, 4, 3, 2>>) = 14
        OBVIOUS
      <4>3. QED BY <1>2, <4>1, <4>2, Concat
    <3>3. i \in 1 .. 14
      BY <1>3, <3>1
    <3>4. table[i] = Min({DefaultTable(craft.hw)[i], 5})
      BY <2>2, <3>3 DEF Adjusted
    <3>5. DefaultTable(craft.hw)[i] = DefaultRate[ch[i]] /\ DefaultRate[ch[i]] \in 0 .. 5
      BY <3>1, <3>2, <3>3 DEF DefaultRate, First, Last
    <3>6. QED BY <1>1, <3>4, <3>5
  <2>3. QED BY <2>1, <2>2
<1>4. Rest(craft) = {<<ch[i], table[i]>> : i \in DOMAIN ch}
  BY DEF Rest, Rates
<1> HIDE DEF ch, table
<1>5. {<<ch[i], table[i]>> : i \in DOMAIN ch} =
        {<<f, DefaultRate[f]>> : f \in {ch[i] : i \in DOMAIN ch}}
  BY <1>3
<1>6. QED BY <1>4, <1>5 DEF ch

-----------------------------------------------------------------------------
(* Theorems *)

\* The program's key is that of a session the flight controller has accepted (as
\* CoreAPI::activate and activateCallback set it), on a prompt line, and with callbacks
\* on any line.
THEOREM SessionBelievesTruly == Spec => []BelievesTruly
<1>1. ASSUME IInv PROVE BelievesTruly
  <2>1. SessionTypeOK
    <3>1. setup \in Setups /\ caller.at \in Places /\ result \in {-1, 0, 1}
      BY <1>1 DEF IInv, Typed, CallerTyped
    <3>2. /\ known.hw \in {"", setup.craft.hw} /\ known.fw \in {0, setup.craft.fw}
          /\ known.fw # 0 => known.hw # ""
      BY <1>1 DEF IInv, Typed, KnownTyped
    <3>3. sent \in 0 .. MaxSent /\ fc.running \in 0 .. MaxRunning
      BY <1>1 DEF IInv, Typed, FcTyped, SentTyped
    <3>4. {m.n : m \in air} \cup {a.n : a \in acks} \subseteq 1 .. sent
      BY <1>1 DEF IInv, Typed, SentTyped
    <3>5. QED BY <3>1, <3>2, <3>3, <3>4 DEF SessionTypeOK
  <2>2. ASSUME ~setup.late \/ setup.callbacks, key PROVE fc.active
    BY <1>1, <2>2 DEF IInv, Posted, OnTime, Waiting, Reached
  <2>3. QED BY <2>1, <2>2 DEF BelievesTruly
<1>2. QED BY <1>1, Invariant, PTL

\* After a successful setup, CoreAPI::broadcast takes apart every broadcast as the aircraft
\* put it together, whatever fields it has.
THEOREM SessionDecodesRight == Spec => []DecodesRight
<1>1. ASSUME IInv PROVE DecodesRight
  <2>1. SUFFICES ASSUME ~setup.late, result = 1
                 PROVE  /\ fc.active /\ key
                        /\ \A mask : Decoded(known, mask) = Sent(setup.craft, mask)
    BY DEF DecodesRight
  <2>2. OnTime
    BY <1>1, <2>1 DEF IInv, Posted, OnTime
  <2>3. fc.active /\ key /\ known.hw = setup.craft.hw /\ known.fw = setup.craft.fw
    BY <1>1, <2>1, <2>2 DEF IInv, Waiting, Reached, Activated
  <2>4. setup \in Setups
    BY <1>1 DEF IInv, Typed
  <2>5. QED BY <2>3, <2>4, Decodes
<1>2. QED BY <1>1, Invariant, PTL

\* cleanup leaves the default rate on each channel (setBroadcastFreqDefaults).
THEOREM CleanupRestoresFrequencies == Spec => []FrequenciesRestored
<1>1. ASSUME IInv PROVE FrequenciesRestored
  <2>1. SUFFICES ASSUME ~setup.late, ~setup.callbacks, caller.at = "ended"
                 PROVE  fc.rates = Rest(setup.craft)
    BY DefaultsAsked DEF FrequenciesRestored
  <2>2. QED BY <1>1, <2>1 DEF IInv, OnTime, Waiting, Reached
<1>2. QED BY <1>1, Invariant, PTL

\* Neither a setup that fails nor cleanup leaves the aircraft under the program's control
\* (takeControl, releaseControl).
THEOREM SetupLeavesNoControl == Spec => []NoControlLeft
<1>1. ASSUME IInv PROVE NoControlLeft
  BY <1>1 DEF IInv, OnTime, Waiting, Reached, Before, NoControlLeft
<1>2. QED BY <1>1, Invariant, PTL
=============================================================================
