-------------------------- MODULE Missions_proofs ---------------------------
(* The missions, for tables of every size, any number of calls, every mix of  *)
(* blocking calls and callbacks, and every set of commands that may be        *)
(* refused: on a line that keeps the order, a careful program stays in its    *)
(* tables, what is flown is one mission uploaded whole, objects and flight    *)
(* controller agree where nothing has set them apart, and the example flies   *)
(* its own mission.                                                           *)
EXTENDS Missions, SequenceTheorems, FiniteSetTheorems, TLAPS

-----------------------------------------------------------------------------
(* Types *)

Posns    == 0 .. MaxPoints - 1
Pts(s)   == [of : 0 .. s.calls, n : 0 .. MaxPoints]
Backs    == {"wait", "callback", "printed", "none"}
About(kind) == IF kind = "orbit" THEN Circle
               ELSE IF kind \in {"rate", "radius"} THEN {kind} ELSE {"target"}
Settings == UNION {[fields -> Values] : fields \in SUBSET Fields}

Cmds(s) == [kind : {"init"}, arg : 0 .. MaxPoints, back : Plain]
           \cup [kind : {"add"}, arg : Posns \X Pts(s), back : Backs]
           \cup {m \in [kind : Steers, arg : Settings, back : Backs] : m.arg \in [About(m.kind) -> Values]}
           \cup [kind : {"start"} \cup Reads, arg : {0}, back : Backs]
           \cup [kind : {"stop"}, arg : s.stops, back : Backs]
Answers == [kind : {"settings"}, back : Backs, ok : BOOLEAN, data : 0 .. MaxPoints]
           \cup [kind : {"readOrbit"}, back : Backs, ok : BOOLEAN, data : [Circle -> Values]]
           \cup [kind : {"init", "add", "start", "stop"} \cup Steers, back : Backs, ok : BOOLEAN, data : {0}]

WpTyped == /\ wp = [n |-> wp.n, size |-> wp.size, points |-> wp.points]
           /\ wp.n \in 0 .. MaxPoints /\ wp.size \in {None} \cup 0 .. MaxPoints
           /\ Held(wp.points) /\ \A i \in DOMAIN wp.points : i < wp.size
DataTyped == data \in [Fields -> Values] /\ apart \subseteq Fields
FcTyped == /\ fc = [flies |-> fc.flies, n |-> fc.n, points |-> fc.points, flown |-> fc.flown,
                    has |-> fc.has]
           /\ fc.n \in 0 .. MaxPoints /\ Held(fc.points) /\ Held(fc.flown)
           /\ (\A i \in DOMAIN fc.points : i < fc.n) /\ fc.has \in [Fields -> Values]
LineTyped == air \in Seq(Cmds(setup)) /\ acks \in Seq(Answers)

\* Each mission is made by a call; the example makes its own in its first call.
Places == {"idle", "waiting", "woken", "crashed", "thrown"}
Callers == [at : Places, calls : 0 .. setup.calls, step : 0 .. Sleeping, made : 0 .. setup.calls,
            n : 0 .. MaxPoints, refused : BOOLEAN]
CallerTyped ==
  /\ caller \in Callers
  /\ caller.made <= caller.calls
  /\ caller.step = 1 /\ caller.at = "idle" => caller.made < caller.calls
  /\ caller.step > 0 => "example" \in setup.uses
  /\ caller.step = Sleeping => caller.at = "idle"
  /\ caller.made = 0 <=> caller.n = 0

Typed == /\ setup \in Setups
         /\ WpTyped /\ DataTyped /\ FcTyped /\ LineTyped /\ CallerTyped

-----------------------------------------------------------------------------
(* Tables, fields and commands *)

LEMMA PutHeld ==
  ASSUME NEW f, Held(f), NEW pos \in Posns, NEW p \in Points
  PROVE  Held(Written(f, pos, p))
  BY DEF Held, Posns, Written

LEMMA Bound == MaxPoints \in Nat /\ MaxPoints >= 1
  BY MissionsAssumption

LEMMA WithFields ==
  ASSUME NEW d \in [Fields -> Values], NEW fields \in SUBSET Fields, NEW g \in [fields -> Values]
  PROVE  /\ With(d, g) \in [Fields -> Values]
         /\ \A f \in Fields : With(d, g)[f] = IF f \in fields THEN g[f] ELSE d[f]
  BY DEF With

LEMMA AboutFields ==
  \A kind \in Steers : About(kind) \in SUBSET Fields
  BY DEF About, Fields, Circle

LEMMA CommandTyped ==
  ASSUME NEW s, NEW m \in Cmds(s)
  PROVE  /\ m.kind \in {"init", "add", "start", "stop"} \cup Steers \cup Reads /\ m.back \in Backs
         /\ m.kind = "init" => m.arg \in 0 .. MaxPoints /\ m.back \in Plain
         /\ m.kind = "add" => m.arg[1] \in Posns /\ m.arg[2] \in Pts(s)
         /\ m.kind \in Steers => m.arg \in [About(m.kind) -> Values]
<1> USE DEF Steers, Begins, Changes, Reads, Plain, Backs
<1>1. \/ m \in [kind : {"init"}, arg : 0 .. MaxPoints, back : Plain]
      \/ m \in [kind : {"add"}, arg : Posns \X Pts(s), back : Backs]
      \/ m \in {c \in [kind : Steers, arg : Settings, back : Backs] : c.arg \in [About(c.kind) -> Values]}
      \/ m \in [kind : {"start"} \cup Reads, arg : {0}, back : Backs]
      \/ m \in [kind : {"stop"}, arg : s.stops, back : Backs]
  BY DEF Cmds
<1>2. CASE m \in [kind : {"init"}, arg : 0 .. MaxPoints, back : Plain]
  BY <1>2
<1>3. CASE m \in [kind : {"add"}, arg : Posns \X Pts(s), back : Backs]
  BY <1>3
<1>4. CASE m \in {c \in [kind : Steers, arg : Settings, back : Backs] : c.arg \in [About(c.kind) -> Values]}
  BY <1>4
<1>5. CASE m \in [kind : {"start"} \cup Reads, arg : {0}, back : Backs]
  BY <1>5
<1>6. CASE m \in [kind : {"stop"}, arg : s.stops, back : Backs]
  BY <1>6
<1>7. QED BY <1>1, <1>2, <1>3, <1>4, <1>5, <1>6

\* What the flight controller makes of a command, field by field.
LEMMA Effect ==
  ASSUME FcTyped, NEW m, NEW ok \in BOOLEAN, fc' = IF ok THEN After(m) ELSE fc
  PROVE  /\ fc' = [flies |-> fc'.flies, n |-> fc'.n, points |-> fc'.points, flown |-> fc'.flown,
                   has |-> fc'.has]
         /\ fc'.flies = IF ok /\ m.kind = "start" THEN "waypoint"
                        ELSE IF ok /\ m.kind \in Steers THEN Flying(m)
                        ELSE IF ok /\ m.kind = "stop" THEN "none" ELSE fc.flies
         /\ fc'.n = IF ok /\ m.kind = "init" THEN m.arg ELSE fc.n
         /\ fc'.points = IF ok /\ m.kind = "init" THEN <<>>
                         ELSE IF ok /\ m.kind = "add" THEN Written(fc.points, m.arg[1], m.arg[2])
                         ELSE fc.points
         /\ fc'.flown = IF ok /\ m.kind = "start" THEN fc.points ELSE fc.flown
         /\ fc'.has = IF ok /\ m.kind \in Steers THEN With(fc.has, m.arg) ELSE fc.has
<1> USE DEF FcTyped, After, Steers, Begins, Changes
<1>1. CASE m.kind = "init"
  BY <1>1
<1>2. CASE m.kind = "add"
  BY <1>2
<1>3. CASE m.kind = "start"
  BY <1>3
<1>4. CASE m.kind \in Steers
  BY <1>4
<1>5. CASE m.kind = "stop"
  BY <1>5
<1>6. CASE m.kind \notin {"init", "add", "start", "stop"} \cup Steers
  BY <1>6
<1>7. QED
  BY <1>1, <1>2, <1>3, <1>4, <1>5, <1>6

\* A command of a place on the line, and what is left when it is taken.
LEMMA Cut ==
  ASSUME NEW S, NEW s \in Seq(S), NEW i \in DOMAIN s
  PROVE  /\ s[i] \in S /\ Len(s) \in Nat \ {0} /\ i \in 1 .. Len(s)
         /\ RemoveAt(s, i) \in Seq(S) /\ Len(RemoveAt(s, i)) = Len(s) - 1
         /\ \A k \in 1 .. Len(s) - 1 : RemoveAt(s, i)[k] = IF k < i THEN s[k] ELSE s[k + 1]
<1>1. Len(s) \in Nat /\ i \in 1 .. Len(s) /\ \A k \in 1 .. Len(s) : s[k] \in S
  BY LenProperties, ElementOfSeq
<1> DEFINE a == SubSeq(s, 1, i - 1)
           b == SubSeq(s, i + 1, Len(s))
<1>2. /\ a \in Seq(S) /\ Len(a) = i - 1
      /\ \A k \in 1 .. i - 1 : a[k] = s[k]
  <2>1. i - 1 \in Int /\ \A k \in 1 .. i - 1 : s[k] \in S
    BY <1>1
  <2>2. /\ a \in Seq(S) /\ Len(a) = IF 1 <= i - 1 THEN (i - 1) - 1 + 1 ELSE 0
        /\ \A k \in 1 .. (i - 1) - 1 + 1 : a[k] = s[1 + k - 1]
    BY <2>1, SubSeqProperties
  <2>3. QED BY <2>2, <1>1
<1>3. /\ b \in Seq(S) /\ Len(b) = Len(s) - i
      /\ \A k \in 1 .. Len(s) - i : b[k] = s[k + i]
  <2>1. i + 1 \in Int /\ Len(s) \in Int /\ \A k \in i + 1 .. Len(s) : s[k] \in S
    BY <1>1
  <2>2. /\ b \in Seq(S) /\ Len(b) = IF i + 1 <= Len(s) THEN Len(s) - (i + 1) + 1 ELSE 0
        /\ \A k \in 1 .. Len(s) - (i + 1) + 1 : b[k] = s[(i + 1) + k - 1]
    BY <2>1, SubSeqProperties
  <2>3. QED BY <2>2, <1>1
<1> HIDE DEF a, b
<1>4. /\ a \o b \in Seq(S) /\ Len(a \o b) = Len(a) + Len(b)
      /\ \A k \in 1 .. Len(a) + Len(b) : (a \o b)[k] = IF k <= Len(a) THEN a[k] ELSE b[k - Len(a)]
  BY <1>2, <1>3, ConcatProperties
<1>5. RemoveAt(s, i) = a \o b
  BY DEF RemoveAt, a, b
<1>6. ASSUME NEW k \in 1 .. Len(s) - 1
      PROVE  (a \o b)[k] = IF k < i THEN s[k] ELSE s[k + 1]
  <2>1. k \in 1 .. Len(a) + Len(b)
    BY <1>1, <1>2, <1>3
  <2>2. CASE k < i
    BY <2>1, <2>2, <1>1, <1>2, <1>4
  <2>3. CASE ~(k < i)
    <3>1. k - Len(a) \in 1 .. Len(s) - i /\ k - Len(a) + i = k + 1 /\ ~(k <= Len(a))
      BY <2>3, <1>1, <1>2, <1>6
    <3>2. QED BY <3>1, <2>1, <2>3, <1>1, <1>3, <1>4
  <2>4. QED BY <2>2, <2>3
<1>7. Len(a \o b) = Len(s) - 1 /\ s[i] \in S /\ Len(s) \in Nat \ {0}
  BY <1>1, <1>2, <1>3, <1>4
<1>8. QED BY <1>1, <1>4, <1>5, <1>6, <1>7

LEMMA Added ==
  ASSUME NEW S, NEW s \in Seq(S), NEW e \in S
  PROVE  /\ Append(s, e) \in Seq(S) /\ Len(s) \in Nat /\ Len(Append(s, e)) = Len(s) + 1
         /\ DOMAIN s = 1 .. Len(s) /\ DOMAIN Append(s, e) = 1 .. Len(s) + 1
         /\ \A i \in 1 .. Len(s) : Append(s, e)[i] = s[i]
         /\ Append(s, e)[Len(s) + 1] = e
  BY AppendProperties, LenProperties
-----------------------------------------------------------------------------
(* The types hold *)

\* A call is made while main is idle: one of its own, or the example's next one.
MayCall == /\ caller.at = "idle"
           /\ \/ caller.step = 0 /\ caller.calls < setup.calls
              \/ caller.step \in 1 .. Sleeping - 1

LEMMA SetupTyped ==
  ASSUME Typed
  PROVE  /\ setup \in Setups /\ setup.calls \in Nat /\ setup.blocking \subseteq BOOLEAN
         /\ setup.prompt \in BOOLEAN /\ setup.careless \in BOOLEAN /\ setup.heeds \in BOOLEAN
         /\ setup.refuses \cap Reads = {}
         /\ "example" \in setup.uses => /\ setup.uses = {"example"} /\ setup.stops = {}
                                        /\ setup.blocking = {TRUE} /\ ~setup.heeds
         /\ Points = Pts(setup) /\ Point \in Points
  BY UsesAssumption DEF Typed, CallerTyped, Callers, Points, Pts, Point, Reads

LEMMA Numerals ==
  ASSUME Typed
  PROVE  /\ setup.calls \in Nat /\ caller.calls \in 0 .. setup.calls
         /\ caller.step \in 0 .. Sleeping /\ Sleeping = MaxPoints + 3
         /\ caller.made \in 0 .. setup.calls /\ caller.n \in 0 .. MaxPoints
         /\ wp.n \in 0 .. MaxPoints /\ wp.size \in {None} \cup 0 .. MaxPoints
         /\ fc.n \in 0 .. MaxPoints
<1>1. setup.calls \in Nat
  BY SetupTyped
<1>2. /\ caller.calls \in 0 .. setup.calls
      /\ caller.step \in 0 .. Sleeping
      /\ caller.made \in 0 .. setup.calls /\ caller.n \in 0 .. MaxPoints
  BY DEF Typed, CallerTyped, Callers
<1>3. QED BY <1>1, <1>2 DEF Typed, WpTyped, FcTyped, Sleeping

LEMMA FieldsKept ==
  ASSUME Typed, setup' = setup
  PROVE  /\ wp' = wp => WpTyped'
         /\ data' = data /\ apart' = apart => DataTyped'
         /\ fc' = fc => FcTyped'
         /\ air' = air => (air \in Seq(Cmds(setup)))'
         /\ acks' = acks => (acks \in Seq(Answers))'
         /\ caller' = caller => CallerTyped'
<1>1. wp' = wp => WpTyped'
  BY DEF Typed, WpTyped, Held, Points
<1>2. fc' = fc => FcTyped'
  BY DEF Typed, FcTyped, Held, Points
<1>3. data' = data /\ apart' = apart => DataTyped'
  BY DEF Typed, DataTyped
<1>4. (acks' = acks => (acks \in Seq(Answers))') /\ (air' = air => (air \in Seq(Cmds(setup)))')
  BY DEF Typed, LineTyped
<1>5. caller' = caller => CallerTyped'
  BY DEF Typed, CallerTyped, Callers
<1>6. QED BY <1>1, <1>2, <1>3, <1>4, <1>5

LEMMA SentTyped ==
  ASSUME Typed, setup' = setup, NEW m \in Cmds(setup), air' = Append(air, m)
  PROVE  (air \in Seq(Cmds(setup)))'
  BY Added DEF Typed, LineTyped

\* A call that sends a command of the right type and makes no mission.
LEMMA CommandKeeps ==
  ASSUME Typed, MayCall, NEW kind, NEW arg, NEW backs, Command(kind, arg, backs),
         \A back \in backs : [kind |-> kind, arg |-> arg, back |-> back] \in Cmds(setup)
  PROVE  /\ setup' = setup /\ fc' = fc /\ acks' = acks
         /\ (air \in Seq(Cmds(setup)))' /\ CallerTyped'
         /\ caller'.made = caller.made /\ caller'.n = caller.n
<1>1. PICK back \in backs :
        /\ Send(kind, arg, back)
        /\ caller' = [caller EXCEPT !.at = IF back = "wait" THEN "waiting" ELSE "idle",
                                    !.calls = IF caller.step > 0 THEN @ ELSE @ + 1]
        /\ UNCHANGED <<setup, fc, acks>>
  BY DEF Command, CommandOf
<1>2. (air \in Seq(Cmds(setup)))'
  BY <1>1, SentTyped DEF Send
<1>3. /\ caller'.made = caller.made /\ caller'.n = caller.n /\ caller'.step = caller.step
      /\ caller'.calls = (IF caller.step > 0 THEN caller.calls ELSE caller.calls + 1)
      /\ caller'.refused = caller.refused /\ caller.refused \in BOOLEAN
      /\ caller' = [at |-> caller'.at, calls |-> caller'.calls, step |-> caller'.step,
                    made |-> caller'.made, n |-> caller'.n, refused |-> caller'.refused]
  BY <1>1 DEF Typed, CallerTyped, Callers
<1>4. caller'.at \in {"idle", "waiting"}
  BY <1>1 DEF Typed, CallerTyped, Callers
<1>5. caller'.calls \in 0 .. setup.calls /\ caller'.calls >= caller.calls
  BY <1>3, Numerals, Bound DEF MayCall, Sleeping
<1>6. caller'.step # Sleeping
  BY <1>3, Bound DEF MayCall, Sleeping
<1>7. CallerTyped'
  <2>1. caller' \in Callers
    BY <1>3, <1>4, <1>5, Numerals DEF Callers, Places
  <2>2. /\ caller'.made <= caller'.calls
        /\ caller'.step = 1 /\ caller'.at = "idle" => caller'.made < caller'.calls
        /\ caller'.step > 0 => "example" \in setup.uses
        /\ caller'.made = 0 <=> caller'.n = 0
    BY <1>3, <1>5, Numerals DEF Typed, CallerTyped, MayCall
  <2>3. Callers' = Callers
    BY <1>1 DEF Callers
  <2>4. QED BY <1>1, <1>6, <2>1, <2>2, <2>3 DEF CallerTyped, Sleeping
<1>8. QED BY <1>1, <1>2, <1>3, <1>7

\* A table with one more point.
LEMMA TableTyped ==
  ASSUME Typed, NEW pos \in Posns, pos < Table(pos).size, setup' = setup, wp' = Table(pos)
  PROVE  WpTyped'
<1>1. /\ wp'.n = wp.n /\ wp'.size = IF wp.size = None THEN wp.n ELSE wp.size
      /\ wp'.points = Written(wp.points, pos, Point)
      /\ wp' = [n |-> wp'.n, size |-> wp'.size, points |-> wp'.points]
  BY DEF Typed, WpTyped, Table
<1>2. Held(wp'.points)
  <2>1. Held(Written(wp.points, pos, Point))
    BY PutHeld, SetupTyped DEF Typed, WpTyped
  <2>2. QED BY <1>1, <2>1
<1>3. wp'.n \in 0 .. MaxPoints /\ wp'.size \in {None} \cup 0 .. MaxPoints /\ pos < wp'.size
  BY <1>1 DEF Typed, WpTyped
<1>4. \A i \in DOMAIN wp.points : i < wp.size /\ i \in Nat
  BY Bound DEF Typed, WpTyped, Held
<1>5. \A i \in DOMAIN wp'.points : i < wp'.size
  <2>1. DOMAIN wp'.points = DOMAIN wp.points \cup {pos}
    BY <1>1 DEF Written
  <2>2. wp.size <= wp'.size \/ DOMAIN wp.points = {}
    BY <1>1, <1>4, Numerals DEF None
  <2>3. QED BY <1>3, <1>4, <2>1, <2>2, Numerals DEF None
<1>6. (Held(wp.points))'
  BY <1>2 DEF Held, Points
<1>7. QED BY <1>1, <1>3, <1>5, <1>6 DEF WpTyped

\* What the flight controller keeps of a command of the right type that it may take.
LEMMA AfterTyped ==
  ASSUME Typed, setup' = setup, NEW m \in Cmds(setup), NEW ok \in BOOLEAN, ok => Allowed(m),
         fc' = IF ok THEN After(m) ELSE fc
  PROVE  FcTyped'
<1>1. FcTyped
  BY DEF Typed
<1>2. fc'.n \in 0 .. MaxPoints
  <2>1. m.kind = "init" => m.arg \in 0 .. MaxPoints
    BY CommandTyped
  <2>2. fc'.n = IF ok /\ m.kind = "init" THEN m.arg ELSE fc.n
    BY <1>1, Effect
  <2>3. QED BY <2>1, <2>2, Numerals
<1>3. Held(fc'.points) /\ \A i \in DOMAIN fc'.points : i < fc'.n
  <2>1. fc'.points = IF ok /\ m.kind = "init" THEN <<>>
                     ELSE IF ok /\ m.kind = "add" THEN Written(fc.points, m.arg[1], m.arg[2])
                     ELSE fc.points
    BY <1>1, Effect
  <2>2. fc'.n = IF ok /\ m.kind = "init" THEN m.arg ELSE fc.n
    BY <1>1, Effect
  <2>3. Held(fc.points) /\ \A i \in DOMAIN fc.points : i < fc.n
    BY <1>1 DEF FcTyped
  <2>4. CASE ok /\ m.kind = "init"
    <3>1. fc'.points = <<>> /\ DOMAIN <<>> = {}
      BY <2>1, <2>4
    <3>2. QED BY <3>1 DEF Held
  <2>5. CASE ok /\ m.kind = "add"
    <3>1. m.arg[1] \in Posns /\ m.arg[2] \in Points /\ m.arg[1] < fc.n
      BY <2>5, CommandTyped, SetupTyped DEF Allowed, Begins, Changes
    <3>2. fc'.points = Written(fc.points, m.arg[1], m.arg[2]) /\ fc'.n = fc.n
      BY <2>1, <2>2, <2>5
    <3>3. Held(fc'.points)
      BY <2>3, <3>1, <3>2, PutHeld
    <3>4. DOMAIN fc'.points = DOMAIN fc.points \cup {m.arg[1]}
      BY <3>2 DEF Written
    <3>5. QED BY <2>3, <3>1, <3>2, <3>3, <3>4
  <2>6. CASE ~(ok /\ m.kind = "init") /\ ~(ok /\ m.kind = "add")
    BY <2>1, <2>2, <2>3, <2>6
  <2>7. QED BY <2>4, <2>5, <2>6
<1>4. Held(fc'.flown)
  <2>1. fc'.flown = fc.points \/ fc'.flown = fc.flown
    BY <1>1, Effect
  <2>2. QED BY <1>1, <2>1 DEF FcTyped
<1>5. fc'.has \in [Fields -> Values]
  <2>1. fc.has \in [Fields -> Values]
    BY <1>1 DEF FcTyped
  <2>2. fc'.has = IF ok /\ m.kind \in Steers THEN With(fc.has, m.arg) ELSE fc.has
    BY <1>1, Effect
  <2>3. m.kind \in Steers => m.arg \in [About(m.kind) -> Values] /\ About(m.kind) \in SUBSET Fields
    BY CommandTyped, AboutFields
  <2>4. QED BY <2>1, <2>2, <2>3, WithFields
<1>6. fc' = [flies |-> fc'.flies, n |-> fc'.n, points |-> fc'.points, flown |-> fc'.flown,
             has |-> fc'.has]
  BY <1>1, Effect
<1>7. (Held(fc.points) /\ Held(fc.flown))'
  BY <1>3, <1>4 DEF Held, Points
<1>8. QED BY <1>2, <1>3, <1>5, <1>6, <1>7 DEF FcTyped

LEMMA AnswerTyped ==
  ASSUME Typed, NEW m \in Cmds(setup), NEW ok \in BOOLEAN, NEW d \in Data(m, ok)
  PROVE  [kind |-> m.kind, back |-> m.back, ok |-> ok, data |-> d] \in Answers
<1>1. m.kind \in {"init", "add", "start", "stop"} \cup Steers \cup Reads /\ m.back \in Backs
  BY CommandTyped
<1>2. fc.has \in [Fields -> Values] /\ Circle \subseteq Fields
  BY DEF Typed, FcTyped, Fields
<1>3. CASE m.kind = "settings"
  <2>1. d \in 0 .. MaxPoints
    BY <1>3, Numerals, Bound DEF Data
  <2>2. QED BY <1>1, <1>3, <2>1 DEF Answers
<1>4. CASE m.kind = "readOrbit"
  <2>1. d \in [Circle -> Values]
    BY <1>2, <1>4 DEF Data
  <2>2. QED BY <1>1, <1>4, <2>1 DEF Answers
<1>5. CASE m.kind \notin {"settings", "readOrbit"}
  <2>1. d = 0
    BY <1>5 DEF Data
  <2>2. m.kind \in {"init", "add", "start", "stop"} \cup Steers
    BY <1>1, <1>5 DEF Reads
  <2>3. QED BY <1>1, <2>1, <2>2 DEF Answers
<1>6. QED BY <1>3, <1>4, <1>5

LEMMA FcStepTyped ==
  ASSUME Typed, FcStep
  PROVE  Typed'
<1>1. PICK i \in DOMAIN air, ok \in BOOLEAN :
        (setup.prompt => i = 1) /\ air' = RemoveAt(air, i) /\ Take(air[i], ok)
  BY DEF FcStep
<1>2. setup' = setup /\ wp' = wp /\ data' = data /\ caller' = caller
  BY DEF FcStep
<1>3. air \in Seq(Cmds(setup)) /\ acks \in Seq(Answers)
  BY DEF Typed, LineTyped
<1>4. air[i] \in Cmds(setup) /\ RemoveAt(air, i) \in Seq(Cmds(setup))
  BY <1>3, Cut
<1>5. FcTyped'
  BY <1>1, <1>2, <1>4, AfterTyped DEF Take
<1>6. acks' \in Seq(Answers)
  <2>1. \A d \in Data(air[i], ok) :
          [kind |-> air[i].kind, back |-> air[i].back, ok |-> ok, data |-> d] \in Answers
    BY <1>4, AnswerTyped
  <2>2. CASE air[i].back = "none"
    BY <1>1, <1>3, <2>2 DEF Take
  <2>3. CASE air[i].back # "none"
    <3>1. PICK d \in Data(air[i], ok) :
            acks' = Append(acks, [kind |-> air[i].kind, back |-> air[i].back, ok |-> ok, data |-> d])
      BY <1>1, <2>3 DEF Take
    <3>2. QED BY <1>3, <2>1, <3>1, Added
  <2>4. QED BY <2>2, <2>3
<1>7. LineTyped'
  BY <1>1, <1>2, <1>4, <1>6 DEF LineTyped
<1>8. DataTyped'
  <2>1. apart' = apart \/ (air[i].kind \in Steers /\ apart' = apart \cup DOMAIN air[i].arg)
    BY <1>1 DEF Take
  <2>2. air[i].kind \in Steers => DOMAIN air[i].arg \subseteq Fields
    BY <1>4, CommandTyped, AboutFields
  <2>3. QED BY <1>2, <2>1, <2>2 DEF Typed, DataTyped
<1>9. QED BY <1>2, <1>5, <1>7, <1>8, FieldsKept DEF Typed

LEMMA LineStepTyped ==
  ASSUME Typed, Lose \/ Finish
  PROVE  Typed'
<1>1. CASE Lose
  <2>1. /\ setup' = setup /\ wp' = wp /\ data' = data /\ apart' = apart
        /\ fc' = fc /\ acks' = acks /\ caller' = caller
        /\ \E i \in DOMAIN air : air' = RemoveAt(air, i)
    BY <1>1 DEF Lose, objects
  <2>2. air' \in Seq(Cmds(setup))
    BY <2>1, Cut DEF Typed, LineTyped
  <2>3. LineTyped'
    BY <2>1, <2>2 DEF Typed, LineTyped
  <2>4. QED BY <2>1, <2>3, FieldsKept DEF Typed
<1>2. CASE Finish
  <2>1. /\ setup' = setup /\ wp' = wp /\ data' = data /\ apart' = apart
        /\ air' = air /\ acks' = acks /\ caller' = caller
        /\ fc' = [fc EXCEPT !.flies = "none"]
    BY <1>2 DEF Finish, objects
  <2>2. fc' = [flies |-> "none", n |-> fc.n, points |-> fc.points, flown |-> fc.flown,
               has |-> fc.has]
    BY <2>1 DEF Typed, FcTyped
  <2>3. FcTyped'
    BY <2>1, <2>2 DEF Typed, FcTyped, Held, Points
  <2>4. LineTyped'
    BY <2>1, FieldsKept DEF LineTyped
  <2>5. QED BY <2>1, <2>3, <2>4, FieldsKept DEF Typed
<1>3. QED BY <1>1, <1>2

LEMMA HeardTyped ==
  ASSUME Typed, acks # <<>>, setup' = setup, NEW at \in Places, at # "idle" \/ at = caller.at,
         caller.at = "idle" => at = "idle",
         caller' = [caller EXCEPT !.at = at, !.refused = Heard]
  PROVE  CallerTyped'
<1>1. Head(acks) \in Answers
  BY HeadTailProperties DEF Typed, LineTyped
<1>2. Heard \in BOOLEAN
  <2>1. Head(acks).ok \in BOOLEAN
    BY <1>1 DEF Answers
  <2>2. caller.refused \in BOOLEAN
    BY DEF Typed, CallerTyped, Callers
  <2>3. QED BY <2>1, <2>2, SetupTyped DEF Heard
<1>3. /\ caller'.made = caller.made /\ caller'.n = caller.n /\ caller'.step = caller.step
      /\ caller'.calls = caller.calls /\ caller'.at = at /\ caller'.refused = Heard
      /\ caller' = [at |-> caller'.at, calls |-> caller'.calls, step |-> caller'.step,
                    made |-> caller'.made, n |-> caller'.n, refused |-> caller'.refused]
  BY DEF Typed, CallerTyped, Callers
<1>4. caller' \in Callers /\ Callers' = Callers
  BY <1>2, <1>3, Numerals DEF Callers
<1>5. QED BY <1>3, <1>4 DEF Typed, CallerTyped, Sleeping

LEMMA ReadStepTyped ==
  ASSUME Typed, ReadStep
  PROVE  Typed'
<1>1. /\ acks # <<>> /\ acks' = Tail(acks) /\ acks \in Seq(Answers)
      /\ setup' = setup /\ fc' = fc /\ air' = air /\ apart' = apart
  BY DEF ReadStep, Wake, GetWaypointSettingsCallback, ReadCallback, Printed, Answered,
         Typed, LineTyped
<1>2. Head(acks) \in Answers /\ acks' \in Seq(Answers)
  BY <1>1, HeadTailProperties
<1>3. LineTyped' /\ FcTyped'
  BY <1>1, <1>2, FieldsKept DEF Typed, LineTyped
<1>5. CASE Wake
  <2>1. /\ wp' = wp /\ data' = data
        /\ caller' = [caller EXCEPT !.at = IF @ = "waiting" THEN "woken" ELSE @, !.refused = Heard]
    BY <1>5 DEF Wake
  <2>2. PICK at \in Places : at = IF caller.at = "waiting" THEN "woken" ELSE caller.at
    BY DEF Typed, CallerTyped, Callers, Places
  <2>3. CallerTyped'
    BY <1>1, <2>1, <2>2, HeardTyped
  <2>4. QED BY <1>1, <1>3, <2>1, <2>3, FieldsKept DEF Typed
<1>6. CASE GetWaypointSettingsCallback
  <2>1. data' = data /\ caller' = caller /\ wp' = [wp EXCEPT !.n = Head(acks).data]
        /\ Head(acks).kind = "settings"
    BY <1>6 DEF GetWaypointSettingsCallback
  <2>2. Head(acks).data \in 0 .. MaxPoints
    BY <1>2, <2>1 DEF Answers, Steers, Begins, Changes
  <2>3. wp' = [n |-> Head(acks).data, size |-> wp.size, points |-> wp.points]
    BY <2>1 DEF Typed, WpTyped
  <2>4. WpTyped'
    BY <1>1, <2>2, <2>3 DEF Typed, WpTyped, Held, Points
  <2>5. QED BY <1>1, <1>3, <2>1, <2>4, FieldsKept DEF Typed
<1>7. CASE ReadCallback
  <2>1. wp' = wp /\ caller' = caller /\ data' = With(data, Head(acks).data) /\ Head(acks).kind = "readOrbit"
    BY <1>7 DEF ReadCallback
  <2>2. Head(acks).data \in [Circle -> Values]
    BY <1>2, <2>1 DEF Answers, Steers, Begins, Changes
  <2>3. DataTyped'
    BY <1>1, <2>1, <2>2, WithFields DEF Typed, DataTyped, Fields
  <2>4. QED BY <1>1, <1>3, <2>1, <2>3, FieldsKept DEF Typed
<1>8. CASE Printed
  <2>1. /\ wp' = wp /\ data' = data
        /\ caller' = [caller EXCEPT !.refused = Heard]
    BY <1>8 DEF Printed
  <2>2. caller.at \in Places /\ caller' = [caller EXCEPT !.at = caller.at, !.refused = Heard]
    BY <2>1 DEF Typed, CallerTyped, Callers
  <2>3. CallerTyped'
    BY <1>1, <2>2, HeardTyped
  <2>4. QED BY <1>1, <1>3, <2>1, <2>3, FieldsKept DEF Typed
<1>9. QED BY <1>5, <1>6, <1>7, <1>8 DEF ReadStep

LEMMA Sendable ==
  ASSUME NEW s, NEW back \in Backs
  PROVE  /\ back \in Plain => \A n \in 0 .. MaxPoints : [kind |-> "init", arg |-> n, back |-> back] \in Cmds(s)
         /\ \A pos \in Posns, p \in Pts(s) : [kind |-> "add", arg |-> <<pos, p>>, back |-> back] \in Cmds(s)
         /\ \A kind \in Steers : \A g \in [About(kind) -> Values] :
              [kind |-> kind, arg |-> g, back |-> back] \in Cmds(s)
         /\ \A kind \in {"start"} \cup Reads : [kind |-> kind, arg |-> 0, back |-> back] \in Cmds(s)
         /\ \A u \in s.stops : [kind |-> "stop", arg |-> u, back |-> back] \in Cmds(s)
<1>1. ASSUME NEW kind \in Steers, NEW g \in [About(kind) -> Values]
      PROVE  [kind |-> kind, arg |-> g, back |-> back] \in Cmds(s)
  <2>1. g \in Settings
    BY AboutFields DEF Settings
  <2>2. QED BY <2>1 DEF Cmds
<1>2. back \in Plain => \A n \in 0 .. MaxPoints : [kind |-> "init", arg |-> n, back |-> back] \in Cmds(s)
  BY DEF Cmds
<1>3. \A pos \in Posns, p \in Pts(s) : [kind |-> "add", arg |-> <<pos, p>>, back |-> back] \in Cmds(s)
  BY DEF Cmds
<1>4. QED BY <1>1, <1>2, <1>3 DEF Cmds

LEMMA CarriedTyped ==
  /\ {"orbit", "follow", "rate", "radius", "aim"} \subseteq Steers /\ Plain \subseteq Backs
  /\ {"callback", "none"} \subseteq Backs
  /\ Typed => [f \in Circle |-> data[f]] \in [About("orbit") -> Values]
  /\ \A v \in Values : /\ [rate |-> v] \in [About("rate") -> Values]
                       /\ [radius |-> v] \in [About("radius") -> Values]
                       /\ [target |-> v] \in [About("follow") -> Values]
                       /\ [target |-> v] \in [About("aim") -> Values]
<1>1. Typed => [f \in Circle |-> data[f]] \in [About("orbit") -> Values]
  BY DEF Typed, DataTyped, About, Fields
<1>2. ASSUME NEW v \in Values
      PROVE  /\ [rate |-> v] \in [About("rate") -> Values]
             /\ [radius |-> v] \in [About("radius") -> Values]
             /\ [target |-> v] \in [About("follow") -> Values]
             /\ [target |-> v] \in [About("aim") -> Values]
  BY DEF About
<1>3. {"orbit", "follow", "rate", "radius", "aim"} \subseteq Steers
  BY DEF Steers, Begins, Changes
<1>4. Plain \subseteq Backs /\ {"callback", "none"} \subseteq Backs
  BY DEF Plain, Backs
<1>5. QED BY <1>1, <1>2, <1>3, <1>4

LEMMA InitMissionTyped ==
  ASSUME Typed, MayCall, caller.step \in {0, 1}, NEW n \in 1 .. MaxPoints, InitMission(n)
  PROVE  Typed'
<1>1. PICK back \in Plain :
        /\ (back = "wait") \in setup.blocking /\ Send("init", n, back)
        /\ caller' = [Making(n) EXCEPT !.at = IF back = "wait" THEN "waiting" ELSE "idle",
                                       !.calls = IF caller.step > 0 THEN @ ELSE @ + 1]
  BY DEF InitMission, CommandOf
<1>2. /\ setup' = setup /\ fc' = fc /\ acks' = acks /\ data' = data /\ apart' = apart
      /\ wp' = [n |-> n, size |-> None, points |-> <<>>]
  BY DEF InitMission, CommandOf
<1>3. (air \in Seq(Cmds(setup)))'
  <2>1. [kind |-> "init", arg |-> n, back |-> back] \in Cmds(setup)
    BY Sendable, CarriedTyped, Bound
  <2>2. QED BY <1>1, <1>2, <2>1, SentTyped DEF Send
<1>4. WpTyped'
  BY <1>2, Bound DEF WpTyped, Held
<1>5. /\ caller'.made = caller.made + 1 /\ caller'.n = n /\ caller'.step = caller.step
      /\ caller'.calls = (IF caller.step > 0 THEN caller.calls ELSE caller.calls + 1)
      /\ caller'.refused = FALSE
      /\ caller' = [at |-> caller'.at, calls |-> caller'.calls, step |-> caller'.step,
                    made |-> caller'.made, n |-> caller'.n, refused |-> caller'.refused]
  BY <1>1 DEF Typed, CallerTyped, Callers, Making
<1>6. caller'.at = IF back = "wait" THEN "waiting" ELSE "idle"
  BY <1>1 DEF Typed, CallerTyped, Callers, Making
<1>7. caller.step = 1 => caller.made < caller.calls
  BY DEF Typed, CallerTyped, MayCall
<1>8. caller'.calls \in 0 .. setup.calls /\ caller'.made <= caller'.calls
  <2>1. caller.made <= caller.calls
    BY DEF Typed, CallerTyped
  <2>2. QED BY <1>5, <1>7, <2>1, Numerals DEF MayCall
<1>9. caller'.step = 1 /\ caller'.at = "idle" => caller'.made < caller'.calls
  <2>1. caller.step > 0 => setup.blocking = {TRUE}
    BY SetupTyped DEF Typed, CallerTyped
  <2>2. caller'.step = 1 => caller.step > 0
    BY <1>5
  <2>3. setup.blocking = {TRUE} => back = "wait"
    BY <1>1
  <2>4. QED BY <1>6, <2>1, <2>2, <2>3
<1>10. caller' \in Callers /\ Callers' = Callers
  <2>1. caller'.at \in Places
    BY <1>6 DEF Places
  <2>2. caller'.made \in 0 .. setup.calls /\ caller'.n \in 0 .. MaxPoints
    BY <1>5, <1>8, Numerals
  <2>3. QED BY <1>2, <1>5, <1>8, <2>1, <2>2, Numerals DEF Callers
<1>11. CallerTyped'
  <2>1. caller'.step # Sleeping
    BY <1>5, Bound DEF Sleeping
  <2>2. caller'.made # 0 /\ caller'.n # 0
    BY <1>5, Numerals
  <2>3. caller'.step > 0 => "example" \in setup.uses
    BY <1>5 DEF Typed, CallerTyped
  <2>4. QED BY <1>2, <1>8, <1>9, <1>10, <2>1, <2>2, <2>3 DEF CallerTyped, Sleeping
<1>12. (acks \in Seq(Answers))' /\ FcTyped' /\ DataTyped' /\ (setup \in Setups)'
  BY <1>2, FieldsKept DEF Typed
<1>13. QED BY <1>3, <1>4, <1>11, <1>12 DEF Typed, LineTyped

\* A call that sends a command and leaves the objects right.
LEMMA CallTyped ==
  ASSUME Typed, MayCall, NEW kind, NEW arg, NEW backs, Command(kind, arg, backs),
         \A back \in backs : [kind |-> kind, arg |-> arg, back |-> back] \in Cmds(setup),
         WpTyped', DataTyped'
  PROVE  Typed'
<1>1. /\ setup' = setup /\ fc' = fc /\ acks' = acks
      /\ (air \in Seq(Cmds(setup)))' /\ CallerTyped'
  BY CommandKeeps
<1>2. (acks \in Seq(Answers))' /\ FcTyped'
  BY <1>1, FieldsKept
<1>3. QED BY <1>1, <1>2 DEF Typed, LineTyped

\* Calls that send nothing of their own, or nothing that is waited for, and calls that end.
LEMMA CountedTyped ==
  ASSUME Typed, MayCall, setup' = setup, NEW at \in Places, at # "idle" \/ caller.step = 0,
         caller' = [caller EXCEPT !.at = at, !.calls = IF caller.step > 0 THEN @ ELSE @ + 1]
  PROVE  CallerTyped'
<1>1. caller.step = 0 => caller.calls + 1 \in 0 .. setup.calls
  BY Numerals, Bound DEF MayCall, Sleeping
<1>2. /\ caller'.made = caller.made /\ caller'.n = caller.n /\ caller'.step = caller.step
      /\ caller'.calls = (IF caller.step > 0 THEN caller.calls ELSE caller.calls + 1)
      /\ caller'.at = at /\ caller'.refused \in BOOLEAN
      /\ caller' = [at |-> caller'.at, calls |-> caller'.calls, step |-> caller'.step,
                    made |-> caller'.made, n |-> caller'.n, refused |-> caller'.refused]
  BY DEF Typed, CallerTyped, Callers
<1>3. caller'.calls \in 0 .. setup.calls /\ caller'.calls >= caller.calls
  BY <1>1, <1>2, Numerals
<1>4. caller' \in Callers /\ Callers' = Callers
  BY <1>2, <1>3, Numerals DEF Callers
<1>5. caller.made <= caller.calls /\ (caller.made = 0 <=> caller.n = 0)
      /\ (caller.step > 0 => "example" \in setup.uses)
  BY DEF Typed, CallerTyped
<1>6. caller'.step # Sleeping
  BY <1>2, Numerals, Bound DEF MayCall, Sleeping
<1>7. caller'.made <= caller'.calls
  BY <1>2, <1>3, <1>5, Numerals
<1>8. ~(caller'.step = 1 /\ caller'.at = "idle")
  BY <1>2
<1>9. QED BY <1>2, <1>4, <1>5, <1>6, <1>7, <1>8 DEF CallerTyped, Sleeping

LEMMA CountedHere ==
  ASSUME Typed, MayCall, caller.step = 0, setup' = setup, caller' = [caller EXCEPT !.calls = @ + 1]
  PROVE  CallerTyped'
<1>1. caller.at \in Places /\ caller \in Callers
  BY DEF Typed, CallerTyped, Callers
<1>2. ~(caller.step > 0)
  BY Bound
<1>3. caller' = [caller EXCEPT !.at = caller.at, !.calls = IF caller.step > 0 THEN @ ELSE @ + 1]
  BY <1>1, <1>2 DEF Callers
<1>4. QED BY <1>1, <1>3, CountedTyped

LEMMA CrashTyped ==
  ASSUME Typed, MayCall, Crash
  PROVE  Typed'
<1>1. /\ caller' = [caller EXCEPT !.at = "crashed"]
      /\ setup' = setup /\ wp' = wp /\ data' = data /\ apart' = apart
      /\ fc' = fc /\ air' = air /\ acks' = acks
  BY DEF Crash, objects
<1>2. CallerTyped'
  <2>1. caller' \in Callers /\ Callers' = Callers
    BY <1>1 DEF Typed, CallerTyped, Callers, Places
  <2>2. /\ caller'.made = caller.made /\ caller'.n = caller.n /\ caller'.step = caller.step
        /\ caller'.calls = caller.calls /\ caller'.at = "crashed"
    BY <1>1 DEF Typed, CallerTyped, Callers
  <2>3. caller.step # Sleeping
    BY Bound DEF MayCall, Sleeping
  <2>4. QED BY <1>1, <2>1, <2>2, <2>3 DEF Typed, CallerTyped, Sleeping
<1>3. QED BY <1>1, <1>2, FieldsKept DEF Typed, LineTyped

\* uploadIndexData of a point of the program's own, or of the example's next one.
LEMMA UploadTyped ==
  ASSUME Typed, MayCall, NEW pos \in Posns, Upload(pos)
  PROVE  Typed'
<1>1. CASE pos >= Table(pos).size /\ Crash
  BY <1>1, CrashTyped
<1>2. CASE /\ pos < Table(pos).size /\ wp' = Table(pos) /\ UNCHANGED <<data, apart>>
           /\ Command("add", <<pos, Point>>, Plain)
  <2>1. setup' = setup
    BY <1>2 DEF Command, CommandOf
  <2>2. WpTyped'
    BY <1>2, <2>1, TableTyped
  <2>3. \A back \in Plain : [kind |-> "add", arg |-> <<pos, Point>>, back |-> back] \in Cmds(setup)
    BY Sendable, SetupTyped, CarriedTyped
  <2>4. DataTyped'
    BY <1>2, <2>1, FieldsKept
  <2>5. QED BY <1>2, <2>2, <2>3, <2>4, CallTyped
<1>3. ASSUME pos < Table(pos).size, wp' = Table(pos), UNCHANGED <<data, apart>>,
             NEW blocking \in setup.blocking,
             caller' = [caller EXCEPT !.at = IF blocking THEN "thrown" ELSE @,
                                      !.calls = IF caller.step > 0 THEN @ ELSE @ + 1],
             UNCHANGED <<setup, fc, air, acks>>
      PROVE  Typed'
  <2>1. PICK at \in Places : /\ at = IF blocking THEN "thrown" ELSE caller.at
                             /\ at # "idle" \/ ~blocking
    BY DEF Places, Typed, CallerTyped, Callers
  <2>2. ~blocking => caller.step = 0
    <3>1. caller.step > 0 => setup.blocking = {TRUE}
      BY SetupTyped DEF Typed, CallerTyped
    <3>2. setup.blocking = {TRUE} => blocking
      BY <1>3
    <3>3. caller.step > 0 \/ caller.step = 0
      BY Numerals, Bound
    <3>4. QED BY <3>1, <3>2, <3>3
  <2>3. caller' = [caller EXCEPT !.at = at, !.calls = IF caller.step > 0 THEN @ ELSE @ + 1]
    BY <1>3, <2>1
  <2>4. CallerTyped'
    BY <1>3, <2>1, <2>2, <2>3, CountedTyped
  <2>5. WpTyped'
    BY <1>3, TableTyped
  <2>6. QED BY <1>3, <2>4, <2>5, FieldsKept DEF Typed, LineTyped
<1>4. QED BY <1>1, <1>2, <1>3 DEF Upload

LEMMA OwnCallTyped ==
  ASSUME Typed, OwnCall
  PROVE  Typed'
<1>1. MayCall /\ caller.step = 0 /\ caller.at = "idle"
  BY DEF OwnCall, Free, MayCall
<1> DEFINE Fits(kind, arg, backs) ==
             \A back \in backs : [kind |-> kind, arg |-> arg, back |-> back] \in Cmds(setup)
<1>2. ASSUME NEW kind, NEW arg, NEW backs, Fits(kind, arg, backs), Command(kind, arg, backs),
             wp' = wp, data' \in [Fields -> Values], apart' \in SUBSET Fields
      PROVE  Typed'
  <2>1. setup' = setup
    BY <1>2 DEF Command, CommandOf
  <2>2. WpTyped' /\ DataTyped'
    BY <1>2, <2>1, FieldsKept DEF DataTyped
  <2>3. QED BY <1>1, <1>2, <2>2, CallTyped
<1> HIDE DEF Fits
<1>3. data \in [Fields -> Values] /\ apart \in SUBSET Fields
  BY DEF Typed, DataTyped
<1>4. CASE Announce
  BY <1>1, <1>4, InitMissionTyped DEF Announce
<1>5. CASE WaypointCalls
  <2>1. CASE InitAgain
    <3>1. Fits("init", wp.n, Plain)
      BY Sendable, Numerals, CarriedTyped DEF Fits
    <3>2. QED BY <2>1, <1>2, <1>3, <3>1 DEF InitAgain, objects
  <2>2. CASE \E pos \in 0 .. caller.n - 1 : Upload(pos)
    <3>1. 0 .. caller.n - 1 \subseteq Posns
      BY Numerals, Bound DEF Posns
    <3>2. QED BY <1>1, <2>2, <3>1, UploadTyped
  <2>3. CASE \E pos \in IF setup.careless THEN 0 .. caller.n - 1 ELSE DOMAIN wp.points : UploadAgain(pos)
    <3>1. PICK pos \in Posns : UploadAgain(pos)
      <4>1. 0 .. caller.n - 1 \subseteq Posns /\ DOMAIN wp.points \subseteq Posns
        BY Numerals, Bound DEF Posns, Typed, WpTyped, Held
      <4>2. QED BY <2>3, <4>1
    <3>2. CASE Crash
      BY <1>1, <3>2, CrashTyped
    <3>3. CASE /\ Command("add", <<pos, IF pos \in DOMAIN wp.points THEN wp.points[pos] ELSE Junk>>, {"printed"})
               /\ UNCHANGED objects
      <4>1. Junk \in Points
        BY Numerals, Bound DEF Junk, Points
      <4>2. PICK p \in Points : p = IF pos \in DOMAIN wp.points THEN wp.points[pos] ELSE Junk
        BY <4>1 DEF Typed, WpTyped, Held
      <4>3. Fits("add", <<pos, p>>, {"printed"})
        BY Sendable, SetupTyped DEF Fits, Backs
      <4>4. Command("add", <<pos, p>>, {"printed"}) /\ UNCHANGED objects
        BY <3>3, <4>2
      <4>5. QED BY <1>2, <1>3, <4>3, <4>4 DEF objects
    <3>4. QED BY <3>1, <3>2, <3>3 DEF UploadAgain
  <2>4. CASE Start
    <3>1. Fits("start", 0, Plain)
      BY Sendable, CarriedTyped DEF Fits
    <3>2. QED BY <2>4, <1>2, <1>3, <3>1 DEF Start, objects
  <2>5. CASE GetWaypointSettings
    <3>1. Fits("settings", 0, {"wait", "callback"})
      BY Sendable DEF Fits, Backs, Reads
    <3>2. QED BY <2>5, <1>2, <1>3, <3>1 DEF GetWaypointSettings, objects
  <2>6. QED BY <1>5, <2>1, <2>2, <2>3, <2>4, <2>5 DEF WaypointCalls
<1>6. ASSUME NEW fields \in SUBSET Fields
      PROVE  apart \ fields \in SUBSET Fields /\ apart \cup fields \in SUBSET Fields
  BY <1>3
<1>7. {"rate"} \in SUBSET Fields /\ {"radius"} \in SUBSET Fields /\ {"target"} \in SUBSET Fields
      /\ Circle \in SUBSET Fields
  BY DEF Fields, Circle
<1>8. ASSUME NEW fields \in SUBSET Fields, NEW values \in [fields -> Values], SetFields(values)
      PROVE  Typed'
  <2>1. data' = With(data, values) /\ apart' = apart \cup DOMAIN values /\ wp' = wp
        /\ caller' = [caller EXCEPT !.calls = @ + 1] /\ UNCHANGED <<setup, fc, air, acks>>
    BY <1>8 DEF SetFields, Parts, Local
  <2>2. DataTyped'
    BY <1>3, <2>1, WithFields DEF DataTyped
  <2>3. CallerTyped'
    BY <1>1, <2>1, CountedHere
  <2>4. QED BY <2>1, <2>2, <2>3, FieldsKept DEF Typed, LineTyped
<1>9. CASE HotpointCalls
  <2>1. CASE StartHotpoint
    <3>1. Fits("orbit", [f \in Circle |-> data[f]], Plain)
      BY Sendable, CarriedTyped DEF Fits
    <3>2. apart' \in SUBSET Fields /\ data' = data /\ wp' = wp
      BY <2>1, <1>6, <1>7 DEF StartHotpoint, Sends, Parts, Meets
    <3>3. QED BY <2>1, <1>2, <1>3, <3>1, <3>2 DEF StartHotpoint
  <2>2. ASSUME NEW v \in Values, UpdateYawRate(v)
        PROVE  Typed'
    <3>1. Fits("rate", [rate |-> v], Plain)
      BY Sendable, CarriedTyped DEF Fits
    <3>2. apart' \in SUBSET Fields /\ wp' = wp
      BY <2>2, <1>6, <1>7 DEF UpdateYawRate, Sends, Parts, Meets
    <3>3. data' \in [Fields -> Values]
      BY <1>3, <2>2 DEF UpdateYawRate
    <3>4. QED BY <2>2, <1>2, <3>1, <3>2, <3>3 DEF UpdateYawRate
  <2>3. ASSUME NEW v \in Values, UpdateRadius(v)
        PROVE  Typed'
    <3>1. Fits("radius", [radius |-> v], Plain)
      BY Sendable, CarriedTyped DEF Fits
    <3>2. apart' \in SUBSET Fields /\ data' = data /\ wp' = wp
      BY <2>3, <1>6, <1>7 DEF UpdateRadius, Parts
    <3>3. QED BY <2>3, <1>2, <1>3, <3>1, <3>2 DEF UpdateRadius
  <2>4. CASE ReadData
    <3>1. apart' \in SUBSET Fields /\ data' = data /\ wp' = wp
      BY <2>4, <1>3, <1>6, <1>7 DEF ReadData, Meets
    <3>2. Fits("readOrbit", 0, Plain) /\ Fits("readOrbit", 0, {"callback"})
      BY Sendable, CarriedTyped DEF Fits, Reads
    <3>3. QED BY <2>4, <1>2, <1>3, <3>1, <3>2 DEF ReadData
  <2>5. CASE SetHotpoint
    <3>1. PICK fields \in SUBSET Circle \ {{}} : \E values \in [fields -> Values] : SetFields(values)
      BY <2>5 DEF SetHotpoint
    <3>2. fields \in SUBSET Fields
      BY DEF Fields
    <3>3. QED BY <1>8, <3>1, <3>2
  <2>6. QED BY <1>9, <2>1, <2>2, <2>3, <2>4, <2>5 DEF HotpointCalls
<1>10. CASE FollowCalls
  <2>1. ASSUME NEW v \in Values, StartFollow(v)
        PROVE  Typed'
    <3>1. Fits("follow", [target |-> v], Plain)
      BY Sendable, CarriedTyped DEF Fits
    <3>2. apart' \in SUBSET Fields /\ wp' = wp
      BY <2>1, <1>6, <1>7 DEF StartFollow, Meets
    <3>3. data' \in [Fields -> Values]
      BY <1>3, <2>1 DEF StartFollow
    <3>4. QED BY <2>1, <1>2, <3>1, <3>2, <3>3 DEF StartFollow
  <2>2. ASSUME NEW v \in Values, UpdateTarget(v)
        PROVE  Typed'
    <3>1. /\ setup' = setup /\ wp' = wp /\ fc' = fc /\ acks' = acks
          /\ data' = [data EXCEPT !.target = v] /\ apart' = apart \ {"target"}
          /\ caller' = [caller EXCEPT !.calls = @ + 1]
          /\ air' = Append(air, [kind |-> "aim", arg |-> [target |-> v], back |-> "none"])
      BY <2>2 DEF UpdateTarget, Send, Meets
    <3>2. CallerTyped'
      BY <1>1, <3>1, CountedHere
    <3>3. [kind |-> "aim", arg |-> [target |-> v], back |-> "none"] \in Cmds(setup)
      BY Sendable, CarriedTyped
    <3>4. (air \in Seq(Cmds(setup)))'
      BY <3>1, <3>3, SentTyped
    <3>5. DataTyped'
      BY <1>3, <3>1 DEF DataTyped
    <3>6. QED BY <3>1, <3>2, <3>4, <3>5, FieldsKept DEF Typed, LineTyped
  <2>3. CASE SetFollow
    BY <1>7, <1>8, <2>3 DEF SetFollow
  <2>4. QED BY <1>10, <2>1, <2>2, <2>3 DEF FollowCalls
<1>11. ASSUME NEW mission \in setup.stops, Stop(mission)
       PROVE  Typed'
  <2>1. Fits("stop", mission, Plain)
    BY Sendable, CarriedTyped DEF Fits
  <2>2. QED BY <1>2, <1>3, <1>11, <2>1 DEF Stop, objects
<1>12. QED BY <1>4, <1>5, <1>9, <1>10, <1>11 DEF OwnCall

LEMMA MainStepTyped ==
  ASSUME Typed, MainStep
  PROVE  Typed'
<1> DEFINE Fixed == /\ setup' = setup /\ wp' = wp /\ data' = data /\ apart' = apart
                    /\ fc' = fc /\ air' = air /\ acks' = acks
<1>1. CASE OwnCall
  BY <1>1, OwnCallTyped
<1>2. CASE Begin
  <2>1. /\ caller' = [caller EXCEPT !.calls = @ + 1, !.step = 1] /\ Fixed
        /\ caller.calls < setup.calls /\ "example" \in setup.uses
    BY <1>2 DEF Begin, Free, objects
  <2>2. /\ caller' \in Callers /\ Callers' = Callers
        /\ caller'.calls = caller.calls + 1 /\ caller'.made = caller.made /\ caller'.n = caller.n
        /\ caller'.step = 1
    <3>1. caller.calls + 1 \in 0 .. setup.calls /\ 1 \in 0 .. Sleeping
      BY <2>1, Numerals, Bound
    <3>2. QED BY <2>1, <3>1 DEF Typed, CallerTyped, Callers
  <2>3. caller'.made <= caller'.calls /\ caller'.made < caller'.calls /\ caller'.step # Sleeping
    <3>1. caller.made <= caller.calls
      BY DEF Typed, CallerTyped
    <3>2. QED BY <2>2, <3>1, Numerals, Bound
  <2>4. (caller.made = 0 <=> caller.n = 0)'
    BY <2>2 DEF Typed, CallerTyped
  <2>5. CallerTyped'
    BY <2>1, <2>2, <2>3, <2>4 DEF CallerTyped, Sleeping
  <2>6. QED BY <2>1, <2>5, FieldsKept DEF Typed, LineTyped
<1>3. CASE Example
  <2>1. MayCall /\ caller.step \in 1 .. MaxPoints + 2 /\ ExampleCall(caller.step)
    BY <1>3, Bound DEF Example, MayCall, Sleeping
  <2>2. CASE caller.step = 1
    <3>1. InitMission(MaxPoints) /\ MaxPoints \in 1 .. MaxPoints
      BY <2>1, <2>2, Bound DEF ExampleCall
    <3>2. QED BY <2>1, <2>2, <3>1, InitMissionTyped
  <2>3. CASE caller.step \in 2 .. MaxPoints + 1
    <3>1. Upload(caller.step - 2)
      BY <2>1, <2>3, Bound DEF ExampleCall
    <3>2. caller.step - 2 \in Posns
      BY <2>3, Bound DEF Posns
    <3>3. QED BY <2>1, <3>1, <3>2, UploadTyped
  <2>4. CASE caller.step = MaxPoints + 2
    <3>1. Command("start", 0, Plain) /\ UNCHANGED objects
      BY <2>1, <2>4, Bound DEF ExampleCall, Start
    <3>2. \A back \in Plain : [kind |-> "start", arg |-> 0, back |-> back] \in Cmds(setup)
      BY Sendable, CarriedTyped
    <3>3. setup' = setup /\ wp' = wp /\ data' = data /\ apart' = apart
      BY <3>1 DEF Command, CommandOf, objects
    <3>4. WpTyped' /\ DataTyped'
      BY <3>3, FieldsKept DEF Typed
    <3>5. QED BY <2>1, <3>1, <3>2, <3>4, CallTyped
  <2>5. QED BY <2>1, <2>2, <2>3, <2>4, Bound
<1>4. CASE Resume
  <2>1. /\ caller.at \in {"woken", "waiting"}
        /\ caller' = [caller EXCEPT !.at = "idle", !.step = IF @ > 0 THEN @ + 1 ELSE 0] /\ Fixed
    BY <1>4 DEF Resume, objects
  <2>2. caller.step # Sleeping
    BY <2>1 DEF Typed, CallerTyped
  <2>3. caller.step + 1 \in 0 .. Sleeping
    BY <2>2, Numerals, Bound
  <2>4. /\ caller' \in Callers /\ Callers' = Callers
        /\ caller'.calls = caller.calls /\ caller'.made = caller.made /\ caller'.n = caller.n
        /\ caller'.step = IF caller.step > 0 THEN caller.step + 1 ELSE 0
        /\ caller'.at = "idle"
    <3>1. 0 \in 0 .. Sleeping
      BY Numerals, Bound
    <3>2. QED BY <2>1, <2>3, <3>1 DEF Typed, CallerTyped, Callers, Places
  <2>5. caller'.step # 1
    BY <2>4, Numerals
  <2>6. caller'.step > 0 => "example" \in setup.uses
    BY <2>4 DEF Typed, CallerTyped
  <2>7. caller'.made <= caller'.calls /\ (caller.made = 0 <=> caller.n = 0)'
    BY <2>4 DEF Typed, CallerTyped
  <2>8. CallerTyped'
    BY <2>1, <2>4, <2>5, <2>6, <2>7 DEF CallerTyped, Sleeping
  <2>9. QED BY <2>1, <2>8, FieldsKept DEF Typed, LineTyped
<1>5. CASE SleepOver \/ Catch
  <2>1. /\ \/ caller' = [caller EXCEPT !.step = 0]
           \/ caller' = [caller EXCEPT !.at = "idle"] /\ caller.step = 0
        /\ Fixed
    BY <1>5 DEF SleepOver, Catch, objects
  <2>2. /\ caller' \in Callers /\ Callers' = Callers
        /\ caller'.calls = caller.calls /\ caller'.made = caller.made /\ caller'.n = caller.n
        /\ caller'.step = 0
    <3>1. 0 \in 0 .. Sleeping
      BY Numerals, Bound
    <3>2. QED BY <2>1, <3>1 DEF Typed, CallerTyped, Callers, Places
  <2>3. caller'.step # Sleeping /\ ~(caller'.step > 0) /\ caller'.step # 1
    BY <2>2, Bound DEF Sleeping
  <2>4. caller'.made <= caller'.calls /\ (caller.made = 0 <=> caller.n = 0)'
    BY <2>2 DEF Typed, CallerTyped
  <2>5. CallerTyped'
    BY <2>1, <2>2, <2>3, <2>4 DEF CallerTyped, Sleeping
  <2>6. QED BY <2>1, <2>5, FieldsKept DEF Typed, LineTyped
<1>6. QED BY <1>1, <1>2, <1>3, <1>4, <1>5 DEF MainStep

LEMMA InitTyped == Init => Typed
<1> SUFFICES ASSUME Init PROVE Typed
  OBVIOUS
<1>1. /\ setup \in Setups /\ setup.calls \in Nat
      /\ wp = [n |-> 0, size |-> None, points |-> <<>>]
      /\ data = Defaults(Fields) /\ apart = {}
      /\ fc = [flies |-> "none", n |-> 0, points |-> <<>>, flown |-> <<>>, has |-> Defaults(Fields)]
      /\ air = <<>> /\ acks = <<>>
      /\ caller = [at |-> "idle", calls |-> 0, step |-> 0, made |-> 0, n |-> 0, refused |-> FALSE]
  BY UsesAssumption DEF Init
<1>2. Defaults(Fields) \in [Fields -> Values]
  BY DEF Defaults, Values
<1>3. WpTyped /\ FcTyped /\ DataTyped
  BY <1>1, <1>2, Bound DEF WpTyped, FcTyped, DataTyped, Held
<1>4. LineTyped
  BY <1>1 DEF LineTyped
<1>5. CallerTyped
  BY <1>1, Bound DEF CallerTyped, Callers, Places, Sleeping
<1>6. QED BY <1>1, <1>3, <1>4, <1>5 DEF Typed

LEMMA NextTyped == Typed /\ [Next]_vars => Typed'
<1> SUFFICES ASSUME Typed, [Next]_vars PROVE Typed'
  OBVIOUS
<1>1. CASE UNCHANGED vars
  BY <1>1, FieldsKept DEF vars, objects, Typed, LineTyped
<1>2. QED
  BY <1>1, FcStepTyped, LineStepTyped, ReadStepTyped, MainStepTyped DEF Next

-----------------------------------------------------------------------------
(* One mission at a time *)

\* The line as places: the flight controller with its points f and its settings n (0),
\* the commands a, and last what main would upload next, p.  A place tells points,
\* announces settings, and an init on its way keeps what is before it apart from what is
\* after it: places it does not keep apart are of one mission.
Told(f, a, p, i)   == IF i = 0 THEN {f[k] : k \in DOMAIN f}
                      ELSE IF i = Len(a) + 1 THEN {p}
                      ELSE IF a[i].kind = "add" THEN {a[i].arg[2]} ELSE {}
Announced(n, a, i) == IF i = 0 THEN {n}
                      ELSE IF i \in DOMAIN a /\ a[i].kind = "init" THEN {a[i].arg} ELSE {}
Parted(a, i, j)     == \E k \in DOMAIN a : i < k /\ k < j /\ a[k].kind = "init"
Together(f, n, a, p, i, j) ==
  /\ \A x \in Told(f, a, p, i), y \in Told(f, a, p, j) : x = y
  /\ \A c \in Announced(n, a, i), y \in Told(f, a, p, j) : y.n = c
OneMission(f, n, a, p) ==
  \A i, j \in 0 .. Len(a) + 1 : i <= j /\ ~Parted(a, i, j) => Together(f, n, a, p, i, j)

\* A point of the mission, or an init with the settings of the next one, is sent.
LEMMA OneSent ==
  ASSUME NEW S, NEW a \in Seq(S), NEW m \in S, NEW f, NEW n, NEW p, NEW q,
         OneMission(f, n, a, p),
         \/ m.kind # "init" /\ (m.kind = "add" => m.arg[2] = p) /\ q = p
         \/ m.kind = "init" /\ q.n = m.arg
  PROVE  OneMission(f, n, Append(a, m), q)
<1> DEFINE b == Append(a, m)
           L == Len(a)
<1>1. /\ L \in Nat /\ Len(b) = L + 1 /\ DOMAIN a = 1 .. L /\ DOMAIN b = 1 .. L + 1
      /\ (\A i \in 1 .. L : b[i] = a[i]) /\ b[L + 1] = m
  BY Added
<1> HIDE DEF b
<1>2. SUFFICES ASSUME NEW i \in 0 .. L + 2, NEW j \in 0 .. L + 2, i <= j, ~Parted(b, i, j)
               PROVE  Together(f, n, b, q, i, j)
  BY <1>1 DEF OneMission, b
<1>3. \A k \in 0 .. L : /\ Told(f, b, q, k) = Told(f, a, p, k)
                        /\ Announced(n, b, k) = Announced(n, a, k)
  <2>1. ASSUME NEW k \in 1 .. L
        PROVE  Told(f, b, q, k) = Told(f, a, p, k) /\ Announced(n, b, k) = Announced(n, a, k)
    <3>1. k # 0 /\ k # L + 1 /\ k # Len(b) + 1 /\ k \in DOMAIN a /\ k \in DOMAIN b /\ b[k] = a[k]
      BY <1>1, <2>1
    <3>2. QED BY <3>1 DEF Told, Announced
  <2>2. Told(f, b, q, 0) = Told(f, a, p, 0) /\ Announced(n, b, 0) = Announced(n, a, 0)
    BY DEF Told, Announced
  <2>3. \A k \in 0 .. L : k = 0 \/ k \in 1 .. L
    BY <1>1
  <2>4. QED BY <2>1, <2>2, <2>3
<1>4. CASE m.kind # "init" /\ (m.kind = "add" => m.arg[2] = p) /\ q = p
  <2> DEFINE Old(k) == IF k = L + 2 THEN L + 1 ELSE k
  <2>1. \A k \in 0 .. L + 2 : /\ Told(f, b, q, k) \subseteq Told(f, a, p, Old(k))
                              /\ Announced(n, b, k) \subseteq Announced(n, a, Old(k))
    <3>1. /\ Told(f, b, q, L + 1) \subseteq Told(f, a, p, L + 1)
          /\ Told(f, b, q, L + 2) \subseteq Told(f, a, p, L + 1)
      BY <1>1, <1>4 DEF Told
    <3>2. Announced(n, b, L + 1) = {} /\ Announced(n, b, L + 2) = {}
      BY <1>1, <1>4 DEF Announced
    <3>3. \A k \in 0 .. L + 2 : k \in 0 .. L \/ k = L + 1 \/ k = L + 2
      BY <1>1
    <3>4. QED BY <1>1, <1>3, <3>1, <3>2, <3>3
  <2>2. Old(i) \in 0 .. L + 1 /\ Old(j) \in 0 .. L + 1 /\ Old(i) <= Old(j)
    BY <1>1, <1>2
  <2>3. ~Parted(a, Old(i), Old(j))
    BY <1>1, <1>2 DEF Parted
  <2>4. Together(f, n, a, p, Old(i), Old(j))
    BY <2>2, <2>3 DEF OneMission
  <2>5. QED BY <2>1, <2>4, <1>2 DEF Together
<1>5. CASE m.kind = "init" /\ q.n = m.arg
  <2>1. CASE j <= L
    <3>1. ~Parted(a, i, j) /\ i \in 0 .. L /\ j \in 0 .. L
      BY <1>1, <1>2, <2>1 DEF Parted
    <3>2. Together(f, n, a, p, i, j)
      BY <1>1, <1>2, <3>1 DEF OneMission
    <3>3. QED BY <1>3, <3>1, <3>2 DEF Together
  <2>2. CASE j = L + 1
    <3>1. Told(f, b, q, j) = {}
      BY <1>1, <1>5, <2>2 DEF Told
    <3>2. QED BY <3>1 DEF Together
  <2>3. CASE j = L + 2 /\ i <= L
    <3>1. Parted(b, i, j)
      BY <1>1, <1>2, <1>5, <2>3 DEF Parted
    <3>2. QED BY <1>2, <3>1
  <2>4. CASE j = L + 2 /\ i = L + 1
    <3>1. Told(f, b, q, i) = {} /\ Told(f, b, q, j) = {q} /\ Announced(n, b, i) = {m.arg}
      BY <1>1, <1>5, <2>4 DEF Told, Announced
    <3>2. QED BY <1>5, <3>1 DEF Together
  <2>5. CASE j = L + 2 /\ i = L + 2
    <3>1. Told(f, b, q, i) = {q} /\ Announced(n, b, i) = {}
      BY <1>1, <2>5 DEF Told, Announced
    <3>2. QED BY <2>5, <3>1 DEF Together
  <2>6. QED BY <1>1, <1>2, <2>1, <2>2, <2>3, <2>4, <2>5
<1>6. QED BY <1>4, <1>5

LEMMA Inner ==
  ASSUME NEW l \in Nat, NEW k \in 1 .. l, k # l
  PROVE  k \in 1 .. l - 1 /\ k + 1 \in 1 .. l /\ k # 0 /\ k + 1 # 0 /\ k + 1 # l + 1
  OBVIOUS

\* The first command reaches the flight controller, which has g and the settings o then.
LEMMA OneTaken ==
  ASSUME NEW a, NEW b, Len(a) \in Nat \ {0}, DOMAIN a = 1 .. Len(a),
         Len(b) = Len(a) - 1, DOMAIN b = 1 .. Len(b), \A k \in 1 .. Len(b) : b[k] = a[k + 1],
         NEW f, NEW n, NEW p, NEW g, NEW o, OneMission(f, n, a, p),
         \/ a[1].kind = "init" /\ o = a[1].arg /\ DOMAIN g = {}
         \/ /\ a[1].kind # "init" /\ o = n
            /\ \A k \in DOMAIN g : \/ \E l \in DOMAIN f : g[k] = f[l]
                                   \/ a[1].kind = "add" /\ g[k] = a[1].arg[2]
  PROVE  OneMission(g, o, b, p)
<1> DEFINE L == Len(a)
<1>1. L \in Nat /\ L >= 1 /\ Len(b) = L - 1
  OBVIOUS
<1>2. SUFFICES ASSUME NEW i \in 0 .. L, NEW j \in 0 .. L, i <= j, ~Parted(b, i, j)
               PROVE  Together(g, o, b, p, i, j)
  BY <1>1 DEF OneMission
<1>3. \A k \in 1 .. L : /\ Told(g, b, p, k) = Told(f, a, p, k + 1)
                        /\ Announced(o, b, k) = Announced(n, a, k + 1)
  <2>1. ASSUME NEW k \in 1 .. L
        PROVE  /\ Told(g, b, p, k) = Told(f, a, p, k + 1)
               /\ Announced(o, b, k) = Announced(n, a, k + 1)
    <3>1. CASE k = L
      BY <1>1, <3>1 DEF Told, Announced
    <3>2. CASE k # L
      <4>1. /\ k \in 1 .. Len(b) /\ k + 1 \in 1 .. L
            /\ k # 0 /\ k + 1 # 0 /\ k # Len(b) + 1 /\ k + 1 # L + 1
        <5>1. Len(b) + 1 = L
          BY <1>1
        <5>2. QED BY <1>1, <2>1, <3>2, <5>1, Inner
      <4>2. b[k] = a[k + 1] /\ k \in DOMAIN b /\ k + 1 \in DOMAIN a
        BY <4>1
      <4>3. QED BY <4>1, <4>2 DEF Told, Announced
    <3>3. QED BY <3>1, <3>2
  <2>2. QED BY <2>1
<1>4. CASE a[1].kind = "init" /\ o = a[1].arg /\ DOMAIN g = {}
  <2>1. Told(g, b, p, 0) = {} /\ Announced(o, b, 0) = Announced(n, a, 1)
    BY <1>1, <1>4 DEF Told, Announced
  <2>2. i + 1 \in 0 .. L + 1 /\ j + 1 \in 0 .. L + 1 /\ i + 1 <= j + 1
    BY <1>1, <1>2
  <2>3. ~Parted(a, i + 1, j + 1)
    <3>1. ASSUME NEW k \in 1 .. L, i + 1 < k, k < j + 1, a[k].kind = "init"
          PROVE  FALSE
      <4>1. k - 1 \in 1 .. Len(b) /\ b[k - 1] = a[k] /\ i < k - 1 /\ k - 1 < j
        BY <1>1, <1>2, <3>1
      <4>2. QED BY <1>2, <3>1, <4>1 DEF Parted
    <3>2. QED BY <3>1 DEF Parted
  <2>4. Together(f, n, a, p, i + 1, j + 1)
    BY <2>2, <2>3 DEF OneMission
  <2>5. CASE j = 0
    BY <2>1, <2>5 DEF Together
  <2>6. CASE j # 0 /\ i # 0
    <3>1. i \in 1 .. L /\ j \in 1 .. L
      BY <1>1, <1>2, <2>6
    <3>2. QED BY <1>3, <2>4, <3>1 DEF Together
  <2>7. CASE j # 0 /\ i = 0
    <3>1. j \in 1 .. L
      BY <1>1, <1>2, <2>7
    <3>2. Together(f, n, a, p, 1, j + 1)
      BY <2>4, <2>7
    <3>3. QED BY <1>3, <2>1, <2>7, <3>1, <3>2 DEF Together
  <2>8. QED BY <2>5, <2>6, <2>7
<1>5. CASE /\ a[1].kind # "init" /\ o = n
           /\ \A k \in DOMAIN g : \/ \E l \in DOMAIN f : g[k] = f[l]
                                  \/ a[1].kind = "add" /\ g[k] = a[1].arg[2]
  <2> DEFINE Was(k) == IF k = 0 THEN 0 .. 1 ELSE {k + 1}
  <2>1. Announced(o, b, 0) = Announced(n, a, 0) /\ Told(g, b, p, 0) \subseteq Told(f, a, p, 0) \cup Told(f, a, p, 1)
    BY <1>1, <1>5 DEF Told, Announced
  <2>2. \A k \in 0 .. L : \A x \in Told(g, b, p, k) : \E c \in Was(k) : x \in Told(f, a, p, c)
    <3>1. \A x \in Told(g, b, p, 0) : \E c \in 0 .. 1 : x \in Told(f, a, p, c)
      <4>1. 0 \in 0 .. 1 /\ 1 \in 0 .. 1
        OBVIOUS
      <4>2. QED BY <2>1, <4>1
    <3>2. \A k \in 0 .. L : k = 0 \/ k \in 1 .. L
      BY <1>1
    <3>3. QED BY <1>3, <3>1, <3>2
  <2>3. ASSUME NEW c \in Was(i), NEW d \in Was(j), c <= d
        PROVE  Together(f, n, a, p, c, d)
    <3>1. c \in 0 .. L + 1 /\ d \in 0 .. L + 1 /\ d <= j + 1 /\ (i > 0 => c = i + 1)
      BY <1>1, <1>2, <2>3
    <3>2. ASSUME NEW k \in 1 .. L, c < k, k < d, a[k].kind = "init"
          PROVE  FALSE
      <4>1. k # 1
        BY <1>5, <3>2
      <4>2. k - 1 \in 1 .. Len(b) /\ b[k - 1] = a[k]
        BY <1>1, <3>2, <4>1
      <4>3. i < k - 1 /\ k - 1 < j
        BY <1>1, <1>2, <3>1, <3>2, <4>1
      <4>4. QED BY <1>2, <3>2, <4>2, <4>3 DEF Parted
    <3>3. ~Parted(a, c, d)
      BY <3>2 DEF Parted
    <3>4. QED BY <2>3, <3>1, <3>3 DEF OneMission
  <2>4. ASSUME NEW x \in Told(g, b, p, i), NEW y \in Told(g, b, p, j)
        PROVE  x = y
    <3>1. PICK c \in Was(i) : x \in Told(f, a, p, c)
      BY <2>2, <2>4
    <3>2. PICK d \in Was(j) : y \in Told(f, a, p, d)
      BY <2>2, <2>4
    <3>3. CASE c <= d
      BY <2>3, <3>1, <3>2, <3>3 DEF Together
    <3>4. CASE ~(c <= d)
      <4>1. c = 1 /\ d = 0 /\ i = 0 /\ j = 0
        BY <1>1, <1>2, <3>1, <3>2, <3>4
      <4>2. d \in Was(i) /\ c \in Was(j) /\ d <= c
        BY <4>1
      <4>3. Together(f, n, a, p, 0, 1)
        BY <4>1, <2>3
      <4>4. QED BY <3>1, <3>2, <4>1, <4>3 DEF Together
    <3>5. QED BY <3>3, <3>4
  <2>5. ASSUME NEW c \in Announced(o, b, i), NEW y \in Told(g, b, p, j)
        PROVE  y.n = c
    <3>1. PICK d \in Was(j) : y \in Told(f, a, p, d)
      BY <2>2, <2>5
    <3>2. PICK e \in Was(i) : c \in Announced(n, a, e) /\ (i = 0 => e = 0)
      <4>1. CASE i = 0
        BY <2>1, <2>5, <4>1
      <4>2. CASE i # 0
        <5>1. i \in 1 .. L
          BY <1>1, <1>2, <4>2
        <5>2. QED BY <1>3, <2>5, <4>2, <5>1
      <4>3. QED BY <4>1, <4>2
    <3>3. e <= d
      BY <1>1, <1>2, <3>1, <3>2
    <3>4. Together(f, n, a, p, e, d)
      BY <2>3, <3>3
    <3>5. QED BY <3>1, <3>2, <3>4 DEF Together
  <2>6. QED BY <2>4, <2>5 DEF Together
<1>6. QED BY <1>4, <1>5
-----------------------------------------------------------------------------
(* What can be changed in flight *)

\* The commands that carry a value of field f, and the reads that fetch the orbit for
\* readCallback.
Carries(m, f) == m.kind \in Steers /\ f \in DOMAIN m.arg
Fetches(m)    == m.kind = "readOrbit" /\ m.back = "callback"
Carried(a, f) == \E i \in DOMAIN a : Carries(a[i], f)
Fetched(s)    == \E i \in DOMAIN s : Fetches(s[i])
LastCarrier(a, f, i) == Carries(a[i], f) /\ \A j \in DOMAIN a : i < j => ~Carries(a[j], f)
LastFetch(s, i)      == Fetches(s[i]) /\ \A j \in DOMAIN s : i < j => ~Fetches(s[j])

\* With no fetch on its way, the last command that carries f holds what the object has
\* (wanted), and with none on its way this is what the flight controller holds of it, if it
\* flies that mission.  With a fetch on its way, none that carries f is behind the last
\* fetch, and once that is answered its answer has what is held.  Commands a, answers k.
Unfetched(f, a, flies, held, wanted) ==
  /\ \A i \in DOMAIN a : LastCarrier(a, f, i) => a[i].arg[f] = wanted
  /\ ~Carried(a, f) /\ flies = Owner(f) => held = wanted
Refetched(f, a, k, flies, held) ==
  /\ \A i \in DOMAIN a : Carries(a[i], f) => \E j \in DOMAIN a : i < j /\ Fetches(a[j])
  /\ ~Fetched(a) /\ flies = Owner(f) => \A i \in DOMAIN k : LastFetch(k, i) => k[i].data[f] = held
Steady(f, a, k, flies, held, wanted) ==
  IF f \in Circle /\ (Fetched(a) \/ Fetched(k)) THEN Refetched(f, a, k, flies, held)
  ELSE Unfetched(f, a, flies, held, wanted)

LEMMA Upto ==
  ASSUME NEW l \in Nat, NEW i \in 1 .. l + 1
  PROVE  i = l + 1 \/ (i \in 1 .. l /\ i < l + 1)
  OBVIOUS

\* A command that leaves f alone, a fetch, or one that carries what the object wants now.
LEMMA SteadySent ==
  ASSUME NEW S, NEW a \in Seq(S), NEW m \in S, NEW f, NEW k, NEW flies,
         NEW held, NEW wanted, NEW wants,
         \/ /\ Steady(f, a, k, flies, held, wanted) /\ wants = wanted /\ ~Carries(m, f)
            /\ f \in Circle => ~Fetches(m)
         \/ f \in Circle /\ Fetches(m) /\ ~Carries(m, f)
         \/ /\ Carries(m, f) /\ ~Fetches(m) /\ m.arg[f] = wants
            /\ f \in Circle => ~Fetched(a) /\ ~Fetched(k)
  PROVE  Steady(f, Append(a, m), k, flies, held, wants)
<1> DEFINE b == Append(a, m)
           L == Len(a)
<1>1. /\ L \in Nat /\ Len(b) = L + 1 /\ DOMAIN a = 1 .. L /\ DOMAIN b = 1 .. L + 1
      /\ (\A i \in 1 .. L : b[i] = a[i]) /\ b[L + 1] = m
  BY Added
<1> HIDE DEF b
<1>2. \A i \in DOMAIN b : i = L + 1 \/ (i \in DOMAIN a /\ i < L + 1 /\ b[i] = a[i])
  BY <1>1, Upto
<1>3. \A i \in DOMAIN a : i \in DOMAIN b /\ i < L + 1 /\ b[i] = a[i]
  BY <1>1
<1>4. L + 1 \in DOMAIN b /\ ~(L + 1 < L + 1)
  BY <1>1
<1>5. CASE /\ Steady(f, a, k, flies, held, wanted) /\ wants = wanted /\ ~Carries(m, f)
           /\ f \in Circle => ~Fetches(m)
  <2>1. f \in Circle => (Fetched(b) <=> Fetched(a))
    BY <1>1, <1>2, <1>3, <1>5 DEF Fetched
  <2>2. ASSUME Unfetched(f, a, flies, held, wanted)
        PROVE  Unfetched(f, b, flies, held, wants)
    <3>1. ASSUME NEW i \in DOMAIN b, LastCarrier(b, f, i)
          PROVE  b[i].arg[f] = wants
      <4>1. i \in DOMAIN a /\ b[i] = a[i]
        BY <1>1, <1>2, <1>5, <3>1 DEF LastCarrier
      <4>2. LastCarrier(a, f, i)
        BY <1>3, <3>1, <4>1 DEF LastCarrier
      <4>3. QED BY <1>5, <2>2, <4>1, <4>2 DEF Unfetched
    <3>2. Carried(a, f) => Carried(b, f)
      BY <1>3 DEF Carried
    <3>3. QED BY <1>5, <2>2, <3>1, <3>2 DEF Unfetched
  <2>3. ASSUME f \in Circle, Refetched(f, a, k, flies, held)
        PROVE  Refetched(f, b, k, flies, held)
    <3>1. ASSUME NEW i \in DOMAIN b, Carries(b[i], f)
          PROVE  \E j \in DOMAIN b : i < j /\ Fetches(b[j])
      <4>1. i \in DOMAIN a /\ b[i] = a[i]
        BY <1>1, <1>2, <1>5, <3>1
      <4>2. PICK j \in DOMAIN a : i < j /\ Fetches(a[j])
        BY <2>3, <3>1, <4>1 DEF Refetched
      <4>3. QED BY <1>3, <4>2
    <3>2. QED BY <2>1, <2>3, <3>1 DEF Refetched
  <2>4. QED BY <1>5, <2>1, <2>2, <2>3 DEF Steady, b
<1>6. CASE f \in Circle /\ Fetches(m) /\ ~Carries(m, f)
  <2>1. Fetched(b)
    BY <1>1, <1>4, <1>6 DEF Fetched
  <2>2. ASSUME NEW i \in DOMAIN b, Carries(b[i], f)
        PROVE  \E j \in DOMAIN b : i < j /\ Fetches(b[j])
    BY <1>1, <1>2, <1>4, <1>6, <2>2
  <2>3. QED BY <1>6, <2>1, <2>2 DEF Steady, Refetched, b
<1>7. CASE /\ Carries(m, f) /\ ~Fetches(m) /\ m.arg[f] = wants
           /\ f \in Circle => ~Fetched(a) /\ ~Fetched(k)
  <2>1. f \in Circle => ~Fetched(b) /\ ~Fetched(k)
    BY <1>1, <1>2, <1>7 DEF Fetched
  <2>2. Carried(b, f)
    BY <1>1, <1>4, <1>7 DEF Carried
  <2>3. ASSUME NEW i \in DOMAIN b, LastCarrier(b, f, i)
        PROVE  b[i].arg[f] = wants
    <3>1. i = L + 1
      BY <1>1, <1>2, <1>4, <1>7, <2>3 DEF LastCarrier
    <3>2. QED BY <1>1, <1>7, <3>1
  <2>4. Unfetched(f, b, flies, held, wants)
    BY <2>2, <2>3 DEF Unfetched
  <2>5. QED BY <2>1, <2>4 DEF Steady, b
<1>8. QED BY <1>5, <1>6, <1>7

\* The first command of a reaches the flight controller, and k may get its answer, the
\* last of l: what is flown then was flown or is begun with a value for f, and what is held is
\* the command's or is kept; a fetch is answered with it.
LEMMA SteadyTaken ==
  ASSUME NEW a, NEW b, Len(a) \in Nat \ {0}, DOMAIN a = 1 .. Len(a),
         Len(b) = Len(a) - 1, DOMAIN b = 1 .. Len(b), \A i \in 1 .. Len(b) : b[i] = a[i + 1],
         NEW k, NEW l, DOMAIN k = 1 .. Len(k), Len(k) \in Nat,
         NEW f, NEW flies, NEW flown, NEW held, NEW has, NEW wanted,
         Steady(f, a, k, flies, held, wanted),
         ~(Fetches(a[1]) /\ Carries(a[1], f)),
         flown = Owner(f) => IF Carries(a[1], f) THEN has = a[1].arg[f] ELSE flies = Owner(f) /\ has = held,
         \/ ~Fetches(a[1]) /\ (Fetched(l) <=> Fetched(k))
            /\ \A i \in DOMAIN l : LastFetch(l, i) => i \in DOMAIN k /\ l[i] = k[i] /\ LastFetch(k, i)
         \/ /\ Fetches(a[1]) /\ Fetched(l)
            /\ f \in Circle /\ flown = Owner(f) => \A i \in DOMAIN l : LastFetch(l, i) => l[i].data[f] = has
  PROVE  Steady(f, b, l, flown, has, wanted)
<1>1. \A i \in DOMAIN b : i + 1 \in DOMAIN a /\ i + 1 # 1 /\ b[i] = a[i + 1] /\ i \in Int
  OBVIOUS
<1>2. \A i \in DOMAIN a : i # 1 => i - 1 \in DOMAIN b /\ (i - 1) + 1 = i /\ b[i - 1] = a[i]
  OBVIOUS
<1>3. 1 \in DOMAIN a /\ \A i \in DOMAIN a : i \in Int /\ (i # 1 => 1 < i)
  OBVIOUS
<1>4. Fetched(a) <=> Fetches(a[1]) \/ Fetched(b)
  BY <1>1, <1>2, <1>3 DEF Fetched
<1>5. Carried(a, f) <=> Carries(a[1], f) \/ Carried(b, f)
  BY <1>1, <1>2, <1>3 DEF Carried
<1>6. Fetched(a) \/ Fetched(k) <=> Fetched(b) \/ Fetched(l)
  BY <1>4
<1>7. CASE f \in Circle /\ (Fetched(a) \/ Fetched(k))
  <2>1. Refetched(f, a, k, flies, held)
    BY <1>7 DEF Steady
  <2>2. ASSUME NEW i \in DOMAIN b, Carries(b[i], f)
        PROVE  \E j \in DOMAIN b : i < j /\ Fetches(b[j])
    <3>1. PICK j \in DOMAIN a : i + 1 < j /\ Fetches(a[j])
      BY <1>1, <2>1, <2>2 DEF Refetched
    <3>2. j # 1 /\ i < j - 1
      BY <1>1, <1>3, <3>1
    <3>3. QED BY <1>2, <3>1, <3>2
  <2>3. ASSUME ~Fetched(b), flown = Owner(f), NEW i \in DOMAIN l, LastFetch(l, i)
        PROVE  l[i].data[f] = has
    <3>1. CASE Fetches(a[1])
      BY <1>7, <2>3, <3>1
    <3>2. CASE ~Fetches(a[1])
      <4>1. ~Fetched(a)
        BY <1>4, <2>3, <3>2
      <4>2. ~Carries(a[1], f)
        BY <1>3, <2>1, <4>1 DEF Refetched, Fetched
      <4>3. flies = Owner(f) /\ has = held
        BY <2>3, <4>2
      <4>4. i \in DOMAIN k /\ l[i] = k[i] /\ LastFetch(k, i)
        BY <2>3, <3>2
      <4>5. QED BY <2>1, <4>1, <4>3, <4>4 DEF Refetched
    <3>3. QED BY <3>1, <3>2
  <2>4. Refetched(f, b, l, flown, has)
    BY <2>2, <2>3 DEF Refetched
  <2>5. QED BY <1>6, <1>7, <2>4 DEF Steady
<1>8. CASE ~(f \in Circle /\ (Fetched(a) \/ Fetched(k)))
  <2>1. Unfetched(f, a, flies, held, wanted)
    BY <1>8 DEF Steady
  <2>2. ASSUME NEW i \in DOMAIN b, LastCarrier(b, f, i)
        PROVE  b[i].arg[f] = wanted
    <3>1. ASSUME NEW j \in DOMAIN a, i + 1 < j
          PROVE  ~Carries(a[j], f)
      <4>1. j # 1 /\ i < j - 1
        BY <1>1, <1>3, <3>1, <2>2
      <4>2. QED BY <1>2, <2>2, <3>1, <4>1 DEF LastCarrier
    <3>2. LastCarrier(a, f, i + 1)
      BY <1>1, <2>2, <3>1 DEF LastCarrier
    <3>3. QED BY <1>1, <2>1, <2>2, <3>2 DEF Unfetched
  <2>3. ASSUME ~Carried(b, f), flown = Owner(f)
        PROVE  has = wanted
    <3>1. CASE Carries(a[1], f)
      <4>1. LastCarrier(a, f, 1)
        BY <1>2, <1>3, <2>3, <3>1 DEF LastCarrier, Carried
      <4>2. QED BY <1>3, <2>1, <2>3, <3>1, <4>1 DEF Unfetched
    <3>2. CASE ~Carries(a[1], f)
      BY <1>5, <2>1, <2>3, <3>2 DEF Unfetched
    <3>3. QED BY <3>1, <3>2
  <2>4. Unfetched(f, b, flown, has, wanted)
    BY <2>2, <2>3 DEF Unfetched
  <2>5. QED BY <1>6, <1>8, <2>4 DEF Steady
<1>9. QED BY <1>7, <1>8

\* The first answer is heard: a fetch that is answered brings its value to the object.
LEMMA SteadyHeard ==
  ASSUME NEW k, NEW l, Len(k) \in Nat \ {0}, DOMAIN k = 1 .. Len(k),
         Len(l) = Len(k) - 1, DOMAIN l = 1 .. Len(l), \A i \in 1 .. Len(l) : l[i] = k[i + 1],
         NEW f, NEW a, NEW flies, NEW held, NEW wanted, NEW wants,
         Steady(f, a, k, flies, held, wanted),
         wants = IF f \in Circle /\ Fetches(k[1]) THEN k[1].data[f] ELSE wanted
  PROVE  Steady(f, a, l, flies, held, wants)
<1>1. \A i \in DOMAIN l : i + 1 \in DOMAIN k /\ i + 1 # 1 /\ l[i] = k[i + 1] /\ i \in Int
  OBVIOUS
<1>2. \A i \in DOMAIN k : i # 1 => i - 1 \in DOMAIN l /\ (i - 1) + 1 = i /\ l[i - 1] = k[i]
  OBVIOUS
<1>3. 1 \in DOMAIN k /\ \A i \in DOMAIN k : i \in Int /\ (i # 1 => 1 < i)
  OBVIOUS
<1>4. Fetched(k) <=> Fetches(k[1]) \/ Fetched(l)
  BY <1>1, <1>2, <1>3 DEF Fetched
<1>5. CASE ~(f \in Circle /\ (Fetched(a) \/ Fetched(k)))
  BY <1>4, <1>5 DEF Steady
<1>6. CASE f \in Circle /\ (Fetched(a) \/ Fetched(l))
  <2>1. Refetched(f, a, k, flies, held)
    BY <1>4, <1>6 DEF Steady
  <2>2. ASSUME NEW i \in DOMAIN l, LastFetch(l, i)
        PROVE  i + 1 \in DOMAIN k /\ l[i] = k[i + 1] /\ LastFetch(k, i + 1)
    <3>1. ASSUME NEW j \in DOMAIN k, i + 1 < j
          PROVE  ~Fetches(k[j])
      <4>1. j # 1 /\ i < j - 1
        BY <1>1, <1>3, <3>1, <2>2
      <4>2. QED BY <1>2, <2>2, <3>1, <4>1 DEF LastFetch
    <3>2. QED BY <1>1, <2>2, <3>1 DEF LastFetch
  <2>3. Refetched(f, a, l, flies, held)
    BY <2>1, <2>2 DEF Refetched
  <2>4. QED BY <1>6, <2>3 DEF Steady
<1>7. CASE f \in Circle /\ Fetched(k) /\ ~Fetched(a) /\ ~Fetched(l)
  <2>1. Fetches(k[1])
    BY <1>4, <1>7
  <2>2. Refetched(f, a, k, flies, held)
    BY <1>7 DEF Steady
  <2>3. ~Carried(a, f)
    BY <1>7, <2>2 DEF Refetched, Fetched, Carried
  <2>4. LastFetch(k, 1)
    BY <1>2, <1>3, <1>7, <2>1 DEF LastFetch, Fetched
  <2>5. flies = Owner(f) => held = wants
    BY <1>3, <1>7, <2>1, <2>2, <2>4 DEF Refetched
  <2>6. Unfetched(f, a, flies, held, wants)
    BY <2>3, <2>5 DEF Unfetched, LastCarrier, Carried
  <2>7. QED BY <1>7, <2>6 DEF Steady
<1>8. QED BY <1>5, <1>6, <1>7

-----------------------------------------------------------------------------
(* Objects and flight controller stay together *)

Steadies == \A f \in Fields \ apart : Steady(f, air, acks, fc.flies, fc.has[f], data[f])

\* On a line that keeps the order the first command is taken, and the first answer heard.
LEMMA TakenFirst ==
  ASSUME Typed, setup.prompt, FcStep
  PROVE  /\ Len(air) \in Nat \ {0} /\ DOMAIN air = 1 .. Len(air) /\ Len(air') = Len(air) - 1
         /\ DOMAIN air' = 1 .. Len(air') /\ \A k \in 1 .. Len(air') : air'[k] = air[k + 1]
         /\ air[1] \in Cmds(setup) /\ \E ok \in BOOLEAN : Take(air[1], ok)
         /\ wp' = wp /\ data' = data /\ caller' = caller /\ setup' = setup
<1>1. PICK i \in DOMAIN air, ok \in BOOLEAN : i = 1 /\ air' = RemoveAt(air, i) /\ Take(air[i], ok)
  BY DEF FcStep
<1>2. air \in Seq(Cmds(setup))
  BY DEF Typed, LineTyped
<1>3. /\ Len(air) \in Nat \ {0} /\ DOMAIN air = 1 .. Len(air) /\ air[i] \in Cmds(setup)
      /\ air' \in Seq(Cmds(setup)) /\ Len(air') = Len(air) - 1
      /\ \A k \in 1 .. Len(air) - 1 : air'[k] = IF k < i THEN air[k] ELSE air[k + 1]
  BY <1>1, <1>2, Cut, LenProperties, SMTT(30)
<1>4. DOMAIN air' = 1 .. Len(air')
  BY <1>3, LenProperties
<1>5. \A k \in 1 .. Len(air') : air'[k] = air[k + 1]
  BY <1>1, <1>3
<1>6. QED BY <1>1, <1>3, <1>4, <1>5 DEF FcStep

LEMMA AnswerAdded ==
  ASSUME Typed, NEW m \in Cmds(setup), NEW ok \in BOOLEAN, Take(m, ok)
  PROVE  /\ Len(acks) \in Nat /\ DOMAIN acks = 1 .. Len(acks)
         /\ \/ m.back = "none" /\ acks' = acks
            \/ \E e \in Answers :
                 /\ e.kind = m.kind /\ e.back = m.back /\ e.ok = ok /\ e.data \in Data(m, ok)
                 /\ DOMAIN acks' = 1 .. Len(acks) + 1 /\ Len(acks') = Len(acks) + 1
                 /\ (\A k \in 1 .. Len(acks) : acks'[k] = acks[k]) /\ acks'[Len(acks) + 1] = e
<1>1. acks \in Seq(Answers) /\ DOMAIN acks = 1 .. Len(acks) /\ Len(acks) \in Nat
  BY LenProperties DEF Typed, LineTyped
<1>2. CASE m.back = "none"
  BY <1>1, <1>2 DEF Take
<1>3. CASE m.back # "none"
  <2>1. PICK d \in Data(m, ok) :
          acks' = Append(acks, [kind |-> m.kind, back |-> m.back, ok |-> ok, data |-> d])
    BY <1>3 DEF Take
  <2>2. PICK e \in Answers : e = [kind |-> m.kind, back |-> m.back, ok |-> ok, data |-> d]
    BY AnswerTyped
  <2>3. acks' = Append(acks, e)
    BY <2>1, <2>2
  <2>4. /\ DOMAIN acks' = 1 .. Len(acks) + 1 /\ Len(acks') = Len(acks) + 1
        /\ (\A k \in 1 .. Len(acks) : acks'[k] = acks[k]) /\ acks'[Len(acks) + 1] = e
    BY <1>1, <2>3, Added
  <2>5. e.kind = m.kind /\ e.back = m.back /\ e.ok = ok /\ e.data \in Data(m, ok)
    BY <2>2
  <2>6. QED BY <1>1, <2>4, <2>5
<1>4. QED BY <1>2, <1>3

LEMMA HeardFirst ==
  ASSUME Typed, ReadStep
  PROVE  /\ Len(acks) \in Nat \ {0} /\ DOMAIN acks = 1 .. Len(acks)
         /\ Len(acks') = Len(acks) - 1 /\ DOMAIN acks' = 1 .. Len(acks')
         /\ (\A k \in 1 .. Len(acks') : acks'[k] = acks[k + 1])
         /\ Head(acks) = acks[1] /\ acks[1] \in Answers
         /\ acks' \in Seq(Answers) /\ air' = air /\ fc' = fc /\ apart' = apart /\ setup' = setup
<1>1. acks # <<>> /\ acks' = Tail(acks) /\ air' = air /\ fc' = fc /\ apart' = apart /\ setup' = setup
  BY DEF ReadStep, Wake, GetWaypointSettingsCallback, ReadCallback, Printed, Answered
<1>2. acks \in Seq(Answers)
  BY DEF Typed, LineTyped
<1>3. QED BY <1>1, <1>2, EmptySeq, LenProperties, HeadTailProperties

\* Every field belongs to the mission that its commands change.
LEMMA Owned ==
  ASSUME NEW m, m.kind \in Steers, m.arg \in [About(m.kind) -> Values], NEW f \in Fields
  PROVE  /\ Carries(m, f) <=> f \in About(m.kind)
         /\ f \in About(m.kind) => Flying(m) = Owner(f)
         /\ m.kind \in Begins /\ Flying(m) = Owner(f) => f \in About(m.kind)
  BY DEF Carries, About, Flying, Owner, Steers, Begins, Changes, Fields, Circle

LEMMA SteadyFcStep ==
  ASSUME Typed, setup.prompt, Steadies, FcStep
  PROVE  Steadies'
<1> DEFINE m == air[1]
<1>1. /\ Len(air) \in Nat \ {0} /\ DOMAIN air = 1 .. Len(air) /\ Len(air') = Len(air) - 1
      /\ DOMAIN air' = 1 .. Len(air') /\ \A k \in 1 .. Len(air') : air'[k] = air[k + 1]
      /\ data' = data /\ m \in Cmds(setup)
  BY TakenFirst
<1>2. PICK ok \in BOOLEAN : Take(m, ok)
  BY TakenFirst
<1> HIDE DEF m
<1>3. FcTyped /\ fc' = (IF ok THEN After(m) ELSE fc) /\ (ok => Allowed(m))
  BY <1>2 DEF Typed, Take
<1>4. m.kind \in Steers => m.arg \in [About(m.kind) -> Values] /\ About(m.kind) \in SUBSET Fields
  BY <1>1, CommandTyped, AboutFields
<1>5. apart \subseteq apart'
  BY <1>2 DEF Take
<1>6. ASSUME NEW f \in Fields \ apart'
      PROVE  Steady(f, air', acks', fc'.flies, fc'.has[f], data'[f])
  <2>1. Steady(f, air, acks, fc.flies, fc.has[f], data[f])
    BY <1>5 DEF Steadies
  <2>2. ~(Fetches(m) /\ Carries(m, f))
    BY DEF Fetches, Carries, Steers, Begins, Changes
  <2>3. ASSUME fc'.flies = Owner(f)
        PROVE  IF Carries(m, f) THEN fc'.has[f] = m.arg[f] ELSE fc.flies = Owner(f) /\ fc'.has[f] = fc.has[f]
    <3>1. CASE ok /\ m.kind \in Steers
      <4>1. fc'.flies = Flying(m) /\ fc'.has = With(fc.has, m.arg)
        <5>1. m.kind # "start"
          BY <3>1 DEF Steers, Begins, Changes
        <5>2. QED BY <1>3, <3>1, <5>1, Effect
      <4>2. fc'.has[f] = IF f \in About(m.kind) THEN m.arg[f] ELSE fc.has[f]
        BY <1>3, <1>4, <3>1, <4>1, WithFields DEF FcTyped
      <4>3. Carries(m, f) <=> f \in About(m.kind)
        BY <1>4, <3>1, Owned
      <4>4. f \notin About(m.kind) => m.kind \in Changes
        BY <1>4, <2>3, <3>1, <4>1, Owned DEF Steers
      <4>5. m.kind \in Changes => fc.flies = Flying(m)
        BY <1>3, <3>1 DEF Allowed, Begins, Changes
      <4>6. QED BY <2>3, <4>1, <4>2, <4>3, <4>4, <4>5
    <3>2. CASE ok /\ m.kind \notin Steers
      <4>1. fc'.has = fc.has /\ ~Carries(m, f)
        BY <1>3, <3>2, Effect DEF Carries
      <4>2. fc'.flies \in {"waypoint", "none", fc.flies}
        BY <1>3, <3>2, Effect
      <4>3. QED BY <2>3, <4>1, <4>2 DEF Owner
    <3>3. CASE ~ok
      <4>1. fc' = fc
        BY <1>3, <3>3
      <4>2. ~Carries(m, f)
        <5>1. ASSUME Carries(m, f)
              PROVE  FALSE
          <6>1. m.kind \in Steers /\ f \in DOMAIN m.arg
            BY <5>1 DEF Carries
          <6>2. Flying(m) = Owner(f)
            BY <1>4, <5>1, <6>1, Owned
          <6>3. apart' = apart \cup DOMAIN m.arg
            BY <1>2, <2>3, <3>3, <4>1, <6>1, <6>2 DEF Take
          <6>4. QED BY <1>6, <6>1, <6>3
        <5>2. QED BY <5>1
      <4>3. QED BY <2>3, <4>1, <4>2
    <3>4. QED BY <3>1, <3>2, <3>3
  <2>4. Len(acks) \in Nat /\ DOMAIN acks = 1 .. Len(acks)
    BY <1>1, <1>2, AnswerAdded
  <2>5. PICK flown, flies, has, held, wanted :
          /\ flown = fc'.flies /\ flies = fc.flies
          /\ has = fc'.has[f] /\ held = fc.has[f] /\ wanted = data[f]
    OBVIOUS
  <2>6. /\ Steady(f, air, acks, flies, held, wanted)
        /\ flown = Owner(f) => IF Carries(air[1], f) THEN has = air[1].arg[f] ELSE flies = Owner(f) /\ has = held
        /\ ~(Fetches(air[1]) /\ Carries(air[1], f))
    BY <2>1, <2>2, <2>3, <2>5 DEF m
  <2>7. ASSUME \/ ~Fetches(air[1]) /\ (Fetched(acks') <=> Fetched(acks))
                  /\ \A i \in DOMAIN acks' : LastFetch(acks', i) =>
                       i \in DOMAIN acks /\ acks'[i] = acks[i] /\ LastFetch(acks, i)
               \/ /\ Fetches(air[1]) /\ Fetched(acks')
                  /\ f \in Circle /\ flown = Owner(f) => \A i \in DOMAIN acks' : LastFetch(acks', i) => acks'[i].data[f] = has
        PROVE  Steady(f, air', acks', fc'.flies, fc'.has[f], data'[f])
    <3>1. PICK a, b, k, l : a = air /\ b = air' /\ k = acks /\ l = acks'
      OBVIOUS
    <3>2. /\ Len(a) \in Nat \ {0} /\ DOMAIN a = 1 .. Len(a) /\ Len(b) = Len(a) - 1
          /\ DOMAIN b = 1 .. Len(b) /\ \A i \in 1 .. Len(b) : b[i] = a[i + 1]
          /\ DOMAIN k = 1 .. Len(k) /\ Len(k) \in Nat
      BY <1>1, <2>4, <3>1
    <3>3. /\ Steady(f, a, k, flies, held, wanted) /\ ~(Fetches(a[1]) /\ Carries(a[1], f))
          /\ flown = Owner(f) => IF Carries(a[1], f) THEN has = a[1].arg[f] ELSE flies = Owner(f) /\ has = held
      BY <2>6, <3>1
    <3>4. \/ ~Fetches(a[1]) /\ (Fetched(l) <=> Fetched(k))
             /\ \A i \in DOMAIN l : LastFetch(l, i) => i \in DOMAIN k /\ l[i] = k[i] /\ LastFetch(k, i)
          \/ /\ Fetches(a[1]) /\ Fetched(l)
             /\ f \in Circle /\ flown = Owner(f) => \A i \in DOMAIN l : LastFetch(l, i) => l[i].data[f] = has
      BY <2>7, <3>1
    <3>5. Steady(f, b, l, flown, has, wanted)
      BY <3>2, <3>3, <3>4, SteadyTaken
    <3>6. QED BY <1>1, <2>5, <3>1, <3>5
  <2>8. CASE m.back = "none" /\ acks' = acks
    <3>1. ~Fetches(m)
      BY <2>8 DEF Fetches
    <3>2. QED BY <2>7, <2>8, <3>1 DEF m
  <2>9. ASSUME NEW e \in Answers,
               e.kind = m.kind, e.back = m.back, e.ok = ok, e.data \in Data(m, ok),
               DOMAIN acks' = 1 .. Len(acks) + 1, Len(acks') = Len(acks) + 1,
               \A k \in 1 .. Len(acks) : acks'[k] = acks[k], acks'[Len(acks) + 1] = e
        PROVE  Steady(f, air', acks', fc'.flies, fc'.has[f], data'[f])
    <3>1. Fetches(e) <=> Fetches(m)
      BY <2>9 DEF Fetches
    <3>2. /\ Len(acks) + 1 \in DOMAIN acks'
          /\ \A i \in DOMAIN acks' : i = Len(acks) + 1 \/ (i \in DOMAIN acks /\ i < Len(acks) + 1)
          /\ \A i \in DOMAIN acks : i \in DOMAIN acks' /\ acks'[i] = acks[i]
      BY <2>4, <2>9, Upto
    <3>3. CASE ~Fetches(m)
      <4>1. Fetched(acks') <=> Fetched(acks)
        BY <2>9, <3>1, <3>2, <3>3 DEF Fetched
      <4>2. ASSUME NEW i \in DOMAIN acks', LastFetch(acks', i)
            PROVE  i \in DOMAIN acks /\ acks'[i] = acks[i] /\ LastFetch(acks, i)
        <5>1. i \in DOMAIN acks /\ acks'[i] = acks[i]
          BY <2>9, <3>1, <3>2, <3>3, <4>2 DEF LastFetch
        <5>2. QED BY <3>2, <4>2, <5>1 DEF LastFetch
      <4>3. QED BY <2>7, <3>3, <4>1, <4>2 DEF m
    <3>4. CASE Fetches(m)
      <4>1. Fetched(acks')
        BY <2>9, <3>1, <3>2, <3>4 DEF Fetched
      <4>2. ASSUME f \in Circle, flown = Owner(f), NEW i \in DOMAIN acks', LastFetch(acks', i)
            PROVE  acks'[i].data[f] = has
        <5>1. ~(i < Len(acks) + 1)
          BY <2>9, <3>1, <3>2, <3>4, <4>2 DEF LastFetch
        <5>2. i = Len(acks) + 1
          BY <3>2, <5>1
        <5>3. m.kind = "readOrbit" /\ ~Carries(m, f)
          BY <2>2, <3>4 DEF Fetches
        <5>4. fc.flies = Owner(f) /\ fc'.has[f] = fc.has[f] /\ Owner(f) = "hotpoint"
          BY <2>3, <2>5, <4>2, <5>3 DEF Owner, Circle
        <5>5. ok
          <6>1. Allowed(m)
            BY <5>3, <5>4 DEF Allowed
          <6>2. m.kind \notin setup.refuses
            BY <5>3, SetupTyped DEF Reads
          <6>3. QED BY <1>2, <6>1, <6>2 DEF Take
        <5>6. e.data = [g \in Circle |-> fc.has[g]]
          BY <2>9, <5>3, <5>5 DEF Data
        <5>7. QED BY <2>5, <2>9, <4>2, <5>2, <5>4, <5>6
      <4>3. QED BY <2>7, <3>4, <4>1, <4>2 DEF m
    <3>5. QED BY <3>3, <3>4
  <2>10. QED BY <1>1, <1>2, <2>8, <2>9, AnswerAdded
<1>7. QED BY <1>6 DEF Steadies, Owner

LEMMA Wider ==
  ASSUME NEW S, NEW a \in Seq(S), NEW m
  PROVE  a \in Seq(S \cup {m})
<1>1. PICK n \in Nat : a \in [1 .. n -> S]
  BY SeqDef
<1>2. a \in [1 .. n -> S \cup {m}]
  BY <1>1
<1>3. QED BY <1>2, SeqDef

\* When what is flown ends, nothing of it is to agree.
LEMMA SteadyFinish ==
  ASSUME Steadies, Finish
  PROVE  Steadies'
<1>1. /\ fc' = [fc EXCEPT !.flies = "none"] /\ UNCHANGED <<air, acks, data, apart>>
  BY DEF Finish, objects
<1>2. ASSUME NEW f \in Fields \ apart
      PROVE  Steady(f, air, acks, fc'.flies, fc'.has[f], data[f])
  <2>1. Steady(f, air, acks, fc.flies, fc.has[f], data[f])
    BY DEF Steadies
  <2>2. fc'.flies # Owner(f)
    BY <1>1 DEF Finish, Ground, Owner
  <2>3. QED BY <2>1, <2>2 DEF Steady, Unfetched, Refetched
<1>3. QED BY <1>1, <1>2 DEF Steadies

LEMMA SteadyReads ==
  ASSUME Typed, Steadies, ReadStep
  PROVE  Steadies'
<1>1. /\ Len(acks) \in Nat \ {0} /\ DOMAIN acks = 1 .. Len(acks)
      /\ Len(acks') = Len(acks) - 1 /\ DOMAIN acks' = 1 .. Len(acks')
      /\ (\A k \in 1 .. Len(acks') : acks'[k] = acks[k + 1])
      /\ Head(acks) = acks[1] /\ acks[1] \in Answers
      /\ air' = air /\ fc' = fc /\ apart' = apart
  BY HeardFirst
<1>2. ASSUME NEW f \in Fields
      PROVE  data'[f] = IF f \in Circle /\ Fetches(acks[1]) THEN acks[1].data[f] ELSE data[f]
  <2>1. CASE ReadCallback
    <3>1. /\ data' = With(data, acks[1].data)
          /\ acks[1].kind = "readOrbit" /\ acks[1].back = "callback"
      BY <1>1, <2>1 DEF ReadCallback, Answered
    <3>2. acks[1].data \in [Circle -> Values] /\ Circle \in SUBSET Fields
      BY <1>1, <3>1 DEF Answers, Steers, Begins, Changes, Fields
    <3>3. QED BY <3>1, <3>2, WithFields DEF Fetches, Typed, DataTyped
  <2>2. CASE Wake \/ Printed \/ GetWaypointSettingsCallback
    <3>1. data' = data
      BY <2>2 DEF Wake, Printed, GetWaypointSettingsCallback
    <3>2. acks[1].back # "callback" \/ acks[1].kind = "settings"
      BY <1>1, <2>2 DEF Wake, Printed, GetWaypointSettingsCallback, Answered
    <3>3. QED BY <3>1, <3>2 DEF Fetches
  <2>3. QED BY <2>1, <2>2 DEF ReadStep
<1>3. ASSUME NEW f \in Fields \ apart
      PROVE  Steady(f, air, acks', fc.flies, fc.has[f], data'[f])
  <2>1. Steady(f, air, acks, fc.flies, fc.has[f], data[f])
    BY DEF Steadies
  <2>2. PICK k, l : k = acks /\ l = acks'
    OBVIOUS
  <2>3. /\ Len(k) \in Nat \ {0} /\ DOMAIN k = 1 .. Len(k) /\ Len(l) = Len(k) - 1
        /\ DOMAIN l = 1 .. Len(l) /\ \A i \in 1 .. Len(l) : l[i] = k[i + 1]
    BY <1>1, <2>2
  <2>4. PICK flies, held, wanted, wants :
          flies = fc.flies /\ held = fc.has[f] /\ wanted = data[f] /\ wants = data'[f]
    OBVIOUS
  <2>5. Steady(f, air, k, flies, held, wanted)
    BY <2>1, <2>2, <2>4
  <2>6. wants = IF f \in Circle /\ Fetches(k[1]) THEN k[1].data[f] ELSE wanted
    BY <1>2, <2>2, <2>4
  <2>7. Steady(f, air, l, flies, held, wants)
    BY <2>3, <2>5, <2>6, SteadyHeard
  <2>8. QED BY <2>2, <2>4, <2>7
<1>4. QED BY <1>1, <1>3 DEF Steadies

LEMMA RereadingFetched == Rereading <=> Fetched(air) \/ Fetched(acks)
  BY DEF Rereading, Fetched, Fetches, ToSet

\* A call of m: each field that is not apart afterwards is left alone, fetched, or sent.
LEMMA SteadyCall ==
  ASSUME Typed, Steadies, NEW m, air' = Append(air, m), acks' = acks, fc' = fc,
         \A f \in Fields \ apart' :
            \/ f \notin apart /\ data'[f] = data[f] /\ ~Carries(m, f) /\ (f \in Circle => ~Fetches(m))
            \/ f \in Circle /\ Fetches(m)
            \/ Carries(m, f) /\ m.arg[f] = data'[f] /\ (f \in Circle => ~Rereading)
  PROVE  Steadies'
<1> DEFINE S == Cmds(setup) \cup {m}
<1>1. air \in Seq(S) /\ m \in S
  BY Wider DEF Typed, LineTyped
<1> HIDE DEF S
<1>2. ~(\E f : Fetches(m) /\ Carries(m, f))
  BY DEF Fetches, Carries, Steers, Begins, Changes
<1>3. ASSUME NEW f \in Fields \ apart'
      PROVE  Steady(f, Append(air, m), acks, fc.flies, fc.has[f], data'[f])
  <2>1. PICK flies, held, wanted, wants :
          flies = fc.flies /\ held = fc.has[f] /\ wanted = data[f] /\ wants = data'[f]
    OBVIOUS
  <2>2. CASE f \notin apart /\ data'[f] = data[f] /\ ~Carries(m, f) /\ (f \in Circle => ~Fetches(m))
    <3>1. Steady(f, air, acks, flies, held, wanted) /\ wants = wanted
      BY <2>1, <2>2 DEF Steadies
    <3>2. Steady(f, Append(air, m), acks, flies, held, wants)
      BY <1>1, <2>2, <3>1, SteadySent
    <3>3. QED BY <2>1, <3>2
  <2>3. CASE f \in Circle /\ Fetches(m)
    <3>1. Steady(f, Append(air, m), acks, flies, held, wants)
      BY <1>1, <1>2, <2>3, SteadySent
    <3>2. QED BY <2>1, <3>1
  <2>4. CASE Carries(m, f) /\ m.arg[f] = data'[f] /\ (f \in Circle => ~Rereading)
    <3>1. m.arg[f] = wants /\ ~Fetches(m) /\ (f \in Circle => ~Fetched(air) /\ ~Fetched(acks))
      BY <1>2, <2>1, <2>4, RereadingFetched
    <3>2. Steady(f, Append(air, m), acks, flies, held, wants)
      BY <1>1, <2>4, <3>1, SteadySent
    <3>3. QED BY <2>1, <3>2
  <2>5. QED BY <2>2, <2>3, <2>4
<1>4. QED BY <1>3 DEF Steadies

\* A call that leaves the fields alone and asks for none, and one that steers some of them.
LEMMA SteadyPlain ==
  ASSUME Typed, Steadies, NEW kind, NEW arg, NEW back, Send(kind, arg, back), acks' = acks, fc' = fc,
         kind \notin Steers, kind # "readOrbit" \/ back # "callback", data' = data, apart' = apart
  PROVE  Steadies'
<1>1. PICK m : m = [kind |-> kind, arg |-> arg, back |-> back]
  OBVIOUS
<1>2. air' = Append(air, m)
  BY <1>1 DEF Send
<1>3. \A f : ~Carries(m, f) /\ ~Fetches(m)
  BY <1>1 DEF Carries, Fetches
<1>4. QED BY <1>2, <1>3, SteadyCall

LEMMA SteadySteers ==
  ASSUME Typed, Steadies, NEW kind \in Steers, NEW back, NEW fields \in SUBSET Fields,
         NEW values \in [fields -> Values], Send(kind, values, back), acks' = acks, fc' = fc,
         apart \ fields \subseteq apart',
         \A f \in Fields \ apart' : /\ data'[f] = IF f \in fields THEN values[f] ELSE data[f]
                                    /\ f \in fields \cap Circle => ~Rereading
  PROVE  Steadies'
<1>1. PICK m : m = [kind |-> kind, arg |-> values, back |-> back]
  OBVIOUS
<1>2. air' = Append(air, m)
  BY <1>1 DEF Send
<1>3. /\ \A f : Carries(m, f) <=> f \in fields
      /\ ~Fetches(m) /\ \A f : m.arg[f] = values[f]
  BY <1>1 DEF Carries, Fetches, Steers, Begins, Changes
<1>4. \A f \in Fields \ apart' :
        \/ f \notin apart /\ data'[f] = data[f] /\ ~Carries(m, f) /\ (f \in Circle => ~Fetches(m))
        \/ f \in Circle /\ Fetches(m)
        \/ Carries(m, f) /\ m.arg[f] = data'[f] /\ (f \in Circle => ~Rereading)
  BY <1>3
<1>5. QED BY <1>2, <1>4, SteadyCall

LEMMA SteadyKept ==
  ASSUME Steadies, air' = air, acks' = acks, fc' = fc, apart \subseteq apart',
         \A f \in Fields \ apart' : data'[f] = data[f]
  PROVE  Steadies'
  BY DEF Steadies

LEMMA SteadyUpload ==
  ASSUME Typed, Steadies, NEW pos, Upload(pos)
  PROVE  Steadies'
<1>1. CASE Crash \/ (UNCHANGED <<data, apart>> /\ UNCHANGED <<setup, fc, air, acks>>)
  BY <1>1, SteadyKept DEF Crash, objects
<1>2. CASE UNCHANGED <<data, apart>> /\ Command("add", <<pos, Point>>, Plain)
  <2>1. PICK back \in Plain : Send("add", <<pos, Point>>, back)
    BY <1>2 DEF Command, CommandOf
  <2>2. acks' = acks /\ fc' = fc
    BY <1>2 DEF Command, CommandOf
  <2>3. QED BY <1>2, <2>1, <2>2, SteadyPlain DEF Steers, Begins, Changes
<1>3. QED BY <1>1, <1>2 DEF Upload

LEMMA Single ==
  ASSUME NEW v \in Values
  PROVE  /\ [rate |-> v] \in [{"rate"} -> Values] /\ [rate |-> v]["rate"] = v
         /\ [radius |-> v] \in [{"radius"} -> Values]
         /\ [target |-> v] \in [{"target"} -> Values] /\ [target |-> v]["target"] = v
  OBVIOUS

LEMMA SteadyOwnCall ==
  ASSUME Typed, Steadies, OwnCall
  PROVE  Steadies'
<1>1. ASSUME NEW c, NEW kind, NEW arg, NEW backs, CommandOf(c, kind, arg, backs), UNCHANGED <<data, apart>>,
             kind \notin Steers, kind = "readOrbit" => backs = Plain
      PROVE  Steadies'
  <2>1. PICK back \in backs : Send(kind, arg, back)
    BY <1>1 DEF CommandOf
  <2>2. acks' = acks /\ fc' = fc
    BY <1>1 DEF CommandOf
  <2>3. kind = "readOrbit" => back # "callback"
    BY <1>1, <2>1 DEF Plain
  <2>4. QED BY <1>1, <2>1, <2>2, <2>3, SteadyPlain
<1>2. ASSUME NEW kind \in Steers, NEW fields \in SUBSET Fields, NEW values \in [fields -> Values],
             Command(kind, values, Plain), apart \ fields \subseteq apart',
             \A f \in Fields \ apart' : /\ data'[f] = IF f \in fields THEN values[f] ELSE data[f]
                                        /\ f \in fields \cap Circle => ~Rereading
      PROVE  Steadies'
  <2>1. PICK back \in Plain : Send(kind, values, back)
    BY <1>2 DEF Command, CommandOf
  <2>2. acks' = acks /\ fc' = fc
    BY <1>2 DEF Command, CommandOf
  <2>3. QED BY <1>2, <2>1, <2>2, SteadySteers
<1>3. data \in [Fields -> Values]
  BY DEF Typed, DataTyped
<1>4. {"rate"} \in SUBSET Fields /\ {"radius"} \in SUBSET Fields /\ {"target"} \in SUBSET Fields
      /\ Circle \in SUBSET Fields /\ "target" \notin Circle
  BY DEF Fields, Circle
<1>5. ASSUME NEW fields \in SUBSET Fields, NEW values \in [fields -> Values], SetFields(values)
      PROVE  Steadies'
  <2>1. /\ data' = With(data, values) /\ apart' = apart \cup fields
        /\ air' = air /\ acks' = acks /\ fc' = fc
    BY <1>5 DEF SetFields, Parts, Local
  <2>2. \A f \in Fields \ apart' : data'[f] = data[f]
    BY <1>3, <2>1, WithFields
  <2>3. QED BY <2>1, <2>2, SteadyKept
<1>6. CASE Announce
  <2>1. PICK n \in 1 .. MaxPoints : InitMission(n)
    BY <1>6 DEF Announce
  <2>2. QED BY <1>1, <2>1 DEF InitMission, Steers, Begins, Changes
<1>7. CASE WaypointCalls
  <2> USE DEF Steers, Begins, Changes
  <2>1. CASE InitAgain
    BY <1>1, <2>1 DEF InitAgain, Command, objects
  <2>2. CASE \E pos \in 0 .. caller.n - 1 : Upload(pos)
    BY <2>2, SteadyUpload
  <2>3. CASE \E pos \in IF setup.careless THEN 0 .. caller.n - 1 ELSE DOMAIN wp.points : UploadAgain(pos)
    <3>1. PICK pos : UploadAgain(pos)
      BY <2>3
    <3>2. CASE Crash
      BY <3>2, SteadyKept DEF Crash, objects
    <3>3. ASSUME NEW arg, Command("add", arg, {"printed"}), UNCHANGED objects
          PROVE  Steadies'
      BY <1>1, <3>3 DEF Command, objects
    <3>4. QED BY <3>1, <3>2, <3>3 DEF UploadAgain
  <2>4. CASE Start
    BY <1>1, <2>4 DEF Start, Command, objects
  <2>5. CASE GetWaypointSettings
    BY <1>1, <2>5 DEF GetWaypointSettings, Command, objects
  <2>6. QED BY <1>7, <2>1, <2>2, <2>3, <2>4, <2>5 DEF WaypointCalls
<1>8. CASE HotpointCalls
  <2>1. CASE StartHotpoint
    <3>1. PICK values \in [Circle -> Values] : values = [f \in Circle |-> data[f]]
      BY <1>3, <1>4
    <3>2. Command("orbit", values, Plain) /\ data' = data /\ Sends(Circle)
      BY <2>1, <3>1 DEF StartHotpoint
    <3>3. apart \ Circle \subseteq apart' /\ \A f \in Fields \ apart' : f \in Circle => ~Rereading
      BY <1>4, <3>2 DEF Sends, Parts, Meets
    <3>4. \A f \in Fields : data'[f] = IF f \in Circle THEN values[f] ELSE data[f]
      BY <3>1, <3>2
    <3>5. "orbit" \in Steers
      BY DEF Steers, Begins
    <3>6. QED BY <1>2, <1>4, <3>2, <3>3, <3>4, <3>5
  <2>2. ASSUME NEW v \in Values, UpdateYawRate(v)
        PROVE  Steadies'
    <3>1. PICK values \in [{"rate"} -> Values] : values = [rate |-> v] /\ values["rate"] = v
      BY Single
    <3>2. Command("rate", values, Plain) /\ data' = [data EXCEPT !.rate = v] /\ Sends({"rate"})
      BY <2>2, <3>1 DEF UpdateYawRate
    <3>3. apart \ {"rate"} \subseteq apart' /\ \A f \in Fields \ apart' : f \in {"rate"} => ~Rereading
      BY <3>2 DEF Sends, Parts, Meets
    <3>4. \A f \in Fields : data'[f] = IF f \in {"rate"} THEN values[f] ELSE data[f]
      BY <1>3, <3>1, <3>2
    <3>5. "rate" \in Steers
      BY DEF Steers, Changes
    <3>6. QED BY <1>2, <1>4, <3>2, <3>3, <3>4, <3>5
  <2>3. ASSUME NEW v \in Values, UpdateRadius(v)
        PROVE  Steadies'
    <3>1. PICK values \in [{"radius"} -> Values] : values = [radius |-> v]
      BY Single
    <3>2. Command("radius", values, Plain) /\ data' = data /\ apart' = apart \cup {"radius"}
      BY <2>3, <3>1 DEF UpdateRadius, Parts
    <3>3. "radius" \in Steers
      BY DEF Steers, Changes
    <3>4. QED BY <1>2, <1>4, <3>2, <3>3
  <2>4. CASE ReadData
    <3>1. CASE Command("readOrbit", 0, Plain) /\ UNCHANGED apart
      BY <1>1, <2>4, <3>1 DEF ReadData, Command, Steers, Begins, Changes
    <3>2. CASE Command("readOrbit", 0, {"callback"}) /\ Meets(Circle)
      <4>1. PICK m : m = [kind |-> "readOrbit", arg |-> 0, back |-> "callback"]
        OBVIOUS
      <4>2. /\ air' = Append(air, m) /\ acks' = acks /\ fc' = fc /\ data' = data
            /\ apart' = apart \ Circle
        BY <2>4, <3>2, <4>1 DEF ReadData, Command, CommandOf, Send, Meets
      <4>3. Fetches(m) /\ \A f : ~Carries(m, f)
        BY <4>1 DEF Fetches, Carries, Steers, Begins, Changes
      <4>4. \A f \in Fields \ apart' :
              \/ f \notin apart /\ data'[f] = data[f] /\ ~Carries(m, f) /\ (f \in Circle => ~Fetches(m))
              \/ f \in Circle /\ Fetches(m)
        BY <4>2, <4>3
      <4>5. QED BY <4>2, <4>4, SteadyCall
    <3>3. QED BY <2>4, <3>1, <3>2 DEF ReadData
  <2>5. CASE SetHotpoint
    <3>1. PICK fields \in SUBSET Circle \ {{}} : \E values \in [fields -> Values] : SetFields(values)
      BY <2>5 DEF SetHotpoint
    <3>2. fields \in SUBSET Fields
      BY DEF Fields
    <3>3. QED BY <1>5, <3>1, <3>2
  <2>6. QED BY <1>8, <2>1, <2>2, <2>3, <2>4, <2>5 DEF HotpointCalls
<1>9. CASE FollowCalls
  <2>1. ASSUME NEW v \in Values, NEW back, NEW kind \in {"follow", "aim"},
               Send(kind, [target |-> v], back), acks' = acks, fc' = fc,
               data' = [data EXCEPT !.target = v], Meets({"target"})
        PROVE  Steadies'
    <3>1. PICK values \in [{"target"} -> Values] : values = [target |-> v] /\ values["target"] = v
      BY Single
    <3>2. apart \ {"target"} \subseteq apart' /\ \A f \in {"target"} \cap Circle : ~Rereading
      BY <1>4, <2>1 DEF Meets
    <3>3. \A f \in Fields : data'[f] = IF f \in {"target"} THEN values[f] ELSE data[f]
      BY <1>3, <2>1, <3>1
    <3>4. kind \in Steers /\ Send(kind, values, back)
      BY <2>1, <3>1 DEF Steers, Begins, Changes
    <3>5. QED BY <1>4, <2>1, <3>2, <3>3, <3>4, SteadySteers
  <2>2. ASSUME NEW v \in Values, StartFollow(v)
        PROVE  Steadies'
    <3>1. PICK back \in Plain : Send("follow", [target |-> v], back)
      BY <2>2 DEF StartFollow, Command, CommandOf
    <3>2. acks' = acks /\ fc' = fc /\ data' = [data EXCEPT !.target = v] /\ Meets({"target"})
      BY <2>2 DEF StartFollow, Command, CommandOf
    <3>3. QED BY <2>1, <3>1, <3>2
  <2>3. ASSUME NEW v \in Values, UpdateTarget(v)
        PROVE  Steadies'
    BY <2>1, <2>3 DEF UpdateTarget
  <2>4. CASE SetFollow
    BY <1>4, <1>5, <2>4 DEF SetFollow
  <2>5. QED BY <1>9, <2>2, <2>3, <2>4 DEF FollowCalls
<1>10. ASSUME NEW mission \in setup.stops, Stop(mission)
       PROVE  Steadies'
  BY <1>1, <1>10 DEF Stop, Command, objects, Steers, Begins, Changes
<1>11. QED BY <1>6, <1>7, <1>8, <1>9, <1>10 DEF OwnCall

LEMMA SteadyMainStep ==
  ASSUME Typed, Steadies, MainStep
  PROVE  Steadies'
<1>1. CASE OwnCall
  BY <1>1, SteadyOwnCall
<1>2. CASE Catch \/ Begin \/ Resume \/ SleepOver
  BY <1>2, SteadyKept DEF Catch, Begin, Resume, SleepOver, objects
<1>3. CASE Example
  <2>1. PICK s : ExampleCall(s)
    BY <1>3 DEF Example
  <2>2. CASE s = 1
    <3>1. InitMission(MaxPoints)
      BY <2>1, <2>2 DEF ExampleCall
    <3>2. PICK back \in Plain : Send("init", MaxPoints, back)
      BY <3>1 DEF InitMission, CommandOf
    <3>3. acks' = acks /\ fc' = fc /\ data' = data /\ apart' = apart
      BY <3>1 DEF InitMission, CommandOf
    <3>4. QED BY <3>2, <3>3, SteadyPlain DEF Steers, Begins, Changes
  <2>3. CASE s # 1 /\ s <= MaxPoints + 1
    <3>1. Upload(s - 2)
      BY <2>1, <2>3 DEF ExampleCall
    <3>2. QED BY <3>1, SteadyUpload
  <2>4. CASE s # 1 /\ ~(s <= MaxPoints + 1)
    <3>1. Start
      BY <2>1, <2>4 DEF ExampleCall
    <3>2. PICK back \in Plain : Send("start", 0, back)
      BY <3>1 DEF Start, Command, CommandOf
    <3>3. acks' = acks /\ fc' = fc /\ data' = data /\ apart' = apart
      BY <3>1 DEF Start, Command, CommandOf, objects
    <3>4. QED BY <3>2, <3>3, SteadyPlain DEF Steers, Begins, Changes
  <2>5. QED BY <2>2, <2>3, <2>4
<1>4. QED BY <1>1, <1>2, <1>3 DEF MainStep

-----------------------------------------------------------------------------
(* The example *)

\* The command of a step of the example.
ExCall(s) == IF s = 1 THEN [kind |-> "init", arg |-> MaxPoints, back |-> "wait"]
             ELSE IF s <= MaxPoints + 1 THEN [kind |-> "add", arg |-> <<s - 2, Point>>, back |-> "wait"]
             ELSE [kind |-> "start", arg |-> 0, back |-> "wait"]

\* How many of its commands it has sent, and how many have reached the flight controller.
Sent == IF caller.at = "idle" THEN caller.step - 1 ELSE caller.step
Done == IF air # <<>> THEN caller.step - 1 ELSE Sent

\* One command or one answer is on its way, and only while the example waits.
ExLine == /\ caller.at # "waiting" => air = <<>> /\ acks = <<>>
          /\ caller.at = "waiting" =>
               \/ Len(air) = 1 /\ air[1] = ExCall(caller.step) /\ acks = <<>>
               \/ air = <<>> /\ Len(acks) = 1 /\ acks[1].back = "wait"
\* What the object has after k commands, and what the flight controller has: with no init
\* refused the points are the example's; with no point refused, those of all the commands
\* so far are, if there is room for them.
ExMade(k) == k >= 1 => /\ wp.n = MaxPoints /\ caller.n = MaxPoints
                       /\ wp.size = IF k = 1 THEN None ELSE MaxPoints
Own(f)      == \A i \in DOMAIN f : f[i] = Point
Whole(f, l) == \A i \in Posns : i < l => i \in DOMAIN f /\ f[i] = Point
ExDone(k) == /\ fc.flies = "waypoint" => k = MaxPoints + 2
             /\ k >= 1 /\ "init" \notin setup.refuses => fc.n = MaxPoints /\ Own(fc.points)
             /\ k >= 1 /\ "add" \notin setup.refuses /\ fc.n = MaxPoints => Whole(fc.points, k - 1)
             /\ k = MaxPoints + 2 /\ setup.refuses = {} => DOMAIN fc.flown = Posns /\ Own(fc.flown)
             /\ fc.flies = "waypoint" /\ ~({"init", "add"} \subseteq setup.refuses) => Own(fc.flown)
Ex == /\ caller.at \in {"idle", "waiting", "woken"} /\ fc.flies \in {"none", "waypoint"}
      /\ fc.n \in {0, MaxPoints}
      /\ caller.step = 0 => fc.flies = "none" /\ caller.at = "idle"
      /\ ExLine
      /\ caller.step > 0 => ExMade(Sent) /\ ExDone(Done)

\* A command of the example is carried out or refused, in its order.
LEMMA ExTaken ==
  ASSUME Typed, Ex, NEW s \in 1 .. MaxPoints + 2, ExDone(s - 1),
         NEW ok \in BOOLEAN, Take(ExCall(s), ok), caller' = caller, setup' = setup
  PROVE  fc'.flies \in {"none", "waypoint"} /\ fc'.n \in {0, MaxPoints} /\ ExDone(s)'
<1> DEFINE m == ExCall(s)
<1>1. /\ FcTyped /\ fc' = (IF ok THEN After(m) ELSE fc)
      /\ IF ok THEN Allowed(m) ELSE ~Allowed(m) \/ m.kind \in setup.refuses
  BY DEF Typed, Take
<1>2. fc.flies = "none" /\ Ground /\ Idle
  BY Bound DEF Ex, ExDone, Ground, Idle
<1>3. Point' = Point
  BY DEF Point
<1>4. /\ DOMAIN fc.points \subseteq Posns /\ \A i \in DOMAIN fc.points : i < fc.n
  BY <1>1 DEF FcTyped, Held, Posns
<1>5. CASE s = 1
  <2>1. m.kind = "init" /\ m.arg = MaxPoints
    BY <1>5 DEF ExCall
  <2>2. ok \/ "init" \in setup.refuses
    BY <1>1, <1>2, <2>1 DEF Allowed
  <2>3. /\ fc'.flies = "none" /\ fc'.n = (IF ok THEN MaxPoints ELSE fc.n)
        /\ fc'.points = IF ok THEN <<>> ELSE fc.points
    BY <1>1, <1>2, <2>1, Effect DEF Steers, Begins, Changes
  <2>4. ok => \A f : f = <<>> => DOMAIN f = {}
    OBVIOUS
  <2>5. "init" \notin setup.refuses => fc'.n = MaxPoints /\ \A i \in DOMAIN fc'.points : FALSE
    BY <2>2, <2>3, <2>4
  <2>6. \A i \in Posns : ~(i < s - 1)
    BY <1>5, Bound DEF Posns
  <2>7. s # MaxPoints + 2
    BY <1>5, Bound
  <2>8. QED BY <2>3, <2>5, <2>6, <2>7 DEF ExDone, Own, Whole, Ex
<1>6. CASE s \in 2 .. MaxPoints + 1
  <2>1. /\ s # 1 /\ s <= MaxPoints + 1 /\ s - 1 >= 1 /\ s # MaxPoints + 2 /\ s - 2 \in Posns
        /\ (s - 1) - 1 = s - 2
    BY <1>6, Bound DEF Posns
  <2>2. m = [kind |-> "add", arg |-> <<s - 2, Point>>, back |-> "wait"]
    BY <2>1 DEF ExCall
  <2>3. m.kind = "add" /\ m.arg[1] = s - 2 /\ m.arg[2] = Point
    BY <2>2
  <2>4. ok \/ "add" \in setup.refuses \/ ~(s - 2 < fc.n)
    BY <1>1, <1>2, <2>3 DEF Allowed
  <2>5. /\ fc'.flies = "none" /\ fc'.n = fc.n
        /\ fc'.points = IF ok THEN Written(fc.points, s - 2, Point) ELSE fc.points
    <3>1. /\ fc'.flies = fc.flies /\ fc'.n = fc.n
          /\ fc'.points = IF ok THEN Written(fc.points, m.arg[1], m.arg[2]) ELSE fc.points
      BY <1>1, <2>3, Effect DEF Steers, Begins, Changes
    <3>2. QED BY <1>2, <2>3, <3>1
  <2>6. Own(fc.points) => Own(fc'.points)
    BY <2>5 DEF Own, Written
  <2>7. ASSUME Whole(fc.points, s - 2), ok
        PROVE  Whole(fc'.points, s - 1)
    <3>1. \A i \in Posns : i < s - 1 => i < s - 2 \/ i = s - 2
      BY <1>6, Bound DEF Posns
    <3>2. QED BY <2>5, <2>7, <3>1 DEF Whole, Written
  <2>8. fc.n = MaxPoints => s - 2 < fc.n
    BY <2>1, Bound DEF Posns
  <2>9. /\ "init" \notin setup.refuses => fc'.n = MaxPoints /\ Own(fc'.points)
        /\ "add" \notin setup.refuses /\ fc'.n = MaxPoints => Whole(fc'.points, s - 1)
    BY <2>1, <2>4, <2>5, <2>6, <2>7, <2>8 DEF ExDone
  <2>10. QED BY <1>3, <2>1, <2>5, <2>9 DEF ExDone, Ex, Own, Whole
<1>7. CASE s = MaxPoints + 2
  <2>1. s # 1 /\ ~(s <= MaxPoints + 1) /\ s - 1 >= 1 /\ (s - 1) - 1 = MaxPoints
    BY <1>7, Bound
  <2>2. m.kind = "start"
    BY <2>1 DEF ExCall
  <2>3. /\ fc'.flies = (IF ok THEN "waypoint" ELSE "none") /\ fc'.n = fc.n /\ fc'.points = fc.points
        /\ fc'.flown = IF ok THEN fc.points ELSE fc.flown
    BY <1>1, <1>2, <2>2, Effect DEF Steers, Begins, Changes
  <2>4. /\ "init" \notin setup.refuses => fc.n = MaxPoints /\ Own(fc.points)
        /\ "add" \notin setup.refuses /\ fc.n = MaxPoints => Whole(fc.points, MaxPoints)
    BY <2>1 DEF ExDone
  <2>5. ASSUME Whole(fc.points, MaxPoints)
        PROVE  DOMAIN fc.points = Posns /\ Own(fc.points) /\ Whole(fc.points, s - 1)
    <3>1. \A i \in Posns : i < MaxPoints
      BY Bound DEF Posns
    <3>2. QED BY <1>4, <2>5, <3>1 DEF Whole, Own
  <2>6. ok => Complete
    BY <1>1, <2>2 DEF Allowed, Begins, Changes, Reads
  <2>7. setup.refuses = {} => ok /\ DOMAIN fc.points = Posns /\ Own(fc.points)
    <3>1. SUFFICES ASSUME setup.refuses = {} PROVE ok /\ DOMAIN fc.points = Posns /\ Own(fc.points)
      OBVIOUS
    <3>2. fc.n = MaxPoints /\ DOMAIN fc.points = Posns /\ Own(fc.points)
      BY <2>4, <2>5, <3>1
    <3>3. Complete
      BY <3>2, Bound DEF Complete, Posns
    <3>4. QED BY <1>1, <1>2, <2>2, <3>1, <3>2, <3>3 DEF Allowed
  <2>8. ok /\ ~({"init", "add"} \subseteq setup.refuses) => Own(fc.points)
    <3>1. ok => fc.n = MaxPoints
      BY <2>6 DEF Complete, Ex
    <3>2. QED BY <2>4, <2>5, <3>1
  <2>9. "add" \notin setup.refuses /\ fc'.n = MaxPoints => Whole(fc'.points, s - 1)
    BY <2>3, <2>4, <2>5
  <2>10. QED BY <1>3, <1>7, <2>3, <2>4, <2>7, <2>8, <2>9 DEF ExDone, Ex, Own, Whole
<1>8. QED BY <1>5, <1>6, <1>7, Bound

LEMMA ExFcStep ==
  ASSUME Typed, setup.prompt, Ex, FcStep
  PROVE  Ex'
<1>1. /\ Len(air) \in Nat \ {0} /\ DOMAIN air = 1 .. Len(air) /\ Len(air') = Len(air) - 1
      /\ air[1] \in Cmds(setup) /\ wp' = wp /\ caller' = caller /\ setup' = setup
  BY TakenFirst
<1>2. PICK ok \in BOOLEAN : Take(air[1], ok)
  BY TakenFirst
<1>3. caller.at = "waiting" /\ Len(air) = 1 /\ air[1] = ExCall(caller.step) /\ acks = <<>>
  <2>1. air # <<>>
    BY <1>1
  <2>2. QED BY <2>1 DEF Ex, ExLine
<1>4. caller.step \in 1 .. MaxPoints + 2 /\ caller.step > 0
  <2>1. caller.step # 0 /\ caller.step # Sleeping
    BY <1>3 DEF Ex, Typed, CallerTyped
  <2>2. QED BY <2>1, Numerals, Bound
<1>5. air' = <<>>
  <2>1. air' \in Seq(Cmds(setup))
    BY <1>1, FcStepTyped DEF Typed, LineTyped
  <2>2. QED BY <1>1, <1>3, <2>1, EmptySeq
<1>6. Len(acks') = 1 /\ acks'[1].back = "wait"
  <2>1. air[1].back = "wait"
    BY <1>3 DEF ExCall
  <2>2. Len(acks) = 0
    BY <1>3
  <2>3. PICK e \in Answers : e.back = "wait" /\ Len(acks') = Len(acks) + 1 /\ acks'[Len(acks) + 1] = e
    BY <1>1, <1>2, <2>1, AnswerAdded
  <2>4. QED BY <2>2, <2>3
<1>7. Sent = caller.step /\ Done = caller.step - 1 /\ Sent' = caller.step /\ Done' = caller.step
  <2>1. air # <<>>
    BY <1>1
  <2>2. QED BY <1>1, <1>3, <1>5, <2>1 DEF Sent, Done
<1>8. ExMade(caller.step) /\ ExDone(caller.step - 1)
  BY <1>4, <1>7 DEF Ex
<1>9. fc'.flies \in {"none", "waypoint"} /\ fc'.n \in {0, MaxPoints} /\ ExDone(caller.step)'
  <2>1. PICK s \in 1 .. MaxPoints + 2 : s = caller.step
    BY <1>4
  <2>2. ExDone(s - 1) /\ Take(ExCall(s), ok)
    BY <1>2, <1>3, <1>8, <2>1
  <2>3. fc'.flies \in {"none", "waypoint"} /\ fc'.n \in {0, MaxPoints} /\ ExDone(s)'
    BY <1>1, <2>2, ExTaken
  <2>4. QED BY <1>1, <2>1, <2>3
<1>10. ExMade(Sent)' /\ ExDone(Done)'
  BY <1>1, <1>7, <1>8, <1>9 DEF ExMade, ExDone
<1>11. ExLine'
  BY <1>1, <1>3, <1>5, <1>6 DEF ExLine
<1>12. QED BY <1>1, <1>3, <1>4, <1>9, <1>10, <1>11 DEF Ex

\* The mission ends, or the example is woken.
LEMMA ExReads ==
  ASSUME Typed, setup.prompt, Ex, Finish \/ ReadStep
  PROVE  Ex'
<1>1. CASE Finish
  <2>1. /\ fc' = [fc EXCEPT !.flies = "none"] /\ setup' = setup
        /\ wp' = wp /\ caller' = caller /\ air' = air /\ acks' = acks
    BY <1>1 DEF Finish, objects
  <2>2. fc'.flies = "none" /\ fc'.n = fc.n /\ fc'.points = fc.points /\ fc'.flown = fc.flown
    BY <2>1 DEF Typed, FcTyped
  <2>3. Point' = Point /\ Sent' = Sent /\ Done' = Done /\ ExLine' = ExLine
    BY <2>1 DEF Point, Sent, Done, ExLine, ExCall
  <2>4. ExMade(Sent) => ExMade(Sent)'
    BY <2>1, <2>3 DEF ExMade
  <2>5. ExDone(Done) => ExDone(Done)'
    BY <2>1, <2>2, <2>3 DEF ExDone, Own, Whole
  <2>6. QED BY <2>1, <2>2, <2>3, <2>4, <2>5 DEF Ex
<1>2. CASE ReadStep
  <2>1. /\ Len(acks) \in Nat \ {0} /\ Len(acks') = Len(acks) - 1 /\ Head(acks) = acks[1]
        /\ acks' \in Seq(Answers) /\ air' = air /\ fc' = fc /\ setup' = setup
    BY <1>2, HeardFirst
  <2>2. caller.at = "waiting" /\ air = <<>> /\ Len(acks) = 1 /\ acks[1].back = "wait"
    <3>1. acks # <<>>
      BY <2>1
    <3>2. QED BY <3>1 DEF Ex, ExLine
  <2>3. Head(acks).back = "wait" /\ acks' = <<>>
    BY <2>1, <2>2, EmptySeq
  <2>4. Wake
    BY <1>2, <2>3 DEF ReadStep, GetWaypointSettingsCallback, ReadCallback, Printed, Answered
  <2>5. wp' = wp /\ caller' = [caller EXCEPT !.at = "woken", !.refused = Heard]
    BY <2>2, <2>4 DEF Wake
  <2>6. caller'.at = "woken" /\ caller'.step = caller.step /\ caller'.n = caller.n
        /\ caller'.made = caller.made
    BY <2>5 DEF Typed, CallerTyped, Callers
  <2>7. Point' = Point /\ Sent' = Sent /\ Done' = Done
    BY <2>1, <2>2, <2>6 DEF Point, Sent, Done
  <2>8. ExMade(Sent) => ExMade(Sent)'
    BY <2>5, <2>6, <2>7 DEF ExMade
  <2>9. ExDone(Done) => ExDone(Done)'
    BY <2>1, <2>7 DEF ExDone, Own, Whole
  <2>10. ExLine'
    BY <2>1, <2>2, <2>3, <2>6 DEF ExLine
  <2>11. caller.step # 0
    BY <2>2 DEF Ex
  <2>12. QED BY <2>1, <2>6, <2>8, <2>9, <2>10, <2>11 DEF Ex
<1>3. QED BY <1>1, <1>2

\* The next call of the example.
LEMMA ExCalls ==
  ASSUME Typed, setup.prompt, "example" \in setup.uses, Ex, Example
  PROVE  Ex'
<1>1. /\ caller.at = "idle" /\ caller.step \in 1 .. MaxPoints + 2 /\ ExampleCall(caller.step)
      /\ setup.blocking = {TRUE} /\ air = <<>> /\ acks = <<>>
  <2>1. setup.blocking = {TRUE}
    BY SetupTyped
  <2>2. caller.at = "idle" /\ caller.step \in 1 .. MaxPoints + 2 /\ ExampleCall(caller.step)
    BY Bound DEF Example, Sleeping
  <2>3. QED BY <2>1, <2>2 DEF Ex, ExLine
<1>2. Sent = caller.step - 1 /\ Done = caller.step - 1
  BY <1>1 DEF Sent, Done
<1>3. ExMade(caller.step - 1) /\ ExDone(caller.step - 1)
  BY <1>1, <1>2 DEF Ex
<1>4. SUFFICES /\ fc' = fc /\ caller'.at = "waiting" /\ caller'.step = caller.step /\ acks' = <<>>
               /\ ExMade(caller.step)' /\ (caller.step # 1 => Point' = Point) /\ setup' = setup
               /\ air' # <<>> /\ Len(air') = 1 /\ air'[1] = ExCall(caller.step)'
  <2>1. Sent' = caller.step /\ Done' = caller.step - 1
    BY <1>4 DEF Sent, Done
  <2>2. ExDone(Done)'
    <3>1. CASE caller.step = 1
      <4>1. ~(0 >= 1) /\ 0 # MaxPoints + 2 /\ Done' = 0
        BY <2>1, <3>1, Bound
      <4>2. fc.flies # "waypoint"
        BY <1>3, <3>1, Bound DEF ExDone
      <4>3. QED BY <1>4, <4>1, <4>2 DEF ExDone
    <3>2. CASE caller.step # 1
      BY <1>3, <1>4, <2>1, <3>2 DEF ExDone, Own, Whole
    <3>3. QED BY <3>1, <3>2
  <2>3. ExMade(Sent)'
    BY <1>4, <2>1 DEF ExMade
  <2>4. ExLine'
    BY <1>4 DEF ExLine, ExCall
  <2>5. QED BY <1>1, <1>4, <2>2, <2>3, <2>4 DEF Ex
<1>5. ASSUME NEW kind, NEW arg, Command(kind, arg, Plain)
      PROVE  /\ fc' = fc /\ acks' = <<>> /\ air' = << [kind |-> kind, arg |-> arg, back |-> "wait"] >>
             /\ caller'.at = "waiting" /\ caller'.step = caller.step /\ setup' = setup
             /\ caller'.made = caller.made /\ caller'.n = caller.n /\ Point' = Point
  <2>1. /\ Send(kind, arg, "wait") /\ fc' = fc /\ acks' = acks /\ setup' = setup
        /\ caller' = [caller EXCEPT !.at = "waiting", !.calls = IF caller.step > 0 THEN @ ELSE @ + 1]
    BY <1>1, <1>5 DEF Command, CommandOf, Plain
  <2>2. air' = << [kind |-> kind, arg |-> arg, back |-> "wait"] >>
    BY <1>1, <2>1 DEF Send
  <2>3. /\ caller'.at = "waiting" /\ caller'.step = caller.step
        /\ caller'.made = caller.made /\ caller'.n = caller.n
    BY <2>1 DEF Typed, CallerTyped, Callers
  <2>4. QED BY <1>1, <2>1, <2>2, <2>3 DEF Point
<1>6. CASE caller.step = 1
  <2>1. InitMission(MaxPoints)
    BY <1>1, <1>6 DEF ExampleCall
  <2>2. /\ Send("init", MaxPoints, "wait") /\ fc' = fc /\ acks' = acks /\ setup' = setup
        /\ wp' = [n |-> MaxPoints, size |-> None, points |-> <<>>]
        /\ caller' = [Making(MaxPoints) EXCEPT !.at = "waiting",
                                               !.calls = IF caller.step > 0 THEN @ ELSE @ + 1]
    BY <1>1, <2>1 DEF InitMission, CommandOf, Plain
  <2>3. air' = << [kind |-> "init", arg |-> MaxPoints, back |-> "wait"] >>
    BY <1>1, <2>2 DEF Send
  <2>4. caller'.at = "waiting" /\ caller'.step = caller.step /\ caller'.n = MaxPoints
    BY <2>2 DEF Typed, CallerTyped, Callers, Making
  <2>5. ExMade(1)'
    BY <2>2, <2>4 DEF ExMade
  <2>6. air' # <<>> /\ Len(air') = 1 /\ air'[1] = ExCall(caller.step)'
    BY <1>6, <2>3, <2>4 DEF ExCall
  <2>7. QED BY <1>1, <1>6, <2>2, <2>4, <2>5, <2>6
<1>7. CASE caller.step \in 2 .. MaxPoints + 1
  <2> DEFINE pos == caller.step - 2
  <2>1. Upload(pos)
    BY <1>1, <1>7, Bound DEF ExampleCall
  <2>2. /\ wp.n = MaxPoints /\ caller.n = MaxPoints /\ pos \in Posns
        /\ wp.size = IF caller.step = 2 THEN None ELSE MaxPoints
    <3>1. caller.step - 1 >= 1 /\ (caller.step - 1 = 1 <=> caller.step = 2)
      BY <1>7, Bound
    <3>2. pos \in Posns
      BY <1>7, Bound DEF Posns
    <3>3. QED BY <1>3, <3>1, <3>2 DEF ExMade
  <2>3. Table(pos).n = MaxPoints /\ Table(pos).size = MaxPoints
    BY <2>2, Bound DEF Table, Typed, WpTyped, None
  <2>4. wp' = Table(pos) /\ Command("add", <<pos, Point>>, Plain)
    <3>1. ~(pos >= Table(pos).size) /\ ~(pos >= wp.n)
      BY <2>2, <2>3, Bound DEF Posns
    <3>2. QED BY <2>1, <3>1 DEF Upload
  <2>5. caller.step # 1 /\ caller.step <= MaxPoints + 1
    BY <1>7, Bound
  <2>6. air' # <<>> /\ Len(air') = 1 /\ air'[1] = ExCall(caller.step)'
    BY <1>5, <2>4, <2>5 DEF ExCall
  <2>7. ExMade(caller.step)'
    BY <1>5, <2>2, <2>3, <2>4, <2>5 DEF ExMade
  <2>8. QED BY <1>5, <2>4, <2>6, <2>7
<1>8. CASE caller.step = MaxPoints + 2
  <2>1. Command("start", 0, Plain) /\ wp' = wp
    BY <1>1, <1>8, Bound DEF ExampleCall, Start, objects
  <2>2. caller.step # 1 /\ ~(caller.step <= MaxPoints + 1) /\ caller.step - 1 >= 1 /\ caller.step - 1 # 1
    BY <1>8, Bound
  <2>3. air' # <<>> /\ Len(air') = 1 /\ air'[1] = ExCall(caller.step)'
    BY <1>5, <2>1, <2>2 DEF ExCall
  <2>4. ExMade(caller.step)'
    BY <1>3, <1>5, <2>1, <2>2 DEF ExMade
  <2>5. QED BY <1>5, <2>1, <2>3, <2>4
<1>9. QED BY <1>1, <1>6, <1>7, <1>8, Bound

LEMMA ExMainStep ==
  ASSUME Typed, setup.prompt, "example" \in setup.uses, Ex, MainStep
  PROVE  Ex'
<1>1. ~OwnCall
  <2>1. setup.uses = {"example"} /\ setup.stops = {}
    BY SetupTyped
  <2>2. ~Announce /\ ~WaypointCalls /\ ~HotpointCalls /\ ~FollowCalls
    BY <2>1 DEF Announce, WaypointCalls, HotpointCalls, FollowCalls
  <2>3. QED BY <2>1, <2>2 DEF OwnCall
<1>2. CASE Begin
  <2>1. /\ caller' = [caller EXCEPT !.calls = @ + 1, !.step = 1]
        /\ wp' = wp /\ fc' = fc /\ air' = air /\ acks' = acks /\ caller.step = 0 /\ caller.at = "idle"
    BY <1>2 DEF Begin, Free, objects
  <2>2. caller'.step = 1 /\ caller'.at = "idle" /\ air' = <<>> /\ acks' = <<>> /\ fc'.flies = "none"
    BY <2>1 DEF Typed, CallerTyped, Callers, Ex, ExLine
  <2>3. Sent' = 0 /\ Done' = 0
    BY <2>2 DEF Sent, Done
  <2>4. ExMade(Sent)' /\ ExDone(Done)'
    BY <2>2, <2>3, Bound DEF ExMade, ExDone
  <2>5. QED BY <2>1, <2>2, <2>4 DEF Ex, ExLine
<1>3. CASE Example
  BY <1>3, ExCalls
<1>4. CASE Resume
  <2>1. /\ caller.at = "woken" /\ caller' = [caller EXCEPT !.at = "idle", !.step = IF @ > 0 THEN @ + 1 ELSE 0]
        /\ wp' = wp /\ fc' = fc /\ air' = air /\ acks' = acks /\ setup' = setup
    BY <1>4 DEF Resume, objects
  <2>2. caller.step > 0 /\ air = <<>> /\ acks = <<>> /\ Sent = caller.step /\ Done = caller.step
    <3>1. caller.step # 0 /\ air = <<>> /\ acks = <<>>
      BY <2>1 DEF Ex, ExLine
    <3>2. QED BY <2>1, <3>1, Numerals, Bound DEF Sent, Done
  <2>3. /\ caller'.at = "idle" /\ caller'.step = caller.step + 1
        /\ caller'.made = caller.made /\ caller'.n = caller.n
    BY <2>1, <2>2 DEF Typed, CallerTyped, Callers
  <2>4. Sent' = Sent /\ Done' = Done /\ Point' = Point
    <3>1. (caller.step + 1) - 1 = caller.step
      BY Numerals, Bound
    <3>2. QED BY <2>1, <2>2, <2>3, <3>1 DEF Sent, Done, Point
  <2>5. ExMade(Sent)' /\ ExDone(Done)'
    BY <2>1, <2>2, <2>3, <2>4 DEF Ex, ExMade, ExDone, Own, Whole
  <2>6. caller'.step # 0
    BY <2>2, <2>3, Numerals
  <2>7. QED BY <2>1, <2>2, <2>3, <2>5, <2>6 DEF Ex, ExLine
<1>5. CASE SleepOver
  <2>1. /\ caller' = [caller EXCEPT !.step = 0] /\ caller.step = Sleeping /\ Ground
        /\ wp' = wp /\ fc' = fc /\ air' = air /\ acks' = acks
    BY <1>5, SetupTyped DEF SleepOver, objects, Landed
  <2>2. caller.at = "idle" /\ fc.flies = "none"
    BY <2>1 DEF Typed, CallerTyped, Ex, Ground
  <2>3. caller'.at = "idle" /\ caller'.step = 0
    BY <2>1, <2>2 DEF Typed, CallerTyped, Callers
  <2>4. QED BY <2>1, <2>2, <2>3 DEF Ex, ExLine
<1>6. ~Catch
  BY DEF Catch, Ex
<1>7. QED BY <1>1, <1>2, <1>3, <1>4, <1>5, <1>6 DEF MainStep

LEMMA NextEx ==
  ASSUME Typed, setup.prompt, "example" \in setup.uses, Ex, [Next]_vars
  PROVE  Ex'
<1>1. CASE UNCHANGED vars
  BY <1>1 DEF vars, objects, Ex, ExLine, ExCall, ExMade, ExDone, Own, Whole, Sent, Done, Point
<1>2. ~Lose
  BY DEF Lose
<1>3. QED
  BY <1>1, <1>2, ExFcStep, ExReads, ExMainStep DEF Next

-----------------------------------------------------------------------------
(* A program that is careful *)

\* An init is refused, and main knows of it or will.
Refused(m) == m.kind = "init" /\ ~m.ok
Refusal    == caller.refused \/ \E k \in DOMAIN acks : Refused(acks[k])
\* What main uploads next belongs to what it has sent, unless that was refused: then there
\* is a mission that the flight controller has kept.
Mission     == \E p \in Points : OneMission(fc.points, fc.n, air, p) /\ (p = Point \/ Refusal)
Uploaded(f) == \A i \in DOMAIN f : f[i] = f[0] /\ f[i].n = Cardinality(DOMAIN f)
\* Inits are refused only where that is heeded, and when it is heard nothing is on its way.
Heeded      == (Refusal => setup.heeds) /\ (caller.refused => air = <<>> /\ acks = <<>>)
\* Nothing is sent behind what is awaited, so that its answer finds all as it was asked for.
AwaitedLast == /\ \A i \in DOMAIN air : Awaited(air[i]) => i = Len(air)
               /\ \A k \in DOMAIN acks : Awaited(acks[k]) =>
                    /\ k = Len(acks) /\ air = <<>>
                    /\ acks[k].kind = "settings" /\ fc.n > 0 => acks[k].data = fc.n
\* The table is the one of the mission that was made last.
Fitting(w)  == /\ caller.made > 0 => w.n = caller.n
               /\ w.size \in {None, caller.n}
               /\ caller.made = 0 => w.size = None
               /\ \A k \in DOMAIN w.points : w.points[k] = Point
OwnTable    == Fitting(wp) /\ caller.at \notin {"crashed", "thrown"}
\* A mission is announced on the ground, and not behind a start, unless its answer is heeded.
Announces   == setup.heeds \/ \A i \in DOMAIN air : air[i].kind = "init" =>
                 Ground /\ \A j \in DOMAIN air : j < i => air[j].kind # "start"
Orderly     == Mission /\ Uploaded(fc.flown) /\ Heeded /\ AwaitedLast /\ OwnTable /\ Announces

\* Nothing is awaited, and an init would not be refused or is heeded.
Unawaited == /\ \A i \in DOMAIN air : ~Awaited(air[i])
             /\ \A k \in DOMAIN acks : ~Awaited(acks[k])
Landing   == setup.heeds \/ (Ground /\ \A i \in DOMAIN air : air[i].kind # "start")

LEMMA Unrefused ==
  ASSUME Orderly, Unawaited
  PROVE  /\ \A k \in DOMAIN acks : ~Refused(acks[k])
         /\ ~caller.refused => OneMission(fc.points, fc.n, air, Point)
<1>1. \A k \in DOMAIN acks : ~Refused(acks[k])
  BY DEF Orderly, Heeded, Refusal, Unawaited, Awaited, Refused
<1>2. QED BY <1>1 DEF Orderly, Mission, Refusal

LEMMA OrderlyCall ==
  ASSUME Typed, Typed', Orderly, Unawaited, NEW m \in Cmds(setup), air' = Append(air, m),
         fc' = fc, acks' = acks, setup' = setup, OwnTable', ~caller'.refused,
         \/ m.kind # "init" /\ (m.kind = "add" => m.arg[2] = Point) /\ Point' = Point /\ ~caller.refused
         \/ m.kind = "init" /\ Point'.n = m.arg /\ Landing
  PROVE  Orderly'
<1>1. air \in Seq(Cmds(setup))
  BY DEF Typed, LineTyped
<1>2. ~Refusal'
  BY Unrefused DEF Refusal, Refused
<1>3. Mission'
  <2>1. Point' \in Points'
    BY DEF Typed, CallerTyped, Callers, Points, Point
  <2>2. PICK p \in Points : /\ OneMission(fc.points, fc.n, air, p)
                            /\ ~caller.refused => p = Point
    BY Unrefused, SetupTyped DEF Orderly, Mission
  <2>3. \/ m.kind # "init" /\ (m.kind = "add" => m.arg[2] = p) /\ Point' = p
        \/ m.kind = "init" /\ Point'.n = m.arg
    BY <2>2
  <2>4. PICK q : q = Point'
    OBVIOUS
  <2>5. OneMission(fc.points, fc.n, Append(air, m), q)
    BY <1>1, <2>2, <2>3, <2>4, OneSent
  <2>6. QED BY <2>1, <2>4, <2>5 DEF Mission
<1>4. /\ Len(air) \in Nat /\ Len(air') = Len(air) + 1 /\ DOMAIN air = 1 .. Len(air)
      /\ DOMAIN air' = 1 .. Len(air) + 1
      /\ (\A i \in 1 .. Len(air) : air'[i] = air[i]) /\ air'[Len(air) + 1] = m
  BY <1>1, Added
<1>5. AwaitedLast'
  <2>1. ASSUME NEW i \in DOMAIN air', Awaited(air'[i])
        PROVE  i = Len(air')
    BY <1>4, <2>1, Upto DEF Unawaited
  <2>2. \A k \in DOMAIN acks' : ~Awaited(acks'[k])
    BY DEF Unawaited
  <2>3. QED BY <2>1, <2>2 DEF AwaitedLast, Awaited
<1>6. Announces'
  <2>1. ASSUME NEW i \in DOMAIN air', air'[i].kind = "init", ~setup.heeds
        PROVE  Ground /\ \A j \in DOMAIN air' : j < i => air'[j].kind # "start"
    <3>1. CASE i = Len(air) + 1
      <4>1. Ground /\ \A j \in DOMAIN air : air[j].kind # "start"
        BY <1>4, <2>1, <3>1 DEF Landing
      <4>2. \A j \in DOMAIN air' : j < i => j \in DOMAIN air /\ air'[j] = air[j]
        BY <1>4, <3>1
      <4>3. QED BY <4>1, <4>2
    <3>2. CASE i \in 1 .. Len(air)
      <4>1. i \in DOMAIN air /\ air[i].kind = "init"
        BY <1>4, <2>1, <3>2
      <4>2. Ground /\ \A j \in DOMAIN air : j < i => air[j].kind # "start"
        BY <2>1, <4>1 DEF Orderly, Announces
      <4>3. \A j \in DOMAIN air' : j < i => j \in DOMAIN air /\ air'[j] = air[j]
        BY <1>4, <3>2
      <4>4. QED BY <4>2, <4>3
    <3>3. QED BY <1>4, <2>1, <3>1, <3>2, Upto
  <2>2. QED BY <2>1 DEF Announces, Ground
<1>7. Uploaded(fc'.flown) /\ Heeded'
  BY <1>2 DEF Orderly, Heeded, Refusal
<1>8. QED BY <1>3, <1>5, <1>6, <1>7 DEF Orderly, Uploaded

\* What changes nothing that the others look at.
LEMMA OrderlyKept ==
  ASSUME Orderly, setup' = setup, air' = air, fc' = fc, acks' = acks, Point' = Point, OwnTable',
         caller'.refused = caller.refused
  PROVE  Orderly'
<1>1. Refusal' = Refusal /\ Points' = Points
  BY DEF Refusal, Refused, Points
<1>2. Mission'
  BY <1>1 DEF Orderly, Mission
<1>3. Heeded' /\ AwaitedLast' /\ Announces' /\ Uploaded(fc.flown)'
  BY <1>1 DEF Orderly, Heeded, AwaitedLast, Awaited, Announces, Ground, Uploaded
<1>4. QED BY <1>2, <1>3 DEF Orderly

\* A complete mission is uploaded whole.
LEMMA CompleteUploaded ==
  ASSUME Typed, Mission, Complete
  PROVE  Uploaded(fc.points)
<1>1. fc.n \in Nat /\ fc.n >= 1 /\ DOMAIN fc.points = 0 .. fc.n - 1
  BY Numerals DEF Complete
<1>2. Cardinality(DOMAIN fc.points) = fc.n
  <2>1. fc.n - 1 \in Int /\ 0 \in Int /\ ~(0 > fc.n - 1) /\ (fc.n - 1) - 0 + 1 = fc.n
    BY <1>1
  <2>2. Cardinality(0 .. fc.n - 1) = fc.n
    BY <2>1, FS_Interval
  <2>3. QED BY <1>1, <2>2
<1>3. PICK p : Together(fc.points, fc.n, air, p, 0, 0)
  <2>1. Len(air) \in Nat
    BY LenProperties DEF Typed, LineTyped
  <2>2. 0 \in 0 .. Len(air) + 1 /\ ~Parted(air, 0, 0)
    BY <2>1 DEF Parted
  <2>3. QED BY <2>2 DEF Mission, OneMission
<1>4. ASSUME NEW i \in DOMAIN fc.points
      PROVE  fc.points[i] = fc.points[0] /\ fc.points[i].n = fc.n
  <2>1. 0 \in DOMAIN fc.points
    BY <1>1
  <2>2. fc.points[i] \in Told(fc.points, air, p, 0) /\ fc.points[0] \in Told(fc.points, air, p, 0)
    BY <2>1 DEF Told
  <2>3. fc.n \in Announced(fc.n, air, 0)
    BY DEF Announced
  <2>4. QED BY <1>3, <2>2, <2>3 DEF Together
<1>5. QED BY <1>2, <1>4 DEF Uploaded

\* What a refused init leaves is one mission, if not the one that main would upload.
LEMMA OneLeft ==
  ASSUME Typed, NEW q, OneMission(fc.points, fc.n, air, q), NEW b, b = <<>>
  PROVE  \E p \in Points : OneMission(fc.points, fc.n, b, p)
<1>1. Together(fc.points, fc.n, air, q, 0, 0)
  <2>1. Len(air) \in Nat
    BY LenProperties DEF Typed, LineTyped
  <2>2. 0 \in 0 .. Len(air) + 1 /\ ~Parted(air, 0, 0)
    BY <2>1 DEF Parted
  <2>3. QED BY <2>2 DEF OneMission
<1>2. \A i, j \in DOMAIN fc.points : fc.points[i] = fc.points[j] /\ fc.points[i].n = fc.n
  <2>1. \A i \in DOMAIN fc.points : fc.points[i] \in Told(fc.points, air, q, 0)
    BY DEF Told
  <2>2. fc.n \in Announced(fc.n, air, 0)
    BY DEF Announced
  <2>3. QED BY <1>1, <2>1, <2>2 DEF Together
<1>3. PICK p \in Points : p.n = fc.n /\ \A i \in DOMAIN fc.points : fc.points[i] = p
  <2>1. CASE \E i \in DOMAIN fc.points : TRUE
    <3>1. PICK i \in DOMAIN fc.points : TRUE
      BY <2>1
    <3>2. fc.points[i] \in Points
      BY DEF Typed, FcTyped, Held
    <3>3. QED BY <1>2, <3>2
  <2>2. CASE ~\E i \in DOMAIN fc.points : TRUE
    <3>1. [of |-> 0, n |-> fc.n] \in Points
      BY Numerals DEF Points
    <3>2. QED BY <2>2, <3>1
  <2>3. QED BY <2>1, <2>2
<1>4. Len(b) + 1 = 1 /\ DOMAIN b = {}
  OBVIOUS
<1>5. \A i \in 0 .. 1 : /\ Told(fc.points, b, p, i) \subseteq {p}
                        /\ Announced(fc.n, b, i) \subseteq {fc.n}
  BY <1>3, <1>4 DEF Told, Announced
<1>6. \A i, j \in 0 .. 1 : Together(fc.points, fc.n, b, p, i, j)
  BY <1>3, <1>5 DEF Together
<1>7. QED BY <1>4, <1>6 DEF OneMission

LEMMA OrderlyFcStep ==
  ASSUME Typed, Typed', Careful, Orderly, FcStep
  PROVE  Orderly'
<1> DEFINE m == air[1]
<1>1. /\ Len(air) \in Nat \ {0} /\ DOMAIN air = 1 .. Len(air) /\ Len(air') = Len(air) - 1
      /\ DOMAIN air' = 1 .. Len(air') /\ \A k \in 1 .. Len(air') : air'[k] = air[k + 1]
      /\ m \in Cmds(setup) /\ wp' = wp /\ caller' = caller /\ setup' = setup
  BY TakenFirst DEF Careful
<1>2. PICK ok \in BOOLEAN : Take(m, ok)
  BY TakenFirst DEF Careful
<1> HIDE DEF m
<1>3. /\ FcTyped /\ 1 \in DOMAIN air /\ air # <<>> /\ fc' = (IF ok THEN After(m) ELSE fc)
      /\ IF ok THEN Allowed(m) ELSE ~Allowed(m) \/ m.kind \in setup.refuses
  BY <1>1, <1>2 DEF Typed, Take
<1>4. ~caller.refused /\ \A k \in DOMAIN acks : ~Awaited(acks[k])
  BY <1>3 DEF Orderly, Heeded, AwaitedLast
<1>5. ~Refusal /\ OneMission(fc.points, fc.n, air, Point)
  BY <1>4 DEF Orderly, Mission, Heeded, Refusal, Refused, Awaited
<1>6. /\ Len(acks) \in Nat /\ DOMAIN acks = 1 .. Len(acks)
      /\ \/ m.back = "none" /\ acks' = acks
         \/ \E e \in Answers :
              /\ e.kind = m.kind /\ e.back = m.back /\ e.ok = ok /\ e.data \in Data(m, ok)
              /\ DOMAIN acks' = 1 .. Len(acks) + 1 /\ Len(acks') = Len(acks) + 1
              /\ (\A k \in 1 .. Len(acks) : acks'[k] = acks[k]) /\ acks'[Len(acks) + 1] = e
  BY <1>1, <1>2, AnswerAdded
<1>7. m.kind = "init" => m.back # "none"
  BY <1>1, CommandTyped DEF Plain
<1>8. m.kind = "init" /\ ~ok => setup.heeds
  BY <1>3 DEF Careful, Orderly, Announces, Allowed, m
<1>9. Awaited(m) => Len(air) = 1 /\ air' = <<>>
  <2>1. Awaited(m) => Len(air) = 1
    BY <1>3 DEF Orderly, AwaitedLast, m
  <2>2. PICK T : air' \in Seq(T)
    BY DEF Typed, LineTyped
  <2>3. Len(air) = 1 => Len(air') = 0
    BY <1>1
  <2>4. Len(air') = 0 => air' = <<>>
    BY <2>2, EmptySeq
  <2>5. QED BY <2>1, <2>3, <2>4
<1>10. Refusal' <=> m.kind = "init" /\ ~ok
  <2>1. \A k \in DOMAIN acks : ~Refused(acks[k])
    BY <1>5 DEF Refusal
  <2>2. CASE m.back = "none" /\ acks' = acks
    BY <1>1, <1>4, <1>7, <2>1, <2>2 DEF Refusal, Refused
  <2>3. ASSUME NEW e \in Answers,
               e.kind = m.kind, e.back = m.back, e.ok = ok, e.data \in Data(m, ok),
               DOMAIN acks' = 1 .. Len(acks) + 1, Len(acks') = Len(acks) + 1,
               \A k \in 1 .. Len(acks) : acks'[k] = acks[k], acks'[Len(acks) + 1] = e
        PROVE  Refusal' <=> m.kind = "init" /\ ~ok
    <3>1. \A k \in DOMAIN acks' : Refused(acks'[k]) <=> k = Len(acks) + 1 /\ Refused(e)
      BY <1>6, <2>1, <2>3, Upto
    <3>2. Len(acks) + 1 \in DOMAIN acks'
      BY <1>6, <2>3
    <3>3. (\E k \in DOMAIN acks' : Refused(acks'[k])) <=> Refused(e)
      BY <3>1, <3>2
    <3>4. Refusal' <=> \E k \in DOMAIN acks' : Refused(acks'[k])
      BY <1>1, <1>4 DEF Refusal, Refused
    <3>5. QED BY <2>3, <3>3, <3>4 DEF Refused
  <2>4. QED BY <1>6, <2>2, <2>3
<1>11. Point' = Point /\ Points' = Points /\ Point \in Points
  BY <1>1, SetupTyped DEF Point, Points
<1>12. Mission'
  <2>1. CASE m.kind = "init" /\ ~ok
    <3>1. setup.heeds /\ Awaited(m)
      BY <1>8, <2>1 DEF Awaited
    <3>2. air' = <<>> /\ fc' = fc
      BY <1>3, <1>9, <2>1, <3>1
    <3>3. PICK b : b = air'
      OBVIOUS
    <3>4. PICK p \in Points : OneMission(fc.points, fc.n, b, p)
      BY <1>5, <3>2, <3>3, OneLeft
    <3>5. QED BY <1>10, <1>11, <2>1, <3>2, <3>3, <3>4 DEF Mission
  <2>2. CASE ~(m.kind = "init" /\ ~ok)
    <3>1. \/ m.kind = "init" /\ fc'.n = m.arg /\ DOMAIN fc'.points = {}
          \/ /\ m.kind # "init" /\ fc'.n = fc.n
             /\ \A k \in DOMAIN fc'.points : \/ \E l \in DOMAIN fc.points : fc'.points[k] = fc.points[l]
                                             \/ m.kind = "add" /\ fc'.points[k] = m.arg[2]
      <4>1. /\ fc'.n = IF ok /\ m.kind = "init" THEN m.arg ELSE fc.n
            /\ fc'.points = IF ok /\ m.kind = "init" THEN <<>>
                            ELSE IF ok /\ m.kind = "add" THEN Written(fc.points, m.arg[1], m.arg[2])
                            ELSE fc.points
        BY <1>3, Effect
      <4>2. CASE m.kind = "init"
        <5>1. fc'.n = m.arg /\ fc'.points = <<>>
          BY <2>2, <4>1, <4>2
        <5>2. DOMAIN fc'.points = {}
          BY <5>1
        <5>3. QED BY <4>2, <5>1, <5>2
      <4>3. CASE m.kind # "init"
        <5>1. \/ fc'.points = fc.points
              \/ m.kind = "add" /\ fc'.points = Written(fc.points, m.arg[1], m.arg[2])
          BY <4>1, <4>3
        <5>2. CASE fc'.points = fc.points
          BY <4>1, <4>3, <5>2
        <5>3. CASE m.kind = "add" /\ fc'.points = Written(fc.points, m.arg[1], m.arg[2])
          <6>1. \A k \in DOMAIN fc'.points : \/ \E l \in DOMAIN fc.points : fc'.points[k] = fc.points[l]
                                             \/ fc'.points[k] = m.arg[2]
            BY <5>3 DEF Written
          <6>2. QED BY <4>1, <4>3, <5>3, <6>1
        <5>4. QED BY <5>1, <5>2, <5>3
      <4>4. QED BY <4>2, <4>3
    <3>2. OneMission(fc'.points, fc'.n, air', Point)
      BY <1>1, <1>5, <3>1, OneTaken DEF m
    <3>3. QED BY <1>11, <3>2 DEF Mission
  <2>3. QED BY <2>1, <2>2
<1>13. Uploaded(fc'.flown)
  <2>1. fc'.flown = IF ok /\ m.kind = "start" THEN fc.points ELSE fc.flown
    BY <1>3, Effect
  <2>2. ok /\ m.kind = "start" => Complete
    BY <1>3 DEF Allowed, Begins, Changes
  <2>3. ok /\ m.kind = "start" => Uploaded(fc.points)
    BY <2>2, CompleteUploaded DEF Orderly
  <2>4. QED BY <2>1, <2>3 DEF Orderly
<1>14. Heeded'
  BY <1>1, <1>4, <1>8, <1>10 DEF Heeded
<1>15. AwaitedLast'
  <2>1. ASSUME NEW i \in DOMAIN air', Awaited(air'[i])
        PROVE  i = Len(air')
    <3>1. i \in 1 .. Len(air) - 1 /\ i + 1 \in DOMAIN air /\ air'[i] = air[i + 1]
      BY <1>1, <2>1
    <3>2. i + 1 = Len(air)
      BY <2>1, <3>1 DEF Orderly, AwaitedLast
    <3>3. QED BY <1>1, <3>1, <3>2
  <2>2. CASE acks' = acks
    BY <1>1, <1>4, <2>1, <2>2 DEF AwaitedLast, Awaited
  <2>3. ASSUME NEW e \in Answers,
               e.kind = m.kind, e.back = m.back, e.ok = ok, e.data \in Data(m, ok),
               DOMAIN acks' = 1 .. Len(acks) + 1, Len(acks') = Len(acks) + 1,
               \A k \in 1 .. Len(acks) : acks'[k] = acks[k], acks'[Len(acks) + 1] = e
        PROVE  AwaitedLast'
    <3>1. ASSUME NEW k \in DOMAIN acks', Awaited(acks'[k])
          PROVE  /\ k = Len(acks') /\ air' = <<>>
                 /\ acks'[k].kind = "settings" /\ fc'.n > 0 => acks'[k].data = fc'.n
      <4>1. k = Len(acks) + 1
        BY <1>4, <1>6, <2>3, <3>1, Upto
      <4>2. Awaited(m) /\ acks'[k] = e
        BY <2>3, <3>1, <4>1 DEF Awaited
      <4>3. ASSUME m.kind = "settings", fc'.n > 0
            PROVE  e.data = fc'.n
        <5>1. fc'.n = fc.n
          BY <1>3, <4>3, Effect
        <5>2. Allowed(m) /\ m.kind \notin setup.refuses
          BY <4>3, <5>1, SetupTyped DEF Allowed, Reads
        <5>3. ok
          BY <1>3, <5>2
        <5>4. QED BY <2>3, <4>3, <5>1, <5>3 DEF Data
      <4>4. QED BY <1>9, <2>3, <4>1, <4>2, <4>3
    <3>2. QED BY <1>1, <2>1, <3>1 DEF AwaitedLast, Awaited
  <2>4. QED BY <1>6, <2>2, <2>3
<1>16. OwnTable'
  BY <1>1 DEF Orderly, OwnTable, Fitting, Point
<1>17. Announces'
  <2>1. ASSUME NEW i \in DOMAIN air', air'[i].kind = "init", ~setup.heeds
        PROVE  fc'.flies # "waypoint" /\ \A j \in DOMAIN air' : j < i => air'[j].kind # "start"
    <3>1. i \in Nat /\ i + 1 \in DOMAIN air /\ 1 < i + 1 /\ air[i + 1].kind = "init"
      BY <1>1, <2>1
    <3>2. Ground /\ \A j \in DOMAIN air : j < i + 1 => air[j].kind # "start"
      BY <2>1, <3>1 DEF Orderly, Announces
    <3>3. m.kind # "start"
      BY <1>3, <3>1, <3>2 DEF m
    <3>4. fc'.flies # "waypoint"
      <4>1. fc'.flies \in {fc.flies, Flying(m), "none"}
        BY <1>3, <3>3, Effect
      <4>2. QED BY <3>2, <4>1 DEF Ground, Flying
    <3>5. \A j \in DOMAIN air' : j < i => j + 1 \in DOMAIN air /\ j + 1 < i + 1 /\ air'[j] = air[j + 1]
      BY <1>1, <3>1
    <3>6. QED BY <3>2, <3>4, <3>5
  <2>2. QED BY <1>1, <2>1 DEF Announces, Ground
<1>18. QED BY <1>12, <1>13, <1>14, <1>15, <1>16, <1>17 DEF Orderly, Uploaded

LEMMA OrderlyFinish ==
  ASSUME Typed, Orderly, Finish
  PROVE  Orderly'
<1>1. /\ fc' = [fc EXCEPT !.flies = "none"] /\ setup' = setup
      /\ wp' = wp /\ air' = air /\ acks' = acks /\ caller' = caller
  BY DEF Finish, objects
<1>2. fc'.flies = "none" /\ fc'.n = fc.n /\ fc'.points = fc.points /\ fc'.flown = fc.flown
  BY <1>1 DEF Typed, FcTyped
<1>3. Refusal' = Refusal /\ Points' = Points /\ Point' = Point
  BY <1>1 DEF Refusal, Refused, Points, Point
<1>4. Mission' /\ Uploaded(fc'.flown)
  BY <1>1, <1>2, <1>3 DEF Orderly, Mission
<1>5. Heeded' /\ AwaitedLast' /\ OwnTable'
  BY <1>1, <1>2, <1>3 DEF Orderly, Heeded, AwaitedLast, Awaited, OwnTable, Fitting
<1>6. Announces'
  BY <1>1, <1>2 DEF Orderly, Announces, Ground
<1>7. QED BY <1>4, <1>5, <1>6 DEF Orderly, Uploaded

\* An answer is heard, and whether it refuses an init is known from then on.
LEMMA OrderlyReads ==
  ASSUME Typed, Orderly, ReadStep
  PROVE  Orderly'
<1> DEFINE a == acks[1]
<1>1. /\ Len(acks) \in Nat \ {0} /\ DOMAIN acks = 1 .. Len(acks)
      /\ Len(acks') = Len(acks) - 1 /\ DOMAIN acks' = 1 .. Len(acks')
      /\ (\A k \in 1 .. Len(acks') : acks'[k] = acks[k + 1])
      /\ Head(acks) = a /\ a \in Answers
      /\ acks' \in Seq(Answers) /\ air' = air /\ fc' = fc /\ setup' = setup
  BY HeardFirst
<1> HIDE DEF a
<1>2. acks # <<>> /\ 1 \in DOMAIN acks /\ ~caller.refused
  <2>1. acks # <<>> /\ 1 \in DOMAIN acks
    BY <1>1
  <2>2. QED BY <2>1 DEF Orderly, Heeded
<1>3. Awaited(a) => air = <<>> /\ acks' = <<>>
  <2>1. Awaited(a) => air = <<>> /\ Len(acks) = 1
    BY <1>2 DEF Orderly, AwaitedLast, a
  <2>2. Len(acks) = 1 => Len(acks') = 0
    BY <1>1
  <2>3. Len(acks') = 0 => acks' = <<>>
    BY <1>1, EmptySeq
  <2>4. QED BY <2>1, <2>2, <2>3
<1>4. /\ \A k \in DOMAIN acks' : k + 1 \in DOMAIN acks /\ acks'[k] = acks[k + 1]
      /\ \A k \in DOMAIN acks : k = 1 \/ (k - 1 \in DOMAIN acks' /\ acks'[k - 1] = acks[k])
  BY <1>1
<1>5. AwaitedLast'
  <2>1. ASSUME NEW k \in DOMAIN acks', Awaited(acks'[k])
        PROVE  /\ k = Len(acks') /\ air = <<>>
               /\ acks'[k].kind = "settings" /\ fc.n > 0 => acks'[k].data = fc.n
    <3>1. k + 1 \in DOMAIN acks /\ acks'[k] = acks[k + 1] /\ Awaited(acks[k + 1])
      BY <1>4, <2>1
    <3>2. /\ k + 1 = Len(acks) /\ air = <<>>
          /\ acks[k + 1].kind = "settings" /\ fc.n > 0 => acks[k + 1].data = fc.n
      BY <3>1 DEF Orderly, AwaitedLast
    <3>3. k = Len(acks')
      BY <1>1, <3>2
    <3>4. QED BY <3>1, <3>2, <3>3
  <2>2. \A i \in DOMAIN air : Awaited(air[i]) => i = Len(air)
    BY DEF Orderly, AwaitedLast
  <2>3. QED BY <1>1, <2>1, <2>2 DEF AwaitedLast, Awaited
<1>6. /\ caller'.made = caller.made /\ caller'.n = caller.n
      /\ caller'.at \in {caller.at, "woken"}
      /\ caller'.refused <=> setup.heeds /\ Refused(a)
  <2>1. CASE Wake \/ Printed
    <3>1. \/ caller' = [caller EXCEPT !.at = IF @ = "waiting" THEN "woken" ELSE @, !.refused = Heard]
          \/ caller' = [caller EXCEPT !.refused = Heard]
      BY <2>1 DEF Wake, Printed
    <3>2. Heard <=> setup.heeds /\ Refused(a)
      BY <1>1, <1>2 DEF Heard, Refused
    <3>3. QED BY <3>1, <3>2 DEF Typed, CallerTyped, Callers
  <2>2. CASE GetWaypointSettingsCallback \/ ReadCallback
    <3>1. caller' = caller /\ a.kind # "init"
      BY <1>1, <2>2 DEF GetWaypointSettingsCallback, ReadCallback
    <3>2. QED BY <1>2, <3>1 DEF Refused
  <2>3. QED BY <2>1, <2>2 DEF ReadStep
<1>7. caller'.refused => air' = <<>> /\ acks' = <<>>
  BY <1>1, <1>3, <1>6 DEF Awaited, Refused
<1>8. Refusal' <=> Refusal
  <2>1. Refusal <=> Refused(a) \/ \E k \in DOMAIN acks' : Refused(acks'[k])
    BY <1>2, <1>4 DEF Refusal, a
  <2>2. Refused(a) => setup.heeds
    BY <2>1 DEF Orderly, Heeded
  <2>3. Refusal' <=> caller'.refused \/ \E k \in DOMAIN acks' : Refused(acks'[k])
    BY DEF Refusal, Refused
  <2>4. QED BY <1>6, <2>1, <2>2, <2>3
<1>9. Point' = Point /\ Points' = Points
  BY <1>1, <1>6 DEF Point, Points
<1>10. Mission' /\ Heeded' /\ Announces' /\ Uploaded(fc'.flown)
  BY <1>1, <1>7, <1>8, <1>9 DEF Orderly, Mission, Heeded, Announces, Ground
<1>11. OwnTable'
  <2>1. ASSUME GetWaypointSettingsCallback, caller.made > 0
        PROVE  a.data = caller.n
    <3>1. a.kind = "settings" /\ a.back = "callback" /\ Awaited(a)
      BY <1>1, <2>1 DEF GetWaypointSettingsCallback, Answered, Awaited, Reads
    <3>2. air = <<>> /\ acks' = <<>> /\ (fc.n > 0 => a.data = fc.n)
      BY <1>2, <1>3, <3>1 DEF Orderly, AwaitedLast, a
    <3>3. ~Refusal
      <4>1. \A k \in DOMAIN acks' : FALSE
        BY <3>2
      <4>2. \A k \in DOMAIN acks : k = 1
        BY <1>4, <4>1
      <4>3. QED BY <1>2, <3>1, <4>2 DEF Refusal, Refused, a
    <3>4. Together(fc.points, fc.n, air, Point, 0, 1)
      <4>1. Len(air) = 0 /\ DOMAIN air = {}
        BY <3>2
      <4>2. 0 \in 0 .. Len(air) + 1 /\ 1 \in 0 .. Len(air) + 1 /\ ~Parted(air, 0, 1)
        BY <4>1 DEF Parted
      <4>3. QED BY <3>3, <4>2 DEF Orderly, Mission, OneMission
    <3>5. Point \in Told(fc.points, air, Point, 1) /\ fc.n \in Announced(fc.n, air, 0)
      <4>1. Len(air) + 1 = 1
        BY <3>2
      <4>2. QED BY <4>1 DEF Told, Announced
    <3>6. Point.n = fc.n
      BY <3>4, <3>5 DEF Together
    <3>7. caller.n = fc.n /\ caller.n # 0
      BY <2>1, <3>6, Numerals DEF Point, Typed, CallerTyped
    <3>8. QED BY <3>2, <3>7, Numerals
  <2>2. CASE GetWaypointSettingsCallback
    <3>1. wp' = [wp EXCEPT !.n = a.data]
      BY <1>1, <2>2 DEF GetWaypointSettingsCallback
    <3>2. wp'.n = a.data /\ wp'.size = wp.size /\ wp'.points = wp.points
      BY <3>1 DEF Typed, WpTyped
    <3>3. QED BY <1>6, <1>9, <2>1, <2>2, <3>2 DEF Orderly, OwnTable, Fitting
  <2>3. CASE Wake \/ Printed \/ ReadCallback
    <3>1. wp' = wp
      BY <2>3 DEF Wake, Printed, ReadCallback
    <3>2. QED BY <1>6, <1>9, <3>1 DEF Orderly, OwnTable, Fitting
  <2>4. QED BY <2>2, <2>3 DEF ReadStep
<1>12. QED BY <1>5, <1>10, <1>11 DEF Orderly, Uploaded

\* A call that sends a command which belongs to the mission of the objects.
LEMMA OrderlyCommand ==
  ASSUME Typed, Typed', Orderly, Unawaited, ~caller.refused, NEW kind, NEW arg, NEW backs,
         Command(kind, arg, backs),
         \A back \in backs : [kind |-> kind, arg |-> arg, back |-> back] \in Cmds(setup),
         Fitting(wp'),
         \/ kind # "init" /\ (kind = "add" => arg[2] = Point)
         \/ kind = "init" /\ caller.n = arg /\ Landing
  PROVE  Orderly'
<1>1. PICK back \in backs :
        /\ Send(kind, arg, back)
        /\ caller' = [caller EXCEPT !.at = IF back = "wait" THEN "waiting" ELSE "idle",
                                    !.calls = IF caller.step > 0 THEN @ ELSE @ + 1]
        /\ UNCHANGED <<setup, fc, acks>>
  BY DEF Command, CommandOf
<1>2. /\ caller'.made = caller.made /\ caller'.n = caller.n /\ caller'.at \in {"waiting", "idle"}
      /\ caller'.refused = caller.refused
  BY <1>1 DEF Typed, CallerTyped, Callers
<1>3. Point' = Point /\ Point'.n = caller.n
  BY <1>2 DEF Point
<1>4. OwnTable'
  BY <1>2, <1>3 DEF OwnTable, Fitting
<1>5. PICK m : m = [kind |-> kind, arg |-> arg, back |-> back]
  OBVIOUS
<1>6. m \in Cmds(setup) /\ air' = Append(air, m) /\ m.kind = kind /\ m.arg = arg
  BY <1>1, <1>5 DEF Send
<1>7. \/ m.kind # "init" /\ (m.kind = "add" => m.arg[2] = Point) /\ Point' = Point /\ ~caller.refused
      \/ m.kind = "init" /\ Point'.n = m.arg /\ Landing
  BY <1>3, <1>6
<1>8. fc' = fc /\ acks' = acks /\ setup' = setup /\ ~caller'.refused
  BY <1>1, <1>2
<1>9. QED BY <1>4, <1>6, <1>7, <1>8, OrderlyCall

\* A mission is made: the next one, whatever became of the last.
LEMMA OrderlyInit ==
  ASSUME Typed, Typed', Orderly, Unawaited, Landing, NEW n \in 1 .. MaxPoints, InitMission(n)
  PROVE  Orderly'
<1>1. PICK back \in Plain :
        /\ Send("init", n, back)
        /\ caller' = [Making(n) EXCEPT !.at = IF back = "wait" THEN "waiting" ELSE "idle",
                                       !.calls = IF caller.step > 0 THEN @ ELSE @ + 1]
  BY DEF InitMission, CommandOf
<1>2. fc' = fc /\ acks' = acks /\ setup' = setup /\ wp' = [n |-> n, size |-> None, points |-> <<>>]
  BY DEF InitMission, CommandOf
<1>3. /\ caller'.made = caller.made + 1 /\ caller'.n = n /\ caller'.at \in {"waiting", "idle"}
      /\ caller'.refused = FALSE
  BY <1>1 DEF Typed, CallerTyped, Callers, Making
<1>4. OwnTable'
  <2>1. caller'.made # 0
    BY <1>3, Numerals
  <2>2. DOMAIN wp'.points = {}
    BY <1>2
  <2>3. QED BY <1>2, <1>3, <2>1, <2>2 DEF OwnTable, Fitting
<1>5. PICK m : m = [kind |-> "init", arg |-> n, back |-> back]
  OBVIOUS
<1>6. m \in Cmds(setup) /\ air' = Append(air, m)
  <2>1. back \in Backs /\ n \in 0 .. MaxPoints
    BY <1>1, Bound, CarriedTyped
  <2>2. QED BY <1>1, <1>5, <2>1, Sendable DEF Send
<1>7. m.kind = "init" /\ m.arg = n /\ Point'.n = n
  BY <1>3, <1>5 DEF Point
<1>8. QED BY <1>2, <1>3, <1>4, <1>6, <1>7, OrderlyCall

\* A point is uploaded that the mission has.
LEMMA OrderlyUpload ==
  ASSUME Typed, Typed', Orderly, Unawaited, ~caller.refused, NEW pos \in Posns, pos < caller.n, Upload(pos)
  PROVE  Orderly'
<1>1. caller.made > 0 /\ wp.n = caller.n
  <2>1. caller.n # 0
    BY Numerals DEF Posns
  <2>2. caller.made > 0
    BY <2>1, Numerals DEF Typed, CallerTyped
  <2>3. QED BY <2>2 DEF Orderly, OwnTable, Fitting
<1>2. /\ Table(pos).size = IF wp.size = None THEN wp.n ELSE wp.size
      /\ Table(pos).n = wp.n /\ Table(pos).points = Written(wp.points, pos, Point)
  BY DEF Table, Typed, WpTyped
<1>3. Table(pos).size = caller.n
  BY <1>1, <1>2 DEF Orderly, OwnTable, Fitting
<1>4. ~(pos >= Table(pos).size) /\ ~(pos >= wp.n)
  BY <1>1, <1>3, Numerals DEF Posns
<1>5. wp' = Table(pos) /\ Command("add", <<pos, Point>>, Plain)
  BY <1>4 DEF Upload
<1>6. Fitting(wp')
  <2>1. \A k \in DOMAIN wp'.points : wp'.points[k] = Point
    <3>1. \A k \in DOMAIN wp.points : wp.points[k] = Point
      BY DEF Orderly, OwnTable, Fitting
    <3>2. wp'.points = Written(wp.points, pos, Point)
      BY <1>2, <1>5
    <3>3. QED BY <3>1, <3>2 DEF Written
  <2>2. caller.made # 0
    BY <1>1, Numerals
  <2>3. QED BY <1>1, <1>2, <1>3, <1>5, <2>1, <2>2 DEF Fitting
<1>7. \A back \in Plain : [kind |-> "add", arg |-> <<pos, Point>>, back |-> back] \in Cmds(setup)
  BY Sendable, SetupTyped, CarriedTyped
<1>8. <<pos, Point>>[2] = Point
  OBVIOUS
<1>9. QED BY <1>5, <1>6, <1>7, <1>8, OrderlyCommand

\* A call that sends nothing.
LEMMA OrderlyLocal ==
  ASSUME Typed, Orderly, UNCHANGED <<setup, wp, fc, air, acks>>,
         caller'.made = caller.made, caller'.n = caller.n, caller'.refused = caller.refused,
         caller'.at \in {caller.at, "idle"}
  PROVE  Orderly'
<1>1. Point' = Point
  BY DEF Point
<1>2. OwnTable'
  BY <1>1 DEF Orderly, OwnTable, Fitting
<1>3. QED BY <1>1, <1>2, OrderlyKept

LEMMA OrderlyOwnCall ==
  ASSUME Typed, Typed', Careful, Orderly, OwnCall
  PROVE  Orderly'
<1>1. caller.step = 0 /\ caller.at = "idle"
  BY DEF OwnCall, Free
<1>2. Unawaited
  BY DEF OwnCall, Free, Quiet, ToSet, Unawaited, Careful
<1>3. Fitting(wp) /\ caller.at \notin {"crashed", "thrown"}
  BY DEF Orderly, OwnTable
<1>4. Landed => Landing
  BY DEF Landed, Landing, Coming, ToSet, Careful
<1> DEFINE Fits(kind, arg, backs) ==
             \A back \in backs : [kind |-> kind, arg |-> arg, back |-> back] \in Cmds(setup)
<1>5. ASSUME ~caller.refused, NEW kind, NEW arg, NEW backs, Fits(kind, arg, backs),
             Command(kind, arg, backs), wp' = wp,
             \/ kind # "init" /\ (kind = "add" => arg[2] = Point)
             \/ kind = "init" /\ caller.n = arg /\ Landing
      PROVE  Orderly'
  <2>1. Fitting(wp')
    BY <1>3, <1>5
  <2>2. QED BY <1>2, <1>5, <2>1, OrderlyCommand
<1> HIDE DEF Fits
<1>6. CASE Announce
  BY <1>2, <1>4, <1>6, OrderlyInit DEF Announce
<1>7. CASE ~caller.refused /\ WaypointCalls
  <2>1. CASE Landed /\ InitAgain
    <3>1. caller.made > 0 /\ Command("init", wp.n, Plain) /\ wp' = wp
      BY <2>1 DEF InitAgain, objects
    <3>2. wp.n = caller.n
      BY <1>3, <3>1 DEF Fitting
    <3>3. Fits("init", wp.n, Plain)
      BY Sendable, Numerals, CarriedTyped DEF Fits
    <3>4. QED BY <1>4, <1>5, <1>7, <2>1, <3>1, <3>2, <3>3
  <2>2. CASE \E pos \in 0 .. caller.n - 1 : Upload(pos)
    <3>1. PICK pos \in 0 .. caller.n - 1 : Upload(pos)
      BY <2>2
    <3>2. pos \in Posns /\ pos < caller.n
      BY <3>1, Numerals, Bound DEF Posns
    <3>3. QED BY <1>2, <1>7, <3>1, <3>2, OrderlyUpload
  <2>3. CASE \E pos \in DOMAIN wp.points : UploadAgain(pos)
    <3>1. PICK pos \in DOMAIN wp.points : UploadAgain(pos)
      BY <2>3
    <3>2. wp.points[pos] = Point /\ pos < wp.size /\ pos \in Posns
      BY <1>3, <3>1 DEF Fitting, Typed, WpTyped, Held, Posns
    <3>3. ~(pos >= wp.size)
      BY <3>2, Numerals, Bound DEF None, Posns
    <3>4. Command("add", <<pos, Point>>, {"printed"}) /\ wp' = wp
      BY <3>1, <3>2, <3>3 DEF UploadAgain, objects
    <3>5. Fits("add", <<pos, Point>>, {"printed"})
      BY <3>2, Sendable, SetupTyped DEF Fits, Backs
    <3>6. "add" # "init" /\ <<pos, Point>>[2] = Point
      OBVIOUS
    <3>7. QED BY <1>5, <1>7, <3>4, <3>5, <3>6
  <2>4. CASE Start
    <3>1. Fits("start", 0, Plain)
      BY Sendable, CarriedTyped DEF Fits
    <3>2. QED BY <1>5, <1>7, <2>4, <3>1 DEF Start, objects
  <2>5. CASE GetWaypointSettings
    <3>1. Fits("settings", 0, {"wait", "callback"})
      BY Sendable DEF Fits, Backs, Reads
    <3>2. QED BY <1>5, <1>7, <2>5, <3>1 DEF GetWaypointSettings, objects
  <2>6. QED BY <1>7, <2>1, <2>2, <2>3, <2>4, <2>5 DEF WaypointCalls, Careful
<1>8. ASSUME NEW values, SetFields(values)
      PROVE  Orderly'
  <2>1. /\ UNCHANGED <<setup, wp, fc, air, acks>> /\ caller' = [caller EXCEPT !.calls = @ + 1]
    BY <1>8 DEF SetFields, Local
  <2>2. /\ caller'.made = caller.made /\ caller'.n = caller.n /\ caller'.refused = caller.refused
        /\ caller'.at = caller.at
    BY <2>1 DEF Typed, CallerTyped, Callers
  <2>3. QED BY <2>1, <2>2, OrderlyLocal
<1>9. CASE ~caller.refused /\ HotpointCalls
  <2>1. CASE StartHotpoint
    <3>1. Fits("orbit", [f \in Circle |-> data[f]], Plain)
      BY Sendable, CarriedTyped DEF Fits
    <3>2. QED BY <1>5, <1>9, <2>1, <3>1 DEF StartHotpoint
  <2>2. ASSUME NEW v \in Values, UpdateYawRate(v)
        PROVE  Orderly'
    <3>1. Fits("rate", [rate |-> v], Plain)
      BY Sendable, CarriedTyped DEF Fits
    <3>2. QED BY <1>5, <1>9, <2>2, <3>1 DEF UpdateYawRate
  <2>3. ASSUME NEW v \in Values, UpdateRadius(v)
        PROVE  Orderly'
    <3>1. Fits("radius", [radius |-> v], Plain)
      BY Sendable, CarriedTyped DEF Fits
    <3>2. QED BY <1>5, <1>9, <2>3, <3>1 DEF UpdateRadius
  <2>4. CASE ReadData
    <3>1. Fits("readOrbit", 0, Plain) /\ Fits("readOrbit", 0, {"callback"})
      BY Sendable, CarriedTyped DEF Fits, Reads
    <3>2. QED BY <1>5, <1>9, <2>4, <3>1 DEF ReadData
  <2>5. CASE SetHotpoint
    BY <1>8, <2>5 DEF SetHotpoint
  <2>6. QED BY <1>9, <2>1, <2>2, <2>3, <2>4, <2>5 DEF HotpointCalls
<1>10. CASE ~caller.refused /\ FollowCalls
  <2>1. ASSUME NEW v \in Values, StartFollow(v)
        PROVE  Orderly'
    <3>1. Fits("follow", [target |-> v], Plain)
      BY Sendable, CarriedTyped DEF Fits
    <3>2. QED BY <1>5, <1>10, <2>1, <3>1 DEF StartFollow
  <2>2. ASSUME NEW v \in Values, UpdateTarget(v)
        PROVE  Orderly'
    <3>1. PICK m : m = [kind |-> "aim", arg |-> [target |-> v], back |-> "none"]
      OBVIOUS
    <3>2. /\ setup' = setup /\ wp' = wp /\ fc' = fc /\ acks' = acks
          /\ caller' = [caller EXCEPT !.calls = @ + 1] /\ air' = Append(air, m)
      BY <2>2, <3>1 DEF UpdateTarget, Send
    <3>3. m \in Cmds(setup) /\ m.kind = "aim"
      BY <3>1, Sendable, CarriedTyped
    <3>4. /\ caller'.made = caller.made /\ caller'.n = caller.n /\ caller'.at = caller.at
          /\ caller'.refused = caller.refused
      BY <3>2 DEF Typed, CallerTyped, Callers
    <3>5. Point' = Point
      BY <3>4 DEF Point
    <3>6. OwnTable'
      BY <1>3, <3>2, <3>4, <3>5 DEF OwnTable, Fitting
    <3>7. QED BY <1>2, <1>10, <3>2, <3>3, <3>4, <3>5, <3>6, OrderlyCall
  <2>3. CASE SetFollow
    BY <1>8, <2>3 DEF SetFollow
  <2>4. QED BY <1>10, <2>1, <2>2, <2>3 DEF FollowCalls
<1>11. ASSUME ~caller.refused, NEW mission \in setup.stops, Stop(mission)
       PROVE  Orderly'
  <2>1. Fits("stop", mission, Plain)
    BY Sendable, CarriedTyped DEF Fits
  <2>2. QED BY <1>5, <1>11, <2>1 DEF Stop, objects
<1>12. QED BY <1>6, <1>7, <1>9, <1>10, <1>11 DEF OwnCall

LEMMA OrderlyMainStep ==
  ASSUME Typed, Typed', Careful, Orderly, "example" \in setup.uses => Ex, MainStep
  PROVE  Orderly'
<1>1. CASE OwnCall
  BY <1>1, OrderlyOwnCall
<1>2. CASE Begin \/ Resume \/ SleepOver \/ Catch
  <2>1. /\ UNCHANGED <<setup, wp, fc, air, acks>>
        /\ \/ caller' = [caller EXCEPT !.calls = @ + 1, !.step = 1]
           \/ caller' = [caller EXCEPT !.at = "idle", !.step = IF @ > 0 THEN @ + 1 ELSE 0]
           \/ caller' = [caller EXCEPT !.step = 0]
           \/ caller' = [caller EXCEPT !.at = "idle"]
    BY <1>2 DEF Begin, Resume, SleepOver, Catch, objects
  <2>2. /\ caller'.made = caller.made /\ caller'.n = caller.n /\ caller'.refused = caller.refused
        /\ caller'.at \in {caller.at, "idle"}
    BY <2>1 DEF Typed, CallerTyped, Callers
  <2>3. QED BY <2>1, <2>2, OrderlyLocal
<1>3. CASE Example
  <2>1. caller.at = "idle" /\ caller.step \in 1 .. MaxPoints + 2 /\ ExampleCall(caller.step)
    BY <1>3, Bound DEF Example, Sleeping
  <2>2. caller.step > 0
    BY <2>1, Bound
  <2>3. Ex /\ ~setup.heeds
    BY <2>2, SetupTyped DEF Typed, CallerTyped
  <2>4. air = <<>> /\ acks = <<>> /\ ExMade(caller.step - 1) /\ ExDone(caller.step - 1)
    BY <2>1, <2>2, <2>3 DEF Ex, ExLine, Sent, Done
  <2>5. Unawaited /\ ~caller.refused
    BY <2>3, <2>4 DEF Unawaited, Orderly, Heeded, Refusal
  <2>6. CASE caller.step = 1
    <3>1. InitMission(MaxPoints) /\ MaxPoints \in 1 .. MaxPoints
      BY <2>1, <2>6, Bound DEF ExampleCall
    <3>2. Landing
      BY <2>4, <2>6, Bound DEF ExDone, Ground, Landing
    <3>3. QED BY <2>5, <3>1, <3>2, OrderlyInit
  <2>7. CASE caller.step \in 2 .. MaxPoints + 1
    <3>1. Upload(caller.step - 2) /\ caller.step - 2 \in Posns
      BY <2>1, <2>7, Bound DEF ExampleCall, Posns
    <3>2. caller.step - 2 < caller.n
      BY <2>4, <2>7, Bound DEF ExMade
    <3>3. QED BY <2>5, <3>1, <3>2, OrderlyUpload
  <2>8. CASE caller.step = MaxPoints + 2
    <3>1. Command("start", 0, Plain) /\ wp' = wp
      BY <2>1, <2>8, Bound DEF ExampleCall, Start, objects
    <3>2. \A back \in Plain : [kind |-> "start", arg |-> 0, back |-> back] \in Cmds(setup)
      BY Sendable, CarriedTyped
    <3>3. Fitting(wp')
      BY <3>1 DEF Orderly, OwnTable
    <3>4. QED BY <2>5, <3>1, <3>2, <3>3, OrderlyCommand
  <2>9. QED BY <2>1, <2>6, <2>7, <2>8, Bound
<1>4. QED BY <1>1, <1>2, <1>3 DEF MainStep

-----------------------------------------------------------------------------
(* The invariant and the theorems *)

IInv == /\ Typed
        /\ setup.prompt => Steadies
        /\ setup.prompt /\ "example" \in setup.uses => Ex
        /\ Careful => Orderly

LEMMA InitInvariant == Init => IInv
<1> SUFFICES ASSUME Init PROVE IInv
  OBVIOUS
<1>1. /\ wp = [n |-> 0, size |-> None, points |-> <<>>]
      /\ data = Defaults(Fields) /\ apart = {}
      /\ fc = [flies |-> "none", n |-> 0, points |-> <<>>, flown |-> <<>>, has |-> Defaults(Fields)]
      /\ air = <<>> /\ acks = <<>>
      /\ caller = [at |-> "idle", calls |-> 0, step |-> 0, made |-> 0, n |-> 0, refused |-> FALSE]
  BY DEF Init
<1>2. Typed
  BY InitTyped
<1>3. Steadies
  <2>1. fc.flies # "hotpoint" /\ fc.flies # "follow" /\ DOMAIN air = {} /\ DOMAIN acks = {}
    BY <1>1
  <2>2. QED BY <2>1 DEF Steadies, Steady, Unfetched, Refetched, Fetched, Carried, Owner
<1>4. Ex
  BY <1>1 DEF Ex, ExLine
<1>5. Mission
  <2>1. ASSUME NEW i \in 0 .. 1, NEW j \in 0 .. 1
        PROVE  Together(fc.points, fc.n, air, Point, i, j)
    <3>1. Len(air) + 1 = 1 /\ DOMAIN air = {} /\ DOMAIN fc.points = {} /\ fc.n = 0 /\ Point.n = 0
      BY <1>1 DEF Point
    <3>2. \A k \in 0 .. 1 : Told(fc.points, air, Point, k) \subseteq {Point}
      BY <3>1 DEF Told
    <3>3. \A k \in 0 .. 1 : Announced(fc.n, air, k) \subseteq {0}
      BY <3>1 DEF Announced
    <3>4. QED BY <3>1, <3>2, <3>3 DEF Together
  <2>2. Len(air) + 1 = 1
    BY <1>1
  <2>3. Point \in Points
    BY <1>2, SetupTyped
  <2>4. QED BY <2>1, <2>2, <2>3 DEF Mission, OneMission
<1>6. Uploaded(fc.flown) /\ Heeded /\ AwaitedLast /\ Announces
  BY <1>1 DEF Uploaded, Heeded, Refusal, AwaitedLast, Announces
<1>7. OwnTable
  BY <1>1 DEF OwnTable, Fitting
<1>8. QED BY <1>2, <1>3, <1>4, <1>5, <1>6, <1>7 DEF IInv, Orderly

LEMMA NextInvariant == IInv /\ [Next]_vars => IInv'
<1> SUFFICES ASSUME IInv, [Next]_vars PROVE IInv'
  OBVIOUS
<1>1. Typed /\ Typed'
  BY NextTyped DEF IInv
<1>2. setup' = setup
  BY DEF vars, Next, FcStep, Lose, Finish, ReadStep, Wake, Printed, GetWaypointSettingsCallback,
         ReadCallback, Answered, MainStep, OwnCall, Announce, WaypointCalls, HotpointCalls, FollowCalls,
         InitAgain, InitMission, Upload, UploadAgain, Start, Stop, GetWaypointSettings, StartHotpoint,
         UpdateYawRate, UpdateRadius, ReadData, SetHotpoint, SetFollow, SetFields, Local, StartFollow,
         UpdateTarget, Begin, Catch, Example, ExampleCall, Resume, SleepOver, Command, CommandOf, Crash
<1>3. ASSUME setup.prompt
      PROVE  Steadies'
  <2>1. Steadies /\ ~Lose
    BY <1>3 DEF IInv, Lose
  <2>2. CASE UNCHANGED vars
    BY <2>1, <2>2, SteadyKept DEF vars, objects
  <2>3. QED
    BY <1>1, <1>3, <2>1, <2>2, SteadyFcStep, SteadyFinish, SteadyReads, SteadyMainStep DEF Next
<1>4. setup.prompt /\ "example" \in setup.uses => Ex'
  BY <1>1, NextEx DEF IInv
<1>5. ASSUME Careful
      PROVE  Orderly'
  <2>1. Orderly /\ ("example" \in setup.uses => Ex) /\ ~Lose
    BY <1>5 DEF IInv, Careful, Lose
  <2>2. CASE UNCHANGED vars
    BY <1>1, <2>1, <2>2, OrderlyLocal DEF vars, objects
  <2>3. QED
    BY <1>1, <1>5, <2>1, <2>2, OrderlyFcStep, OrderlyFinish, OrderlyReads, OrderlyMainStep DEF Next
<1>6. Careful' = Careful
  BY <1>2 DEF Careful
<1>7. QED BY <1>1, <1>2, <1>3, <1>4, <1>5, <1>6 DEF IInv

LEMMA Invariant == Spec => []IInv
  BY InitInvariant, NextInvariant, PTL DEF Spec

\* Points lie in the table that was made for them, the flight controller has none beyond
\* its settings, and a program that announces before it uploads, heeds refusals of its inits
\* where there are any, and makes no call while it awaits an answer, neither leaves its
\* table nor is told of a range error.
THEOREM MissionsStayInTables == Spec => []TableHolds
<1>1. ASSUME IInv PROVE TableHolds
  <2>1. Typed
    BY <1>1 DEF IInv
  <2>2. /\ setup \in Setups /\ Held(wp.points) /\ Held(fc.points) /\ Held(fc.flown)
        /\ \A i \in DOMAIN wp.points : i < wp.size
        /\ \A i \in DOMAIN fc.points : i < fc.n
        /\ data \in [Fields -> Values] /\ fc.has \in [Fields -> Values] /\ apart \subseteq Fields
    BY <2>1 DEF Typed, WpTyped, FcTyped, DataTyped
  <2>3. caller.at \in {"idle", "waiting", "woken", "crashed", "thrown"}
    BY <2>1 DEF Typed, CallerTyped, Callers, Places
  <2>4. MissionsTypeOK
    BY <2>1, <2>2, <2>3, Numerals DEF MissionsTypeOK
  <2>5. Careful => caller.at \notin {"crashed", "thrown"}
    BY <1>1 DEF IInv, Orderly, OwnTable
  <2>6. QED BY <2>4, <2>5 DEF TableHolds
<1>2. QED BY <1>1, Invariant, PTL

\* What is flown was uploaded whole and for one mission, for any number of points: none is
\* left of an older mission, and none is flown that was never written, whichever commands
\* are refused, if the program heeds the refusals of its inits.
THEOREM MissionsAreFlownWhole == Spec => []FlownIsUploaded
<1>1. IInv => FlownIsUploaded
  BY DEF IInv, Orderly, Uploaded, FlownIsUploaded
<1>2. QED BY <1>1, Invariant, PTL

\* With nothing on its way radius, rate and target of the objects are those of the mission
\* that is flown, but for the fields that a set function, updateRadius, a refusal or a read
\* that was overtaken has set apart since they last met.
THEOREM MissionsAgree == Spec => []ObjectsAgree
<1>1. ASSUME IInv PROVE ObjectsAgree
  <2>1. ASSUME setup.prompt, Still, NEW f \in Fields \ apart, fc.flies = Owner(f)
        PROVE  fc.has[f] = data[f]
    <3>1. Steady(f, air, acks, fc.flies, fc.has[f], data[f])
      BY <1>1, <2>1 DEF IInv, Steadies
    <3>2. ~Fetched(air) /\ ~Fetched(acks) /\ ~Carried(air, f)
      BY <2>1 DEF Still, Fetched, Carried
    <3>3. QED BY <2>1, <3>1, <3>2 DEF Steady, Unfetched
  <2>2. QED BY <2>1 DEF ObjectsAgree
<1>2. QED BY <1>1, Invariant, PTL

\* When the example goes to sleep on a prompt line and nothing was refused, the mission
\* that is flown is the one it made, point for point, although it looks at no answer; where
\* only its init or only points of it may be refused, it flies no other.
THEOREM TheExampleFlies == Spec => []ExampleFlies
<1>1. ASSUME IInv PROVE ExampleFlies
  <2>1. ASSUME setup.prompt, caller.step = Sleeping
        PROVE  Ex /\ ExDone(MaxPoints + 2)
    <3>1. caller.at = "idle" /\ "example" \in setup.uses /\ caller.step = MaxPoints + 3
      BY <1>1, <2>1, Bound DEF IInv, Typed, CallerTyped, Sleeping
    <3>2. Ex /\ caller.step > 0
      BY <1>1, <2>1, <3>1, Bound DEF IInv
    <3>3. Done = MaxPoints + 2
      BY <3>1, <3>2, Bound DEF Ex, ExLine, Done, Sent
    <3>4. QED BY <3>2, <3>3 DEF Ex
  <2>2. ASSUME setup.prompt, caller.step = Sleeping, setup.refuses = {}
        PROVE  fc.flown # <<>> /\ \A i \in DOMAIN fc.flown : fc.flown[i] = Point
    <3>1. DOMAIN fc.flown = Posns /\ Own(fc.flown)
      BY <2>1, <2>2 DEF ExDone
    <3>2. 0 \in DOMAIN fc.flown /\ DOMAIN <<>> = {}
      BY <3>1, Bound DEF Posns
    <3>3. QED BY <3>1, <3>2 DEF Own
  <2>3. ASSUME setup.prompt, caller.step = Sleeping, ~({"init", "add"} \subseteq setup.refuses), ~Ground
        PROVE  \A i \in DOMAIN fc.flown : fc.flown[i] = Point
    BY <2>1, <2>3 DEF ExDone, Ground, Own
  <2>4. QED BY <2>2, <2>3 DEF ExampleFlies
<1>2. QED BY <1>1, Invariant, PTL

=============================================================================
