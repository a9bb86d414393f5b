------------------------- MODULE AckDelivery_proofs -------------------------
(* The one missionACKUnion, for any number of callers, commands and ways to   *)
(* use the API: what a blocking call and a callback read there is what the    *)
(* comments of AckDelivery promise, though the signal wakes whoever waits,    *)
(* answers come before their callers wait, and timeouts race with them.       *)
EXTENDS AckDelivery, TLAPS

-----------------------------------------------------------------------------
(* The inductive invariant *)

\* Only commands that were sent have a kind; what a blocking caller waits for is one.
Sent == /\ \A c \in Commands : fate[c] = "waiting" => kind[c] \in setup.kinds
        /\ \A t \in Callers : caller[t].at # "idle" =>
             /\ t \in setup.senders /\ caller[t].cmd \in Commands
             /\ kind[caller[t].cmd] \in setup.kinds \cap {"blocking", "control"}
             /\ fate[caller[t].cmd] # "unsent"
             /\ caller[t].at = "rewriting" => kind[caller[t].cmd] = "control"

\* The ACK the read thread carries; callBack is its command's handler.
Carried == reader.at # "reading" =>
             /\ reader.ack \in Commands /\ fate[reader.ack] = "acked"
             /\ reader.at \in {"matched", "notify"} =>
                  (callBack = NoCmd <=> kind[reader.ack] # "callback")
             /\ reader.at = "signal" => callBack # NoCmd

\* As long as only the read thread writes the union, it holds an old ACK, and an
\* answer on its way is in no caller's past.
Past == "control" \notin setup.kinds =>
  /\ \A c \in {missionACKUnion} \cup {caller[t].old : t \in Callers} :
       c = NoCmd \/ (c \in Commands /\ fate[c] = "acked")
  /\ reader.at = "matched" =>
       reader.ack \notin {missionACKUnion} \cup {caller[t].old : t \in Callers}
  /\ \A t \in Callers :
       \/ caller[t].at = "waiting" /\ reader.at = "notify"
       \/ caller[t].at \in {"woken", "unlocked"} /\ ~caller[t].timedOut
       => missionACKUnion # caller[t].old

\* One thread sends over a prompt link: it is at its only open blocking call, and
\* the ACK of that call, once stored, stays in the union.
Alone(t) == setup.prompt /\ setup.senders = {t} /\ ~setup.callbackThread

Promptly == \A t \in Callers : Alone(t) =>
  /\ \A c \in Commands : fate[c] = "waiting" /\ kind[c] # "callback" =>
       caller[t].at \in {"sent", "waiting"} /\ caller[t].cmd = c
  /\ reader.at \in {"matched", "notify"} /\ callBack = NoCmd =>
       caller[t].at \in {"sent", "waiting"} /\ caller[t].cmd = reader.ack
  /\ reader.at = "notify" => callBack = NoCmd /\ missionACKUnion = reader.ack
  /\ caller[t].at # "idle" /\ fate[caller[t].cmd] = "acked"
       /\ ~(reader.at \in {"matched", "notify"} /\ reader.ack = caller[t].cmd) =>
         missionACKUnion = caller[t].cmd

\* Where every command has a handler, the callback thread is only woken for one.
Called == setup.kinds = {"callback"} =>
  /\ \A t \in Callers : caller[t].at = "idle"
  /\ reader.at \in {"matched", "signal"} => callBack # NoCmd
  /\ reader.at # "notify"
  /\ callback.at = "woken" => callBack # NoCmd
  /\ callback.at # "crashed"

DInv == TypeOK /\ Sent /\ Carried /\ Past /\ Promptly /\ Called

-----------------------------------------------------------------------------
(* Initially, and when a command is sent *)

Kept == Sent /\ Carried /\ Past /\ Promptly /\ Called

LEMMA NoCommand == NoCmd \notin Commands /\ Commands \subseteq Nat \ {0}
  BY DeliveryAssumption DEF NoCmd, Commands

LEMMA InitSafe ==
  ASSUME Init PROVE DInv
<1>1. TypeOK
  <2>1. caller \in [Callers -> [at : AtCaller, cmd : Commands \cup {NoCmd},
                               timedOut : BOOLEAN, old : Commands \cup {NoCmd}]]
    BY DEF Init, Idle, AtCaller
  <2>2. /\ reader = [at |-> "reading", ack |-> NoCmd]
        /\ callback = [at |-> "looping", cmd |-> NoCmd]
    BY DEF Init
  <2>3. /\ kind \in [Commands -> Kinds \cup {"none"}]
        /\ fate \in [Commands -> {"unsent", "refused", "waiting", "acked", "dropped"}]
    BY DEF Init
  <2>4. ackHeld = (reader.at = "notify") /\ nbHeld = (callback.at \in {"calling", "crashed"})
    <3>1. (reader.at = "notify") = FALSE
      BY <2>2
    <3>2. (callback.at \in {"calling", "crashed"}) = FALSE
      BY <2>2
    <3>3. QED BY <3>1, <3>2, Zenon DEF Init
  <2>5. /\ reader \in [at : {"reading", "matched", "notify", "signal"}, ack : Commands \cup {NoCmd}]
        /\ callback \in [at : {"looping", "waiting", "woken", "calling", "crashed"},
                         cmd : Commands \cup {NoCmd}]
    BY <2>2
  <2>6. QED BY <2>1, <2>3, <2>4, <2>5 DEF Init, TypeOK
<1>2. Kept
  BY NoCommand DEF Init, Kept, Sent, Carried, Past, Promptly, Called, Idle
<1>3. QED BY <1>1, <1>2 DEF DInv, Kept

Fates == {"unsent", "refused", "waiting", "acked", "dropped"}

\* The fate of one command changes as the service allows.
LEMMA Becoming ==
  ASSUME TypeOK, NEW c \in Commands, NEW before \in Fates, NEW after \in Fates,
         fate[c] = before, fate' = [fate EXCEPT ![c] = after]
  PROVE  /\ fate' \in [Commands -> Fates]
         /\ fate'[c] = after
         /\ \A d \in Commands : d # c => fate'[d] = fate[d]
  BY DEF TypeOK, Fates

LEMMA SendSafe ==
  ASSUME DInv, NEW t \in Callers, NEW k \in Kinds, SendCmd(t, k), UNCHANGED setup
  PROVE  DInv'
<1>1. PICK c \in Commands :
        /\ fate[c] = "unsent"
        /\ \E after \in {"waiting", "refused"} : fate' = [fate EXCEPT ![c] = after]
        /\ kind' = [kind EXCEPT ![c] = k]
        /\ IF k = "callback" THEN UNCHANGED caller
           ELSE caller' = [caller EXCEPT ![t] = Sending(c)]
  BY DEF SendCmd, FirstUnsent, Service!Accept, Service!Refuse, Service!Becomes
<1>2. /\ t \in setup.senders /\ k \in setup.kinds /\ caller[t].at = "idle"
      /\ UNCHANGED <<setup, ackHeld, nbHeld, missionACKUnion, callBack, protHeader, reader, callback>>
  BY DEF SendCmd
<1>3. PICK after \in {"waiting", "refused"} : fate' = [fate EXCEPT ![c] = after]
  BY <1>1
<1>4. /\ fate' \in [Commands -> Fates] /\ fate'[c] = after
      /\ \A d \in Commands : d # c => fate'[d] = fate[d]
  BY <1>1, <1>3, Becoming DEF DInv, Fates
<1>5. /\ kind' \in [Commands -> Kinds \cup {"none"}] /\ kind'[c] = k
      /\ \A d \in Commands : d # c => kind'[d] = kind[d]
  BY <1>1 DEF DInv, TypeOK
<1>6. /\ \A x \in Callers : x # t => caller'[x] = caller[x]
      /\ \/ k = "callback" /\ caller'[t] = caller[t]
         \/ k # "callback" /\ caller'[t] = [at |-> "sent", cmd |-> c, timedOut |-> FALSE, old |-> NoCmd]
      /\ caller' \in [Callers -> [at : AtCaller, cmd : Commands \cup {NoCmd},
                                  timedOut : BOOLEAN, old : Commands \cup {NoCmd}]]
  <2>1. Sending(c) \in [at : AtCaller, cmd : Commands \cup {NoCmd},
                        timedOut : BOOLEAN, old : Commands \cup {NoCmd}]
    BY DEF AtCaller, Sending
  <2>2. CASE k = "callback"
    BY <1>1, <2>2 DEF DInv, TypeOK
  <2>3. CASE k # "callback"
    <3>1. caller' = [caller EXCEPT ![t] = Sending(c)]
      BY <1>1, <2>3
    <3>2. caller \in [Callers -> [at : AtCaller, cmd : Commands \cup {NoCmd},
                                 timedOut : BOOLEAN, old : Commands \cup {NoCmd}]]
      BY DEF DInv, TypeOK
    <3>3. caller'[t] = Sending(c) /\ \A x \in Callers : x # t => caller'[x] = caller[x]
      BY <3>1, <3>2
    <3>4. QED BY <2>1, <2>3, <3>1, <3>2, <3>3 DEF Sending
  <2>4. QED BY <2>2, <2>3
<1>7. TypeOK'
  BY <1>2, <1>4, <1>5, <1>6 DEF DInv, TypeOK, Fates
<1>8. Sent'
  BY <1>1, <1>2, <1>4, <1>5, <1>6 DEF DInv, Sent, Kinds
<1>9. Carried'
  BY <1>1, <1>2, <1>4, <1>5 DEF DInv, Carried
<1>10. Past'
  BY <1>1, <1>2, <1>4, <1>6, NoCommand DEF DInv, Past, Carried
<1>11. Promptly'
  BY <1>1, <1>2, <1>4, <1>5, <1>6, NoCommand DEF DInv, Promptly, Alone, Sent
<1>12. Called'
  BY <1>2, <1>6 DEF DInv, Called
<1>13. QED BY <1>7, <1>8, <1>9, <1>10, <1>11, <1>12 DEF DInv

-----------------------------------------------------------------------------
(* The calling side *)

\* A caller moves on, and nothing else changes.
Moves(t) ==
  /\ UNCHANGED <<setup, ackHeld, nbHeld, missionACKUnion, callBack, protHeader, kind, fate,
                 reader, callback>>
  /\ caller[t].at # "idle" /\ caller'[t].at # "idle"
  /\ caller' \in [Callers -> [at : AtCaller, cmd : Commands \cup {NoCmd},
                              timedOut : BOOLEAN, old : Commands \cup {NoCmd}]]
  /\ \A x \in Callers : x # t => caller'[x] = caller[x]
  /\ caller'[t].cmd = caller[t].cmd /\ caller'[t].old \in {missionACKUnion, caller[t].old}
  /\ ackHeld <=> reader.at = "notify"

LEMMA CallerMoves ==
  ASSUME DInv, NEW t \in Callers, Moves(t),
         caller'[t].at = "rewriting" => kind[caller[t].cmd] = "control",
         caller'[t].at = "waiting" => reader.at # "notify",
         caller'[t].at \in {"woken", "unlocked"} /\ ~caller'[t].timedOut
           /\ "control" \notin setup.kinds => missionACKUnion # caller'[t].old,
         caller'[t].at \notin {"sent", "waiting"} /\ setup.prompt
           /\ caller[t].at \in {"sent", "waiting"} =>
             fate[caller[t].cmd] # "waiting" /\ reader.ack # caller[t].cmd
  PROVE  DInv'
<1>1. TypeOK'
  BY DEF DInv, TypeOK, Moves
<1>2. Sent' /\ Carried'
  BY DEF DInv, Sent, Carried, Moves
<1>3. Past'
  <2>1. ASSUME NEW x \in Callers PROVE caller'[x].old \in {missionACKUnion, caller[x].old}
    BY DEF Moves
  <2>2. QED BY <2>1 DEF DInv, Past, Moves
<1>4. Promptly'
  BY DEF DInv, Promptly, Alone, Moves
<1>5. Called'
  BY DEF DInv, Called, Moves
<1>6. QED BY <1>1, <1>2, <1>3, <1>4, <1>5 DEF DInv

LEMMA WaitSafe ==
  ASSUME DInv, NEW t \in Callers, Wait(t), UNCHANGED setup PROVE DInv'
<1>1. Moves(t) /\ caller'[t].at = "waiting" /\ reader.at # "notify"
  BY DEF Wait, Moves, DInv, TypeOK, AtCaller
<1>2. QED BY <1>1, CallerMoves

LEMMA TimeoutSafe ==
  ASSUME DInv, NEW t \in Callers, Timeout(t), UNCHANGED setup PROVE DInv'
<1>1. Moves(t) /\ caller'[t].at = "woken" /\ caller'[t].timedOut
  BY DEF Timeout, Moves, DInv, TypeOK, AtCaller
<1>2. setup.prompt => fate[caller[t].cmd] # "waiting" /\ reader.ack # caller[t].cmd
  BY DEF Timeout
<1>3. QED BY <1>1, <1>2, CallerMoves

LEMMA ResumeSafe ==
  ASSUME DInv, NEW t \in Callers, Resume(t), UNCHANGED setup PROVE DInv'
<1>1. /\ Moves(t) /\ caller[t].at = "woken" /\ caller'[t].at = "unlocked"
      /\ caller'[t].timedOut = caller[t].timedOut /\ caller'[t].old = caller[t].old
  BY DEF Resume, Moves, DInv, TypeOK, AtCaller
<1>2. "control" \notin setup.kinds /\ ~caller[t].timedOut => missionACKUnion # caller[t].old
  BY <1>1 DEF DInv, Past
<1>3. QED BY <1>1, <1>2, CallerMoves

LEMMA FindErrorModeSafe ==
  ASSUME DInv, NEW t \in Callers, FindErrorMode(t), UNCHANGED setup PROVE DInv'
<1>1. /\ Moves(t) /\ caller[t].at = "unlocked" /\ caller'[t].at = "rewriting"
      /\ kind[caller[t].cmd] = "control"
  BY DEF FindErrorMode, Moves, DInv, TypeOK, AtCaller
<1>2. QED BY <1>1, CallerMoves

\* A call returns; setControl may have replaced the answer by its own.
LEMMA ReturnSafe ==
  ASSUME DInv, NEW t \in Callers, ReadAnswer(t) \/ RewriteErrorMode(t), UNCHANGED setup
  PROVE  DInv'
<1>1. /\ caller' = [caller EXCEPT ![t] = Idle]
      /\ UNCHANGED <<setup, ackHeld, nbHeld, callBack, protHeader, kind, fate, reader, callback>>
      /\ caller[t].at \in {"unlocked", "rewriting"}
      /\ \/ UNCHANGED missionACKUnion
         \/ caller[t].at = "rewriting" /\ missionACKUnion' = caller[t].cmd
  BY DEF ReadAnswer, RewriteErrorMode
<1>2. caller \in [Callers -> [at : AtCaller, cmd : Commands \cup {NoCmd},
                              timedOut : BOOLEAN, old : Commands \cup {NoCmd}]]
  BY DEF DInv, TypeOK
<1>3. Idle \in [at : AtCaller, cmd : Commands \cup {NoCmd},
                timedOut : BOOLEAN, old : Commands \cup {NoCmd}]
      /\ Idle.at = "idle" /\ Idle.old = NoCmd
  BY DEF Idle, AtCaller
<1>4. /\ caller' \in [Callers -> [at : AtCaller, cmd : Commands \cup {NoCmd},
                                  timedOut : BOOLEAN, old : Commands \cup {NoCmd}]]
      /\ \A x \in Callers : x # t => caller'[x] = caller[x]
      /\ caller'[t].at = "idle" /\ caller'[t].old = NoCmd
  BY <1>1, <1>2, <1>3
<1>5. TypeOK'
  BY <1>1, <1>4 DEF DInv, TypeOK
<1>6. Sent' /\ Carried'
  BY <1>1, <1>4 DEF DInv, Sent, Carried
<1>7. Past'
  <2>1. "control" \notin setup.kinds => UNCHANGED missionACKUnion
    BY <1>1 DEF DInv, Sent
  <2>2. QED BY <1>1, <1>4, <2>1, NoCommand DEF DInv, Past, Carried
<1>8. Promptly'
  BY <1>1, <1>4 DEF DInv, Promptly, Alone, Sent
<1>9. Called'
  BY <1>1, <1>4 DEF DInv, Called
<1>10. QED BY <1>5, <1>6, <1>7, <1>8, <1>9 DEF DInv

-----------------------------------------------------------------------------
(* The read thread *)

LEMMA DropSafe ==
  ASSUME DInv, NEW c \in Commands, Drop(c), UNCHANGED setup PROVE DInv'
<1>1. fate[c] = "waiting" /\ fate' = [fate EXCEPT ![c] = "dropped"]
      /\ UNCHANGED <<setup, ackHeld, nbHeld, missionACKUnion, callBack, protHeader, kind,
                     caller, reader, callback>>
  BY DEF Drop, Service!GiveUp, Service!Becomes
<1>2. /\ fate' \in [Commands -> Fates] /\ fate'[c] = "dropped"
      /\ \A d \in Commands : d # c => fate'[d] = fate[d]
  BY <1>1, Becoming DEF DInv, Fates
<1>3. TypeOK'
  BY <1>1, <1>2 DEF DInv, TypeOK, Fates
<1>4. Sent' /\ Carried' /\ Past'
  BY <1>1, <1>2 DEF DInv, Sent, Carried, Past
<1>5. Promptly' /\ Called'
  BY <1>1, <1>2 DEF DInv, Promptly, Alone, Called, Sent
<1>6. QED BY <1>3, <1>4, <1>5 DEF DInv

LEMMA MatchAckSafe ==
  ASSUME DInv, NEW c \in Commands, MatchAck(c), UNCHANGED setup PROVE DInv'
<1>1. /\ fate[c] = "waiting" /\ fate' = [fate EXCEPT ![c] = "acked"]
      /\ callBack' = IF kind[c] = "callback" THEN c ELSE NoCmd
      /\ reader.at = "reading" /\ reader' = [at |-> "matched", ack |-> c]
      /\ UNCHANGED <<setup, ackHeld, nbHeld, missionACKUnion, protHeader, kind, caller, callback>>
  BY DEF MatchAck, Service!Answer, Service!Becomes
<1>2. /\ fate' \in [Commands -> Fates] /\ fate'[c] = "acked"
      /\ \A d \in Commands : d # c => fate'[d] = fate[d]
  BY <1>1, Becoming DEF DInv, Fates
<1>3. reader'.at = "matched" /\ reader'.ack = c
      /\ reader' \in [at : {"reading", "matched", "notify", "signal"}, ack : Commands \cup {NoCmd}]
  BY <1>1
<1>4. TypeOK'
  <2>1. ackHeld' = (reader'.at = "notify")
    BY <1>1, <1>3 DEF DInv, TypeOK
  <2>2. callBack' \in Commands \cup {NoCmd}
    BY <1>1
  <2>3. QED BY <1>1, <1>2, <1>3, <2>1, <2>2 DEF DInv, TypeOK, Fates
<1>5. Sent'
  BY <1>1, <1>2 DEF DInv, Sent
<1>6. Carried'
  BY <1>1, <1>2, <1>3, NoCommand DEF DInv, Carried
<1>7. Past'
  BY <1>1, <1>2, <1>3, NoCommand DEF DInv, Past
<1>8. Promptly'
  BY <1>1, <1>2, <1>3, NoCommand DEF DInv, Promptly, Alone
<1>9. Called'
  BY <1>1, <1>3, NoCommand DEF DInv, Called, Sent
<1>10. QED BY <1>4, <1>5, <1>6, <1>7, <1>8, <1>9 DEF DInv

LEMMA StoreSafe ==
  ASSUME DInv, LockAndStore, UNCHANGED setup PROVE DInv'
<1>1. /\ reader.at = "matched" /\ callBack = NoCmd /\ ackHeld' = TRUE
      /\ missionACKUnion' = reader.ack /\ reader' = [reader EXCEPT !.at = "notify"]
      /\ UNCHANGED <<setup, nbHeld, callBack, protHeader, kind, fate, caller, callback>>
  BY DEF LockAndStore
<1>2. reader'.at = "notify" /\ reader'.ack = reader.ack /\ reader.ack \in Commands
      /\ reader' \in [at : {"reading", "matched", "notify", "signal"}, ack : Commands \cup {NoCmd}]
  BY <1>1 DEF DInv, TypeOK, Carried
<1>3. TypeOK'
  BY <1>1, <1>2 DEF DInv, TypeOK
<1>4. Sent' /\ Carried'
  BY <1>1, <1>2 DEF DInv, Sent, Carried
<1>5. Past'
  BY <1>1, <1>2 DEF DInv, Past, Carried
<1>6. Promptly' /\ Called'
  BY <1>1, <1>2 DEF DInv, Promptly, Alone, Called
<1>7. QED BY <1>3, <1>4, <1>5, <1>6 DEF DInv

LEMMA NotifySafe ==
  ASSUME DInv, NotifyAndFree, UNCHANGED setup PROVE DInv'
<1>1. /\ reader.at = "notify" /\ ackHeld' = FALSE
      /\ reader' = [at |-> "reading", ack |-> NoCmd]
      /\ UNCHANGED <<setup, nbHeld, missionACKUnion, callBack, protHeader, kind, fate, callback>>
      /\ \/ Waiters = {} /\ UNCHANGED caller
         \/ \E t \in Waiters : caller' = [caller EXCEPT ![t].at = "woken"]
  BY DEF NotifyAndFree
<1>2. \A x \in Callers :
        /\ caller'[x].cmd = caller[x].cmd /\ caller'[x].timedOut = caller[x].timedOut
        /\ caller'[x].old = caller[x].old
        /\ caller'[x].at = caller[x].at \/ (caller[x].at = "waiting" /\ caller'[x].at = "woken")
  BY <1>1 DEF DInv, TypeOK, Waiters
<1>3. caller' \in [Callers -> [at : AtCaller, cmd : Commands \cup {NoCmd},
                               timedOut : BOOLEAN, old : Commands \cup {NoCmd}]]
  BY <1>1 DEF DInv, TypeOK, Waiters, AtCaller
<1>4. reader'.at = "reading" /\ reader'.ack = NoCmd
      /\ reader' \in [at : {"reading", "matched", "notify", "signal"}, ack : Commands \cup {NoCmd}]
  BY <1>1
<1>5. TypeOK'
  BY <1>1, <1>3, <1>4 DEF DInv, TypeOK
<1>6. Sent' /\ Carried'
  BY <1>1, <1>2, <1>4 DEF DInv, Sent, Carried
<1>7. Past'
  BY <1>1, <1>2, <1>4 DEF DInv, Past
<1>8. Promptly'
  BY <1>1, <1>2, <1>4 DEF DInv, Promptly, Alone, Carried
<1>9. Called'
  BY <1>1, <1>2, <1>4 DEF DInv, Called
<1>10. QED BY <1>5, <1>6, <1>7, <1>8, <1>9 DEF DInv

\* The read thread hands the ACK to a handler: there and then, or to the callback
\* thread in two steps.
LEMMA HandSafe ==
  ASSUME DInv, CallDirectly \/ HandToCallback \/ SignalCallback, UNCHANGED setup
  PROVE  DInv'
<1>1. /\ UNCHANGED <<setup, ackHeld, nbHeld, callBack, kind, fate, caller>>
      /\ callBack # NoCmd /\ reader.at \in {"matched", "signal"}
      /\ reader' \in [at : {"reading", "signal"}, ack : Commands \cup {NoCmd}]
      /\ reader'.at = "signal" => reader'.ack = reader.ack
      /\ UNCHANGED missionACKUnion \/ (reader.at = "matched" /\ missionACKUnion' = reader.ack)
      /\ setup.callbackThread \/ UNCHANGED missionACKUnion
      /\ protHeader' \in Commands \cup {NoCmd}
      /\ callback' = callback \/ (callback.at = "waiting" /\ callback' = [callback EXCEPT !.at = "woken"])
  <2>1. CASE CallDirectly
    BY <2>1 DEF CallDirectly, DInv, TypeOK
  <2>2. CASE HandToCallback
    BY <2>2 DEF HandToCallback, DInv, TypeOK
  <2>3. CASE SignalCallback
    BY <2>3 DEF SignalCallback, DInv, TypeOK, Carried
  <2>4. QED BY <2>1, <2>2, <2>3
<1>2. reader.ack \in Commands /\ fate[reader.ack] = "acked"
  BY <1>1 DEF DInv, Carried
<1>3. TypeOK'
  BY <1>1, <1>2 DEF DInv, TypeOK
<1>4. Sent' /\ Carried'
  BY <1>1, <1>2 DEF DInv, Sent, Carried
<1>5. Past'
  BY <1>1, <1>2 DEF DInv, Past
<1>6. Promptly'
  BY <1>1, <1>2 DEF DInv, Promptly, Alone, Carried, Sent
<1>7. Called'
  BY <1>1 DEF DInv, TypeOK, Called
<1>8. QED BY <1>3, <1>4, <1>5, <1>6, <1>7 DEF DInv

-----------------------------------------------------------------------------
(* The callback thread *)

LEMMA CallbackSafe ==
  ASSUME DInv, CallbackStep, UNCHANGED setup
  PROVE  DInv'
<1>1. UNCHANGED <<setup, ackHeld, missionACKUnion, callBack, protHeader, kind, fate, caller, reader>>
  BY DEF CallbackStep, AwaitSignal, StartCallback, EndCallback
<1>2. /\ callback' \in [at : {"looping", "waiting", "woken", "calling", "crashed"},
                        cmd : Commands \cup {NoCmd}]
      /\ callback'.at = "woken" => callback.at = "woken"
      /\ callback'.at = "crashed" =>
           callback.at = "crashed" \/ (callback.at = "woken" /\ callBack = NoCmd)
      /\ nbHeld' \in BOOLEAN /\ (nbHeld' <=> callback'.at \in {"calling", "crashed"})
  <2>1. CASE AwaitSignal
    BY <2>1 DEF AwaitSignal, DInv, TypeOK
  <2>2. CASE StartCallback
    <3>1. CASE callBack = NoCmd
      BY <2>2, <3>1 DEF StartCallback, DInv, TypeOK
    <3>2. CASE callBack # NoCmd
      BY <2>2, <3>2 DEF StartCallback, DInv, TypeOK
    <3>3. QED BY <3>1, <3>2
  <2>3. CASE EndCallback
    BY <2>3 DEF EndCallback, DInv, TypeOK
  <2>4. QED BY <2>1, <2>2, <2>3 DEF CallbackStep
<1>3. TypeOK'
  <2>1. nbHeld' = (callback'.at \in {"calling", "crashed"})
    BY <1>2
  <2>2. QED BY <1>1, <1>2, <2>1 DEF DInv, TypeOK
<1>4. Sent' /\ Carried' /\ Past' /\ Promptly'
  BY <1>1 DEF DInv, Sent, Carried, Past, Promptly, Alone
<1>5. Called'
  BY <1>1, <1>2 DEF DInv, Called
<1>6. QED BY <1>3, <1>4, <1>5 DEF DInv

LEMMA NextSafe ==
  ASSUME DInv, [Next]_<<setup, vars>> PROVE DInv'
<1>1. CASE UNCHANGED <<setup, vars>>
  <2>1. TypeOK'
    BY <1>1 DEF DInv, TypeOK, vars
  <2>2. Sent' /\ Carried' /\ Past' /\ Promptly' /\ Called'
    BY <1>1 DEF DInv, Sent, Carried, Past, Promptly, Alone, Called, vars
  <2>3. QED BY <2>1, <2>2 DEF DInv
<1>2. CASE Next
  <2>1. ASSUME NEW t \in Callers, NEW k \in Kinds, SendCmd(t, k) PROVE DInv'
    BY <1>2, <2>1, SendSafe DEF Next
  <2>2. ASSUME NEW t \in Callers, CallerStep(t) PROVE DInv'
    BY <1>2, <2>2, WaitSafe, TimeoutSafe, ResumeSafe, FindErrorModeSafe, ReturnSafe
       DEF Next, CallerStep
  <2>3. ASSUME NEW c \in Commands, MatchAck(c) \/ Drop(c) PROVE DInv'
    BY <1>2, <2>3, MatchAckSafe, DropSafe DEF Next
  <2>4. CASE ReadStep
    BY <1>2, <2>4, StoreSafe, NotifySafe, HandSafe DEF Next, ReadStep
  <2>5. CASE CallbackStep
    BY <1>2, <2>5, CallbackSafe DEF Next
  <2>6. QED BY <1>2, <2>1, <2>2, <2>3, <2>4, <2>5 DEF Next, Step
<1>3. QED BY <1>1, <1>2

-----------------------------------------------------------------------------
(* The theorems *)

\* The inductive invariant holds in every state.
LEMMA DeliverySafe == Spec => []DInv
<1>1. Init => DInv
  BY InitSafe
<1>2. DInv /\ [Next]_<<setup, vars>> => DInv'
  BY NextSafe
<1>3. QED BY <1>1, <1>2, PTL DEF Spec

\* The types, and with them who holds each mutex, for any number of callers.
THEOREM DeliveryTyped == Spec => []TypeOK
<1>1. DInv => TypeOK
  BY DEF DInv
<1>2. QED BY <1>1, DeliverySafe, PTL

\* A blocking call that did not time out returns an ACK that was not in missionACKUnion
\* when it began to wait, whoever else waits, as long as setControl does not rewrite it.
THEOREM NewAnswers == Spec => AnswerIsNew
<1>1. ASSUME DInv, NEW t \in Callers, Answers(t), ~caller[t].timedOut, "control" \notin setup.kinds
      PROVE  missionACKUnion # caller[t].old
  BY <1>1 DEF DInv, Past, Answers
<1>2. DInv /\ [Next]_<<setup, vars>> =>
        [\A t \in Callers : Answers(t) /\ ~caller[t].timedOut /\ "control" \notin setup.kinds =>
           missionACKUnion # caller[t].old]_vars
  BY <1>1
<1>3. QED BY <1>2, DeliverySafe, PTL DEF Spec, AnswerIsNew

\* On a prompt link a lone caller gets the answer to its own command, also when the
\* signal came before it waited.
THEOREM OwnAnswers == Spec => OwnAnswer
<1>1. ASSUME DInv, NEW t \in Callers, Answers(t), fate[caller[t].cmd] = "acked",
             setup.prompt, setup.senders = {t}, ~setup.callbackThread
      PROVE  missionACKUnion = caller[t].cmd
  <2>1. caller[t].at = "unlocked" /\ Alone(t)
    BY <1>1 DEF Answers, Alone
  <2>2. kind[caller[t].cmd] # "callback"
    BY <1>1, <2>1 DEF DInv, Sent
  <2>3. ~(reader.at \in {"matched", "notify"} /\ reader.ack = caller[t].cmd)
    BY <1>1, <2>1, <2>2 DEF DInv, Carried, Promptly
  <2>4. QED BY <1>1, <2>1, <2>3 DEF DInv, Promptly
<1>2. DInv /\ [Next]_<<setup, vars>> =>
        [\A t \in Callers : Answers(t) /\ fate[caller[t].cmd] = "acked"
           /\ setup.prompt /\ setup.senders = {t} /\ ~setup.callbackThread =>
             missionACKUnion = caller[t].cmd]_vars
  BY <1>1
<1>3. QED BY <1>2, DeliverySafe, PTL DEF Spec, OwnAnswer

\* With a handler for every command, the callback thread calls no null pointer and its
\* ACK stays in missionACKUnion while the callback runs.
THEOREM CallbacksUndisturbed == Spec => CallbackUndisturbed
<1>1. ASSUME DInv, [Next]_<<setup, vars>>, setup.kinds = {"callback"}
      PROVE  callback'.at # "crashed"
  BY <1>1, NextSafe DEF DInv, Called, Next, vars
<1>2. ASSUME DInv, [Next]_<<setup, vars>>, setup.kinds = {"callback"}, callback.at = "calling"
      PROVE  missionACKUnion' = missionACKUnion
  <2>1. nbHeld
    BY <1>2 DEF DInv, TypeOK
  <2>2. \A t \in Callers : caller[t].at = "idle"
    BY <1>2 DEF DInv, Called
  <2>3. ~LockAndStore
    BY <1>2 DEF DInv, Called, LockAndStore
  <2>4. CASE UNCHANGED <<setup, vars>>
    BY <2>4 DEF vars
  <2>5. CASE Step
    <3>1. ASSUME NEW t \in Callers, CallerStep(t) PROVE FALSE
      BY <2>2, <3>1
         DEF CallerStep, Wait, Timeout, Resume, ReadAnswer, FindErrorMode, RewriteErrorMode
    <3>2. CASE ReadStep
      BY <2>1, <2>3, <3>2
         DEF ReadStep, CallDirectly, NotifyAndFree, HandToCallback, SignalCallback
    <3>3. CASE CallbackStep
      BY <3>3 DEF CallbackStep, AwaitSignal, StartCallback, EndCallback
    <3>4. QED BY <2>5, <3>1, <3>2, <3>3 DEF Step, SendCmd, MatchAck, Drop
  <2>6. QED BY <1>2, <2>4, <2>5 DEF Next
<1>3. DInv /\ [Next]_<<setup, vars>> =>
        [setup.kinds = {"callback"} =>
           /\ callback'.at # "crashed"
           /\ callback.at = "calling" => missionACKUnion' = missionACKUnion]_vars
  BY <1>1, <1>2
<1>4. QED BY <1>3, DeliverySafe, PTL DEF Spec, CallbackUndisturbed
=============================================================================
