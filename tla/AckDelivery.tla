---------------------------- MODULE AckDelivery -----------------------------
(* From a matched ACK to the code that sent the command                       *)
(* (osdk-core/src/DJI_Link.cpp, DJI_API.cpp, DJI_Flight.cpp, the missions).   *)
(* A command with a handler gets it called, on the read thread or, when the   *)
(* API was made so, on the callback thread.  A command without one comes from *)
(* a blocking call, which sends, then locks the ACK mutex, waits on its       *)
(* condition variable with a timeout and reads the answer from the one        *)
(* missionACKUnion all commands share.  Which sessions carry the commands is  *)
(* CommandLink's affair: here commands are what CommandService promises.      *)
(* The content of missionACKUnion is the command whose ACK was copied there.  *)
EXTENDS Naturals

CONSTANTS Callers,  \* application threads that send commands
          Setups,   \* how the API is used, see setup
          MaxCmds   \* bound: commands sent in a behaviour

Commands == 1 .. MaxCmds
NoCmd    == 0              \* also the null handler, and the union as created

Kinds == {"blocking", "control", "callback"}   \* "control" is setControl

\* Who sends: senders.  What: kinds.  callbackThread is nonBlockingCBThreadEnable.
\* On a prompt link an answer that comes at all comes before its caller's timeout.
SetupRecords == [senders : SUBSET Callers,
                 kinds : SUBSET Kinds,
                 callbackThread : BOOLEAN,
                 prompt : BOOLEAN]

ASSUME DeliveryAssumption == Setups \subseteq SetupRecords /\ MaxCmds \in Nat

VARIABLES setup,      \* never changes: how the API is used
          ackHeld,    \* the read thread holds m_ackLock
          nbHeld,     \* the callback thread holds m_nbAckLock
          missionACKUnion,
          callBack,   \* the global: the command whose handler and data it is
          protHeader, \* the global: the command whose ACK it was set for
          kind,       \* of each command, "none" until it is sent
          fate,       \* CommandService's
          caller,     \* per application thread: [at, cmd, timedOut, old], where
                      \* old is a history variable: the union when it began to wait
          reader,     \* read thread: [at, ack]
          callback    \* callback thread: [at, cmd]

vars == <<ackHeld, nbHeld, missionACKUnion, callBack, protHeader, kind, fate, caller,
          reader, callback>>

Idle == [at |-> "idle", cmd |-> NoCmd, timedOut |-> FALSE, old |-> NoCmd]

Sending(c) == [at |-> "sent", cmd |-> c, timedOut |-> FALSE, old |-> NoCmd]

Init == /\ setup \in Setups
        /\ ackHeld = FALSE
        /\ nbHeld = FALSE
        /\ missionACKUnion = NoCmd
        /\ callBack = NoCmd
        /\ protHeader = NoCmd
        /\ kind = [c \in Commands |-> "none"]
        /\ fate = [c \in Commands |-> "unsent"]
        /\ caller = [t \in Callers |-> Idle]
        /\ reader = [at |-> "reading", ack |-> NoCmd]
        /\ callback = [at |-> "looping", cmd |-> NoCmd]

Service == INSTANCE CommandService

FirstUnsent(c) == fate[c] = "unsent" /\ \A d \in Commands : fate[d] = "unsent" => c <= d

-----------------------------------------------------------------------------
(* The calling side *)

\* send returns nothing: its caller cannot know that the command was refused.
SendCmd(t, k) ==
  /\ t \in setup.senders /\ k \in setup.kinds /\ caller[t].at = "idle"
  /\ \E c \in Commands :
       /\ FirstUnsent(c)
       /\ Service!Accept(c) \/ Service!Refuse(c)
       /\ kind' = [kind EXCEPT ![c] = k]
       /\ IF k = "callback" THEN UNCHANGED caller
          ELSE caller' = [caller EXCEPT ![t] = Sending(c)]
  /\ UNCHANGED <<ackHeld, nbHeld, missionACKUnion, callBack, protHeader, reader, callback>>

\* lockACK; wait, which gives the mutex back while it sleeps.
Wait(t) == /\ caller[t].at = "sent" /\ ~ackHeld
           /\ caller' = [caller EXCEPT ![t].at = "waiting", ![t].old = missionACKUnion]
           /\ UNCHANGED <<ackHeld, nbHeld, missionACKUnion, callBack, protHeader, kind, fate,
                          reader, callback>>

\* pthread_cond_timedwait gives up.  That it may also return for no reason, which the code
\* would take for an answer (LinuxSerialDevice.cpp:148), is not modelled.
Timeout(t) == /\ caller[t].at = "waiting"
              /\ setup.prompt => fate[caller[t].cmd] # "waiting" /\ reader.ack # caller[t].cmd
              /\ caller' = [caller EXCEPT ![t].at = "woken", ![t].timedOut = TRUE]
              /\ UNCHANGED <<ackHeld, nbHeld, missionACKUnion, callBack, protHeader, kind,
                             fate, reader, callback>>

\* wait returns with the mutex, and freeACK gives it back at once.
Resume(t) == /\ caller[t].at = "woken" /\ ~ackHeld
             /\ caller' = [caller EXCEPT ![t].at = "unlocked"]
             /\ UNCHANGED <<ackHeld, nbHeld, missionACKUnion, callBack, protHeader, kind, fate,
                            reader, callback>>

\* The answer is what missionACKUnion holds now, without the mutex.
ReadAnswer(t) == /\ caller[t].at = "unlocked"
                 /\ caller' = [caller EXCEPT ![t] = Idle]
                 /\ UNCHANGED <<ackHeld, nbHeld, missionACKUnion, callBack, protHeader, kind,
                                fate, reader, callback>>

\* setControl found ACK_SETCONTROL_ERROR_MODE and is about to overwrite it.
FindErrorMode(t) == /\ caller[t].at = "unlocked" /\ kind[caller[t].cmd] = "control"
                    /\ missionACKUnion # NoCmd
                    /\ caller' = [caller EXCEPT ![t].at = "rewriting"]
                    /\ UNCHANGED <<ackHeld, nbHeld, missionACKUnion, callBack, protHeader,
                                   kind, fate, reader, callback>>

\* It writes NEED_MODE_F or _P as its own answer, and returns what is there then.
RewriteErrorMode(t) == /\ caller[t].at = "rewriting"
                       /\ missionACKUnion' = caller[t].cmd
                       /\ caller' = [caller EXCEPT ![t] = Idle]
                       /\ UNCHANGED <<ackHeld, nbHeld, callBack, protHeader, kind, fate,
                                      reader, callback>>

CallerStep(t) == \/ Wait(t) \/ Timeout(t) \/ Resume(t) \/ ReadAnswer(t)
                 \/ FindErrorMode(t) \/ RewriteErrorMode(t)

-----------------------------------------------------------------------------
(* appHandler on the read thread, once the memory mutex is free again *)

\* sendPoll gives the command up.
Drop(c) == /\ Service!GiveUp(c)
           /\ UNCHANGED <<ackHeld, nbHeld, missionACKUnion, callBack, protHeader, kind,
                          caller, reader, callback>>

\* As if a null handler were not copied over the one before.
MatchAck_KeepHandler(c) ==
  /\ reader.at = "reading"
  /\ Service!Answer(c)
  /\ callBack' = IF kind[c] = "callback" THEN c ELSE callBack
  /\ reader' = [at |-> "matched", ack |-> c]
  /\ UNCHANGED <<ackHeld, nbHeld, missionACKUnion, protHeader, kind, caller, callback>>

\* The session's handler and data are copied to the globals; null for a blocking
\* call.
MatchAck(c) ==
  /\ reader.at = "reading"
  /\ Service!Answer(c)
  /\ callBack' = IF kind[c] = "callback" THEN c ELSE NoCmd
  /\ reader' = [at |-> "matched", ack |-> c]
  /\ UNCHANGED <<ackHeld, nbHeld, missionACKUnion, protHeader, kind, caller, callback>>

\* callBack(this, protocolHeader, data) on the read thread.
CallDirectly == /\ reader.at = "matched" /\ callBack # NoCmd /\ ~setup.callbackThread
                /\ reader' = [at |-> "reading", ack |-> NoCmd]
                /\ UNCHANGED <<ackHeld, nbHeld, missionACKUnion, callBack, protHeader, kind,
                               fate, caller, callback>>

\* As if the ACK were copied only after notify and freeACK.
LockAndStore_Late == /\ reader.at = "matched" /\ callBack = NoCmd /\ ~ackHeld
                     /\ ackHeld' = TRUE
                     /\ reader' = [reader EXCEPT !.at = "notify"]
                     /\ UNCHANGED <<nbHeld, missionACKUnion, callBack, protHeader, kind,
                                    fate, caller, callback>>

\* notifyCaller: lockACK, allocateACK.
LockAndStore == /\ reader.at = "matched" /\ callBack = NoCmd /\ ~ackHeld
                /\ ackHeld' = TRUE
                /\ missionACKUnion' = reader.ack
                /\ reader' = [reader EXCEPT !.at = "notify"]
                /\ UNCHANGED <<nbHeld, callBack, protHeader, kind, fate, caller, callback>>

Waiters == {t \in Callers : caller[t].at = "waiting"}

\* notify, freeACK.  The signal wakes one waiter, whosever ACK this is, and is
\* lost when nobody waits.
NotifyAndFree ==
  /\ reader.at = "notify"
  /\ IF Waiters = {} THEN UNCHANGED caller
     ELSE \E t \in Waiters : caller' = [caller EXCEPT ![t].at = "woken"]
  /\ ackHeld' = FALSE
  /\ reader' = [at |-> "reading", ack |-> NoCmd]
  /\ UNCHANGED <<nbHeld, missionACKUnion, callBack, protHeader, kind, fate, callback>>

\* As if lockNonBlockCBAck did not wait for a callback that is running.
HandToCallback_NoLock ==
  /\ reader.at = "matched" /\ callBack # NoCmd /\ setup.callbackThread
  /\ missionACKUnion' = reader.ack
  /\ protHeader' = reader.ack
  /\ reader' = [reader EXCEPT !.at = "signal"]
  /\ UNCHANGED <<ackHeld, nbHeld, callBack, kind, fate, caller, callback>>

\* notifyNonBlockingCaller: lockNonBlockCBAck, allocateACK, protHeader, free.
HandToCallback ==
  /\ reader.at = "matched" /\ callBack # NoCmd /\ setup.callbackThread /\ ~nbHeld
  /\ missionACKUnion' = reader.ack
  /\ protHeader' = reader.ack
  /\ reader' = [reader EXCEPT !.at = "signal"]
  /\ UNCHANGED <<ackHeld, nbHeld, callBack, kind, fate, caller, callback>>

\* The signal is sent under m_headerLock, which the callback thread never takes.
SignalCallback ==
  /\ reader.at = "signal"
  /\ callback' = IF callback.at = "waiting" THEN [callback EXCEPT !.at = "woken"] ELSE callback
  /\ reader' = [at |-> "reading", ack |-> NoCmd]
  /\ UNCHANGED <<ackHeld, nbHeld, missionACKUnion, callBack, protHeader, kind, fate, caller>>

ReadStep == CallDirectly \/ LockAndStore \/ NotifyAndFree \/ HandToCallback \/ SignalCallback

-----------------------------------------------------------------------------
(* callbackPoll, over and over on the callback thread *)

AwaitSignal == /\ setup.callbackThread /\ callback.at = "looping" /\ ~nbHeld
               /\ callback' = [callback EXCEPT !.at = "waiting"]
               /\ UNCHANGED <<ackHeld, nbHeld, missionACKUnion, callBack, protHeader, kind,
                              fate, caller, reader>>

\* Woken, with the mutex again: the globals are read and the callback starts.
\* A blocking call's ACK may have made callBack null in the meantime.
StartCallback == /\ callback.at = "woken" /\ ~nbHeld
                 /\ nbHeld' = TRUE
                 /\ callback' = IF callBack = NoCmd THEN [at |-> "crashed", cmd |-> NoCmd]
                                ELSE [at |-> "calling", cmd |-> callBack]
                 /\ UNCHANGED <<ackHeld, missionACKUnion, callBack, protHeader, kind, fate,
                                caller, reader>>

\* As if freeNonBlockCBAck were forgotten.
EndCallback_NoFree == /\ callback.at = "calling"
                      /\ callback' = [at |-> "looping", cmd |-> NoCmd]
                      /\ UNCHANGED <<ackHeld, nbHeld, missionACKUnion, callBack, protHeader,
                                     kind, fate, caller, reader>>

EndCallback == /\ callback.at = "calling"
               /\ nbHeld' = FALSE
               /\ callback' = [at |-> "looping", cmd |-> NoCmd]
               /\ UNCHANGED <<ackHeld, missionACKUnion, callBack, protHeader, kind, fate,
                              caller, reader>>

CallbackStep == AwaitSignal \/ StartCallback \/ EndCallback

-----------------------------------------------------------------------------
Step == \/ \E t \in Callers, k \in Kinds : SendCmd(t, k)
        \/ \E t \in Callers : CallerStep(t)
        \/ \E c \in Commands : MatchAck(c) \/ Drop(c)
        \/ ReadStep
        \/ CallbackStep

Next == Step /\ UNCHANGED setup

\* A thread that can go on does; a command is answered or given up, as
\* CommandLink shows; a timeout runs out.
Spec == /\ Init /\ [][Next]_<<setup, vars>>
        /\ \A t \in Callers : WF_vars(CallerStep(t))
        /\ WF_vars(\E c \in Commands : MatchAck(c) \/ Drop(c))
        /\ WF_vars(ReadStep)
        /\ WF_vars(CallbackStep)

-----------------------------------------------------------------------------
AtCaller == {"idle", "sent", "waiting", "woken", "unlocked", "rewriting"}

\* Types, and each mutex held exactly where its holder is between lock and free.
TypeOK == /\ setup \in Setups
          /\ ackHeld = (reader.at = "notify")
          /\ nbHeld = (callback.at \in {"calling", "crashed"})
          /\ missionACKUnion \in Commands \cup {NoCmd}
          /\ callBack \in Commands \cup {NoCmd}
          /\ protHeader \in Commands \cup {NoCmd}
          /\ kind \in [Commands -> Kinds \cup {"none"}]
          /\ fate \in [Commands -> {"unsent", "refused", "waiting", "acked", "dropped"}]
          /\ caller \in [Callers -> [at : AtCaller, cmd : Commands \cup {NoCmd},
                                     timedOut : BOOLEAN, old : Commands \cup {NoCmd}]]
          /\ reader \in [at : {"reading", "matched", "notify", "signal"},
                         ack : Commands \cup {NoCmd}]
          /\ callback \in [at : {"looping", "waiting", "woken", "calling", "crashed"},
                           cmd : Commands \cup {NoCmd}]

\* A blocking call picks its answer up.
Answers(t) == caller[t].at = "unlocked" /\ caller'[t].at # "unlocked"

\* As long as setControl does not rewrite the union, a blocking call that did not
\* time out returns an ACK that came after it began to wait, never one that was
\* already in missionACKUnion.
AnswerIsNew == [][\A t \in Callers :
                    Answers(t) /\ ~caller[t].timedOut
                      /\ "control" \notin setup.kinds =>
                    missionACKUnion # caller[t].old]_vars

\* On a prompt link, with one thread sending and callbacks on the read thread, a
\* blocking call whose command was answered returns that answer, even when the
\* ACK came before it began to wait and its signal was lost.
OwnAnswer == [][\A t \in Callers :
                  Answers(t) /\ fate[caller[t].cmd] = "acked"
                    /\ setup.prompt /\ setup.senders = {t} /\ ~setup.callbackThread =>
                  missionACKUnion = caller[t].cmd]_vars

\* Where every command has a handler, the callback thread never calls through a
\* null pointer, and the ACK a callback finds in missionACKUnion does not change
\* while it runs.
CallbackUndisturbed ==
  [][setup.kinds = {"callback"} =>
       /\ callback'.at # "crashed"
       /\ callback.at = "calling" => missionACKUnion' = missionACKUnion]_vars

\* Nobody waits for ever: every blocking call returns, and the read thread always
\* comes back to reading the port, although it waits for callbacks.
EveryoneReturns == /\ \A t \in Callers : caller[t].at # "idle" ~> caller[t].at = "idle"
                   /\ []<>(reader.at = "reading")
=============================================================================
