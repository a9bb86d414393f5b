---------------------------- MODULE CommandLink -----------------------------
(* The command sessions of CoreAPI (osdk-core/src/DJI_Link.cpp and            *)
(* DJI_Memory.cpp): application threads send commands, the read thread        *)
(* matches the acknowledgements of the flight controller with the sessions    *)
(* and completes them, the poll thread (sendPoll) retransmits and gives up.   *)
(* All of them share the session table, the frame pool and the memory mutex.  *)
(*                                                                            *)
(* A frame is represented by the command it carries: hdr[c] is the session    *)
(* and sequence number in its header, all that appHandler compares.  The      *)
(* flight controller answers a transmission with some number of ACKs: 0 when  *)
(* a frame is lost either way, 2 when it answers a repetition again; they     *)
(* arrive in any order and at any time.                                       *)
EXTENDS Naturals, FiniteSets

CONSTANTS Callers,      \* application threads that call send
          AutoSessions, \* session ids given to mode 2 (2..31 in the code)
          Slots,        \* entries of the frame pool, numbers
          SeqMod,       \* sequence numbers are 16 bits wide
          RetryMod,     \* CMDSession.retry is 5 bits wide
          Modes,        \* session modes the application uses, of 0, 1, 2
          Retries,      \* values of the retry parameter, 0 meaning for ever
          Setups,       \* what surrounds the link: [poll, acks], see setup
          KeyMissing,   \* whether encryption may be asked for before activation
          MaxCmds,      \* bound: commands sent in a behaviour
          MaxInFlight,  \* bound: ACKs of one command on the way together
          MaxTx         \* bound: transmissions of one command are counted to here

Commands == 1 .. MaxCmds
Sessions == (IF 1 \in Modes THEN {1} ELSE {}) \cup AutoSessions
NoCmd    == 0
Free     == "free"         \* nobody holds the memory mutex
Reader   == "readPoll"
Poller   == "sendPoll"

ASSUME LinkAssumption ==
  /\ AutoSessions \subseteq Nat \ {0, 1} /\ AutoSessions # {}
  /\ Slots \subseteq Nat \ {0} /\ Slots # {}
  /\ SeqMod \in Nat \ {0} /\ RetryMod \in Nat \ {0, 1}
  /\ Modes \subseteq {0, 1, 2} /\ Retries \subseteq Nat
  /\ Setups \subseteq [poll : BOOLEAN, acks : SUBSET (0 .. MaxInFlight)]
  /\ KeyMissing \in BOOLEAN
  /\ MaxCmds \in Nat /\ MaxInFlight \in Nat /\ MaxTx \in Nat
  /\ SeqMod > 2 * MaxCmds   \* no ACK is delayed for a whole turn of seq_num
  /\ {Free, Reader, Poller} \cap Callers = {}

VARIABLES setup,    \* never changes: whether a thread runs sendPoll, and how many
                    \* ACKs one transmission may bring
          mutex,    \* holder of serialDevice->lockMemory
          used,     \* sessions whose usageFlag is 1
          mmu,      \* CMDSession.mmu, the slot; kept after the session is freed
          retry, sent, preSeq,
          owner,    \* CMDSession.handler and userData: the command they belong to
          expired,  \* sessions with now - preTimestamp > timeout
          seq_num,
          taken,    \* slots whose usageFlag is 1
          frame,    \* the command whose frame lies in each slot
          hdr,      \* session and sequence number in the frame of each command
          acks,     \* ACKs on their way, per command
          caller,   \* per application thread: [at, cmd, ses, retry]
          reader,   \* read thread: [at, ack, callBack]
          poller,   \* poll thread: [at, ses, cmd]
          ackFrameStatus,
          issued,   \* commands started so far
          fate,     \* what has become of each command
          tx        \* times each command's frame was written to the port

session == <<used, mmu, retry, sent, preSeq, owner, expired>>
pool    == <<taken, frame>>
wire    == <<acks, tx>>
vars    == <<mutex, session, seq_num, pool, hdr, wire, caller, reader, poller,
             ackFrameStatus, issued, fate>>

\* The poll thread goes round the sessions in order.
NextSession(s) == CHOOSE r \in Sessions :
                    IF \A q \in Sessions : q <= s
                    THEN \A q \in Sessions : r <= q
                    ELSE r > s /\ \A q \in Sessions : q > s => r <= q

Init == /\ setup \in Setups
        /\ mutex = Free
        /\ used = {}
        /\ mmu = [s \in Sessions |-> 0]
        /\ retry = [s \in Sessions |-> 0]
        /\ sent = [s \in Sessions |-> 0]
        /\ preSeq \in [Sessions -> {0, 1}]      \* setupSession leaves it unset
        /\ owner = [s \in Sessions |-> NoCmd]
        /\ expired = {}
        /\ seq_num = 0
        /\ taken = {}
        /\ frame = [e \in Slots |-> NoCmd]
        /\ hdr = [c \in Commands |-> [ses |-> 0, seq |-> 0]]
        /\ acks = [c \in Commands |-> 0]
        /\ tx = [c \in Commands |-> 0]
        /\ caller = [t \in Callers |-> [at |-> "idle", cmd |-> NoCmd, ses |-> 0, retry |-> 0]]
        /\ reader = [at |-> "reading", ack |-> NoCmd, callBack |-> NoCmd]
        /\ poller = [at |-> "looking", ses |-> NextSession(0), cmd |-> NoCmd]
        /\ ackFrameStatus = 11
        /\ issued = 0
        /\ fate = [c \in Commands |-> "unsent"]

\* sendData: one transmission, and the ACKs it will bring.
AckArrivals(c, n) == IF acks[c] + n > MaxInFlight THEN MaxInFlight ELSE acks[c] + n
Transmitted(c) == IF tx[c] < MaxTx THEN tx[c] + 1 ELSE tx[c]
SendData(c) == /\ tx' = [tx EXCEPT ![c] = Transmitted(c)]
               /\ \E n \in setup.acks : acks' = [acks EXCEPT ![c] = AckArrivals(c, n)]

\* As if freeSession gave the slot back without looking at usageFlag.
FreeSession_Unchecked(s) == /\ used' = used \ {s}
                            /\ taken' = taken \ {mmu[s]}

\* A session goes back together with its slot; a session not in use is left alone.
FreeSession(s) == /\ used' = used \ {s}
                  /\ taken' = IF s \in used THEN taken \ {mmu[s]} ELSE taken

FirstFreeSlot(e) == e \in Slots \ taken /\ \A d \in Slots \ taken : e <= d

-----------------------------------------------------------------------------
(* sendInterface *)

Candidates(mode) == IF mode = 1 THEN {1} \ used
                    ELSE {s \in AutoSessions \ used :
                            \A r \in AutoSessions \ used : s <= r}

\* Mode 1 fixes the retries to 1; mode 2 stores them in five bits.
StoredRetry(mode, r) == IF mode = 1 THEN 1 ELSE r % RetryMod

\* Lock, and take a session: its usageFlag is visible to the poll thread from
\* here on, with the fields of the command before.
SendBegin(t, mode, r) ==
  /\ caller[t].at = "idle" /\ issued < MaxCmds /\ mutex = Free
  /\ mode \in {1, 2}
  /\ \E s \in Candidates(mode) :
       /\ used' = used \cup {s}
       /\ caller' = [caller EXCEPT ![t] = [at |-> "filling", cmd |-> issued + 1, ses |-> s,
                                           retry |-> StoredRetry(mode, r)]]
  /\ mutex' = t
  /\ issued' = issued + 1
  /\ UNCHANGED <<mmu, retry, sent, preSeq, owner, expired, seq_num, pool, hdr, wire,
                 reader, poller, ackFrameStatus, fate>>

\* No session is left for the mode: sendInterface returns -1 under one lock.
SendBusy(t, mode) ==
  /\ caller[t].at = "idle" /\ issued < MaxCmds /\ mutex = Free
  /\ mode \in {1, 2} /\ Candidates(mode) = {}
  /\ issued' = issued + 1
  /\ fate' = [fate EXCEPT ![issued + 1] = "refused"]
  /\ UNCHANGED <<mutex, session, seq_num, pool, hdr, wire, caller, reader, poller,
                 ackFrameStatus>>

\* allocMemory finds no slot: allocSession clears the flag again.
SendNoMemory(t) ==
  /\ caller[t].at = "filling" /\ taken = Slots
  /\ used' = used \ {caller[t].ses}
  /\ mutex' = Free
  /\ fate' = [fate EXCEPT ![caller[t].cmd] = "refused"]
  /\ caller' = [caller EXCEPT ![t].at = "idle"]
  /\ UNCHANGED <<mmu, retry, sent, preSeq, owner, expired, seq_num, pool, hdr, wire,
                 reader, poller, ackFrameStatus, issued>>

NextSeq(s) == IF seq_num = preSeq[s] THEN (seq_num + 1) % SeqMod ELSE seq_num

\* encrypt fails when encryption is asked for before activation has set the key.
SendNoKey(t) ==
  LET s == caller[t].ses IN
  /\ KeyMissing /\ caller[t].at = "filling"
  /\ \E e \in Slots : FirstFreeSlot(e) /\ mmu' = [mmu EXCEPT ![s] = e]
  /\ seq_num' = NextSeq(s)
  /\ used' = used \ {s}
  /\ mutex' = Free
  /\ fate' = [fate EXCEPT ![caller[t].cmd] = "refused"]
  /\ caller' = [caller EXCEPT ![t].at = "idle"]
  /\ UNCHANGED <<retry, sent, preSeq, owner, expired, pool, hdr, wire,
                 reader, poller, ackFrameStatus, issued>>

\* Encode, fill in the session, transmit, unlock.
SendFinish(t) ==
  LET s == caller[t].ses
      c == caller[t].cmd
  IN
  /\ caller[t].at = "filling"
  /\ \E e \in Slots : /\ FirstFreeSlot(e)
                      /\ mmu' = [mmu EXCEPT ![s] = e]
                      /\ taken' = taken \cup {e}
                      /\ frame' = [frame EXCEPT ![e] = c]
  /\ hdr' = [hdr EXCEPT ![c] = [ses |-> s, seq |-> NextSeq(s)]]
  /\ preSeq' = [preSeq EXCEPT ![s] = NextSeq(s)]
  /\ seq_num' = (NextSeq(s) + 1) % SeqMod
  /\ owner' = [owner EXCEPT ![s] = c]
  /\ expired' = expired \ {s}
  /\ sent' = [sent EXCEPT ![s] = 1]
  /\ retry' = [retry EXCEPT ![s] = caller[t].retry]
  /\ SendData(c)
  /\ mutex' = Free
  /\ fate' = [fate EXCEPT ![c] = "waiting"]
  /\ caller' = [caller EXCEPT ![t].at = "idle"]
  /\ UNCHANGED <<used, reader, poller, ackFrameStatus, issued>>

\* Mode 0 wants no ACK: session 0 and a slot are taken and given back under one
\* lock, and no thread looks at session 0 without it.
SendNoAck(t) ==
  LET c == issued + 1 IN
  /\ caller[t].at = "idle" /\ issued < MaxCmds /\ mutex = Free
  /\ issued' = c
  /\ \/ /\ taken = Slots \/ KeyMissing
        /\ fate' = [fate EXCEPT ![c] = "refused"]
        /\ UNCHANGED <<seq_num, frame, hdr, tx>>
     \/ /\ \E e \in Slots : FirstFreeSlot(e) /\ frame' = [frame EXCEPT ![e] = c]
        /\ hdr' = [hdr EXCEPT ![c] = [ses |-> 0, seq |-> seq_num]]
        /\ seq_num' = (seq_num + 1) % SeqMod
        /\ tx' = [tx EXCEPT ![c] = Transmitted(c)]
        /\ fate' = [fate EXCEPT ![c] = "done"]
  /\ UNCHANGED <<mutex, session, taken, acks, caller, reader, poller, ackFrameStatus>>

-----------------------------------------------------------------------------
(* appHandler on the read thread, for ACK frames *)

\* Sessions 0 and 1 get no further than the first test.
RecvIgnored(c) ==
  /\ reader.at = "reading" /\ acks[c] > 0
  /\ hdr[c].ses \notin AutoSessions
  /\ acks' = [acks EXCEPT ![c] = @ - 1]
  /\ UNCHANGED <<mutex, session, seq_num, pool, hdr, tx, caller, reader, poller,
                 ackFrameStatus, issued, fate>>

\* As if the sequence number were not compared.
Matches_AnySeq(s, c) == LET f == frame[mmu[s]] IN f # NoCmd /\ hdr[f].ses = hdr[c].ses

Matches(s, c) == LET f == frame[mmu[s]] IN f # NoCmd /\ hdr[f] = hdr[c]

\* As if the session were kept until the poll thread frees it.
RecvAck_KeepSession(c) ==
  LET s == hdr[c].ses IN
  /\ reader.at = "reading" /\ acks[c] > 0 /\ mutex = Free
  /\ s \in AutoSessions \cap used /\ Matches(s, c)
  /\ acks' = [acks EXCEPT ![c] = @ - 1]
  /\ reader' = [at |-> "matched", ack |-> c, callBack |-> owner[s]]
  /\ UNCHANGED <<mutex, session, seq_num, pool, hdr, tx, caller, poller, ackFrameStatus,
                 issued, fate>>

\* The handler and its data are copied to globals, the session is freed, the
\* mutex released; what is called is called after that.
RecvAck(c) ==
  LET s == hdr[c].ses IN
  /\ reader.at = "reading" /\ acks[c] > 0 /\ mutex = Free
  /\ s \in AutoSessions \cap used /\ Matches(s, c)
  /\ acks' = [acks EXCEPT ![c] = @ - 1]
  /\ reader' = [at |-> "matched", ack |-> c, callBack |-> owner[s]]
  /\ FreeSession(s)
  /\ UNCHANGED <<mutex, mmu, retry, sent, preSeq, owner, expired, seq_num, frame, hdr, tx,
                 caller, poller, ackFrameStatus, issued, fate>>

RecvStaleAck(c) ==
  LET s == hdr[c].ses IN
  /\ reader.at = "reading" /\ acks[c] > 0 /\ mutex = Free
  /\ s \in AutoSessions \cap used /\ ~Matches(s, c)
  /\ acks' = [acks EXCEPT ![c] = @ - 1]
  /\ UNCHANGED <<mutex, session, seq_num, pool, hdr, tx, caller, reader, poller,
                 ackFrameStatus, issued, fate>>

\* An ACK for a session that is not in use: appHandler returns without unlocking.
RecvLateAck(c) ==
  LET s == hdr[c].ses IN
  /\ reader.at = "reading" /\ acks[c] > 0 /\ mutex = Free
  /\ s \in AutoSessions \ used
  /\ acks' = [acks EXCEPT ![c] = @ - 1]
  /\ mutex' = Reader
  /\ UNCHANGED <<session, seq_num, pool, hdr, tx, caller, reader, poller,
                 ackFrameStatus, issued, fate>>

\* callBack(this, protocolHeader, data), or notifyCaller when there is none;
\* then the session's usageFlag is read again, without the mutex.
Deliver ==
  LET c == reader.callBack IN
  /\ reader.at = "matched"
  /\ fate' = [fate EXCEPT ![c] = IF @ = "waiting" THEN "acked" ELSE "acked twice"]
  /\ ackFrameStatus' = IF hdr[reader.ack].ses \in used THEN 1 ELSE 0
  /\ reader' = [at |-> "reading", ack |-> NoCmd, callBack |-> NoCmd]
  /\ UNCHANGED <<mutex, session, seq_num, pool, hdr, wire, caller, poller, issued>>

-----------------------------------------------------------------------------
(* sendPoll, and the clock *)

\* Milliseconds pass: a session's timeout runs out, used or not.
Expire(s) == /\ setup.poll /\ s \notin expired
             /\ expired' = expired \cup {s}
             /\ UNCHANGED <<mutex, used, mmu, retry, sent, preSeq, owner, seq_num, pool, hdr,
                            wire, caller, reader, poller, ackFrameStatus, issued, fate>>

\* usageFlag, preTimestamp and timeout are read without the mutex.
PollLook ==
  LET s == poller.ses IN
  /\ setup.poll /\ poller.at = "looking"
  /\ poller' = IF s \in used /\ s \in expired
               THEN [at |-> "due", ses |-> s, cmd |-> owner[s]]
               ELSE [poller EXCEPT !.ses = NextSession(s)]
  /\ UNCHANGED <<mutex, session, seq_num, pool, hdr, wire, caller, reader,
                 ackFrameStatus, issued, fate>>

PollMoves == poller' = [at |-> "looking", ses |-> NextSession(poller.ses), cmd |-> NoCmd]

\* As if one transmission too many were allowed.
Exhausted_OneMore(s) == retry[s] > 0 /\ sent[s] > retry[s]

Exhausted(s) == retry[s] > 0 /\ sent[s] >= retry[s]

\* Then the mutex is taken and the session acted on without looking again
\* whether it is still in use, or still the same command's.
PollGiveUp ==
  LET s == poller.ses IN
  /\ poller.at = "due" /\ mutex = Free
  /\ Exhausted(s)
  /\ FreeSession(s)
  /\ fate' = IF s \in used THEN [fate EXCEPT ![owner[s]] = "dropped"] ELSE fate
  /\ PollMoves
  /\ UNCHANGED <<mutex, mmu, retry, sent, preSeq, owner, expired, seq_num, frame, hdr, wire,
                 caller, reader, ackFrameStatus, issued>>

\* As if `sent` were not counted up.
PollResend_Uncounted ==
  LET s == poller.ses IN
  /\ poller.at = "due" /\ mutex = Free
  /\ ~Exhausted(s)
  /\ mmu[s] # 0
  /\ IF frame[mmu[s]] # NoCmd THEN SendData(frame[mmu[s]]) ELSE UNCHANGED wire
  /\ expired' = expired \ {s}
  /\ PollMoves
  /\ UNCHANGED <<mutex, used, mmu, retry, sent, preSeq, owner, seq_num, pool, hdr, caller,
                 reader, ackFrameStatus, issued, fate>>

PollResend ==
  LET s == poller.ses IN
  /\ poller.at = "due" /\ mutex = Free
  /\ ~Exhausted(s)
  /\ mmu[s] # 0
  /\ IF frame[mmu[s]] # NoCmd THEN SendData(frame[mmu[s]]) ELSE UNCHANGED wire
  /\ sent' = IF retry[s] > 0 THEN [sent EXCEPT ![s] = @ + 1] ELSE sent
  /\ expired' = expired \ {s}
  /\ PollMoves
  /\ UNCHANGED <<mutex, used, mmu, retry, preSeq, owner, seq_num, pool, hdr, caller, reader,
                 ackFrameStatus, issued, fate>>

\* The session was flagged for the first time ever by a send that then failed:
\* sendPoll dereferences a null mmu and the process is gone.
PollCrash ==
  LET s == poller.ses IN
  /\ poller.at = "due" /\ mutex = Free
  /\ ~Exhausted(s)
  /\ mmu[s] = 0
  /\ mutex' = Poller
  /\ poller' = [poller EXCEPT !.at = "crashed"]
  /\ UNCHANGED <<session, seq_num, pool, hdr, wire, caller, reader, ackFrameStatus,
                 issued, fate>>

-----------------------------------------------------------------------------
CallerStep(t) == SendNoMemory(t) \/ SendNoKey(t) \/ SendFinish(t)

Call(t) == \/ \E m \in Modes, r \in Retries : SendBegin(t, m, r)
           \/ \E m \in Modes : SendBusy(t, m)
           \/ 0 \in Modes /\ SendNoAck(t)

ReadStep == \/ \E c \in Commands : \/ RecvIgnored(c) \/ RecvAck(c)
                                   \/ RecvStaleAck(c) \/ RecvLateAck(c)
            \/ Deliver

PollStep == PollLook \/ PollGiveUp \/ PollResend \/ PollCrash

Step == \/ \E t \in Callers : Call(t) \/ CallerStep(t)
        \/ ReadStep
        \/ PollStep
        \/ \E s \in Sessions : Expire(s)

Next == Step /\ UNCHANGED setup

\* Threads that can go on do, bytes that have arrived are read, time passes.
\* Nobody is obliged to send another command.
Fairness == /\ \A t \in Callers : WF_vars(CallerStep(t))
            /\ WF_vars(ReadStep)
            /\ WF_vars(PollStep)
            /\ \A s \in Sessions : WF_vars(Expire(s))

Spec == Init /\ [][Next]_<<setup, vars>> /\ Fairness

-----------------------------------------------------------------------------
Fates == {"unsent", "refused", "waiting", "acked", "acked twice", "dropped", "done"}

TypeOK == /\ setup \in Setups
          /\ mutex \in Callers \cup {Free, Reader, Poller}
          /\ used \subseteq Sessions
          /\ mmu \in [Sessions -> Slots \cup {0}]
          /\ retry \in [Sessions -> 0 .. RetryMod - 1]
          /\ sent \in [Sessions -> Nat]
          /\ preSeq \in [Sessions -> Nat]
          /\ owner \in [Sessions -> Commands \cup {NoCmd}]
          /\ expired \subseteq Sessions
          /\ seq_num \in 0 .. SeqMod - 1
          /\ taken \subseteq Slots
          /\ frame \in [Slots -> Commands \cup {NoCmd}]
          /\ hdr \in [Commands -> [ses : Sessions \cup {0}, seq : Nat]]
          /\ acks \in [Commands -> Nat]
          /\ caller \in [Callers -> [at : {"idle", "filling"}, cmd : Commands \cup {NoCmd},
                                    ses : Sessions \cup {0}, retry : Nat]]
          /\ reader \in [at : {"reading", "matched"}, ack : Commands \cup {NoCmd},
                         callBack : Commands \cup {NoCmd}]
          /\ poller \in [at : {"looking", "due", "crashed"}, ses : Sessions,
                         cmd : Commands \cup {NoCmd}]
          /\ ackFrameStatus \in {0, 1, 11}
          /\ issued \in 0 .. MaxCmds
          /\ fate \in [Commands -> Fates]
          /\ tx \in [Commands -> Nat]

\* The sessions whose send has returned: in use and not being filled.
Pending == {s \in used : \A t \in Callers : caller[t].at = "filling" => caller[t].ses # s}

\* The frame a session points at is its own command's, addressed to the session,
\* until the session is freed, whatever sends, frees and polls go on around it.
OwnFrame == \A s \in Pending : /\ mmu[s] \in taken
                               /\ owner[s] # NoCmd
                               /\ frame[mmu[s]] = owner[s]
                               /\ hdr[owner[s]].ses = s

\* A slot is taken exactly as long as one session has it: none is lost when a
\* send fails or a session is freed twice, none serves two sessions.
SlotsAccounted == /\ taken = {mmu[s] : s \in Pending}
                  /\ \A r, s \in Pending : mmu[r] = mmu[s] => r = s

\* The session table and the pool stay in step whatever fails and whoever frees:
\* the memory side of the link.
SessionsIntact == TypeOK /\ OwnFrame /\ SlotsAccounted

\* An ACK completes the command it answers and no other: the session and
\* sequence number test of appHandler suffices, late and repeated ACKs included.
RightHandler == reader.at = "matched" => reader.callBack = reader.ack

Settled(c) == fate[c] \in {"refused", "acked", "dropped", "done"}

\* The link keeps the promise of CommandService: a command is not completed a
\* second time, not completed after sendPoll has given it up, and not given up
\* after its ACK.
Service == INSTANCE CommandService
ImplementsService == Service!Spec

\* A command sendPoll gives up has been transmitted as often as its retry
\* parameter says, and none is ever transmitted more often.
SentAsAsked == \A c \in Commands :
                 /\ \E r \in Retries \cup {1} : tx[c] <= r
                 /\ fate[c] = "dropped" => tx[c] \in Retries \cup {1}

\* Every command that was sent is acknowledged or given up in the end; over a link
\* that loses nothing it reaches its caller with its ACK, poll thread or not.
EveryCommandEnds == \A c \in Commands :
  fate[c] = "waiting" ~> IF setup.acks = {1} THEN fate[c] = "acked" ELSE Settled(c)

\* The memory mutex never stays locked.
MutexReleased == []<>(mutex = Free)

\* When sendPoll frees or retransmits, the session is the one it found timed
\* out: still in use, by the same command.  It does not hold, since sendPoll looks
\* before it takes the mutex; the properties above hold in spite of it.
PollActsOnWhatItSaw == [][poller.at = "due" /\ poller'.at # "due" =>
                            /\ poller.ses \in used
                            /\ owner[poller.ses] = poller.cmd]_vars
=============================================================================
