------------------------- MODULE CommandLink_proofs -------------------------
(* The command sessions for any number of callers, sessions, slots and        *)
(* retries: whatever sends, answers, frees and polls interleave, a session    *)
(* owns its frame, an ACK completes the command it answers, and the fates of  *)
(* commands are those CommandService allows.  That sendPoll acts on a session *)
(* it has looked at without the mutex does not harm any of this.              *)
(* In behaviours where nobody frees a session in between, it transmits each   *)
(* command as often as its retry parameter says.                              *)
EXTENDS CommandLink, TLAPS, WellFoundedInduction

-----------------------------------------------------------------------------
(* The inductive invariant *)

\* A caller that fills a session in holds the mutex, and its command has not been sent.
Filling ==
  \A t \in Callers : caller[t].at = "filling" =>
    /\ mutex = t
    /\ caller[t].ses \in used /\ caller[t].retry \in 0 .. RetryMod - 1
    /\ caller[t].cmd \in 1 .. issued
    /\ fate[caller[t].cmd] = "unsent" /\ hdr[caller[t].cmd].ses = 0

Unsent == \A c \in Commands : c > issued => fate[c] = "unsent" /\ hdr[c].ses = 0

\* A command uses up at most two sequence numbers, so none is used twice.
Numbered ==
  /\ seq_num <= 2 * issued
  /\ \A t \in Callers : caller[t].at = "filling" => seq_num <= 2 * (issued - 1)
  /\ \A c \in Commands : hdr[c].ses # 0 => hdr[c].seq < seq_num
  /\ \A c, d \in Commands :
       hdr[c].ses # 0 /\ hdr[d].ses # 0 /\ hdr[c].seq = hdr[d].seq => c = d

\* The commands of sessions in use wait for their fate; so does the one the read thread
\* has just matched, whose session is free again.
Awaited ==
  /\ \A s \in Pending : fate[owner[s]] = "waiting"
  /\ reader.at = "matched" =>
       /\ reader.ack \in Commands /\ reader.callBack = reader.ack
       /\ fate[reader.callBack] = "waiting"
       /\ \A s \in Pending : owner[s] # reader.callBack

Sessioned == OwnFrame /\ SlotsAccounted

LInv == TypeOK /\ Sessioned /\ Filling /\ Unsent /\ Numbered /\ Awaited

-----------------------------------------------------------------------------
(* Arithmetic, and the round of the poll thread *)

LEMMA ModSmall ==
  ASSUME NEW m \in Nat \ {0}, NEW a \in Nat
  PROVE  a % m \in 0 .. m - 1 /\ (a < m => a % m = a)
  OBVIOUS

LEMMA SessionIds == Sessions \subseteq Nat \ {0} /\ Sessions # {} /\ AutoSessions \subseteq Sessions
  BY LinkAssumption DEF Sessions

LEMMA Least ==
  ASSUME NEW T, T \subseteq Nat, T # {}
  PROVE  \E x \in T : \A y \in T : x <= y
<1>1. PICK x \in T : \A y \in T : ~(<<y, x>> \in OpToRel(<, Nat))
  BY NatLessThanWellFounded, WFMin, Zenon
<1>2. ASSUME NEW y \in T, y < x PROVE <<y, x>> \in OpToRel(<, Nat)
  BY <1>2, Zenon DEF OpToRel
<1>3. \A y \in T : ~(y < x)
  BY <1>1, <1>2, Zenon
<1>4. QED BY <1>3

LEMMA Round ==
  ASSUME NEW s \in Nat
  PROVE  NextSession(s) \in Sessions
<1>1. CASE \A q \in Sessions : q <= s
  <2>1. \E r \in Sessions : \A q \in Sessions : r <= q
    BY SessionIds, Least
  <2>2. QED BY <1>1, <2>1 DEF NextSession
<1>2. CASE ~\A q \in Sessions : q <= s
  <2> DEFINE T == {q \in Sessions : q > s}
  <2>1. T \subseteq Nat /\ T # {}
    <3>1. PICK q \in Sessions : ~(q <= s)
      BY <1>2
    <3>2. q \in Nat /\ q > s
      BY <3>1, SessionIds
    <3>3. QED BY <3>1, <3>2, SessionIds
  <2>2. \E r \in T : \A q \in T : r <= q
    BY <2>1, Least
  <2>3. \E r \in Sessions : r > s /\ \A q \in Sessions : q > s => r <= q
    BY <2>2
  <2>4. QED BY <1>2, <2>3 DEF NextSession
<1>3. QED BY <1>1, <1>2

\* With the mutex free nobody fills a session in; with a caller's, only that one does.
LEMMA Holder ==
  ASSUME TypeOK, Filling
  PROVE  /\ mutex = Free => Pending = used /\ \A t \in Callers : caller[t].at # "filling"
         /\ \A t \in Callers : caller[t].at = "filling" =>
              /\ Pending = used \ {caller[t].ses}
              /\ \A u \in Callers : caller[u].at = "filling" => u = t
  BY LinkAssumption DEF Filling, Pending, Free

\* A transmission changes only the counters of its command.
LEMMA SendTyped ==
  ASSUME TypeOK, NEW c \in Commands, SendData(c)
  PROVE  tx' \in [Commands -> Nat] /\ acks' \in [Commands -> Nat]
<1>1. PICK n \in setup.acks : acks' = [acks EXCEPT ![c] = AckArrivals(c, n)]
  BY DEF SendData
<1>2. n \in Nat
  BY <1>1, LinkAssumption DEF TypeOK
<1>3. AckArrivals(c, n) \in Nat
  BY <1>2, LinkAssumption DEF TypeOK, AckArrivals
<1>4. tx' = [tx EXCEPT ![c] = Transmitted(c)] /\ Transmitted(c) \in Nat
  BY DEF SendData, TypeOK, Transmitted
<1>5. QED BY <1>1, <1>3, <1>4 DEF TypeOK

-----------------------------------------------------------------------------
(* Steps that touch no session, slot, header or fate *)

LEMMA QuietSafe ==
  ASSUME LInv, TypeOK',
         UNCHANGED <<used, mmu, owner, seq_num, taken, frame, hdr, caller, reader, issued, fate>>,
         mutex' = mutex \/ mutex = Free
  PROVE  LInv'
<1>1. mutex = Free => \A t \in Callers : caller[t].at # "filling"
  BY Holder DEF LInv
<1>2. Filling'
  BY <1>1 DEF LInv, Filling
<1>3. Pending' = Pending
  BY DEF Pending
<1>4. Sessioned'
  BY <1>3 DEF LInv, Sessioned, OwnFrame, SlotsAccounted
<1>5. Unsent' /\ Numbered'
  BY DEF LInv, Unsent, Numbered
<1>6. Awaited'
  BY <1>3 DEF LInv, Awaited
<1>7. QED BY <1>2, <1>4, <1>5, <1>6 DEF LInv

LEMMA PollMoved ==
  ASSUME TypeOK, PollMoves
  PROVE  poller' \in [at : {"looking", "due", "crashed"}, ses : Sessions, cmd : Commands \cup {NoCmd}]
<1>1. NextSession(poller.ses) \in Sessions
  BY SessionIds, Round DEF TypeOK
<1>2. QED BY <1>1 DEF PollMoves

LEMMA IgnoreSafe ==
  ASSUME LInv, NEW c \in Commands, RecvIgnored(c) \/ RecvStaleAck(c) \/ RecvLateAck(c), setup' = setup
  PROVE  LInv' /\ UNCHANGED fate
<1>1. /\ acks[c] > 0 /\ acks' = [acks EXCEPT ![c] = @ - 1]
      /\ mutex' = mutex \/ (mutex = Free /\ mutex' = Reader)
      /\ UNCHANGED <<session, seq_num, pool, hdr, tx, caller, reader, poller,
                     ackFrameStatus, issued, fate>>
  BY DEF RecvIgnored, RecvStaleAck, RecvLateAck
<1>2. acks' \in [Commands -> Nat]
  BY <1>1 DEF LInv, TypeOK
<1>3. TypeOK'
  BY <1>1, <1>2 DEF LInv, TypeOK, session, pool
<1>4. QED BY <1>1, <1>3, QuietSafe DEF session, pool

LEMMA ExpireSafe ==
  ASSUME LInv, NEW s \in Sessions, Expire(s), setup' = setup
  PROVE  LInv' /\ UNCHANGED fate
<1>1. TypeOK'
  BY DEF LInv, TypeOK, Expire, pool, wire
<1>2. QED BY <1>1, QuietSafe DEF Expire, pool

LEMMA LookSafe ==
  ASSUME LInv, PollLook \/ PollResend \/ PollCrash, setup' = setup
  PROVE  LInv' /\ UNCHANGED fate
<1>1. CASE PollLook
  <2>1. poller' \in [at : {"looking", "due", "crashed"}, ses : Sessions, cmd : Commands \cup {NoCmd}]
    <3>1. NextSession(poller.ses) \in Sessions
      BY SessionIds, Round DEF LInv, TypeOK
    <3>2. QED BY <1>1, <3>1 DEF PollLook, LInv, TypeOK
  <2>2. TypeOK'
    BY <1>1, <2>1 DEF LInv, TypeOK, PollLook, session, pool, wire
  <2>3. QED BY <1>1, <2>2, QuietSafe DEF PollLook, session, pool
<1>2. CASE PollResend
  <2>1. tx' \in [Commands -> Nat] /\ acks' \in [Commands -> Nat]
    <3>1. mmu[poller.ses] \in Slots /\ frame[mmu[poller.ses]] \in Commands \cup {NoCmd}
      BY <1>2 DEF PollResend, LInv, TypeOK
    <3>2. CASE frame[mmu[poller.ses]] # NoCmd
      BY <1>2, <3>1, <3>2, SendTyped DEF PollResend, LInv
    <3>3. CASE frame[mmu[poller.ses]] = NoCmd
      BY <1>2, <3>3 DEF PollResend, wire, LInv, TypeOK
    <3>4. QED BY <3>2, <3>3
  <2>2. sent' \in [Sessions -> Nat] /\ expired' \subseteq Sessions
    BY <1>2 DEF PollResend, LInv, TypeOK
  <2>3. TypeOK'
    BY <1>2, <2>1, <2>2, PollMoved DEF PollResend, LInv, TypeOK, pool
  <2>4. QED BY <1>2, <2>3, QuietSafe DEF PollResend, pool
<1>3. CASE PollCrash
  <2>1. TypeOK'
    BY <1>3 DEF PollCrash, LInv, TypeOK, session, pool, wire
  <2>2. QED BY <1>3, <2>1, QuietSafe DEF PollCrash, session, pool
<1>4. QED BY <1>1, <1>2, <1>3

-----------------------------------------------------------------------------
(* A session is freed, by an ACK or by the poll thread *)

\* What freeing a session that nobody fills in does to the others.
LEMMA FreeKeeps ==
  ASSUME LInv, NEW s \in used, mutex = Free, FreeSession(s),
         UNCHANGED <<mmu, owner, frame, hdr, caller>>
  PROVE  /\ s \in Pending /\ Pending' = Pending \ {s} /\ Pending = used
         /\ Sessioned' /\ taken' \subseteq Slots /\ used' \subseteq Sessions
         /\ owner[s] \in Commands /\ frame[mmu[s]] = owner[s] /\ hdr[owner[s]].ses = s
         /\ \A r \in Pending' : owner[r] # owner[s]
<1>1. /\ Pending = used /\ used' = used \ {s} /\ taken' = taken \ {mmu[s]}
      /\ taken \subseteq Slots /\ used \subseteq Sessions /\ owner \in [Sessions -> Commands \cup {NoCmd}]
  BY Holder DEF LInv, FreeSession, TypeOK
<1>2. Pending' = Pending \ {s}
  BY <1>1 DEF Pending
<1>3. /\ \A r \in Pending : /\ mmu[r] \in taken /\ owner[r] # NoCmd
                            /\ frame[mmu[r]] = owner[r] /\ hdr[owner[r]].ses = r
      /\ taken = {mmu[r] : r \in Pending}
      /\ \A q, r \in Pending : mmu[q] = mmu[r] => q = r
  BY DEF LInv, Sessioned, OwnFrame, SlotsAccounted
<1>4. OwnFrame'
  BY <1>1, <1>2, <1>3 DEF OwnFrame
<1>5. SlotsAccounted'
  <2>1. taken' = {mmu[r] : r \in Pending'}
    BY <1>1, <1>2, <1>3
  <2>2. QED BY <1>2, <1>3, <2>1 DEF SlotsAccounted
<1>6. QED BY <1>1, <1>2, <1>3, <1>4, <1>5 DEF Sessioned

LEMMA AckSafe ==
  ASSUME LInv, NEW c \in Commands, RecvAck(c), setup' = setup
  PROVE  LInv' /\ UNCHANGED fate
<1> DEFINE s == hdr[c].ses
<1>1. /\ mutex = Free /\ s \in AutoSessions /\ s \in used /\ Matches(s, c) /\ FreeSession(s)
      /\ acks[c] > 0 /\ acks' = [acks EXCEPT ![c] = @ - 1]
      /\ reader' = [at |-> "matched", ack |-> c, callBack |-> owner[s]]
      /\ UNCHANGED <<mutex, mmu, retry, sent, preSeq, owner, expired, seq_num, frame, hdr, tx,
                     caller, poller, ackFrameStatus, issued, fate>>
  BY DEF RecvAck
<1>2. /\ Pending' = Pending \ {s} /\ Sessioned' /\ taken' \subseteq Slots /\ used' \subseteq Sessions
      /\ s \in Pending /\ owner[s] \in Commands /\ frame[mmu[s]] = owner[s] /\ hdr[owner[s]].ses = s
      /\ \A r \in Pending' : owner[r] # owner[s]
  BY <1>1, FreeKeeps
<1>3. owner[s] = c
  <2>1. s # 0 /\ hdr[owner[s]] = hdr[c]
    BY <1>1, <1>2, LinkAssumption DEF Matches
  <2>2. QED BY <1>2, <2>1 DEF LInv, Numbered
<1>4. acks' \in [Commands -> Nat]
  BY <1>1 DEF LInv, TypeOK
<1>5. TypeOK'
  BY <1>1, <1>2, <1>4 DEF LInv, TypeOK
<1>6. Filling'
  BY <1>1, Holder DEF LInv, Filling
<1>7. Unsent' /\ Numbered'
  BY <1>1 DEF LInv, Unsent, Numbered
<1>8. Awaited'
  <2>1. /\ \A r \in Pending : fate[owner[r]] = "waiting"
    BY DEF LInv, Awaited
  <2>2. QED BY <1>1, <1>2, <1>3, <2>1 DEF Awaited
<1>9. QED BY <1>1, <1>2, <1>5, <1>6, <1>7, <1>8 DEF LInv

LEMMA GiveUpSafe ==
  ASSUME LInv, PollGiveUp, setup' = setup
  PROVE  LInv' /\ (Service!Next \/ UNCHANGED fate)
<1> DEFINE s == poller.ses
<1>1. /\ mutex = Free /\ FreeSession(s) /\ PollMoves /\ s \in Sessions
      /\ fate' = IF s \in used THEN [fate EXCEPT ![owner[s]] = "dropped"] ELSE fate
      /\ UNCHANGED <<mutex, mmu, retry, sent, preSeq, owner, expired, seq_num, frame, hdr, wire,
                     caller, reader, ackFrameStatus, issued>>
  BY DEF PollGiveUp, LInv, TypeOK
<1>2. CASE s \notin used
  <2>1. used' = used /\ taken' = taken /\ fate' = fate
    BY <1>1, <1>2 DEF FreeSession
  <2>2. TypeOK'
    BY <1>1, <2>1, PollMoved DEF LInv, TypeOK, wire
  <2>3. QED BY <1>1, <2>1, <2>2, QuietSafe
<1>3. CASE s \in used
  <2> DEFINE c == owner[s]
  <2>1. /\ Pending' = Pending \ {s} /\ Sessioned' /\ taken' \subseteq Slots /\ used' \subseteq Sessions
        /\ s \in Pending /\ c \in Commands
        /\ \A r \in Pending' : owner[r] # c
    BY <1>1, <1>3, FreeKeeps
  <2>2. fate' = [fate EXCEPT ![c] = "dropped"] /\ fate[c] = "waiting" /\ fate \in [Commands -> Fates]
    BY <1>1, <1>3, <2>1 DEF LInv, Awaited, TypeOK
  <2>3. Service!Next
    BY <2>1, <2>2 DEF Service!Next, Service!GiveUp, Service!Becomes
  <2>4. fate' \in [Commands -> Fates]
    BY <2>2 DEF Fates
  <2>5. TypeOK'
    BY <1>1, <2>1, <2>4, PollMoved DEF LInv, TypeOK, wire
  <2>6. Filling'
    BY <1>1, Holder DEF LInv, Filling
  <2>7. Unsent' /\ Numbered'
    BY <1>1, <2>2 DEF LInv, Unsent, Numbered
  <2>8. Awaited'
    <3>1. \A r \in Pending' : fate'[owner[r]] = fate[owner[r]] /\ r \in Pending
      BY <2>1, <2>2
    <3>2. reader.at = "matched" => owner[s] # reader.callBack
      BY <2>1 DEF LInv, Awaited
    <3>3. reader.at = "matched" => fate'[reader.callBack] = fate[reader.callBack]
      BY <2>2, <3>2
    <3>4. QED BY <1>1, <3>1, <3>3 DEF LInv, Awaited
  <2>9. QED BY <2>1, <2>3, <2>5, <2>6, <2>7, <2>8 DEF LInv
<1>4. QED BY <1>2, <1>3

LEMMA DeliverSafe ==
  ASSUME LInv, Deliver, setup' = setup
  PROVE  LInv' /\ Service!Next
<1> DEFINE c == reader.callBack
<1>1. /\ c \in Commands /\ reader.at = "matched" /\ fate[c] = "waiting" /\ fate \in [Commands -> Fates]
      /\ fate' = [fate EXCEPT ![c] = "acked"]
      /\ \A s \in Pending : owner[s] # c
  BY DEF LInv, Awaited, TypeOK, Deliver
<1>2. /\ reader' = [at |-> "reading", ack |-> NoCmd, callBack |-> NoCmd]
      /\ ackFrameStatus' \in {0, 1}
      /\ UNCHANGED <<mutex, session, seq_num, pool, hdr, wire, caller, poller, issued>>
  BY DEF Deliver
<1>3. Service!Next
  BY <1>1 DEF Service!Next, Service!Answer, Service!Becomes
<1>4. fate' \in [Commands -> Fates]
  BY <1>1 DEF Fates
<1>5. TypeOK'
  BY <1>2, <1>4 DEF LInv, TypeOK, session, pool, wire
<1>6. Pending' = Pending
  BY <1>2 DEF Pending, session
<1>7. Sessioned'
  BY <1>2, <1>6 DEF LInv, Sessioned, OwnFrame, SlotsAccounted, session, pool
<1>8. Filling'
  <2>1. ASSUME NEW t \in Callers, caller[t].at = "filling"
        PROVE  fate'[caller[t].cmd] = "unsent"
    BY <1>1, <2>1 DEF LInv, Filling
  <2>2. QED BY <1>2, <2>1 DEF LInv, Filling, session
<1>9. Unsent' /\ Numbered'
  BY <1>1, <1>2 DEF LInv, Unsent, Numbered
<1>10. Awaited'
  <2>1. \A s \in Pending : fate'[owner[s]] = fate[owner[s]]
    BY <1>1
  <2>2. QED BY <1>2, <1>6, <2>1 DEF LInv, Awaited, session
<1>11. QED BY <1>3, <1>5, <1>7, <1>8, <1>9, <1>10 DEF LInv

-----------------------------------------------------------------------------
(* sendInterface *)

LEMMA BeginSafe ==
  ASSUME LInv, NEW t \in Callers, NEW m \in Modes, NEW r \in Retries, SendBegin(t, m, r), setup' = setup
  PROVE  LInv' /\ UNCHANGED fate
<1>1. PICK s \in Candidates(m) :
        /\ used' = used \cup {s}
        /\ caller' = [caller EXCEPT ![t] = [at |-> "filling", cmd |-> issued + 1, ses |-> s,
                                            retry |-> StoredRetry(m, r)]]
  BY DEF SendBegin
<1>2. /\ s \in Sessions \ used
      /\ mutex = Free /\ mutex' = t /\ issued < MaxCmds /\ issued' = issued + 1 /\ issued \in Nat
      /\ UNCHANGED <<mmu, retry, sent, preSeq, owner, expired, seq_num, pool, hdr, wire,
                     reader, poller, ackFrameStatus, fate>>
  BY DEF SendBegin, Candidates, Sessions, LInv, TypeOK
<1>3. /\ issued + 1 \in Commands /\ issued' \in 0 .. MaxCmds
      /\ fate[issued + 1] = "unsent" /\ hdr[issued + 1].ses = 0
  BY <1>2, LinkAssumption DEF Commands, LInv, Unsent
<1>4. StoredRetry(m, r) \in 0 .. RetryMod - 1
  BY LinkAssumption, ModSmall DEF StoredRetry
<1>5. caller' \in [Callers -> [at : {"idle", "filling"}, cmd : Commands \cup {NoCmd},
                               ses : Sessions \cup {0}, retry : Nat]]
  <2>1. [at |-> "filling", cmd |-> issued + 1, ses |-> s, retry |-> StoredRetry(m, r)]
          \in [at : {"idle", "filling"}, cmd : Commands \cup {NoCmd},
               ses : Sessions \cup {0}, retry : Nat]
    BY <1>2, <1>3, <1>4, LinkAssumption
  <2>2. QED BY <1>1, <2>1 DEF LInv, TypeOK
<1>6. TypeOK'
  BY <1>1, <1>2, <1>3, <1>5 DEF LInv, TypeOK, pool, wire
<1>7. /\ caller'[t] = [at |-> "filling", cmd |-> issued + 1, ses |-> s, retry |-> StoredRetry(m, r)]
      /\ \A u \in Callers : u # t => caller'[u] = caller[u] /\ caller[u].at # "filling"
  BY <1>1, <1>2, Holder DEF LInv, TypeOK
<1>8. Pending' = Pending
  <2>1. Pending = used
    BY <1>2, Holder DEF LInv
  <2>2. QED BY <1>1, <1>2, <1>7, <2>1 DEF Pending
<1>9. Sessioned'
  BY <1>2, <1>8 DEF LInv, Sessioned, OwnFrame, SlotsAccounted, pool
<1>10. Filling'
  BY <1>1, <1>2, <1>3, <1>4, <1>7 DEF Filling
<1>11. Unsent'
  BY <1>2 DEF LInv, Unsent, Commands
<1>12. Numbered'
  <2>1. seq_num \in Nat /\ seq_num <= 2 * issued
    BY LinkAssumption DEF LInv, Numbered, TypeOK
  <2>2. QED BY <1>2, <2>1 DEF LInv, Numbered
<1>13. Awaited'
  BY <1>2, <1>8 DEF LInv, Awaited
<1>14. QED BY <1>2, <1>6, <1>9, <1>10, <1>11, <1>12, <1>13 DEF LInv

LEMMA BusySafe ==
  ASSUME LInv, NEW t \in Callers, NEW m \in Modes, SendBusy(t, m), setup' = setup
  PROVE  LInv' /\ Service!Next
<1> DEFINE c == issued + 1
<1>1. /\ issued < MaxCmds /\ issued' = c /\ issued \in Nat /\ mutex = Free
      /\ fate' = [fate EXCEPT ![c] = "refused"] /\ fate \in [Commands -> Fates]
      /\ UNCHANGED <<mutex, session, seq_num, pool, hdr, wire, caller, reader, poller, ackFrameStatus>>
  BY DEF SendBusy, LInv, TypeOK
<1>2. c \in Commands /\ c \in 0 .. MaxCmds /\ fate[c] = "unsent"
  BY <1>1, LinkAssumption DEF Commands, LInv, Unsent
<1>3. Service!Next
  BY <1>1, <1>2 DEF Service!Next, Service!Refuse, Service!Becomes
<1>4. fate' \in [Commands -> Fates]
  BY <1>1 DEF Fates
<1>5. TypeOK'
  BY <1>1, <1>2, <1>4 DEF LInv, TypeOK, session, pool, wire
<1>6. Pending' = Pending
  BY <1>1 DEF Pending, session
<1>7. Sessioned'
  BY <1>1, <1>6 DEF LInv, Sessioned, OwnFrame, SlotsAccounted, session, pool
<1>8. Filling'
  BY <1>1, Holder DEF LInv, Filling
<1>9. Unsent'
  BY <1>1, <1>2 DEF LInv, Unsent, Commands
<1>10. Numbered'
  <2>1. seq_num \in Nat /\ seq_num <= 2 * issued /\ \A u \in Callers : caller[u].at # "filling"
    BY <1>1, LinkAssumption, Holder DEF LInv, Numbered, TypeOK
  <2>2. QED BY <1>1, <2>1 DEF LInv, Numbered
<1>11. Awaited'
  <2>1. \A s \in Pending : fate[owner[s]] = "waiting" => fate'[owner[s]] = "waiting"
    BY <1>1, <1>2
  <2>2. reader.at = "matched" => fate'[reader.callBack] = "waiting"
    BY <1>1, <1>2 DEF LInv, Awaited
  <2>3. QED BY <1>1, <1>6, <2>1, <2>2 DEF LInv, Awaited, session
<1>12. QED BY <1>3, <1>5, <1>7, <1>8, <1>9, <1>10, <1>11 DEF LInv

\* After a send that fails, or that wants no ACK, the sessions are as before it.
LEMMA RefusedSafe ==
  ASSUME LInv, NEW t \in Callers, SendNoMemory(t) \/ SendNoKey(t), setup' = setup
  PROVE  LInv' /\ Service!Next
<1> DEFINE s == caller[t].ses
           c == caller[t].cmd
<1>1. /\ caller[t].at = "filling" /\ mutex = t /\ s \in used /\ s \in Sessions /\ c \in 1 .. issued
      /\ fate[c] = "unsent" /\ hdr[c].ses = 0 /\ issued \in 0 .. MaxCmds
      /\ Pending = used \ {s} /\ \A u \in Callers : caller[u].at = "filling" => u = t
  BY Holder DEF SendNoMemory, SendNoKey, LInv, Filling, TypeOK
<1>2. c \in Commands /\ fate \in [Commands -> Fates] /\ seq_num \in Nat /\ preSeq[s] \in Nat
  BY <1>1, LinkAssumption, SMTT(30) DEF Commands, LInv, TypeOK
<1>3. /\ used' = used \ {s} /\ mutex' = Free
      /\ fate' = [fate EXCEPT ![c] = "refused"]
      /\ caller' = [caller EXCEPT ![t].at = "idle"]
      /\ UNCHANGED <<retry, sent, preSeq, owner, expired, pool, hdr, wire,
                     reader, poller, ackFrameStatus, issued>>
  BY DEF SendNoMemory, SendNoKey
<1>4. /\ mmu' \in [Sessions -> Slots \cup {0}]
      /\ \A r \in Sessions : r # s => mmu'[r] = mmu[r]
  BY <1>1 DEF SendNoMemory, SendNoKey, LInv, TypeOK
<1>5. seq_num' \in 0 .. SeqMod - 1 /\ seq_num <= seq_num' /\ seq_num' <= 2 * issued
  <2>1. seq_num <= 2 * (issued - 1) /\ seq_num < SeqMod
    BY <1>1, <1>2, LinkAssumption DEF LInv, Numbered, TypeOK
  <2>2. seq_num + 1 < SeqMod /\ seq_num + 1 <= 2 * issued
    BY <1>1, <1>2, <2>1, LinkAssumption
  <2>3. (seq_num + 1) % SeqMod = seq_num + 1
    BY <1>2, <2>2, ModSmall, LinkAssumption
  <2>4. seq_num' = seq_num \/ seq_num' = seq_num + 1
    BY <2>3 DEF SendNoMemory, SendNoKey, NextSeq
  <2>5. QED BY <1>1, <1>2, <2>1, <2>2, <2>4, LinkAssumption
<1>6. Service!Next
  BY <1>1, <1>2, <1>3 DEF Service!Next, Service!Refuse, Service!Becomes
<1>7. caller' \in [Callers -> [at : {"idle", "filling"}, cmd : Commands \cup {NoCmd},
                               ses : Sessions \cup {0}, retry : Nat]]
  BY <1>3, SMTT(30) DEF LInv, TypeOK
<1>8. TypeOK'
  <2>1. fate' \in [Commands -> Fates]
    BY <1>2, <1>3 DEF Fates
  <2>2. QED BY <1>1, <1>3, <1>4, <1>5, <1>7, <2>1 DEF LInv, TypeOK, pool, wire
<1>9. \A u \in Callers : caller'[u].at # "filling"
  BY <1>1, <1>3 DEF LInv, TypeOK
<1>10. Pending' = Pending
  BY <1>1, <1>3, <1>9 DEF Pending
<1>11. Sessioned'
  <2>1. \A r \in Pending : r # s /\ r \in Sessions /\ mmu'[r] = mmu[r]
    BY <1>1, <1>4 DEF LInv, TypeOK
  <2>2. OwnFrame'
    BY <1>3, <1>10, <2>1 DEF LInv, Sessioned, OwnFrame, pool
  <2>3. taken' = {mmu'[r] : r \in Pending'}
    BY <1>3, <1>10, <2>1 DEF LInv, Sessioned, SlotsAccounted, pool
  <2>4. \A q, r \in Pending' : mmu'[q] = mmu'[r] => q = r
    BY <1>10, <2>1 DEF LInv, Sessioned, SlotsAccounted
  <2>5. QED BY <2>2, <2>3, <2>4 DEF Sessioned, SlotsAccounted
<1>12. Filling' /\ Unsent'
  BY <1>1, <1>3, <1>9 DEF LInv, Filling, Unsent
<1>13. Numbered'
  <2>1. \A d \in Commands : hdr[d].ses # 0 => hdr[d].seq < seq_num'
    BY <1>2, <1>5 DEF LInv, Numbered, TypeOK
  <2>2. QED BY <1>3, <1>5, <1>9, <2>1 DEF LInv, Numbered
<1>14. Awaited'
  <2>1. \A d \in Commands : fate[d] = "waiting" => fate'[d] = "waiting"
    BY <1>1, <1>2, <1>3
  <2>2. \A r \in Pending : owner[r] \in Commands
    BY DEF LInv, Sessioned, OwnFrame, TypeOK, Pending
  <2>3. QED BY <1>3, <1>10, <2>1, <2>2 DEF LInv, Awaited
<1>15. QED BY <1>6, <1>8, <1>11, <1>12, <1>13, <1>14 DEF LInv

\* The number a command gets is new, and the counter has not come round to old ones.
LEMMA NewNumber ==
  ASSUME LInv, NEW s \in Sessions, NEW k \in Nat, k <= MaxCmds, seq_num <= 2 * (k - 1)
  PROVE  /\ NextSeq(s) \in Nat /\ seq_num <= NextSeq(s)
         /\ (NextSeq(s) + 1) % SeqMod \in 0 .. SeqMod - 1
         /\ NextSeq(s) < (NextSeq(s) + 1) % SeqMod /\ (NextSeq(s) + 1) % SeqMod <= 2 * k
         /\ (seq_num + 1) % SeqMod = seq_num + 1 /\ seq_num + 1 < SeqMod
<1>1. seq_num \in Nat /\ SeqMod \in Nat \ {0} /\ MaxCmds \in Nat /\ SeqMod > 2 * MaxCmds
  BY LinkAssumption DEF LInv, TypeOK
<1>2. seq_num + 2 < SeqMod
  BY <1>1
<1>3. (seq_num + 1) % SeqMod = seq_num + 1 /\ (seq_num + 2) % SeqMod = seq_num + 2
  <2>1. seq_num + 1 \in Nat /\ seq_num + 2 \in Nat /\ seq_num + 1 < SeqMod
    BY <1>1, <1>2
  <2>2. (seq_num + 1) % SeqMod = seq_num + 1
    BY <1>1, <2>1, ModSmall
  <2>3. (seq_num + 2) % SeqMod = seq_num + 2
    BY <1>1, <1>2, <2>1, ModSmall
  <2>4. QED BY <2>2, <2>3
<1>4. NextSeq(s) = seq_num \/ NextSeq(s) = seq_num + 1
  BY <1>3 DEF NextSeq
<1>5. CASE NextSeq(s) = seq_num
  BY <1>1, <1>2, <1>3, <1>5
<1>6. CASE NextSeq(s) = seq_num + 1
  <2>1. NextSeq(s) + 1 = seq_num + 2
    BY <1>1, <1>6
  <2>2. QED BY <1>1, <1>2, <1>3, <1>6, <2>1
<1>7. QED BY <1>4, <1>5, <1>6

LEMMA FinishSafe ==
  ASSUME LInv, NEW t \in Callers, SendFinish(t), setup' = setup
  PROVE  LInv' /\ Service!Next
<1> DEFINE s == caller[t].ses
           c == caller[t].cmd
           n == NextSeq(s)
<1>1. /\ caller[t].at = "filling" /\ mutex = t /\ s \in used /\ s \in Sessions /\ c \in 1 .. issued
      /\ fate[c] = "unsent" /\ hdr[c].ses = 0 /\ issued \in 0 .. MaxCmds
      /\ Pending = used \ {s} /\ \A u \in Callers : caller[u].at = "filling" => u = t
      /\ caller[t].retry \in 0 .. RetryMod - 1
  BY Holder DEF SendFinish, LInv, Filling, TypeOK
<1>2. c \in Commands /\ c # NoCmd /\ fate \in [Commands -> Fates] /\ s # 0
  BY <1>1, SessionIds, LinkAssumption, SMTT(30) DEF Commands, NoCmd, LInv, TypeOK
<1>3. PICK e \in Slots : /\ e \notin taken
                         /\ mmu' = [mmu EXCEPT ![s] = e]
                         /\ taken' = taken \cup {e}
                         /\ frame' = [frame EXCEPT ![e] = c]
  BY DEF SendFinish, FirstFreeSlot
<1>4. /\ hdr' = [hdr EXCEPT ![c] = [ses |-> s, seq |-> n]]
      /\ preSeq' = [preSeq EXCEPT ![s] = n]
      /\ seq_num' = (n + 1) % SeqMod
      /\ owner' = [owner EXCEPT ![s] = c]
      /\ expired' = expired \ {s} /\ sent' = [sent EXCEPT ![s] = 1]
      /\ retry' = [retry EXCEPT ![s] = caller[t].retry]
      /\ SendData(c) /\ mutex' = Free
      /\ fate' = [fate EXCEPT ![c] = "waiting"]
      /\ caller' = [caller EXCEPT ![t].at = "idle"]
      /\ UNCHANGED <<used, reader, poller, ackFrameStatus, issued>>
  BY DEF SendFinish
<1>5. /\ n \in Nat /\ seq_num <= n /\ seq_num' \in 0 .. SeqMod - 1 /\ n < seq_num'
      /\ seq_num' <= 2 * issued /\ seq_num \in Nat /\ seq_num' \in Nat
  <2>1. seq_num <= 2 * (issued - 1) /\ issued \in Nat /\ issued <= MaxCmds /\ seq_num \in Nat
    BY <1>1, LinkAssumption DEF LInv, Numbered, TypeOK
  <2>2. QED BY <1>1, <1>4, <2>1, NewNumber, LinkAssumption
<1>6. Service!Next
  BY <1>1, <1>2, <1>4 DEF Service!Next, Service!Accept, Service!Becomes
<1>7. TypeOK'
  <2>1. fate' \in [Commands -> Fates]
    BY <1>2, <1>4 DEF Fates
  <2>2. tx' \in [Commands -> Nat] /\ acks' \in [Commands -> Nat]
    BY <1>2, <1>4, SendTyped DEF LInv
  <2>3. caller' \in [Callers -> [at : {"idle", "filling"}, cmd : Commands \cup {NoCmd},
                                 ses : Sessions \cup {0}, retry : Nat]]
    BY <1>4 DEF LInv, TypeOK
  <2>4. /\ mmu' \in [Sessions -> Slots \cup {0}] /\ taken' \subseteq Slots
        /\ frame' \in [Slots -> Commands \cup {NoCmd}]
    BY <1>2, <1>3 DEF LInv, TypeOK
  <2>5. hdr' \in [Commands -> [ses : Sessions \cup {0}, seq : Nat]]
    BY <1>1, <1>2, <1>4, <1>5 DEF LInv, TypeOK
  <2>6. /\ preSeq' \in [Sessions -> Nat] /\ owner' \in [Sessions -> Commands \cup {NoCmd}]
        /\ expired' \subseteq Sessions /\ sent' \in [Sessions -> Nat]
        /\ retry' \in [Sessions -> 0 .. RetryMod - 1]
    BY <1>1, <1>2, <1>4, <1>5 DEF LInv, TypeOK
  <2>7. QED BY <1>4, <1>5, <2>1, <2>2, <2>3, <2>4, <2>5, <2>6 DEF LInv, TypeOK
<1>8. \A u \in Callers : caller'[u].at # "filling"
  BY <1>1, <1>4 DEF LInv, TypeOK
<1>9. Pending' = used
  BY <1>4, <1>8 DEF Pending
<1>10. /\ mmu'[s] = e /\ owner'[s] = c /\ frame'[e] = c /\ hdr'[c] = [ses |-> s, seq |-> n]
       /\ \A d \in Commands : d # c => hdr'[d] = hdr[d] /\ fate'[d] = fate[d]
       /\ fate'[c] = "waiting"
  BY <1>1, <1>2, <1>3, <1>4 DEF LInv, TypeOK
<1>11. ASSUME NEW r \in used, r # s
       PROVE  /\ r \in Pending /\ mmu'[r] = mmu[r] /\ owner'[r] = owner[r] /\ mmu[r] \in taken
              /\ frame'[mmu[r]] = frame[mmu[r]] /\ owner[r] \in Commands /\ owner[r] # c
              /\ hdr[owner[r]].ses = r /\ frame[mmu[r]] = owner[r]
  <2>1. r \in Pending /\ r \in Sessions
    BY <1>1, <1>11 DEF LInv, TypeOK
  <2>2. /\ mmu[r] \in taken /\ owner[r] \in Commands /\ hdr[owner[r]].ses = r
        /\ frame[mmu[r]] = owner[r] /\ fate[owner[r]] = "waiting"
    BY <2>1 DEF LInv, Sessioned, OwnFrame, TypeOK, Awaited
  <2>3. mmu'[r] = mmu[r] /\ owner'[r] = owner[r]
    BY <1>3, <1>4, <1>11, <2>1 DEF LInv, TypeOK
  <2>4. frame'[mmu[r]] = frame[mmu[r]]
    BY <1>3, <2>2 DEF LInv, TypeOK
  <2>5. owner[r] # c
    BY <1>1, <2>2
  <2>6. QED BY <2>1, <2>2, <2>3, <2>4, <2>5
<1>12. OwnFrame'
  <2>1. ASSUME NEW r \in used PROVE /\ mmu'[r] \in taken' /\ owner'[r] # NoCmd
                                    /\ frame'[mmu'[r]] = owner'[r] /\ hdr'[owner'[r]].ses = r
    <3>1. CASE r = s
      BY <1>2, <1>3, <1>10, <3>1
    <3>2. CASE r # s
      <4>1. owner[r] # NoCmd
        BY <1>11, <3>2, LinkAssumption DEF Commands, NoCmd
      <4>2. QED BY <1>3, <1>10, <1>11, <3>2, <4>1
    <3>3. QED BY <3>1, <3>2
  <2>2. QED BY <1>9, <2>1 DEF OwnFrame
<1>13. SlotsAccounted'
  <2>1. /\ taken = {mmu[r] : r \in used \ {s}}
        /\ \A q, r \in used \ {s} : mmu[q] = mmu[r] => q = r
    BY <1>1 DEF LInv, Sessioned, SlotsAccounted
  <2>2. taken' = {mmu'[r] : r \in used}
    BY <1>1, <1>3, <1>10, <1>11, <2>1
  <2>3. \A q, r \in used : mmu'[q] = mmu'[r] => q = r
    BY <1>3, <1>10, <1>11, <2>1
  <2>4. QED BY <1>9, <2>2, <2>3 DEF SlotsAccounted
<1>14. Filling'
  BY <1>8 DEF Filling
<1>15. Unsent'
  BY <1>1, <1>2, <1>4, <1>10 DEF LInv, Unsent, Commands
<1>16. Numbered'
  <2>1. \A d \in Commands : d # c /\ hdr'[d].ses # 0 => hdr'[d].seq < seq_num /\ hdr'[d].seq \in Nat
    BY <1>10 DEF LInv, Numbered, TypeOK
  <2>2. \A d \in Commands : d # c /\ hdr'[d].ses # 0 => hdr'[d].seq < n
    BY <1>5, <2>1
  <2>3. \A d \in Commands : hdr'[d].ses # 0 => hdr'[d].seq < seq_num'
    BY <1>5, <1>10, <2>1, <2>2
  <2>4. \A b, d \in Commands :
          hdr'[b].ses # 0 /\ hdr'[d].ses # 0 /\ hdr'[b].seq = hdr'[d].seq => b = d
    <3>1. ASSUME NEW b \in Commands, NEW d \in Commands, hdr'[b].ses # 0, hdr'[d].ses # 0,
                 hdr'[b].seq = hdr'[d].seq
          PROVE  b = d
      <4>1. CASE b # c /\ d # c
        BY <1>10, <3>1, <4>1 DEF LInv, Numbered
      <4>2. CASE b = c \/ d = c
        BY <1>5, <1>10, <2>1, <2>2, <3>1, <4>2
      <4>3. QED BY <4>1, <4>2
    <3>2. QED BY <3>1
  <2>5. QED BY <1>4, <1>5, <1>8, <2>3, <2>4 DEF Numbered
<1>17. Awaited'
  <2>1. \A r \in used : fate'[owner'[r]] = "waiting"
    <3>1. ASSUME NEW r \in used, r # s PROVE fate'[owner'[r]] = "waiting"
      BY <1>10, <1>11, <3>1 DEF LInv, Awaited
    <3>2. QED BY <1>10, <3>1
  <2>2. reader.at = "matched" =>
          /\ reader.callBack # c /\ fate'[reader.callBack] = "waiting"
          /\ \A r \in used : owner'[r] # reader.callBack
    <3>1. reader.at = "matched" => reader.callBack \in Commands /\ reader.callBack # c
      BY <1>1 DEF LInv, Awaited
    <3>2. reader.at = "matched" => \A r \in used : r # s => owner'[r] # reader.callBack
      BY <1>11 DEF LInv, Awaited
    <3>3. QED BY <1>10, <3>1, <3>2 DEF LInv, Awaited
  <2>3. QED BY <1>4, <1>9, <2>1, <2>2 DEF LInv, Awaited
<1>18. QED BY <1>6, <1>7, <1>12, <1>13, <1>14, <1>15, <1>16, <1>17 DEF LInv, Sessioned

LEMMA NoAckSafe ==
  ASSUME LInv, NEW t \in Callers, SendNoAck(t), setup' = setup
  PROVE  LInv' /\ Service!Next
<1> DEFINE c == issued + 1
<1>1. /\ issued < MaxCmds /\ issued' = c /\ issued \in Nat /\ mutex = Free
      /\ UNCHANGED <<mutex, session, taken, acks, caller, reader, poller, ackFrameStatus>>
  BY DEF SendNoAck, LInv, TypeOK
<1>2. /\ c \in Commands /\ c \in 0 .. MaxCmds /\ fate[c] = "unsent" /\ hdr[c].ses = 0
      /\ seq_num \in Nat /\ seq_num <= 2 * issued /\ fate \in [Commands -> Fates]
  BY <1>1, LinkAssumption DEF Commands, LInv, Unsent, Numbered, TypeOK
<1>3. /\ \A u \in Callers : caller[u].at # "filling"
      /\ Pending = used /\ Pending' = Pending
  BY <1>1, Holder DEF LInv, Pending, session
<1>4. /\ \/ fate' = [fate EXCEPT ![c] = "refused"]
         \/ fate' = [fate EXCEPT ![c] = "done"]
      /\ \/ seq_num' = seq_num
         \/ seq_num' = (seq_num + 1) % SeqMod
      /\ \/ hdr' = hdr
         \/ hdr' = [hdr EXCEPT ![c] = [ses |-> 0, seq |-> seq_num]]
      /\ \/ frame' = frame
         \/ \E e \in Slots \ taken : frame' = [frame EXCEPT ![e] = c]
      /\ tx' = tx \/ tx' = [tx EXCEPT ![c] = Transmitted(c)]
  BY DEF SendNoAck, FirstFreeSlot
<1>5. Service!Next
  BY <1>2, <1>4 DEF Service!Next, Service!Refuse, Service!Post, Service!Becomes
<1>6. seq_num' \in 0 .. SeqMod - 1 /\ seq_num <= seq_num' /\ seq_num' <= 2 * c /\ seq_num' \in Nat
  <2>1. (seq_num + 1) % SeqMod = seq_num + 1 /\ seq_num + 1 < SeqMod
    <3>1. PICK s : s \in Sessions
      BY SessionIds
    <3>2. c \in Nat /\ c <= MaxCmds /\ seq_num <= 2 * (c - 1)
      BY <1>1, <1>2, LinkAssumption
    <3>3. QED BY <3>1, <3>2, NewNumber
  <2>2. seq_num' = seq_num \/ seq_num' = seq_num + 1
    BY <1>4, <2>1
  <2>3. QED BY <1>1, <1>2, <2>1, <2>2, LinkAssumption DEF LInv, TypeOK
<1>7. TypeOK'
  <2>1. fate' \in [Commands -> Fates]
    BY <1>2, <1>4 DEF Fates
  <2>2. tx' \in [Commands -> Nat]
    BY <1>2, <1>4, SMTT(30) DEF LInv, TypeOK, Transmitted
  <2>3. hdr' \in [Commands -> [ses : Sessions \cup {0}, seq : Nat]]
    <3>1. hdr \in [Commands -> [ses : Sessions \cup {0}, seq : Nat]]
      BY DEF LInv, TypeOK
    <3>2. [ses |-> 0, seq |-> seq_num] \in [ses : Sessions \cup {0}, seq : Nat]
      BY <1>2
    <3>3. QED BY <1>4, <3>1, <3>2
  <2>4. frame' \in [Slots -> Commands \cup {NoCmd}]
    BY <1>2, <1>4 DEF LInv, TypeOK
  <2>5. QED BY <1>1, <1>2, <1>6, <2>1, <2>2, <2>3, <2>4 DEF LInv, TypeOK, session
<1>8. /\ \A d \in Commands : d # c => fate'[d] = fate[d]
      /\ \A d \in Commands : hdr'[d].ses = hdr[d].ses /\ (d # c => hdr'[d] = hdr[d])
  BY <1>2, <1>4 DEF LInv, TypeOK
<1>9. Sessioned'
  <2>1. \A r \in Pending : /\ mmu[r] \in taken /\ owner[r] \in Commands
                           /\ frame'[mmu[r]] = frame[mmu[r]]
    BY <1>4 DEF LInv, Sessioned, OwnFrame, TypeOK, Pending
  <2>2. OwnFrame'
    BY <1>1, <1>3, <1>8, <2>1 DEF LInv, Sessioned, OwnFrame, session
  <2>3. SlotsAccounted'
    BY <1>1, <1>3 DEF LInv, Sessioned, SlotsAccounted, session
  <2>4. QED BY <2>2, <2>3 DEF Sessioned
<1>10. Filling'
  BY <1>1, <1>3 DEF Filling
<1>11. Unsent'
  BY <1>1, <1>2, <1>8 DEF LInv, Unsent, Commands
<1>12. Numbered'
  <2>1. \A d \in Commands : hdr'[d].ses # 0 => hdr'[d] = hdr[d] /\ hdr[d].seq < seq_num'
    BY <1>2, <1>6, <1>8 DEF LInv, Numbered, TypeOK
  <2>2. QED BY <1>1, <1>3, <1>6, <2>1 DEF LInv, Numbered
<1>13. Awaited'
  <2>1. \A r \in Pending : owner[r] \in Commands /\ fate[owner[r]] = "waiting"
    BY DEF LInv, Awaited, Sessioned, OwnFrame, TypeOK, Pending
  <2>2. \A d \in Commands : fate[d] = "waiting" => fate'[d] = "waiting"
    BY <1>2, <1>8
  <2>3. reader.at = "matched" => fate'[reader.callBack] = "waiting"
    BY <2>2 DEF LInv, Awaited
  <2>4. QED BY <1>1, <1>3, <2>1, <2>2, <2>3 DEF LInv, Awaited, session
<1>14. QED BY <1>5, <1>7, <1>9, <1>10, <1>11, <1>12, <1>13 DEF LInv

-----------------------------------------------------------------------------
(* The invariant, and the service behind it *)

LEMMA InitSafe ==
  ASSUME Init
  PROVE  LInv /\ Service!Init
<1>1. Service!Init
  BY DEF Init, Service!Init
<1>2. NextSession(0) \in Sessions
  BY Round
<1>3. TypeOK
  <2>1. preSeq \in [Sessions -> Nat]
    BY DEF Init
  <2>2. caller \in [Callers -> [at : {"idle", "filling"}, cmd : Commands \cup {NoCmd},
                                ses : Sessions \cup {0}, retry : Nat]]
    BY DEF Init
  <2>3. hdr \in [Commands -> [ses : Sessions \cup {0}, seq : Nat]]
    BY DEF Init
  <2>4. retry \in [Sessions -> 0 .. RetryMod - 1] /\ seq_num \in 0 .. SeqMod - 1 /\ issued \in 0 .. MaxCmds
    BY LinkAssumption DEF Init
  <2>5. fate \in [Commands -> Fates]
    BY DEF Init, Fates
  <2>6. poller \in [at : {"looking", "due", "crashed"}, ses : Sessions, cmd : Commands \cup {NoCmd}]
    BY <1>2 DEF Init
  <2>7. /\ setup \in Setups /\ mutex \in {Free} /\ used = {} /\ expired = {} /\ taken = {}
        /\ mmu \in [Sessions -> Slots \cup {0}] /\ sent \in [Sessions -> Nat]
        /\ owner \in [Sessions -> Commands \cup {NoCmd}] /\ frame \in [Slots -> Commands \cup {NoCmd}]
        /\ acks \in [Commands -> Nat] /\ tx \in [Commands -> Nat] /\ ackFrameStatus = 11
    BY DEF Init
  <2>8. reader \in [at : {"reading", "matched"}, ack : Commands \cup {NoCmd}, callBack : Commands \cup {NoCmd}]
    BY DEF Init
  <2>9. QED BY <2>1, <2>2, <2>3, <2>4, <2>5, <2>6, <2>7, <2>8 DEF TypeOK
<1>4. Pending = {}
  BY DEF Init, Pending
<1>5. Sessioned
  BY <1>4 DEF Init, Sessioned, OwnFrame, SlotsAccounted
<1>6. Filling /\ Unsent /\ Awaited
  BY <1>4 DEF Init, Filling, Unsent, Awaited, Commands
<1>7. Numbered
  BY DEF Init, Numbered
<1>8. QED BY <1>1, <1>3, <1>5, <1>6, <1>7 DEF LInv

LEMMA NextSafe ==
  ASSUME LInv, [Next]_<<setup, vars>>
  PROVE  LInv' /\ (Service!Next \/ UNCHANGED fate)
<1>1. CASE UNCHANGED <<setup, vars>>
  <2>1. TypeOK'
    BY <1>1 DEF LInv, TypeOK, vars, session, pool, wire
  <2>2. QED BY <1>1, <2>1, QuietSafe DEF vars, session, pool
<1>2. CASE Next
  <2> setup' = setup
    BY <1>2 DEF Next
  <2>1. ASSUME NEW t \in Callers, Call(t) PROVE LInv' /\ (Service!Next \/ UNCHANGED fate)
    BY <2>1, BeginSafe, BusySafe, NoAckSafe DEF Call
  <2>2. ASSUME NEW t \in Callers, CallerStep(t) PROVE LInv' /\ (Service!Next \/ UNCHANGED fate)
    BY <2>2, RefusedSafe, FinishSafe DEF CallerStep
  <2>3. ASSUME ReadStep PROVE LInv' /\ (Service!Next \/ UNCHANGED fate)
    BY <2>3, IgnoreSafe, AckSafe, DeliverSafe DEF ReadStep
  <2>4. ASSUME PollStep PROVE LInv' /\ (Service!Next \/ UNCHANGED fate)
    BY <2>4, LookSafe, GiveUpSafe DEF PollStep
  <2>5. ASSUME NEW s \in Sessions, Expire(s) PROVE LInv' /\ (Service!Next \/ UNCHANGED fate)
    BY <2>5, ExpireSafe
  <2>6. QED BY <1>2, <2>1, <2>2, <2>3, <2>4, <2>5 DEF Next, Step
<1>3. QED BY <1>1, <1>2

LEMMA Invariant == Spec => []LInv
<1>1. Init => LInv
  BY InitSafe
<1>2. LInv /\ [Next]_<<setup, vars>> => LInv'
  BY NextSafe
<1>3. QED BY <1>1, <1>2, PTL DEF Spec

\* The session table and the frame pool stay in step (sendInterface, freeSession,
\* allocMemory): a session in use has a slot to itself that holds its own command's
\* frame, and every slot taken belongs to one.
THEOREM SessionsSafe == Spec => []SessionsIntact
<1>1. LInv => SessionsIntact
  BY DEF LInv, Sessioned, SessionsIntact
<1>2. QED BY <1>1, Invariant, PTL

\* The test of session and sequence number in appHandler completes the command an ACK
\* answers and no other, however often the ACK is repeated and however late it comes.
THEOREM AcksMatch == Spec => []RightHandler
<1>1. LInv => RightHandler
  BY DEF LInv, Awaited, RightHandler
<1>2. QED BY <1>1, Invariant, PTL

\* The link keeps the promise of CommandService: appHandler and sendPoll between them
\* settle a command once, and neither overrules the other.
THEOREM LinkImplementsService == Spec => ImplementsService
<1>1. Init => Service!Init
  BY InitSafe
<1>2. LInv /\ [Next]_<<setup, vars>> => [Service!Next]_fate
  BY NextSafe
<1>3. QED BY <1>1, <1>2, Invariant, PTL DEF Spec, ImplementsService, Service!Spec

-----------------------------------------------------------------------------
(* The transmissions of a command *)

\* The retry parameter fits its field, is not 0 (which means for ever), and is within the
\* range transmissions are counted to.
RetriesFit == /\ \A r \in Retries : r \in 1 .. RetryMod - 1 /\ r <= MaxTx
              /\ 1 <= MaxTx

\* Nobody frees the session sendPoll has looked at before sendPoll acts: no ACK matches
\* it in between, and no send that has just taken it fails.
DueIsKept == poller.at = "due" /\ poller.ses \in used /\ poller' = poller => poller.ses \in used'
DueInUse  == poller.at = "due" => poller.ses \in used

Counts == Retries \cup {1}

\* `sent` is the number of transmissions of the command that has the session.
InSession == \A s \in Pending : /\ retry[s] \in Counts /\ sent[s] \in 1 .. retry[s]
                                /\ tx[owner[s]] = sent[s]

Counted == /\ \A c \in Commands : fate[c] = "unsent" => tx[c] = 0
           /\ \A t \in Callers : caller[t].at = "filling" => caller[t].retry \in Counts
           /\ InSession /\ SentAsAsked

LEMMA DueStays ==
  ASSUME LInv, DueInUse, DueIsKept, [Next]_<<setup, vars>>
  PROVE  DueInUse'
<1>1. CASE poller' = poller
  BY <1>1 DEF DueInUse, DueIsKept
<1>2. CASE PollStep
  <2>1. PollLook => DueInUse'
    BY DEF PollLook, DueInUse, session, LInv, TypeOK
  <2>2. PollGiveUp \/ PollResend => DueInUse'
    BY DEF PollGiveUp, PollResend, PollMoves, DueInUse
  <2>3. PollCrash => DueInUse'
    BY DEF PollCrash, DueInUse, LInv, TypeOK
  <2>4. QED BY <1>2, <2>1, <2>2, <2>3 DEF PollStep
<1>3. CASE Next /\ ~PollStep
  <2>1. ASSUME NEW t \in Callers, Call(t) \/ CallerStep(t) PROVE poller' = poller
    BY <2>1 DEF Call, CallerStep, SendBegin, SendBusy, SendNoAck, SendNoMemory, SendNoKey, SendFinish
  <2>2. ReadStep => poller' = poller
    BY DEF ReadStep, RecvIgnored, RecvAck, RecvStaleAck, RecvLateAck, Deliver
  <2>3. (\E s \in Sessions : Expire(s)) => poller' = poller
    BY DEF Expire
  <2>4. QED BY <1>1, <1>3, <2>1, <2>2, <2>3 DEF Next, Step
<1>4. QED BY <1>1, <1>2, <1>3 DEF vars

LEMMA CountRange ==
  ASSUME RetriesFit, NEW r \in Counts
  PROVE  r \in 1 .. RetryMod - 1 /\ r <= MaxTx
  BY LinkAssumption DEF RetriesFit, Counts

\* A step that transmits nothing.
LEMMA CountStays ==
  ASSUME Counted, UNCHANGED <<setup, retry, sent, owner, tx>>, Pending' \subseteq Pending,
         \A c \in Commands : fate'[c] = "unsent" => fate[c] = "unsent",
         \A c \in Commands : fate'[c] = "dropped" => fate[c] = "dropped" \/ tx[c] \in Counts,
         \A t \in Callers : caller'[t].at = "filling" => caller'[t].retry \in Counts
  PROVE  Counted'
<1>1. InSession'
  BY DEF Counted, InSession
<1>2. SentAsAsked'
  BY DEF Counted, SentAsAsked, Counts
<1>3. QED BY <1>1, <1>2 DEF Counted

LEMMA SendCounts ==
  ASSUME LInv, NEW c \in Commands, SendData(c), tx[c] < MaxTx
  PROVE  tx' = [tx EXCEPT ![c] = @ + 1]
  BY DEF SendData, Transmitted

LEMMA ReadCounts ==
  ASSUME LInv, Counted, ReadStep, setup' = setup
  PROVE  Counted'
<1>1. UNCHANGED <<retry, sent, owner, tx, caller>> /\ used' \subseteq used
  BY DEF ReadStep, RecvIgnored, RecvAck, RecvStaleAck, RecvLateAck, FreeSession, Deliver, session, wire
<1>2. Pending' \subseteq Pending
  BY <1>1 DEF Pending
<1>3. \A c \in Commands : fate'[c] \in {"unsent", "dropped"} => fate'[c] = fate[c]
  <2>1. ASSUME Deliver PROVE fate' = [fate EXCEPT ![reader.callBack] = IF @ = "waiting" THEN "acked" ELSE "acked twice"]
    BY <2>1 DEF Deliver
  <2>2. CASE Deliver
    BY <2>1, <2>2 DEF LInv, TypeOK
  <2>3. CASE ~Deliver
    <3>1. fate' = fate
      BY <2>3 DEF ReadStep, RecvIgnored, RecvAck, RecvStaleAck, RecvLateAck
    <3>2. QED BY <3>1
  <2>4. QED BY <2>2, <2>3
<1>4. \A t \in Callers : caller'[t].at = "filling" => caller'[t].retry \in Counts
  BY <1>1 DEF Counted
<1>5. QED BY <1>1, <1>2, <1>3, <1>4, CountStays

LEMMA QuietCounts ==
  ASSUME LInv, Counted, setup' = setup,
         PollLook \/ PollCrash \/ \E s \in Sessions : Expire(s)
  PROVE  Counted'
<1>1. UNCHANGED <<used, retry, sent, owner, tx, acks, caller, reader, fate>>
  BY DEF PollLook, PollCrash, Expire, session, wire
<1>2. Pending' = Pending
  BY <1>1 DEF Pending
<1>3. \A t \in Callers : caller'[t].at = "filling" => caller'[t].retry \in Counts
  BY <1>1 DEF Counted
<1>4. QED BY <1>1, <1>2, <1>3, CountStays

\* What sendPoll finds when it has the mutex is what it saw: the session of a command
\* that waits, whose transmissions `sent` has counted.
LEMMA StillThere ==
  ASSUME LInv, DueInUse, Counted, poller.at = "due", mutex = Free
  PROVE  /\ poller.ses \in Pending /\ Pending = used /\ owner[poller.ses] \in Commands
         /\ frame[mmu[poller.ses]] = owner[poller.ses]
         /\ retry[poller.ses] \in Counts /\ sent[poller.ses] \in 1 .. retry[poller.ses]
         /\ tx[owner[poller.ses]] = sent[poller.ses]
<1>1. poller.ses \in used /\ Pending = used
  BY Holder DEF LInv, DueInUse
<1>2. QED BY <1>1 DEF LInv, Sessioned, OwnFrame, TypeOK, Counted, InSession

LEMMA GiveUpCounts ==
  ASSUME LInv, RetriesFit, DueInUse, Counted, PollGiveUp, setup' = setup
  PROVE  Counted'
<1> DEFINE s == poller.ses
<1>1. /\ mutex = Free /\ poller.at = "due" /\ Exhausted(s) /\ FreeSession(s) /\ PollMoves
      /\ fate' = IF s \in used THEN [fate EXCEPT ![owner[s]] = "dropped"] ELSE fate
      /\ UNCHANGED <<retry, sent, owner, wire, caller, reader>>
  BY DEF PollGiveUp
<1>2. /\ s \in used /\ owner[s] \in Commands /\ retry[s] \in Counts /\ sent[s] \in 1 .. retry[s]
      /\ tx[owner[s]] = sent[s]
  BY <1>1, StillThere
<1>3. tx[owner[s]] \in Counts
  BY <1>1, <1>2, CountRange DEF Exhausted
<1>4. Pending' \subseteq Pending
  BY <1>1 DEF Pending, FreeSession
<1>5. /\ \A c \in Commands : fate'[c] = "unsent" => fate[c] = "unsent"
      /\ \A c \in Commands : fate'[c] = "dropped" => fate[c] = "dropped" \/ tx[c] \in Counts
  BY <1>1, <1>2, <1>3 DEF LInv, TypeOK
<1>6. \A t \in Callers : caller'[t].at = "filling" => caller'[t].retry \in Counts
  BY <1>1 DEF Counted
<1>7. QED BY <1>1, <1>4, <1>5, <1>6, CountStays DEF wire

LEMMA ResendCounts ==
  ASSUME LInv, RetriesFit, DueInUse, Counted, PollResend, setup' = setup
  PROVE  Counted'
<1> DEFINE s == poller.ses
           c == owner[s]
<1>1. /\ mutex = Free /\ poller.at = "due" /\ ~Exhausted(s) /\ PollMoves
      /\ IF frame[mmu[s]] # NoCmd THEN SendData(frame[mmu[s]]) ELSE UNCHANGED wire
      /\ sent' = IF retry[s] > 0 THEN [sent EXCEPT ![s] = @ + 1] ELSE sent
      /\ UNCHANGED <<used, retry, owner, caller, reader, fate>>
  BY DEF PollResend
<1>2. /\ s \in Pending /\ c \in Commands /\ frame[mmu[s]] = c
      /\ retry[s] \in Counts /\ sent[s] \in 1 .. retry[s] /\ tx[c] = sent[s]
      /\ s \in Sessions
  BY <1>1, StillThere DEF LInv, TypeOK
<1>3. retry[s] \in Nat /\ retry[s] > 0 /\ retry[s] <= MaxTx /\ MaxTx \in Nat
  BY <1>2, CountRange, LinkAssumption
<1>4. sent[s] \in Nat /\ sent[s] < retry[s]
  BY <1>1, <1>2, <1>3 DEF Exhausted
<1>5. SendData(c) /\ tx[c] < MaxTx
  BY <1>1, <1>2, <1>3, <1>4 DEF Commands, NoCmd
<1>6. tx' = [tx EXCEPT ![c] = @ + 1]
  BY <1>2, <1>5, SendCounts
<1>7. tx'[c] = sent[s] + 1 /\ \A d \in Commands : d # c => tx'[d] = tx[d]
  BY <1>2, <1>6 DEF LInv, TypeOK
<1>8. Pending' = Pending
  BY <1>1 DEF Pending
<1>9. fate[c] = "waiting"
  BY <1>2 DEF LInv, Awaited
<1>10. InSession'
  <2>1. ASSUME NEW r \in Pending
        PROVE  /\ retry'[r] \in Counts /\ sent'[r] \in 1 .. retry'[r] /\ tx'[owner'[r]] = sent'[r]
    <3>1. CASE r = s
      BY <1>1, <1>2, <1>3, <1>4, <1>7, <3>1 DEF LInv, TypeOK
    <3>2. CASE r # s
      <4>1. owner[r] # c /\ owner[r] \in Commands
        BY <1>2, <3>2 DEF LInv, Sessioned, OwnFrame, TypeOK, Pending
      <4>2. sent'[r] = sent[r]
        BY <1>1, <3>2 DEF LInv, TypeOK
      <4>3. QED BY <1>1, <1>7, <4>1, <4>2 DEF Counted, InSession
    <3>3. QED BY <3>1, <3>2
  <2>2. QED BY <1>8, <2>1 DEF InSession
<1>11. SentAsAsked'
  <2>1. tx'[c] <= retry[s] /\ retry[s] \in Retries \cup {1}
    BY <1>2, <1>3, <1>4, <1>7 DEF Counts
  <2>2. QED BY <1>1, <1>7, <1>9, <2>1 DEF Counted, SentAsAsked
<1>12. (\A d \in Commands : fate'[d] = "unsent" => tx'[d] = 0)
       /\ \A t \in Callers : caller'[t].at = "filling" => caller'[t].retry \in Counts
  BY <1>1, <1>7, <1>9 DEF Counted
<1>13. QED BY <1>10, <1>11, <1>12 DEF Counted

LEMMA BeginCounts ==
  ASSUME LInv, RetriesFit, Counted, NEW t \in Callers, NEW m \in Modes, NEW r \in Retries,
         SendBegin(t, m, r), setup' = setup
  PROVE  Counted'
<1>1. PICK s \in Candidates(m) :
        /\ used' = used \cup {s}
        /\ caller' = [caller EXCEPT ![t] = [at |-> "filling", cmd |-> issued + 1, ses |-> s,
                                            retry |-> StoredRetry(m, r)]]
  BY DEF SendBegin
<1>2. mutex = Free /\ UNCHANGED <<retry, sent, owner, wire, reader, poller, fate>>
  BY DEF SendBegin
<1>3. StoredRetry(m, r) \in Counts
  <2>1. r \in Nat /\ r < RetryMod /\ RetryMod \in Nat \ {0}
    BY CountRange, LinkAssumption DEF Counts
  <2>2. r % RetryMod = r
    BY <2>1, ModSmall
  <2>3. QED BY <2>2 DEF StoredRetry, Counts
<1>4. /\ caller'[t].at = "filling" /\ caller'[t].ses = s /\ caller'[t].retry \in Counts
      /\ \A u \in Callers : u # t => caller'[u] = caller[u] /\ caller[u].at # "filling"
  BY <1>1, <1>2, <1>3, Holder DEF LInv, TypeOK
<1>5. Pending' \subseteq Pending
  <2>1. Pending = used
    BY <1>2, Holder DEF LInv
  <2>2. QED BY <1>1, <1>4, <2>1 DEF Pending
<1>6. QED BY <1>2, <1>4, <1>5, CountStays DEF wire

LEMMA BusyCounts ==
  ASSUME LInv, Counted, NEW t \in Callers, NEW m \in Modes, SendBusy(t, m), setup' = setup
  PROVE  Counted'
<1>1. /\ fate' = [fate EXCEPT ![issued + 1] = "refused"]
      /\ UNCHANGED <<used, retry, sent, owner, wire, caller, reader, poller>>
  BY DEF SendBusy, session
<1>2. Pending' = Pending
  BY <1>1 DEF Pending
<1>3. \A c \in Commands : fate'[c] \in {"unsent", "dropped"} => fate'[c] = fate[c]
  BY <1>1 DEF LInv, TypeOK
<1>4. \A u \in Callers : caller'[u].at = "filling" => caller'[u].retry \in Counts
  BY <1>1 DEF Counted
<1>5. QED BY <1>1, <1>2, <1>3, <1>4, CountStays DEF wire

LEMMA NoAckCounts ==
  ASSUME LInv, RetriesFit, Counted, NEW t \in Callers, SendNoAck(t), setup' = setup
  PROVE  Counted'
<1> DEFINE c == issued + 1
<1>1. /\ \/ fate' = [fate EXCEPT ![c] = "refused"] /\ tx' = tx
         \/ fate' = [fate EXCEPT ![c] = "done"] /\ tx' = [tx EXCEPT ![c] = Transmitted(c)]
      /\ mutex = Free /\ issued < MaxCmds
      /\ UNCHANGED <<used, retry, sent, owner, acks, caller, reader, poller>>
  BY DEF SendNoAck, session
<1>2. c \in Commands /\ fate[c] = "unsent"
  BY <1>1, LinkAssumption DEF LInv, TypeOK, Unsent, Commands
<1>3. tx[c] = 0 /\ Transmitted(c) = 1
  BY <1>2, LinkAssumption DEF Counted, Transmitted, RetriesFit
<1>4. /\ \A d \in Commands : d # c => tx'[d] = tx[d] /\ fate'[d] = fate[d]
      /\ tx'[c] \in {0, 1} /\ fate'[c] \in {"refused", "done"}
  BY <1>1, <1>2, <1>3 DEF LInv, TypeOK
<1>5. Pending' = Pending
  BY <1>1 DEF Pending
<1>6. InSession'
  <2>1. ASSUME NEW s \in Pending PROVE owner[s] \in Commands /\ owner[s] # c
    BY <1>2 DEF LInv, Awaited, Sessioned, OwnFrame, TypeOK, Pending
  <2>2. QED BY <1>1, <1>4, <1>5, <2>1 DEF Counted, InSession
<1>7. SentAsAsked'
  <2>1. ASSUME NEW d \in Commands
        PROVE  /\ \E r \in Retries \cup {1} : tx'[d] <= r
               /\ fate'[d] = "dropped" => tx'[d] \in Retries \cup {1}
    <3>1. CASE d = c
      BY <1>4, <3>1
    <3>2. CASE d # c
      BY <1>4, <3>2 DEF Counted, SentAsAsked
    <3>3. QED BY <3>1, <3>2
  <2>2. QED BY <2>1 DEF SentAsAsked
<1>8. (\A d \in Commands : fate'[d] = "unsent" => tx'[d] = 0)
      /\ \A u \in Callers : caller'[u].at = "filling" => caller'[u].retry \in Counts
  BY <1>1, <1>4 DEF Counted
<1>9. QED BY <1>6, <1>7, <1>8 DEF Counted

LEMMA FinishCounts ==
  ASSUME LInv, RetriesFit, Counted, NEW t \in Callers, SendFinish(t), setup' = setup
  PROVE  Counted'
<1> DEFINE s == caller[t].ses
           c == caller[t].cmd
<1>1. /\ caller[t].at = "filling" /\ s \in used /\ s \in Sessions /\ c \in 1 .. issued
      /\ fate[c] = "unsent" /\ issued \in 0 .. MaxCmds
      /\ Pending = used \ {s} /\ \A u \in Callers : caller[u].at = "filling" => u = t
      /\ caller[t].retry \in Counts
  BY Holder DEF SendFinish, LInv, Filling, TypeOK, Counted
<1>2. c \in Commands /\ tx[c] = 0
  BY <1>1, LinkAssumption DEF Commands, Counted
<1>3. /\ owner' = [owner EXCEPT ![s] = c] /\ sent' = [sent EXCEPT ![s] = 1]
      /\ retry' = [retry EXCEPT ![s] = caller[t].retry] /\ SendData(c)
      /\ fate' = [fate EXCEPT ![c] = "waiting"]
      /\ caller' = [caller EXCEPT ![t].at = "idle"]
      /\ UNCHANGED <<used, reader, poller>>
  BY DEF SendFinish
<1>4. caller[t].retry \in Nat /\ caller[t].retry >= 1 /\ tx[c] < MaxTx
  BY <1>1, <1>2, CountRange, LinkAssumption DEF RetriesFit
<1>5. tx' = [tx EXCEPT ![c] = @ + 1]
  BY <1>2, <1>3, <1>4, SendCounts
<1>6. /\ tx'[c] = 1 /\ fate'[c] = "waiting"
      /\ \A d \in Commands : d # c => tx'[d] = tx[d] /\ fate'[d] = fate[d]
  BY <1>2, <1>3, <1>5 DEF LInv, TypeOK
<1>7. \A u \in Callers : caller'[u].at # "filling"
  BY <1>1, <1>3 DEF LInv, TypeOK
<1>8. Pending' = used
  BY <1>3, <1>7 DEF Pending
<1>9. InSession'
  <2>1. ASSUME NEW r \in used
        PROVE  /\ retry'[r] \in Counts /\ sent'[r] \in 1 .. retry'[r] /\ tx'[owner'[r]] = sent'[r]
    <3>1. CASE r = s
      BY <1>1, <1>3, <1>4, <1>6, <3>1 DEF LInv, TypeOK
    <3>2. CASE r # s
      <4>1. r \in Pending /\ r \in Sessions /\ owner[r] \in Commands /\ owner[r] # c
        BY <1>1, <3>2 DEF LInv, Awaited, Sessioned, OwnFrame, TypeOK
      <4>2. retry'[r] = retry[r] /\ sent'[r] = sent[r] /\ owner'[r] = owner[r]
        BY <1>3, <3>2, <4>1 DEF LInv, TypeOK
      <4>3. QED BY <1>6, <4>1, <4>2 DEF Counted, InSession
    <3>3. QED BY <3>1, <3>2
  <2>2. QED BY <1>8, <2>1 DEF InSession
<1>10. SentAsAsked'
  <2>1. ASSUME NEW d \in Commands
        PROVE  /\ \E r \in Retries \cup {1} : tx'[d] <= r
               /\ fate'[d] = "dropped" => tx'[d] \in Retries \cup {1}
    <3>1. CASE d = c
      BY <1>6, <3>1
    <3>2. CASE d # c
      BY <1>6, <3>2 DEF Counted, SentAsAsked
    <3>3. QED BY <3>1, <3>2
  <2>2. QED BY <2>1 DEF SentAsAsked
<1>11. \A d \in Commands : fate'[d] = "unsent" => tx'[d] = 0
  BY <1>6 DEF Counted
<1>12. QED BY <1>7, <1>9, <1>10, <1>11 DEF Counted

LEMMA RefusedCounts ==
  ASSUME LInv, Counted, NEW t \in Callers, SendNoMemory(t) \/ SendNoKey(t), setup' = setup
  PROVE  Counted'
<1> DEFINE s == caller[t].ses
<1>1. /\ caller[t].at = "filling" /\ Pending = used \ {s}
      /\ \A u \in Callers : caller[u].at = "filling" => u = t
  BY Holder DEF SendNoMemory, SendNoKey, LInv
<1>2. /\ used' = used \ {s} /\ fate' = [fate EXCEPT ![caller[t].cmd] = "refused"]
      /\ caller' = [caller EXCEPT ![t].at = "idle"]
      /\ UNCHANGED <<retry, sent, owner, wire>>
  BY DEF SendNoMemory, SendNoKey
<1>3. Pending' \subseteq Pending
  BY <1>1, <1>2 DEF Pending
<1>4. \A c \in Commands : fate'[c] \in {"unsent", "dropped"} => fate'[c] = fate[c]
  BY <1>2 DEF LInv, TypeOK
<1>5. \A u \in Callers : caller'[u].at # "filling"
  BY <1>1, <1>2 DEF LInv, TypeOK
<1>6. QED BY <1>2, <1>3, <1>4, <1>5, CountStays DEF wire

LEMMA NextCounts ==
  ASSUME LInv, RetriesFit, DueInUse, Counted, [Next]_<<setup, vars>>
  PROVE  Counted'
<1>1. CASE UNCHANGED <<setup, vars>>
  <2>1. Pending' = Pending
    BY <1>1 DEF Pending, vars, session
  <2>2. QED BY <1>1, <2>1, CountStays DEF Counted, vars, session, wire
<1>2. CASE Next
  <2> setup' = setup
    BY <1>2 DEF Next
  <2>1. ASSUME NEW t \in Callers, Call(t) PROVE Counted'
    BY <2>1, BeginCounts, BusyCounts, NoAckCounts DEF Call
  <2>2. ASSUME NEW t \in Callers, CallerStep(t) PROVE Counted'
    BY <2>2, RefusedCounts, FinishCounts DEF CallerStep
  <2>3. ASSUME PollStep PROVE Counted'
    BY <2>3, QuietCounts, GiveUpCounts, ResendCounts DEF PollStep
  <2>4. QED BY <1>2, <2>1, <2>2, <2>3, ReadCounts, QuietCounts DEF Next, Step
<1>3. QED BY <1>1, <1>2

\* In a behaviour in which nobody frees a session between sendPoll's look and its act,
\* sendPoll keeps to the retry parameter of sendInterface: no command is written to the
\* port more often, and one it gives up exactly as often, whatever ACKs come and
\* whichever sends fail.
THEOREM TransmitsAsAsked ==
  ASSUME RetriesFit
  PROVE  Spec /\ [][DueIsKept]_<<setup, vars>> => []SentAsAsked
<1>1. Init => Counted
  <2>1. ASSUME Init PROVE InSession
    BY <2>1 DEF Init, InSession, Pending
  <2>2. ASSUME Init PROVE SentAsAsked
    <3>1. \A c \in Commands : tx[c] = 0 /\ fate[c] = "unsent"
      BY <2>2 DEF Init
    <3>2. 1 \in Retries \cup {1} /\ 0 <= 1
      OBVIOUS
    <3>3. QED BY <3>1, <3>2 DEF SentAsAsked
  <2>3. QED BY <2>1, <2>2 DEF Init, Counted
<1>2. Init => DueInUse
  BY DEF Init, DueInUse
<1>3. LInv /\ DueInUse /\ [Next]_<<setup, vars>> /\ [DueIsKept]_<<setup, vars>> => DueInUse'
  <2>1. ASSUME UNCHANGED <<setup, vars>> PROVE DueIsKept
    BY <2>1 DEF DueIsKept, vars, session
  <2>2. QED BY <2>1, DueStays
<1>4. LInv /\ DueInUse /\ Counted /\ [Next]_<<setup, vars>> => Counted'
  BY NextCounts
<1>5. Counted => SentAsAsked
  BY DEF Counted
<1>6. QED BY <1>1, <1>2, <1>3, <1>4, <1>5, Invariant, PTL DEF Spec
=============================================================================
