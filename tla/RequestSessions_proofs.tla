----------------------- MODULE RequestSessions_proofs -----------------------
(* However requests, repetitions, refused allocations and failed encryptions  *)
(* interleave, with any number of sessions, entries and requests: an ACK that *)
(* is kept is the one of the request handled last, and the blocks of commands *)
(* are never freed by allocACK, in spite of the pointers it leaves dangling.  *)
EXTENDS MobileCommands, TLAPS, SequenceTheorems

-----------------------------------------------------------------------------
(* The inductive invariant *)

Types == /\ setup \in Setups
         /\ reqs \in Seq(setup.asks) /\ line \in Seq(1 .. Len(reqs))
         /\ asked \in [Sessions -> 0 .. Len(reqs)]
         /\ status \in [Sessions -> {"idle", "process", "using"}]
         /\ handled \in [Sessions -> Nat]
         /\ mmu \in [Sessions -> Entries \cup {Nothing}]
         /\ taken \subseteq Entries /\ cmds \subseteq Entries
         /\ block \in [Entries -> [ses : Sessions \cup {Nothing}, ack : Nat]]
         /\ reader \in [at : {"reading", "recvReqData", "acked"}, req : Nat]
         /\ reader.at # "reading" => reader.req \in 1 .. Len(reqs)
         /\ app \in [at : {"idle", "acked"}, req : Nat]
         /\ app.at # "idle" => app.req \in 1 .. Len(reqs)
         /\ inbox \subseteq 1 .. Len(reqs)

\* The pointer of a session does not dangle.
Clean(s) == mmu[s] # Nothing => mmu[s] \in taken /\ block[mmu[s]].ses = s

\* The session keeps the ACK of the request it handled last.
Replied(s) == mmu[s] \in taken /\ block[mmu[s]] = [ses |-> s, ack |-> handled[s]]

\* Who has the request of a session: the read thread before and after its ACK, the
\* application thread before and after its ACK.
Reading(s)  == reader.at = "recvReqData" /\ reqs[reader.req].ses = s
Marking(s)  == reader.at = "acked" /\ reqs[reader.req].ses = s
Waiting(s)  == \E r \in inbox : reqs[r].ses = s
Finishing(s) == app.at = "acked" /\ reqs[app.req].ses = s

\* A pointer may dangle only where nobody will free through it: in a session in which
\* nobody has the request and which drops all others.
Pointer(s) ==
  /\ status[s] = "using" => Replied(s)
  /\ status[s] = "idle" => Marking(s) \/ mmu[s] = Nothing
  /\ Reading(s) => Clean(s)
  /\ Marking(s) => Replied(s)
  /\ s \in Guarded /\ Waiting(s) => Clean(s)
  /\ s \in Guarded /\ Finishing(s) => Replied(s)

\* At most one thread has the request of a guarded session, and it is the last one
\* handled.
OneHolder(s) ==
  /\ Reading(s) \/ Marking(s) => reader.req = handled[s] /\ status[s] # "using"
  /\ s \in Guarded =>
       /\ Reading(s) \/ Marking(s) \/ Waiting(s) \/ Finishing(s) => status[s] = "process"
       /\ \A r \in inbox : reqs[r].ses = s => r = handled[s]
       /\ ~(Reading(s) \/ Marking(s)) \/ ~(Waiting(s) \/ Finishing(s))
       /\ ~(Waiting(s) /\ Finishing(s))

\* In session 0 nothing is kept, and applications acknowledge in guarded sessions.
Unkept == /\ 0 \in Sessions => status[0] = "idle" /\ mmu[0] = Nothing
          /\ ~Marking(0)
          /\ app.at = "acked" => reqs[app.req].ses \in Guarded

IInv == /\ Types /\ CommandsKeepBlocks /\ Unkept
        /\ \A s \in Sessions : Pointer(s) /\ OneHolder(s)

-----------------------------------------------------------------------------
(* The pool: what allocACK does for one session leaves the others alone *)

\* The session of a request exists, and only where the key is set are requests of
\* session 1 encrypted.
LEMMA Asked ==
  ASSUME Types, NEW r \in 1 .. Len(reqs)
  PROVE  /\ reqs[r].ses \in Sessions /\ reqs[r].enc \in BOOLEAN
         /\ reqs[r].ses = 1 /\ reqs[r].enc => setup.key
<1>1. reqs[r] \in setup.asks
  BY DEF Types
<1>2. QED BY <1>1, RequestAssumption DEF Types

\* A session that frees its block, or nothing, touches no command's block and no block
\* of another session.
LEMMA FreesOwn ==
  ASSUME IInv, NEW s \in Sessions, s # 0, Clean(s)
  PROVE  /\ cmds \subseteq Kept(s)
         /\ \A t \in Sessions \ {s} : mmu[t] \in taken /\ block[mmu[t]].ses = t => mmu[t] \in Kept(s)
         /\ Kept(s) \subseteq Entries
  BY RequestAssumption DEF IInv, Types, CommandsKeepBlocks, Clean, Kept, Nothing

\* An ACK of session s leaves the commands and the other sessions alone.
OthersKept(s) ==
  /\ CommandsKeepBlocks' /\ taken' \subseteq Entries
  /\ mmu' \in [Sessions -> Entries \cup {Nothing}]
  /\ block' \in [Entries -> [ses : Sessions \cup {Nothing}, ack : Nat]]
  /\ UNCHANGED <<status, cmds, handled>>
  /\ \A t \in Sessions \ {s} : /\ mmu'[t] = mmu[t]
                               /\ Clean(t) => Clean(t)'
                               /\ Replied(t) => Replied(t)'

LEMMA RefusedKeeps ==
  ASSUME IInv, NEW s \in Sessions, s # 0, Clean(s), AckRefused(s)
  PROVE  OthersKept(s) /\ UNCHANGED mmu
<1>1. /\ taken' = Kept(s) /\ UNCHANGED <<status, mmu, block, cmds, handled>>
  BY DEF AckRefused
<1>2. CommandsKeepBlocks'
  BY <1>1, FreesOwn DEF CommandsKeepBlocks, IInv
<1>3. ASSUME NEW t \in Sessions \ {s} PROVE (Clean(t) => Clean(t)') /\ (Replied(t) => Replied(t)')
  BY <1>1, FreesOwn DEF Clean, Replied
<1>4. QED BY <1>1, <1>2, <1>3, FreesOwn DEF OthersKept, IInv, Types

\* If the ACK is stored, the session then has a block of its own.
LEMMA StoredKeeps ==
  ASSUME IInv, NEW s \in Sessions, s # 0, Clean(s), NEW e \in Entries, NEW a \in Nat,
         AckBlock(s, e), block' = [block EXCEPT ![e] = [ses |-> s, ack |-> a]]
  PROVE  OthersKept(s) /\ (a = handled[s] => Replied(s)')
<1>1. /\ e \notin Kept(s) /\ taken' = Kept(s) \cup {e} /\ mmu' = [mmu EXCEPT ![s] = e]
      /\ UNCHANGED <<status, handled, cmds>>
  BY DEF AckBlock, FirstFree
<1>2. mmu \in [Sessions -> Entries \cup {Nothing}]
      /\ block \in [Entries -> [ses : Sessions \cup {Nothing}, ack : Nat]]
  BY DEF IInv, Types
<1>3. CommandsKeepBlocks'
  BY <1>1, <1>2, FreesOwn DEF CommandsKeepBlocks, IInv, Types
<1>4. ASSUME NEW t \in Sessions \ {s} PROVE /\ (Clean(t) => Clean(t)') /\ (Replied(t) => Replied(t)')
                                         /\ mmu'[t] = mmu[t]
  <2>1. mmu'[t] = mmu[t]
    BY <1>1, <1>2
  <2>2. mmu[t] \in taken /\ block[mmu[t]].ses = t => mmu[t] \in taken' /\ block'[mmu[t]] = block[mmu[t]]
    BY <1>1, <1>2, FreesOwn
  <2>3. QED BY <1>1, <2>1, <2>2 DEF Clean, Replied
<1>5. mmu'[s] = e /\ e \in taken' /\ block'[e] = [ses |-> s, ack |-> a]
  BY <1>1, <1>2
<1>6. a = handled[s] => Replied(s)'
  BY <1>1, <1>5 DEF Replied
<1>7. mmu' \in [Sessions -> Entries \cup {Nothing}]
      /\ block' \in [Entries -> [ses : Sessions \cup {Nothing}, ack : Nat]]
  BY <1>1, <1>2
<1>8. QED BY <1>1, <1>3, <1>4, <1>6, <1>7, FreesOwn DEF OthersKept

-----------------------------------------------------------------------------
(* One lemma per kind of step *)

\* A session in which nothing is begun, and whose pointer is left alone, stays right.
LEMMA Bystander ==
  ASSUME IInv, NEW t \in Sessions,
         Reading(t)' => Reading(t), Marking(t)' <=> Marking(t), Finishing(t)' => Finishing(t),
         \A r \in inbox' : reqs'[r].ses = t => r \in inbox /\ reqs[r].ses = t,
         Reading(t)' \/ Marking(t)' => reader'.req = reader.req,
         status'[t] = status[t], handled'[t] = handled[t], mmu'[t] = mmu[t],
         Clean(t) => Clean(t)', Replied(t) => Replied(t)'
  PROVE  Pointer(t)' /\ OneHolder(t)'
<1>1. Pointer(t) /\ OneHolder(t)
  BY DEF IInv
<1>2. Waiting(t)' => Waiting(t)
  BY DEF Waiting
<1>3. Pointer(t)'
  BY <1>1, <1>2 DEF Pointer, Nothing
<1>4. OneHolder(t)'
  BY <1>1, <1>2 DEF OneHolder
<1>5. QED BY <1>3, <1>4

\* The flight controller asks, repeats and gives up, and the line loses frames.
LEMMA AskSafe ==
  ASSUME IInv, NEW a \in setup.asks, Ask(a)
  PROVE  IInv'
<1>1. /\ reqs' = Append(reqs, a) /\ UNCHANGED <<setup, session, pool, threads>>
      /\ \/ line' = Append(line, Len(reqs'))
         \/ UNCHANGED line
  BY DEF Ask, OnLine
<1>2. /\ reqs \in Seq(setup.asks) /\ line \in Seq(1 .. Len(reqs)) /\ inbox \subseteq 1 .. Len(reqs)
      /\ reader.at # "reading" => reader.req \in 1 .. Len(reqs)
      /\ app.at # "idle" => app.req \in 1 .. Len(reqs)
      /\ app.at \in {"idle", "acked"}
  BY DEF IInv, Types
<1>3. /\ Len(reqs) \in Nat /\ Len(reqs') = Len(reqs) + 1 /\ reqs' \in Seq(setup.asks)
      /\ \A i \in 1 .. Len(reqs) : reqs'[i] = reqs[i]
  BY <1>1, <1>2
<1>4. line' \in Seq(1 .. Len(reqs'))
  <2>1. line \in Seq(1 .. Len(reqs'))
    BY <1>2, <1>3
  <2>2. Len(reqs') \in 1 .. Len(reqs')
    BY <1>3
  <2>3. QED BY <1>1, <2>1, <2>2
<1>5. Types'
  <2>1. 1 .. Len(reqs) \subseteq 1 .. Len(reqs')
    BY <1>3
  <2>2. asked' \in [Sessions -> 0 .. Len(reqs')]
    <3>1. asked \in [Sessions -> 0 .. Len(reqs)]
      BY DEF IInv, Types
    <3>2. asked' = asked \/ asked' = [asked EXCEPT ![a.ses] = Len(reqs')]
      BY DEF Ask
    <3>3. QED BY <1>3, <3>1, <3>2
  <2>3. QED BY <2>2, <1>1, <1>2, <1>3, <1>4, <2>1 DEF IInv, Types, session, pool, threads
<1>6. CommandsKeepBlocks'
  BY <1>1 DEF IInv, CommandsKeepBlocks, pool
<1>7. \A t \in Nat : /\ Reading(t)' <=> Reading(t)
                     /\ Marking(t)' <=> Marking(t)
                     /\ Finishing(t)' <=> Finishing(t)
  BY <1>1, <1>2, <1>3 DEF Reading, Marking, Finishing, threads
<1>8. Unkept'
  BY <1>1, <1>2, <1>3, <1>7 DEF IInv, Unkept, session, threads
<1>9. ASSUME NEW t \in Sessions PROVE Pointer(t)' /\ OneHolder(t)'
  <2>1. t \in Nat
    BY RequestAssumption
  <2>2. \A r \in inbox' : reqs'[r].ses = t => r \in inbox /\ reqs[r].ses = t
    BY <1>1, <1>2, <1>3 DEF threads
  <2>3. /\ status'[t] = status[t] /\ handled'[t] = handled[t] /\ mmu'[t] = mmu[t]
        /\ reader' = reader
        /\ Clean(t)' <=> Clean(t)
        /\ Replied(t)' <=> Replied(t)
    BY <1>1 DEF session, pool, threads, Clean, Replied
  <2>4. QED BY <1>7, <2>1, <2>2, <2>3, Bystander
<1>10. QED BY <1>5, <1>6, <1>8, <1>9 DEF IInv

\* What IInv is about does not change in these steps.
LEMMA SameSafe ==
  ASSUME IInv, UNCHANGED <<setup, reqs, session, pool, threads>>,
         line' \in Seq(1 .. Len(reqs)), asked' \in [Sessions -> 0 .. Len(reqs)]
  PROVE  IInv'
<1>1. Types'
  BY DEF IInv, Types, session, pool, threads
<1>2. CommandsKeepBlocks' /\ Unkept'
  BY DEF IInv, CommandsKeepBlocks, Unkept, Marking, session, pool, threads
<1>3. ASSUME NEW t \in Sessions PROVE Pointer(t)' /\ OneHolder(t)'
  BY <1>3 DEF IInv, Pointer, OneHolder, Reading, Marking, Waiting, Finishing, Clean, Replied,
              session, pool, threads
<1>4. QED BY <1>1, <1>2, <1>3 DEF IInv

LEMMA LineSafe ==
  ASSUME IInv, NEW s \in Sessions, NEW r,
         \/ Repeat(s)
         \/ GiveUp(s)
         \/ Arrives(s, r) /\ UNCHANGED <<setup, reqs, session, pool, threads>>
            /\ (UNCHANGED asked \/ SendAck(s, r))
  PROVE  IInv'
<1>1. line \in Seq(1 .. Len(reqs)) /\ asked \in [Sessions -> 0 .. Len(reqs)] /\ Len(reqs) \in Nat
  BY DEF IInv, Types
<1>2. CASE Repeat(s)
  <2>1. asked[s] \in 1 .. Len(reqs)
    BY <1>1, <1>2 DEF Repeat, Nothing
  <2>2. line' = Append(line, asked[s]) \/ line' = line
    BY <1>2 DEF Repeat, OnLine
  <2>3. line' \in Seq(1 .. Len(reqs))
    BY <1>1, <2>1, <2>2
  <2>4. QED BY <1>1, <1>2, <2>3, SameSafe DEF Repeat
<1>3. CASE GiveUp(s)
  BY <1>1, <1>3, SameSafe DEF GiveUp, Nothing
<1>4. CASE /\ Arrives(s, r) /\ UNCHANGED <<setup, reqs, session, pool, threads>>
           /\ UNCHANGED asked \/ SendAck(s, r)
  <2>1. line # <<>> /\ line' = Tail(line)
    BY <1>4 DEF Arrives
  <2>2. line' \in Seq(1 .. Len(reqs))
    BY <1>1, <2>1
  <2>3. asked' \in [Sessions -> 0 .. Len(reqs)]
    BY <1>1, <1>4 DEF SendAck, Nothing
  <2>4. QED BY <1>4, <2>2, <2>3, SameSafe
<1>5. QED BY <1>2, <1>3, <1>4

LEMMA CommandSafe ==
  ASSUME IInv, CommandAllocates \/ CommandFrees
  PROVE  IInv'
<1>1. UNCHANGED <<setup, fc, session, threads>>
  BY DEF CommandAllocates, CommandFrees
<1>2. CommandsKeepBlocks /\ Types
  BY DEF IInv
<1>3. PICK e \in Entries :
        \/ /\ e \notin taken /\ taken' = taken \cup {e} /\ cmds' = cmds \cup {e}
           /\ block' = [block EXCEPT ![e] = [ses |-> Nothing, ack |-> Nothing]]
        \/ e \in cmds /\ taken' = taken \ {e} /\ cmds' = cmds \ {e} /\ block' = block
  BY <1>2 DEF CommandAllocates, CommandFrees, FirstFree, Types
<1>4. Types'
  <2>1. /\ block \in [Entries -> [ses : Sessions \cup {Nothing}, ack : Nat]]
        /\ taken \subseteq Entries /\ cmds \subseteq Entries
    BY <1>2 DEF Types
  <2>2. block' \in [Entries -> [ses : Sessions \cup {Nothing}, ack : Nat]]
    BY <1>3, <2>1 DEF Nothing
  <2>3. taken' \subseteq Entries /\ cmds' \subseteq Entries
    BY <1>3, <2>1
  <2>4. QED BY <1>1, <1>2, <2>2, <2>3 DEF Types, fc, session, threads
<1>5. CommandsKeepBlocks'
  BY <1>2, <1>3 DEF CommandsKeepBlocks, Types
<1>6. Unkept'
  BY <1>1 DEF IInv, Unkept, Marking, fc, session, threads
<1>7. ASSUME NEW t \in Sessions PROVE Pointer(t)' /\ OneHolder(t)'
  <2>1. CASE t = 0
    <3>1. /\ mmu'[t] = mmu[t] /\ handled'[t] = handled[t] /\ status'[t] = status[t]
          /\ status[t] = "idle" /\ mmu[t] = Nothing /\ ~Marking(t) /\ t \notin Guarded
          /\ Reading(t)' <=> Reading(t)
          /\ Marking(t)' <=> Marking(t)
          /\ reader'.req = reader.req
      BY <1>1, <2>1 DEF IInv, Unkept, Guarded, fc, session, threads, Reading, Marking
    <3>2. OneHolder(t)
      BY DEF IInv
    <3>3. QED BY <3>1, <3>2 DEF Pointer, OneHolder, Clean
  <2>2. CASE t # 0
    <3>1. /\ status'[t] = status[t] /\ handled'[t] = handled[t] /\ mmu'[t] = mmu[t]
          /\ reader' = reader /\ inbox' = inbox /\ reqs' = reqs
          /\ Reading(t)' <=> Reading(t)
          /\ Marking(t)' <=> Marking(t)
          /\ Finishing(t)' <=> Finishing(t)
      BY <1>1 DEF fc, session, threads, Reading, Marking, Finishing
    <3>2. mmu[t] \in taken /\ block[mmu[t]].ses = t => mmu[t] \in taken' /\ block'[mmu[t]] = block[mmu[t]]
      BY <1>2, <1>3, <2>2 DEF CommandsKeepBlocks, Types, Nothing
    <3>3. /\ Clean(t) => Clean(t)'
          /\ Replied(t) => Replied(t)'
      BY <3>1, <3>2 DEF Clean, Replied
    <3>4. QED BY <3>1, <3>3, Bystander
  <2>3. QED BY <2>1, <2>2
<1>8. QED BY <1>4, <1>5, <1>6, <1>7 DEF IInv

\* The read thread takes a request on, in a session nobody is busy with.
LEMMA TakeSafe ==
  ASSUME IInv, NEW s \in Sessions, NEW r \in Requests, Arrives(s, r), HandOn(s, r),
         UNCHANGED <<setup, reqs, asked, mmu, pool, app, inbox>>,
         \/ /\ s = 0 \/ status[s] = "idle"
            /\ status' = IF s > 1 THEN [status EXCEPT ![s] = "process"] ELSE status
         \/ /\ s # 0 /\ status[s] = "using"
            /\ status' = [status EXCEPT ![s] = "process"]
  PROVE  IInv'
<1>1. /\ Types /\ Unkept /\ Pointer(s) /\ OneHolder(s) /\ s \in Nat
      /\ r \in 1 .. Len(reqs) /\ line' \in Seq(1 .. Len(reqs)) /\ r \in Nat
  <2>1. line \in Seq(1 .. Len(reqs)) /\ line # <<>> /\ r = Head(line) /\ line' = Tail(line)
    BY DEF IInv, Types, Arrives
  <2>2. r \in 1 .. Len(reqs) /\ line' \in Seq(1 .. Len(reqs)) /\ r \in Nat
    BY <2>1
  <2>3. s \in Nat
    BY RequestAssumption
  <2>4. QED BY <2>2, <2>3 DEF IInv
<1>2. /\ reqs[r].ses = s /\ reader.at = "reading" /\ reader' = [at |-> "recvReqData", req |-> r]
      /\ handled' = [handled EXCEPT ![s] = r]
  BY DEF Arrives, HandOn
<1>3. Types'
  BY <1>1, <1>2 DEF Types, pool
<1>4. CommandsKeepBlocks'
  BY DEF IInv, CommandsKeepBlocks, pool
<1>5. Unkept'
  BY <1>1, <1>2 DEF Unkept, Marking, Types
<1>6. ASSUME NEW t \in Sessions, t # s PROVE Pointer(t)' /\ OneHolder(t)'
  <2>1. /\ ~Reading(t)' /\ ~Marking(t)' /\ ~Marking(t)
        /\ Finishing(t)' <=> Finishing(t)
        /\ status'[t] = status[t] /\ handled'[t] = handled[t] /\ mmu'[t] = mmu[t]
    BY <1>1, <1>2, <1>6 DEF Reading, Marking, Finishing, Types
  <2>2. /\ Clean(t)' <=> Clean(t)
        /\ Replied(t)' <=> Replied(t)
    BY <2>1 DEF Clean, Replied, pool
  <2>3. QED BY <2>1, <2>2, Bystander
<1>7. Pointer(s)' /\ OneHolder(s)'
  <2>1. /\ ~Marking(s) /\ handled'[s] = r /\ reader'.req = r
        /\ Finishing(s)' <=> Finishing(s)
        /\ Waiting(s)' <=> Waiting(s)
        /\ Clean(s)' <=> Clean(s)
        /\ ~Marking(s)'
    BY <1>1, <1>2 DEF Marking, Finishing, Waiting, Clean, Types, pool
  <2>2. s \in Guarded => status'[s] = "process" /\ ~Waiting(s) /\ ~Finishing(s)
    BY <1>1, <2>1 DEF OneHolder, Guarded, Types
  <2>3. /\ Clean(s) /\ status'[s] # "using"
        /\ status'[s] = "idle" => mmu[s] = Nothing
    BY <1>1, <2>1 DEF Pointer, Clean, Replied, Unkept, Types
  <2>4. Pointer(s)'
    BY <2>1, <2>2, <2>3 DEF Pointer
  <2>5. OneHolder(s)'
    <3>1. s \in Guarded => \A x \in inbox' : reqs'[x].ses # s
      BY <2>2 DEF Waiting
    <3>2. QED BY <2>1, <2>2, <2>3, <3>1 DEF OneHolder
  <2>6. QED BY <2>4, <2>5
<1>8. QED BY <1>3, <1>4, <1>5, <1>6, <1>7 DEF IInv

\* An event, or data of the mobile device, is left to the application or dropped.
LEMMA HearSafe ==
  ASSUME IInv, reader.at = "recvReqData", reader' = Idle("reading"),
         inbox' \subseteq inbox \cup {reader.req},
         UNCHANGED <<setup, fc, session, pool, app>>
  PROVE  IInv'
<1>1. /\ Types /\ Unkept /\ reader.req \in 1 .. Len(reqs)
      /\ reader' = [at |-> "reading", req |-> 0]
  BY DEF IInv, Types, Idle, Nothing
<1>2. Types'
  BY <1>1 DEF Types, fc, session, pool
<1>3. CommandsKeepBlocks' /\ Unkept'
  BY <1>1 DEF IInv, CommandsKeepBlocks, Unkept, Marking, fc, session, pool
<1>4. ASSUME NEW t \in Sessions PROVE Pointer(t)' /\ OneHolder(t)'
  <2>1. /\ ~Reading(t)' /\ ~Marking(t)' /\ ~Marking(t)
        /\ Finishing(t)' <=> Finishing(t)
        /\ Clean(t)' <=> Clean(t)
        /\ Replied(t)' <=> Replied(t)
        /\ status'[t] = status[t] /\ handled'[t] = handled[t] /\ mmu'[t] = mmu[t] /\ reqs' = reqs
    BY <1>1 DEF Reading, Marking, Finishing, Clean, Replied, fc, session, pool
  <2>2. CASE reqs[reader.req].ses # t
    BY <2>1, <2>2, Bystander
  <2>3. CASE reqs[reader.req].ses = t
    <3>1. Reading(t) /\ Pointer(t) /\ OneHolder(t)
      BY <2>3 DEF Reading, IInv
    <3>2. Pointer(t)'
      BY <2>1, <3>1 DEF Pointer, Nothing
    <3>3. Waiting(t)' => status[t] = "process" \/ t \notin Guarded
      BY <3>1 DEF OneHolder
    <3>4. OneHolder(t)'
      BY <2>1, <3>1, <3>3 DEF OneHolder, Waiting
    <3>5. QED BY <3>2, <3>4
  <2>4. QED BY <2>2, <2>3
<1>5. QED BY <1>2, <1>3, <1>4 DEF IInv

\* The read thread acknowledges the loss of control.  The ACK may be refused, or be
\* stored and not sent; in both cases nobody has the request any more.
LEMMA ReaderAckSafe ==
  ASSUME IInv, NEW s \in Sessions, s # 0, reader.at = "recvReqData", reqs[reader.req].ses = s,
         UNCHANGED <<setup, reqs, line, app, inbox>>, asked' \in [Sessions -> 0 .. Len(reqs)],
         \/ AckRefused(s) /\ reader' = Idle("reading")
         \/ \E e \in Entries :
              /\ AckBlock(s, e)
              /\ \/ /\ block' = [block EXCEPT ![e] = [ses |-> s, ack |-> Nothing]]
                    /\ s # 1 /\ reader' = Idle("reading")
                 \/ /\ block' = [block EXCEPT ![e] = [ses |-> s, ack |-> reader.req]]
                    /\ reader' = [reader EXCEPT !.at = "acked"]
  PROVE  IInv'
<1>1. Types /\ Unkept /\ Pointer(s) /\ OneHolder(s) /\ Reading(s)
  BY DEF IInv, Reading
<1>2. /\ Clean(s) /\ reader.req = handled[s] /\ handled[s] \in Nat
      /\ s \in Guarded => status[s] = "process" /\ ~Waiting(s) /\ ~Finishing(s)
      /\ status[s] # "using" /\ (status[s] = "idle" => s = 1 /\ mmu[s] = Nothing)
  <2>1. Clean(s) /\ reader.req = handled[s] /\ status[s] # "using" /\ handled[s] \in Nat /\ ~Marking(s)
    BY <1>1 DEF Pointer, OneHolder, Types, Reading, Marking
  <2>2. s \in Guarded => status[s] = "process" /\ ~Waiting(s) /\ ~Finishing(s)
    BY <1>1 DEF OneHolder
  <2>3. s \in Guarded \/ s = 1
    BY DEF Guarded
  <2>4. QED BY <1>1, <2>1, <2>2, <2>3 DEF Pointer
<1>3. /\ OthersKept(s)
      /\ \/ reader' = Idle("reading") /\ (s # 1 \/ mmu'[s] = mmu[s])
         \/ reader' = [reader EXCEPT !.at = "acked"] /\ Replied(s)'
  <2>1. CASE AckRefused(s) /\ reader' = Idle("reading")
    BY <1>2, <2>1, RefusedKeeps
  <2>2. ASSUME NEW e \in Entries, AckBlock(s, e), s # 1, reader' = Idle("reading"),
               block' = [block EXCEPT ![e] = [ses |-> s, ack |-> Nothing]]
        PROVE  OthersKept(s)
    BY <1>2, <2>2, StoredKeeps DEF Nothing
  <2>3. ASSUME NEW e \in Entries, AckBlock(s, e),
               block' = [block EXCEPT ![e] = [ses |-> s, ack |-> reader.req]]
        PROVE  OthersKept(s) /\ Replied(s)'
    BY <1>2, <2>3, StoredKeeps
  <2>4. QED BY <2>1, <2>2, <2>3
<1>4. /\ reader'.at # "recvReqData" /\ reader'.at \in {"reading", "acked"}
      /\ reader'.at = "acked" => reader'.req = reader.req /\ Replied(s)'
      /\ reader'.at # "acked" => s # 1 \/ mmu'[s] = mmu[s]
      /\ reader' \in [at : {"reading", "recvReqData", "acked"}, req : Nat]
  BY <1>1, <1>3 DEF Idle, Nothing, Types
<1>5. Types'
  BY <1>1, <1>3, <1>4 DEF Types, OthersKept
<1>6. Unkept'
  BY <1>1, <1>3, <1>4 DEF Unkept, Marking, OthersKept
<1>7. ASSUME NEW t \in Sessions, t # s PROVE Pointer(t)' /\ OneHolder(t)'
  <2>1. /\ ~Reading(t)' /\ ~Marking(t)' /\ ~Marking(t)
        /\ Finishing(t)' <=> Finishing(t)
    BY <1>4, <1>7 DEF Reading, Marking, Finishing
  <2>2. QED BY <1>3, <1>7, <2>1, Bystander DEF OthersKept
<1>8. Pointer(s)' /\ OneHolder(s)'
  <2>1. /\ status'[s] = status[s] /\ handled'[s] = handled[s]
        /\ ~Reading(s)'
        /\ Marking(s)' <=> reader'.at = "acked"
        /\ Waiting(s)' <=> Waiting(s)
        /\ Finishing(s)' <=> Finishing(s)
    BY <1>3, <1>4 DEF OthersKept, Reading, Marking, Waiting, Finishing
  <2>2. Pointer(s)'
    BY <1>2, <1>4, <2>1 DEF Pointer, Nothing
  <2>3. s \in Guarded => \A x \in inbox' : reqs'[x].ses # s
    BY <1>2 DEF Waiting
  <2>4. OneHolder(s)'
    BY <1>2, <1>4, <2>1, <2>3 DEF OneHolder
  <2>5. QED BY <2>2, <2>4
<1>9. QED BY <1>3, <1>5, <1>6, <1>7, <1>8 DEF IInv, OthersKept

\* An application acknowledges a request, and may fail likewise.
LEMMA AppAckSafe ==
  ASSUME IInv, NEW r \in inbox, NEW s \in Guarded, reqs[r].ses = s, AppBegins(r),
         UNCHANGED <<setup, reqs, line, reader>>, asked' \in [Sessions -> 0 .. Len(reqs)],
         \/ UNCHANGED <<session, pool, app>>
         \/ AckRefused(s) /\ app' = app
         \/ \E e \in Entries :
              /\ AckBlock(s, e)
              /\ \/ block' = [block EXCEPT ![e] = [ses |-> s, ack |-> Nothing]] /\ app' = app
                 \/ /\ block' = [block EXCEPT ![e] = [ses |-> s, ack |-> r]]
                    /\ app' = [at |-> "acked", req |-> r]
  PROVE  IInv'
<1>1. /\ s \in Sessions /\ s # 0 /\ Types /\ Unkept /\ Pointer(s) /\ OneHolder(s) /\ Waiting(s)
      /\ app.at = "idle" /\ inbox' = inbox \ {r} /\ r \in 1 .. Len(reqs) /\ r \in Nat
  BY DEF IInv, Waiting, Guarded, AppBegins, Types
<1>2. /\ Clean(s) /\ r = handled[s] /\ status[s] = "process" /\ ~Reading(s) /\ ~Marking(s)
      /\ \A x \in inbox' : reqs[x].ses # s
  BY <1>1 DEF Pointer, OneHolder
<1>3. /\ OthersKept(s)
      /\ \/ app' = app
         \/ app' = [at |-> "acked", req |-> r] /\ Replied(s)'
  <2>1. CASE AckRefused(s) /\ app' = app
    BY <1>1, <1>2, <2>1, RefusedKeeps
  <2>2. ASSUME NEW e \in Entries, AckBlock(s, e),
               block' = [block EXCEPT ![e] = [ses |-> s, ack |-> Nothing]]
        PROVE  OthersKept(s)
    BY <1>1, <1>2, <2>2, StoredKeeps DEF Nothing
  <2>3. ASSUME NEW e \in Entries, AckBlock(s, e),
               block' = [block EXCEPT ![e] = [ses |-> s, ack |-> r]]
        PROVE  OthersKept(s) /\ Replied(s)'
    BY <1>1, <1>2, <2>3, StoredKeeps
  <2>4. CASE UNCHANGED <<session, pool, app>>
    BY <1>1, <2>4 DEF OthersKept, session, pool, CommandsKeepBlocks, Clean, Replied, IInv, Types
  <2>5. QED BY <2>1, <2>2, <2>3, <2>4
<1>4. Types'
  <2>1. app' \in [at : {"idle", "acked"}, req : Nat] /\ (app'.at # "idle" => app'.req = r)
    <3>1. CASE app' = app
      BY <1>1, <3>1 DEF Types
    <3>2. CASE app' = [at |-> "acked", req |-> r]
      BY <1>1, <3>2
    <3>3. QED BY <1>3, <3>1, <3>2
  <2>2. inbox' \subseteq 1 .. Len(reqs)
    BY <1>1 DEF Types
  <2>3. QED BY <1>1, <1>3, <2>1, <2>2 DEF Types, OthersKept
<1>5. Unkept'
  BY <1>1, <1>3 DEF Unkept, Marking, OthersKept, Guarded
<1>6. ASSUME NEW t \in Sessions, t # s PROVE Pointer(t)' /\ OneHolder(t)'
  <2>1. /\ Reading(t)' <=> Reading(t)
        /\ Marking(t)' <=> Marking(t)
        /\ Finishing(t)' => Finishing(t)
    BY <1>3, <1>6 DEF Reading, Marking, Finishing
  <2>2. QED BY <1>1, <1>3, <1>6, <2>1, Bystander DEF OthersKept
<1>7. Pointer(s)' /\ OneHolder(s)'
  <2>1. /\ status'[s] = "process" /\ ~Reading(s)' /\ ~Marking(s)' /\ ~Waiting(s)'
        /\ Finishing(s)' => Replied(s)'
    BY <1>1, <1>2, <1>3 DEF OthersKept, Reading, Marking, Waiting, Finishing
  <2>2. status'[s] # "using" /\ status'[s] # "idle"
    BY <2>1
  <2>3. Pointer(s)'
    BY <2>1, <2>2 DEF Pointer
  <2>4. OneHolder(s)'
    BY <1>2, <2>1 DEF OneHolder
  <2>5. QED BY <2>3, <2>4
<1>8. QED BY <1>3, <1>4, <1>5, <1>6, <1>7 DEF IInv, OthersKept

\* The session is marked after the mutex was given back.
LEMMA MarkSafe ==
  ASSUME IInv, NEW s \in Sessions, MarkUsing(s), UNCHANGED <<setup, fc, pool, inbox>>,
         \/ Marking(s) /\ reader' = Idle("reading") /\ app' = app
         \/ Finishing(s) /\ app' = Idle("idle") /\ reader' = reader
  PROVE  IInv'
<1>1. /\ Types /\ Unkept /\ Pointer(s) /\ OneHolder(s)
      /\ status' = [status EXCEPT ![s] = "using"] /\ mmu' = mmu /\ handled' = handled
  BY DEF IInv, MarkUsing
<1>2. /\ s # 0 /\ Replied(s) /\ ~Reading(s)
      /\ s \in Guarded => ~Waiting(s)
      /\ s \in Guarded => ~Marking(s) \/ ~Finishing(s)
      /\ Finishing(s) => s \in Guarded
  BY <1>1 DEF Unkept, Pointer, OneHolder, Reading, Marking, Finishing, Guarded
<1>3. /\ reader' \in [at : {"reading", "recvReqData", "acked"}, req : Nat]
      /\ app' \in [at : {"idle", "acked"}, req : Nat]
      /\ reader'.at # "reading" => reader'.req \in 1 .. Len(reqs)
      /\ app'.at # "idle" => app'.req \in 1 .. Len(reqs)
  BY <1>1 DEF Types, Idle, Nothing
<1>4. Types'
  <2>1. status' \in [Sessions -> {"idle", "process", "using"}]
    BY <1>1 DEF Types
  <2>2. QED BY <1>1, <1>3, <2>1 DEF Types, fc, pool
<1>5. CommandsKeepBlocks'
  BY DEF IInv, CommandsKeepBlocks, pool
<1>6. ASSUME NEW t \in Sessions, t # s PROVE Pointer(t)' /\ OneHolder(t)'
  <2>1. /\ Reading(t)' <=> Reading(t)
        /\ Marking(t)' <=> Marking(t)
        /\ Finishing(t)' <=> Finishing(t)
        /\ Clean(t)' <=> Clean(t)
        /\ Replied(t)' <=> Replied(t)
        /\ Reading(t)' \/ Marking(t)' => reader' = reader
    BY <1>1, <1>6 DEF Reading, Marking, Finishing, Clean, Replied, fc, pool, Idle
  <2>2. status'[t] = status[t] /\ reqs' = reqs
    BY <1>1, <1>6 DEF Types, fc
  <2>3. QED BY <1>1, <2>1, <2>2, Bystander
<1>7. Unkept'
  <2>1. Marking(0)' => Marking(0)
    BY DEF Marking, Idle, fc
  <2>2. app'.at = "acked" => reqs'[app'.req].ses \in Guarded
    BY <1>1 DEF Unkept, Idle, fc
  <2>3. QED BY <1>1, <1>2, <2>1, <2>2 DEF Unkept, Types
<1>8. Pointer(s)' /\ OneHolder(s)'
  <2>1. /\ status'[s] = "using" /\ Replied(s)' /\ ~Reading(s)'
        /\ Waiting(s)' <=> Waiting(s)
        /\ s = 1 \/ s \in Guarded
        /\ s \in Guarded => ~Marking(s)' /\ ~Finishing(s)'
        /\ s = 1 => ~Marking(s)'
    BY <1>1, <1>2 DEF Types, Replied, Reading, Waiting, Marking, Finishing, Guarded, Idle, fc, pool
  <2>2. Pointer(s)'
    BY <1>2, <2>1 DEF Pointer
  <2>3. OneHolder(s)'
    BY <1>2, <2>1 DEF OneHolder, Waiting
  <2>4. QED BY <2>2, <2>3
<1>9. QED BY <1>4, <1>5, <1>6, <1>7, <1>8 DEF IInv

-----------------------------------------------------------------------------
(* Every step *)

LEMMA SendTyped ==
  ASSUME Types, NEW s \in Sessions, NEW r, SendAck(s, r)
  PROVE  asked' \in [Sessions -> 0 .. Len(reqs)]
<1>1. Len(reqs) \in Nat /\ asked \in [Sessions -> 0 .. Len(reqs)]
  BY DEF Types
<1>2. QED BY <1>1 DEF SendAck, Nothing

LEMMA ReadSafe ==
  ASSUME IInv, ReadStep
  PROVE  IInv'
<1>1. CASE DropWaiting
  BY <1>1, LineSafe DEF DropWaiting
<1>2. CASE TakeIdle
  BY <1>2, TakeSafe DEF TakeIdle
<1>3. CASE RepeatAck
  BY <1>3, LineSafe DEF RepeatAck
<1>4. CASE TakeNext
  BY <1>4, TakeSafe DEF TakeNext
<1>5. CASE HearEvent
  BY <1>5, HearSafe DEF HearEvent, Received
<1> DEFINE s == reqs[reader.req].ses
<1>6. ASSUME reader.at = "recvReqData"
      PROVE  Types /\ s \in Sessions /\ (s = 1 /\ reqs[reader.req].enc => setup.key)
  BY <1>6, Asked DEF IInv, Types
<1>7. CASE LostControlEnds
  <2>1. /\ reader.at = "recvReqData" /\ reader' = Idle("reading")
        /\ UNCHANGED <<setup, reqs, line, app, inbox>>
    BY <1>7 DEF LostControlEnds, Received
  <2>2. CASE s = 0 /\ UNCHANGED <<asked, lost, session, pool>>
    BY <2>1, <2>2, HearSafe DEF fc
  <2>3. CASE s # 0 /\ AckRefused(s)
    BY <1>6, <2>1, <2>3, ReaderAckSafe DEF AckRefused, Types
  <2>4. CASE s # 0 /\ \E e \in Entries : AckBlock(s, e) /\ AckNoKey(s, e, reqs[reader.req].enc)
    <3>1. s # 1 /\ asked' = asked
      BY <1>6, <2>1, <2>4 DEF AckNoKey
    <3>2. PICK e \in Entries : /\ AckBlock(s, e)
                               /\ block' = [block EXCEPT ![e] = [ses |-> s, ack |-> Nothing]]
      BY <2>4 DEF AckNoKey
    <3>3. QED BY <1>6, <2>1, <2>4, <3>1, <3>2, ReaderAckSafe DEF Types
  <2>5. QED BY <1>7, <2>2, <2>3, <2>4 DEF LostControlEnds
<1>8. CASE LostControlAcked
  <2>1. /\ reader.at = "recvReqData" /\ reader' = [reader EXCEPT !.at = "acked"]
        /\ UNCHANGED <<setup, reqs, line, app, inbox>>
        /\ s # 0 /\ \E e \in Entries : AckBlock(s, e) /\ AckSent(s, e, reader.req, reqs[reader.req].enc)
    BY <1>8 DEF LostControlAcked, Received
  <2>2. PICK e \in Entries : /\ AckBlock(s, e) /\ SendAck(s, reader.req)
                             /\ block' = [block EXCEPT ![e] = [ses |-> s, ack |-> reader.req]]
    BY <2>1 DEF AckSent
  <2>3. asked' \in [Sessions -> 0 .. Len(reqs)]
    BY <1>6, <2>1, <2>2, SendTyped
  <2>4. QED BY <1>6, <2>1, <2>2, <2>3, ReaderAckSafe
<1>9. CASE ReaderMarks
  <2>1. reader.at = "acked" /\ s \in Sessions
    BY <1>9, Asked DEF ReaderMarks, IInv, Types
  <2>2. QED BY <1>9, <2>1, MarkSafe DEF ReaderMarks, Marking
<1>10. QED BY <1>1, <1>2, <1>3, <1>4, <1>5, <1>7, <1>8, <1>9 DEF ReadStep

LEMMA AppSafe ==
  ASSUME IInv, AppStep
  PROVE  IInv'
<1>1. CASE AppAckFails
  <2>1. PICK r \in inbox, enc \in BOOLEAN :
          /\ AppBegins(r)
          /\ \/ AckRefused(reqs[r].ses)
             \/ \E e \in Entries : AckBlock(reqs[r].ses, e) /\ AckNoKey(reqs[r].ses, e, enc)
          /\ UNCHANGED <<setup, reqs, line, reader, app>>
    BY <1>1 DEF AppAckFails
  <2>2. asked' = asked /\ reqs[r].ses \in Guarded /\ asked \in [Sessions -> 0 .. Len(reqs)]
    BY <2>1 DEF AckRefused, AckNoKey, AppBegins, IInv, Types
  <2>3. \/ AckRefused(reqs[r].ses)
        \/ \E e \in Entries : /\ AckBlock(reqs[r].ses, e)
                              /\ block' = [block EXCEPT ![e] = [ses |-> reqs[r].ses, ack |-> Nothing]]
    BY <2>1 DEF AckNoKey
  <2>4. QED BY <2>1, <2>2, <2>3, AppAckSafe
<1>2. CASE AppAckSent
  <2>1. PICK r \in inbox, enc \in BOOLEAN, e \in Entries :
          /\ AppBegins(r) /\ AckBlock(reqs[r].ses, e) /\ AckSent(reqs[r].ses, e, r, enc)
          /\ app' = [at |-> "acked", req |-> r]
          /\ UNCHANGED <<setup, reqs, line, reader>>
    BY <1>2 DEF AppAckSent
  <2>2. /\ reqs[r].ses \in Guarded /\ reqs[r].ses \in Sessions /\ SendAck(reqs[r].ses, r)
        /\ block' = [block EXCEPT ![e] = [ses |-> reqs[r].ses, ack |-> r]]
    BY <2>1 DEF AppBegins, AckSent, Guarded
  <2>3. asked' \in [Sessions -> 0 .. Len(reqs)]
    BY <2>2, SendTyped DEF IInv
  <2>4. QED BY <2>1, <2>2, <2>3, AppAckSafe
<1>3. CASE AppMarks
  <2>1. app.at = "acked" /\ reqs[app.req].ses \in Sessions
    BY <1>3, Asked DEF AppMarks, IInv, Types
  <2>2. QED BY <1>3, <2>1, MarkSafe DEF AppMarks, Finishing
<1>4. CASE AppAckTooLong
  <2>1. PICK r \in inbox : AppBegins(r)
    BY <1>4 DEF AppAckTooLong
  <2>2. reqs[r].ses \in Guarded /\ asked \in [Sessions -> 0 .. Len(reqs)]
    BY <2>1 DEF AppBegins, IInv, Types
  <2>3. UNCHANGED <<setup, fc, session, pool, reader, app>>
    BY <1>4 DEF AppAckTooLong
  <2>4. UNCHANGED <<setup, reqs, line, reader>> /\ asked' \in [Sessions -> 0 .. Len(reqs)]
    BY <2>2, <2>3 DEF fc
  <2>5. QED BY <2>1, <2>2, <2>3, <2>4, AppAckSafe
<1>5. QED BY <1>1, <1>2, <1>3, <1>4 DEF AppStep

LEMMA NextSafe ==
  ASSUME IInv, [Next]_requestVars
  PROVE  IInv'
<1>1. CASE FcStep
  <2>1. ASSUME NEW a \in setup.asks, Ask(a) PROVE IInv'
    BY <2>1, AskSafe
  <2>2. ASSUME NEW s \in Sessions, Repeat(s) \/ GiveUp(s) PROVE IInv'
    BY <2>2, LineSafe
  <2>3. QED BY <1>1, <2>1, <2>2 DEF FcStep
<1>2. CASE UNCHANGED requestVars
  <2>1. line' \in Seq(1 .. Len(reqs)) /\ asked' \in [Sessions -> 0 .. Len(reqs)]
    BY <1>2 DEF requestVars, fc, IInv, Types
  <2>2. QED BY <1>2, <2>1, SameSafe DEF requestVars, fc
<1>3. QED BY <1>1, <1>2, ReadSafe, AppSafe, CommandSafe DEF Next

LEMMA InitSafe ==
  ASSUME Init
  PROVE  IInv
<1>1. /\ setup \in Setups /\ reqs = <<>> /\ line = <<>> /\ taken = {} /\ cmds = {} /\ inbox = {}
      /\ asked = [s \in Sessions |-> 0] /\ status = [s \in Sessions |-> "idle"]
      /\ mmu = [s \in Sessions |-> 0] /\ handled = [s \in Sessions |-> 0]
      /\ block = [e \in Entries |-> [ses |-> 0, ack |-> 0]]
      /\ reader = [at |-> "reading", req |-> 0] /\ app = [at |-> "idle", req |-> 0]
  BY DEF Init, Idle, Nothing
<1>2. /\ reqs \in Seq(setup.asks) /\ Len(reqs) = 0 /\ line \in Seq(1 .. Len(reqs))
  BY <1>1
<1>3. Types
  BY <1>1, <1>2 DEF Types, Nothing
<1>4. ASSUME NEW s \in Sessions PROVE Pointer(s) /\ OneHolder(s)
  BY <1>1 DEF Pointer, OneHolder, Reading, Marking, Waiting, Finishing, Nothing
<1>5. QED BY <1>1, <1>3, <1>4 DEF IInv, CommandsKeepBlocks, Unkept, Marking, Nothing

LEMMA Implied ==
  ASSUME IInv
  PROVE  RepliesKept
<1>1. ASSUME NEW s \in Sessions, status[s] = "using"
      PROVE  mmu[s] \in taken \ cmds /\ block[mmu[s]] = [ses |-> s, ack |-> handled[s]]
  <2>1. Replied(s) /\ s # 0
    BY <1>1 DEF IInv, Pointer, Unkept
  <2>2. mmu[s] \notin cmds
    BY <2>1 DEF IInv, CommandsKeepBlocks, Replied, Nothing
  <2>3. QED BY <2>1, <2>2 DEF Replied
<1>2. QED BY <1>1 DEF RepliesKept, OwnReply, IInv

\* A reply that is kept for repetitions is the answer to the request handled last, in a
\* block of its session, and a command's block is freed by nobody else: for every number
\* of sessions, entries and requests (ackInterface and allocACK under appHandler).
THEOREM RepliesSafe == Spec => []RepliesKept
<1>1. Spec => []IInv
  BY InitSafe, NextSafe, PTL DEF Spec
<1>2. QED BY <1>1, Implied, PTL

\* The steps of the polling loop leave the sessions alone.
LEMMA SpinApart ==
  ASSUME SpinStep
  PROVE  UNCHANGED requestVars
  BY DEF SpinStep, SpinOnly, TestNext, EndCommand, PrecisionTakeoff, Fly, EndFlight,
         NextTurn, FindCommand, BeginCommand, BeginPrecision

LEMMA MobileInvariant == MobileSpec => []IInv
<1>1. ASSUME IInv, [MobileNext]_allVars PROVE IInv'
  <2>1. CASE HearMobile
    <3>1. /\ reader.at = "recvReqData" /\ reader' = Idle("reading")
          /\ inbox' \subseteq inbox \cup {reader.req}
          /\ UNCHANGED <<setup, fc, session, pool, app>>
      BY <2>1 DEF HearMobile, Received
    <3>2. QED BY <1>1, <3>1, HearSafe
  <2>2. CASE SpinStep
    BY <1>1, <2>2, SpinApart, NextSafe
  <2>3. CASE (Next /\ UNCHANGED mobileVars) \/ UNCHANGED allVars
    BY <1>1, <2>3, NextSafe DEF allVars
  <2>4. QED BY <1>1, <2>1, <2>2, <2>3 DEF MobileNext
<1>2. MobileInit => IInv
  BY InitSafe DEF MobileInit
<1>3. QED BY <1>1, <1>2, PTL DEF MobileSpec

\* The same with the commands of the mobile device and the loop that polls for them,
\* which is the system the run Requests checks.
THEOREM MobileRepliesSafe == MobileSpec => []RepliesKept
  BY MobileInvariant, Implied, PTL

-----------------------------------------------------------------------------
(* The requests of a session arrive in the order they were made, repetitions  *)
(* included, and are handled as RequestService promises                       *)

\* The flight controller repeats only the request it made last, so what travels is in
\* order, and nothing older than the request handled last is still on its way.
Ordered ==
  /\ \A i, j \in 1 .. Len(line) :
       i < j /\ reqs[line[i]].ses = reqs[line[j]].ses => line[i] <= line[j]
  /\ \A i \in 1 .. Len(line) : handled[reqs[line[i]].ses] <= line[i]
  /\ \A s \in Sessions : asked[s] # Nothing =>
       /\ reqs[asked[s]].ses = s /\ handled[s] <= asked[s]
       /\ \A i \in 1 .. Len(line) : reqs[line[i]].ses = s => line[i] <= asked[s]
  /\ \A s \in Sessions : handled[s] <= Len(reqs)
  /\ \A s \in Guarded : status[s] = "idle" => handled[s] = Nothing

LEMMA AskOrdered ==
  ASSUME Types, Ordered, NEW a \in setup.asks, Ask(a)
  PROVE  Ordered'
<1> DEFINE N == Len(reqs) + 1
<1>1. /\ reqs \in Seq(setup.asks) /\ Len(reqs) \in Nat /\ line \in Seq(1 .. Len(reqs)) /\ Len(line) \in Nat
      /\ asked \in [Sessions -> 0 .. Len(reqs)] /\ handled \in [Sessions -> Nat]
      /\ a.ses \in Sessions
  BY RequestAssumption DEF Types
<1>2. /\ reqs' = Append(reqs, a) /\ handled' = handled /\ status' = status
      /\ asked[a.ses] = Nothing
      /\ asked' = IF a.ses = 0 THEN asked ELSE [asked EXCEPT ![a.ses] = Len(reqs')]
      /\ line' = Append(line, Len(reqs')) \/ line' = line
  BY DEF Ask, OnLine, session
<1>3. /\ Len(reqs') = N /\ reqs'[N] = a /\ N \in Nat
      /\ \A i \in 1 .. Len(reqs) : reqs'[i] = reqs[i]
  BY <1>1, <1>2
<1>4. /\ Len(line') \in Nat
      /\ \A i \in 1 .. Len(line') :
           \/ i \in 1 .. Len(line) /\ line'[i] = line[i] /\ line[i] \in 1 .. Len(reqs)
           \/ i = Len(line) + 1 /\ line'[i] = N
  <2>1. CASE line' = line
    BY <1>1, <2>1
  <2>2. CASE line' = Append(line, N)
    BY <1>1, <2>2
  <2>3. QED BY <1>2, <1>3, <2>1, <2>2
<1>5. ASSUME NEW i \in 1 .. Len(line'), NEW j \in 1 .. Len(line'), i < j,
             reqs'[line'[i]].ses = reqs'[line'[j]].ses
      PROVE  line'[i] <= line'[j]
  <2>1. CASE j = Len(line) + 1 /\ line'[j] = N
    <3>1. line'[i] \in 1 .. Len(reqs) \/ line'[i] = N
      BY <1>4, <1>5
    <3>2. QED BY <1>1, <2>1, <3>1
  <2>2. CASE j \in 1 .. Len(line) /\ line'[j] = line[j]
    <3>1. i \in 1 .. Len(line) /\ line'[i] = line[i]
      BY <1>1, <1>4, <1>5, <2>2
    <3>2. line[i] \in 1 .. Len(reqs) /\ line[j] \in 1 .. Len(reqs)
      BY <1>1, <2>2, <3>1
    <3>3. reqs[line[i]].ses = reqs[line[j]].ses
      BY <1>3, <1>5, <2>2, <3>1, <3>2
    <3>4. QED BY <1>5, <2>2, <3>1, <3>3 DEF Ordered
  <2>3. QED BY <1>4, <2>1, <2>2
<1>6. \A i \in 1 .. Len(line') : handled'[reqs'[line'[i]].ses] <= line'[i]
  BY <1>1, <1>2, <1>3, <1>4 DEF Ordered
<1>7. ASSUME NEW s \in Sessions, asked'[s] # Nothing
      PROVE  /\ reqs'[asked'[s]].ses = s /\ handled'[s] <= asked'[s]
             /\ \A i \in 1 .. Len(line') : reqs'[line'[i]].ses = s => line'[i] <= asked'[s]
  <2>1. CASE s = a.ses
    <3>1. asked'[s] = N
      BY <1>1, <1>2, <1>3, <1>7, <2>1
    <3>2. handled[s] <= Len(reqs) /\ handled[s] \in Nat
      BY <1>1 DEF Ordered
    <3>3. QED BY <1>1, <1>2, <1>3, <1>4, <2>1, <3>1, <3>2
  <2>2. CASE s # a.ses
    <3>1. asked'[s] = asked[s] /\ asked[s] \in 1 .. Len(reqs)
      BY <1>1, <1>2, <1>7, <2>2 DEF Nothing
    <3>2. /\ reqs[asked[s]].ses = s /\ handled[s] <= asked[s]
          /\ \A i \in 1 .. Len(line) : reqs[line[i]].ses = s => line[i] <= asked[s]
      BY <1>7, <3>1 DEF Ordered
    <3>3. QED BY <1>1, <1>2, <1>3, <1>4, <2>2, <3>1, <3>2
  <2>3. QED BY <2>1, <2>2
<1>8. \A s \in Sessions : handled'[s] <= Len(reqs')
  BY <1>1, <1>2, <1>3 DEF Ordered
<1>9. \A s \in Guarded : status'[s] = "idle" => handled'[s] = Nothing
  BY <1>2 DEF Ordered
<1>10. QED BY <1>5, <1>6, <1>7, <1>8, <1>9 DEF Ordered, Nothing

LEMMA RepeatOrdered ==
  ASSUME Types, Ordered, NEW s \in Sessions, Repeat(s)
  PROVE  Ordered'
<1>1. /\ Len(reqs) \in Nat /\ line \in Seq(1 .. Len(reqs)) /\ Len(line) \in Nat
      /\ asked[s] \in 1 .. Len(reqs)
      /\ reqs[asked[s]].ses = s /\ handled[s] <= asked[s]
      /\ \A i \in 1 .. Len(line) : reqs[line[i]].ses = s => line[i] <= asked[s]
  BY DEF Types, Ordered, Repeat, Nothing
<1>2. /\ reqs' = reqs /\ handled' = handled /\ status' = status /\ asked' = asked
      /\ line' = Append(line, asked[s]) \/ line' = line
  BY DEF Repeat, OnLine, session
<1>3. /\ Len(line') \in Nat
      /\ \A i \in 1 .. Len(line') : \/ i \in 1 .. Len(line) /\ line'[i] = line[i] /\ line[i] \in 1 .. Len(reqs)
                                    \/ i = Len(line) + 1 /\ line'[i] = asked[s]
  BY <1>1, <1>2
<1>4. \A i, j \in 1 .. Len(line') :
        i < j /\ reqs'[line'[i]].ses = reqs'[line'[j]].ses => line'[i] <= line'[j]
  BY <1>1, <1>2, <1>3, SMTT(30) DEF Ordered
<1>5. \A i \in 1 .. Len(line') : handled'[reqs'[line'[i]].ses] <= line'[i]
  BY <1>1, <1>2, <1>3 DEF Ordered
<1>6. ASSUME NEW t \in Sessions, asked'[t] # Nothing
      PROVE  /\ reqs'[asked'[t]].ses = t /\ handled'[t] <= asked'[t]
             /\ \A i \in 1 .. Len(line') : reqs'[line'[i]].ses = t => line'[i] <= asked'[t]
  <2>1. /\ reqs[asked[t]].ses = t /\ handled[t] <= asked[t]
        /\ \A i \in 1 .. Len(line) : reqs[line[i]].ses = t => line[i] <= asked[t]
    BY <1>2, <1>6 DEF Ordered
  <2>2. QED BY <1>1, <1>2, <1>3, <2>1
<1>7. QED BY <1>2, <1>4, <1>5, <1>6 DEF Ordered, Nothing

\* A request leaves the line, and may become the one handled last.
LEMMA ArriveOrdered ==
  ASSUME Types, Ordered, NEW s \in Sessions, NEW r, Arrives(s, r), reqs' = reqs,
         \A t \in Sessions : asked'[t] \in {asked[t], Nothing},
         \/ handled' = handled /\ status' = status
         \/ /\ handled' = [handled EXCEPT ![s] = r]
            /\ s \in Guarded => status'[s] = "process"
            /\ \A t \in Sessions \ {s} : status'[t] = status[t]
  PROVE  /\ Ordered' /\ handled[s] <= r
<1>1. /\ Len(reqs) \in Nat /\ line \in Seq(1 .. Len(reqs)) /\ Len(line) \in Nat
      /\ handled \in [Sessions -> Nat] /\ asked \in [Sessions -> 0 .. Len(reqs)]
      /\ line # <<>> /\ r = line[1] /\ s = reqs[r].ses /\ line' = Tail(line)
  BY DEF Types, Arrives
<1>2. /\ 1 \in 1 .. Len(line) /\ r \in 1 .. Len(reqs) /\ Len(line') = Len(line) - 1
      /\ \A i \in 1 .. Len(line') : /\ line'[i] = line[i + 1] /\ i + 1 \in 1 .. Len(line)
                                    /\ line[i + 1] \in 1 .. Len(reqs)
  BY <1>1
<1>3. /\ handled[s] <= r
      /\ \A i \in 1 .. Len(line') : reqs[line'[i]].ses = s => r <= line'[i]
      /\ asked[s] # Nothing => r <= asked[s]
  BY <1>1, <1>2 DEF Ordered
<1>4. \A i, j \in 1 .. Len(line') :
        i < j /\ reqs'[line'[i]].ses = reqs'[line'[j]].ses => line'[i] <= line'[j]
  BY <1>1, <1>2 DEF Ordered
<1>5. \A t \in Sessions : handled'[t] = handled[t] \/ (t = s /\ handled'[t] = r)
  BY <1>1
<1>6. \A i \in 1 .. Len(line') : handled'[reqs'[line'[i]].ses] <= line'[i]
  <2>1. ASSUME NEW i \in 1 .. Len(line') PROVE handled'[reqs[line'[i]].ses] <= line'[i]
    <3>1. handled[reqs[line'[i]].ses] <= line'[i]
      BY <1>2 DEF Ordered
    <3>2. CASE handled' = handled
      BY <3>1, <3>2
    <3>3. CASE handled' = [handled EXCEPT ![s] = r] /\ reqs[line'[i]].ses = s
      BY <1>1, <1>3, <2>1, <3>3
    <3>4. CASE handled' = [handled EXCEPT ![s] = r] /\ reqs[line'[i]].ses # s
      BY <1>1, <3>1, <3>4
    <3>5. QED BY <3>2, <3>3, <3>4
  <2>2. QED BY <2>1
<1>7. ASSUME NEW t \in Sessions, asked'[t] # Nothing
      PROVE  /\ reqs'[asked'[t]].ses = t /\ handled'[t] <= asked'[t]
             /\ \A i \in 1 .. Len(line') : reqs'[line'[i]].ses = t => line'[i] <= asked'[t]
  <2>1. /\ asked'[t] = asked[t] /\ reqs[asked[t]].ses = t /\ handled[t] <= asked[t]
        /\ \A i \in 1 .. Len(line) : reqs[line[i]].ses = t => line[i] <= asked[t]
    BY <1>7 DEF Ordered
  <2>2. handled'[t] <= asked[t]
    BY <1>1, <1>3, <1>5, <1>7, <2>1
  <2>3. \A i \in 1 .. Len(line') : reqs[line'[i]].ses = t => line'[i] <= asked[t]
    BY <1>2, <2>1
  <2>4. QED BY <2>1, <2>2, <2>3
<1>8. \A t \in Sessions : handled'[t] <= Len(reqs')
  BY <1>1, <1>2, <1>5 DEF Ordered
<1>9. \A t \in Guarded : status'[t] = "idle" => handled'[t] = Nothing
  BY <1>1, <1>5 DEF Ordered, Guarded
<1>10. QED BY <1>3, <1>4, <1>6, <1>7, <1>8, <1>9 DEF Ordered, Nothing

\* Nothing arrives and nothing is asked.
LEMMA QuietOrdered ==
  ASSUME Ordered, UNCHANGED <<line, reqs, handled>>,
         \A t \in Sessions : asked'[t] \in {asked[t], Nothing},
         \A t \in Sessions : status'[t] = "idle" => status[t] = "idle"
  PROVE  Ordered'
  BY DEF Ordered, Guarded, Nothing

-----------------------------------------------------------------------------
(* The refinement *)

Latest == [s \in Guarded |-> handled[s]]
Open   == {s \in Guarded : status[s] = "process"}

LEMMA TakeMaps ==
  ASSUME IInv, Ordered, NEW s \in Sessions, NEW r \in Requests, Arrives(s, r), HandOn(s, r),
         UNCHANGED <<reqs, asked>>,
         \/ /\ s = 0 \/ status[s] = "idle"
            /\ status' = IF s > 1 THEN [status EXCEPT ![s] = "process"] ELSE status
         \/ /\ s # 0 /\ status[s] = "using" /\ Stored(s) # r
            /\ status' = [status EXCEPT ![s] = "process"]
  PROVE  /\ Ordered'
         /\ Requester!Next \/ UNCHANGED <<Latest, Open>>
<1>1. /\ Types /\ s \in Nat /\ handled' = [handled EXCEPT ![s] = r] /\ Pointer(s)
      /\ status \in [Sessions -> {"idle", "process", "using"}] /\ handled \in [Sessions -> Nat]
      /\ r \in 1 .. Len(reqs)
  <2>1. line \in Seq(1 .. Len(reqs)) /\ line # <<>> /\ r = Head(line)
    BY DEF Arrives, IInv, Types
  <2>2. r \in 1 .. Len(reqs)
    BY <2>1
  <2>3. s \in Nat
    BY RequestAssumption
  <2>4. Types /\ Pointer(s)
    BY DEF IInv
  <2>5. status \in [Sessions -> {"idle", "process", "using"}] /\ handled \in [Sessions -> Nat]
    BY <2>4 DEF Types
  <2>6. handled' = [handled EXCEPT ![s] = r]
    BY DEF HandOn
  <2>7. QED BY <2>2, <2>3, <2>4, <2>5, <2>6
<1>2. /\ s \in Guarded => status'[s] = "process"
      /\ \A t \in Sessions \ {s} : status'[t] = status[t]
  BY <1>1 DEF Guarded
<1>3. Ordered' /\ handled[s] <= r
  BY <1>1, <1>2, ArriveOrdered
<1>4. CASE s \notin Guarded
  <2>1. \A t \in Guarded : handled'[t] = handled[t] /\ status'[t] = status[t]
    BY <1>1, <1>2, <1>4 DEF Guarded
  <2>2. QED BY <1>3, <2>1 DEF Latest, Open
<1>5. CASE s \in Guarded
  <2>1. handled[s] # r /\ status[s] # "process"
    <3>1. CASE status[s] = "idle"
      BY <1>1, <1>5, <3>1 DEF Ordered, Nothing
    <3>2. CASE status[s] = "using" /\ Stored(s) # r
      BY <1>1, <3>2 DEF Pointer, Replied, Stored
    <3>3. QED BY <1>5, <3>1, <3>2 DEF Guarded
  <2>2. handled[s] < r
    BY <1>1, <1>3, <2>1
  <2>3. /\ s \notin Open /\ Open' = Open \cup {s}
        /\ Latest[s] < r /\ Latest' = [Latest EXCEPT ![s] = r]
    <3>1. s \notin Open /\ Latest[s] < r
      BY <1>5, <2>1, <2>2 DEF Open, Latest
    <3>2. Open' = Open \cup {s}
      BY <1>2, <1>5 DEF Open, Guarded
    <3>3. Latest' = [Latest EXCEPT ![s] = r]
      BY <1>1, <1>5 DEF Latest, Guarded
    <3>4. QED BY <3>1, <3>2, <3>3
  <2>4. Requester!Handle(s, r)
    BY <2>3 DEF Requester!Handle, Latest, Open
  <2>5. QED BY <1>3, <1>5, <2>4 DEF Requester!Next
<1>6. QED BY <1>4, <1>5

LEMMA MarkMaps ==
  ASSUME IInv, Ordered, NEW s \in Sessions, MarkUsing(s), Marking(s) \/ Finishing(s),
         UNCHANGED <<line, reqs, asked>>
  PROVE  /\ Ordered'
         /\ Requester!Next \/ UNCHANGED <<Latest, Open>>
<1>1. /\ status' = [status EXCEPT ![s] = "using"] /\ handled' = handled
      /\ status \in [Sessions -> {"idle", "process", "using"}]
  BY DEF MarkUsing, IInv, Types
<1>2. /\ status'[s] = "using"
      /\ \A t \in Sessions \ {s} : status'[t] = status[t]
  BY <1>1
<1>3. Ordered'
  <2>1. \A t \in Sessions : status'[t] = "idle" => status[t] = "idle"
    BY <1>2
  <2>2. QED BY <1>1, <2>1, QuietOrdered
<1>4. Latest' = Latest
  BY <1>1 DEF Latest
<1>5. CASE s \notin Guarded
  BY <1>2, <1>3, <1>4, <1>5 DEF Open, Guarded
<1>6. CASE s \in Guarded
  <2>1. status[s] = "process"
    BY <1>6 DEF IInv, OneHolder
  <2>2. s \in Open /\ Open' = Open \ {s}
    BY <1>2, <1>6, <2>1 DEF Open, Guarded
  <2>3. Requester!Reply(s)
    BY <1>4, <2>2 DEF Requester!Reply, Latest, Open
  <2>4. QED BY <1>3, <1>6, <2>3 DEF Requester!Next
<1>7. QED BY <1>5, <1>6

LEMMA QuietMaps ==
  ASSUME Ordered, UNCHANGED <<line, reqs, handled, status>>,
         \A t \in Sessions : asked'[t] \in {asked[t], Nothing}
  PROVE  Ordered' /\ UNCHANGED <<Latest, Open>>
<1>1. Ordered'
  BY QuietOrdered
<1>2. QED BY <1>1 DEF Latest, Open

\* What an ACK does to the requests of the flight controller.
LEMMA SendMaps ==
  ASSUME Types, NEW s \in Sessions, NEW r, SendAck(s, r)
  PROVE  \A t \in Sessions : asked'[t] \in {asked[t], Nothing}
  BY DEF SendAck, Types

LEMMA ReadMaps ==
  ASSUME IInv, Ordered, ReadStep
  PROVE  Ordered' /\ (Requester!Next \/ UNCHANGED <<Latest, Open>>)
<1> DEFINE s == reqs[reader.req].ses
<1>1. ASSUME NEW t \in Sessions, NEW r, Arrives(t, r), UNCHANGED <<reqs, session>>,
             \A u \in Sessions : asked'[u] \in {asked[u], Nothing}
      PROVE  Ordered' /\ UNCHANGED <<Latest, Open>>
  <2>1. handled' = handled /\ status' = status
    BY <1>1 DEF session
  <2>2. Ordered'
    BY <1>1, <2>1, ArriveOrdered DEF IInv
  <2>3. QED BY <2>1, <2>2 DEF Latest, Open
<1>2. CASE DropWaiting
  BY <1>1, <1>2 DEF DropWaiting
<1>3. CASE RepeatAck
  BY <1>1, <1>3, SendMaps DEF RepeatAck, IInv
<1>4. CASE TakeIdle
  BY <1>4, TakeMaps DEF TakeIdle
<1>5. CASE TakeNext
  BY <1>5, TakeMaps DEF TakeNext
<1>6. CASE HearEvent
  BY <1>6, QuietMaps DEF HearEvent, fc, session
<1>7. ASSUME reader.at # "reading" PROVE Types /\ s \in Sessions
  BY <1>7, Asked DEF IInv, Types
<1>8. CASE LostControlEnds
  <2>1. UNCHANGED <<line, reqs, handled, status, asked>>
    BY <1>8 DEF LostControlEnds, AckRefused, AckBlock, AckNoKey, session
  <2>2. QED BY <2>1, QuietMaps
<1>9. CASE LostControlAcked
  <2>1. UNCHANGED <<line, reqs, handled, status>> /\ SendAck(s, reader.req) /\ reader.at # "reading"
    BY <1>9 DEF LostControlAcked, AckBlock, AckSent, Received
  <2>2. QED BY <1>7, <2>1, QuietMaps, SendMaps
<1>10. CASE ReaderMarks
  <2>1. s \in Sessions /\ MarkUsing(s) /\ Marking(s) /\ UNCHANGED <<line, reqs, asked>>
    BY <1>7, <1>10 DEF ReaderMarks, Marking, fc
  <2>2. QED BY <2>1, MarkMaps
<1>11. QED BY <1>2, <1>3, <1>4, <1>5, <1>6, <1>8, <1>9, <1>10 DEF ReadStep

LEMMA AppMaps ==
  ASSUME IInv, Ordered, AppStep
  PROVE  Ordered' /\ (Requester!Next \/ UNCHANGED <<Latest, Open>>)
<1>1. CASE AppAckTooLong \/ AppAckFails
  <2>1. UNCHANGED <<line, reqs, handled, status, asked>>
    BY <1>1 DEF AppAckTooLong, AppAckFails, AckRefused, AckBlock, AckNoKey, fc, session
  <2>2. QED BY <2>1, QuietMaps
<1>2. CASE AppAckSent
  <2>1. PICK r \in inbox : /\ reqs[r].ses \in Sessions /\ SendAck(reqs[r].ses, r)
                           /\ UNCHANGED <<line, reqs, handled, status>>
    BY <1>2 DEF AppAckSent, AppBegins, AckBlock, AckSent, Guarded
  <2>2. QED BY <2>1, QuietMaps, SendMaps DEF IInv
<1>3. CASE AppMarks
  <2>1. reqs[app.req].ses \in Sessions
    BY <1>3, Asked DEF AppMarks, IInv, Types
  <2>2. /\ MarkUsing(reqs[app.req].ses) /\ Finishing(reqs[app.req].ses)
        /\ UNCHANGED <<line, reqs, asked>>
    BY <1>3 DEF AppMarks, Finishing, fc
  <2>3. QED BY <2>1, <2>2, MarkMaps
<1>4. QED BY <1>1, <1>2, <1>3 DEF AppStep

LEMMA NextMaps ==
  ASSUME IInv, Ordered, [Next]_requestVars
  PROVE  Ordered' /\ (Requester!Next \/ UNCHANGED <<Latest, Open>>)
<1>1. ASSUME NEW a \in setup.asks, Ask(a) PROVE Ordered' /\ UNCHANGED <<Latest, Open>>
  <2>1. Ordered'
    BY <1>1, AskOrdered DEF IInv
  <2>2. QED BY <1>1, <2>1 DEF Ask, session, Latest, Open
<1>2. ASSUME NEW s \in Sessions, Repeat(s) PROVE Ordered' /\ UNCHANGED <<Latest, Open>>
  <2>1. Ordered'
    BY <1>2, RepeatOrdered DEF IInv
  <2>2. QED BY <1>2, <2>1 DEF Repeat, session, Latest, Open
<1>3. ASSUME NEW s \in Sessions, GiveUp(s) PROVE Ordered' /\ UNCHANGED <<Latest, Open>>
  <2>1. UNCHANGED <<line, reqs, handled, status>> /\ asked' = [asked EXCEPT ![s] = Nothing]
    BY <1>3 DEF GiveUp, session
  <2>2. \A t \in Sessions : asked'[t] \in {asked[t], Nothing}
    BY <2>1 DEF IInv, Types
  <2>3. QED BY <2>1, <2>2, QuietMaps
<1>4. CASE CommandAllocates \/ CommandFrees \/ UNCHANGED requestVars
  <2>1. UNCHANGED <<line, reqs, handled, status, asked>>
    BY <1>4 DEF CommandAllocates, CommandFrees, requestVars, fc, session
  <2>2. QED BY <2>1, QuietMaps
<1>5. QED BY <1>1, <1>2, <1>3, <1>4, ReadMaps, AppMaps DEF Next, FcStep

\* appHandler's request branch keeps the promise of RequestService in every guarded
\* session: requests are handled in the order they were made, once, one at a time,
\* however often they are repeated and whatever is lost.
THEOREM RequestsRefined == MobileSpec => ImplementsRequests
<1>1. MobileInit => Ordered /\ Requester!Init
  <2>1. ASSUME MobileInit
        PROVE  /\ line = <<>> /\ status = [s \in Sessions |-> "idle"]
               /\ asked = [s \in Sessions |-> 0] /\ handled = [s \in Sessions |-> 0]
               /\ reqs = <<>>
    BY <2>1 DEF MobileInit, Init, Nothing
  <2>2. ASSUME MobileInit PROVE Ordered
    BY <2>1, <2>2 DEF Ordered, Nothing, Guarded
  <2>3. ASSUME MobileInit PROVE Latest = [s \in Guarded |-> 0] /\ Open = {}
    BY <2>1, <2>3 DEF Latest, Open, Guarded
  <2>4. QED BY <2>2, <2>3 DEF Requester!Init, Latest, Open
<1>2. ASSUME IInv, Ordered, [MobileNext]_allVars
      PROVE  Ordered' /\ [Requester!Next]_<<Latest, Open>>
  <2>1. CASE HearMobile
    BY <1>2, <2>1, QuietMaps DEF HearMobile, fc, session
  <2>2. CASE SpinStep
    BY <1>2, <2>2, SpinApart, NextMaps
  <2>3. CASE (Next /\ UNCHANGED mobileVars) \/ UNCHANGED allVars
    BY <1>2, <2>3, NextMaps DEF allVars
  <2>4. QED BY <1>2, <2>1, <2>2, <2>3 DEF MobileNext
<1>3. QED BY <1>1, <1>2, MobileInvariant, PTL
          DEF MobileSpec, ImplementsRequests, Requester!Spec, Latest, Open

-----------------------------------------------------------------------------
(* MOBILE COMMANDS.  For every setup: while the read thread sets flags and    *)
(* the polling loop clears them, no command that has come is forgotten and    *)
(* none is executed that nobody asked for.                                    *)

-----------------------------------------------------------------------------
(* The inductive invariant *)

Flags == (FlagIds \cup CallbackIds) \ {69}

\* The loop, and the options it leaves behind: none, unless a trajectory is flown.
Spinning ==
  /\ flags \subseteq Flags /\ pending \subseteq flags
  /\ spin.at \in {"poll", "found", "run", "takeoff", "ready", "flying", "ended"}
  /\ spin.at = "found" => spin.id \in flags
  /\ spin.i \in 1 .. Len(Order) + 1 /\ spin.id \in {0} \cup Polled
  /\ spin.at # "poll" /\ spin.at # "ended" => spin.i \in DOMAIN Order /\ spin.id \in Polled
  /\ options = IF spin.at = "flying" THEN Wanted(spin.id) ELSE {}
  /\ setup.raised = {} => flags = pending

\* Counters stay within the requests made and the bounds.
Bounds ==
  /\ Len(reqs) <= MaxRequests /\ Len(line) <= MaxLine /\ lost \in 0 .. setup.losses
  /\ \A s \in Sessions : handled[s] <= Len(reqs)
  /\ \A e \in Entries : block[e].ack <= Len(reqs)
  /\ reader.req <= Len(reqs) /\ app.req <= Len(reqs)

MInv == IInv /\ Bounds /\ Spinning

-----------------------------------------------------------------------------
(* The polling loop *)

LEMMA OrderSeq ==
  Len(Order) \in Nat /\ DOMAIN Order = 1 .. Len(Order) /\ Polled = {Order[i] : i \in 1 .. Len(Order)}
<1>1. Basic \in Seq(Nat) /\ Precision \in Seq(Nat) /\ Len(Basic) = 13
  BY DEF Basic, Precision
<1>2. SubSeq(Basic, 1, 7) \in Seq(Nat) /\ Basic \o Precision \in Seq(Nat)
  <2>1. ASSUME NEW i \in 1 .. 7 PROVE Basic[i] \in Nat
    <3>1. i \in 1 .. Len(Basic)
      BY <1>1
    <3>2. QED BY <1>1, <3>1, ElementOfSeq
  <2>2. QED BY <1>1, <2>1, ConcatProperties, SubSeqProperties
<1>3. Order \in Seq(Nat)
  BY <1>1, <1>2 DEF Order
<1>4. QED BY <1>3 DEF Polled

LEMMA SpinSafe ==
  ASSUME Spinning, SpinStep PROVE Spinning' /\ UNCHANGED setup
<1>1. UNCHANGED setup
  BY SpinApart DEF requestVars
<1>2. Order' = Order /\ Polled' = Polled
  BY <1>1 DEF Order, Polled
<1>3. CASE TestNext \/ EndCommand \/ NextTurn
  <2>1. /\ UNCHANGED <<flags, pending, options>> /\ spin.at \in {"poll", "run"}
        /\ spin'.at \in {"poll", "ended"} /\ spin'.id = 0
        /\ spin'.i = 1 \/ (spin.i \in DOMAIN Order /\ spin'.i = spin.i + 1)
    BY <1>3 DEF Spinning, TestNext, EndCommand, NextTurn, Moves
  <2>2. spin'.i \in 1 .. Len(Order) + 1
    BY <2>1, OrderSeq
  <2>3. QED BY <1>1, <1>2, <2>1, <2>2 DEF Spinning
<1>4. CASE PrecisionTakeoff
  <2>1. /\ UNCHANGED <<flags, pending, options>> /\ spin.at = "takeoff" /\ spin.i \in DOMAIN Order
        /\ \/ spin' = [at |-> "ready", i |-> spin.i, id |-> spin.id]
           \/ spin' = [at |-> "poll", i |-> 1, id |-> 0]
    BY <1>4 DEF Spinning, PrecisionTakeoff, Moves
  <2>2. spin'.at \in {"ready", "poll"} /\ spin'.id \in {0} \cup Polled
        /\ (spin'.i = 1 \/ (spin'.i = spin.i /\ spin.i \in DOMAIN Order))
        /\ (spin'.at = "ready" => spin'.i = spin.i /\ spin'.id \in Polled)
    BY <2>1 DEF Spinning
  <2>3. spin'.i \in 1 .. Len(Order) + 1
    BY <2>2, OrderSeq
  <2>4. QED BY <1>1, <1>2, <2>1, <2>2, <2>3 DEF Spinning
<1>5. CASE Fly \/ EndFlight
  <2>1. /\ UNCHANGED <<flags, pending>> /\ spin.i \in DOMAIN Order
        /\ \/ /\ options' = options \cup Wanted(spin.id) /\ spin.at = "ready"
              /\ spin'.at = "flying" /\ spin'.i = spin.i /\ spin'.id = spin.id
           \/ /\ options' = options \ Wanted(spin.id) /\ spin.at = "flying"
              /\ spin'.at = "poll" /\ spin'.i = spin.i + 1 /\ spin'.id = 0
    BY <1>5 DEF Spinning, Fly, EndFlight, Moves
  <2>2. options' = IF spin'.at = "flying" THEN Wanted(spin'.id) ELSE {}
    BY <2>1 DEF Spinning
  <2>3. spin'.i \in 1 .. Len(Order) + 1
    BY <2>1, OrderSeq
  <2>4. QED BY <1>1, <1>2, <2>1, <2>2, <2>3 DEF Spinning, Wanted
<1>6. CASE BeginCommand \/ BeginPrecision
  <2>1. /\ spin.at = "found" /\ spin.i \in DOMAIN Order /\ spin.id \in Polled
        /\ flags' = flags \ {spin.id} /\ pending' = pending \ {spin.id} /\ UNCHANGED options
        /\ \E at \in {"run", "takeoff", "ready"} : spin' = [at |-> at, i |-> spin.i, id |-> spin.id]
    BY <1>6 DEF BeginCommand, BeginPrecision, Moves, Spinning
  <2>2. QED BY <1>1, <1>2, <2>1, OrderSeq DEF Spinning
<1>7. ASSUME NEW id \in Polled, FindCommand(id) PROVE Spinning'
  <2>1. /\ spin.at = "poll" /\ spin.i \in DOMAIN Order /\ id \in flags
        /\ UNCHANGED <<flags, pending, options>> /\ spin' = [at |-> "found", i |-> spin.i, id |-> id]
    BY <1>7 DEF FindCommand, Found, Moves
  <2>2. QED BY <1>1, <1>2, <1>7, <2>1, OrderSeq DEF Spinning
<1>8. QED BY <1>1, <1>3, <1>4, <1>5, <1>6, <1>7 DEF SpinStep

LEMMA HearMobileSafe ==
  ASSUME Spinning, HearMobile PROVE Spinning'
<1>1. UNCHANGED <<setup, spin, options>>
  BY DEF HearMobile
<1>2. Order' = Order /\ Polled' = Polled
  BY <1>1 DEF Order, Polled
<1>3. \/ UNCHANGED <<flags, pending>>
      \/ \E f \in Flags : flags' = flags \cup {f} /\ pending' = pending \cup {f}
  <2>1. \A id \in FlagIds \cup CallbackIds : Flag(id) \in Flags
    BY DEF Flag, Flags, FlagIds, CallbackIds
  <2>2. QED BY <2>1 DEF HearMobile
<1>4. QED BY <1>1, <1>2, <1>3 DEF Spinning, Wanted

LEMMA SpinInit ==
  ASSUME MobileInit PROVE Spinning
<1>1. setup.raised \subseteq Flags
  BY MobileAssumption DEF MobileInit, Init, Flags
<1>2. QED BY <1>1, OrderSeq DEF MobileInit, Spinning
-----------------------------------------------------------------------------
(* The bounds and counters *)

\* A step in which the counters take no number but one of the requests made.
Counted ==
  /\ UNCHANGED <<setup, reqs>>
  /\ Len(line') <= MaxLine /\ lost' \in 0 .. setup.losses
  /\ \A s \in Sessions : handled'[s] = handled[s] \/ handled'[s] \in 1 .. Len(reqs)
  /\ \A e \in Entries : block'[e].ack = block[e].ack \/ block'[e].ack \in 0 .. Len(reqs)
  /\ reader'.req \in {0, reader.req} \/ reader'.req \in 1 .. Len(reqs)
  /\ app'.req \in {0, app.req} \/ app'.req \in 1 .. Len(reqs)

LEMMA CountedSafe ==
  ASSUME IInv, Bounds, Counted PROVE Bounds'
<1>1. Len(reqs) \in Nat /\ \A s \in Sessions : handled[s] \in Nat
  BY DEF IInv, Types
<1>2. \A e \in Entries : block[e].ack \in Nat
  BY DEF IInv, Types
<1>3. QED BY <1>1, <1>2 DEF Bounds, Counted

LEMMA Facts ==
  ASSUME IInv, Bounds
  PROVE  /\ Len(reqs) \in Nat /\ Len(line) \in Nat /\ setup.losses \in Nat
         /\ line \in Seq(1 .. Len(reqs)) /\ lost \in 0 .. setup.losses
         /\ handled \in [Sessions -> Nat]
         /\ block \in [Entries -> [ses : Sessions \cup {Nothing}, ack : Nat]]
         /\ inbox \subseteq 1 .. Len(reqs)
         /\ reader.at # "reading" => reader.req \in 1 .. Len(reqs)
         /\ MaxLine \in Nat /\ MaxRequests \in Nat
<1>1. setup \in Setups
  BY DEF IInv, Types
<1>2. setup.losses \in Nat /\ MaxLine \in Nat /\ MaxRequests \in Nat
  BY <1>1, RequestAssumption
<1>3. QED BY <1>2 DEF IInv, Types, Bounds

LEMMA LossBounded ==
  ASSUME IInv, Bounds, Lose PROVE lost' \in 0 .. setup.losses
  BY Facts DEF Lose

LEMMA LineBounded ==
  ASSUME IInv, Bounds, NEW r \in Nat, OnLine(r)
  PROVE  Len(line') <= MaxLine /\ lost' \in 0 .. setup.losses
<1>1. CASE Len(line) < MaxLine /\ line' = Append(line, r) /\ UNCHANGED lost
  BY <1>1, Facts
<1>2. CASE Lose /\ UNCHANGED line
  BY <1>2, Facts, LossBounded DEF Bounds
<1>3. QED BY <1>1, <1>2 DEF OnLine

\* What ackInterface does to the counters.
LEMMA AckBounded ==
  ASSUME IInv, Bounds, NEW s \in Sessions
  PROVE  /\ AckRefused(s) => UNCHANGED <<block, lost, handled>>
         /\ \A e \in Entries, enc \in BOOLEAN : AckBlock(s, e) /\ AckNoKey(s, e, enc) =>
              /\ UNCHANGED <<lost, handled>>
              /\ \A d \in Entries : block'[d].ack = block[d].ack \/ block'[d].ack = 0
         /\ \A e \in Entries, enc \in BOOLEAN, r \in 1 .. Len(reqs) :
              AckBlock(s, e) /\ AckSent(s, e, r, enc) =>
                /\ UNCHANGED handled /\ lost' \in 0 .. setup.losses
                /\ \A d \in Entries : block'[d].ack = block[d].ack \/ block'[d].ack = r
<1>1. AckRefused(s) => UNCHANGED <<block, lost, handled>>
  BY DEF AckRefused
<1>2. ASSUME NEW e \in Entries, NEW a \in Nat, block' = [block EXCEPT ![e] = [ses |-> s, ack |-> a]]
      PROVE  \A d \in Entries : block'[d].ack = block[d].ack \/ block'[d].ack = a
  BY <1>2, Facts
<1>3. ASSUME NEW e \in Entries, NEW enc \in BOOLEAN, AckBlock(s, e), AckNoKey(s, e, enc)
      PROVE  /\ UNCHANGED <<lost, handled>>
             /\ \A d \in Entries : block'[d].ack = block[d].ack \/ block'[d].ack = 0
  BY <1>2, <1>3 DEF AckBlock, AckNoKey, Nothing
<1>4. ASSUME NEW e \in Entries, NEW enc \in BOOLEAN, NEW r \in 1 .. Len(reqs),
             AckBlock(s, e), AckSent(s, e, r, enc)
      PROVE  /\ UNCHANGED handled /\ lost' \in 0 .. setup.losses
             /\ \A d \in Entries : block'[d].ack = block[d].ack \/ block'[d].ack = r
  <2>1. lost' \in 0 .. setup.losses
    BY <1>4, Facts, LossBounded DEF AckSent, SendAck
  <2>2. QED BY <1>2, <1>4, <2>1, Facts DEF AckBlock, AckSent
<1>5. QED BY <1>1, <1>3, <1>4

LEMMA ReadBounded ==
  ASSUME IInv, Bounds, ReadStep PROVE Bounds'
<1>1. CASE DropWaiting \/ TakeIdle \/ RepeatAck \/ TakeNext
  <2>1. PICK s \in Sessions, r \in Requests : Arrives(s, r)
    BY <1>1 DEF DropWaiting, TakeIdle, RepeatAck, TakeNext
  <2>2. r \in 1 .. Len(reqs) /\ Len(line') <= MaxLine
    <3>1. line # <<>> /\ r = Head(line) /\ line' = Tail(line)
      BY <2>1 DEF Arrives
    <3>2. Len(Tail(line)) = Len(line) - 1 /\ Head(line) \in 1 .. Len(reqs)
      BY <3>1, Facts, HeadTailProperties
    <3>3. QED BY <3>1, <3>2, Facts DEF Bounds
  <2>3. lost' \in 0 .. setup.losses
    BY <1>1, Facts, LossBounded DEF DropWaiting, TakeIdle, RepeatAck, TakeNext, SendAck
  <2>4. UNCHANGED <<setup, reqs, block, app>>
    BY <1>1 DEF DropWaiting, TakeIdle, RepeatAck, TakeNext, pool, threads, session
  <2>5. \/ UNCHANGED <<handled, reader>>
        \/ \E t \in Sessions : HandOn(t, r)
    BY <1>1, <2>1 DEF DropWaiting, TakeIdle, RepeatAck, TakeNext, session, threads, Arrives
  <2>6. /\ \A t \in Sessions : handled'[t] = handled[t] \/ handled'[t] = r
        /\ reader'.req \in {reader.req, r}
    BY <2>5, Facts DEF HandOn
  <2>7. Counted
    BY <2>2, <2>3, <2>4, <2>6 DEF Counted
  <2>8. QED BY <2>7, CountedSafe
<1>2. CASE HearEvent \/ ReaderMarks
  <2>1. /\ UNCHANGED <<setup, reqs, line, lost, handled, block, app>>
        /\ reader'.req = 0
    BY <1>2 DEF HearEvent, ReaderMarks, MarkUsing, fc, session, pool, Idle, Nothing
  <2>2. Counted
    BY <2>1, Facts DEF Counted, Bounds
  <2>3. QED BY <2>2, CountedSafe
<1>3. CASE LostControlEnds \/ LostControlAcked
  <2>1. /\ UNCHANGED <<setup, reqs, line, app>>
        /\ reader.req \in 1 .. Len(reqs) /\ reader'.req \in {0, reader.req}
    BY <1>3, Facts DEF LostControlEnds, LostControlAcked, Received, Idle, Nothing, IInv, Types
  <2>2. reqs[reader.req].ses \in Sessions /\ reqs[reader.req].enc \in BOOLEAN
    BY <2>1, Asked DEF IInv
  <2>3. /\ UNCHANGED handled /\ lost' \in 0 .. setup.losses
        /\ \A d \in Entries : block'[d].ack = block[d].ack \/ block'[d].ack \in 0 .. Len(reqs)
    <3>1. CASE LostControlEnds
      <4>1. \/ UNCHANGED <<lost, handled, block>>
            \/ AckRefused(reqs[reader.req].ses)
            \/ \E e \in Entries : /\ AckBlock(reqs[reader.req].ses, e)
                                  /\ AckNoKey(reqs[reader.req].ses, e, reqs[reader.req].enc)
        BY <3>1 DEF LostControlEnds, session, pool
      <4>2. QED BY <2>1, <2>2, <4>1, AckBounded, Facts, SMTT(30)
    <3>2. CASE LostControlAcked
      BY <3>2, <2>1, <2>2, AckBounded, Facts DEF LostControlAcked
    <3>3. QED BY <1>3, <3>1, <3>2
  <2>4. Counted
    BY <2>1, <2>3 DEF Counted, Bounds
  <2>5. QED BY <2>4, CountedSafe
<1>4. QED BY <1>1, <1>2, <1>3 DEF ReadStep

LEMMA AppBounded ==
  ASSUME IInv, Bounds, AppStep PROVE Bounds'
<1>1. CASE AppAckFails \/ AppAckSent
  <2>1. PICK r \in inbox, enc \in BOOLEAN :
          /\ AppBegins(r) /\ UNCHANGED <<setup, reqs, line, reader>>
          /\ \/ AckRefused(reqs[r].ses) /\ app' = app
             \/ \E e \in Entries : AckBlock(reqs[r].ses, e) /\ AckNoKey(reqs[r].ses, e, enc) /\ app' = app
             \/ \E e \in Entries : /\ AckBlock(reqs[r].ses, e) /\ AckSent(reqs[r].ses, e, r, enc)
                                   /\ app' = [at |-> "acked", req |-> r]
    BY <1>1 DEF AppAckFails, AppAckSent
  <2>2. r \in 1 .. Len(reqs) /\ reqs[r].ses \in Sessions
    BY Facts, Asked DEF IInv
  <2>3. /\ UNCHANGED handled /\ lost' \in 0 .. setup.losses
        /\ app'.req \in {app.req, r}
        /\ \A d \in Entries : block'[d].ack = block[d].ack \/ block'[d].ack \in 0 .. Len(reqs)
    BY <2>1, <2>2, AckBounded, Facts
  <2>4. Counted
    BY <2>1, <2>2, <2>3 DEF Counted, Bounds
  <2>5. QED BY <2>4, CountedSafe
<1>2. CASE AppMarks
  <2>1. /\ UNCHANGED <<setup, reqs, line, lost, handled, block, reader>>
        /\ app'.req = 0
    BY <1>2 DEF AppMarks, MarkUsing, fc, pool, Idle, Nothing
  <2>2. Counted
    BY <2>1, Facts DEF Counted, Bounds
  <2>3. QED BY <2>2, CountedSafe
<1>3. CASE AppAckTooLong
  <2>1. Counted
    BY <1>3, Facts DEF AppAckTooLong, Counted, Bounds, fc, session, pool
  <2>2. QED BY <2>1, CountedSafe
<1>4. QED BY <1>1, <1>2, <1>3 DEF AppStep

LEMMA FcBounded ==
  ASSUME IInv, Bounds, FcStep PROVE Bounds'
<1>1. ASSUME NEW a \in setup.asks, Ask(a) PROVE Bounds'
  <2>1. /\ Len(reqs) < MaxRequests /\ reqs' = Append(reqs, a) /\ OnLine(Len(reqs'))
        /\ UNCHANGED <<setup, handled, block, reader, app>>
    BY <1>1 DEF Ask, session, pool, threads
  <2>2. Len(reqs') = Len(reqs) + 1 /\ Len(reqs') \in Nat
    BY <2>1, Facts DEF IInv, Types
  <2>3. Len(line') <= MaxLine /\ lost' \in 0 .. setup.losses
    BY <2>1, <2>2, LineBounded
  <2>4. reader.req \in Nat /\ app.req \in Nat
    BY DEF IInv, Types
  <2>5. QED BY <2>1, <2>2, <2>3, <2>4, Facts DEF Bounds
<1>2. ASSUME NEW s \in Sessions, Repeat(s) PROVE Bounds'
  <2>1. asked[s] \in Nat /\ OnLine(asked[s])
        /\ UNCHANGED <<setup, reqs, handled, block, reader, app>>
    BY <1>2, Facts DEF Repeat, session, pool, threads, IInv, Types
  <2>2. QED BY <2>1, LineBounded DEF Bounds
<1>3. ASSUME NEW s \in Sessions, GiveUp(s) PROVE Bounds'
  BY <1>3 DEF GiveUp, session, pool, threads, Bounds
<1>4. QED BY <1>1, <1>2, <1>3 DEF FcStep

LEMMA PoolBounded ==
  ASSUME IInv, Bounds, CommandAllocates \/ CommandFrees PROVE Bounds'
<1>1. UNCHANGED <<setup, reqs, line, lost, handled, reader, app>>
  BY DEF CommandAllocates, CommandFrees, fc, session, threads
<1>2. \A d \in Entries : block'[d].ack = block[d].ack \/ block'[d].ack = 0
  <2>1. \/ block' = block
        \/ \E e \in Entries : block' = [block EXCEPT ![e] = [ses |-> 0, ack |-> 0]]
    BY DEF CommandAllocates, CommandFrees, Nothing
  <2>2. ASSUME NEW e \in Entries, NEW d \in Entries,
               block' = [block EXCEPT ![e] = [ses |-> 0, ack |-> 0]]
        PROVE  block'[d].ack = block[d].ack \/ block'[d].ack = 0
    BY <2>2, Facts
  <2>3. QED BY <2>1, <2>2
<1>3. Counted
  BY <1>1, <1>2, Facts DEF Counted, Bounds
<1>4. QED BY <1>3, CountedSafe

-----------------------------------------------------------------------------
(* The theorems *)

LEMMA MobileInductive == MobileSpec => [](Bounds /\ Spinning)
<1>1. MobileInit => Bounds /\ Spinning
  <2>1. ASSUME MobileInit PROVE Bounds
    <3>1. setup \in Setups /\ reqs = <<>> /\ line = <<>> /\ lost = 0
          /\ handled = [s \in Sessions |-> 0]
          /\ block = [e \in Entries |-> [ses |-> 0, ack |-> 0]]
          /\ reader.req = 0 /\ app.req = 0
      BY <2>1 DEF MobileInit, Init, Idle, Nothing
    <3>2. QED BY <3>1, RequestAssumption DEF Bounds
  <2>2. QED BY <2>1, SpinInit
<1>2. ASSUME IInv, Bounds, Spinning, [MobileNext]_allVars
      PROVE  (Bounds /\ Spinning)'
  <2>1. CASE Next /\ UNCHANGED mobileVars
    <3>1. Bounds'
      BY <1>2, <2>1, ReadBounded, AppBounded, FcBounded, PoolBounded DEF Next
    <3>2. UNCHANGED setup
      BY <2>1 DEF Next, ReadStep, AppStep, FcStep, DropWaiting, TakeIdle, RepeatAck, TakeNext,
                  HearEvent, LostControlEnds, LostControlAcked, ReaderMarks, AppAckTooLong, AppAckFails,
                  AppAckSent, AppMarks, Ask, Repeat, GiveUp, CommandAllocates, CommandFrees
    <3>3. QED BY <1>2, <2>1, <3>1, <3>2 DEF mobileVars, Spinning, Order, Polled, Wanted
  <2>2. CASE HearMobile
    <3>1. /\ UNCHANGED <<setup, reqs, line, lost, handled, block, app>>
          /\ reader'.req = 0
      BY <2>2 DEF HearMobile, fc, session, pool, Idle, Nothing
    <3>2. Counted
      BY <1>2, <3>1, Facts DEF Counted, Bounds
    <3>3. QED BY <1>2, <2>2, <3>2, CountedSafe, HearMobileSafe
  <2>3. CASE SpinStep
    <3>1. Bounds'
      BY <1>2, <2>3, SpinApart DEF requestVars, fc, session, pool, threads, Bounds
    <3>2. QED BY <1>2, <2>3, <3>1, SpinSafe
  <2>4. CASE UNCHANGED allVars
    BY <1>2, <2>4 DEF allVars, mobileVars, requestVars, fc, session, pool, threads, Bounds,
                      Spinning, Order, Polled, Wanted
  <2>5. QED BY <1>2, <2>1, <2>2, <2>3, <2>4 DEF MobileNext
<1>3. QED BY <1>1, <1>2, MobileInvariant, PTL DEF MobileSpec

\* While the read thread sets flags and the loop clears them, no command that has come
\* is forgotten, and no trajectory is flown with options that are not its own, for any
\* requests, losses, setting of the flags before init and order of the commands.
THEOREM CommandsAsAsked == MobileSpec => []EachAsAsked
<1>1. ASSUME IInv, Bounds, Spinning PROVE EachAsAsked
  <2>1. RequestTypeOK
    <3>1. /\ \A i \in DOMAIN reqs : reqs[i].ses \in Sessions
          /\ \A i \in DOMAIN line : line[i] \in 1 .. Len(reqs)
      <4>1. reqs \in Seq(setup.asks) /\ line \in Seq(1 .. Len(reqs))
        BY <1>1 DEF IInv, Types
      <4>2. DOMAIN reqs = 1 .. Len(reqs) /\ \A i \in DOMAIN line : line[i] \in 1 .. Len(reqs)
        BY <4>1
      <4>3. QED BY <1>1, <4>2, Asked DEF IInv
    <3>2. handled \in [Sessions -> 0 .. Len(reqs)]
      BY <1>1, Facts DEF Bounds
    <3>3. block \in [Entries -> [ses : Sessions \cup {Nothing}, ack : 0 .. Len(reqs)]]
      <4>1. ASSUME NEW e \in Entries
            PROVE  block[e] \in [ses : Sessions \cup {Nothing}, ack : 0 .. Len(reqs)]
        BY <1>1, Facts DEF Bounds
      <4>2. QED BY <1>1, <4>1, Facts
    <3>4. lost <= setup.losses /\ reader.req \in 0 .. Len(reqs) /\ app.req \in 0 .. Len(reqs)
      BY <1>1, Facts DEF Bounds, IInv, Types
    <3>5. QED BY <1>1, <3>1, <3>2, <3>3, <3>4 DEF RequestTypeOK, IInv, Types, Bounds
  <2>2. QED BY <1>1, <2>1 DEF EachAsAsked, MobileTypeOK, Spinning, Flags, Wanted
<1>2. QED BY <1>1, MobileInvariant, MobileInductive, PTL

\* With flags that start cleared, the loop begins only commands the device asked for
\* and that it has not begun since.
THEOREM CommandsAsked == MobileSpec => OnlyWhatWasAsked
<1>1. ASSUME Spinning, setup.raised = {}, NEW id \in Polled, [MobileNext]_allVars,
             spin'.id = id, spin.at = "found"
      PROVE  id \in pending
  <2>1. spin' = spin \/ spin'.id = spin.id
    <3>1. CASE SpinStep
      BY <1>1, <3>1 DEF SpinStep, TestNext, EndCommand, PrecisionTakeoff, Fly, EndFlight, NextTurn,
                        BeginCommand, BeginPrecision, FindCommand, Found, Moves
    <3>2. QED BY <1>1, <3>1 DEF MobileNext, allVars, mobileVars, HearMobile
  <2>2. QED BY <1>1, <2>1 DEF Spinning
<1>2. ASSUME Spinning, [MobileNext]_allVars
      PROVE  setup.raised = {} => \A id \in Polled :
               spin'.id = id /\ spin.at = "found" => id \in pending
  BY <1>1, <1>2
<1>3. QED BY <1>2, MobileInductive, PTL DEF MobileSpec, OnlyWhatWasAsked
=============================================================================
