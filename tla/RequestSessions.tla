-------------------------- MODULE RequestSessions ---------------------------
(* The sessions in which the flight controller sends requests to CoreAPI      *)
(* (appHandler's request branch and ackInterface of DJI_Link.cpp, recvReqData *)
(* of DJI_App.cpp, allocACK of DJI_Memory.cpp).  The read thread hands a      *)
(* request on once, and answers its repetitions with the ACK it keeps in the  *)
(* frame pool; that ACK is made by the read thread itself or by an            *)
(* application thread that calls CoreAPI::ack.                                *)
(*                                                                            *)
(* A request is represented by its number, which is its sequence number too.  *)
(* What runs under the memory mutex is one step; what the code does outside   *)
(* of it is a step of its own.  Whether a frame fits is MemoryPool's: here an *)
(* allocation may be refused at any time.                                     *)
EXTENDS Naturals, Sequences, FiniteSets

CONSTANTS Sessions,     \* session ids, of 0..31
          Entries,      \* entries of the pool's table, numbers
          Setups,       \* what surrounds the sessions, see setup
          MaxRequests,  \* bound: requests made in a behaviour
          MaxLine       \* bound: requests on the line together

Guarded  == Sessions \ {0, 1}
Requests == 1 .. MaxRequests
Nothing  == 0                   \* no request, no entry, no session

ASSUME RequestAssumption ==
  /\ Sessions \subseteq 0 .. 31 /\ Entries \subseteq Nat \ {0}
  /\ MaxRequests \in Nat /\ MaxLine \in Nat
  /\ \A x \in Setups : x.losses \in Nat /\ \A a \in x.asks :
       a.ses \in Sessions /\ a.enc \in BOOLEAN /\ (a.ses = 1 /\ a.enc => x.key)  \* see README, Proofs

VARIABLES setup,        \* never changes: the requests that may be made (asks), how
                        \* many frames may be lost either way (losses), the kinds of
                        \* request that have a callback (callbacks), whether the key
                        \* is set (key), whether the pool always has room and no ACK is
                        \* over-sized (room),
                        \* whether commands use it (cmds) and whether the flight
                        \* controller never gives up (insists)
          reqs,         \* the requests made, in order
          asked,        \* request the flight controller wants answered, per session
          line,         \* requests on their way
          lost,         \* frames lost so far
          status, mmu,  \* ACKSession.sessionStatus and mmu
          taken,        \* entries whose usageFlag is 1
          block,        \* session and request of the ACK written last in each entry
          cmds,         \* entries that commands have allocated
          reader,       \* read thread: [at, req]
          app, inbox,   \* application thread, and the requests handed to it
          handled       \* the last request handed on, per session

fc      == <<reqs, asked, line, lost>>
session == <<status, mmu, handled>>
pool    == <<taken, block, cmds>>
threads == <<reader, app, inbox>>
requestVars == <<setup, fc, session, pool, threads>>

Idle(where) == [at |-> where, req |-> Nothing]

Init == /\ setup \in Setups
        /\ reqs = <<>> /\ line = <<>> /\ lost = 0
        /\ asked = [s \in Sessions |-> Nothing]
        /\ status = [s \in Sessions |-> "idle"]
        /\ mmu = [s \in Sessions |-> Nothing]
        /\ handled = [s \in Sessions |-> Nothing]
        /\ taken = {} /\ cmds = {}
        /\ block = [e \in Entries |-> [ses |-> Nothing, ack |-> Nothing]]
        /\ reader = Idle("reading") /\ app = Idle("idle") /\ inbox = {}

-----------------------------------------------------------------------------
(* The flight controller and the line *)

Lose == lost < setup.losses /\ lost' = lost + 1

OnLine(r) == \/ Len(line) < MaxLine /\ line' = Append(line, r) /\ UNCHANGED lost
             \/ Lose /\ UNCHANGED line

\* In session 0 nothing is answered; in each other session one request waits.
Ask(a) == /\ Len(reqs) < MaxRequests /\ asked[a.ses] = Nothing
          /\ reqs' = Append(reqs, a)
          /\ asked' = IF a.ses = 0 THEN asked ELSE [asked EXCEPT ![a.ses] = Len(reqs')]
          /\ OnLine(Len(reqs'))
          /\ UNCHANGED <<setup, session, pool, threads>>

Repeat(s) == /\ asked[s] # Nothing /\ OnLine(asked[s])
             /\ UNCHANGED <<setup, reqs, asked, session, pool, threads>>

GiveUp(s) == /\ ~setup.insists /\ asked[s] # Nothing
             /\ asked' = [asked EXCEPT ![s] = Nothing]
             /\ UNCHANGED <<setup, reqs, line, lost, session, pool, threads>>

\* sendData of an ACK: it settles the request it answers, unless it is lost.
SendAck(s, r) == \/ /\ asked' = [asked EXCEPT ![s] = IF @ = r THEN Nothing ELSE @]
                    /\ UNCHANGED lost
                 \/ Lose /\ UNCHANGED asked

-----------------------------------------------------------------------------
(* The pool, as commands use it *)

FirstFree(e, used) == e \in Entries \ used /\ \A d \in Entries \ used : e <= d

CommandAllocates == /\ setup.cmds
                    /\ \E e \in Entries : /\ FirstFree(e, taken)
                                          /\ taken' = taken \cup {e} /\ cmds' = cmds \cup {e}
                                          /\ block' = [block EXCEPT ![e] = [ses |-> Nothing, ack |-> Nothing]]
                    /\ UNCHANGED <<setup, fc, session, threads>>

CommandFrees == /\ \E e \in cmds : taken' = taken \ {e} /\ cmds' = cmds \ {e}
                /\ UNCHANGED <<setup, fc, session, block, threads>>

-----------------------------------------------------------------------------
(* ackInterface, called by a thread (reader or app) for request r             *)

\* allocACK frees the block of the last ACK first.
Kept(s) == taken \ {mmu[s]}

\* As if a refused allocation were only logged and the session marked all the same.
AckRefused_Marked(s) == /\ ~setup.room /\ taken' = Kept(s)
                        /\ status' = [status EXCEPT ![s] = "using"]
                        /\ UNCHANGED <<mmu, block, cmds, asked, lost, handled>>

\* It then keeps the pointer to it if there is no room for the new one.
AckRefused(s) == /\ \/ ~setup.room
                    \/ Entries \subseteq Kept(s)
                 /\ taken' = Kept(s)
                 /\ UNCHANGED <<status, mmu, block, cmds, asked, lost, handled>>

\* encrypt fails without a key; the block is kept, and nothing is sent.
AckNoKey(s, e, enc) == /\ enc /\ ~setup.key
                       /\ block' = [block EXCEPT ![e] = [ses |-> s, ack |-> Nothing]]
                       /\ UNCHANGED <<asked, lost>>

AckSent(s, e, r, enc) == /\ enc => setup.key
                         /\ block' = [block EXCEPT ![e] = [ses |-> s, ack |-> r]]
                         /\ SendAck(s, r)

\* The entry for the ACK of session s.
AckBlock(s, e) == /\ FirstFree(e, Kept(s))
                  /\ taken' = Kept(s) \cup {e} /\ mmu' = [mmu EXCEPT ![s] = e]
                  /\ UNCHANGED <<status, handled, cmds>>

\* The session becomes USING only after the mutex was given back.
MarkUsing(s) == /\ status' = [status EXCEPT ![s] = "using"]
                /\ UNCHANGED <<mmu, handled>>

-----------------------------------------------------------------------------
(* CoreAPI::ack, called once for a request handed to the application, except  *)
(* in session 1, whose requests need no ACK                                   *)

AppBegins(r) == /\ app.at = "idle" /\ r \in inbox /\ reqs[r].ses \in Guarded
                /\ inbox' = inbox \ {r}

\* ackInterface looks at the length first and leaves everything as it is.
AppAckTooLong == /\ ~setup.room /\ \E r \in inbox : AppBegins(r)
                 /\ UNCHANGED <<setup, fc, session, pool, reader, app>>

AppAckFails == \E r \in inbox, enc \in BOOLEAN :
                 LET s == reqs[r].ses IN
                 /\ AppBegins(r)
                 /\ \/ AckRefused(s)
                    \/ \E e \in Entries : AckBlock(s, e) /\ AckNoKey(s, e, enc)
                 /\ UNCHANGED <<setup, reqs, line, reader, app>>

AppAckSent == \E r \in inbox, enc \in BOOLEAN, e \in Entries :
                LET s == reqs[r].ses IN
                /\ AppBegins(r)
                /\ AckBlock(s, e) /\ AckSent(s, e, r, enc)
                /\ app' = [at |-> "acked", req |-> r]
                /\ UNCHANGED <<setup, reqs, line, reader>>

AppMarks == /\ app.at = "acked" /\ MarkUsing(reqs[app.req].ses)
            /\ app' = Idle("idle")
            /\ UNCHANGED <<setup, fc, pool, reader, inbox>>

-----------------------------------------------------------------------------
(* appHandler on the read thread *)

Arrives(s, r) == /\ reader.at = "reading" /\ line # <<>>
                 /\ r = Head(line) /\ s = reqs[r].ses /\ line' = Tail(line)

\* recvReqData is called next, after the session was marked.
HandOn(s, r) == /\ reader' = [at |-> "recvReqData", req |-> r]
                /\ handled' = [handled EXCEPT ![s] = r]

DropWaiting == \E s \in Sessions, r \in Requests :
                 /\ Arrives(s, r) /\ s # 0 /\ status[s] = "process"
                 /\ UNCHANGED <<setup, reqs, asked, lost, session, pool, threads>>

\* As if only a session that has been used once were marked.
TakeIdle_Unmarked == \E s \in Sessions, r \in Requests :
              /\ Arrives(s, r) /\ (s = 0 \/ status[s] = "idle")
              /\ HandOn(s, r)
              /\ UNCHANGED <<setup, reqs, asked, lost, status, mmu, pool, app, inbox>>

TakeIdle == \E s \in Sessions, r \in Requests :
              /\ Arrives(s, r) /\ (s = 0 \/ status[s] = "idle")
              /\ status' = IF s > 1 THEN [status EXCEPT ![s] = "process"] ELSE status
              /\ HandOn(s, r)
              /\ UNCHANGED <<setup, reqs, asked, lost, mmu, pool, app, inbox>>

\* Only the sequence number in the stored frame is compared.
Stored(s) == block[mmu[s]].ack

\* As if a repetition of an answered request were dropped.
RepeatAck_Drops == \E s \in Sessions, r \in Requests :
               /\ Arrives(s, r) /\ s # 0 /\ status[s] = "using" /\ Stored(s) = r
               /\ UNCHANGED <<setup, reqs, asked, lost, session, pool, threads>>

RepeatAck == \E s \in Sessions, r \in Requests :
               /\ Arrives(s, r) /\ s # 0 /\ status[s] = "using" /\ Stored(s) = r
               /\ SendAck(s, r)
               /\ UNCHANGED <<setup, reqs, session, pool, threads>>

TakeNext == \E s \in Sessions, r \in Requests :
              /\ Arrives(s, r) /\ s # 0 /\ status[s] = "using" /\ Stored(s) # r
              /\ status' = [status EXCEPT ![s] = "process"]
              /\ HandOn(s, r)
              /\ UNCHANGED <<setup, reqs, asked, lost, mmu, pool, app, inbox>>

-----------------------------------------------------------------------------
(* recvReqData *)

Received(kind) == reader.at = "recvReqData" /\ reqs[reader.req].kind = kind

\* An event goes to its callback or to recvCallback, if one of them is set.
HearEvent == /\ Received("event")
             /\ inbox' = IF "event" \in setup.callbacks THEN inbox \cup {reader.req} ELSE inbox
             /\ reader' = Idle("reading")
             /\ UNCHANGED <<setup, fc, session, pool, app>>

\* The loss of control is acknowledged here, as the request was encrypted.
LostControlEnds == /\ Received("lostctrl")
                   /\ LET s == reqs[reader.req].ses IN
                      \/ /\ s = 0 /\ UNCHANGED <<asked, lost, session, pool>>
                      \/ s # 0 /\ AckRefused(s)
                      \/ /\ s # 0
                         /\ \E e \in Entries : AckBlock(s, e) /\ AckNoKey(s, e, reqs[reader.req].enc)
                   /\ reader' = Idle("reading")
                   /\ UNCHANGED <<setup, reqs, line, app, inbox>>

LostControlAcked == /\ Received("lostctrl")
                    /\ LET s == reqs[reader.req].ses IN
                       /\ s # 0
                       /\ \E e \in Entries : /\ AckBlock(s, e)
                                             /\ AckSent(s, e, reader.req, reqs[reader.req].enc)
                    /\ reader' = [reader EXCEPT !.at = "acked"]
                    /\ UNCHANGED <<setup, reqs, line, app, inbox>>

ReaderMarks == /\ reader.at = "acked" /\ MarkUsing(reqs[reader.req].ses)
               /\ reader' = Idle("reading")
               /\ UNCHANGED <<setup, fc, pool, app, inbox>>

-----------------------------------------------------------------------------
ReadStep == DropWaiting \/ TakeIdle \/ RepeatAck \/ TakeNext \/ HearEvent
            \/ LostControlEnds \/ LostControlAcked \/ ReaderMarks
AppStep  == AppAckTooLong \/ AppAckFails \/ AppAckSent \/ AppMarks
FcStep   == \/ \E a \in setup.asks : Ask(a)
            \/ \E s \in Sessions : Repeat(s) \/ GiveUp(s)
Next     == ReadStep \/ AppStep \/ FcStep \/ CommandAllocates \/ CommandFrees

\* The two threads run; a flight controller that insists repeats its request (the
\* bound MaxLine may hold a repetition back, hence the strong fairness).
Fairness == /\ WF_requestVars(ReadStep) /\ WF_requestVars(AppStep)
            /\ \A s \in Sessions : SF_requestVars(Repeat(s))

Spec == Init /\ [][Next]_requestVars /\ Fairness
-----------------------------------------------------------------------------
(* Properties *)

RequestTypeOK ==
  /\ setup \in Setups
  /\ Len(reqs) <= MaxRequests /\ Len(line) <= MaxLine /\ lost <= setup.losses
  /\ \A i \in DOMAIN reqs : reqs[i].ses \in Sessions
  /\ \A i \in DOMAIN line : line[i] \in 1 .. Len(reqs)
  /\ asked \in [Sessions -> 0 .. Len(reqs)] /\ handled \in [Sessions -> 0 .. Len(reqs)]
  /\ status \in [Sessions -> {"idle", "process", "using"}]
  /\ mmu \in [Sessions -> Entries \cup {Nothing}]
  /\ taken \subseteq Entries /\ cmds \subseteq Entries
  /\ block \in [Entries -> [ses : Sessions \cup {Nothing}, ack : 0 .. Len(reqs)]]
  /\ reader.at \in {"reading", "recvReqData", "acked"} /\ reader.req \in 0 .. Len(reqs)
  /\ app.at \in {"idle", "acked"} /\ app.req \in 0 .. Len(reqs)
  /\ inbox \subseteq 1 .. Len(reqs)

\* The block of a command is never freed by somebody else, although allocACK frees
\* through a pointer it does not reset when its allocation fails.
CommandsKeepBlocks == \A e \in cmds : e \in taken /\ block[e].ses = Nothing

\* A session that answers repetitions holds the ACK of the request it handled
\* last, in a block of its own.
OwnReply == \A s \in Sessions : status[s] = "using" =>
              /\ mmu[s] \in taken \ cmds
              /\ block[mmu[s]] = [ses |-> s, ack |-> handled[s]]

\* Replies and commands share the pool without harm to either.
RepliesKept == CommandsKeepBlocks /\ OwnReply

\* The requests of a guarded session are handled in order and once, one at a time.
Requester == INSTANCE RequestService WITH
               Sessions <- Guarded,
               latest <- [s \in Guarded |-> handled[s]],
               open <- {s \in Guarded : status[s] = "process"}
ImplementsRequests == Requester!Spec

\* A flight controller that insists gets its answer, however requests and ACKs are
\* lost, if the application has a callback and the ACK can be made: again and again
\* no request is left without one.
EveryRequestAnswered == setup.insists => []<>(\A s \in Sessions : asked[s] = Nothing)
=============================================================================
