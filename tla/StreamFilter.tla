---------------------------- MODULE StreamFilter ----------------------------
(* The stream filter of CoreAPI (osdk-core/src/DJI_Codec.cpp): byteHandler    *)
(* collects the bytes of the serial port in recvBuf until a frame with a      *)
(* valid header and a valid data CRC is complete.  When a header is wrong it  *)
(* drops one byte and looks again.  When the data CRC is wrong the data is    *)
(* moved to the upper end of the same buffer and fed through the filter again *)
(* behind the header less one byte, so that frames inside the bytes claimed   *)
(* by a damaged frame are found.                                              *)
(*                                                                            *)
(* A byte is known by the frame and the place in it that it comes from, so a  *)
(* CRC is valid exactly when the bytes it covers are one frame's, in order.   *)
(* Decryption happens after the CRC test and changes no decision here.        *)
EXTENDS Naturals, SequencesExt

CONSTANTS HeaderSize,    \* sizeof(Header)
          MaxRecvSize,   \* _SDK_MAX_RECV_SIZE
          Lengths,       \* frame lengths the flight controller sends
          NFrames,       \* bound: frames sent in a behaviour
          MaxFaults      \* bound: losses, damages and insertions on the line

Frames == 1 .. NFrames

ASSUME FilterAssumption ==
  /\ HeaderSize \in Nat \ {0} /\ MaxRecvSize \in Nat /\ HeaderSize <= MaxRecvSize
  /\ \A n \in Lengths : n \in Nat /\ HeaderSize <= n /\ n < MaxRecvSize
  /\ NFrames \in Nat /\ MaxFaults \in Nat

VARIABLES length,     \* of each frame
          sending,    \* the frame on the line and how many of its bytes have gone
          whole,      \* whether these have all arrived undamaged, nothing between
          faults,
          arrived,    \* every byte that came in, in order
          intact,     \* the frames that came in whole
          recvBuf, recvIndex, reuseIndex,
          reusing,    \* reuseCount # 0: byteHandler is in its while loop
          handled     \* the frames given to appHandler

line   == <<length, sending, whole, faults, arrived, intact>>
filter == <<recvBuf, recvIndex, reuseIndex, reusing>>
vars   == <<line, filter, handled>>

Places  == 0 .. MaxRecvSize - 1
Garbage == <<0, 0>>          \* a byte of no frame
Byte(f, k) == <<f, k>>

Init == /\ length \in [Frames -> Lengths]
        /\ sending = [frame |-> 1, gone |-> 0]
        /\ whole = TRUE
        /\ faults = 0
        /\ arrived = << >>
        /\ intact = << >>
        /\ recvBuf = [i \in Places |-> Garbage]
        /\ recvIndex = 0
        /\ reuseIndex = 0
        /\ reusing = FALSE
        /\ handled = << >>

-----------------------------------------------------------------------------
(* The filter.  buf and n are recvBuf and recvIndex after storeData.          *)

\* memmove of count bytes of buf from src to dst.
Moved(buf, dst, src, count) ==
  [i \in Places |-> IF dst <= i /\ i < dst + count THEN buf[src + (i - dst)] ELSE buf[i]]

\* What verifyHead and verifyData test: the header is frame f's, the data is too.
HeadOf(buf, f)  == \A i \in 0 .. HeaderSize - 1 : buf[i] = Byte(f, i)
FrameAt(buf, f) == \A i \in 0 .. length[f] - 1 : buf[i] = Byte(f, i)

\* sdk_stream_shift_data_lambda drops one byte.
Shift(buf, n) == /\ recvIndex' = n - 1
                 /\ recvBuf' = Moved(buf, 0, 1, n - 1)

\* callApp: the frame is handled, and all but the last bytes of it are dropped
\* (sdk_stream_prepare_lambda).
CallApp(buf, n, f) ==
  LET keep == HeaderSize - 1 IN
  /\ handled' = Append(handled, f)
  /\ recvIndex' = keep
  /\ recvBuf' = [i \in Places |-> IF keep <= i /\ i < n THEN Garbage
                                  ELSE Moved(buf, 0, n - keep, keep)[i]]

\* As if a damaged frame were thrown away.
UpdateReusePart_Discard(buf, n, next) ==
  /\ recvIndex' = 0
  /\ recvBuf' = buf
  /\ reuseIndex' = next
  /\ reusing' = TRUE

\* As if the part of the data that is still to be fed again were forgotten.
UpdateReusePart_Overlay(buf, n, next) ==
  LET count == n - HeaderSize IN
  /\ Shift(Moved(buf, MaxRecvSize - count, HeaderSize, count), HeaderSize)
  /\ reuseIndex' = MaxRecvSize - count
  /\ reusing' = TRUE

\* As if the header were kept whole.
UpdateReusePart_NoShift(buf, n, next) ==
  LET count == n - HeaderSize IN
  /\ recvBuf' = Moved(buf, next - count, HeaderSize, count)
  /\ recvIndex' = HeaderSize
  /\ reuseIndex' = next - count
  /\ reusing' = TRUE

\* sdk_stream_update_reuse_part_lambda: the data goes in front of what is still
\* to be fed again, from next on, and the header loses its first byte.
UpdateReusePart(buf, n, next) ==
  LET count == n - HeaderSize IN
  /\ Shift(Moved(buf, next - count, HeaderSize, count), HeaderSize)
  /\ reuseIndex' = next - count
  /\ reusing' = TRUE

\* storeData makes a full buffer empty, and the byte is lost.
StoreData(b) == IF recvIndex < MaxRecvSize
                THEN [buf |-> [recvBuf EXCEPT ![recvIndex] = b], n |-> recvIndex + 1]
                ELSE [buf |-> [i \in Places |-> Garbage], n |-> 0]

\* streamHandler: storeData, then checkStream on what is now in the buffer.  next
\* is reuseIndex, past the byte if that came from the reused part.
StreamHandler(b, next) ==
  LET buf == StoreData(b).buf
      n   == StoreData(b).n
      Headed == n >= HeaderSize /\ \E f \in Frames : HeadOf(buf, f)
      Complete(f) == n >= HeaderSize /\ HeadOf(buf, f) /\ n = length[f]
      Wait == /\ recvBuf' = buf /\ recvIndex' = n
              /\ UNCHANGED handled
      Damaged(f) == Complete(f) /\ ~FrameAt(buf, f)
  IN /\ \/ n < HeaderSize /\ Wait
        \/ Headed /\ (\A f \in Frames : ~Complete(f)) /\ Wait
        \/ n >= HeaderSize /\ ~Headed /\ Shift(buf, n) /\ UNCHANGED handled
        \/ \E f \in Frames : Complete(f) /\ FrameAt(buf, f) /\ CallApp(buf, n, f)
        \/ \E f \in Frames : Damaged(f) /\ UpdateReusePart(buf, n, next) /\ UNCHANGED handled
     /\ (\A f \in Frames : ~Damaged(f)) => reuseIndex' = next /\ UNCHANGED reusing

\* byteHandler starts with reuseIndex at the end and feeds the byte that came.
ByteHandler(b) == ~reusing /\ StreamHandler(b, MaxRecvSize)

\* Its loop feeds the reused part until nothing is left of it.
Refeed == /\ reusing /\ reuseIndex < MaxRecvSize
          /\ StreamHandler(recvBuf[reuseIndex], reuseIndex + 1)
          /\ UNCHANGED line

RefeedDone == /\ reusing /\ reuseIndex >= MaxRecvSize
              /\ reusing' = FALSE
              /\ UNCHANGED <<line, recvBuf, recvIndex, reuseIndex, handled>>

-----------------------------------------------------------------------------
(* The serial line *)

\* The next k bytes of the frame being sent are gone, and arrive or not.
Progress(k, arrive) ==
  LET f    == sending.frame
      last == sending.gone + k = length[f]
  IN /\ f \in Frames /\ sending.gone + k <= length[f]
     /\ sending' = IF last THEN [frame |-> f + 1, gone |-> 0]
                           ELSE [sending EXCEPT !.gone = @ + k]
     /\ whole' = (last \/ (whole /\ arrive))
     /\ intact' = IF last /\ whole /\ arrive THEN Append(intact, f) ELSE intact

Receive(b) == ByteHandler(b) /\ arrived' = Append(arrived, b)

ByteArrives == /\ Progress(1, TRUE)
               /\ Receive(Byte(sending.frame, sending.gone))
               /\ UNCHANGED <<length, faults>>

Fault == faults < MaxFaults /\ faults' = faults + 1 /\ UNCHANGED length

ByteDamaged == Fault /\ Progress(1, FALSE) /\ Receive(Garbage)

\* One byte is lost, or the rest of the frame.
BytesLost == /\ Fault /\ sending.frame \in Frames
             /\ \E k \in {1, length[sending.frame] - sending.gone} : Progress(k, FALSE)
             /\ UNCHANGED <<arrived, filter, handled>>

\* Noise does no harm between two frames.
ByteInserted == /\ Fault /\ Receive(Garbage)
                /\ whole' = (whole /\ sending.gone = 0)
                /\ UNCHANGED <<sending, intact>>

Next == ByteArrives \/ ByteDamaged \/ BytesLost \/ ByteInserted \/ Refeed \/ RefeedDone

\* The read thread runs its loop to the end; the line may fall silent.
Spec == Init /\ [][Next]_vars /\ WF_vars(Refeed \/ RefeedDone)

-----------------------------------------------------------------------------
Bytes == {Garbage} \cup {Byte(f, k) : f \in Frames, k \in 0 .. MaxRecvSize}

\* Types, and the collected part never grows into the part still to be fed.
TypeOK == /\ recvBuf \in [Places -> Bytes]
          /\ recvIndex \in 0 .. MaxRecvSize
          /\ reuseIndex \in 0 .. MaxRecvSize
          /\ reusing \in BOOLEAN
          /\ reusing => recvIndex <= reuseIndex
          /\ arrived \in Seq(Bytes)
          /\ handled \in Seq(Frames) /\ intact \in Seq(Frames)

\* What the filter still has to look at: the collected bytes and, in the loop,
\* the ones to be fed again.
Pending == [i \in 1 .. recvIndex |-> recvBuf[i - 1]] \o
           [i \in 1 .. (IF reusing THEN MaxRecvSize - reuseIndex ELSE 0) |->
              recvBuf[reuseIndex + i - 1]]

\* The filter skips no byte and moves none out of place, within the bounds of its
\* buffer: what it has yet to look at is the last bytes that arrived, in their order.
NothingSkipped == TypeOK /\ IsSuffix(Pending, arrived)

\* Frames are handled in the order they came, each once, and only whole ones; and
\* whenever the filter is not collecting the data of a frame, every whole frame that
\* came has been handled, the ones swallowed by damaged frames included.
FramesHandled == /\ IsPrefix(handled, intact)
                 /\ ~reusing /\ recvIndex < HeaderSize => handled = intact

\* byteHandler returns: feeding the data again ends.
ByteHandlerReturns == reusing ~> ~reusing
=============================================================================
