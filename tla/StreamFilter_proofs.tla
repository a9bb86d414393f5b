------------------------ MODULE StreamFilter_proofs -------------------------
(* The stream filter, for every size of header and buffer, all lengths of     *)
(* frames and any damage on the line: it moves no byte out of place, though   *)
(* it feeds data again from the end of the buffer it collects in, and it      *)
(* handles the frames that come in whole, each once and in their order.       *)
EXTENDS StreamFilter, TLAPS

-----------------------------------------------------------------------------
(* The inductive invariant *)

\* What is in the buffer, n bytes collected and the rest from next on to be fed again,
\* are the last bytes of arr, in their order.
Dropped(n, next, arr) == Len(arr) - n - (MaxRecvSize - next)

Fed(buf, n, next, arr) ==
  /\ n <= next /\ Dropped(n, next, arr) >= 0
  /\ \A i \in 0 .. n - 1 : buf[i] = arr[Dropped(n, next, arr) + i + 1]
  /\ \A i \in next .. MaxRecvSize - 1 : buf[i] = arr[Len(arr) - MaxRecvSize + i + 1]

From    == IF reusing THEN reuseIndex ELSE MaxRecvSize
Aligned == Fed(recvBuf, recvIndex, From, arrived)

\* More bytes than a header less one are collected only behind a header.
Short(buf, n) == n < HeaderSize \/ \E f \in Frames : HeadOf(buf, f) /\ n < length[f]

Collecting == Short(recvBuf, recvIndex)

FilterInv == TypeOK /\ length \in [Frames -> Lengths] /\ Aligned /\ Collecting

\* Frame f lies at place p of arr; or what there is of arr from p on may become f.
WholeAt(arr, f, p) == /\ p + length[f] <= Len(arr)
                      /\ \A k \in 0 .. length[f] - 1 : arr[p + k + 1] = Byte(f, k)
RunAt(arr, f, p)   == /\ p < Len(arr)
                      /\ \A k \in 0 .. length[f] - 1 :
                           p + k < Len(arr) => arr[p + k + 1] = Byte(f, k)

\* Bytes come in the order they are sent.
Before(f, k, g, l) == f < g \/ (f = g /\ k < l)
Ordered(arr) ==
  \A i, j \in 1 .. Len(arr) : \A f, g \in Frames : \A k, l \in Nat :
    i < j /\ arr[i] = Byte(f, k) /\ arr[j] = Byte(g, l) => Before(f, k, g, l)
SentBefore(arr) ==
  \A i \in 1 .. Len(arr) : \A f \in Frames : \A k \in Nat :
    arr[i] = Byte(f, k) => Before(f, k, sending.frame, sending.gone)

\* The frame being sent is whole so far if arr ends with all its bytes.
Partial(arr) == /\ sending.gone <= Len(arr)
                /\ \A k \in 0 .. sending.gone - 1 :
                     arr[Len(arr) - sending.gone + k + 1] = Byte(sending.frame, k)

\* intact are the frames that lie somewhere in arr.
Came(arr, frames) ==
  /\ \A i, j \in 1 .. Len(frames) : i < j => frames[i] < frames[j]
  /\ \A f \in Frames : (\E i \in 1 .. Len(frames) : frames[i] = f)
                         <=> (\E p \in 0 .. Len(arr) : WholeAt(arr, f, p))

\* The frame being sent has bytes left, or there is none.
Sent == /\ sending \in [frame : 1 .. NFrames + 1, gone : Nat]
        /\ IF sending.frame \in Frames THEN sending.gone < length[sending.frame]
                                       ELSE sending.gone = 0

LineInv == /\ Sent
           /\ whole \in BOOLEAN /\ (whole <=> Partial(arrived))
           /\ Ordered(arrived) /\ SentBefore(arrived) /\ Came(arrived, intact)

\* The filter has dropped the first byte of the frames it has handled, and of no
\* other that is, or may become, whole.
Kept(arr, start, done) ==
  \A f \in Frames : \A p \in 0 .. Len(arr) :
    RunAt(arr, f, p) => (p >= start <=> ~\E i \in 1 .. Len(done) : done[i] = f)

Prefix(done, frames) == /\ Len(done) <= Len(frames)
                        /\ \A i \in 1 .. Len(done) : done[i] = frames[i]

Looking == /\ Kept(arrived, Dropped(recvIndex, From, arrived), handled)
           /\ Prefix(handled, intact)

IInv == FilterInv /\ LineInv /\ Looking

-----------------------------------------------------------------------------
(* Bytes and frames *)

LEMMA Sizes ==
  /\ HeaderSize \in Nat /\ HeaderSize >= 1 /\ MaxRecvSize \in Nat /\ HeaderSize <= MaxRecvSize
  /\ Places = 0 .. MaxRecvSize - 1 /\ NFrames \in Nat
  BY FilterAssumption DEF Places

LEMMA Length ==
  ASSUME length \in [Frames -> Lengths], NEW f \in Frames
  PROVE  length[f] \in Nat /\ HeaderSize <= length[f] /\ length[f] < MaxRecvSize
  BY FilterAssumption

LEMMA BytesDiffer ==
  /\ \A f, g \in Frames : \A k, l \in Nat : Byte(f, k) = Byte(g, l) => f = g /\ k = l
  /\ \A f \in Frames : \A k \in Nat : Byte(f, k) # Garbage
  BY FilterAssumption DEF Byte, Garbage, Frames

LEMMA OneHead ==
  ASSUME NEW buf, NEW f \in Frames, NEW g \in Frames, HeadOf(buf, f), HeadOf(buf, g)
  PROVE  f = g
<1>1. 0 \in 0 .. HeaderSize - 1
  BY Sizes
<1>2. QED BY <1>1, BytesDiffer DEF HeadOf

-----------------------------------------------------------------------------
(* What the filter does with a byte *)

\* The cases of streamHandler, with the byte stored.
Headed(buf) == \E f \in Frames : HeadOf(buf, f)

Waits(buf, n, next) ==
  /\ n < HeaderSize \/ (Headed(buf) /\ \A f \in Frames : HeadOf(buf, f) => n # length[f])
  /\ recvBuf' = buf /\ recvIndex' = n /\ reuseIndex' = next
  /\ UNCHANGED <<handled, reusing>>
Shifts(buf, n, next) ==
  /\ n >= HeaderSize /\ ~Headed(buf)
  /\ Shift(buf, n) /\ reuseIndex' = next /\ UNCHANGED <<handled, reusing>>
Calls(buf, n, next, f) ==
  /\ n >= HeaderSize /\ HeadOf(buf, f) /\ n = length[f] /\ FrameAt(buf, f)
  /\ CallApp(buf, n, f) /\ reuseIndex' = next /\ UNCHANGED reusing
Reuses(buf, n, next, f) ==
  /\ n >= HeaderSize /\ HeadOf(buf, f) /\ n = length[f] /\ ~FrameAt(buf, f)
  /\ UpdateReusePart(buf, n, next) /\ UNCHANGED handled

Handles(buf, n, next) ==
  \/ Waits(buf, n, next) \/ Shifts(buf, n, next)
  \/ \E f \in Frames : Calls(buf, n, next, f) \/ Reuses(buf, n, next, f)

LEMMA Cases ==
  ASSUME NEW b, NEW next, StreamHandler(b, next), StoreData(b).n \in Nat
  PROVE  Handles(StoreData(b).buf, StoreData(b).n, next)
<1> DEFINE buf == StoreData(b).buf
           n   == StoreData(b).n
           Complete(f) == n >= HeaderSize /\ HeadOf(buf, f) /\ n = length[f]
           Damaged(f)  == Complete(f) /\ ~FrameAt(buf, f)
           Wait == recvBuf' = buf /\ recvIndex' = n /\ UNCHANGED handled
<1>1. /\ \/ n < HeaderSize /\ Wait
         \/ (n >= HeaderSize /\ Headed(buf)) /\ (\A f \in Frames : ~Complete(f)) /\ Wait
         \/ n >= HeaderSize /\ ~(n >= HeaderSize /\ Headed(buf)) /\ Shift(buf, n) /\ UNCHANGED handled
         \/ \E f \in Frames : Complete(f) /\ FrameAt(buf, f) /\ CallApp(buf, n, f)
         \/ \E f \in Frames : Damaged(f) /\ UpdateReusePart(buf, n, next) /\ UNCHANGED handled
      /\ (\A f \in Frames : ~Damaged(f)) => reuseIndex' = next /\ UNCHANGED reusing
  BY Zenon DEF StreamHandler, Headed
<1> SUFFICES ASSUME n \in Nat PROVE Handles(buf, n, next)
  OBVIOUS
<1> HIDE DEF buf, n
<1>2. CASE n < HeaderSize /\ Wait
  <2>1. \A f \in Frames : ~Damaged(f)
    BY <1>2, Sizes
  <2>2. QED BY <1>1, <1>2, <2>1 DEF Handles, Waits
<1>3. CASE (n >= HeaderSize /\ Headed(buf)) /\ (\A f \in Frames : ~Complete(f)) /\ Wait
  BY <1>1, <1>3 DEF Handles, Waits
<1>4. CASE n >= HeaderSize /\ ~(n >= HeaderSize /\ Headed(buf)) /\ Shift(buf, n) /\ UNCHANGED handled
  BY <1>1, <1>4 DEF Handles, Shifts, Headed
<1>5. CASE \E f \in Frames : Complete(f) /\ FrameAt(buf, f) /\ CallApp(buf, n, f)
  <2>1. PICK f \in Frames : Complete(f) /\ FrameAt(buf, f) /\ CallApp(buf, n, f)
    BY <1>5
  <2>2. \A g \in Frames : ~Damaged(g)
    BY <2>1, OneHead
  <2>3. QED BY <1>1, <2>1, <2>2 DEF Handles, Calls
<1>6. CASE \E f \in Frames : Damaged(f) /\ UpdateReusePart(buf, n, next) /\ UNCHANGED handled
  BY <1>6 DEF Handles, Reuses
<1>7. QED BY <1>1, <1>2, <1>3, <1>4, <1>5, <1>6

\* A buffer with a byte more than it had after the last call.
Loaded(buf, n, next, arr) ==
  /\ buf \in [Places -> Bytes] /\ n \in 1 .. MaxRecvSize /\ next \in 0 .. MaxRecvSize
  /\ arr \in Seq(Bytes) /\ Fed(buf, n, next, arr)
  /\ reusing \in BOOLEAN /\ (reusing \/ next = MaxRecvSize)
  /\ n <= HeaderSize \/ \E f \in Frames : HeadOf(buf, f) /\ n <= length[f]

\* The buffer is never full, so that storeData keeps every byte.
LEMMA Stored ==
  ASSUME FilterInv, NEW b \in Bytes
  PROVE  /\ recvIndex < MaxRecvSize
         /\ StoreData(b).buf = [recvBuf EXCEPT ![recvIndex] = b] /\ StoreData(b).n = recvIndex + 1
<1>1. recvIndex \in Nat /\ recvIndex < MaxRecvSize
  BY Sizes, Length DEF FilterInv, TypeOK, Collecting, Short
<1>2. QED BY <1>1 DEF StoreData

LEMMA StillHeaded ==
  ASSUME FilterInv, NEW b \in Bytes
  PROVE  LET buf == [recvBuf EXCEPT ![recvIndex] = b]
         IN  recvIndex + 1 <= HeaderSize \/ \E f \in Frames : HeadOf(buf, f) /\ recvIndex + 1 <= length[f]
<1> DEFINE buf == [recvBuf EXCEPT ![recvIndex] = b]
<1>1. recvIndex \in Nat /\ recvBuf \in [Places -> Bytes]
  BY DEF FilterInv, TypeOK
<1>2. CASE recvIndex < HeaderSize
  BY <1>1, <1>2, Sizes
<1>3. CASE ~(recvIndex < HeaderSize)
  <2>1. PICK f \in Frames : HeadOf(recvBuf, f) /\ recvIndex < length[f]
    BY <1>3 DEF FilterInv, Collecting, Short
  <2>2. \A i \in 0 .. HeaderSize - 1 : buf[i] = recvBuf[i]
    BY <1>1, <1>3, Sizes
  <2>3. HeadOf(buf, f)
    BY <2>1, <2>2 DEF HeadOf
  <2>4. QED BY <1>1, <2>1, <2>3, Length DEF FilterInv
<1>4. QED BY <1>2, <1>3

\* byteHandler begins with the byte that has come,
LEMMA LoadedByCall ==
  ASSUME FilterInv, NEW b \in Bytes, ~reusing
  PROVE  /\ Loaded([recvBuf EXCEPT ![recvIndex] = b], recvIndex + 1, MaxRecvSize, Append(arrived, b))
         /\ Dropped(recvIndex + 1, MaxRecvSize, Append(arrived, b)) = Dropped(recvIndex, From, arrived)
<1> DEFINE buf == [recvBuf EXCEPT ![recvIndex] = b]
           arr == Append(arrived, b)
           start == Len(arrived) - recvIndex
<1>1. /\ recvIndex \in Nat /\ recvIndex < MaxRecvSize /\ recvBuf \in [Places -> Bytes]
      /\ arrived \in Seq(Bytes) /\ reusing \in BOOLEAN /\ From = MaxRecvSize
  <2>1. recvIndex < MaxRecvSize
    BY Stored
  <2>2. QED BY <2>1, Sizes DEF FilterInv, TypeOK, From
<1>2. /\ arr \in Seq(Bytes) /\ Len(arr) = Len(arrived) + 1 /\ Len(arrived) \in Nat
      /\ \A i \in 1 .. Len(arrived) : arr[i] = arrived[i]
      /\ arr[Len(arrived) + 1] = b
  BY <1>1
<1>3. Dropped(recvIndex + 1, MaxRecvSize, arr) = start /\ Dropped(recvIndex, From, arrived) = start
  BY <1>1, <1>2, Sizes DEF Dropped
<1>4. start >= 0 /\ \A i \in 0 .. recvIndex - 1 : recvBuf[i] = arrived[start + i + 1]
  BY <1>1, <1>3 DEF FilterInv, Aligned, Fed
<1>5. \A i \in 0 .. recvIndex : buf[i] = arr[start + i + 1]
  <2>1. ASSUME NEW i \in 0 .. recvIndex - 1 PROVE buf[i] = arr[start + i + 1]
    BY <2>1, <1>1, <1>2, <1>4, Sizes
  <2>2. buf[recvIndex] = arr[start + recvIndex + 1]
    BY <1>1, <1>2, Sizes
  <2> HIDE DEF buf, arr, start
  <2>3. QED BY <1>1, <2>1, <2>2
<1>6. buf \in [Places -> Bytes]
  BY <1>1
<1>7. recvIndex + 1 <= HeaderSize \/ \E f \in Frames : HeadOf(buf, f) /\ recvIndex + 1 <= length[f]
  BY StillHeaded
<1> HIDE DEF buf, arr, start
<1>8. Fed(buf, recvIndex + 1, MaxRecvSize, arr)
  BY <1>1, <1>2, <1>3, <1>4, <1>5, Sizes DEF Fed
<1>9. Loaded(buf, recvIndex + 1, MaxRecvSize, arr)
  BY <1>1, <1>2, <1>6, <1>7, <1>8, Sizes DEF Loaded
<1>10. QED BY <1>3, <1>9 DEF buf, arr, start

\* and its loop with the first one of those to be fed again.
LEMMA LoadedByLoop ==
  ASSUME FilterInv, reusing, reuseIndex < MaxRecvSize
  PROVE  LET b == recvBuf[reuseIndex] IN
         /\ b \in Bytes
         /\ Loaded([recvBuf EXCEPT ![recvIndex] = b], recvIndex + 1, reuseIndex + 1, arrived)
         /\ Dropped(recvIndex + 1, reuseIndex + 1, arrived) = Dropped(recvIndex, From, arrived)
<1> DEFINE b == recvBuf[reuseIndex]
           buf == [recvBuf EXCEPT ![recvIndex] = b]
           start == Dropped(recvIndex, From, arrived)
<1>1. /\ recvIndex \in Nat /\ reuseIndex \in Nat /\ recvIndex <= reuseIndex
      /\ recvBuf \in [Places -> Bytes] /\ arrived \in Seq(Bytes) /\ From = reuseIndex
      /\ Len(arrived) \in Nat
  BY DEF FilterInv, TypeOK, From
<1>2. b \in Bytes
  BY <1>1, Sizes
<1>3. start = Len(arrived) - recvIndex - (MaxRecvSize - reuseIndex)
  BY <1>1 DEF Dropped
<1>4. Dropped(recvIndex + 1, reuseIndex + 1, arrived) = start
  BY <1>1, <1>3, Sizes DEF Dropped
<1>5. /\ start >= 0
      /\ \A i \in 0 .. recvIndex - 1 : recvBuf[i] = arrived[start + i + 1]
      /\ \A i \in reuseIndex .. MaxRecvSize - 1 : recvBuf[i] = arrived[Len(arrived) - MaxRecvSize + i + 1]
  BY <1>1 DEF FilterInv, Aligned, Fed
<1>6. \A i \in 0 .. recvIndex : buf[i] = arrived[start + i + 1]
  <2>1. ASSUME NEW i \in 0 .. recvIndex - 1 PROVE buf[i] = arrived[start + i + 1]
    BY <2>1, <1>1, <1>5, Sizes
  <2>2. start + recvIndex + 1 = Len(arrived) - MaxRecvSize + reuseIndex + 1
    BY <1>1, <1>3, Sizes
  <2>3. recvBuf[reuseIndex] = arrived[Len(arrived) - MaxRecvSize + reuseIndex + 1]
    BY <1>1, <1>5, Sizes
  <2>4. buf[recvIndex] = arrived[start + recvIndex + 1]
    BY <1>1, <2>2, <2>3, Sizes
  <2>5. QED BY <1>1, <2>1, <2>4
<1>7. \A i \in reuseIndex + 1 .. MaxRecvSize - 1 : buf[i] = arrived[Len(arrived) - MaxRecvSize + i + 1]
  <2>1. ASSUME NEW i \in reuseIndex + 1 .. MaxRecvSize - 1 PROVE buf[i] = recvBuf[i]
    BY <1>1, Sizes
  <2>2. QED BY <1>1, <1>5, <2>1, Sizes
<1>8. Fed(buf, recvIndex + 1, reuseIndex + 1, arrived)
  BY <1>1, <1>4, <1>5, <1>6, <1>7, Sizes DEF Fed
<1>9. buf \in [Places -> Bytes]
  BY <1>1, <1>2
<1>10. recvIndex + 1 \in 1 .. MaxRecvSize /\ reuseIndex + 1 \in 0 .. MaxRecvSize
  BY <1>1, Sizes
<1>11. recvIndex + 1 <= HeaderSize \/ \E f \in Frames : HeadOf(buf, f) /\ recvIndex + 1 <= length[f]
  BY <1>2, StillHeaded
<1>12. reusing \in BOOLEAN
  BY DEF FilterInv, TypeOK
<1> HIDE DEF b, buf, start
<1>13. Loaded(buf, recvIndex + 1, reuseIndex + 1, arrived)
  BY <1>1, <1>8, <1>9, <1>10, <1>11, <1>12 DEF Loaded
<1>14. QED BY <1>2, <1>4, <1>13 DEF b, buf, start

\* What one call leaves behind: the filter's state is well formed, and has the bytes of
\* arr in place.
Fits(arr) ==
  /\ recvBuf' \in [Places -> Bytes] /\ recvIndex' \in 0 .. MaxRecvSize
  /\ reuseIndex' \in 0 .. MaxRecvSize /\ reusing' \in BOOLEAN
  /\ reusing' => recvIndex' <= reuseIndex'
  /\ Fed(recvBuf', recvIndex', From', arr)
  /\ Short(recvBuf', recvIndex')

LEMMA AfterWaits ==
  ASSUME length \in [Frames -> Lengths], NEW buf, NEW n, NEW next, NEW arr,
         Loaded(buf, n, next, arr), Waits(buf, n, next)
  PROVE  Fits(arr) /\ Dropped(recvIndex', From', arr) = Dropped(n, next, arr)
<1>1. /\ recvBuf' = buf /\ recvIndex' = n /\ reuseIndex' = next /\ reusing' = reusing
      /\ n \in 1 .. MaxRecvSize /\ next \in 0 .. MaxRecvSize /\ buf \in [Places -> Bytes]
      /\ Fed(buf, n, next, arr) /\ reusing \in BOOLEAN /\ (reusing \/ next = MaxRecvSize)
  BY DEF Waits, Loaded
<1>2. From' = next
  BY <1>1 DEF From
<1>3. n <= next
  BY <1>1 DEF Fed
<1>4. Short(buf, n)
  <2>1. CASE n < HeaderSize
    BY <2>1 DEF Short
  <2>2. CASE Headed(buf) /\ \A f \in Frames : HeadOf(buf, f) => n # length[f]
    <3>1. PICK g \in Frames : HeadOf(buf, g) /\ n # length[g]
      BY <2>2 DEF Headed
    <3>2. n < length[g]
      <4>1. CASE n <= HeaderSize
        BY <1>1, <3>1, <4>1, Length, Sizes
      <4>2. CASE \E f \in Frames : HeadOf(buf, f) /\ n <= length[f]
        <5>1. PICK f \in Frames : HeadOf(buf, f) /\ n <= length[f]
          BY <4>2
        <5>2. f = g
          BY <3>1, <5>1, OneHead
        <5>3. QED BY <1>1, <3>1, <5>1, <5>2, Length
      <4>3. QED BY <4>1, <4>2 DEF Loaded
    <3>3. QED BY <3>1, <3>2 DEF Short
  <2>3. QED BY <2>1, <2>2 DEF Waits
<1>5. QED BY <1>1, <1>2, <1>3, <1>4 DEF Fits

LEMMA AfterShifts ==
  ASSUME NEW buf, NEW n, NEW next, NEW arr,
         Loaded(buf, n, next, arr), Shifts(buf, n, next)
  PROVE  /\ n = HeaderSize
         /\ Fits(arr) /\ Dropped(recvIndex', From', arr) = Dropped(n, next, arr) + 1
<1> DEFINE start == Dropped(n, next, arr)
<1>1. /\ reuseIndex' = next /\ reusing' = reusing
      /\ n \in Nat /\ n >= 1 /\ n <= MaxRecvSize /\ next \in 0 .. MaxRecvSize
      /\ buf \in [Places -> Bytes] /\ Len(arr) \in Nat
      /\ reusing \in BOOLEAN /\ (reusing \/ next = MaxRecvSize)
  BY DEF Shifts, Loaded
<1>2. From' = next
  BY <1>1 DEF From
<1>3. n = HeaderSize
  BY <1>1, Sizes DEF Shifts, Loaded, Headed
<1>4. /\ recvIndex' = n - 1
      /\ recvBuf' = [i \in Places |-> IF 0 <= i /\ i < 0 + (n - 1) THEN buf[1 + (i - 0)] ELSE buf[i]]
  BY DEF Shifts, Shift, Moved
<1>5. /\ n <= next /\ start >= 0
      /\ \A i \in 0 .. n - 1 : buf[i] = arr[start + i + 1]
      /\ \A i \in next .. MaxRecvSize - 1 : buf[i] = arr[Len(arr) - MaxRecvSize + i + 1]
  BY DEF Loaded, Fed
<1>6. start = Len(arr) - n - (MaxRecvSize - next) /\ start \in Int
  BY <1>1, Sizes DEF Dropped
<1>7. Dropped(recvIndex', From', arr) = start + 1
  BY <1>1, <1>2, <1>4, <1>6, Sizes DEF Dropped
<1> HIDE DEF start
<1>8. recvBuf' \in [Places -> Bytes]
  BY <1>1, <1>3, <1>4, Sizes
<1>9. ASSUME NEW i \in 0 .. recvIndex' - 1 PROVE recvBuf'[i] = arr[(start + 1) + i + 1]
  <2>1. i \in Places /\ i < n - 1 /\ i \in Nat /\ i + 1 \in 0 .. n - 1
    BY <1>1, <1>4, <1>9, Sizes
  <2>2. recvBuf'[i] = buf[1 + (i - 0)] /\ 1 + (i - 0) = i + 1
    BY <1>4, <2>1
  <2>3. buf[i + 1] = arr[start + (i + 1) + 1]
    BY <1>5, <2>1
  <2>4. start + (i + 1) + 1 = (start + 1) + i + 1
    BY <1>6, <2>1
  <2>5. QED BY <2>2, <2>3, <2>4
<1>10. ASSUME NEW i \in next .. MaxRecvSize - 1 PROVE recvBuf'[i] = arr[Len(arr) - MaxRecvSize + i + 1]
  <2>1. i \in Places /\ i \in Nat /\ ~(i < n - 1)
    BY <1>1, <1>5, <1>10, Sizes
  <2>2. recvBuf'[i] = buf[i]
    BY <1>1, <1>4, <2>1
  <2>3. QED BY <1>5, <1>10, <2>2
<1>11. Fed(recvBuf', recvIndex', From', arr)
  BY <1>1, <1>2, <1>4, <1>5, <1>6, <1>7, <1>9, <1>10, Sizes DEF Fed
<1>12. Short(recvBuf', recvIndex') /\ recvIndex' \in 0 .. MaxRecvSize /\ recvIndex' <= next
  BY <1>1, <1>3, <1>4, <1>5, Sizes DEF Short
<1>13. QED BY <1>1, <1>2, <1>3, <1>7, <1>8, <1>11, <1>12 DEF Fits, start

LEMMA AfterCalls ==
  ASSUME NEW buf, NEW n, NEW next, NEW arr, NEW f \in Frames,
         Loaded(buf, n, next, arr), Calls(buf, n, next, f)
  PROVE  Fits(arr) /\ Dropped(recvIndex', From', arr) = Dropped(n, next, arr) + (n - HeaderSize + 1)
<1> DEFINE start == Dropped(n, next, arr)
           keep  == HeaderSize - 1
<1>1. /\ reuseIndex' = next /\ reusing' = reusing
      /\ n \in Nat /\ n >= HeaderSize /\ n <= MaxRecvSize /\ next \in 0 .. MaxRecvSize
      /\ buf \in [Places -> Bytes] /\ Len(arr) \in Nat
      /\ reusing \in BOOLEAN /\ (reusing \/ next = MaxRecvSize)
  BY DEF Calls, Loaded
<1>2. From' = next
  BY <1>1 DEF From
<1>3. keep \in Nat /\ keep + 1 = HeaderSize /\ keep < n
  BY <1>1, Sizes
<1>4. /\ recvIndex' = keep
      /\ recvBuf' = [i \in Places |-> IF keep <= i /\ i < n THEN Garbage
                                      ELSE [j \in Places |-> IF 0 <= j /\ j < 0 + keep
                                              THEN buf[(n - keep) + (j - 0)] ELSE buf[j]][i]]
  BY DEF Calls, CallApp, Moved
<1>5. /\ n <= next /\ start >= 0
      /\ \A i \in 0 .. n - 1 : buf[i] = arr[start + i + 1]
      /\ \A i \in next .. MaxRecvSize - 1 : buf[i] = arr[Len(arr) - MaxRecvSize + i + 1]
  BY DEF Loaded, Fed
<1>6. start = Len(arr) - n - (MaxRecvSize - next) /\ start \in Int
  BY <1>1, Sizes DEF Dropped
<1>7. Dropped(recvIndex', From', arr) = start + (n - keep)
  BY <1>1, <1>2, <1>3, <1>4, <1>6, Sizes DEF Dropped
<1> HIDE DEF start, keep
<1>8. \A i \in Places : /\ i < keep => recvBuf'[i] = buf[(n - keep) + i]
                        /\ keep <= i /\ i < n => recvBuf'[i] = Garbage
                        /\ i >= n => recvBuf'[i] = buf[i]
  BY <1>1, <1>3, <1>4, Sizes
<1>9. ASSUME NEW i \in 0 .. keep - 1 PROVE recvBuf'[i] = arr[(start + (n - keep)) + i + 1]
  <2>1. i \in Places /\ i < keep /\ i \in Nat /\ (n - keep) + i \in 0 .. n - 1
    BY <1>1, <1>3, <1>9, Sizes
  <2>2. recvBuf'[i] = buf[(n - keep) + i]
    BY <1>8, <2>1
  <2>3. buf[(n - keep) + i] = arr[start + ((n - keep) + i) + 1]
    BY <1>5, <2>1
  <2>4. start + ((n - keep) + i) + 1 = (start + (n - keep)) + i + 1
    BY <1>1, <1>3, <1>6, <2>1
  <2>5. QED BY <2>2, <2>3, <2>4
<1>10. ASSUME NEW i \in next .. MaxRecvSize - 1 PROVE recvBuf'[i] = arr[Len(arr) - MaxRecvSize + i + 1]
  <2>1. i \in Places /\ i >= n
    BY <1>1, <1>5, <1>10, Sizes
  <2>2. QED BY <1>5, <1>8, <1>10, <2>1
<1>11. Fed(recvBuf', recvIndex', From', arr)
  BY <1>1, <1>2, <1>3, <1>4, <1>5, <1>6, <1>7, <1>9, <1>10, Sizes, SMTT(40) DEF Fed
<1>12. recvBuf' \in [Places -> Bytes]
  <2>1. \A i \in Places : recvBuf'[i] \in Bytes
    <3>1. TAKE i \in Places
    <3>2. CASE i < keep
      <4>1. (n - keep) + i \in Places
        BY <1>1, <1>3, <3>1, <3>2, Sizes
      <4>2. QED BY <1>1, <1>8, <3>2, <4>1
    <3>3. CASE keep <= i /\ i < n
      BY <1>8, <3>3 DEF Bytes
    <3>4. CASE i >= n
      BY <1>1, <1>8, <3>4
    <3>5. QED BY <1>1, <1>3, <3>1, <3>2, <3>3, <3>4, Sizes
  <2>2. QED BY <1>4, <2>1
<1>13. Short(recvBuf', recvIndex') /\ recvIndex' \in 0 .. MaxRecvSize /\ recvIndex' <= next
  BY <1>1, <1>3, <1>4, <1>5, Sizes DEF Short
<1>14. n - keep = n - HeaderSize + 1
  BY <1>1, <1>3, Sizes
<1>15. QED BY <1>1, <1>2, <1>7, <1>11, <1>12, <1>13, <1>14 DEF Fits, start

LEMMA AfterReuses ==
  ASSUME NEW buf, NEW n, NEW next, NEW arr, NEW f \in Frames,
         Loaded(buf, n, next, arr), Reuses(buf, n, next, f)
  PROVE  Fits(arr) /\ Dropped(recvIndex', From', arr) = Dropped(n, next, arr) + 1
<1> DEFINE start == Dropped(n, next, arr)
           head  == HeaderSize
           low   == next - (n - HeaderSize)
           moved == Moved(buf, low, HeaderSize, n - HeaderSize)
<1>1. /\ reuseIndex' = low /\ reusing' = TRUE
      /\ n \in Nat /\ n >= HeaderSize /\ n <= MaxRecvSize /\ next \in 0 .. MaxRecvSize
      /\ buf \in [Places -> Bytes] /\ Len(arr) \in Nat
  BY DEF Reuses, UpdateReusePart, Loaded
<1>2. From' = low
  BY <1>1 DEF From
<1>4. /\ recvIndex' = HeaderSize - 1
      /\ recvBuf' = [i \in Places |-> IF 0 <= i /\ i < 0 + (HeaderSize - 1)
                                      THEN moved[1 + (i - 0)] ELSE moved[i]]
  BY DEF Reuses, UpdateReusePart, Shift, Moved
<1>5. /\ n <= next /\ start >= 0
      /\ \A i \in 0 .. n - 1 : buf[i] = arr[start + i + 1]
      /\ \A i \in next .. MaxRecvSize - 1 : buf[i] = arr[Len(arr) - MaxRecvSize + i + 1]
  BY DEF Loaded, Fed
<1>6. start = Len(arr) - n - (MaxRecvSize - next) /\ start \in Int
  BY <1>1, Sizes DEF Dropped
<1>3. low \in Nat /\ HeaderSize <= low /\ low <= next /\ low + n = next + HeaderSize
  BY <1>1, <1>5, Sizes
<1>7. Dropped(recvIndex', From', arr) = start + 1
  BY <1>1, <1>2, <1>3, <1>4, <1>6, Sizes DEF Dropped
<1>8. moved = [i \in Places |-> IF low <= i /\ i < low + (n - HeaderSize)
                                THEN buf[HeaderSize + (i - low)] ELSE buf[i]]
  BY DEF Moved
<1> HIDE DEF start, low, moved
<1>9. \A i \in Places : /\ i < low => moved[i] = buf[i]
                        /\ low <= i /\ i < next => moved[i] = buf[HeaderSize + (i - low)]
                        /\ i >= next => moved[i] = buf[i]
  BY <1>1, <1>3, <1>8, Sizes
<1>10. \A i \in Places : moved[i] \in Bytes
  <2>1. TAKE i \in Places
  <2>2. CASE low <= i /\ i < next
    <3>1. HeaderSize + (i - low) \in Places
      BY <1>1, <1>3, <2>1, <2>2, Sizes
    <3>2. QED BY <1>1, <1>9, <2>2, <3>1
  <2>3. CASE i < low \/ i >= next
    BY <1>1, <1>9, <2>3
  <2>4. QED BY <1>1, <1>3, <2>2, <2>3, Sizes
<1>11. recvBuf' \in [Places -> Bytes]
  BY <1>1, <1>4, <1>10, Sizes
<1>12. ASSUME NEW i \in 0 .. recvIndex' - 1 PROVE recvBuf'[i] = arr[(start + 1) + i + 1]
  <2>1. /\ i \in Places /\ i \in Nat /\ i < HeaderSize - 1
        /\ i + 1 \in Places /\ i + 1 < low /\ i + 1 \in 0 .. n - 1
    BY <1>1, <1>3, <1>4, <1>12, Sizes
  <2>2. recvBuf'[i] = moved[1 + (i - 0)] /\ 1 + (i - 0) = i + 1
    BY <1>4, <2>1, Sizes
  <2>3. moved[i + 1] = arr[start + (i + 1) + 1]
    BY <1>5, <1>9, <2>1
  <2>4. start + (i + 1) + 1 = (start + 1) + i + 1
    BY <1>6, <2>1
  <2>5. QED BY <2>2, <2>3, <2>4
<1>13. ASSUME NEW i \in low .. MaxRecvSize - 1 PROVE recvBuf'[i] = arr[Len(arr) - MaxRecvSize + i + 1]
  <2>1. i \in Places /\ i \in Nat /\ ~(i < HeaderSize - 1)
    BY <1>3, <1>13, Sizes
  <2>2. recvBuf'[i] = moved[i]
    BY <1>4, <2>1, Sizes
  <2>3. CASE i < next
    <3>1. HeaderSize + (i - low) \in 0 .. n - 1
      BY <1>1, <1>3, <1>13, <2>3, Sizes
    <3>2. moved[i] = arr[start + (HeaderSize + (i - low)) + 1]
      BY <1>3, <1>5, <1>9, <1>13, <2>1, <2>3, <3>1
    <3>3. start + (HeaderSize + (i - low)) + 1 = Len(arr) - MaxRecvSize + i + 1
      BY <1>1, <1>3, <1>6, <2>1, Sizes
    <3>4. QED BY <2>2, <3>2, <3>3
  <2>4. CASE ~(i < next)
    <3>1. i \in next .. MaxRecvSize - 1
      BY <1>1, <1>13, <2>1, <2>4, Sizes
    <3>2. QED BY <1>1, <1>5, <1>9, <2>1, <2>2, <3>1
  <2>5. QED BY <2>3, <2>4
<1>14. Fed(recvBuf', recvIndex', From', arr)
  <2>1. recvIndex' <= low /\ start + 1 >= 0
    BY <1>3, <1>4, <1>5, <1>6, Sizes
  <2>2. Fed(recvBuf', recvIndex', low, arr)
    BY <1>2, <1>7, <1>12, <1>13, <2>1 DEF Fed
  <2>3. QED BY <1>2, <2>2
<1>15. Short(recvBuf', recvIndex') /\ recvIndex' \in 0 .. MaxRecvSize /\ recvIndex' <= low
       /\ low \in 0 .. MaxRecvSize
  BY <1>1, <1>3, <1>4, <1>5, Sizes DEF Short
<1>16. reusing' \in BOOLEAN /\ (reusing' => recvIndex' <= reuseIndex') /\ reuseIndex' \in 0 .. MaxRecvSize
  BY <1>1, <1>15
<1>17. QED BY <1>7, <1>11, <1>14, <1>15, <1>16 DEF Fits, start

-----------------------------------------------------------------------------
(* No frame is passed over *)

\* Where the collected bytes are in arr.
LEMMA Window ==
  ASSUME NEW buf, NEW n, NEW next, NEW arr, Loaded(buf, n, next, arr)
  PROVE  /\ n \in Nat /\ n >= 1 /\ arr \in Seq(Bytes) /\ Len(arr) \in Nat
         /\ Dropped(n, next, arr) \in Nat /\ Dropped(n, next, arr) + n <= Len(arr)
         /\ \A i \in 0 .. n - 1 : arr[Dropped(n, next, arr) + i + 1] = buf[i]
<1>1. n \in Nat /\ n >= 1 /\ next \in 0 .. MaxRecvSize /\ arr \in Seq(Bytes) /\ Fed(buf, n, next, arr)
  BY DEF Loaded
<1>2. Len(arr) \in Nat
  BY <1>1
<1>3. Dropped(n, next, arr) \in Nat /\ Dropped(n, next, arr) + n <= Len(arr)
  BY <1>1, <1>2, Sizes DEF Fed, Dropped
<1>4. QED BY <1>1, <1>2, <1>3 DEF Fed

\* A frame that starts where the filter has got to shows its header there.
LEMMA RunHasHead ==
  ASSUME length \in [Frames -> Lengths],
         NEW buf, NEW n, NEW next, NEW arr, Loaded(buf, n, next, arr), n >= HeaderSize,
         NEW f \in Frames, RunAt(arr, f, Dropped(n, next, arr))
  PROVE  HeadOf(buf, f) /\ (n = length[f] => FrameAt(buf, f))
<1> DEFINE start == Dropped(n, next, arr)
<1>1. /\ n \in Nat /\ Len(arr) \in Nat /\ start \in Nat /\ start + n <= Len(arr)
      /\ \A i \in 0 .. n - 1 : arr[start + i + 1] = buf[i]
  BY Window
<1>2. \A k \in 0 .. length[f] - 1 : start + k < Len(arr) => arr[start + k + 1] = Byte(f, k)
  BY DEF RunAt
<1> HIDE DEF start
<1>3. ASSUME NEW k \in 0 .. n - 1, k < length[f] PROVE buf[k] = Byte(f, k)
  BY <1>1, <1>2, <1>3, Length
<1>4. HeadOf(buf, f)
  BY <1>1, <1>3, Length, Sizes DEF HeadOf
<1>5. n = length[f] => FrameAt(buf, f)
  BY <1>1, <1>3, Length DEF FrameAt
<1>6. QED BY <1>4, <1>5

\* The first byte of a frame comes once.
LEMMA OnePlace ==
  ASSUME NEW arr, Len(arr) \in Nat, Ordered(arr), NEW f \in Frames, NEW p \in Nat, NEW q \in Nat,
         p < Len(arr), q < Len(arr), arr[p + 1] = Byte(f, 0), arr[q + 1] = Byte(f, 0)
  PROVE  p = q
<1>1. ASSUME NEW i \in 1 .. Len(arr), NEW j \in 1 .. Len(arr), i < j,
             arr[i] = Byte(f, 0), arr[j] = Byte(f, 0)
      PROVE  FALSE
  BY <1>1, FilterAssumption DEF Ordered, Before, Frames
<1>2. p + 1 \in 1 .. Len(arr) /\ q + 1 \in 1 .. Len(arr)
  OBVIOUS
<1>3. ~(p + 1 < q + 1) /\ ~(q + 1 < p + 1)
  BY <1>1, <1>2
<1>4. QED BY <1>3

LEMMA RunStarts ==
  ASSUME length \in [Frames -> Lengths], NEW arr, Len(arr) \in Nat, NEW f \in Frames, NEW p \in Nat,
         RunAt(arr, f, p)
  PROVE  p < Len(arr) /\ arr[p + 1] = Byte(f, 0)
<1>1. 0 \in 0 .. length[f] - 1 /\ p + 0 = p
  BY Length, Sizes
<1>2. QED BY <1>1 DEF RunAt

LEMMA WholeRuns ==
  ASSUME length \in [Frames -> Lengths], NEW arr, Len(arr) \in Nat, NEW f \in Frames, NEW p \in Nat,
         WholeAt(arr, f, p)
  PROVE  RunAt(arr, f, p)
  BY Length, Sizes DEF WholeAt, RunAt

\* A byte dropped for want of a header, or with a damaged frame, is no frame's first.
LEMMA KeptByOne ==
  ASSUME length \in [Frames -> Lengths], NEW arr, Len(arr) \in Nat, NEW start \in Nat, NEW done,
         Kept(arr, start, done), \A f \in Frames : ~RunAt(arr, f, start)
  PROVE  Kept(arr, start + 1, done)
<1>1. ASSUME NEW f \in Frames, NEW p \in 0 .. Len(arr), RunAt(arr, f, p)
      PROVE  p >= start + 1 <=> p >= start
  <2>1. p # start
    BY <1>1
  <2>2. QED BY <2>1
<1>2. QED BY <1>1 DEF Kept

LEMMA KeptByShifts ==
  ASSUME length \in [Frames -> Lengths], NEW buf, NEW n, NEW next, NEW arr, NEW done,
         Loaded(buf, n, next, arr), n >= HeaderSize, Kept(arr, Dropped(n, next, arr), done),
         \A f \in Frames : ~(HeadOf(buf, f) /\ (n = length[f] => FrameAt(buf, f)))
  PROVE  Kept(arr, Dropped(n, next, arr) + 1, done)
<1>1. \A f \in Frames : ~RunAt(arr, f, Dropped(n, next, arr))
  BY RunHasHead
<1>2. QED BY <1>1, Window, KeptByOne

\* A frame that is handled is at the place the filter has got to, and no other starts
\* inside it.
LEMMA WholeWhenCalled ==
  ASSUME length \in [Frames -> Lengths], NEW buf, NEW n, NEW next, NEW arr,
         Loaded(buf, n, next, arr), NEW f \in Frames, Calls(buf, n, next, f)
  PROVE  WholeAt(arr, f, Dropped(n, next, arr))
<1>1. n = length[f] /\ FrameAt(buf, f)
  BY DEF Calls
<1>2. QED BY <1>1, Window, SMTT(40) DEF WholeAt, FrameAt

LEMMA KeptByCalls ==
  ASSUME length \in [Frames -> Lengths], NEW buf, NEW n, NEW next, NEW arr,
         NEW done \in Seq(Frames), Loaded(buf, n, next, arr), NEW f \in Frames,
         Calls(buf, n, next, f), Ordered(arr), Kept(arr, Dropped(n, next, arr), done)
  PROVE  Kept(arr, Dropped(n, next, arr) + (n - HeaderSize + 1), Append(done, f))
<1> DEFINE start == Dropped(n, next, arr)
           start2 == start + (n - HeaderSize + 1)
           In(g, s) == \E i \in 1 .. Len(s) : s[i] = g
<1>1. n \in Nat /\ Len(arr) \in Nat /\ start \in Nat /\ start + n <= Len(arr) /\ n >= HeaderSize
      /\ start < start2 /\ start2 <= start + n /\ start2 \in Nat
  <2>1. n \in Nat /\ Len(arr) \in Nat /\ start \in Nat /\ start + n <= Len(arr)
    BY Window
  <2>2. n >= HeaderSize
    BY DEF Calls
  <2> HIDE DEF start
  <2>3. QED BY <2>1, <2>2, Sizes
<1>2. WholeAt(arr, f, start)
  BY WholeWhenCalled
<1>3. length[f] = n
  BY DEF Calls
<1>4. \A g \in Frames : In(g, Append(done, f)) <=> (In(g, done) \/ g = f)
  <2>1. /\ Len(Append(done, f)) = Len(done) + 1 /\ Len(done) \in Nat
        /\ \A i \in 1 .. Len(done) : Append(done, f)[i] = done[i]
        /\ Append(done, f)[Len(done) + 1] = f
    OBVIOUS
  <2>2. QED BY <2>1
<1> SUFFICES Kept(arr, start2, Append(done, f))
  OBVIOUS
<1>5. Kept(arr, start, done)
  OBVIOUS
<1> HIDE DEF start, start2
<1>6. ASSUME NEW g \in Frames, NEW p \in 0 .. Len(arr), RunAt(arr, g, p)
      PROVE  p >= start2 <=> ~In(g, Append(done, f))
  <2>1. p < Len(arr) /\ arr[p + 1] = Byte(g, 0) /\ p \in Nat
    BY <1>1, <1>6, RunStarts
  <2>2. CASE g = f
    <3>1. RunAt(arr, f, start)
      BY <1>1, <1>2, WholeRuns
    <3>2. start < Len(arr) /\ arr[start + 1] = Byte(f, 0)
      BY <1>1, <3>1, RunStarts
    <3>3. p = start
      BY <1>1, <2>1, <2>2, <3>2, OnePlace
    <3>4. QED BY <1>1, <1>4, <2>2, <3>3
  <2>3. CASE g # f
    <3>1. ~(start <= p /\ p < start2)
      <4>1. SUFFICES ASSUME start <= p, p < start2 PROVE FALSE
        OBVIOUS
      <4>2. p - start \in 0 .. length[f] - 1 /\ start + (p - start) + 1 = p + 1 /\ p - start \in Nat
        BY <1>1, <1>3, <2>1, <4>1
      <4>3. arr[p + 1] = Byte(f, p - start)
        BY <1>2, <4>2 DEF WholeAt
      <4>4. QED BY <2>1, <2>3, <4>2, <4>3, BytesDiffer
    <3>2. p >= start <=> ~In(g, done)
      BY <1>5, <1>6 DEF Kept
    <3>3. p >= start2 <=> p >= start
      BY <1>1, <2>1, <3>1
    <3>4. QED BY <1>4, <2>3, <3>2, <3>3
  <2>4. QED BY <2>2, <2>3
<1>7. QED BY <1>6 DEF Kept

\* The frame handled is the next one of those that came whole.
LEMMA PrefixByCalls ==
  ASSUME length \in [Frames -> Lengths], NEW buf, NEW n, NEW next, NEW arr,
         NEW done \in Seq(Frames), NEW frames \in Seq(Frames),
         Loaded(buf, n, next, arr), NEW f \in Frames, Calls(buf, n, next, f),
         Ordered(arr), Came(arr, frames), Kept(arr, Dropped(n, next, arr), done), Prefix(done, frames)
  PROVE  Prefix(Append(done, f), frames)
<1> DEFINE start == Dropped(n, next, arr)
           m == Len(done)
<1>1. Len(arr) \in Nat /\ start \in Nat
  BY Window
<1>2. WholeAt(arr, f, start) /\ RunAt(arr, f, start)
  BY <1>1, WholeWhenCalled, WholeRuns
<1>3. start < Len(arr) /\ arr[start + 1] = Byte(f, 0)
  BY <1>1, <1>2, RunStarts
<1>4. PICK i \in 1 .. Len(frames) : frames[i] = f
  BY <1>1, <1>2, <1>3 DEF Came
<1>5. Kept(arr, start, done)
  OBVIOUS
<1>6. /\ m \in Nat /\ Len(frames) \in Nat /\ m <= Len(frames)
      /\ \A j \in 1 .. m : done[j] = frames[j]
  BY DEF Prefix
<1>7. ~\E j \in 1 .. m : done[j] = f
  BY <1>1, <1>2, <1>3, <1>5 DEF Kept
<1>8. i > m
  BY <1>4, <1>6, <1>7
<1>9. i = m + 1
  <2>1. SUFFICES ASSUME i > m + 1 PROVE FALSE
    BY <1>4, <1>6, <1>8
  <2> DEFINE g == frames[m + 1]
  <2>2. m + 1 \in 1 .. Len(frames) /\ g \in Frames
    BY <1>4, <1>6, <2>1
  <2>3. g < f
    BY <1>4, <2>1, <2>2 DEF Came
  <2>4. PICK q \in 0 .. Len(arr) : WholeAt(arr, g, q)
    BY <2>2 DEF Came
  <2>5. RunAt(arr, g, q) /\ q \in Nat
    BY <1>1, <2>2, <2>4, WholeRuns
  <2>6. q < Len(arr) /\ arr[q + 1] = Byte(g, 0)
    BY <1>1, <2>2, <2>5, RunStarts
  <2>7. ~\E j \in 1 .. m : done[j] = g
    <3>1. SUFFICES ASSUME NEW j \in 1 .. m, done[j] = g PROVE FALSE
      OBVIOUS
    <3>2. j \in 1 .. Len(frames) /\ j < m + 1 /\ frames[j] = g
      BY <1>6, <3>1
    <3>3. g < g
      <4>1. \A k, l \in 1 .. Len(frames) : k < l => frames[k] < frames[l]
        BY DEF Came
      <4>2. frames[j] < frames[m + 1]
        BY <2>2, <3>2, <4>1
      <4>3. QED BY <3>2, <4>2
    <3> HIDE DEF g
    <3>4. g \in Nat
      BY <2>2, Sizes DEF Frames
    <3>5. QED BY <3>3, <3>4
  <2>8. q >= start
    BY <1>5, <2>2, <2>4, <2>5, <2>7 DEF Kept
  <2>9. q # start
    <3>1. g # f
      BY <2>2, <2>3, FilterAssumption, SMTT(40) DEF Frames
    <3> HIDE DEF g, start
    <3>2. QED BY <1>3, <2>2, <2>6, <3>1, BytesDiffer
  <2>10. Before(f, 0, g, 0)
    <3>1. start + 1 \in 1 .. Len(arr) /\ q + 1 \in 1 .. Len(arr) /\ start + 1 < q + 1
      BY <1>1, <1>3, <2>5, <2>6, <2>8, <2>9
    <3> HIDE DEF start, g
    <3>2. QED BY <1>3, <2>2, <2>6, <3>1 DEF Ordered
  <2>11. QED BY <2>2, <2>3, <2>10, FilterAssumption, SMTT(40) DEF Before, Frames
<1>10. QED BY <1>4, <1>6, <1>9 DEF Prefix

-----------------------------------------------------------------------------
(* What a byte adds to those that have come *)

LEMMA Appended ==
  ASSUME NEW arr \in Seq(Bytes), NEW b \in Bytes
  PROVE  /\ Append(arr, b) \in Seq(Bytes) /\ Len(Append(arr, b)) = Len(arr) + 1 /\ Len(arr) \in Nat
         /\ \A i \in 1 .. Len(arr) : Append(arr, b)[i] = arr[i]
         /\ Append(arr, b)[Len(arr) + 1] = b
  OBVIOUS

\* A frame that lies in the longer sequence lay in the shorter one, or ends with the byte.
LEMMA WholeGrows ==
  ASSUME length \in [Frames -> Lengths], NEW arr \in Seq(Bytes), NEW b \in Bytes,
         NEW f \in Frames, NEW p \in Nat
  PROVE  /\ WholeAt(arr, f, p) => WholeAt(Append(arr, b), f, p)
         /\ WholeAt(Append(arr, b), f, p) =>
              \/ WholeAt(arr, f, p)
              \/ /\ p + length[f] = Len(arr) + 1 /\ b = Byte(f, length[f] - 1)
                 /\ \A k \in 0 .. length[f] - 2 : arr[p + k + 1] = Byte(f, k)
<1> DEFINE arr2 == Append(arr, b)
<1>1. /\ Len(arr2) = Len(arr) + 1 /\ Len(arr) \in Nat
      /\ \A i \in 1 .. Len(arr) : arr2[i] = arr[i]
      /\ arr2[Len(arr) + 1] = b
  BY Appended
<1>2. length[f] \in Nat /\ length[f] >= 1
  BY Length, Sizes
<1> HIDE DEF arr2
<1>3. ASSUME WholeAt(arr, f, p) PROVE WholeAt(arr2, f, p)
  <2>1. \A k \in 0 .. length[f] - 1 : p + k + 1 \in 1 .. Len(arr) /\ arr[p + k + 1] = Byte(f, k)
    BY <1>1, <1>2, <1>3 DEF WholeAt
  <2>2. p + length[f] <= Len(arr2)
    BY <1>1, <1>2, <1>3 DEF WholeAt
  <2>3. QED BY <1>1, <2>1, <2>2 DEF WholeAt
<1>4. ASSUME WholeAt(arr2, f, p), p + length[f] <= Len(arr) PROVE WholeAt(arr, f, p)
  <2>1. \A k \in 0 .. length[f] - 1 : p + k + 1 \in 1 .. Len(arr) /\ arr2[p + k + 1] = Byte(f, k)
    BY <1>2, <1>1, <1>4 DEF WholeAt
  <2>2. QED BY <1>1, <1>4, <2>1 DEF WholeAt
<1>5. ASSUME WholeAt(arr2, f, p), ~(p + length[f] <= Len(arr))
      PROVE  /\ p + length[f] = Len(arr) + 1 /\ b = Byte(f, length[f] - 1)
             /\ \A k \in 0 .. length[f] - 2 : arr[p + k + 1] = Byte(f, k)
  <2>1. p + length[f] = Len(arr) + 1
    BY <1>1, <1>2, <1>5 DEF WholeAt
  <2>2. \A k \in 0 .. length[f] - 1 : arr2[p + k + 1] = Byte(f, k)
    BY <1>5 DEF WholeAt
  <2>3. p + (length[f] - 1) + 1 = Len(arr) + 1 /\ length[f] - 1 \in 0 .. length[f] - 1
    BY <1>1, <1>2, <2>1
  <2>4. b = Byte(f, length[f] - 1)
    BY <1>1, <2>2, <2>3
  <2>5. \A k \in 0 .. length[f] - 2 : p + k + 1 \in 1 .. Len(arr) /\ k \in 0 .. length[f] - 1
    BY <1>1, <1>2, <2>1
  <2>6. QED BY <1>1, <2>1, <2>2, <2>4, <2>5
<1>6. QED BY <1>3, <1>4, <1>5 DEF arr2

\* Frames come in order, one after the other.
LEMMA OrderedGrows ==
  ASSUME NEW arr \in Seq(Bytes), NEW b \in Bytes, Ordered(arr),
         \A i \in 1 .. Len(arr) : \A f, g \in Frames : \A k, l \in Nat :
           arr[i] = Byte(f, k) /\ b = Byte(g, l) => Before(f, k, g, l)
  PROVE  Ordered(Append(arr, b))
<1> DEFINE arr2 == Append(arr, b)
<1>1. /\ Len(arr2) = Len(arr) + 1 /\ Len(arr) \in Nat
      /\ \A i \in 1 .. Len(arr) : arr2[i] = arr[i]
      /\ arr2[Len(arr) + 1] = b
  BY Appended
<1> HIDE DEF arr2
<1> SUFFICES ASSUME NEW i \in 1 .. Len(arr2), NEW j \in 1 .. Len(arr2), i < j,
                    NEW f \in Frames, NEW g \in Frames, NEW k \in Nat, NEW l \in Nat,
                    arr2[i] = Byte(f, k), arr2[j] = Byte(g, l)
             PROVE  Before(f, k, g, l)
  BY DEF Ordered, arr2
<1>2. i \in 1 .. Len(arr) /\ arr[i] = Byte(f, k)
  BY <1>1
<1>3. CASE j = Len(arr) + 1
  BY <1>1, <1>2, <1>3
<1>4. CASE j # Len(arr) + 1
  <2>1. j \in 1 .. Len(arr) /\ arr[j] = Byte(g, l)
    BY <1>1, <1>4
  <2>2. QED BY <1>2, <2>1 DEF Ordered
<1>5. QED BY <1>3, <1>4

\* A byte that ends no frame leaves the frames that came.
LEMMA CameAsBefore ==
  ASSUME length \in [Frames -> Lengths], NEW arr \in Seq(Bytes), NEW b \in Bytes,
         NEW frames, Came(arr, frames),
         \A f \in Frames : \A p \in Nat :
           /\ p + length[f] = Len(arr) + 1 /\ b = Byte(f, length[f] - 1)
           /\ \A k \in 0 .. length[f] - 2 : arr[p + k + 1] = Byte(f, k)
           => FALSE
  PROVE  Came(Append(arr, b), frames)
<1>1. Len(Append(arr, b)) = Len(arr) + 1 /\ Len(arr) \in Nat
  BY Appended
<1>2. ASSUME NEW f \in Frames, NEW p \in Nat
      PROVE  WholeAt(Append(arr, b), f, p) <=> WholeAt(arr, f, p)
  BY WholeGrows
<1>3. ASSUME NEW f \in Frames
      PROVE  (\E p \in 0 .. Len(Append(arr, b)) : WholeAt(Append(arr, b), f, p))
               <=> (\E p \in 0 .. Len(arr) : WholeAt(arr, f, p))
  <2>1. ASSUME NEW p \in 0 .. Len(Append(arr, b)), WholeAt(Append(arr, b), f, p)
        PROVE  \E q \in 0 .. Len(arr) : WholeAt(arr, f, q)
    <3>1. p \in Nat /\ WholeAt(arr, f, p)
      BY <1>1, <1>2, <2>1
    <3>2. p \in 0 .. Len(arr)
      BY <1>1, <3>1, Length DEF WholeAt
    <3>3. QED BY <3>1, <3>2
  <2>2. ASSUME NEW p \in 0 .. Len(arr), WholeAt(arr, f, p)
        PROVE  \E q \in 0 .. Len(Append(arr, b)) : WholeAt(Append(arr, b), f, q)
    <3>1. p \in 0 .. Len(Append(arr, b)) /\ p \in Nat
      BY <1>1
    <3>2. QED BY <1>2, <2>2, <3>1
  <2>3. QED BY <2>1, <2>2
<1>4. QED BY <1>3 DEF Came

\* The frames handled stay the ones before the place the filter has got to.
LEMMA KeptGrows ==
  ASSUME length \in [Frames -> Lengths], NEW arr \in Seq(Bytes), NEW b \in Bytes,
         NEW start \in Nat, start <= Len(arr), NEW done \in Seq(Frames), NEW frames \in Seq(Frames),
         Ordered(Append(arr, b)), Came(arr, frames), Prefix(done, frames), Kept(arr, start, done)
  PROVE  Kept(Append(arr, b), start, done)
<1> DEFINE arr2 == Append(arr, b)
<1>1. /\ Len(arr2) = Len(arr) + 1 /\ Len(arr) \in Nat
      /\ \A i \in 1 .. Len(arr) : arr2[i] = arr[i]
  BY Appended
<1> SUFFICES ASSUME Ordered(arr2) PROVE Kept(arr2, start, done)
  OBVIOUS
<1> HIDE DEF arr2
<1> SUFFICES ASSUME NEW f \in Frames, NEW p \in 0 .. Len(arr2), RunAt(arr2, f, p)
             PROVE  p >= start <=> ~\E i \in 1 .. Len(done) : done[i] = f
  BY DEF Kept
<1>2. p \in Nat /\ p < Len(arr2) /\ arr2[p + 1] = Byte(f, 0)
  BY <1>1, RunStarts
<1>3. CASE p < Len(arr)
  <2>1. \A k \in 0 .. length[f] - 1 : p + k < Len(arr) => arr[p + k + 1] = Byte(f, k)
    <3>1. TAKE k \in 0 .. length[f] - 1
    <3>2. SUFFICES ASSUME p + k < Len(arr) PROVE arr[p + k + 1] = Byte(f, k)
      OBVIOUS
    <3>3. p + k < Len(arr2) /\ p + k + 1 \in 1 .. Len(arr)
      BY <1>1, <1>2, <3>1, <3>2, Length
    <3>4. QED BY <1>1, <3>3 DEF RunAt
  <2>2. RunAt(arr, f, p) /\ p \in 0 .. Len(arr)
    BY <1>1, <1>2, <1>3, <2>1 DEF RunAt
  <2>3. QED BY <2>2 DEF Kept
<1>4. CASE p = Len(arr)
  <2>1. ~\E i \in 1 .. Len(done) : done[i] = f
    <3>1. SUFFICES ASSUME NEW i \in 1 .. Len(done), done[i] = f PROVE FALSE
      OBVIOUS
    <3>2. i \in 1 .. Len(frames) /\ frames[i] = f
      <4>1. /\ Len(done) \in Nat /\ Len(frames) \in Nat /\ Len(done) <= Len(frames)
            /\ \A j \in 1 .. Len(done) : done[j] = frames[j]
        BY DEF Prefix
      <4>2. QED BY <3>1, <4>1
    <3>3. PICK q \in 0 .. Len(arr) : WholeAt(arr, f, q)
      BY <3>2 DEF Came
    <3>4. q \in Nat /\ q < Len(arr) /\ arr[q + 1] = Byte(f, 0)
      BY <1>1, <3>3, WholeRuns, RunStarts
    <3>5. arr2[q + 1] = Byte(f, 0) /\ q < Len(arr2)
      BY <1>1, <3>4
    <3>6. q = p
      <4>1. Len(arr2) \in Nat
        BY <1>1
      <4>2. QED BY <1>2, <3>4, <3>5, <4>1, OnePlace
    <3>7. QED BY <1>4, <3>4, <3>6
  <2>2. QED BY <1>4, <2>1
<1>5. QED BY <1>1, <1>2, <1>3, <1>4

-----------------------------------------------------------------------------
(* The line *)

\* How far the sender is after k more bytes.
LEMMA Passed ==
  ASSUME length \in [Frames -> Lengths], Sent, length' = length,
         NEW k \in Nat, k >= 1, NEW arrive, Progress(k, arrive)
  PROVE  LET f == sending.frame
             g == sending.gone
         IN  /\ f \in Frames /\ f \in Nat /\ g \in Nat /\ g < length[f] /\ g + k <= length[f]
             /\ length[f] \in Nat
             /\ g + k = length[f] => sending'.frame = f + 1 /\ sending'.gone = 0
             /\ g + k # length[f] => sending'.frame = f /\ sending'.gone = g + k
             /\ Sent'
             /\ \A h \in Frames : \A j \in Nat :
                  Before(h, j, f, g) \/ (h = f /\ j < g + k)
                    => Before(h, j, sending'.frame, sending'.gone)
<1> DEFINE f == sending.frame
           g == sending.gone
<1>1. f \in Frames /\ f \in Nat /\ g \in Nat /\ g < length[f] /\ g + k <= length[f]
  BY Sizes DEF Sent, Progress, Frames
<1>2. length[f] \in Nat /\ length[f] >= 1
  BY <1>1, Length, Sizes
<1>3. g + k = length[f] => sending' = [frame |-> f + 1, gone |-> 0]
  BY DEF Progress
<1>4. g + k # length[f] => sending' = [frame |-> f, gone |-> g + k]
  <2>1. g + k # length[f] => sending' = [sending EXCEPT !.gone = @ + k]
    BY DEF Progress
  <2>2. sending = [frame |-> f, gone |-> g]
    BY DEF Sent
  <2> HIDE DEF f, g
  <2>3. QED BY <2>1, <2>2
<1>5. Sent'
  <2>1. CASE g + k = length[f]
    <3>1. sending'.frame = f + 1 /\ sending'.gone = 0 /\ f + 1 \in 1 .. NFrames + 1
      BY <1>1, <1>3, <2>1, Sizes DEF Frames
    <3>2. sending' \in [frame : 1 .. NFrames + 1, gone : Nat]
      BY <1>3, <2>1, <3>1
    <3>3. f + 1 \in Frames => 0 < length'[f + 1]
      BY Length, Sizes
    <3> HIDE DEF f, g
    <3>4. QED BY <3>1, <3>2, <3>3 DEF Sent
  <2>2. CASE g + k # length[f]
    <3>1. sending'.frame = f /\ sending'.gone = g + k /\ f \in 1 .. NFrames + 1
          /\ g + k < length'[f] /\ g + k \in Nat
      BY <1>1, <1>2, <1>4, <2>2, Sizes DEF Frames
    <3>2. sending' \in [frame : 1 .. NFrames + 1, gone : Nat]
      BY <1>4, <2>2, <3>1
    <3> HIDE DEF f, g
    <3>3. QED BY <1>1, <3>1, <3>2 DEF Sent
  <2>3. QED BY <2>1, <2>2
<1>6. ASSUME NEW h \in Frames, NEW j \in Nat, Before(h, j, f, g) \/ (h = f /\ j < g + k)
      PROVE  Before(h, j, sending'.frame, sending'.gone)
  <2>1. h \in Nat
    BY Sizes DEF Frames
  <2> HIDE DEF f, g
  <2>2. CASE g + k = length[f]
    BY <1>1, <1>3, <1>6, <2>1, <2>2 DEF Before
  <2>3. CASE g + k # length[f]
    BY <1>1, <1>4, <1>6, <2>1, <2>3 DEF Before
  <2>4. QED BY <2>2, <2>3
<1>7. QED BY <1>1, <1>2, <1>3, <1>4, <1>5, <1>6

\* A byte of no frame is before and after nothing.
LEMMA GarbageComes ==
  ASSUME length \in [Frames -> Lengths], arrived \in Seq(Bytes), Ordered(arrived),
         Came(arrived, intact)
  PROVE  /\ Ordered(Append(arrived, Garbage)) /\ Came(Append(arrived, Garbage), intact)
<1>1. Garbage \in Bytes /\ \A f \in Frames : \A k \in Nat : Garbage # Byte(f, k)
  BY BytesDiffer DEF Bytes
<1>2. Ordered(Append(arrived, Garbage))
  BY <1>1, OrderedGrows
<1>3. ASSUME NEW f \in Frames, Garbage = Byte(f, length[f] - 1) PROVE FALSE
  <2>1. length[f] - 1 \in Nat
    BY Length, Sizes
  <2>2. QED BY <1>1, <1>3, <2>1
<1>4. QED BY <1>1, <1>2, <1>3, CameAsBefore

\* With a byte of no frame at the end of arr, no part of a frame is.
LEMMA NotPartial ==
  ASSUME NEW arr \in Seq(Bytes), Sent, sending.gone > 0, Partial(Append(arr, Garbage))
  PROVE  FALSE
<1> DEFINE arr2 == Append(arr, Garbage)
<1>1. Garbage \in Bytes
  BY DEF Bytes
<1>2. Len(arr2) = Len(arr) + 1 /\ Len(arr) \in Nat /\ arr2[Len(arr) + 1] = Garbage
  BY <1>1, Appended
<1> HIDE DEF arr2
<1>3. sending.gone \in Nat /\ sending.frame \in Frames
  BY DEF Sent
<1>4. sending.gone - 1 \in 0 .. sending.gone - 1
      /\ Len(arr2) - sending.gone + (sending.gone - 1) + 1 = Len(arr) + 1
  BY <1>2, <1>3
<1>5. Partial(arr2)
  BY DEF arr2
<1>6. Garbage = Byte(sending.frame, sending.gone - 1)
  BY <1>2, <1>4, <1>5 DEF Partial
<1>7. sending.gone - 1 \in Nat
  BY <1>3
<1>8. QED BY <1>3, <1>6, <1>7, BytesDiffer

\* The properties of what has come, in the next state.
LEMMA SameFrames ==
  ASSUME length' = length
  PROVE  /\ Came(arrived, intact)' <=> Came(arrived', intact')
         /\ Ordered(arrived)' <=> Ordered(arrived')
<1>1. \A h \in Frames : \A p \in 0 .. Len(arrived') : WholeAt(arrived, h, p)' <=> WholeAt(arrived', h, p)
  BY DEF WholeAt
<1>2. QED BY <1>1 DEF Came, Ordered

\* Each way a byte of the frame being sent can go keeps the line's invariant.
LEMMA LineByteArrives ==
  ASSUME length \in [Frames -> Lengths], arrived \in Seq(Bytes), intact \in Seq(Frames), LineInv,
         length' = length, Progress(1, TRUE),
         arrived' = Append(arrived, Byte(sending.frame, sending.gone))
  PROVE  LineInv' /\ arrived' \in Seq(Bytes) /\ intact' \in Seq(Frames)
<1> DEFINE f == sending.frame
           g == sending.gone
           b == Byte(f, g)
<1>1. /\ f \in Frames /\ f \in Nat /\ g \in Nat /\ g < length[f] /\ g + 1 <= length[f]
      /\ length[f] \in Nat
      /\ g + 1 = length[f] => sending'.frame = f + 1 /\ sending'.gone = 0
      /\ g + 1 # length[f] => sending'.frame = f /\ sending'.gone = g + 1
      /\ Sent'
      /\ \A h \in Frames : \A j \in Nat :
           Before(h, j, f, g) \/ (h = f /\ j < g + 1) => Before(h, j, sending'.frame, sending'.gone)
  <2>1. Sent /\ 1 \in Nat /\ 1 >= 1
    BY DEF LineInv
  <2>2. QED BY <2>1, Passed, Zenon
<1>2. b \in Bytes
  <2>1. g \in 0 .. MaxRecvSize
    BY <1>1, Length, Sizes
  <2>2. b \in {Byte(h, k) : h \in Frames, k \in 0 .. MaxRecvSize}
    BY <1>1, <2>1
  <2>3. QED BY <2>2 DEF Bytes
<1>6. arrived' = Append(arrived, b)
  OBVIOUS
<1>7. \A h \in Frames : \A k \in Nat : b = Byte(h, k) => h = f /\ k = g
  BY <1>1, BytesDiffer
<1> HIDE DEF b
<1>3. /\ arrived' \in Seq(Bytes) /\ Len(arrived') = Len(arrived) + 1 /\ Len(arrived) \in Nat
      /\ \A i \in 1 .. Len(arrived) : arrived'[i] = arrived[i]
      /\ arrived'[Len(arrived) + 1] = b
  BY <1>2, <1>6, Appended
<1>4. /\ whole' = (g + 1 = length[f] \/ (whole /\ TRUE))
      /\ intact' = IF g + 1 = length[f] /\ whole /\ TRUE THEN Append(intact, f) ELSE intact
  BY DEF Progress
<1>5. /\ whole \in BOOLEAN /\ (whole <=> Partial(arrived))
      /\ Ordered(arrived) /\ SentBefore(arrived) /\ Came(arrived, intact)
  BY DEF LineInv
<1>14. g \in Nat /\ Len(arrived) \in Nat /\ Len(arrived') = Len(arrived) + 1
  BY <1>1, <1>3
<1>8. Ordered(arrived')
  <2>1. ASSUME NEW i \in 1 .. Len(arrived), NEW h \in Frames, NEW e \in Frames,
               NEW k \in Nat, NEW l \in Nat, arrived[i] = Byte(h, k), b = Byte(e, l)
        PROVE  Before(h, k, e, l)
    BY <1>5, <1>7, <2>1 DEF SentBefore
  <2>2. QED BY <1>2, <1>5, <1>6, <2>1, OrderedGrows
<1>9. SentBefore(arrived)'
  <2>1. ASSUME NEW i \in 1 .. Len(arrived'), NEW h \in Frames, NEW k \in Nat, arrived'[i] = Byte(h, k)
        PROVE  Before(h, k, sending'.frame, sending'.gone)
    <3>1. CASE i \in 1 .. Len(arrived)
      <4>1. Before(h, k, f, g)
        BY <1>3, <1>5, <2>1, <3>1 DEF SentBefore
      <4>2. QED BY <1>1, <4>1
    <3>2. CASE i = Len(arrived) + 1
      <4>1. h = f /\ k = g
        BY <1>3, <1>7, <2>1, <3>2
      <4>2. QED BY <1>1, <4>1
    <3>3. QED BY <1>3, <3>1, <3>2
  <2>2. QED BY <2>1 DEF SentBefore
<1>10. whole' \in BOOLEAN /\ (whole' <=> Partial(arrived)')
  <2>1. CASE g + 1 = length[f]
    <3>1. Partial(arrived)'
      BY <1>1, <1>3, <2>1 DEF Partial
    <3>2. whole' = TRUE
      BY <1>4, <2>1
    <3>3. QED BY <3>1, <3>2
  <2>2. CASE g + 1 # length[f]
    <3>1. sending'.frame = f /\ sending'.gone = g + 1
      BY <1>1, <2>2
    <3>2. whole' = whole
      BY <1>4, <1>5, <2>2
    <3>3. ASSUME Partial(arrived) PROVE Partial(arrived)'
      <4>1. g <= Len(arrived) /\ \A k \in 0 .. g - 1 : arrived[Len(arrived) - g + k + 1] = Byte(f, k)
        BY <3>3 DEF Partial
      <4>2. ASSUME NEW k \in 0 .. g PROVE arrived'[Len(arrived') - (g + 1) + k + 1] = Byte(f, k)
        <5>1. CASE k = g
          <6>1. Len(arrived') - (g + 1) + k + 1 = Len(arrived) + 1
            BY <1>1, <1>3, <5>1
          <6>2. QED BY <1>3, <5>1, <6>1 DEF b
        <5>2. CASE k \in 0 .. g - 1
          <6>1. /\ Len(arrived') - (g + 1) + k + 1 = Len(arrived) - g + k + 1
                /\ Len(arrived) - g + k + 1 \in 1 .. Len(arrived)
            BY <1>1, <1>3, <4>1, <5>2, SMTT(40)
          <6>2. arrived'[Len(arrived) - g + k + 1] = arrived[Len(arrived) - g + k + 1]
            BY <1>3, <6>1, Zenon
          <6>3. arrived[Len(arrived) - g + k + 1] = Byte(f, k)
            BY <4>1, <5>2, Zenon
          <6>4. QED BY <6>1, <6>2, <6>3, Zenon
        <5>3. k = g \/ k \in 0 .. g - 1
          BY <1>14, <4>2
        <5>4. QED BY <5>1, <5>2, <5>3
      <4>3. g + 1 <= Len(arrived') /\ (g + 1) - 1 = g
        BY <1>1, <1>3, <4>1
      <4>4. QED BY <3>1, <4>2, <4>3 DEF Partial
    <3>4. ASSUME Partial(arrived)' PROVE Partial(arrived)
      <4>1. /\ g + 1 <= Len(arrived')
            /\ \A k \in 0 .. (g + 1) - 1 : arrived'[Len(arrived') - (g + 1) + k + 1] = Byte(f, k)
        BY <3>1, <3>4 DEF Partial
      <4>0. g <= Len(arrived)
        BY <1>14, <4>1
      <4>2. ASSUME NEW k \in 0 .. g - 1 PROVE arrived[Len(arrived) - g + k + 1] = Byte(f, k)
        <5> HIDE DEF f, g
        <5>1. /\ k \in 0 .. (g + 1) - 1
              /\ Len(arrived') - (g + 1) + k + 1 = Len(arrived) - g + k + 1
              /\ Len(arrived) - g + k + 1 \in 1 .. Len(arrived)
          BY <1>14, <4>0, <4>2
        <5>2. arrived'[Len(arrived) - g + k + 1] = arrived[Len(arrived) - g + k + 1]
          BY <1>3, <5>1, Zenon
        <5>3. arrived'[Len(arrived') - (g + 1) + k + 1] = Byte(f, k)
          BY <4>1, <5>1, Zenon
        <5>4. QED BY <5>1, <5>2, <5>3, Zenon
      <4>3. g <= Len(arrived)
        BY <1>1, <1>3, <4>1
      <4>4. QED BY <4>2, <4>3 DEF Partial
    <3>5. QED BY <1>5, <3>2, <3>3, <3>4
  <2>3. QED BY <2>1, <2>2
<1>11. ASSUME NEW h \in Frames, NEW p \in Nat, p + length[h] = Len(arrived) + 1,
              b = Byte(h, length[h] - 1),
              \A k \in 0 .. length[h] - 2 : arrived[p + k + 1] = Byte(h, k)
       PROVE  h = f /\ g + 1 = length[f] /\ whole
  <2>1. length[h] - 1 \in Nat
    BY Length, Sizes
  <2>2. h = f /\ length[f] - 1 = g
    BY <1>7, <1>11, <2>1
  <2>3. g + 1 = length[f] /\ g <= Len(arrived)
    BY <1>1, <1>3, <1>11, <2>2
  <2>4. ASSUME NEW k \in 0 .. g - 1 PROVE arrived[Len(arrived) - g + k + 1] = Byte(f, k)
    <3> HIDE DEF f, g
    <3>1. k \in 0 .. length[h] - 2 /\ Len(arrived) - g + k + 1 = p + k + 1
      <4>0. length[h] = g + 1
        BY <2>2, <2>3
      <4>1. p = Len(arrived) - g
        BY <1>11, <1>14, <4>0
      <4>2. k \in Int /\ 0 <= k /\ k <= g - 1
        BY <1>14, <2>4
      <4>3. p + k + 1 = Len(arrived) - g + k + 1
        BY <1>14, <4>1, <4>2
      <4>4. length[h] - 2 = g - 1
        BY <1>14, <4>0
      <4>5. QED BY <2>4, <4>3, <4>4
    <3>2. arrived[p + k + 1] = Byte(h, k)
      BY <1>11, <3>1, Zenon
    <3>3. QED BY <2>2, <3>1, <3>2, Zenon
  <2>5. Partial(arrived)
    BY <2>3, <2>4 DEF Partial
  <2>6. QED BY <1>5, <2>2, <2>3, <2>5
<1>12. Came(arrived', intact') /\ intact' \in Seq(Frames)
  <2>1. CASE ~(g + 1 = length[f] /\ whole)
    <3>1. intact' = intact
      BY <1>4, <2>1
    <3>2. Came(Append(arrived, b), intact)
      BY <1>2, <1>5, <1>11, <2>1, CameAsBefore
    <3>3. QED BY <1>6, <3>1, <3>2
  <2>2. CASE g + 1 = length[f] /\ whole
    <3>1. intact' = Append(intact, f)
      BY <1>4, <2>2
    <3>2. /\ intact' \in Seq(Frames) /\ Len(intact') = Len(intact) + 1 /\ Len(intact) \in Nat
          /\ \A i \in 1 .. Len(intact) : intact'[i] = intact[i] /\ intact[i] \in Frames
          /\ intact'[Len(intact) + 1] = f
      BY <1>1, <3>1
    <3>3. ASSUME NEW i \in 1 .. Len(intact) PROVE intact[i] < f
      <4> DEFINE h == intact[i]
      <4>1. h \in Frames /\ h \in Nat
        BY <3>2, Sizes DEF Frames
      <4>2. PICK p \in 0 .. Len(arrived) : WholeAt(arrived, h, p)
        BY <1>5, <4>1 DEF Came
      <4> HIDE DEF h
      <4>3. length[h] \in Nat /\ length[h] - 1 \in Nat
        BY <4>1, Length, Sizes
      <4>4. /\ arrived[p + (length[h] - 1) + 1] = Byte(h, length[h] - 1)
            /\ p + (length[h] - 1) + 1 \in 1 .. Len(arrived)
        BY <1>3, <4>2, <4>3 DEF WholeAt
      <4>5. Before(h, length[h] - 1, f, g)
        BY <1>5, <4>1, <4>3, <4>4 DEF SentBefore
      <4>6. h < f
        BY <1>1, <2>2, <4>1, <4>3, <4>5 DEF Before
      <4>7. QED BY <4>6 DEF h
    <3>4. \A i, j \in 1 .. Len(intact') : i < j => intact'[i] < intact'[j]
      <4>1. TAKE i, j \in 1 .. Len(intact')
      <4>2. SUFFICES ASSUME i < j PROVE intact'[i] < intact'[j]
        OBVIOUS
      <4>3. i \in 1 .. Len(intact)
        BY <3>2, <4>2
      <4>4. CASE j = Len(intact) + 1
        BY <3>2, <3>3, <4>3, <4>4
      <4>5. CASE j # Len(intact) + 1
        <5>1. j \in 1 .. Len(intact)
          BY <3>2, <4>5
        <5>2. QED BY <1>5, <3>2, <4>2, <4>3, <5>1 DEF Came
      <4>6. QED BY <4>4, <4>5
    <3>5. ASSUME NEW h \in Frames
          PROVE  (\E i \in 1 .. Len(intact') : intact'[i] = h)
                   <=> (\E i \in 1 .. Len(intact) : intact[i] = h) \/ h = f
      <4>1. 1 .. Len(intact') = 1 .. Len(intact) \cup {Len(intact) + 1}
        BY <3>2
      <4>2. QED BY <3>2, <4>1, Zenon
    <3>6. ASSUME NEW h \in Frames
          PROVE  (\E p \in 0 .. Len(arrived') : WholeAt(arrived', h, p))
                   <=> (\E p \in 0 .. Len(arrived) : WholeAt(arrived, h, p)) \/ h = f
      <4>1. ASSUME NEW p \in 0 .. Len(arrived), WholeAt(arrived, h, p)
            PROVE  \E q \in 0 .. Len(arrived') : WholeAt(arrived', h, q)
        <5>1. p \in Nat /\ p \in 0 .. Len(arrived')
          BY <1>3
        <5>2. WholeAt(arrived', h, p)
          BY <1>2, <1>6, <4>1, <5>1, WholeGrows
        <5>3. QED BY <5>1, <5>2
      <4>2. \E q \in 0 .. Len(arrived') : WholeAt(arrived', f, q)
        <5> DEFINE q == Len(arrived) - g
        <5>1. g <= Len(arrived) /\ \A k \in 0 .. g - 1 : arrived[Len(arrived) - g + k + 1] = Byte(f, k)
          BY <1>5, <2>2 DEF Partial
        <5>2. q \in 0 .. Len(arrived') /\ q + length[f] = Len(arrived')
          BY <1>1, <1>3, <2>2, <5>1
        <5>3. ASSUME NEW k \in 0 .. length[f] - 1 PROVE arrived'[q + k + 1] = Byte(f, k)
          <6>1. CASE k = g
            <7>1. q + k + 1 = Len(arrived) + 1
              BY <1>1, <1>3, <6>1
            <7>2. QED BY <1>3, <6>1, <7>1 DEF b
          <6>2. CASE k # g
            <7>1. k \in 0 .. g - 1 /\ q + k + 1 \in 1 .. Len(arrived)
              <8>1. length[f] = g + 1 /\ g <= Len(arrived)
                BY <2>2, <5>1
              <8>2. QED BY <1>14, <5>3, <6>2, <8>1
            <7>2. arrived'[q + k + 1] = arrived[q + k + 1]
              BY <1>3, <7>1, Zenon
            <7>3. arrived[Len(arrived) - g + k + 1] = Byte(f, k)
              BY <5>1, <7>1, Zenon
            <7>4. QED BY <7>2, <7>3, Zenon
          <6>3. QED BY <6>1, <6>2
        <5> HIDE DEF q
        <5>4. WholeAt(arrived', f, q)
          <6>1. q + length[f] <= Len(arrived')
            BY <1>3, <5>2
          <6>2. QED BY <5>3, <6>1 DEF WholeAt
        <5>5. QED BY <5>2, <5>4
      <4>3. ASSUME NEW p \in 0 .. Len(arrived'), WholeAt(arrived', h, p)
            PROVE  (\E q \in 0 .. Len(arrived) : WholeAt(arrived, h, q)) \/ h = f
        <5>1. p \in Nat
          BY <1>3
        <5>2. WholeAt(arrived, h, p) \/ b = Byte(h, length[h] - 1)
          BY <1>2, <1>6, <4>3, <5>1, WholeGrows
        <5>3. CASE WholeAt(arrived, h, p)
          <6>1. p \in 0 .. Len(arrived)
            BY <1>3, <5>1, <5>3, Length DEF WholeAt
          <6>2. QED BY <5>3, <6>1
        <5>4. CASE b = Byte(h, length[h] - 1)
          <6>1. length[h] - 1 \in Nat
            BY Length, Sizes
          <6>2. QED BY <1>7, <5>4, <6>1
        <5>5. QED BY <5>2, <5>3, <5>4
      <4>4. QED BY <4>1, <4>2, <4>3
    <3>7. QED
      <4>1. \A h \in Frames : (\E i \in 1 .. Len(intact') : intact'[i] = h)
                                <=> (\E p \in 0 .. Len(arrived') : WholeAt(arrived', h, p))
        BY <1>5, <3>5, <3>6 DEF Came
      <4>2. QED BY <3>2, <3>4, <4>1 DEF Came
  <2>3. QED BY <2>1, <2>2
<1>13. QED BY <1>1, <1>3, <1>8, <1>9, <1>10, <1>12, SameFrames DEF LineInv

LEMMA LineByteDamaged ==
  ASSUME length \in [Frames -> Lengths], arrived \in Seq(Bytes), intact \in Seq(Frames), LineInv,
         length' = length, Progress(1, FALSE), arrived' = Append(arrived, Garbage)
  PROVE  LineInv' /\ arrived' \in Seq(Bytes) /\ intact' \in Seq(Frames)
<1> DEFINE f == sending.frame
           g == sending.gone
<1>1. /\ f \in Frames /\ g \in Nat /\ g + 1 <= length[f] /\ length[f] \in Nat
      /\ g + 1 = length[f] => sending'.frame = f + 1 /\ sending'.gone = 0
      /\ g + 1 # length[f] => sending'.frame = f /\ sending'.gone = g + 1
      /\ Sent'
      /\ \A h \in Frames : \A j \in Nat :
           Before(h, j, f, g) \/ (h = f /\ j < g + 1) => Before(h, j, sending'.frame, sending'.gone)
  <2>1. Sent /\ 1 \in Nat /\ 1 >= 1
    BY DEF LineInv
  <2>2. QED BY <2>1, Passed, Zenon
<1>2. Garbage \in Bytes /\ \A h \in Frames : \A k \in Nat : Garbage # Byte(h, k)
  BY BytesDiffer DEF Bytes
<1>3. /\ arrived' \in Seq(Bytes) /\ Len(arrived') = Len(arrived) + 1 /\ Len(arrived) \in Nat
      /\ \A i \in 1 .. Len(arrived) : arrived'[i] = arrived[i]
      /\ arrived'[Len(arrived) + 1] = Garbage
  BY <1>2, Appended
<1>4. whole' = (g + 1 = length[f]) /\ intact' = intact
  BY DEF Progress
<1>5. Ordered(arrived') /\ Came(arrived', intact')
  BY <1>4, GarbageComes DEF LineInv
<1>6. SentBefore(arrived)'
  <2>1. ASSUME NEW i \in 1 .. Len(arrived'), NEW h \in Frames, NEW k \in Nat, arrived'[i] = Byte(h, k)
        PROVE  Before(h, k, sending'.frame, sending'.gone)
    <3>1. i \in 1 .. Len(arrived)
      BY <1>2, <1>3, <2>1
    <3>2. Before(h, k, f, g)
      BY <1>3, <2>1, <3>1 DEF LineInv, SentBefore
    <3>3. QED BY <1>1, <3>2
  <2>2. QED BY <2>1 DEF SentBefore
<1>7. whole' <=> Partial(arrived)'
  <2>1. CASE g + 1 = length[f]
    <3>1. whole'
      BY <1>4, <2>1
    <3>2. Partial(arrived)'
      BY <1>1, <1>3, <2>1 DEF Partial
    <3>3. QED BY <3>1, <3>2
  <2>2. CASE g + 1 # length[f]
    <3>1. sending'.frame = f /\ sending'.gone = g + 1
      BY <1>1, <2>2
    <3>2. SUFFICES ASSUME Partial(arrived)' PROVE FALSE
      BY <1>4, <2>2
    <3> HIDE DEF f, g
    <3>3. \A k \in 0 .. (g + 1) - 1 : arrived'[Len(arrived') - (g + 1) + k + 1] = Byte(f, k)
      BY <3>1, <3>2 DEF Partial
    <3>4. g \in 0 .. (g + 1) - 1 /\ Len(arrived') - (g + 1) + g + 1 = Len(arrived) + 1
      BY <1>1, <1>3
    <3>5. arrived'[Len(arrived) + 1] = Byte(f, g)
      BY <3>3, <3>4
    <3>6. QED BY <1>1, <1>2, <1>3, <3>5
  <2>3. QED BY <2>1, <2>2
<1>8. whole' \in BOOLEAN
  BY <1>4
<1>9. QED BY <1>1, <1>3, <1>4, <1>5, <1>6, <1>7, <1>8, SameFrames DEF LineInv

LEMMA LineBytesLost ==
  ASSUME length \in [Frames -> Lengths], arrived \in Seq(Bytes), intact \in Seq(Frames), LineInv,
         length' = length, BytesLost
  PROVE  LineInv' /\ arrived' = arrived /\ intact' = intact
<1> DEFINE f == sending.frame
           g == sending.gone
<1>1. PICK n \in {1, length[f] - g} : Progress(n, FALSE)
  BY DEF BytesLost
<1>2. f \in Frames /\ g \in Nat /\ g < length[f] /\ length[f] \in Nat /\ Sent
  BY Length DEF BytesLost, LineInv, Sent
<1>3. n \in Nat /\ n >= 1
  BY <1>2
<1>4. /\ g + n <= length[f]
      /\ g + n = length[f] => sending'.frame = f + 1 /\ sending'.gone = 0
      /\ g + n # length[f] => sending'.frame = f /\ sending'.gone = g + n
      /\ Sent'
      /\ \A h \in Frames : \A j \in Nat :
           Before(h, j, f, g) \/ (h = f /\ j < g + n) => Before(h, j, sending'.frame, sending'.gone)
  BY <1>1, <1>2, <1>3, Passed, Zenon
<1>5. whole' = (g + n = length[f]) /\ intact' = intact /\ arrived' = arrived /\ whole' \in BOOLEAN
  BY <1>1 DEF Progress, BytesLost
<1>6. Ordered(arrived') /\ Came(arrived', intact')
  BY <1>5 DEF LineInv
<1>7. SentBefore(arrived)'
  BY <1>4, <1>5 DEF LineInv, SentBefore
<1>8. Len(arrived) \in Nat
  OBVIOUS
<1>9. whole' <=> Partial(arrived)'
  <2>1. CASE g + n = length[f]
    <3>1. whole'
      BY <1>5, <2>1
    <3>2. Partial(arrived)'
      BY <1>4, <1>5, <1>8, <2>1 DEF Partial
    <3>3. QED BY <3>1, <3>2
  <2>2. CASE g + n # length[f]
    <3>1. sending'.frame = f /\ sending'.gone = g + n
      BY <1>4, <2>2
    <3>2. SUFFICES ASSUME Partial(arrived)' PROVE FALSE
      BY <1>5, <2>2
    <3> HIDE DEF f, g
    <3>3. /\ g + n <= Len(arrived)
          /\ \A k \in 0 .. (g + n) - 1 : arrived[Len(arrived) - (g + n) + k + 1] = Byte(f, k)
      BY <1>5, <3>1, <3>2 DEF Partial
    <3> DEFINE k == (g + n) - 1
    <3>4. /\ k \in 0 .. (g + n) - 1 /\ Len(arrived) - (g + n) + k + 1 = Len(arrived)
          /\ Len(arrived) \in 1 .. Len(arrived) /\ k \in Nat
      BY <1>2, <1>3, <1>8, <3>3
    <3>5. arrived[Len(arrived)] = Byte(f, k)
      BY <3>3, <3>4
    <3>6. Before(f, k, f, g)
      BY <1>2, <3>4, <3>5 DEF LineInv, SentBefore, f, g
    <3>7. f \in Nat
      BY <1>2, Sizes DEF Frames
    <3>8. QED BY <1>2, <1>3, <3>6, <3>7 DEF Before
  <2>3. QED BY <2>1, <2>2
<1>10. QED BY <1>4, <1>5, <1>6, <1>7, <1>9, SameFrames DEF LineInv

LEMMA LineByteInserted ==
  ASSUME length \in [Frames -> Lengths], arrived \in Seq(Bytes), intact \in Seq(Frames), LineInv,
         length' = length, arrived' = Append(arrived, Garbage), UNCHANGED <<sending, intact>>,
         whole' = (whole /\ sending.gone = 0)
  PROVE  LineInv' /\ arrived' \in Seq(Bytes) /\ intact' \in Seq(Frames)
<1>1. Garbage \in Bytes /\ \A h \in Frames : \A k \in Nat : Garbage # Byte(h, k)
  BY BytesDiffer DEF Bytes
<1>2. /\ arrived' \in Seq(Bytes) /\ Len(arrived') = Len(arrived) + 1 /\ Len(arrived) \in Nat
      /\ \A i \in 1 .. Len(arrived) : arrived'[i] = arrived[i]
      /\ arrived'[Len(arrived) + 1] = Garbage
  BY <1>1, Appended
<1>3. Sent /\ Sent' /\ sending.gone \in Nat
  BY DEF LineInv, Sent
<1>4. Ordered(arrived') /\ Came(arrived', intact')
  BY GarbageComes DEF LineInv
<1>5. SentBefore(arrived)'
  <2>1. ASSUME NEW i \in 1 .. Len(arrived'), NEW h \in Frames, NEW k \in Nat, arrived'[i] = Byte(h, k)
        PROVE  Before(h, k, sending.frame, sending.gone)
    <3>1. i \in 1 .. Len(arrived)
      BY <1>1, <1>2, <2>1
    <3>2. QED BY <1>2, <2>1, <3>1 DEF LineInv, SentBefore
  <2>2. QED BY <2>1 DEF SentBefore
<1>6. whole' <=> Partial(arrived)'
  <2>1. CASE sending.gone = 0
    <3>1. Partial(arrived) /\ Partial(arrived)'
      BY <1>2, <2>1 DEF Partial
    <3>2. QED BY <2>1, <3>1 DEF LineInv
  <2>2. CASE sending.gone # 0
    <3>1. sending.gone > 0
      BY <1>3, <2>2
    <3>2. ~Partial(Append(arrived, Garbage))
      BY <1>3, <3>1, NotPartial
    <3>3. ~Partial(arrived)'
      BY <3>2 DEF Partial
    <3>4. QED BY <2>2, <3>3
  <2>3. QED BY <2>1, <2>2
<1>7. whole' \in BOOLEAN
  OBVIOUS
<1>8. QED BY <1>2, <1>3, <1>4, <1>5, <1>6, <1>7, SameFrames DEF LineInv

-----------------------------------------------------------------------------
(* The steps *)

LEMMA PrefixGrows ==
  ASSUME NEW done \in Seq(Frames), NEW frames \in Seq(Frames), NEW frames2, Prefix(done, frames),
         frames2 = frames \/ \E f \in Frames : frames2 = Append(frames, f)
  PROVE  Prefix(done, frames2)
<1>1. CASE frames2 = frames
  BY <1>1
<1>2. CASE \E f \in Frames : frames2 = Append(frames, f)
  <2>1. PICK f \in Frames : frames2 = Append(frames, f)
    BY <1>2
  <2>2. /\ Len(frames2) = Len(frames) + 1 /\ Len(frames) \in Nat /\ Len(done) \in Nat
        /\ \A i \in 1 .. Len(frames) : frames2[i] = frames[i]
    BY <2>1
  <2>3. QED BY <2>2 DEF Prefix
<1>3. QED BY <1>1, <1>2

\* One call of streamHandler keeps the buffer, and the frames handled, in order.
LEMMA Handling ==
  ASSUME length \in [Frames -> Lengths], handled \in Seq(Frames),
         NEW buf, NEW n, NEW next, NEW arr, NEW frames \in Seq(Frames),
         Loaded(buf, n, next, arr), Handles(buf, n, next), Ordered(arr), Came(arr, frames),
         Kept(arr, Dropped(n, next, arr), handled), Prefix(handled, frames)
  PROVE  /\ Fits(arr) /\ handled' \in Seq(Frames)
         /\ Kept(arr, Dropped(recvIndex', From', arr), handled') /\ Prefix(handled', frames)
<1>1. CASE Waits(buf, n, next)
  <2>1. Fits(arr) /\ Dropped(recvIndex', From', arr) = Dropped(n, next, arr)
    BY <1>1, AfterWaits
  <2>2. handled' = handled
    BY <1>1 DEF Waits
  <2>3. QED BY <2>1, <2>2
<1>2. CASE Shifts(buf, n, next)
  <2>1. n = HeaderSize /\ Fits(arr) /\ Dropped(recvIndex', From', arr) = Dropped(n, next, arr) + 1
    BY <1>2, AfterShifts
  <2>2. handled' = handled /\ n >= HeaderSize /\ \A f \in Frames : ~HeadOf(buf, f)
    BY <1>2 DEF Shifts, Headed
  <2>3. Kept(arr, Dropped(n, next, arr) + 1, handled)
    BY <2>2, KeptByShifts
  <2>4. QED BY <2>1, <2>2, <2>3
<1>3. ASSUME NEW f \in Frames, Calls(buf, n, next, f)
      PROVE  /\ Fits(arr) /\ handled' \in Seq(Frames)
             /\ Kept(arr, Dropped(recvIndex', From', arr), handled') /\ Prefix(handled', frames)
  <2>1. /\ Fits(arr)
        /\ Dropped(recvIndex', From', arr) = Dropped(n, next, arr) + (n - HeaderSize + 1)
    BY <1>3, AfterCalls
  <2>2. handled' = Append(handled, f)
    BY <1>3 DEF Calls, CallApp
  <2>3. Kept(arr, Dropped(n, next, arr) + (n - HeaderSize + 1), Append(handled, f))
    BY <1>3, KeptByCalls
  <2>4. Prefix(Append(handled, f), frames)
    BY <1>3, PrefixByCalls
  <2>5. QED BY <2>1, <2>2, <2>3, <2>4
<1>4. ASSUME NEW f \in Frames, Reuses(buf, n, next, f)
      PROVE  /\ Fits(arr) /\ handled' \in Seq(Frames)
             /\ Kept(arr, Dropped(recvIndex', From', arr), handled') /\ Prefix(handled', frames)
  <2>1. Fits(arr) /\ Dropped(recvIndex', From', arr) = Dropped(n, next, arr) + 1
    BY <1>4, AfterReuses
  <2>2. handled' = handled /\ n >= HeaderSize /\ HeadOf(buf, f) /\ n = length[f] /\ ~FrameAt(buf, f)
    BY <1>4 DEF Reuses
  <2>3. \A g \in Frames : ~(HeadOf(buf, g) /\ (n = length[g] => FrameAt(buf, g)))
    BY <2>2, OneHead
  <2>4. Kept(arr, Dropped(n, next, arr) + 1, handled)
    BY <2>2, <2>3, KeptByShifts
  <2>5. QED BY <2>1, <2>2, <2>4
<1>5. QED BY <1>1, <1>2, <1>3, <1>4 DEF Handles

\* What a call leaves behind is the invariant again.
LEMMA InvAfter ==
  ASSUME length \in [Frames -> Lengths], length' = length, Fits(arrived'),
         handled' \in Seq(Frames), arrived' \in Seq(Bytes), intact' \in Seq(Frames), LineInv',
         Kept(arrived', Dropped(recvIndex', From', arrived'), handled'), Prefix(handled', intact')
  PROVE  IInv'
<1>1. TypeOK'
  BY DEF Fits, TypeOK, Places, Bytes, Frames
<1>2. Aligned'
  BY DEF Fits, Aligned, Fed, Dropped
<1>3. Collecting'
  BY DEF Fits, Collecting, Short, HeadOf
<1>4. Looking'
  <2>1. \A f \in Frames : \A p \in 0 .. Len(arrived') : RunAt(arrived, f, p)' <=> RunAt(arrived', f, p)
    BY DEF RunAt
  <2>2. Kept(arrived, Dropped(recvIndex, From, arrived), handled)'
    BY <2>1 DEF Kept, Dropped
  <2>3. QED BY <2>2 DEF Looking, Prefix
<1>5. QED BY <1>1, <1>2, <1>3, <1>4 DEF IInv, FilterInv

\* byteHandler is called with a byte.
LEMMA ReceiveStep ==
  ASSUME IInv, NEW b \in Bytes, Receive(b), length' = length, LineInv',
         arrived' \in Seq(Bytes), intact' \in Seq(Frames),
         intact' = intact \/ \E f \in Frames : intact' = Append(intact, f)
  PROVE  IInv'
<1>1. /\ FilterInv /\ LineInv /\ Looking /\ length \in [Frames -> Lengths]
      /\ handled \in Seq(Frames) /\ intact \in Seq(Frames) /\ arrived \in Seq(Bytes)
  BY DEF IInv, FilterInv, TypeOK
<1>2. ~reusing /\ StreamHandler(b, MaxRecvSize) /\ arrived' = Append(arrived, b)
  BY DEF Receive, ByteHandler
<1> DEFINE buf == StoreData(b).buf
           n   == StoreData(b).n
<1>3. buf = [recvBuf EXCEPT ![recvIndex] = b] /\ n = recvIndex + 1 /\ n \in Nat
  <2>1. recvIndex \in Nat
    BY <1>1 DEF FilterInv, TypeOK
  <2>2. StoreData(b).buf = [recvBuf EXCEPT ![recvIndex] = b] /\ StoreData(b).n = recvIndex + 1
    BY <1>1, Stored
  <2>3. QED BY <2>1, <2>2
<1>4. Handles(buf, n, MaxRecvSize)
  BY <1>2, <1>3, Cases
<1>5. Loaded(buf, n, MaxRecvSize, arrived')
      /\ Dropped(n, MaxRecvSize, arrived') = Dropped(recvIndex, From, arrived)
  BY <1>1, <1>2, <1>3, LoadedByCall
<1> HIDE DEF buf, n
<1>6. Came(arrived', intact') /\ Ordered(arrived')
  BY SameFrames DEF LineInv
<1>7. Prefix(handled, intact')
  BY <1>1, PrefixGrows DEF Looking
<1>8. Kept(arrived', Dropped(n, MaxRecvSize, arrived'), handled)
  <2> DEFINE start == Dropped(recvIndex, From, arrived)
  <2>1. start \in Nat /\ start <= Len(arrived)
    BY <1>1, Sizes DEF FilterInv, TypeOK, Aligned, Fed, From, Dropped
  <2>2. Kept(arrived, start, handled) /\ Prefix(handled, intact) /\ Came(arrived, intact)
    BY <1>1 DEF Looking, LineInv
  <2> HIDE DEF start
  <2>3. Kept(arrived', start, handled)
    BY <1>1, <1>2, <1>6, <2>1, <2>2, KeptGrows
  <2>4. QED BY <1>5, <2>3 DEF start
<1>9. /\ Fits(arrived') /\ handled' \in Seq(Frames)
      /\ Kept(arrived', Dropped(recvIndex', From', arrived'), handled') /\ Prefix(handled', intact')
  BY <1>1, <1>4, <1>5, <1>6, <1>7, <1>8, Handling
<1>10. QED BY <1>1, <1>9, InvAfter

\* Its loop feeds a byte again.
LEMMA RefeedStep ==
  ASSUME IInv, Refeed
  PROVE  IInv'
<1>1. /\ FilterInv /\ LineInv /\ Looking /\ length \in [Frames -> Lengths]
      /\ handled \in Seq(Frames) /\ intact \in Seq(Frames) /\ arrived \in Seq(Bytes)
  BY DEF IInv, FilterInv, TypeOK
<1> DEFINE b   == recvBuf[reuseIndex]
           buf == StoreData(b).buf
           n   == StoreData(b).n
<1>2. /\ reusing /\ reuseIndex < MaxRecvSize /\ StreamHandler(b, reuseIndex + 1)
      /\ length' = length /\ sending' = sending /\ whole' = whole
      /\ arrived' = arrived /\ intact' = intact
  BY DEF Refeed, line
<1>3. b \in Bytes
  BY <1>1, <1>2, LoadedByLoop
<1>4. buf = [recvBuf EXCEPT ![recvIndex] = b] /\ n = recvIndex + 1 /\ n \in Nat
  <2>1. recvIndex \in Nat
    BY <1>1 DEF FilterInv, TypeOK
  <2>2. StoreData(b).buf = [recvBuf EXCEPT ![recvIndex] = b] /\ StoreData(b).n = recvIndex + 1
    BY <1>1, <1>3, Stored
  <2>3. QED BY <2>1, <2>2
<1>5. Handles(buf, n, reuseIndex + 1)
  BY <1>2, <1>4, Cases
<1>6. Loaded(buf, n, reuseIndex + 1, arrived)
      /\ Dropped(n, reuseIndex + 1, arrived) = Dropped(recvIndex, From, arrived)
  BY <1>1, <1>2, <1>4, LoadedByLoop
<1> HIDE DEF b, buf, n
<1>7. /\ Fits(arrived) /\ handled' \in Seq(Frames)
      /\ Kept(arrived, Dropped(recvIndex', From', arrived), handled') /\ Prefix(handled', intact)
  BY <1>1, <1>5, <1>6, Handling DEF LineInv, Looking
<1>8. LineInv'
  BY <1>1, <1>2, SameFrames DEF LineInv, Sent, Partial, SentBefore
<1>9. QED BY <1>1, <1>2, <1>7, <1>8, InvAfter

LEMMA InitInv == Init => IInv
<1> SUFFICES ASSUME Init PROVE IInv
  OBVIOUS
<1>1. /\ length \in [Frames -> Lengths] /\ sending = [frame |-> 1, gone |-> 0] /\ whole = TRUE
      /\ arrived = << >> /\ intact = << >> /\ handled = << >>
      /\ recvBuf = [i \in Places |-> Garbage] /\ recvIndex = 0 /\ reuseIndex = 0 /\ reusing = FALSE
  BY DEF Init
<1>2. /\ Len(arrived) = 0 /\ Len(intact) = 0 /\ Len(handled) = 0
      /\ arrived \in Seq(Bytes) /\ intact \in Seq(Frames) /\ handled \in Seq(Frames)
  BY <1>1
<1>3. TypeOK
  <2>1. Garbage \in Bytes
    BY DEF Bytes
  <2>2. recvBuf \in [Places -> Bytes]
    BY <1>1, <2>1
  <2>3. recvIndex \in 0 .. MaxRecvSize /\ reuseIndex \in 0 .. MaxRecvSize
    BY <1>1, Sizes
  <2>4. reusing \in BOOLEAN /\ ~reusing
    BY <1>1
  <2>5. QED BY <1>2, <2>2, <2>3, <2>4 DEF TypeOK
<1>4. Aligned /\ Dropped(recvIndex, From, arrived) = 0
  <2>1. From = MaxRecvSize
    BY <1>1 DEF From
  <2>2. Dropped(recvIndex, From, arrived) = 0
    BY <1>1, <1>2, <2>1, Sizes DEF Dropped
  <2>3. QED BY <1>1, <2>1, <2>2, Sizes DEF Aligned, Fed
<1>5. Collecting
  BY <1>1, Sizes DEF Collecting, Short
<1>6. \A f \in Frames : \A p \in 0 .. Len(arrived) : ~WholeAt(arrived, f, p) /\ ~RunAt(arrived, f, p)
  BY <1>1, <1>2, Length, Sizes DEF WholeAt, RunAt
<1>7. Came(arrived, intact) /\ Kept(arrived, Dropped(recvIndex, From, arrived), handled)
  BY <1>2, <1>6 DEF Came, Kept
<1>8. Ordered(arrived) /\ SentBefore(arrived) /\ Partial(arrived) /\ Prefix(handled, intact)
  BY <1>1, <1>2 DEF Ordered, SentBefore, Partial, Prefix
<1>9. Sent
  <2>1. sending.frame = 1 /\ sending.gone = 0 /\ sending \in [frame : 1 .. NFrames + 1, gone : Nat]
    BY <1>1, Sizes
  <2>2. 1 \in Frames => 0 < length[1]
    BY <1>1, Length, Sizes
  <2>3. QED BY <2>1, <2>2 DEF Sent
<1>10. QED BY <1>1, <1>3, <1>4, <1>5, <1>7, <1>8, <1>9 DEF IInv, FilterInv, LineInv, Looking

\* The loop ends with nothing left to feed.
LEMMA RefeedDoneStep ==
  ASSUME IInv, RefeedDone
  PROVE  IInv'
<1>1. /\ reusing /\ reuseIndex >= MaxRecvSize /\ reusing' = FALSE
      /\ length' = length /\ sending' = sending /\ whole' = whole /\ arrived' = arrived
      /\ intact' = intact /\ recvBuf' = recvBuf /\ recvIndex' = recvIndex
      /\ reuseIndex' = reuseIndex /\ handled' = handled
  BY DEF RefeedDone, line
<1>2. From = MaxRecvSize /\ From' = From
  BY <1>1, Sizes DEF From, IInv, FilterInv, TypeOK
<1>3. TypeOK' /\ length' \in [Frames -> Lengths]
  BY <1>1 DEF IInv, FilterInv, TypeOK
<1>4. Aligned' /\ Collecting'
  BY <1>1, <1>2 DEF IInv, FilterInv, Aligned, Fed, Dropped, Collecting, Short, HeadOf
<1>5. LineInv'
  BY <1>1, SameFrames DEF IInv, LineInv, Sent, Partial, SentBefore
<1>6. Looking'
  BY <1>1, <1>2 DEF IInv, Looking, Kept, RunAt, Dropped, Prefix
<1>7. QED BY <1>3, <1>4, <1>5, <1>6 DEF IInv, FilterInv

LEMMA NextInv == IInv /\ [Next]_vars => IInv'
<1> SUFFICES ASSUME IInv, [Next]_vars PROVE IInv'
  OBVIOUS
<1>0. /\ length \in [Frames -> Lengths] /\ arrived \in Seq(Bytes) /\ intact \in Seq(Frames)
      /\ handled \in Seq(Frames) /\ LineInv /\ Looking
  BY DEF IInv, FilterInv, TypeOK
<1>1. Garbage \in Bytes
  BY DEF Bytes
<1>2. CASE ByteArrives
  <2> DEFINE b == Byte(sending.frame, sending.gone)
  <2>1. Progress(1, TRUE) /\ Receive(b) /\ length' = length /\ arrived' = Append(arrived, b)
    BY <1>2 DEF ByteArrives, Receive
  <2>2. LineInv' /\ arrived' \in Seq(Bytes) /\ intact' \in Seq(Frames)
    BY <1>0, <2>1, LineByteArrives
  <2>3. sending.frame \in Frames /\ (intact' = intact \/ intact' = Append(intact, sending.frame))
    BY <2>1 DEF Progress
  <2>4. b \in Bytes
    <3>1. sending.gone \in 0 .. MaxRecvSize
      BY <1>0, <2>3, Length, Sizes DEF LineInv, Sent
    <3>2. b \in {Byte(h, k) : h \in Frames, k \in 0 .. MaxRecvSize}
      BY <2>3, <3>1
    <3>3. QED BY <3>2 DEF Bytes
  <2> HIDE DEF b
  <2>5. QED BY <2>1, <2>2, <2>3, <2>4, ReceiveStep
<1>3. CASE ByteDamaged
  <2>1. Progress(1, FALSE) /\ Receive(Garbage) /\ length' = length /\ arrived' = Append(arrived, Garbage)
    BY <1>3 DEF ByteDamaged, Receive, Fault
  <2>2. LineInv' /\ arrived' \in Seq(Bytes) /\ intact' \in Seq(Frames)
    BY <1>0, <2>1, LineByteDamaged
  <2>3. intact' = intact
    BY <2>1 DEF Progress
  <2>4. QED BY <1>1, <2>1, <2>2, <2>3, ReceiveStep
<1>4. CASE BytesLost
  <2>1. /\ length' = length /\ arrived' = arrived /\ recvBuf' = recvBuf /\ recvIndex' = recvIndex
        /\ reuseIndex' = reuseIndex /\ reusing' = reusing /\ handled' = handled
    BY <1>4 DEF BytesLost, Fault, filter
  <2>2. LineInv' /\ intact' = intact
    BY <1>0, <1>4, <2>1, LineBytesLost
  <2>3. FilterInv'
    BY <2>1, <2>2 DEF IInv, FilterInv, TypeOK, Aligned, Fed, Dropped, From, Collecting, Short, HeadOf
  <2>4. Looking'
    BY <2>1, <2>2 DEF IInv, Looking, Kept, RunAt, Dropped, From, Prefix
  <2>5. QED BY <2>2, <2>3, <2>4 DEF IInv
<1>5. CASE ByteInserted
  <2>1. /\ Receive(Garbage) /\ length' = length /\ arrived' = Append(arrived, Garbage)
        /\ UNCHANGED <<sending, intact>> /\ whole' = (whole /\ sending.gone = 0)
    BY <1>5 DEF ByteInserted, Receive, Fault
  <2>2. LineInv' /\ arrived' \in Seq(Bytes) /\ intact' \in Seq(Frames)
    BY <1>0, <2>1, LineByteInserted
  <2>3. QED BY <1>1, <2>1, <2>2, ReceiveStep
<1>6. CASE Refeed
  BY <1>6, RefeedStep
<1>7. CASE RefeedDone
  BY <1>7, RefeedDoneStep
<1>8. CASE UNCHANGED vars
  <2>1. UNCHANGED <<length, sending, whole, arrived, intact, recvBuf, recvIndex, reuseIndex,
                    reusing, handled>>
    BY <1>8 DEF vars, line, filter
  <2>2. LineInv'
    BY <1>0, <2>1, SameFrames DEF LineInv, Sent, Partial, SentBefore
  <2>3. FilterInv'
    BY <2>1 DEF IInv, FilterInv, TypeOK, Aligned, Fed, Dropped, From, Collecting, Short, HeadOf
  <2>4. Looking'
    BY <2>1 DEF IInv, Looking, Kept, RunAt, Dropped, From, Prefix
  <2>5. QED BY <2>2, <2>3, <2>4 DEF IInv
<1>9. QED BY <1>2, <1>3, <1>4, <1>5, <1>6, <1>7, <1>8 DEF Next

LEMMA Invariant == Spec => []IInv
  BY InitInv, NextInv, PTL DEF Spec

-----------------------------------------------------------------------------
(* What it is for *)

LEMMA Suffix ==
  ASSUME NEW S, NEW s \in Seq(S), NEW t \in Seq(S), Len(s) <= Len(t),
         \A i \in 1 .. Len(s) : s[i] = t[Len(t) - Len(s) + i]
  PROVE  IsSuffix(s, t)
<1> DEFINE rs == [i \in 1 .. Len(s) |-> s[(Len(s) - i) + 1]]
           rt == [i \in 1 .. Len(t) |-> t[(Len(t) - i) + 1]]
<1>1. Len(s) \in Nat /\ Len(t) \in Nat
  OBVIOUS
<1>2. rs \in Seq(S) /\ rt \in Seq(S) /\ Len(rs) = Len(s) /\ Len(rt) = Len(t)
  BY <1>1
<1>3. ASSUME NEW i \in 1 .. Len(s) PROVE rs[i] = rt[i]
  <2> DEFINE j == (Len(s) - i) + 1
  <2>1. j \in 1 .. Len(s) /\ Len(t) - Len(s) + j = (Len(t) - i) + 1
    BY <1>1, <1>3
  <2>2. i \in 1 .. Len(t)
    BY <1>1, <1>3
  <2>3. s[j] = t[Len(t) - Len(s) + j]
    BY <2>1
  <2>4. QED BY <1>3, <2>1, <2>2, <2>3
<1>4. IsPrefix(rs, rt)
  BY <1>1, <1>2, <1>3, SMTT(40) DEF IsPrefix
<1>5. QED BY <1>4 DEF IsSuffix, Reverse

\* However the damaged bytes are fed again through the buffer they are collected in, the
\* filter skips none and moves none out of place.
THEOREM FilterSkipsNothing == Spec => []NothingSkipped
<1>1. ASSUME IInv PROVE NothingSkipped
  <2> DEFINE rest == IF reusing THEN MaxRecvSize - reuseIndex ELSE 0
             a == [i \in 1 .. recvIndex |-> recvBuf[i - 1]]
             c == [i \in 1 .. rest |-> recvBuf[reuseIndex + i - 1]]
             start == Dropped(recvIndex, From, arrived)
  <2>1. /\ recvBuf \in [Places -> Bytes] /\ recvIndex \in 0 .. MaxRecvSize
        /\ reuseIndex \in 0 .. MaxRecvSize /\ arrived \in Seq(Bytes) /\ Len(arrived) \in Nat
        /\ TypeOK
    BY <1>1 DEF IInv, FilterInv, TypeOK
  <2>2. rest = MaxRecvSize - From /\ rest \in Nat /\ (rest # 0 => From = reuseIndex)
    BY <2>1, Sizes DEF From
  <2>3. start = Len(arrived) - recvIndex - rest
    BY <2>1, <2>2, Sizes DEF Dropped, From
  <2>4. /\ start >= 0
        /\ \A i \in 0 .. recvIndex - 1 : recvBuf[i] = arrived[start + i + 1]
        /\ \A i \in From .. MaxRecvSize - 1 : recvBuf[i] = arrived[Len(arrived) - MaxRecvSize + i + 1]
    BY <1>1 DEF IInv, FilterInv, Aligned, Fed
  <2>5. Pending = a \o c
    BY DEF Pending
  <2> HIDE DEF rest, start
  <2>6. a \in Seq(Bytes) /\ Len(a) = recvIndex
    BY <2>1, Sizes
  <2>7. c \in Seq(Bytes) /\ Len(c) = rest
    <3>1. ASSUME NEW i \in 1 .. rest PROVE reuseIndex + i - 1 \in Places
      BY <2>1, <2>2, <3>1, Sizes
    <3>2. QED BY <2>1, <2>2, <3>1
  <2>8. ASSUME NEW i \in 1 .. recvIndex PROVE a[i] = arrived[start + i]
    <3>1. i - 1 \in 0 .. recvIndex - 1 /\ start + (i - 1) + 1 = start + i
      BY <2>1, <2>2, <2>3, <2>8
    <3>2. QED BY <2>4, <2>8, <3>1
  <2>9. ASSUME NEW i \in 1 .. rest PROVE c[i] = arrived[start + (recvIndex + i)]
    <3>1. /\ reuseIndex + i - 1 \in From .. MaxRecvSize - 1
          /\ Len(arrived) - MaxRecvSize + (reuseIndex + i - 1) + 1 = start + (recvIndex + i)
      BY <2>1, <2>2, <2>3, <2>9, Sizes
    <3>2. QED BY <2>4, <2>9, <3>1
  <2> HIDE DEF a, c
  <2>10. /\ a \o c \in Seq(Bytes) /\ Len(a \o c) = recvIndex + rest
         /\ \A i \in 1 .. recvIndex : (a \o c)[i] = a[i]
         /\ \A i \in 1 .. rest : (a \o c)[recvIndex + i] = c[i]
    BY <2>1, <2>2, <2>6, <2>7, SMTT(40)
  <2> DEFINE s == a \o c
  <2>11. ASSUME NEW i \in 1 .. recvIndex + rest PROVE s[i] = arrived[start + i]
    <3>1. CASE i \in 1 .. recvIndex
      BY <2>8, <2>10, <3>1
    <3>2. CASE i \notin 1 .. recvIndex
      <4>1. i - recvIndex \in 1 .. rest /\ recvIndex + (i - recvIndex) = i
        BY <2>1, <2>2, <2>11, <3>2
      <4>2. QED BY <2>9, <2>10, <4>1
    <3>3. QED BY <3>1, <3>2
  <2> HIDE DEF s
  <2>12. Len(s) = recvIndex + rest /\ s \in Seq(Bytes)
    BY <2>10 DEF s
  <2>13. Len(s) <= Len(arrived) /\ Len(arrived) - Len(s) = start
    BY <2>1, <2>2, <2>3, <2>4, <2>12
  <2>14. IsSuffix(s, arrived)
    BY <2>1, <2>11, <2>12, <2>13, Suffix
  <2>15. QED BY <2>1, <2>5, <2>14 DEF NothingSkipped, s
<1>2. QED BY <1>1, Invariant, PTL

\* The frames that came whole are handled, each once and in order; the ones that lay
\* inside a damaged frame have been handled when the filter waits for a header.
THEOREM FilterHandlesFrames == Spec => []FramesHandled
<1>1. ASSUME IInv PROVE FramesHandled
  <2> DEFINE m == Len(handled)
             start == Dropped(recvIndex, From, arrived)
  <2>1. /\ handled \in Seq(Frames) /\ intact \in Seq(Frames) /\ m \in Nat /\ Len(intact) \in Nat
        /\ Len(arrived) \in Nat /\ recvIndex \in Nat /\ length \in [Frames -> Lengths]
        /\ Came(arrived, intact) /\ Kept(arrived, start, handled) /\ Prefix(handled, intact)
    BY <1>1 DEF IInv, FilterInv, TypeOK, LineInv, Looking
  <2>2. m <= Len(intact) /\ \A i \in 1 .. m : handled[i] = intact[i]
    BY <2>1 DEF Prefix
  <2>3. IsPrefix(handled, intact)
    BY <2>1, <2>2 DEF IsPrefix
  <2>4. ASSUME ~reusing, recvIndex < HeaderSize PROVE handled = intact
    <3>1. start = Len(arrived) - recvIndex
      BY <2>1, <2>4, Sizes DEF Dropped, From
    <3>2. m = Len(intact)
      <4>1. SUFFICES ASSUME m < Len(intact) PROVE FALSE
        BY <2>1, <2>2
      <4> DEFINE g == intact[m + 1]
      <4>2. m + 1 \in 1 .. Len(intact) /\ g \in Frames
        BY <2>1, <4>1
      <4>3. PICK q \in 0 .. Len(arrived) : WholeAt(arrived, g, q)
        BY <2>1, <4>2 DEF Came
      <4>4. ~\E i \in 1 .. m : handled[i] = g
        <5>1. SUFFICES ASSUME NEW i \in 1 .. m, handled[i] = g PROVE FALSE
          OBVIOUS
        <5>2. intact[i] = g /\ i \in 1 .. Len(intact) /\ i < m + 1
          BY <2>1, <2>2, <5>1
        <5>3. intact[i] < intact[m + 1]
          <6>1. \A j, k \in 1 .. Len(intact) : j < k => intact[j] < intact[k]
            BY <2>1 DEF Came
          <6>2. QED BY <4>2, <5>2, <6>1
        <5> HIDE DEF g
        <5>4. g \in Nat
          BY <4>2, Sizes DEF Frames
        <5>5. g < g
          BY <5>2, <5>3 DEF g
        <5>6. QED BY <5>4, <5>5
      <4> HIDE DEF g, start, m
      <4>5. RunAt(arrived, g, q) /\ q \in Nat
        BY <2>1, <4>2, <4>3, WholeRuns
      <4>6. q >= start
        BY <2>1, <4>2, <4>4, <4>5 DEF Kept, m
      <4>7. q + length[g] <= Len(arrived)
        BY <4>3 DEF WholeAt
      <4>8. length[g] \in Nat /\ HeaderSize <= length[g]
        BY <2>1, <4>2, Length
      <4>9. QED BY <2>1, <2>4, <3>1, <4>5, <4>6, <4>7, <4>8, Sizes
    <3>3. QED BY <2>1, <2>2, <3>2
  <2>5. QED BY <2>3, <2>4 DEF FramesHandled
<1>2. QED BY <1>1, Invariant, PTL
=============================================================================
