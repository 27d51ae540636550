----------------------------- MODULE ReadProofs -----------------------------
(***************************************************************************)
(* Theorems about read_until as the readers of frames call it, about the   *)
(* frames that are read with it and about the bodies that are delivered:   *)
(* for any sizes of buffers, words, headers and payloads, any frames and   *)
(* any zero bytes, and reads that fail any number of times (MaxFailures).  *)
(***************************************************************************)
EXTENDS Delivery, Induction, SequenceTheorems, FiniteSetTheorems

Buffers == [0..MaxSize - 1 -> Nat]

ReadTypes ==
  /\ size \in 0..MaxSize /\ sum \in Nat /\ off \in Int
  /\ start \in Nat /\ got \in Nat
  /\ buf \in Buffers
  /\ ret \in Int
  /\ failed \in BOOLEAN

\* What the frames can be, and what a header that was read can say.
FrameTypes ==
  /\ \E n \in Nat : frames \in [1..n -> Headers]
  /\ length \in 0..MaxPayload

\* _buf and sum go together, until a first read() that fails makes sum the
\* largest word and so ends the loop.
InStep ==
  \/ sum <= size /\ off = sum
  \/ failed /\ sum = Word - 1 /\ off = -1

\* The bytes of this call are in its part of buf, those of before are older.
Stored ==
  /\ start <= got
  /\ \A k \in 0..MaxSize - 1 : buf[k] <= got
  /\ ~failed => /\ got = start + sum
                /\ \A k \in 0..sum - 1 : buf[k] = start + k + 1

\* What has been returned.
Returns == ret = -1 \/ ret = 0 \/ (ret = sum /\ sum >= size)

ReadInv == ReadTypes /\ FrameTypes /\ InStep /\ Stored /\ Returns /\ InBounds

-----------------------------------------------------------------------------
\* No call asks for more than the buffers hold.
LEMMA SizesFit ==
  /\ HeaderSize \in 0..MaxSize
  /\ 1 \in 0..MaxSize
  /\ \A n \in 0..MaxPayload : n \in 0..MaxSize /\ BodySize(n) \in 0..MaxSize
BY WordAssumption, SizesAssumption DEF BodySize

\* A call forgets the call before it.
LEMMA CallKeeps ==
  ASSUME ReadInv, NEW n \in 0..MaxSize, Call(n), FrameTypes'
  PROVE  ReadInv'
<1> USE DEF ReadInv, ReadTypes, Call, Buffers
<1>1. ReadTypes'
  <2>1. size' \in 0..MaxSize /\ sum' \in Nat /\ off' \in Int /\ ret' \in Int
    OBVIOUS
  <2>2. start' \in Nat /\ got' \in Nat /\ buf' \in Buffers
    OBVIOUS
  <2>3. failed' \in BOOLEAN
    BY Zenon
  <2> QED
    BY <2>1, <2>2, <2>3
<1>2. InStep' /\ Returns'
  BY WordAssumption DEF InStep, Returns
<1>3. Stored' /\ InBounds'
  BY WordAssumption DEF Stored, InBounds
<1> QED
  BY <1>1, <1>2, <1>3

\* A step of nobody changes nothing here.
LEMMA QuietKeeps ==
  ASSUME ReadInv, UNCHANGED ruVars, FrameTypes'
  PROVE  ReadInv'
BY DEF ReadInv, ReadTypes, ruVars, callVars, InStep, Stored, Returns, InBounds

\* The bytes that read() copies go behind those of the call, inside of `size'.
LEMMA ReadBytesKeeps ==
  ASSUME ReadInv, NEW stream, ReadBytes(stream), FrameTypes'
  PROVE  ReadInv'
<1> USE DEF ReadInv, ReadTypes, Buffers
<1>1. sum < size /\ off = sum /\ ret = -1 /\ sum \in Nat /\ size \in 0..MaxSize
  BY WordAssumption DEF ReadBytes, Reading, InStep
<1>2. PICK n \in 1..Remaining :
        /\ buf' = [k \in DOMAIN buf |->
                     IF k \in off..off + n - 1 THEN got + 1 + k - off ELSE buf[k]]
        /\ got' = got + n
        /\ sum' = sum + n
        /\ off' = off + n
  BY DEF ReadBytes, Advance
<1>3. n \in Nat /\ n >= 1 /\ sum + n <= size
  BY <1>1, WordAssumption DEF Remaining
<1>4. UNCHANGED <<size, start, ret, failed>>
  BY DEF ReadBytes
<1>5. ReadTypes'
  <2>1. buf' \in Buffers
    BY <1>1, <1>2, <1>3
  <2> QED
    BY <1>1, <1>2, <1>3, <1>4, <2>1
<1>6. InStep' /\ Returns'
  BY <1>1, <1>2, <1>3, <1>4 DEF InStep, Returns
<1>7. Stored'
  <2>1. \A k \in 0..MaxSize - 1 : buf'[k] <= got'
    BY <1>1, <1>2, <1>3 DEF Stored
  <2>2. ASSUME ~failed, NEW k \in 0..sum' - 1 PROVE buf'[k] = start' + k + 1
    <3>0. k \in 0..sum + n - 1
      BY <1>2, <2>2
    <3>1. k \in DOMAIN buf /\ k < sum + n
      BY <1>1, <1>3, <3>0, WordAssumption
    <3>4. got = start + sum
      BY <2>2 DEF Stored
    <3>2. CASE k < sum
      BY <1>1, <1>2, <1>3, <1>4, <2>2, <3>0, <3>1, <3>2 DEF Stored
    <3>3. CASE k >= sum
      BY <1>1, <1>2, <1>3, <1>4, <3>0, <3>1, <3>3, <3>4
    <3> QED
      BY <3>0, <3>2, <3>3, <1>1, <1>3
  <2>3. start' <= got' /\ (~failed => got' = start' + sum')
    BY <1>1, <1>2, <1>3, <1>4 DEF Stored
  <2> QED
    BY <1>4, <2>1, <2>2, <2>3 DEF Stored
<1>8. InBounds'
  BY <1>1, <1>2, <1>3, <1>4 DEF InBounds
<1> QED
  BY <1>5, <1>6, <1>7, <1>8

\* The other results of read(), and the end of the loop.
LEMMA ReadEndKeeps ==
  ASSUME ReadInv, ReadEnd, FrameTypes'
  PROVE  ReadInv'
BY DEF ReadInv, ReadTypes, ReadEnd, InStep, Stored, Returns, InBounds

LEMMA ReturnKeeps ==
  ASSUME ReadInv, Return, FrameTypes'
  PROVE  ReadInv'
BY DEF ReadInv, ReadTypes, Return, InStep, Stored, Returns, InBounds

\* A failing read() that is not the first of its call takes the last byte back;
\* the first one ends the loop, a word less one being more than any size.
LEMMA ReadErrorKeeps ==
  ASSUME ReadInv, ReadError, FrameTypes'
  PROVE  ReadInv'
<1> USE DEF ReadInv, ReadTypes
<1>1. sum < size /\ off = sum /\ ret = -1 /\ sum \in Nat /\ size \in 0..MaxSize
  BY WordAssumption DEF ReadError, Reading, InStep
<1>2. /\ sum' = (sum + Word - 1) % Word /\ off' = off - 1 /\ failed'
      /\ UNCHANGED <<size, start, got, buf, ret>>
  BY DEF ReadError
<1>3. CASE sum = 0
  <2>1. sum' = Word - 1
    BY <1>2, <1>3, WordAssumption
  <2> QED
    BY <1>1, <1>2, <1>3, <2>1, WordAssumption DEF InStep, Stored, Returns, InBounds
<1>4. CASE sum # 0
  <2>1. sum' = sum - 1
    BY <1>1, <1>2, <1>4, WordAssumption
  <2> QED
    BY <1>1, <1>2, <1>4, <2>1, WordAssumption DEF InStep, Stored, Returns, InBounds
<1> QED
  BY <1>3, <1>4


LEMMA ReadKeeps ==
  ASSUME ReadInv, Read
  PROVE  ReadInv'
<1>1. FrameTypes'
  BY DEF ReadInv, FrameTypes, Read
<1> QED
  BY <1>1, ReadBytesKeeps, ReadEndKeeps, ReturnKeeps, ReadErrorKeeps DEF Read

-----------------------------------------------------------------------------
\* The readers: a call they make fits, and what they copy is not of this part.
LEMMA FailKeeps ==
  ASSUME ReadInv, Fail
  PROVE  ReadInv'
<1>1. FrameTypes'
  BY DEF ReadInv, FrameTypes, Fail
<1> QED
  BY <1>1, QuietKeeps DEF Fail

\* The length comes from one of the frames, or is any length.
LEMMA ReadMessageHeaderKeeps ==
  ASSUME ReadInv, ReadMessageHeader
  PROVE  ReadInv'
<1>1. HeaderRead \subseteq Headers
  <2>1. PICK n \in Nat : frames \in [1..n -> Headers]
    BY DEF ReadInv, FrameTypes
  <2>2. Len(frames) = n
    BY <2>1
  <2> QED
    BY <2>1, <2>2 DEF HeaderRead
<1>2. CASE ret < HeaderSize /\ Fail
  BY <1>2, FailKeeps
<1>3. CASE ~(ret < HeaderSize /\ Fail)
  <2>1. PICK h \in HeaderRead :
          /\ length' = h.length
          /\ IF ReadAs(h.type) = "FAIL"
             THEN UNCHANGED ruVars
             ELSE Call(IF ReadAs(h.type) = "body" THEN BodySize(h.length) ELSE h.length)
    BY <1>3 DEF ReadMessageHeader
  <2>2. UNCHANGED frames
    BY <1>3 DEF ReadMessageHeader
  <2>3. h.length \in 0..MaxPayload
    BY <1>1 DEF Headers
  <2>4. FrameTypes'
    BY <2>1, <2>2, <2>3 DEF ReadInv, FrameTypes
  <2> QED
    BY <2>1, <2>3, <2>4, SizesFit, CallKeeps, QuietKeeps
<1> QED
  BY <1>2, <1>3

LEMMA ParseKeeps ==
  ASSUME ReadInv, Parse
  PROVE  ReadInv'
<1>1. CASE ReadMessageHeader
  BY <1>1, ReadMessageHeaderKeeps
<1>2. CASE ~ReadMessageHeader
  <2>1. Fail \/ UNCHANGED ruVars \/ Call(1) \/ Call(HeaderSize)
    BY <1>2 DEF Parse, ReadMethod, ReadMethodEnd, ReadContentHeader,
       ReadContentEnd, ReadBody
  <2>2. Fail \/ UNCHANGED <<frames, length>>
    BY <1>2 DEF Parse, ReadMethod, ReadMethodEnd, ReadContentHeader,
       ReadContentEnd, ReadBody
  <2>3. Fail \/ FrameTypes'
    BY <2>2 DEF ReadInv, FrameTypes
  <2> QED
    BY <2>1, <2>3, FailKeeps, QuietKeeps, CallKeeps, SizesFit
<1> QED
  BY <1>1, <1>2

LEMMA NextFrameKeeps ==
  ASSUME ReadInv, NextFrame
  PROVE  ReadInv'
<1>1. FrameTypes'
  BY DEF ReadInv, FrameTypes, NextFrame
<1> QED
  BY <1>1, CallKeeps, SizesFit DEF NextFrame

LEMMA ReadInvInit == Init => ReadInv
<1> SUFFICES ASSUME Init PROVE ReadInv
  OBVIOUS
<1> USE DEF Init, FramesInit, ReadInit
<1>1. ReadTypes
  <2>1. size \in 0..MaxSize /\ sum \in Nat /\ off \in Int /\ ret \in Int
    BY SizesFit
  <2>2. start \in Nat /\ got \in Nat /\ buf \in Buffers
    BY DEF Buffers
  <2>3. failed \in BOOLEAN
    BY Zenon
  <2> QED
    BY <2>1, <2>2, <2>3 DEF ReadTypes
<1>2. FrameTypes
  <2>1. PICK n \in 0..MaxFrames : frames \in [1..n -> Headers]
    OBVIOUS
  <2> QED
    BY <2>1, SizesAssumption DEF FrameTypes
<1>3. InStep /\ Stored /\ Returns /\ InBounds
  BY SizesFit DEF InStep, Stored, Returns, InBounds
<1> QED
  BY <1>1, <1>2, <1>3 DEF ReadInv

LEMMA ReadInvNext == ReadInv /\ [Next]_vars => ReadInv'
<1> SUFFICES ASSUME ReadInv, [Next]_vars PROVE ReadInv'
  OBVIOUS
<1>1. CASE UNCHANGED readerVars
  <2>1. FrameTypes' /\ UNCHANGED ruVars
    BY <1>1 DEF ReadInv, FrameTypes, readerVars, frameVars
  <2> QED
    BY <2>1, QuietKeeps
<1>2. CASE Read \/ Parse \/ NextFrame
  BY <1>2, ReadKeeps, ParseKeeps, NextFrameKeeps
<1> QED
  BY <1>1, <1>2 DEF Next, Enqueue, Deliver, vars

LEMMA ReadInvariant == Spec => []ReadInv
<1> QED
  BY ReadInvInit, ReadInvNext, PTL DEF Spec

-----------------------------------------------------------------------------
\* However read() cuts the stream, a whole result is the next part of it, in
\* order, and nothing behind it has been taken.
THEOREM ReadsAreInOrder == Spec => []ReadsInOrder
<1>1. ReadInv => ReadsInOrder
  <2> SUFFICES ASSUME ReadInv, ret = size, size > 0, ~failed
               PROVE  /\ \A k \in 0..size - 1 : buf[k] = start + k + 1
                      /\ got = start + size
    BY DEF ReadsInOrder
  <2>1. sum = size
    BY WordAssumption DEF ReadInv, ReadTypes, InStep, Returns
  <2> QED
    BY <2>1 DEF ReadInv, Stored
<1> QED
  BY <1>1, ReadInvariant, PTL

\* No byte is stored behind the size asked for, however many reads fail.
THEOREM StaysInBounds == Spec => []InBounds
<1>1. ReadInv => InBounds
  BY DEF ReadInv
<1> QED
  BY <1>1, ReadInvariant, PTL

\* Only after a failing read() is there a result that is neither 0 nor the size.
THEOREM ReturnsSizeOrZero == Spec => []SizeOrZero
<1>1. ReadInv => SizeOrZero
  BY WordAssumption DEF ReadInv, ReadTypes, InStep, Returns, SizeOrZero
<1> QED
  BY <1>1, ReadInvariant, PTL

-----------------------------------------------------------------------------
(***************************************************************************)
(* The frames.  The invariant follows the reader through a frame: where it *)
(* is in it is where the call of read_until began, as long as no read has  *)
(* failed and the client goes on.                                          *)
(***************************************************************************)
Places == {"header", "method", "method_end", "content_header", "content_end",
           "body", "handed", "FAIL", "CRASH"}

\* Behind the header of frame k.
Payload(k) == Begin[k] + HeaderSize

\* Reading, or having read, a part of frame k.
InFrame(k) ==
  /\ length = frames[k].length
  /\ pc \in {"method", "content_header"} => start = Payload(k) /\ size = length
  /\ pc = "body" => start = Payload(k) /\ size = length + 1
  /\ pc \in {"method_end", "content_end"} => start = Payload(k) + length /\ size = 1
  /\ pc \in {"method_end", "handed"} => Holds(k)
  /\ pc = "handed" => got = Begin[k + 1]

InPlace ==
  /\ pc = "header" => /\ size = HeaderSize
                      /\ \E k \in 1..Len(frames) + 1 : start = Begin[k]
  /\ pc \notin {"header", "FAIL", "CRASH"} => \E k \in 1..Len(frames) : InFrame(k)

\* After the end of the stream every call returns 0, and no method is handed
\* over any more.
AfterEnd ==
  /\ ret = 0 \/ (ret = -1 /\ sum = 0)
  /\ pc = "handed" => handed = "body"

FrameInv ==
  /\ \E n \in Nat : frames \in [1..n -> Headers]
  /\ pc \in Places
  /\ failures \in Nat
  /\ parsed \in [0..MaxSize - 1 -> Int]
  /\ closed \in BOOLEAN
  /\ pc = "handed" => ret # -1
  /\ failures = 0 =>
       /\ ~failed
       /\ got <= StreamSize
       /\ closed => AfterEnd
       /\ ~closed => InPlace /\ (ret # -1 => ret = sum /\ sum >= size)

\* Begin adds up the frames: they follow one another, and two of them do not
\* begin at one place.
LEMMA BeginAdds ==
  ASSUME NEW n \in Nat, frames \in [1..n -> Headers]
  PROVE  /\ Len(frames) = n
         /\ Begin[1] = 0
         /\ \A k \in 1..n + 1 : Begin[k] \in Nat
         /\ \A k \in 1..n : Begin[k + 1] = Begin[k] + HeaderSize + frames[k].length + 1
<1> DEFINE next(k, b) == b + HeaderSize + frames[k].length + 1
           Is(f) == f = [k \in 1..n + 1 |-> IF k = 1 THEN 0 ELSE next(k - 1, f[k - 1])]
<1>1. Len(frames) = n
  OBVIOUS
<1>2. \A k \in 1..n, b \in Nat : next(k, b) \in Nat
  BY SizesAssumption DEF Headers
<1>3. PICK step \in [1..n -> [Nat -> Nat]] :
        \A k \in 1..n, b \in Nat : step[k][b] = next(k, b)
  <2> HIDE DEF next
  <2>1. PICK step : step = [k \in 1..n |-> [b \in Nat |-> next(k, b)]]
    OBVIOUS
  <2>2. step \in [1..n -> [Nat -> Nat]]
    BY <1>2, <2>1
  <2> QED
    BY <2>1, <2>2
<1>4. PICK g \in [0..n -> Nat] : g[0] = 0 /\ \A k \in 1..n : g[k] = step[k][g[k - 1]]
  <2>1. RecursiveData(Nat, 0, n, step)
    BY DEF RecursiveData
  <2>2. PICK g : DefinedBy(g, Nat, 0, n, step)
    BY <2>1, Recursion
  <2> QED
    BY <2>2 DEF DefinedBy
<1>5. \A k \in 1..n : g[k] = next(k, g[k - 1])
  <2> SUFFICES ASSUME NEW k \in 1..n PROVE g[k] = next(k, g[k - 1])
    OBVIOUS
  <2>1. g[k - 1] \in Nat
    OBVIOUS
  <2> HIDE DEF next
  <2> QED
    BY <1>3, <1>4, <2>1
<1>6. PICK f : f = [k \in 1..n + 1 |-> g[k - 1]]
  OBVIOUS
<1>7. Is(f)
  <2>1. \A k \in 1..n + 1 : k # 1 => k - 1 \in 1..n /\ k - 1 \in 1..n + 1
    OBVIOUS
  <2>2. \A k \in 1..n + 1 : k # 1 => g[k - 1] = next(k - 1, f[k - 1])
    <3> SUFFICES ASSUME NEW k \in 1..n + 1, k # 1
                 PROVE  g[k - 1] = next(k - 1, f[k - 1])
      OBVIOUS
    <3>1. PICK i \in 1..n : i = k - 1 /\ i \in 1..n + 1
      BY <2>1
    <3>2. f[i] = g[i - 1]
      BY <1>6, <3>1
    <3>3. g[i] = next(i, g[i - 1])
      BY <1>5, <3>1
    <3> HIDE DEF next
    <3> QED
      BY <3>1, <3>2, <3>3
  <2>3. \A k \in 1..n + 1 : g[k - 1] = IF k = 1 THEN 0 ELSE next(k - 1, f[k - 1])
    <3> HIDE DEF next
    <3> QED
      BY <1>4, <2>2
  <2> HIDE DEF next
  <2> QED
    BY <1>6, <2>3
<1>8. Begin = CHOOSE h : Is(h)
  BY <1>1 DEF Begin
<1>9. Is(Begin)
  <2> HIDE DEF Is
  <2> QED
    BY <1>7, <1>8
<1>10. Begin[1] = 0 /\ \A k \in 1..n : Begin[k + 1] = next(k, Begin[k])
  <2>1. \A k \in 1..n : k + 1 \in 1..n + 1 /\ k + 1 # 1 /\ (k + 1) - 1 = k
    OBVIOUS
  <2>2. 1 \in 1..n + 1
    OBVIOUS
  <2> HIDE DEF next
  <2> QED
    BY <1>9, <2>1, <2>2
<1>11. \A k \in 1..n + 1 : Begin[k] \in Nat
  <2> DEFINE S == {k \in 0..n : Begin[k + 1] \in Nat}
  <2>1. 0 \in S
    BY <1>10
  <2>2. ASSUME NEW k \in 0..n - 1, k \in S PROVE k + 1 \in S
    <3>1. k + 1 \in 1..n /\ k + 1 \in 0..n
      OBVIOUS
    <3>2. Begin[(k + 1) + 1] = next(k + 1, Begin[k + 1])
      <4> HIDE DEF next
      <4> QED
        BY <1>10, <3>1
    <3> HIDE DEF next
    <3> QED
      BY <1>2, <2>2, <3>1, <3>2
  <2> HIDE DEF S
  <2>3. 0..n \subseteq S
    BY <2>1, <2>2, UpTo
  <2>4. ASSUME NEW k \in 1..n + 1 PROVE Begin[k] \in Nat
    <3>1. k - 1 \in 0..n /\ (k - 1) + 1 = k
      OBVIOUS
    <3> QED
      BY <2>3, <3>1 DEF S
  <2> QED
    BY <2>4
<1> QED
  BY <1>1, <1>10, <1>11

LEMMA BeginGrows ==
  ASSUME NEW n \in Nat, frames \in [1..n -> Headers],
         NEW j \in 1..n + 1, NEW k \in 1..n + 1, j < k
  PROVE  Begin[j] + HeaderSize < Begin[k]
<1> DEFINE S == {i \in 0..n : j < i + 1 => Begin[j] + HeaderSize < Begin[i + 1]}
<1>1. /\ \A i \in 1..n + 1 : Begin[i] \in Nat
      /\ \A i \in 1..n : Begin[i + 1] = Begin[i] + HeaderSize + frames[i].length + 1
      /\ \A i \in 1..n : frames[i].length \in Nat
      /\ HeaderSize \in Nat
  <2>1. /\ \A i \in 1..n + 1 : Begin[i] \in Nat
        /\ \A i \in 1..n : Begin[i + 1] = Begin[i] + HeaderSize + frames[i].length + 1
    BY BeginAdds
  <2>2. \A i \in 1..n : frames[i].length \in Nat
    BY SizesAssumption DEF Headers
  <2>3. HeaderSize \in Nat
    BY SizesAssumption
  <2> QED
    BY <2>1, <2>2, <2>3
<1>2. 0 \in S
  <2>1. 0 \in 0..n /\ ~(j < 0 + 1)
    OBVIOUS
  <2> QED
    BY <2>1
<1>3. ASSUME NEW i \in 0..n - 1, i \in S PROVE i + 1 \in S
  <2>1. i + 1 \in 1..n /\ i + 1 \in 0..n /\ i + 1 \in 1..n + 1 /\ i \in Nat
    OBVIOUS
  <2>2. Begin[(i + 1) + 1] = Begin[i + 1] + HeaderSize + frames[i + 1].length + 1
    BY <1>1, <2>1
  <2>3. Begin[i + 1] \in Nat /\ Begin[j] \in Nat /\ frames[i + 1].length \in Nat
    BY <1>1, <2>1
  <2>4. CASE j < i + 1
    <3>1. Begin[j] + HeaderSize < Begin[i + 1]
      BY <1>3, <2>4
    <3>2. Begin[i + 1] < Begin[(i + 1) + 1] /\ HeaderSize \in Nat
      BY <1>1, <2>2, <2>3
    <3>3. Begin[(i + 1) + 1] \in Nat
      BY <1>1, <2>1
    <3>4. Begin[j] + HeaderSize < Begin[(i + 1) + 1]
      BY <2>3, <3>1, <3>2, <3>3
    <3> QED
      BY <2>1, <3>4
  <2>5. CASE j = i + 1
    <3>1. Begin[j] + HeaderSize < Begin[(i + 1) + 1]
      BY <1>1, <2>2, <2>3, <2>5
    <3> QED
      BY <2>1, <3>1
  <2>6. CASE j > i + 1
    <3>1. ~(j < (i + 1) + 1)
      BY <2>1, <2>6
    <3> QED
      BY <2>1, <3>1
  <2> QED
    BY <2>1, <2>4, <2>5, <2>6
<1> HIDE DEF S
<1>4. k - 1 \in S
  <2>1. 0..n \subseteq S
    BY <1>2, <1>3, UpTo
  <2> QED
    BY <2>1
<1> QED
  BY <1>4 DEF S

\* What is assumed of the sizes, without the sets.
LEMMA Sizes ==
  /\ HeaderSize \in Nat /\ HeaderSize >= 1
  /\ MethodHeaderSize \in Nat /\ MethodHeaderSize >= 1
  /\ MaxPayload \in Nat /\ MaxPayload + MethodHeaderSize <= MaxSize
  /\ MaxSize \in Nat /\ Word \in Nat /\ MaxSize < Word - 1
BY SizesAssumption, WordAssumption

\* What the proofs below use of the frames.
FramesAre(n) ==
  /\ n \in Nat /\ frames \in [1..n -> Headers] /\ Len(frames) = n
  /\ \A k \in 1..n + 1 : Begin[k] \in Nat
  /\ \A k \in 1..n : /\ Begin[k + 1] = Begin[k] + HeaderSize + frames[k].length + 1
                     /\ frames[k].length \in 0..MaxPayload
  /\ StreamSize = Begin[n + 1]

LEMMA FramesKnown ==
  ASSUME NEW n \in Nat, frames \in [1..n -> Headers]
  PROVE  FramesAre(n)
<1>1. \A k \in 1..n : frames[k].length \in 0..MaxPayload
  BY DEF Headers
<1>2. Len(frames) = n /\ StreamSize = Begin[n + 1]
  BY BeginAdds DEF StreamSize
<1> QED
  BY <1>1, <1>2, BeginAdds DEF FramesAre

\* The client has sent what it sends.
LEMMA FramesStay ==
  ASSUME frames' = frames
  PROVE  Begin' = Begin /\ StreamSize' = StreamSize
  BY DEF Begin, StreamSize

LEMMA InPlaceStays ==
  ASSUME frames' = frames,
         UNCHANGED <<pc, size, start, length, parsed>>, pc = "handed" => got' = got
  PROVE  InPlace' = InPlace
<1>1. Begin' = Begin
  BY FramesStay
<1>2. \A k : InFrame(k)' <=> InFrame(k)
  BY <1>1 DEF InFrame, Holds, Payload
<1>3. (\E k \in 1..Len(frames) + 1 : start = Begin[k])' <=>
      \E k \in 1..Len(frames) + 1 : start = Begin[k]
  BY <1>1
<1> QED
  BY <1>2, <1>3 DEF InPlace

-----------------------------------------------------------------------------
\* read_until goes on: where its call began does not change.
LEMMA ReadFrameInv ==
  ASSUME ReadInv, FrameInv, Read
  PROVE  FrameInv'
<1>1. UNCHANGED <<frames, pc, length, parsed, handed>>
  BY DEF Read
<1>2. StreamSize' = StreamSize
  BY <1>1, FramesStay
<1>3. /\ sum \in Nat /\ size \in Nat /\ got \in Nat /\ InStep
      /\ closed \in BOOLEAN /\ failures \in Nat
  BY WordAssumption DEF ReadInv, ReadTypes, FrameInv
<1>4. ret = -1 /\ pc # "handed"
  BY DEF Read, ReadBytes, ReadEnd, ReadError, Return, Reading, FrameInv
<1>5. InPlace' = InPlace
  <2>1. UNCHANGED <<size, start>>
    BY DEF Read, ReadBytes, ReadEnd, ReadError, Return
  <2> QED
    BY <1>1, <1>4, <2>1, InPlaceStays
<1>6. SUFFICES ASSUME failures' = 0
               PROVE  /\ closed' \in BOOLEAN /\ failures' \in Nat
                      /\ ~failed' /\ got' <= StreamSize
                      /\ closed' => AfterEnd'
                      /\ ~closed' => InPlace' /\ (ret' # -1 => ret' = sum' /\ sum' >= size')
  <2>1. failures' \in Nat
    BY <1>3 DEF Read
  <2>2. closed' = closed \/ closed' = TRUE
    BY DEF Read, ReadBytes, ReadEnd, ReadError, Return
  <2>3. closed' \in BOOLEAN
    BY <1>3, <2>2
  <2> QED
    BY <1>1, <1>2, <1>4, <2>1, <2>3 DEF FrameInv
<1>7. /\ failures = 0 /\ failures' = failures
      /\ (ReadBytes(StreamSize) \/ ReadEnd \/ Return)
  BY <1>3, <1>6 DEF Read
<1>8. /\ ~failed /\ got <= StreamSize /\ sum <= size
      /\ closed => AfterEnd
      /\ ~closed => InPlace
  BY <1>3, <1>7 DEF FrameInv, InStep
<1>9. CASE ReadBytes(StreamSize)
  <2>1. ~closed /\ closed' = closed /\ failed' = failed /\ ret' = ret
    BY <1>9 DEF ReadBytes
  <2>2. got' <= StreamSize
    BY <1>9 DEF ReadBytes
  <2> QED
    BY <1>3, <1>4, <1>5, <1>7, <1>8, <2>1, <2>2
<1>10. CASE ReadEnd
  BY <1>1, <1>3, <1>4, <1>7, <1>8, <1>10 DEF ReadEnd, AfterEnd
<1>11. CASE Return
  <2>1. ret' = sum /\ sum >= size /\ UNCHANGED <<size, sum, got, failed, closed>>
    BY <1>11 DEF Return
  <2>2. closed => AfterEnd'
    BY <1>1, <1>4, <1>8, <2>1 DEF AfterEnd
  <2> QED
    BY <1>3, <1>5, <1>7, <1>8, <2>1, <2>2
<1> QED
  BY <1>7, <1>9, <1>10, <1>11

\* What a result means to the reader.
LEMMA WholeResult ==
  ASSUME ReadInv, FrameInv, failures = 0, ret # -1
  PROVE  /\ closed => ret = 0
         /\ ~closed => /\ ret = size /\ size \in Nat /\ start \in Nat
                       /\ got = start + size
                       /\ \A j \in 0..size - 1 : buf[j] = start + j + 1
<1>1. CASE closed
  BY <1>1 DEF FrameInv, AfterEnd
<1>2. CASE ~closed
  <2>1. ~failed /\ ret = sum /\ sum >= size
    BY <1>2 DEF FrameInv
  <2>2. size \in Nat /\ sum \in Nat /\ start \in Nat
    BY WordAssumption DEF ReadInv, ReadTypes
  <2>3. sum = size
    BY <2>1, <2>2 DEF ReadInv, InStep
  <2> QED
    BY <1>2, <2>1, <2>2, <2>3 DEF ReadInv, Stored
<1> QED
  BY <1>1, <1>2

\* The reader goes on with another call, ...
LEMMA CallFrameInv ==
  ASSUME ReadInv, FrameInv, NEW m, Call(m), UNCHANGED <<frames, failures>>,
         pc' \in Places, pc' # "handed", parsed' \in [0..MaxSize - 1 -> Int],
         failures = 0 /\ ~closed => InPlace'
  PROVE  FrameInv'
<1>1. StreamSize' = StreamSize
  BY FramesStay
<1>2. UNCHANGED <<got, closed>> /\ ret' = -1 /\ sum' = 0 /\ ~failed'
  BY DEF Call
<1>3. closed' \in BOOLEAN
  BY <1>2 DEF FrameInv
<1>4. AfterEnd'
  BY <1>2 DEF AfterEnd
<1> QED
  BY <1>1, <1>2, <1>3, <1>4 DEF FrameInv

\* ... or without one.
LEMMA QuietFrameInv ==
  ASSUME FrameInv, UNCHANGED <<ruVars, frames, failures>>,
         pc' \in Places, parsed' \in [0..MaxSize - 1 -> Int],
         pc' = "handed" => ret # -1,
         failures = 0 /\ closed /\ pc' = "handed" => handed' = "body",
         failures = 0 /\ ~closed => InPlace'
  PROVE  FrameInv'
<1>1. StreamSize' = StreamSize
  BY FramesStay
<1>2. UNCHANGED <<size, sum, got, ret, failed, closed>>
  BY DEF ruVars, callVars
<1>3. closed' \in BOOLEAN
  BY <1>2 DEF FrameInv
<1>4. failures = 0 /\ closed => AfterEnd'
  BY <1>2 DEF FrameInv, AfterEnd
<1> QED
  BY <1>1, <1>2, <1>3, <1>4 DEF FrameInv

LEMMA FailFrameInv ==
  ASSUME ReadInv, FrameInv, Fail
  PROVE  FrameInv'
<1>1. /\ pc' = "FAIL" /\ UNCHANGED <<ruVars, frames, failures, parsed>>
  BY DEF Fail
<1>2. InPlace' /\ pc' \in Places /\ parsed' \in [0..MaxSize - 1 -> Int]
  BY <1>1 DEF InPlace, Places, FrameInv
<1> QED
  BY <1>1, <1>2, QuietFrameInv

\* Where a frame begins its own header is read, and no other.
LEMMA OwnHeader ==
  ASSUME ReadInv, FrameInv, failures = 0, ~closed, pc = "header", ret # -1
  PROVE  \E k \in 1..Len(frames) :
           HeaderRead = {frames[k]} /\ got = Payload(k)
<1>1. PICK n \in Nat : frames \in [1..n -> Headers]
  BY DEF FrameInv
<1>2. FramesAre(n)
  BY <1>1, FramesKnown
<1>3. /\ size = HeaderSize /\ got = start + HeaderSize
      /\ \A j \in 0..HeaderSize - 1 : buf[j] = start + j + 1
  BY WholeResult DEF FrameInv, InPlace
<1>4. PICK k \in 1..n + 1 : start = Begin[k]
  BY <1>2 DEF FrameInv, InPlace, FramesAre
<1>5. got <= Begin[n + 1] /\ Begin[k] \in Nat /\ HeaderSize \in Nat \ {0}
  BY <1>2, Sizes DEF FrameInv, FramesAre
<1>6. k \in 1..n
  BY <1>3, <1>4, <1>5
<1>7. HeaderOf(k)
  <2>1. \A j \in 0..HeaderSize - 1 : buf[j] = Begin[k] + 1 + j
    BY <1>3, <1>4, <1>5
  <2> QED
    BY <2>1 DEF HeaderOf
<1>8. ASSUME NEW j \in 1..n, HeaderOf(j) PROVE j = k
  <2>1. 0 \in 0..HeaderSize - 1
    BY <1>5
  <2>2. buf[0] = Begin[j] + 1 + 0 /\ buf[0] = Begin[k] + 1 + 0
    BY <1>7, <1>8, <2>1 DEF HeaderOf
  <2>3. j \in 1..n + 1 /\ k \in 1..n + 1
    OBVIOUS
  <2>4. Begin[j] \in Nat
    BY <1>2, <2>3 DEF FramesAre
  <2>5. Begin[j] = Begin[k]
    BY <1>5, <2>2, <2>4
  <2>6. ~(j < k) /\ ~(k < j)
    BY <1>1, <1>5, <2>3, <2>4, <2>5, BeginGrows
  <2> QED
    BY <2>6
<1>9. Len(frames) = n
  BY <1>2 DEF FramesAre
<1>10. HeaderRead = {frames[k]}
  BY <1>6, <1>7, <1>8, <1>9 DEF HeaderRead
<1> QED
  BY <1>3, <1>4, <1>6, <1>9, <1>10 DEF Payload

LEMMA HeaderFrameInv ==
  ASSUME ReadInv, FrameInv, ReadMessageHeader
  PROVE  FrameInv'
<1>1. CASE ret < HeaderSize /\ Fail
  BY <1>1, FailFrameInv
<1>2. CASE ~(ret < HeaderSize /\ Fail)
  <2>1. PICK h \in HeaderRead :
          /\ length' = h.length
          /\ pc' = ReadAs(h.type)
          /\ IF ReadAs(h.type) = "FAIL"
             THEN UNCHANGED ruVars
             ELSE Call(IF ReadAs(h.type) = "body" THEN BodySize(h.length) ELSE h.length)
    BY <1>2 DEF ReadMessageHeader
  <2>2. /\ UNCHANGED <<frames, failures, parsed>> /\ ret >= HeaderSize
        /\ pc = "header" /\ ret # -1
    BY <1>2 DEF ReadMessageHeader, Returned
  <2>3. pc' \in {"method", "content_header", "body", "FAIL"}
    BY <2>1 DEF ReadAs
  <2>4. pc' \in Places /\ pc' # "handed" /\ parsed' \in [0..MaxSize - 1 -> Int]
    BY <2>2, <2>3 DEF Places, FrameInv
  <2>5. ASSUME failures = 0, ~closed PROVE InPlace'
    <3>1. PICK k \in 1..Len(frames) : HeaderRead = {frames[k]} /\ got = Payload(k)
      BY <2>2, <2>5, OwnHeader
    <3>2. Begin' = Begin
      BY <2>2, FramesStay
    <3>3. h = frames[k] /\ length' = frames[k].length
      BY <2>1, <3>1
    <3>4. CASE pc' = "FAIL"
      BY <3>4 DEF InPlace
    <3>5. CASE pc' # "FAIL"
      <4>1. /\ start' = Begin[k] + HeaderSize
            /\ size' = IF pc' = "body" THEN length' + 1 ELSE length'
        BY <2>1, <3>1, <3>3, <3>5 DEF Call, Payload, BodySize
      <4>2. InFrame(k)'
        BY <2>2, <2>3, <3>2, <3>3, <4>1 DEF InFrame, Payload
      <4> QED
        BY <2>2, <2>3, <3>1, <4>2 DEF InPlace
    <3> QED
      BY <3>4, <3>5
  <2>6. CASE pc' = "FAIL"
    BY <2>1, <2>2, <2>4, <2>5, <2>6, QuietFrameInv
  <2>7. CASE pc' # "FAIL"
    BY <2>1, <2>2, <2>4, <2>5, <2>7, CallFrameInv
  <2> QED
    BY <2>6, <2>7
<1> QED
  BY <1>1, <1>2

\* The rest of a frame.  k is the frame that is being read.
LEMMA BytesCopied ==
  ASSUME ReadInv, FrameInv, NEW n
  PROVE  /\ Copied(n) \in [0..MaxSize - 1 -> Int]
         /\ \A j \in 0..MaxSize - 1 : j < n => Copied(n)[j] = buf[j]
<1>1. DOMAIN parsed = 0..MaxSize - 1 /\ \A j \in 0..MaxSize - 1 : parsed[j] \in Int
  BY DEF FrameInv
<1>2. \A j \in 0..MaxSize - 1 : buf[j] \in Int
  BY DEF ReadInv, ReadTypes, Buffers
<1>3. Copied(n) = [k \in 0..MaxSize - 1 |-> IF k < n THEN buf[k] ELSE parsed[k]]
  BY <1>1 DEF Copied
<1> QED
  BY <1>1, <1>2, <1>3

LEMMA SmallMod ==
  ASSUME NEW w \in Nat, NEW x \in Nat, x < w
  PROVE  x % w = x
  OBVIOUS

LEMMA MethodFrameInv ==
  ASSUME ReadInv, FrameInv, ReadMethod
  PROVE  FrameInv'
<1>1. CASE TooShort /\ Fail
  BY <1>1, FailFrameInv
<1>2. CASE ~(TooShort /\ Fail)
  <2>1. /\ pc = "method" /\ ret # -1 /\ ret >= MethodHeaderSize
        /\ parsed' = Copied(MethodBytes(ret)) /\ pc' = "method_end" /\ Call(1)
        /\ UNCHANGED <<frames, failures, length>>
    BY <1>2, SizesAssumption DEF ReadMethod, Returned, TooShort, ReadInv, ReadTypes
  <2>2. pc' \in Places /\ pc' # "handed" /\ parsed' \in [0..MaxSize - 1 -> Int]
    BY <2>1, BytesCopied DEF Places
  <2>3. ASSUME failures = 0, ~closed PROVE InPlace'
    <3>1. PICK n \in Nat : frames \in [1..n -> Headers]
      BY DEF FrameInv
    <3>2. FramesAre(n)
      BY <3>1, FramesKnown
    <3>3. PICK k \in 1..n : InFrame(k)
      BY <2>1, <2>3, <3>2 DEF FrameInv, InPlace, FramesAre
    <3>4. PICK b, len : b = Begin[k] /\ len = length
      OBVIOUS
    <3>5. /\ b \in Nat /\ len \in 0..MaxPayload /\ len = frames[k].length
          /\ start = b + HeaderSize /\ size = len /\ ret = len /\ got = start + len
          /\ \A j \in 0..len - 1 : buf[j] = start + j + 1
      BY <2>1, <2>3, <3>2, <3>3, <3>4, WholeResult DEF InFrame, FramesAre, Payload
    <3>6. MethodBytes(ret) = MethodHeaderSize + len - 1 /\ len <= MethodBytes(ret)
      <4>1. /\ MethodHeaderSize \in Nat /\ MethodHeaderSize >= 1 /\ len \in Nat
            /\ MethodHeaderSize + len - 1 < Word /\ Word \in Nat
        BY <3>5, Sizes
      <4>2. PICK x \in Nat : x = MethodHeaderSize + len - 1
        BY <4>1
      <4>3. x % Word = x
        BY <4>1, <4>2, SmallMod
      <4> QED
        BY <3>5, <4>1, <4>2, <4>3 DEF MethodBytes
    <3>7. \A j \in 0..len - 1 : parsed'[j] = b + HeaderSize + 1 + j
      <4>1. \A j \in 0..len - 1 : j \in 0..MaxSize - 1 /\ j < MethodBytes(ret)
        BY <3>5, <3>6, Sizes
      <4>2. \A j \in 0..len - 1 : parsed'[j] = start + j + 1
        BY <2>1, <3>5, <4>1, BytesCopied
      <4> QED
        BY <3>5, <4>2, Sizes
    <3>8. Begin' = Begin
      BY <2>1, FramesStay
    <3>9. Holds(k)'
      BY <2>1, <3>4, <3>5, <3>7, <3>8 DEF Holds
    <3>10. start' = b + HeaderSize + len /\ size' = 1
      BY <2>1, <3>5 DEF Call
    <3>11. InFrame(k)'
      BY <2>1, <3>4, <3>5, <3>8, <3>9, <3>10 DEF InFrame, Payload
    <3> QED
      BY <2>1, <3>2, <3>11 DEF InPlace, FramesAre
  <2> QED
    BY <2>1, <2>2, <2>3, CallFrameInv
<1> QED
  BY <1>1, <1>2

LEMMA MethodEndFrameInv ==
  ASSUME ReadInv, FrameInv, ReadMethodEnd
  PROVE  FrameInv'
<1>1. CASE ret = 0 /\ Fail
  BY <1>1, FailFrameInv
<1>2. CASE ~(ret = 0 /\ Fail)
  <2>1. /\ pc = "method_end" /\ ret # -1 /\ ret # 0 /\ pc' = "handed"
        /\ UNCHANGED <<ruVars, frames, failures, length, parsed>>
    BY <1>2 DEF ReadMethodEnd, Returned
  <2>2. pc' \in Places /\ parsed' \in [0..MaxSize - 1 -> Int]
    BY <2>1 DEF Places, FrameInv
  <2>3. failures = 0 => ~closed
    BY <2>1, WholeResult
  <2>4. ASSUME failures = 0, ~closed PROVE InPlace'
    <3>1. PICK n \in Nat : frames \in [1..n -> Headers]
      BY DEF FrameInv
    <3>2. FramesAre(n)
      BY <3>1, FramesKnown
    <3>3. PICK k \in 1..n : InFrame(k)
      BY <2>1, <2>4, <3>2 DEF FrameInv, InPlace, FramesAre
    <3>4. Begin' = Begin
      BY <2>1, FramesStay
    <3>5. Holds(k)' /\ length' = frames[k].length
      BY <2>1, <3>3, <3>4 DEF InFrame, Holds
    <3>6. got' = Begin[k + 1]
      <4>1. start = Begin[k] + HeaderSize + length /\ got = start + 1
        BY <2>1, <2>4, <3>3, WholeResult DEF InFrame, Payload
      <4>2. Begin[k + 1] = Begin[k] + HeaderSize + length + 1
        BY <3>2, <3>3 DEF FramesAre, InFrame
      <4> QED
        BY <2>1, <4>1, <4>2 DEF ruVars
    <3>7. InFrame(k)'
      BY <2>1, <3>4, <3>5, <3>6 DEF InFrame
    <3> QED
      BY <2>1, <3>2, <3>7 DEF InPlace, FramesAre
  <2> QED
    BY <2>1, <2>2, <2>3, <2>4, QuietFrameInv
<1> QED
  BY <1>1, <1>2

\* What read_until returned is not looked at, but while the client goes on it
\* is the whole payload.
LEMMA ContentFrameInv ==
  ASSUME ReadInv, FrameInv, ReadContentHeader
  PROVE  FrameInv'
<1>1. /\ pc = "content_header" /\ ret # -1 /\ pc' = "content_end" /\ Call(1)
      /\ parsed' = IF length < ContentHeaderSize THEN parsed ELSE Copied(ContentHeaderSize)
      /\ UNCHANGED <<frames, failures, length>>
  BY DEF ReadContentHeader, Returned
<1>2. pc' \in Places /\ pc' # "handed"
  BY <1>1 DEF Places
<1>3. parsed' \in [0..MaxSize - 1 -> Int]
  BY <1>1, BytesCopied DEF FrameInv
<1>4. ASSUME failures = 0, ~closed PROVE InPlace'
  <2>1. PICK k \in 1..Len(frames) : InFrame(k)
    BY <1>1, <1>4 DEF FrameInv, InPlace
  <2>2. Begin' = Begin
    BY <1>1, FramesStay
  <2>3. start' = Payload(k) + length /\ size' = 1 /\ length' = frames[k].length
    BY <1>1, <1>4, <2>1, WholeResult DEF InFrame, Call
  <2>4. InFrame(k)'
    BY <1>1, <2>2, <2>3 DEF InFrame, Payload
  <2> QED
    BY <1>1, <2>1, <2>4 DEF InPlace
<1> QED
  BY <1>1, <1>2, <1>3, <1>4, CallFrameInv

\* The next frame begins where the end byte of this one has been read.
LEMMA ContentEndFrameInv ==
  ASSUME ReadInv, FrameInv, ReadContentEnd
  PROVE  FrameInv'
<1>1. /\ pc = "content_end" /\ ret # -1 /\ pc' = "header" /\ Call(HeaderSize)
      /\ UNCHANGED <<frames, failures, length, parsed>>
  BY DEF ReadContentEnd, Returned
<1>2. pc' \in Places /\ pc' # "handed" /\ parsed' \in [0..MaxSize - 1 -> Int]
  BY <1>1 DEF Places, FrameInv
<1>3. ASSUME failures = 0, ~closed PROVE InPlace'
  <2>1. PICK n \in Nat : frames \in [1..n -> Headers]
    BY DEF FrameInv
  <2>2. FramesAre(n)
    BY <2>1, FramesKnown
  <2>3. PICK k \in 1..n : InFrame(k)
    BY <1>1, <1>3, <2>2 DEF FrameInv, InPlace, FramesAre
  <2>4. Begin' = Begin
    BY <1>1, FramesStay
  <2>5. start' = Begin[k] + HeaderSize + frames[k].length + 1 /\ size' = HeaderSize
    BY <1>1, <1>3, <2>3, WholeResult DEF InFrame, Payload, Call
  <2>6. start' = Begin'[k + 1] /\ k + 1 \in 1..Len(frames') + 1
    BY <1>1, <2>2, <2>4, <2>5 DEF FramesAre
  <2> QED
    BY <1>1, <2>5, <2>6 DEF InPlace
<1> QED
  BY <1>1, <1>2, <1>3, CallFrameInv

LEMMA BodyFrameInv ==
  ASSUME ReadInv, FrameInv, ReadBody
  PROVE  FrameInv'
<1>1. /\ pc = "body" /\ ret # -1 /\ UNCHANGED <<ruVars, frames, failures, length>>
      /\ \/ ret = Word - 1 /\ pc' = "CRASH" /\ UNCHANGED <<parsed, handed>>
         \/ parsed' = Terminated(Copied(ret)) /\ handed' = "body" /\ pc' = "handed"
  BY DEF ReadBody, Returned
<1>2. pc' \in Places
  BY <1>1 DEF Places
<1>3. parsed' \in [0..MaxSize - 1 -> Int]
  <2>1. Copied(ret) \in [0..MaxSize - 1 -> Int] /\ Nul \in Int
    BY BytesCopied DEF Nul
  <2>2. Terminated(Copied(ret)) \in [0..MaxSize - 1 -> Int]
    BY <2>1 DEF Terminated
  <2> QED
    BY <1>1, <2>2 DEF FrameInv
<1>4. ASSUME failures = 0, ~closed PROVE InPlace'
  <2>1. CASE pc' = "CRASH"
    BY <2>1 DEF InPlace
  <2>2. CASE pc' # "CRASH"
    <3>1. PICK n \in Nat : frames \in [1..n -> Headers]
      BY DEF FrameInv
    <3>2. FramesAre(n)
      BY <3>1, FramesKnown
    <3>3. PICK k \in 1..n : InFrame(k)
      BY <1>1, <1>4, <3>2 DEF FrameInv, InPlace, FramesAre
    <3>4. PICK b, len : b = Begin[k] /\ len = length
      OBVIOUS
    <3>5. /\ b \in Nat /\ len \in 0..MaxPayload /\ len = frames[k].length
          /\ start = b + HeaderSize /\ ret = len + 1 /\ got = start + (len + 1)
          /\ \A j \in 0..len : buf[j] = start + j + 1
      <4>1. b \in Nat /\ len \in 0..MaxPayload /\ len = frames[k].length
        BY <3>2, <3>3, <3>4 DEF InFrame, FramesAre
      <4>2. start = b + HeaderSize /\ size = len + 1
        BY <1>1, <3>3, <3>4 DEF InFrame, Payload
      <4>3. /\ ret = size /\ got = start + size
            /\ \A j \in 0..size - 1 : buf[j] = start + j + 1
        BY <1>1, <1>4, WholeResult
      <4> QED
        BY <4>1, <4>2, <4>3
    <3>6. \A j \in 0..len - 1 : parsed'[j] = b + HeaderSize + 1 + j
      <4>1. \A j \in 0..len - 1 : j \in 0..MaxSize - 1 /\ j < ret /\ j # len /\ j \in 0..len
        BY <3>5, Sizes
      <4>2. Copied(ret) \in [0..MaxSize - 1 -> Int]
        BY BytesCopied
      <4>3. \A j \in 0..len - 1 : parsed'[j] = Copied(ret)[j]
        BY <1>1, <2>2, <3>4, <4>1, <4>2 DEF Terminated
      <4>4. \A j \in 0..len - 1 : Copied(ret)[j] = buf[j]
        BY <4>1, BytesCopied
      <4>5. \A j \in 0..len - 1 : parsed'[j] = start + j + 1
        BY <3>5, <4>1, <4>3, <4>4
      <4> QED
        BY <3>5, <4>5, Sizes
    <3>7. Begin' = Begin
      BY <1>1, FramesStay
    <3>8. Holds(k)'
      BY <1>1, <3>4, <3>5, <3>6, <3>7 DEF Holds
    <3>9. got' = Begin[k + 1]
      <4>1. Begin[k + 1] = b + HeaderSize + len + 1
        BY <3>2, <3>4, <3>5 DEF FramesAre
      <4> QED
        BY <1>1, <3>5, <4>1, Sizes DEF ruVars
    <3>10. InFrame(k)'
      BY <1>1, <2>2, <3>4, <3>5, <3>7, <3>8, <3>9 DEF InFrame
    <3> QED
      BY <1>1, <2>2, <3>2, <3>10 DEF InPlace, FramesAre
  <2> QED
    BY <2>1, <2>2
<1> QED
  BY <1>1, <1>2, <1>3, <1>4, QuietFrameInv

\* What was handed over ended where the next frame begins.
LEMMA NextFrameInv ==
  ASSUME ReadInv, FrameInv, NextFrame
  PROVE  FrameInv'
<1>1. /\ pc = "handed" /\ pc' = "header" /\ Call(HeaderSize)
      /\ UNCHANGED <<frames, failures, length, parsed>>
  BY DEF NextFrame
<1>2. pc' \in Places /\ pc' # "handed" /\ parsed' \in [0..MaxSize - 1 -> Int]
  BY <1>1 DEF Places, FrameInv
<1>3. ASSUME failures = 0, ~closed PROVE InPlace'
  <2>1. PICK k \in 1..Len(frames) : got = Begin[k + 1]
    BY <1>1, <1>3 DEF FrameInv, InPlace, InFrame
  <2>2. Begin' = Begin /\ frames' = frames
    BY <1>1, FramesStay
  <2>3. Len(frames) \in Nat
    BY DEF FrameInv
  <2>4. start' = Begin'[k + 1] /\ size' = HeaderSize /\ k + 1 \in 1..Len(frames') + 1
    BY <1>1, <2>1, <2>2, <2>3 DEF Call
  <2> QED
    BY <1>1, <2>4 DEF InPlace
<1> QED
  BY <1>1, <1>2, <1>3, CallFrameInv

LEMMA FrameInvInit == Init => FrameInv
<1> SUFFICES ASSUME Init PROVE FrameInv
  OBVIOUS
<1>1. PICK n \in Nat : frames \in [1..n -> Headers]
  <2>1. PICK n \in 0..MaxFrames : frames \in [1..n -> Headers]
    BY DEF Init, FramesInit
  <2> QED
    BY <2>1
<1>2. FramesAre(n)
  BY <1>1, FramesKnown
<1>3. /\ pc = "header" /\ failures = 0 /\ closed = FALSE /\ failed = FALSE
      /\ size = HeaderSize /\ sum = 0 /\ start = 0 /\ got = 0 /\ ret = -1
      /\ parsed = [k \in 0..MaxSize - 1 |-> 0]
  BY DEF Init, FramesInit, ReadInit
<1>4. got <= StreamSize
  BY <1>2, <1>3 DEF FramesAre
<1>5. InPlace
  <2>1. start = Begin[1]
    BY <1>1, <1>3, BeginAdds
  <2>2. 1 \in 1..Len(frames) + 1
    BY <1>2 DEF FramesAre
  <2> QED
    BY <1>3, <2>1, <2>2 DEF InPlace
<1>6. closed \in BOOLEAN
  BY <1>3
<1> QED
  BY <1>1, <1>3, <1>4, <1>5, <1>6 DEF FrameInv, Places

LEMMA FrameInvNext == ReadInv /\ FrameInv /\ [Next]_vars => FrameInv'
<1> SUFFICES ASSUME ReadInv, FrameInv, [Next]_vars PROVE FrameInv'
  OBVIOUS
<1>1. CASE UNCHANGED readerVars
  <2>1. /\ UNCHANGED <<ruVars, frames, failures, pc, length, parsed, handed, size, start, got, ret>>
    BY <1>1 DEF readerVars, frameVars, ruVars, callVars
  <2>2. InPlace' = InPlace
    BY <2>1, InPlaceStays
  <2>3. /\ pc' \in Places /\ parsed' \in [0..MaxSize - 1 -> Int]
        /\ pc' = "handed" => ret # -1
        /\ failures = 0 /\ closed /\ pc' = "handed" => handed' = "body"
        /\ failures = 0 /\ ~closed => InPlace'
    BY <2>1, <2>2 DEF FrameInv, AfterEnd
  <2> QED
    BY <2>1, <2>3, QuietFrameInv
<1>2. CASE Read \/ Parse \/ NextFrame
  BY <1>2, ReadFrameInv, HeaderFrameInv, MethodFrameInv, MethodEndFrameInv,
     ContentFrameInv, ContentEndFrameInv, BodyFrameInv, NextFrameInv DEF Parse
<1> QED
  BY <1>1, <1>2 DEF Next, Enqueue, Deliver, vars

LEMMA FrameInvariant == Spec => [](ReadInv /\ FrameInv)
  BY ReadInvInit, ReadInvNext, FrameInvInit, FrameInvNext, PTL DEF Spec

\* Whatever frames come, in whatever pieces, and whatever was expected
\* instead, each is looked for where it begins (amqp_message.c:86-309).
THEOREM FramesAreAligned == Spec => []Aligned
<1>1. FrameInv => Aligned
  BY DEF FrameInv, InPlace, Aligned
<1> QED
  BY <1>1, FrameInvariant, PTL

\* A method or a body that is handed to the machine is the whole payload of
\* one frame, and the next byte to be read is the first of the frame behind
\* it, for buffers, headers and payloads of any size.
THEOREM FramesAreWhole == Spec => []HandedWhole
<1>1. FrameInv => HandedWhole
  <2> SUFFICES ASSUME FrameInv, pc = "handed", failures = 0,
                      ~(handed = "body" /\ closed)
               PROVE  \E k \in 1..Len(frames) : Holds(k) /\ got = Begin[k + 1]
    BY DEF HandedWhole
  <2>1. ~closed
    BY DEF FrameInv, AfterEnd
  <2> QED
    BY <2>1 DEF FrameInv, InPlace, InFrame
<1> QED
  BY <1>1, FrameInvariant, PTL

-----------------------------------------------------------------------------
(***************************************************************************)
(* The way out.  What a client makes of `out' is defined by recursion from *)
(* the first token; to know it, it is enough to know where the frames are: *)
(* frame m of fr stands at at[m] and nothing else looks like a header.     *)
(***************************************************************************)
Inner == {<<"field">>} \cup {<<"byte", x>> : x \in Int} \cup {<<"size", x>> : x \in Int}
Tokens == Inner \cup {End} \cup {Header(t, n) : t \in Types, n \in Nat}
FrameRecords == [type : Types, content : Seq(Inner)]

\* A frame as the client reads it: its place in o, its type and its content.
StandsAt(o, i, t, c) ==
  /\ i + Len(c) + 1 <= Len(o)
  /\ o[i] = Header(t, Len(c))
  /\ \A j \in 1..Len(c) : o[i + j] = c[j]
  /\ o[i + Len(c) + 1] = End

Framed(o, fr, at) ==
  /\ o \in Seq(Tokens) /\ fr \in Seq(FrameRecords)
  /\ at \in [1..Len(fr) + 1 -> Nat]
  /\ at[1] = 1 /\ at[Len(fr) + 1] = Len(o) + 1
  /\ \A m \in 1..Len(fr) : /\ at[m + 1] = at[m] + Len(fr[m].content) + 2
                           /\ StandsAt(o, at[m], fr[m].type, fr[m].content)
  /\ \A j, k \in 1..Len(fr) + 1 : j < k => at[j] < at[k]
  /\ \A i \in 1..Len(o) : o[i][1] = "header" => \E m \in 1..Len(fr) : i = at[m]

\* The tokens tell headers, ends and contents apart.
LEMMA TokensDiffer ==
  /\ \A x \in Inner : x # End /\ x[1] # "header"
  /\ End[1] # "header"
  /\ \A t, n : /\ Header(t, n)[1] = "header" /\ Header(t, n)[2] = t
               /\ Header(t, n)[3] = n
  /\ Inner \subseteq Tokens /\ End \in Tokens
  /\ \A t \in Types, n \in Nat : Header(t, n) \in Tokens
<1>1. \A x \in Inner : x[1] # "header"
  BY DEF Inner
<1>2. \A x \in Inner : x # End
  <2>1. \A x \in Inner : x[1] \in {"field", "byte", "size"}
    BY DEF Inner
  <2>2. End[1] = "end"
    BY DEF End
  <2> QED
    BY <2>1, <2>2
<1>3. End[1] # "header"
  BY DEF End
<1>4. \A t, n : /\ Header(t, n)[1] = "header" /\ Header(t, n)[2] = t
                /\ Header(t, n)[3] = n
  BY DEF Header
<1>5. /\ Inner \subseteq Tokens /\ End \in Tokens
      /\ \A t \in Types, n \in Nat : Header(t, n) \in Tokens
  BY DEF Tokens
<1> QED
  BY <1>1, <1>2, <1>3, <1>4, <1>5

\* At the place of a frame its header counts it out exactly.
LEMMA FrameIsWhole ==
  ASSUME NEW i \in Nat \ {0}, NEW t \in Types, NEW c \in Seq(Inner), out \in Seq(Tokens),
         StandsAt(out, i, t, c)
  PROVE  /\ Whole(i) /\ out[i][2] = t /\ out[i][3] = Len(c)
         /\ SubSeq(out, i + 1, i + out[i][3]) = c
<1>1. Len(c) \in Nat /\ Len(out) \in Nat /\ DOMAIN out = 1..Len(out)
  OBVIOUS
<1>2. out[i][1] = "header" /\ out[i][2] = t /\ out[i][3] = Len(c)
  BY TokensDiffer DEF StandsAt
<1>3. /\ i + Len(c) + 1 \in DOMAIN out /\ out[i + Len(c) + 1] = End
      /\ \A j \in 1..Len(c) : out[i + j] = c[j]
  BY <1>1 DEF StandsAt
<1>4. \A k \in i + 1..i + Len(c) : out[k] = c[k - i] /\ c[k - i] \in Inner
  <2> SUFFICES ASSUME NEW k \in i + 1..i + Len(c)
               PROVE  out[k] = c[k - i] /\ c[k - i] \in Inner
    OBVIOUS
  <2>1. k - i \in 1..Len(c) /\ i + (k - i) = k
    BY <1>1
  <2> QED
    BY <1>3, <2>1
<1>5. Whole(i)
  BY <1>2, <1>3, <1>4, TokensDiffer DEF Whole
<1>6. PICK s : s = SubSeq(out, i + 1, i + Len(c))
  OBVIOUS
<1>7. /\ s \in Seq(Inner) /\ Len(s) = Len(c)
      /\ \A j \in 1..Len(c) : s[j] = out[i + j]
  <2>1. i + 1 \in Int /\ i + Len(c) \in Int
    BY <1>1
  <2>2. \A k \in i + 1..i + Len(c) : out[k] \in Inner
    BY <1>4
  <2>3. /\ s \in Seq(Inner)
        /\ Len(s) = IF i + 1 <= i + Len(c) THEN i + Len(c) - (i + 1) + 1 ELSE 0
        /\ \A j \in 1..i + Len(c) - (i + 1) + 1 : s[j] = out[i + 1 + j - 1]
    BY <1>6, <2>1, <2>2, SubSeqProperties
  <2>4. Len(s) = Len(c)
    BY <1>1, <2>3
  <2>5. \A j \in 1..Len(c) : s[j] = out[i + j]
    <3> SUFFICES ASSUME NEW j \in 1..Len(c) PROVE s[j] = out[i + j]
      OBVIOUS
    <3>1. j \in 1..i + Len(c) - (i + 1) + 1 /\ i + 1 + j - 1 = i + j
      BY <1>1
    <3> QED
      BY <2>3, <3>1
  <2> QED
    BY <2>3, <2>4, <2>5
<1>8. s = c
  BY <1>3, <1>7, SeqEqual
<1> QED
  BY <1>2, <1>5, <1>6, <1>8

\* So the client goes from each frame to the next one ...
LEMMA ClientStep ==
  ASSUME NEW fr, NEW at, Framed(out, fr, at), NEW m \in 1..Len(fr)
  PROVE  /\ at[m] \in 1..Len(out)
         /\ Whole(at[m])
         /\ [type |-> out[at[m]][2],
             content |-> SubSeq(out, at[m] + 1, at[m] + out[at[m]][3])] = fr[m]
         /\ at[m] + out[at[m]][3] + 2 = at[m + 1]
<1>1. Len(fr) \in Nat /\ Len(out) \in Nat
  BY DEF Framed
<1>2. /\ m \in 1..Len(fr) + 1 /\ m + 1 \in 1..Len(fr) + 1 /\ m < Len(fr) + 1
      /\ 1 \in 1..Len(fr) + 1 /\ Len(fr) + 1 \in 1..Len(fr) + 1
  BY <1>1
<1>3. PICK i, t, c : i = at[m] /\ t = fr[m].type /\ c = fr[m].content
  OBVIOUS
<1>4. fr[m] \in FrameRecords
  BY DEF Framed
<1>5. t \in Types /\ c \in Seq(Inner) /\ fr[m] = [type |-> t, content |-> c]
  BY <1>3, <1>4 DEF FrameRecords
<1>6. i \in Nat /\ i < Len(out) + 1
  BY <1>1, <1>2, <1>3 DEF Framed
<1>7. i >= 1
  <2>1. m = 1 \/ 1 < m
    BY <1>1
  <2> QED
    BY <1>2, <1>3, <1>6, <2>1 DEF Framed
<1>8. StandsAt(out, i, t, c) /\ at[m + 1] = i + Len(c) + 2
  BY <1>3 DEF Framed
<1>9. out \in Seq(Tokens)
  BY DEF Framed
<1>10. /\ Whole(i) /\ out[i][2] = t /\ out[i][3] = Len(c)
       /\ SubSeq(out, i + 1, i + out[i][3]) = c
  BY <1>5, <1>6, <1>7, <1>8, <1>9, FrameIsWhole
<1>11. i \in 1..Len(out)
  BY <1>1, <1>6, <1>7
<1>12. [type |-> out[i][2], content |-> SubSeq(out, i + 1, i + out[i][3])] = fr[m]
  BY <1>5, <1>10
<1>13. i + out[i][3] + 2 = at[m + 1]
  BY <1>8, <1>10
<1> QED
  BY <1>3, <1>10, <1>11, <1>12, <1>13

\* ... and reads exactly the frames of fr.
LEMMA ReceivedIs ==
  ASSUME NEW fr, NEW at, Framed(out, fr, at)
  PROVE  Received = fr
<1> DEFINE n == Len(fr)
           bad == <<[type |-> 0, content |-> <<>>]>>
           first(i) == [type |-> out[i][2], content |-> SubSeq(out, i + 1, i + out[i][3])]
           Is(h) == h = [i \in 1..Len(out) + 1 |->
                           IF i > Len(out) THEN <<>>
                           ELSE IF Whole(i) THEN <<first(i)>> \o h[i + out[i][3] + 2]
                           ELSE bad]
<1>1. n \in Nat /\ Len(out) \in Nat /\ fr \in Seq(FrameRecords)
  BY DEF Framed
<1>2. \A m \in 1..n : /\ at[m] \in 1..Len(out) + 1 /\ at[m] <= Len(out)
                      /\ Whole(at[m]) /\ first(at[m]) = fr[m]
                      /\ at[m] + out[at[m]][3] + 2 = at[m + 1]
  BY <1>1, ClientStep
<1>3. at[1] = 1 /\ at[n + 1] = Len(out) + 1
  BY DEF Framed
<1>4. \A i \in 1..Len(out) : Whole(i) => \E m \in 1..n : i = at[m]
  BY DEF Framed, Whole
<1>5. \A m \in 1..n : SubSeq(fr, m, n) = <<fr[m]>> \o SubSeq(fr, m + 1, n)
  <2> SUFFICES ASSUME NEW m \in 1..n
               PROVE  SubSeq(fr, m, n) = <<fr[m]>> \o SubSeq(fr, m + 1, n)
    OBVIOUS
  <2>1. m \in 1..n /\ n \in 1..Len(fr)
    BY <1>1
  <2> QED
    BY <1>1, <2>1, SubSeqRecursiveFirst
<1>6. SubSeq(fr, n + 1, n) = <<>> /\ SubSeq(fr, 1, n) = fr
  BY <1>1, SubSeqEmpty, SubSeqFull
<1>7. \A j, k \in 1..n + 1 : at[j] = at[k] => j = k
  <2>1. at \in [1..n + 1 -> Nat] /\ \A j, k \in 1..n + 1 : j < k => at[j] < at[k]
    BY DEF Framed
  <2>2. \A j, k \in 1..n + 1 : j = k \/ j < k \/ k < j
    BY <1>1
  <2> HIDE DEF n
  <2> QED
    BY <2>1, <2>2
<1> HIDE DEF n, first, bad
<1>8. PICK place : place = [i \in Nat |-> CHOOSE m \in 1..n + 1 : at[m] = i]
  OBVIOUS
<1>9. \A m \in 1..n + 1 : at[m] \in Nat /\ place[at[m]] = m
  <2>1. \A m \in 1..n + 1 : at[m] \in Nat
    BY DEF Framed, n
  <2> QED
    BY <1>7, <1>8, <2>1
<1>10. PICK f : f = [i \in 1..Len(out) + 1 |->
                       IF \E m \in 1..n + 1 : i = at[m] THEN SubSeq(fr, place[i], n)
                       ELSE bad]
  OBVIOUS
<1>11. \A m \in 1..n + 1 : at[m] \in 1..Len(out) + 1 /\ f[at[m]] = SubSeq(fr, m, n)
  <2> SUFFICES ASSUME NEW m \in 1..n + 1
               PROVE  at[m] \in 1..Len(out) + 1 /\ f[at[m]] = SubSeq(fr, m, n)
    OBVIOUS
  <2>1. at[m] \in 1..Len(out) + 1
    <3>1. m \in 1..n \/ m = n + 1
      BY <1>1
    <3> QED
      BY <1>1, <1>2, <1>3, <3>1
  <2> QED
    BY <1>9, <1>10, <2>1
<1>12. Is(f)
  <2> SUFFICES ASSUME NEW i \in 1..Len(out) + 1
               PROVE  f[i] = IF i > Len(out) THEN <<>>
                             ELSE IF Whole(i) THEN <<first(i)>> \o f[i + out[i][3] + 2]
                             ELSE bad
    BY <1>10
  <2>1. CASE i = Len(out) + 1
    <3>1. n + 1 \in 1..n + 1 /\ i > Len(out)
      BY <1>1, <2>1
    <3> QED
      BY <1>3, <1>6, <1>11, <2>1, <3>1
  <2>2. CASE i # Len(out) + 1 /\ Whole(i)
    <3>1. i \in 1..Len(out) /\ ~(i > Len(out))
      BY <1>1, <2>2
    <3>2. PICK m \in 1..n : i = at[m]
      BY <1>4, <2>2, <3>1
    <3>3. m \in 1..n + 1 /\ m + 1 \in 1..n + 1
      BY <1>1
    <3>4. f[i] = <<fr[m]>> \o SubSeq(fr, m + 1, n)
      BY <1>5, <1>11, <3>2, <3>3
    <3>5. f[i + out[i][3] + 2] = SubSeq(fr, m + 1, n)
      BY <1>2, <1>11, <3>2, <3>3
    <3>6. first(i) = fr[m]
      BY <1>2, <3>2
    <3> QED
      BY <2>2, <3>1, <3>4, <3>5, <3>6
  <2>3. CASE i # Len(out) + 1 /\ ~Whole(i)
    <3>1. i \in 1..Len(out) /\ ~(i > Len(out))
      BY <1>1, <2>3
    <3>2. ~\E m \in 1..n + 1 : i = at[m]
      <4> SUFFICES ASSUME NEW m \in 1..n + 1, i = at[m] PROVE FALSE
        OBVIOUS
      <4>1. m \in 1..n \/ m = n + 1
        BY <1>1
      <4> QED
        BY <1>2, <1>3, <2>3, <4>1
    <3> QED
      BY <1>10, <2>3, <3>1, <3>2
  <2> QED
    BY <2>1, <2>2, <2>3
<1>13. PICK h : h = CHOOSE g : Is(g)
  OBVIOUS
<1>14. Received = h[1]
  BY <1>13 DEF Received, first, bad
<1>15. Is(h)
  <2> HIDE DEF Is
  <2> QED
    BY <1>12, <1>13
<1>16. h[at[n + 1]] = <<>>
  BY <1>1, <1>3, <1>15
<1>17. \A m \in 1..n : h[at[m]] = <<fr[m]>> \o h[at[m + 1]]
  <2> SUFFICES ASSUME NEW m \in 1..n PROVE h[at[m]] = <<fr[m]>> \o h[at[m + 1]]
    OBVIOUS
  <2>1. PICK i : i = at[m]
    OBVIOUS
  <2>2. i \in 1..Len(out) + 1 /\ ~(i > Len(out)) /\ Whole(i)
    BY <1>1, <1>2, <2>1
  <2>3. h[i] = <<first(i)>> \o h[i + out[i][3] + 2]
    BY <1>15, <2>2
  <2> QED
    BY <1>2, <2>1, <2>3
<1> HIDE DEF Is
<1> DEFINE S == {k \in 0..n : h[at[n + 1 - k]] = SubSeq(fr, n + 1 - k, n)}
<1>18. 0 \in S
  <2>1. n + 1 - 0 = n + 1 /\ 0 \in 0..n
    BY <1>1
  <2> QED
    BY <1>6, <1>16, <2>1
<1>19. ASSUME NEW k \in 0..n - 1, k \in S PROVE k + 1 \in S
  <2>1. PICK m \in 1..n : m = n + 1 - (k + 1) /\ m + 1 = n + 1 - k
    <3>1. n + 1 - (k + 1) \in 1..n /\ n + 1 - (k + 1) + 1 = n + 1 - k
      BY <1>1
    <3> QED
      BY <3>1
  <2>2. h[at[m + 1]] = SubSeq(fr, m + 1, n)
    BY <1>19, <2>1
  <2>3. h[at[m]] = SubSeq(fr, m, n)
    BY <1>5, <1>17, <2>2
  <2>4. k + 1 \in 0..n
    BY <1>1
  <2> QED
    BY <2>1, <2>3, <2>4
<1>20. n \in S
  <2>1. n \in 0..n
    BY <1>1
  <2> HIDE DEF S
  <2> QED
    BY <1>1, <1>18, <1>19, <2>1, UpTo
<1>21. h[at[1]] = SubSeq(fr, 1, n)
  <2>1. n + 1 - n = 1
    BY <1>1
  <2> QED
    BY <1>20, <2>1
<1> QED
  BY <1>3, <1>6, <1>14, <1>21

\* One sequence of tokens behind another.
Joins(r, p, q) ==
  /\ r \in Seq(Tokens) /\ Len(r) = Len(p) + Len(q)
  /\ \A i \in 1..Len(p) : r[i] = p[i]
  /\ \A j \in 1..Len(q) : r[Len(p) + j] = q[j]

LEMMA Joined ==
  ASSUME NEW p \in Seq(Tokens), NEW q \in Seq(Tokens)
  PROVE  Joins(p \o q, p, q)
<1>1. PICK r, m, n : r = p \o q /\ m = Len(p) /\ n = Len(q)
  OBVIOUS
<1>2. m \in Nat /\ n \in Nat
  BY <1>1
<1>3. /\ r \in Seq(Tokens) /\ Len(r) = m + n
      /\ \A i \in 1..m + n : r[i] = IF i <= m THEN p[i] ELSE q[i - m]
  <2>1. /\ p \o q \in Seq(Tokens) /\ Len(p \o q) = Len(p) + Len(q)
        /\ \A i \in 1..Len(p) + Len(q) : (p \o q)[i] =
                IF i <= Len(p) THEN p[i] ELSE q[i - Len(p)]
    BY ConcatProperties, Zenon
  <2> QED
    BY <1>1, <2>1, Zenon
<1>4. \A i \in 1..m : i \in 1..m + n /\ i <= m
  BY <1>2
<1>5. \A i \in 1..m : r[i] = p[i]
  BY <1>3, <1>4
<1>6. \A j \in 1..n : r[m + j] = q[j]
  <2> SUFFICES ASSUME NEW j \in 1..n PROVE r[m + j] = q[j]
    OBVIOUS
  <2>1. PICK k \in 1..m + n : k = m + j /\ ~(k <= m) /\ k - m = j
    <3>1. m + j \in 1..m + n /\ ~(m + j <= m) /\ (m + j) - m = j
      BY <1>2
    <3> QED
      BY <3>1, Zenon
  <2>2. r[k] = q[k - m]
    BY <1>3, <2>1, Zenon
  <2> QED
    BY <2>1, <2>2, Zenon
<1> QED
  BY <1>1, <1>3, <1>5, <1>6, Zenon DEF Joins

\* A frame as it is sent.
FrameOf(t, c) == <<Header(t, Len(c))>> \o c \o <<End>>

LEMMA FrameOfHas ==
  ASSUME NEW t \in Types, NEW c \in Seq(Inner), NEW w, w = FrameOf(t, c)
  PROVE  /\ w \in Seq(Tokens) /\ Len(w) = Len(c) + 2
         /\ w[1] = Header(t, Len(c)) /\ w[Len(c) + 2] = End
         /\ \A j \in 1..Len(c) : w[1 + j] = c[j]
         /\ \A j \in 1..Len(w) : w[j][1] = "header" => j = 1
<1>1. Len(c) \in Nat /\ c \in Seq(Tokens) /\ Header(t, Len(c)) \in Tokens /\ End \in Tokens
  <2>1. Inner \subseteq Tokens
    BY TokensDiffer
  <2> QED
    BY <2>1, TokensDiffer
<1>2. PICK a, e : a = <<Header(t, Len(c))>> /\ e = <<End>>
  OBVIOUS
<1>3. /\ a \in Seq(Tokens) /\ Len(a) = 1 /\ a[1] = Header(t, Len(c))
      /\ e \in Seq(Tokens) /\ Len(e) = 1 /\ e[1] = End
  BY <1>1, <1>2
<1>4. PICK b : b = a \o c
  OBVIOUS
<1>5. /\ b \in Seq(Tokens) /\ Len(b) = 1 + Len(c)
      /\ b[1] = Header(t, Len(c)) /\ \A j \in 1..Len(c) : b[1 + j] = c[j]
  <2>1. /\ b \in Seq(Tokens) /\ Len(b) = Len(a) + Len(c)
        /\ \A i \in 1..Len(a) : b[i] = a[i]
        /\ \A j \in 1..Len(c) : b[Len(a) + j] = c[j]
    <3>1. Joins(b, a, c)
      BY <1>1, <1>3, <1>4, Joined
    <3> QED
      BY <3>1 DEF Joins
  <2> QED
    BY <1>3, <2>1
<1>6. w = b \o e
  BY <1>2, <1>4 DEF FrameOf
<1>7. /\ w \in Seq(Tokens) /\ Len(w) = Len(b) + 1
      /\ \A j \in 1..Len(b) : w[j] = b[j]
      /\ w[Len(b) + 1] = End
  <2>1. /\ w \in Seq(Tokens) /\ Len(w) = Len(b) + Len(e)
        /\ \A i \in 1..Len(b) : w[i] = b[i]
        /\ \A j \in 1..Len(e) : w[Len(b) + j] = e[j]
    <3>1. b \in Seq(Tokens) /\ e \in Seq(Tokens)
      BY <1>3, <1>5
    <3>2. Joins(w, b, e)
      BY <1>6, <3>1, Joined
    <3> QED
      BY <3>2 DEF Joins
  <2> QED
    BY <1>3, <2>1
<1>8. Len(w) = Len(c) + 2
  BY <1>1, <1>5, <1>7
<1>9. w[1] = Header(t, Len(c))
  <2>1. 1 \in 1..Len(b)
    BY <1>1, <1>5
  <2> QED
    BY <1>5, <1>7, <2>1
<1>10. w[Len(c) + 2] = End
  <2>1. Len(c) + 2 = Len(b) + 1
    BY <1>1, <1>5
  <2> QED
    BY <1>7, <2>1
<1>11. \A j \in 1..Len(c) : w[1 + j] = c[j]
  <2> SUFFICES ASSUME NEW j \in 1..Len(c) PROVE w[1 + j] = c[j]
    OBVIOUS
  <2>1. 1 + j \in 1..Len(b)
    BY <1>1, <1>5
  <2> QED
    BY <1>5, <1>7, <2>1
<1>12. ASSUME NEW j \in 1..Len(w), j # 1 PROVE w[j][1] # "header"
  <2>1. j = Len(c) + 2 \/ (j - 1 \in 1..Len(c) /\ j = 1 + (j - 1))
    BY <1>1, <1>8, <1>12
  <2>2. j = Len(c) + 2 => w[j][1] # "header"
    BY <1>10, TokensDiffer
  <2>3. ASSUME NEW k \in 1..Len(c), j = 1 + k PROVE w[j][1] # "header"
    <3>1. c[k] \in Inner
      OBVIOUS
    <3> QED
      BY <1>11, <2>3, <3>1, TokensDiffer
  <2> QED
    BY <2>1, <2>2, <2>3
<1> QED
  BY <1>7, <1>8, <1>9, <1>10, <1>11, <1>12

\* What is there already keeps its place, and the frame stands behind it.
LEMMA FramedAppend ==
  ASSUME NEW o, NEW fr, NEW at, Framed(o, fr, at),
         NEW t \in Types, NEW c \in Seq(Inner)
  PROVE  \E at2 : Framed(o \o FrameOf(t, c), Append(fr, [type |-> t, content |-> c]), at2)
<1>1. PICK w, o2, fr2 : /\ w = FrameOf(t, c) /\ o2 = o \o w
                        /\ fr2 = Append(fr, [type |-> t, content |-> c])
  OBVIOUS
<1>2. PICK n, z, len : n = Len(fr) /\ z = Len(o) /\ len = Len(c)
  OBVIOUS
<1>3. /\ o \in Seq(Tokens) /\ z \in Nat /\ n \in Nat /\ len \in Nat
      /\ fr \in Seq(FrameRecords)
  BY <1>2 DEF Framed
<1>4. /\ w \in Seq(Tokens) /\ Len(w) = len + 2
      /\ w[1] = Header(t, len) /\ w[len + 2] = End
      /\ \A j \in 1..len : w[1 + j] = c[j]
      /\ \A j \in 1..len + 2 : w[j][1] = "header" => j = 1
  BY <1>1, <1>2, FrameOfHas
<1>5. /\ o2 \in Seq(Tokens) /\ Len(o2) = z + len + 2
      /\ \A i \in 1..z : o2[i] = o[i]
      /\ \A j \in 1..len + 2 : o2[z + j] = w[j]
  <2>1. /\ o2 \in Seq(Tokens) /\ Len(o2) = Len(o) + Len(w)
        /\ \A i \in 1..Len(o) : o2[i] = o[i]
        /\ \A j \in 1..Len(w) : o2[Len(o) + j] = w[j]
    <3>1. Joins(o2, o, w)
      BY <1>1, <1>3, <1>4, Joined
    <3> QED
      BY <3>1 DEF Joins
  <2>2. Len(o2) = z + len + 2
    BY <1>2, <1>3, <1>4, <2>1
  <2> QED
    BY <1>2, <1>4, <2>1, <2>2
<1>6. [type |-> t, content |-> c] \in FrameRecords
  BY DEF FrameRecords
<1>7. /\ fr2 \in Seq(FrameRecords) /\ Len(fr2) = n + 1
      /\ \A m \in 1..n : fr2[m] = fr[m]
      /\ fr2[n + 1] = [type |-> t, content |-> c]
  BY <1>1, <1>2, <1>3, <1>6, AppendProperties
<1>8. /\ at \in [1..n + 1 -> Nat] /\ at[1] = 1 /\ at[n + 1] = z + 1
      /\ \A m \in 1..n : /\ at[m + 1] = at[m] + Len(fr[m].content) + 2
                         /\ StandsAt(o, at[m], fr[m].type, fr[m].content)
      /\ \A j, k \in 1..n + 1 : j < k => at[j] < at[k]
      /\ \A i \in 1..z : o[i][1] = "header" => \E m \in 1..n : i = at[m]
  BY <1>2 DEF Framed
<1>9. PICK at2 : at2 = [m \in 1..(n + 1) + 1 |-> IF m = n + 2 THEN z + len + 3 ELSE at[m]]
  OBVIOUS
<1>10. /\ at2 \in [1..(n + 1) + 1 -> Nat] /\ at2[(n + 1) + 1] = z + len + 3
       /\ \A m \in 1..n + 1 : at2[m] = at[m]
  <2>1. (n + 1) + 1 = n + 2 /\ n + 2 \in 1..(n + 1) + 1
    BY <1>3
  <2>2. \A m \in 1..n + 1 : m \in 1..(n + 1) + 1 /\ m # n + 2
    BY <1>3
  <2>3. \A m \in 1..(n + 1) + 1 : m = n + 2 \/ m \in 1..n + 1
    BY <1>3
  <2>4. z + len + 3 \in Nat
    BY <1>3
  <2>5. \A m \in 1..n + 1 : at2[m] = at[m] /\ at[m] \in Nat
    BY <1>8, <1>9, <2>2
  <2>6. at2[n + 2] = z + len + 3
    BY <1>9, <2>1
  <2>7. \A m \in 1..(n + 1) + 1 : at2[m] \in Nat
    BY <2>3, <2>4, <2>5, <2>6
  <2> QED
    BY <1>9, <2>1, <2>5, <2>6, <2>7
<1>11. \A m \in 1..n + 1 : at[m] \in 1..z + 1
  <2> SUFFICES ASSUME NEW m \in 1..n + 1 PROVE at[m] \in 1..z + 1
    OBVIOUS
  <2>1. 1 \in 1..n + 1 /\ n + 1 \in 1..n + 1
    BY <1>3
  <2>2. (m = 1 \/ 1 < m) /\ (m = n + 1 \/ m < n + 1)
    BY <1>3
  <2>3. at[m] \in Nat /\ (at[m] = 1 \/ 1 < at[m]) /\ (at[m] = z + 1 \/ at[m] < z + 1)
    BY <1>8, <2>1, <2>2
  <2> QED
    BY <1>3, <2>3
<1>12. ASSUME NEW m \in 1..n
       PROVE  /\ at2[m + 1] = at2[m] + Len(fr2[m].content) + 2
              /\ StandsAt(o2, at2[m], fr2[m].type, fr2[m].content)
  <2>1. m \in 1..n + 1 /\ m + 1 \in 1..n + 1
    BY <1>3
  <2>2. at2[m] = at[m] /\ at2[m + 1] = at[m + 1] /\ fr2[m] = fr[m]
    BY <1>7, <1>10, <2>1
  <2>3. PICK i, d : i = at[m] /\ d = fr[m].content
    OBVIOUS
  <2>4. i \in 1..z + 1 /\ d \in Seq(Inner) /\ Len(d) \in Nat
    <3>1. m \in 1..Len(fr)
      BY <1>2
    <3>2. fr[m] \in FrameRecords
      BY <1>3, <3>1
    <3>3. d \in Seq(Inner)
      BY <2>3, <3>2 DEF FrameRecords
    <3> QED
      BY <1>11, <2>1, <2>3, <3>3
  <2>5. StandsAt(o, i, fr[m].type, d)
    BY <1>8, <2>3
  <2>6. /\ i \in 1..z /\ i + Len(d) + 1 \in 1..z
        /\ \A j \in 1..Len(d) : i + j \in 1..z
    BY <1>2, <1>3, <2>4, <2>5 DEF StandsAt
  <2>7. i + Len(d) + 1 <= Len(o2)
    BY <1>3, <1>5, <2>4, <2>6
  <2>8. StandsAt(o2, i, fr[m].type, d)
    BY <1>5, <2>5, <2>6, <2>7 DEF StandsAt
  <2> QED
    BY <1>8, <2>2, <2>3, <2>8
<1>13. /\ at2[(n + 1) + 1] = at2[n + 1] + Len(fr2[n + 1].content) + 2
       /\ StandsAt(o2, at2[n + 1], fr2[n + 1].type, fr2[n + 1].content)
  <2>1. n + 1 \in 1..n + 1
    BY <1>3
  <2>2. at2[n + 1] = z + 1 /\ fr2[n + 1].type = t /\ fr2[n + 1].content = c
    BY <1>7, <1>8, <1>10, <2>1
  <2>3. z + len + 3 = (z + 1) + len + 2 /\ (z + 1) + len + 1 = z + (len + 2)
        /\ (z + 1) + len + 1 <= z + len + 2
    BY <1>3
  <2>4. 1 \in 1..len + 2 /\ len + 2 \in 1..len + 2
    BY <1>3
  <2>5. ASSUME NEW j \in 1..len PROVE o2[(z + 1) + j] = c[j]
    <3>1. 1 + j \in 1..len + 2 /\ z + (1 + j) = (z + 1) + j
      BY <1>3
    <3> QED
      BY <1>4, <1>5, <3>1
  <2>6. StandsAt(o2, z + 1, t, c)
    BY <1>2, <1>4, <1>5, <2>3, <2>4, <2>5 DEF StandsAt
  <2> QED
    BY <1>2, <1>10, <2>2, <2>3, <2>6
<1>14. \A m \in 1..n + 1 : m \in 1..n \/ m = n + 1
  BY <1>3
<1>15. ASSUME NEW j \in 1..(n + 1) + 1, NEW k \in 1..(n + 1) + 1, j < k
       PROVE  at2[j] < at2[k]
  <2>1. j \in 1..n + 1 /\ (k \in 1..n + 1 \/ k = (n + 1) + 1)
    BY <1>3, <1>15
  <2>2. CASE k \in 1..n + 1
    BY <1>8, <1>10, <1>15, <2>1, <2>2
  <2>3. CASE k = (n + 1) + 1
    <3>1. at[j] \in 1..z + 1
      BY <1>11, <2>1
    <3>2. at[j] < z + len + 3
      BY <1>3, <3>1
    <3> QED
      BY <1>10, <2>1, <2>3, <3>2
  <2> QED
    BY <2>1, <2>2, <2>3
<1>16. ASSUME NEW i \in 1..z + len + 2, o2[i][1] = "header"
       PROVE  \E m \in 1..n + 1 : i = at2[m]
  <2>1. CASE i \in 1..z
    <3>1. PICK m \in 1..n : i = at[m]
      BY <1>5, <1>8, <1>16, <2>1
    <3>2. m \in 1..n + 1
      BY <1>3
    <3> QED
      BY <1>10, <3>1, <3>2
  <2>2. CASE i \notin 1..z
    <3>1. PICK j \in 1..len + 2 : i = z + j
      <4>1. i - z \in 1..len + 2 /\ i = z + (i - z)
        BY <1>3, <2>2
      <4> QED
        BY <4>1
    <3>2. j = 1
      BY <1>4, <1>5, <1>16, <3>1
    <3>3. n + 1 \in 1..n + 1
      BY <1>3
    <3> QED
      BY <1>8, <1>10, <3>1, <3>2, <3>3
  <2> QED
    BY <2>1, <2>2
<1>17. at2[1] = 1 /\ at2[(n + 1) + 1] = (z + len + 2) + 1
  <2>1. 1 \in 1..n + 1 /\ (z + len + 2) + 1 = z + len + 3
    BY <1>3
  <2> QED
    BY <1>8, <1>10, <2>1
<1>18. Framed(o2, fr2, at2)
  <2>1. \A m \in 1..n + 1 : /\ at2[m + 1] = at2[m] + Len(fr2[m].content) + 2
                            /\ StandsAt(o2, at2[m], fr2[m].type, fr2[m].content)
    BY <1>12, <1>13, <1>14
  <2>2. \A j, k \in 1..(n + 1) + 1 : j < k => at2[j] < at2[k]
    BY <1>15
  <2>3. \A i \in 1..z + len + 2 :
          o2[i][1] = "header" => \E m \in 1..n + 1 : i = at2[m]
    BY <1>16
  <2>4. /\ o2 \in Seq(Tokens) /\ Len(o2) = z + len + 2
        /\ fr2 \in Seq(FrameRecords) /\ Len(fr2) = n + 1
        /\ at2 \in [1..(n + 1) + 1 -> Nat]
        /\ at2[1] = 1 /\ at2[(n + 1) + 1] = (z + len + 2) + 1
    BY <1>5, <1>7, <1>10, <1>17
  <2> QED
    BY <2>1, <2>2, <2>3, <2>4, Zenon DEF Framed
<1> QED
  BY <1>1, <1>18

-----------------------------------------------------------------------------
\* The frames of a delivery.
LEMMA FieldsAre ==
  ASSUME NEW n \in Nat
  PROVE  Fields(n) \in Seq(Inner) /\ Fields(n) \in Seq(Tokens) /\ Len(Fields(n)) = n
<1>1. <<"field">> \in Inner /\ <<"field">> \in Tokens
  BY DEF Inner, Tokens
<1> QED
  BY <1>1 DEF Fields

LEMMA BytesAre ==
  ASSUME NEW s \in Seq(Int)
  PROVE  Bytes(s) \in Seq(Inner) /\ Len(Bytes(s)) = Len(s)
<1>1. \A x \in Int : <<"byte", x>> \in Inner
  BY DEF Inner
<1>2. Bytes(s) = [k \in 1..Len(s) |-> <<"byte", s[k]>>] /\ Len(s) \in Nat
  BY DEF Bytes
<1>3. \A k \in 1..Len(s) : <<"byte", s[k]>> \in Inner
  BY <1>1
<1> QED
  BY <1>2, <1>3

\* Two contents behind another.
LEMMA InnerJoined ==
  ASSUME NEW p \in Seq(Inner), NEW q \in Seq(Inner)
  PROVE  /\ p \o q \in Seq(Inner) /\ Len(p \o q) = Len(p) + Len(q)
         /\ p # <<>> => (p \o q)[1] = p[1]
<1>1. PICK r, m, n : r = p \o q /\ m = Len(p) /\ n = Len(q)
  OBVIOUS
<1>2. m \in Nat /\ n \in Nat
  BY <1>1
<1>3. /\ r \in Seq(Inner) /\ Len(r) = m + n
      /\ \A i \in 1..m + n : r[i] = IF i <= m THEN p[i] ELSE q[i - m]
  <2>1. /\ p \o q \in Seq(Inner) /\ Len(p \o q) = Len(p) + Len(q)
        /\ \A i \in 1..Len(p) + Len(q) : (p \o q)[i] =
                IF i <= Len(p) THEN p[i] ELSE q[i - Len(p)]
    BY ConcatProperties, Zenon
  <2> QED
    BY <1>1, <2>1, Zenon
<1>4. ASSUME p # <<>> PROVE r[1] = p[1]
  <2>1. m # 0
    BY <1>1, <1>4
  <2>2. 1 \in 1..m + n /\ 1 <= m
    BY <1>2, <2>1
  <2> QED
    BY <1>3, <2>2
<1> QED
  BY <1>1, <1>3, <1>4, Zenon

\* Two parts of a content, each behind the other, are one frame.
LEMMA PartsAreFrame ==
  ASSUME NEW t \in Types, NEW p \in Seq(Inner), NEW q \in Seq(Inner)
  PROVE  <<Header(t, Len(p) + Len(q))>> \o p \o q \o <<End>> = FrameOf(t, p \o q)
<1>1. PICK h : h = <<Header(t, Len(p) + Len(q))>>
  OBVIOUS
<1>2. Inner \subseteq Tokens /\ Len(p) + Len(q) \in Nat
  BY TokensDiffer
<1>3. p \in Seq(Tokens) /\ q \in Seq(Tokens) /\ h \in Seq(Tokens)
  <2>1. Header(t, Len(p) + Len(q)) \in Tokens
    BY <1>2, TokensDiffer
  <2> QED
    BY <1>1, <1>2, <2>1
<1>4. (h \o p) \o q = h \o (p \o q)
  <2>1. \A x, y, z \in Seq(Tokens) : (x \o y) \o z = x \o (y \o z)
    BY ConcatAssociative
  <2> QED
    BY <1>3, <2>1, Zenon
<1>5. h = <<Header(t, Len(p \o q))>>
  BY <1>1, InnerJoined, Zenon
<1>6. FrameOf(t, p \o q) = <<Header(t, Len(p \o q))>> \o (p \o q) \o <<End>>
  BY DEF FrameOf
<1> QED
  BY <1>1, <1>4, <1>5, <1>6, Zenon

LEMMA MethodIsFrame ==
  ASSUME NEW args \in Nat
  PROVE  \E c \in Seq(Inner) : SendMethod(args) = FrameOf(METHOD, c)
<1>1. PICK p, q : p = Fields(MethodHeaderSize) /\ q = Fields(args)
  OBVIOUS
<1>2. MethodHeaderSize \in Nat
  BY SizesAssumption
<1>3. /\ p \in Seq(Inner) /\ q \in Seq(Inner)
      /\ Len(p) = MethodHeaderSize /\ Len(q) = args
  BY <1>1, <1>2, FieldsAre
<1>4. args + MethodHeaderSize = Len(p) + Len(q)
  BY <1>2, <1>3
<1>5. METHOD \in Types
  BY DEF METHOD, Types
<1>6. SendMethod(args) = FrameOf(METHOD, p \o q)
  BY <1>1, <1>3, <1>4, <1>5, PartsAreFrame, Zenon DEF SendMethod
<1> QED
  BY <1>3, <1>6, InnerJoined, Zenon

LEMMA ContentHeaderIsFrame ==
  ASSUME NEW n \in Nat, NEW flags
  PROVE  \E c \in Seq(Inner) : /\ SendContentHeader(n, flags) = FrameOf(CONTENT_HEADER, c)
                               /\ c[1] = <<"size", SwipeEndianness(n)>>
<1>1. PICK x, bits : x = <<"size", SwipeEndianness(n)>> /\ bits = BitCardinality16(flags)
  OBVIOUS
<1>2. bits \in Nat
  <2>1. IsFiniteSet(0..15)
    <3>1. 0 \in Int /\ 15 \in Int
      OBVIOUS
    <3> QED
      BY <3>1, FS_Interval, Zenon
  <2>2. IsFiniteSet({i \in 0..15 : (flags \div 2^i) % 2 = 1})
    BY <2>1, FS_Subset
  <2> QED
    BY <1>1, <2>2, FS_CardinalityType DEF BitCardinality16
<1>3. x \in Inner
  <2>1. SwipeEndianness(n) \in Int
    BY DeliveryAssumption DEF SwipeEndianness
  <2> QED
    BY <1>1, <2>1 DEF Inner
<1>4. PICK a, p, q : a = <<x>> /\ p = Fields(ContentHeaderSize - 1) /\ q = Fields(bits)
  OBVIOUS
<1>5. ContentHeaderSize \in Nat /\ ContentHeaderSize - 1 \in Nat
  BY SizesAssumption
<1>6. /\ a \in Seq(Inner) /\ Len(a) = 1 /\ a # <<>> /\ a[1] = x
      /\ p \in Seq(Inner) /\ Len(p) = ContentHeaderSize - 1
      /\ q \in Seq(Inner) /\ Len(q) = bits
  <2>1. a \in Seq(Inner) /\ Len(a) = 1 /\ a # <<>> /\ a[1] = x
    BY <1>3, <1>4
  <2> QED
    BY <1>2, <1>4, <1>5, <2>1, FieldsAre
<1>7. PICK b : b = a \o p
  OBVIOUS
<1>8. b \in Seq(Inner) /\ Len(b) = Len(a) + Len(p) /\ b[1] = x
  BY <1>6, <1>7, InnerJoined, Zenon
<1>9. Len(b) + Len(q) = ContentHeaderSize + bits
  BY <1>2, <1>5, <1>6, <1>8
<1>10. b # <<>>
  BY <1>5, <1>6, <1>8
<1>11. b \o q \in Seq(Inner) /\ (b \o q)[1] = x
  BY <1>6, <1>8, <1>10, InnerJoined, Zenon
<1>12. CONTENT_HEADER \in Types
  BY DEF CONTENT_HEADER, Types
<1>13. PICK h : h = Header(CONTENT_HEADER, ContentHeaderSize + bits)
  OBVIOUS
<1>14. <<h, x>> = <<h>> \o a
  BY <1>4
<1>15. (<<h>> \o a) \o p = <<h>> \o b
  <2>1. h \in Tokens
    BY <1>2, <1>5, <1>12, <1>13, TokensDiffer
  <2>2. Inner \subseteq Tokens
    BY TokensDiffer
  <2>3. a \in Seq(Tokens) /\ p \in Seq(Tokens) /\ <<h>> \in Seq(Tokens)
    BY <1>6, <2>1, <2>2
  <2> QED
    <3>1. \A u, v, w \in Seq(Tokens) : (u \o v) \o w = u \o (v \o w)
      BY ConcatAssociative
    <3> QED
      BY <1>7, <2>3, <3>1, Zenon
<1>16. <<h>> \o b \o q \o <<End>> = FrameOf(CONTENT_HEADER, b \o q)
  BY <1>6, <1>8, <1>9, <1>12, <1>13, PartsAreFrame, Zenon
<1>17. SendContentHeader(n, flags) = <<h, x>> \o p \o q \o <<End>>
  BY <1>1, <1>4, <1>13, Zenon DEF SendContentHeader
<1>18. SendContentHeader(n, flags) = FrameOf(CONTENT_HEADER, b \o q)
  BY <1>14, <1>15, <1>16, <1>17, Zenon
<1> QED
  BY <1>1, <1>11, <1>18, Zenon

LEMMA BodyIsFrame ==
  ASSUME NEW s \in Seq(Int)
  PROVE  SendBody(s) = FrameOf(BODY, Bytes(s))
<1>1. Len(Bytes(s)) = Len(s)
  BY BytesAre
<1> QED
  BY <1>1, Zenon DEF SendBody, FrameOf

\* The three frames of delivery i hold the body s.
ThreeFrames(fr, i, s) ==
  /\ fr[3 * i - 2].type = METHOD
  /\ fr[3 * i - 1].type = CONTENT_HEADER
  /\ fr[3 * i - 1].content[1] = <<"size", SwipeEndianness(Len(s))>>
  /\ fr[3 * i] = [type |-> BODY, content |-> Bytes(s)]

\* The property flags of every delivery.
DeliverFlags == 4096

\* Three frames behind what has been sent.
LEMMA ThreeAppended ==
  ASSUME NEW fr, NEW at, Framed(out, fr, at),
         NEW c \in Seq(Inner), NEW e \in Seq(Inner), NEW b \in Seq(Inner),
         NEW r1, r1 = [type |-> METHOD, content |-> c],
         NEW r2, r2 = [type |-> CONTENT_HEADER, content |-> e],
         NEW r3, r3 = [type |-> BODY, content |-> b],
         NEW f1, f1 = Append(fr, r1), NEW f2, f2 = Append(f1, r2)
  PROVE  \E at2 : /\ Framed(out \o FrameOf(METHOD, c) \o FrameOf(CONTENT_HEADER, e)
                                \o FrameOf(BODY, b), Append(f2, r3), at2)
                  /\ f1 \in Seq(FrameRecords) /\ f2 \in Seq(FrameRecords)
<1>1. METHOD \in Types /\ CONTENT_HEADER \in Types /\ BODY \in Types
  BY DEF METHOD, CONTENT_HEADER, BODY, Types
<1>2. PICK o1, o2, o3 : /\ o1 = out \o FrameOf(METHOD, c)
                        /\ o2 = o1 \o FrameOf(CONTENT_HEADER, e)
                        /\ o3 = o2 \o FrameOf(BODY, b)
  OBVIOUS
<1>3. PICK at1 : Framed(o1, f1, at1)
  BY <1>1, <1>2, FramedAppend
<1>4. PICK at2 : Framed(o2, f2, at2)
  BY <1>1, <1>2, <1>3, FramedAppend
<1>5. PICK at3 : Framed(o3, Append(f2, r3), at3)
  BY <1>1, <1>2, <1>4, FramedAppend
<1>6. f1 \in Seq(FrameRecords) /\ f2 \in Seq(FrameRecords)
  BY <1>3, <1>4 DEF Framed
<1> QED
  BY <1>2, <1>5, <1>6

\* A delivery adds the three frames of its body, and no other change.
LEMMA DeliveryAdds ==
  ASSUME NEW fr, NEW at, Framed(out, fr, at), NEW s \in Seq(Int), NEW o2,
         o2 = out \o SendMethod(DeliverArgsSize)
                  \o SendContentHeader(Len(s), DeliverFlags) \o SendBody(s),
         NEW d \in Nat, Len(fr) = 3 * d
  PROVE  \E fr2, at2 : /\ Framed(o2, fr2, at2) /\ Len(fr2) = 3 * (d + 1)
                       /\ \A m \in 1..Len(fr) : fr2[m] = fr[m]
                       /\ ThreeFrames(fr2, d + 1, s)
<1>1. PICK c \in Seq(Inner) : SendMethod(DeliverArgsSize) = FrameOf(METHOD, c)
  BY DeliveryAssumption, MethodIsFrame
<1>2. PICK e \in Seq(Inner) :
        /\ SendContentHeader(Len(s), DeliverFlags) = FrameOf(CONTENT_HEADER, e)
        /\ e[1] = <<"size", SwipeEndianness(Len(s))>>
  <2>1. Len(s) \in Nat
    OBVIOUS
  <2> QED
    BY <2>1, ContentHeaderIsFrame, Zenon
<1>3. PICK b \in Seq(Inner) : b = Bytes(s) /\ SendBody(s) = FrameOf(BODY, b)
  BY BytesAre, BodyIsFrame
<1>4. METHOD \in Types /\ CONTENT_HEADER \in Types /\ BODY \in Types
  BY DEF METHOD, CONTENT_HEADER, BODY, Types
<1>5. PICK r1, r2, r3 : /\ r1 = [type |-> METHOD, content |-> c]
                        /\ r2 = [type |-> CONTENT_HEADER, content |-> e]
                        /\ r3 = [type |-> BODY, content |-> b]
  OBVIOUS
<1>6. r1 \in FrameRecords /\ r2 \in FrameRecords /\ r3 \in FrameRecords
  BY <1>4, <1>5 DEF FrameRecords
<1>7. PICK f1, f2, f3 : f1 = Append(fr, r1) /\ f2 = Append(f1, r2) /\ f3 = Append(f2, r3)
  OBVIOUS
<1>11. o2 = out \o FrameOf(METHOD, c) \o FrameOf(CONTENT_HEADER, e) \o FrameOf(BODY, b)
  BY <1>1, <1>2, <1>3
<1>12. PICK at3 : /\ Framed(o2, f3, at3)
                  /\ f1 \in Seq(FrameRecords) /\ f2 \in Seq(FrameRecords)
  <2> DEFINE sent == out \o FrameOf(METHOD, c) \o FrameOf(CONTENT_HEADER, e)
                     \o FrameOf(BODY, b)
  <2>1. \E at3 : /\ Framed(sent, Append(f2, r3), at3)
                 /\ f1 \in Seq(FrameRecords) /\ f2 \in Seq(FrameRecords)
    BY <1>5, <1>7, ThreeAppended
  <2> HIDE DEF sent
  <2> QED
    BY <1>7, <1>11, <2>1 DEF sent
<1>13. fr \in Seq(FrameRecords) /\ f1 \in Seq(FrameRecords) /\ f2 \in Seq(FrameRecords)
  BY <1>12 DEF Framed
<1>14. PICK n \in Nat : n = Len(fr)
  BY <1>13
<1>15. Len(f1) = n + 1 /\ f1[n + 1] = r1 /\ \A m \in 1..n : f1[m] = fr[m]
  BY <1>6, <1>7, <1>13, <1>14, AppendProperties
<1>16. Len(f2) = n + 2 /\ f2[n + 2] = r2 /\ \A m \in 1..n + 1 : f2[m] = f1[m]
  <2>1. Len(f2) = Len(f1) + 1 /\ f2[Len(f1) + 1] = r2 /\ \A m \in 1..Len(f1) : f2[m] = f1[m]
    BY <1>6, <1>7, <1>13, AppendProperties
  <2>2. (n + 1) + 1 = n + 2
    OBVIOUS
  <2> QED
    BY <1>15, <2>1, <2>2
<1>17. Len(f3) = n + 3 /\ f3[n + 3] = r3 /\ \A m \in 1..n + 2 : f3[m] = f2[m]
  <2>1. Len(f3) = Len(f2) + 1 /\ f3[Len(f2) + 1] = r3 /\ \A m \in 1..Len(f2) : f3[m] = f2[m]
    BY <1>6, <1>7, <1>13, AppendProperties
  <2>2. (n + 2) + 1 = n + 3
    OBVIOUS
  <2> QED
    BY <1>16, <2>1, <2>2
<1>18. \A m \in 1..n : f3[m] = fr[m]
  <2>1. \A m \in 1..n : m \in 1..n + 1 /\ m \in 1..n + 2
    OBVIOUS
  <2> QED
    BY <1>15, <1>16, <1>17, <2>1
<1>19. f3[n + 1] = r1 /\ f3[n + 2] = r2 /\ f3[n + 3] = r3
  <2>1. n + 1 \in 1..n + 1 /\ n + 1 \in 1..n + 2 /\ n + 2 \in 1..n + 2
    OBVIOUS
  <2> QED
    BY <1>15, <1>16, <1>17, <2>1
<1>20. /\ 3 * (d + 1) = n + 3 /\ 3 * (d + 1) - 1 = n + 2 /\ 3 * (d + 1) - 2 = n + 1
  BY <1>14
<1>21. ThreeFrames(f3, d + 1, s)
  <2>1. f3[3 * (d + 1) - 2] = r1 /\ f3[3 * (d + 1) - 1] = r2 /\ f3[3 * (d + 1)] = r3
    BY <1>19, <1>20, Zenon
  <2>2. /\ r1.type = METHOD /\ r2.type = CONTENT_HEADER /\ r2.content = e
        /\ r3 = [type |-> BODY, content |-> Bytes(s)]
    BY <1>3, <1>5
  <2> QED
    BY <1>2, <2>1, <2>2, Zenon DEF ThreeFrames
<1> QED
  BY <1>12, <1>14, <1>17, <1>18, <1>20, <1>21

-----------------------------------------------------------------------------
\* What the state machine is handed as a body ends with the 0 of read_body.
Ended == pc = "handed" /\ handed = "body" => parsed[length] = Nul

LEMMA EndedNext == ReadInv /\ FrameInv /\ Ended /\ [Next]_vars => Ended'
<1> SUFFICES ASSUME ReadInv, FrameInv, Ended, [Next]_vars PROVE Ended'
  OBVIOUS
<1>1. CASE UNCHANGED <<pc, handed, parsed, length>>
  BY <1>1 DEF Ended
<1>2. CASE pc' # "handed" \/ handed' # "body"
  BY <1>2 DEF Ended
<1>3. CASE ReadBody /\ pc' = "handed"
  <2>1. parsed' = Terminated(Copied(ret)) /\ length' = length
    BY <1>3 DEF ReadBody
  <2>2. Copied(ret) \in [0..MaxSize - 1 -> Int]
    BY BytesCopied
  <2>3. length \in 0..MaxSize - 1
    BY SizesAssumption, WordAssumption DEF ReadInv, FrameTypes
  <2> QED
    BY <2>1, <2>2, <2>3 DEF Ended, Terminated
<1>4. CASE Read \/ Fail
  BY <1>4, <1>1, <1>2 DEF Read, Fail
<1>5. CASE Parse
  BY <1>2, <1>3, <1>5 DEF Parse, ReadMessageHeader, ReadAs, Fail, ReadMethod, ReadMethodEnd,
     ReadContentHeader, ReadContentEnd, ReadBody
<1>6. CASE NextFrame
  BY <1>2, <1>6 DEF NextFrame
<1> QED
  BY <1>1, <1>4, <1>5, <1>6 DEF Next, Enqueue, Deliver, vars, readerVars, frameVars

LEMMA EndedInvariant == Spec => [](ReadInv /\ FrameInv /\ Ended)
<1>1. Init => Ended
  BY DEF Init, FramesInit, Ended
<1> QED
  BY <1>1, EndedNext, ReadInvInit, ReadInvNext, FrameInvInit, FrameInvNext, PTL DEF Spec

\* So a C string is found in it: the bytes before its first zero byte.
LEMMA StringIs ==
  ASSUME ReadInv, FrameInv, parsed[length] = Nul
  PROVE  \E c \in 0..length :
           /\ StringAt(parsed) = [k \in 1..c |-> parsed[k - 1]]
           /\ \A j \in 0..c - 1 : parsed[j] \notin Zeros \cup {Nul}
           /\ parsed[c] \in Zeros \cup {Nul}
<1> DEFINE bad == {j \in 0..length : parsed[j] \in Zeros \cup {Nul}}
           inside == {n \in DOMAIN parsed : \A k \in 0..n : parsed[k] \notin Zeros \cup {Nul}}
<1>1. /\ length \in Nat /\ length \in 0..MaxSize - 1 /\ MaxSize \in Nat
      /\ DOMAIN parsed = 0..MaxSize - 1
  BY SizesAssumption, WordAssumption DEF ReadInv, FrameTypes, FrameInv
<1>2. PICK c \in bad : \A m \in bad : c <= m
  <2>1. bad \subseteq Nat /\ length \in bad
    BY <1>1
  <2> HIDE DEF bad
  <2> QED
    BY <2>1, LeastNumber
<1>3. c \in 0..length /\ parsed[c] \in Zeros \cup {Nul}
  BY <1>2
<1>4. \A j \in 0..c - 1 : parsed[j] \notin Zeros \cup {Nul}
  <2> SUFFICES ASSUME NEW j \in 0..c - 1, parsed[j] \in Zeros \cup {Nul} PROVE FALSE
    OBVIOUS
  <2>1. j \in 0..length /\ j < c
    BY <1>1, <1>3
  <2> QED
    BY <1>1, <1>2, <1>3, <2>1
<1>5. inside = 0..c - 1
  <2>1. ASSUME NEW n \in inside PROVE n \in 0..c - 1
    <3>1. n \in Nat /\ (c <= n => c \in 0..n)
      BY <1>1, <1>3
    <3> QED
      BY <1>3, <2>1, <3>1
  <2>2. ASSUME NEW n \in 0..c - 1 PROVE n \in inside
    <3>1. n \in DOMAIN parsed /\ 0..n \subseteq 0..c - 1
      BY <1>1, <1>3
    <3> QED
      BY <1>4, <3>1
  <2> QED
    BY <2>1, <2>2
<1>6. Cardinality(inside) = c
  <2>1. c \in Nat /\ 0 \in Int /\ c - 1 \in Int
    BY <1>3
  <2>2. Cardinality(0..c - 1) = IF 0 > c - 1 THEN 0 ELSE (c - 1) - 0 + 1
    BY <2>1, FS_Interval, Zenon
  <2>3. Cardinality(0..c - 1) = c
    BY <2>1, <2>2
  <2> QED
    BY <1>5, <2>3, Zenon
<1>7. StringAt(parsed) = [k \in 1..c |-> parsed[k - 1]]
  BY <1>6, Zenon DEF StringAt
<1> QED
  BY <1>3, <1>4, <1>7

-----------------------------------------------------------------------------
(***************************************************************************)
(* The whole way: `all' are the bodies that were ever enqueued, the last   *)
(* of them still in the queue, and the frames that were sent are those of  *)
(* the others, three for each.                                             *)
(***************************************************************************)
\* s is a payload of l bytes that begins behind byte b, up to a zero byte.
CutOf(s, b, l) ==
  /\ s \in Seq(Int) /\ Len(s) <= l
  /\ \A j \in 1..Len(s) : s[j] = b + j /\ b + j \notin Zeros
  /\ Len(s) < l => b + Len(s) + 1 \in Zeros

\* It is one of frame k of the frames fs, which begin where `first' says.
FrameCut(s, k, fs, first) ==
  k \in 1..Len(fs) /\ CutOf(s, first[k] + HeaderSize, fs[k].length)

Gone == Len(origins) - Len(nodes)

Accounts(all, fr, at) ==
  /\ all \in Seq(Seq(Int)) /\ Len(all) = Len(origins) /\ Len(nodes) <= Len(origins)
  /\ \A i \in 1..Len(nodes) : nodes[i] = all[Gone + i]
  /\ \A i \in 1..Len(origins) : origins[i] # 0 => FrameCut(all[i], origins[i], frames, Begin)
  /\ Framed(out, fr, at) /\ Len(fr) = 3 * Gone
  /\ \A i \in 1..Gone : ThreeFrames(fr, i, all[i])

DeliveryInv ==
  /\ nodes \in Seq(Seq(Int)) /\ origins \in Seq(Nat)
  /\ \E all, fr, at : Accounts(all, fr, at)

\* What is enqueued is a part of the frame that it is said to come from.
LEMMA EnqueuedIsCut ==
  ASSUME ReadInv, FrameInv, Ended, pc = "handed", handed = "body"
  PROVE  /\ StringAt(parsed) \in Seq(Int) /\ Origin \in Nat
         /\ Origin # 0 => FrameCut(StringAt(parsed), Origin, frames, Begin)
<1>1. PICK c \in 0..length :
        /\ StringAt(parsed) = [k \in 1..c |-> parsed[k - 1]]
        /\ \A j \in 0..c - 1 : parsed[j] \notin Zeros \cup {Nul}
        /\ parsed[c] \in Zeros \cup {Nul}
  BY StringIs DEF Ended
<1>2. PICK n \in Nat : frames \in [1..n -> Headers]
  BY DEF FrameInv
<1>3. FramesAre(n)
  BY <1>2, FramesKnown
<1>4. c \in Nat /\ c <= length /\ length \in 0..MaxPayload
  BY DEF ReadInv, FrameTypes
<1>5. PICK s : s = StringAt(parsed)
  OBVIOUS
<1>6. s \in Seq(Int) /\ Len(s) = c /\ \A k \in 1..c : s[k] = parsed[k - 1]
  <2>1. \A k \in 1..c : k - 1 \in 0..MaxSize - 1
    BY <1>4, Sizes
  <2>2. \A k \in 1..c : parsed[k - 1] \in Int
    BY <2>1 DEF FrameInv
  <2> QED
    BY <1>1, <1>4, <1>5, <2>2
<1>7. CASE failures > 0 \/ closed \/ ~\E k \in 1..Len(frames) : got = Begin[k + 1]
  <2>1. Origin = 0
    BY <1>7 DEF Origin
  <2> QED
    BY <1>5, <1>6, <2>1
<1>8. CASE ~(failures > 0 \/ closed \/ ~\E k \in 1..Len(frames) : got = Begin[k + 1])
  <2>1. failures = 0 /\ ~closed
    BY <1>8 DEF FrameInv
  <2>2. PICK k \in 1..n : Holds(k) /\ got = Begin[k + 1]
    BY <1>3, <2>1 DEF FrameInv, InPlace, InFrame, FramesAre
  <2>3. PICK o : o = Origin
    OBVIOUS
  <2>4. o \in 1..n /\ got = Begin[o + 1]
    <3>1. Origin = CHOOSE m \in 1..Len(frames) : got = Begin[m + 1]
      BY <1>8 DEF Origin
    <3>2. Len(frames) = n
      BY <1>3 DEF FramesAre
    <3> QED
      BY <2>2, <2>3, <3>1, <3>2
  <2>5. o = k
    <3>1. o + 1 \in 1..n + 1 /\ k + 1 \in 1..n + 1
      BY <2>4
    <3>2. Begin[o + 1] \in Nat /\ HeaderSize \in Nat
      BY <1>3, <3>1, SizesAssumption DEF FramesAre
    <3>3. ~(o + 1 < k + 1) /\ ~(k + 1 < o + 1)
      <4>1. ASSUME NEW i \in 1..n + 1, NEW j \in 1..n + 1, i < j, Begin[i] = Begin[j],
                   Begin[i] \in Nat
            PROVE FALSE
        <5>1. Begin[i] + HeaderSize < Begin[j]
          BY <1>2, <4>1, BeginGrows
        <5> QED
          BY <3>2, <4>1, <5>1
      <4> QED
        BY <2>2, <2>4, <3>1, <3>2, <4>1
    <3> QED
      BY <2>4, <3>3
  <2>6. PICK b, l : b = Payload(k) /\ l = frames[k].length
    OBVIOUS
  <2>7. b \in Nat /\ l \in Nat /\ l = length
        /\ \A j \in 0..l - 1 : parsed[j] = b + 1 + j
    <3>1. Begin[k] \in Nat /\ HeaderSize \in Nat /\ l \in Nat
      BY <1>3, <2>6, SizesAssumption DEF FramesAre
    <3> QED
      BY <2>2, <2>6, <3>1 DEF Holds, Payload
  <2>8. \A j \in 1..c : s[j] = b + j /\ b + j \notin Zeros
    <3> SUFFICES ASSUME NEW j \in 1..c PROVE s[j] = b + j /\ b + j \notin Zeros
      OBVIOUS
    <3>1. j - 1 \in 0..l - 1 /\ j - 1 \in 0..c - 1 /\ b + 1 + (j - 1) = b + j
      BY <1>4, <2>7
    <3>2. parsed[j - 1] = b + j
      BY <2>7, <3>1
    <3> QED
      BY <1>1, <1>6, <3>1, <3>2
  <2>9. ASSUME c < l PROVE b + c + 1 \in Zeros
    <3>1. c \in 0..l - 1 /\ b + 1 + c = b + c + 1 /\ b + c + 1 # -1
      BY <1>4, <2>7, <2>9
    <3>2. parsed[c] = b + c + 1
      BY <2>7, <3>1
    <3> QED
      BY <1>1, <3>1, <3>2 DEF Nul
  <2>10. CutOf(s, b, l)
    BY <1>4, <1>6, <2>7, <2>8, <2>9 DEF CutOf
  <2>11. n = Len(frames) /\ o \in Nat
    BY <1>3, <2>4 DEF FramesAre
  <2> QED
    BY <1>5, <1>6, <2>3, <2>4, <2>5, <2>6, <2>10, <2>11 DEF FrameCut, Payload
<1> QED
  BY <1>7, <1>8

LEMMA EnqueueAccounts ==
  ASSUME ReadInv, FrameInv, Ended, DeliveryInv, Enqueue
  PROVE  DeliveryInv'
<1>1. PICK s, o : s = StringAt(parsed) /\ o = Origin
  OBVIOUS
<1>2. /\ nodes' = Append(nodes, s) /\ origins' = Append(origins, o)
      /\ out' = out /\ frames' = frames /\ Begin' = Begin
      /\ pc = "handed" /\ handed = "body"
  BY <1>1, FramesStay DEF Enqueue, NextFrame
<1>3. s \in Seq(Int) /\ o \in Nat /\ (o # 0 => FrameCut(s, o, frames, Begin))
  BY <1>1, <1>2, EnqueuedIsCut, Zenon
<1>4. PICK all, fr, at : Accounts(all, fr, at)
  BY DEF DeliveryInv
<1>5. PICK q, z, g : q = Len(nodes) /\ z = Len(origins) /\ g = Gone
  OBVIOUS
<1>6. /\ q \in Nat /\ z \in Nat /\ q <= z /\ g = z - q /\ g \in Nat
      /\ nodes \in Seq(Seq(Int)) /\ origins \in Seq(Nat) /\ all \in Seq(Seq(Int))
      /\ Len(all) = z
  BY <1>4, <1>5 DEF DeliveryInv, Accounts, Gone
<1>7. PICK all2 : all2 = Append(all, s)
  OBVIOUS
<1>8. /\ all2 \in Seq(Seq(Int)) /\ Len(all2) = z + 1 /\ all2[z + 1] = s
      /\ \A i \in 1..z : all2[i] = all[i]
  BY <1>3, <1>6, <1>7, AppendProperties
<1>9. /\ nodes' \in Seq(Seq(Int)) /\ Len(nodes') = q + 1 /\ nodes'[q + 1] = s
      /\ \A i \in 1..q : nodes'[i] = nodes[i]
  BY <1>2, <1>3, <1>5, <1>6, AppendProperties
<1>10. /\ origins' \in Seq(Nat) /\ Len(origins') = z + 1 /\ origins'[z + 1] = o
       /\ \A i \in 1..z : origins'[i] = origins[i]
  BY <1>2, <1>3, <1>5, <1>6, AppendProperties
<1>11. Gone' = g
  <2>1. (z + 1) - (q + 1) = g
    BY <1>6
  <2> QED
    BY <1>9, <1>10, <2>1 DEF Gone
<1>12. ASSUME NEW i \in 1..q + 1 PROVE nodes'[i] = all2[g + i]
  <2>1. CASE i = q + 1
    <3>1. g + i = z + 1
      BY <1>6, <2>1
    <3> QED
      BY <1>8, <1>9, <2>1, <3>1
  <2>2. CASE i # q + 1
    <3>1. i \in 1..q /\ g + i \in 1..z
      BY <1>6, <2>2
    <3>2. nodes[i] = all[g + i]
      BY <1>4, <1>5, <3>1 DEF Accounts
    <3> QED
      BY <1>8, <1>9, <3>1, <3>2
  <2> QED
    BY <2>1, <2>2
<1>13. ASSUME NEW i \in 1..z + 1, origins'[i] # 0
       PROVE  FrameCut(all2[i], origins'[i], frames, Begin)
  <2>1. CASE i = z + 1
    BY <1>3, <1>8, <1>10, <1>13, <2>1
  <2>2. CASE i # z + 1
    <3>1. i \in 1..z
      BY <1>6, <2>2
    <3>2. all2[i] = all[i] /\ origins'[i] = origins[i]
      BY <1>8, <1>10, <3>1
    <3> QED
      BY <1>4, <1>5, <1>13, <3>1, <3>2 DEF Accounts
  <2> QED
    BY <2>1, <2>2
<1>14. Framed(out, fr, at)' /\ Len(fr) = 3 * g
  BY <1>2, <1>4, <1>5 DEF Accounts
<1>15. \A i \in 1..g : ThreeFrames(fr, i, all2[i])
  <2>1. \A i \in 1..g : i \in 1..z
    BY <1>6
  <2> QED
    BY <1>4, <1>5, <1>8, <2>1 DEF Accounts
<1>16. q + 1 <= z + 1
  BY <1>6
<1>17. Accounts(all2, fr, at)'
  BY <1>2, <1>8, <1>9, <1>10, <1>11, <1>12, <1>13, <1>14, <1>15, <1>16 DEF Accounts
<1> QED
  BY <1>9, <1>10, <1>17 DEF DeliveryInv

LEMMA DeliverAccounts ==
  ASSUME DeliveryInv, Deliver
  PROVE  DeliveryInv'
<1>1. PICK all, fr, at : Accounts(all, fr, at)
  BY DEF DeliveryInv
<1>2. PICK q, z, g : q = Len(nodes) /\ z = Len(origins) /\ g = Gone
  OBVIOUS
<1>3. /\ q \in Nat /\ z \in Nat /\ q <= z /\ g = z - q /\ g \in Nat
      /\ nodes \in Seq(Seq(Int)) /\ origins \in Seq(Nat) /\ all \in Seq(Seq(Int))
  BY <1>1, <1>2 DEF DeliveryInv, Accounts, Gone
<1>4. nodes # <<>> /\ UNCHANGED <<origins, frames>> /\ Begin' = Begin
  BY FramesStay DEF Deliver, readerVars, frameVars
<1>5. q >= 1
  BY <1>2, <1>3, <1>4
<1>6. PICK s : s = Head(nodes)
  OBVIOUS
<1>7. s \in Seq(Int) /\ s = nodes[1] /\ s = all[g + 1]
  <2>1. 1 \in 1..q
    BY <1>3, <1>5
  <2>2. s = nodes[1] /\ nodes[1] \in Seq(Int)
    BY <1>2, <1>3, <1>6, <2>1
  <2> QED
    BY <1>1, <1>2, <2>1, <2>2 DEF Accounts
<1>8. /\ nodes' \in Seq(Seq(Int)) /\ Len(nodes') = q - 1
      /\ \A i \in 1..q - 1 : nodes'[i] = nodes[i + 1]
  <2>1. nodes' = Tail(nodes)
    BY DEF Deliver
  <2>2. /\ nodes' \in Seq(Seq(Int)) /\ Len(nodes') = Len(nodes) - 1
        /\ \A i \in 1..Len(nodes') : nodes'[i] = nodes[i + 1]
    BY <1>3, <1>4, <2>1, HeadTailProperties, Zenon
  <2> QED
    BY <1>2, <2>2
<1>9. Gone' = g + 1
  <2>1. z - (q - 1) = g + 1
    BY <1>3
  <2> QED
    BY <1>2, <1>4, <1>8, <2>1 DEF Gone
<1>10. PICK fr2, at2 : /\ Framed(out', fr2, at2) /\ Len(fr2) = 3 * (g + 1)
                       /\ \A m \in 1..Len(fr) : fr2[m] = fr[m]
                       /\ ThreeFrames(fr2, g + 1, s)
  <2>1. PICK o2 : o2 = out'
    OBVIOUS
  <2>2. o2 = out \o SendMethod(DeliverArgsSize)
                 \o SendContentHeader(Len(s), DeliverFlags) \o SendBody(s)
    BY <1>6, <2>1 DEF Deliver, DeliverFlags
  <2>3. Framed(out, fr, at) /\ Len(fr) = 3 * g
    BY <1>1, <1>2 DEF Accounts
  <2>4. \E fr2, at2 : /\ Framed(o2, fr2, at2) /\ Len(fr2) = 3 * (g + 1)
                      /\ \A m \in 1..Len(fr) : fr2[m] = fr[m]
                      /\ ThreeFrames(fr2, g + 1, s)
    <3>1. g \in Nat /\ s \in Seq(Int)
      BY <1>3, <1>7
    <3> QED
      BY <2>2, <2>3, <3>1, DeliveryAdds
  <2> QED
    BY <2>1, <2>4
<1>11. \A i \in 1..q - 1 : nodes'[i] = all[(g + 1) + i]
  <2> SUFFICES ASSUME NEW i \in 1..q - 1 PROVE nodes'[i] = all[(g + 1) + i]
    OBVIOUS
  <2>1. i + 1 \in 1..q /\ g + (i + 1) = (g + 1) + i
    BY <1>3
  <2>2. nodes[i + 1] = all[g + (i + 1)]
    BY <1>1, <1>2, <2>1 DEF Accounts
  <2> QED
    BY <1>8, <2>1, <2>2
<1>12. ASSUME NEW i \in 1..g + 1 PROVE ThreeFrames(fr2, i, all[i])
  <2>1. CASE i = g + 1
    BY <1>7, <1>10, <2>1
  <2>2. CASE i # g + 1
    <3>1. i \in 1..g
      BY <1>3, <2>2
    <3>2. Len(fr) = 3 * g /\ ThreeFrames(fr, i, all[i])
      BY <1>1, <1>2, <3>1 DEF Accounts
    <3>3. 3 * i \in 1..3 * g /\ 3 * i - 1 \in 1..3 * g /\ 3 * i - 2 \in 1..3 * g
      BY <1>3, <3>1
    <3>4. /\ fr2[3 * i] = fr[3 * i] /\ fr2[3 * i - 1] = fr[3 * i - 1]
          /\ fr2[3 * i - 2] = fr[3 * i - 2]
      BY <1>10, <3>2, <3>3
    <3> QED
      BY <3>2, <3>4 DEF ThreeFrames
  <2> QED
    BY <2>1, <2>2
<1>13. q - 1 <= z
  BY <1>3
<1>14. /\ Len(all) = z
       /\ \A i \in 1..z : origins[i] # 0 => FrameCut(all[i], origins[i], frames, Begin)
  BY <1>1, <1>2 DEF Accounts
<1>15. Accounts(all, fr2, at2)'
  BY <1>2, <1>3, <1>4, <1>8, <1>9, <1>10, <1>11, <1>12, <1>13, <1>14 DEF Accounts
<1> QED
  BY <1>3, <1>4, <1>8, <1>15 DEF DeliveryInv

LEMMA DeliveryInvInit == Init => DeliveryInv
<1> SUFFICES ASSUME Init PROVE DeliveryInv
  OBVIOUS
<1>1. nodes = <<>> /\ out = <<>> /\ origins = <<>>
  BY DEF Init
<1>2. PICK e : e = <<>>
  OBVIOUS
<1>3. PICK at : at = [m \in 1..0 + 1 |-> 1]
  OBVIOUS
<1>4. /\ nodes = e /\ out = e /\ origins = e /\ Len(e) = 0
      /\ e \in Seq(Tokens) /\ e \in Seq(FrameRecords) /\ e \in Seq(Nat)
      /\ e \in Seq(Seq(Int))
  BY <1>1, <1>2
<1>5. Gone = 0
  BY <1>4 DEF Gone
<1>6. Framed(out, e, at)
  <2>1. at \in [1..0 + 1 -> Nat] /\ at[1] = 1 /\ at[0 + 1] = 0 + 1
    BY <1>3
  <2>2. \A j, k \in 1..0 + 1 : ~(j < k)
    OBVIOUS
  <2>3. \A m \in 1..0 : FALSE
    OBVIOUS
  <2> QED
    BY <1>4, <2>1, <2>2, <2>3 DEF Framed
<1>7. Accounts(e, e, at)
  BY <1>4, <1>5, <1>6 DEF Accounts
<1> QED
  BY <1>4, <1>7 DEF DeliveryInv

LEMMA DeliveryInvNext ==
  ReadInv /\ FrameInv /\ Ended /\ DeliveryInv /\ [Next]_vars => DeliveryInv'
<1> SUFFICES ASSUME ReadInv, FrameInv, Ended, DeliveryInv, [Next]_vars PROVE DeliveryInv'
  OBVIOUS
<1>1. CASE Enqueue
  BY <1>1, EnqueueAccounts
<1>2. CASE Deliver
  BY <1>2, DeliverAccounts
<1>3. CASE UNCHANGED deliveryVars /\ UNCHANGED frames
  <2>1. nodes' = nodes /\ out' = out /\ origins' = origins /\ frames' = frames
        /\ Begin' = Begin
    BY <1>3, FramesStay DEF deliveryVars
  <2>2. PICK all, fr, at : Accounts(all, fr, at)
    BY DEF DeliveryInv
  <2>3. Accounts(all, fr, at)'
    BY <2>1, <2>2 DEF Accounts, Gone
  <2> QED
    BY <2>1, <2>3 DEF DeliveryInv
<1>4. CASE UNCHANGED vars
  BY <1>3, <1>4 DEF vars, readerVars, frameVars
<1>5. CASE Read \/ Parse \/ NextFrame
  <2>1. UNCHANGED frames
    BY <1>5 DEF Read, Parse, ReadMessageHeader, Fail, ReadMethod, ReadMethodEnd,
       ReadContentHeader, ReadContentEnd, ReadBody, NextFrame
  <2>2. UNCHANGED deliveryVars \/ Enqueue \/ Deliver \/ UNCHANGED vars
    BY DEF Next
  <2> QED
    BY <1>1, <1>2, <1>3, <1>4, <2>1, <2>2
<1> QED
  BY <1>1, <1>2, <1>4, <1>5 DEF Next

LEMMA DeliveryInvariant == Spec => []DeliveryInv
<1> QED
  BY EndedInvariant, DeliveryInvInit, DeliveryInvNext, PTL DEF Spec

\* What the client of the consumer has received, by the bodies it was sent.
Arrived(all, d) ==
  /\ d \in Nat /\ Deliveries = 1..d /\ Cardinality(Deliveries) = d
  /\ DOMAIN Received = 1..3 * d
  /\ \A i \in 1..d : /\ ThreeFrames(Received, i, all[i])
                     /\ all[i] \in Seq(Int)
                     /\ origins[i] # 0 => FrameCut(all[i], origins[i], frames, Begin)

LEMMA ReceivedAccounts ==
  ASSUME DeliveryInv
  PROVE  \E all, d : Arrived(all, d)
<1>1. PICK all, fr, at : Accounts(all, fr, at)
  BY DEF DeliveryInv
<1>2. PICK d : d = Gone
  OBVIOUS
<1>3. d \in Nat /\ \A i \in 1..d : i \in 1..Len(origins)
  <2>1. Len(origins) \in Nat /\ Len(nodes) \in Nat /\ Len(nodes) <= Len(origins)
    BY <1>1 DEF DeliveryInv, Accounts
  <2> QED
    BY <1>2, <2>1 DEF Gone
<1>4. Deliveries = 1..d
  BY <1>2 DEF Deliveries, Gone
<1>5. Cardinality(Deliveries) = d
  <2>1. 1 \in Int /\ d \in Int
    BY <1>3
  <2>2. Cardinality(1..d) = IF 1 > d THEN 0 ELSE d - 1 + 1
    BY <2>1, FS_Interval, Zenon
  <2>3. Cardinality(1..d) = d
    BY <1>3, <2>2
  <2> QED
    BY <1>4, <2>3
<1>6. Received = fr
  BY <1>1, ReceivedIs DEF Accounts
<1>7. DOMAIN Received = 1..3 * d
  <2>1. fr \in Seq(FrameRecords) /\ Len(fr) = 3 * d
    BY <1>1, <1>2 DEF Accounts, Framed
  <2> QED
    BY <1>6, <2>1
<1>8. \A i \in 1..d : /\ ThreeFrames(Received, i, all[i])
                      /\ all[i] \in Seq(Int)
                      /\ origins[i] # 0 => FrameCut(all[i], origins[i], frames, Begin)
  BY <1>1, <1>2, <1>3, <1>6 DEF Accounts
<1>9. Arrived(all, d)
  BY <1>3, <1>4, <1>5, <1>7, <1>8 DEF Arrived
<1> QED
  BY <1>9

\* The frames go in threes.
LEMMA InThrees ==
  ASSUME NEW d \in Nat, NEW j \in 1..3 * d
  PROVE  \E i \in 1..d : \/ j = 3 * i - 2 /\ (j - 1) % 3 = 0
                         \/ j = 3 * i - 1 /\ (j - 1) % 3 = 1
                         \/ j = 3 * i /\ (j - 1) % 3 = 2
<1>1. PICK m \in Nat : m = j - 1 /\ m < 3 * d
  <2>1. j - 1 \in Nat /\ j - 1 < 3 * d
    OBVIOUS
  <2> QED
    BY <2>1
<1>2. PICK b, r : b = m \div 3 /\ r = m % 3
  OBVIOUS
<1>3. b \in Nat /\ r \in 0..2 /\ m = 3 * b + r
  BY <1>2
<1>4. b + 1 \in 1..d
  BY <1>1, <1>3
<1>5. j = 3 * b + r + 1
  BY <1>1, <1>3
<1>6. r = 0 \/ r = 1 \/ r = 2
  BY <1>3
<1>7. \/ j = 3 * (b + 1) - 2 /\ r = 0
      \/ j = 3 * (b + 1) - 1 /\ r = 1
      \/ j = 3 * (b + 1) /\ r = 2
  BY <1>3, <1>5, <1>6
<1>8. (j - 1) % 3 = r
  BY <1>1, <1>2
<1> QED
  BY <1>4, <1>7, <1>8

\* The client of a consumer takes apart what it is sent into a method, a
\* content header and a body frame for each message, and the body is what one
\* frame of the publisher held, up to its first zero byte: for any number of
\* frames, any payloads and any zero bytes in them
\* (state_machine.c, action_value_dequeue_received).
THEOREM BodiesArriveWhole == Spec => []DeliveredPrefix
<1>1. FrameInv /\ DeliveryInv => DeliveredPrefix
  <2> SUFFICES ASSUME FrameInv, DeliveryInv PROVE DeliveredPrefix
    OBVIOUS
  <2>1. PICK all, d : Arrived(all, d)
    BY ReceivedAccounts
  <2>0. d \in Nat
    BY <2>1 DEF Arrived
  <2>2. ASSUME NEW j \in 1..3 * d PROVE Received[j].type = 1 + ((j - 1) % 3)
    <3>1. PICK i \in 1..d : \/ j = 3 * i - 2 /\ (j - 1) % 3 = 0
                            \/ j = 3 * i - 1 /\ (j - 1) % 3 = 1
                            \/ j = 3 * i /\ (j - 1) % 3 = 2
      BY <2>0, InThrees
    <3>2. ThreeFrames(Received, i, all[i])
      BY <2>1 DEF Arrived
    <3>3. CASE j = 3 * i - 2 /\ (j - 1) % 3 = 0
      BY <3>2, <3>3 DEF ThreeFrames, METHOD
    <3>4. CASE j = 3 * i - 1 /\ (j - 1) % 3 = 1
      BY <3>2, <3>4 DEF ThreeFrames, CONTENT_HEADER
    <3>5. CASE j = 3 * i /\ (j - 1) % 3 = 2
      BY <3>2, <3>5 DEF ThreeFrames, BODY
    <3> QED
      BY <3>1, <3>3, <3>4, <3>5
  <2>3. [i \in DOMAIN Received |-> Received[i].type]
          = [i \in 1..3 * Cardinality(Deliveries) |-> 1 + ((i - 1) % 3)]
    BY <2>1, <2>2 DEF Arrived
  <2>4. ASSUME NEW i \in Deliveries, origins[i] # 0,
               NEW k, k = origins[i],
               NEW payload, payload = [j \in 1..frames[k].length |-> Begin[k] + HeaderSize + j],
               NEW n, n = Len(Body(i))
        PROVE  /\ n <= Len(payload)
               /\ Body(i) = Bytes(SubSeq(payload, 1, n))
               /\ \A j \in 1..n : payload[j] \notin Zeros
               /\ n < Len(payload) => payload[n + 1] \in Zeros
    <3>1. PICK s \in Seq(Int) : s = all[i] /\ ThreeFrames(Received, i, s)
                                /\ FrameCut(s, k, frames, Begin)
      BY <2>1, <2>4 DEF Arrived
    <3>2. PICK b, l : b = Begin[k] + HeaderSize /\ l = frames[k].length
      OBVIOUS
    <3>3. b \in Nat /\ l \in Nat
      <4>1. PICK m \in Nat : frames \in [1..m -> Headers]
        BY DEF FrameInv
      <4>2. FramesAre(m) /\ k \in 1..m
        BY <3>1, <4>1, FramesKnown DEF FrameCut, FramesAre
      <4>3. Begin[k] \in Nat /\ HeaderSize \in Nat /\ l \in Nat
        BY <3>2, <4>2, SizesAssumption DEF FramesAre
      <4> QED
        BY <3>2, <4>3
    <3>4. payload \in Seq(Int) /\ Len(payload) = l /\ \A j \in 1..l : payload[j] = b + j
      <4>1. payload = [j \in 1..l |-> b + j]
        BY <2>4, <3>2
      <4> QED
        BY <3>3, <4>1
    <3>5. CutOf(s, b, l)
      BY <3>1, <3>2 DEF FrameCut
    <3>6. Body(i) = Bytes(s)
      BY <3>1 DEF Body, ThreeFrames
    <3>7. n = Len(s) /\ n \in Nat /\ n <= l
      BY <2>4, <3>5, <3>6, BytesAre DEF CutOf
    <3>8. /\ \A j \in 1..n : s[j] = b + j /\ b + j \notin Zeros
          /\ n < l => b + n + 1 \in Zeros
      BY <3>5, <3>7 DEF CutOf
    <3>9. \A j \in 1..n : j \in 1..l
      BY <3>3, <3>7
    <3>10. SubSeq(payload, 1, n) = s
      <4>1. PICK t : t = SubSeq(payload, 1, n)
        OBVIOUS
      <4>2. t \in Seq(Int) /\ Len(t) = n /\ \A j \in 1..n : t[j] = payload[j]
        BY <3>3, <3>4, <3>7, <4>1
      <4>3. \A j \in 1..n : t[j] = s[j]
        BY <3>4, <3>8, <3>9, <4>2
      <4>4. t = s
        BY <3>1, <3>7, <4>2, <4>3, SeqEqual
      <4> QED
        BY <4>1, <4>4
    <3>11. \A j \in 1..n : payload[j] \notin Zeros
      BY <3>4, <3>8, <3>9
    <3>12. ASSUME n < l PROVE payload[n + 1] \in Zeros
      <4>1. n + 1 \in 1..l /\ b + (n + 1) = b + n + 1
        BY <3>3, <3>7, <3>12
      <4> QED
        BY <3>4, <3>8, <3>12, <4>1
    <3> QED
      BY <3>4, <3>6, <3>7, <3>10, <3>11, <3>12
  <2>5. ASSUME NEW i \in Deliveries, origins[i] # 0
        PROVE  LET k == origins[i]
                   payload == [j \in 1..frames[k].length |-> Begin[k] + HeaderSize + j]
                   n == Len(Body(i))
               IN /\ n <= Len(payload)
                  /\ Body(i) = Bytes(SubSeq(payload, 1, n))
                  /\ \A j \in 1..n : payload[j] \notin Zeros
                  /\ n < Len(payload) => payload[n + 1] \in Zeros
    <3> DEFINE k == origins[i]
               payload == [j \in 1..frames[k].length |-> Begin[k] + HeaderSize + j]
               n == Len(Body(i))
    <3>1. /\ k = origins[i] /\ n = Len(Body(i))
          /\ payload = [j \in 1..frames[k].length |-> Begin[k] + HeaderSize + j]
      OBVIOUS
    <3>2. /\ n <= Len(payload)
          /\ Body(i) = Bytes(SubSeq(payload, 1, n))
          /\ \A j \in 1..n : payload[j] \notin Zeros
          /\ n < Len(payload) => payload[n + 1] \in Zeros
      <4> HIDE DEF k, payload, n
      <4> QED
        BY <2>4, <2>5, <3>1
    <3> QED
      BY <3>2, Zenon
  <2> QED
    BY <2>3, <2>5, Zenon DEF DeliveredPrefix
<1> QED
  BY <1>1, FrameInvariant, DeliveryInvariant, PTL

=============================================================================
