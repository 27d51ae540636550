------------------------------- MODULE Frames -------------------------------
(***************************************************************************)
(* amqp_message.c, the reading half: the frames of one connection, read    *)
(* with read_until into recvline, parsed or copied into cs->parsed, and    *)
(* handed to the state machine.  A byte is its number in the stream that   *)
(* the client sends, so what a buffer holds says where it came from.       *)
(*                                                                         *)
(* The state machine decides what to expect and does not look at the type  *)
(* of a frame, but where a body may come.  The lengths are scaled down;    *)
(* frames are no longer than the buffers, which is not tested either.      *)
(***************************************************************************)
EXTENDS ReadUntil, Sequences

CONSTANTS
  HeaderSize,         \* sizeof(amqp_message_header), 7 in the code
  MethodHeaderSize,   \* sizeof(amqp_method_header), 4
  ContentHeaderSize,  \* sizeof(amqp_content_header_header), 14
  MaxFrames,          \* how many frames the client sends (a bound)
  MaxPayload,         \* how long they are (a bound)
  MaxFailures         \* how many read()s fail (a bound)

ASSUME SizesAssumption ==
  /\ {HeaderSize, MethodHeaderSize, ContentHeaderSize} \subseteq Nat \ {0}
  /\ MaxPayload \in Nat /\ MaxPayload + MethodHeaderSize <= MaxSize
  /\ HeaderSize <= MaxSize /\ ContentHeaderSize <= MaxSize

VARIABLES
  frames,    \* what the client sends
  pc,        \* where the reader is
  expect,    \* what the state of the machine calls for
  length,    \* message_header.length
  parsed,    \* the bytes in cs->parsed
  handed,    \* what was handed to the machine last
  failures   \* history: how many read()s have failed

frameVars == <<frames, pc, expect, length, parsed, handed, failures>>
readerVars == <<ruVars, frameVars>>

\* The types of frames; 8, a heartbeat, stands for all others.
METHOD == 1
CONTENT_HEADER == 2
BODY == 3
Types == {METHOD, CONTENT_HEADER, BODY, 8}
Headers == [type : Types, length : 0..MaxPayload]

\* body[length] = '\0'.
Nul == -1

\* The bytes of the stream before each frame, and, at the end, of all.
Begin[k \in 1..Len(frames) + 1] ==
  IF k = 1 THEN 0 ELSE Begin[k - 1] + HeaderSize + frames[k - 1].length + 1
StreamSize == Begin[Len(frames) + 1]

(***************************************************************************)
(* header          in read_message_header                                  *)
(* method, method_end              in read_method                          *)
(* content_header, content_end     in read_content_header                  *)
(* body            in read_body                                            *)
(* handed          a method or a body has been handed to the machine       *)
(* FAIL, CRASH     the connection, or the process, has ended               *)
(***************************************************************************)
\* The model begins wherever the machine waits for a frame; bytes of before
\* are 0.
FramesInit ==
  /\ ReadInit(HeaderSize)
  /\ frames \in UNION {[1..n -> Headers] : n \in 0..MaxFrames}
  /\ pc = "header"
  /\ expect \in {"method", "content_header", "content"}
  /\ length = 0
  /\ parsed = [k \in 0..MaxSize - 1 |-> 0]
  /\ handed = "nothing"
  /\ failures = 0

-----------------------------------------------------------------------------
\* read_until runs for the reader.
Read ==
  /\ \/ (ReadBytes(StreamSize) \/ ReadEnd \/ Return) /\ UNCHANGED failures
     \/ failures < MaxFailures /\ ReadError /\ failures' = failures + 1
  /\ UNCHANGED <<frames, pc, expect, length, parsed, handed>>

Returned(place) == pc = place /\ ret # -1

Fail ==
  /\ pc' = "FAIL"
  /\ UNCHANGED <<ruVars, frames, expect, length, parsed, handed, failures>>

\* What the bytes of recvline are as a header: that of a frame, if they are
\* its bytes, and anything at all if they are not.
HeaderOf(k) == \A j \in 0..HeaderSize - 1 : buf[j] = Begin[k] + 1 + j
HeaderRead ==
  IF \E k \in 1..Len(frames) : HeaderOf(k)
  THEN {frames[k] : k \in {j \in 1..Len(frames) : HeaderOf(j)}}
  ELSE Headers

\* What is read as what: only action_wait_publish_content looks at the type.
ReadAs(type) ==
  CASE expect = "method" -> "method"
    [] expect = "content_header" -> "content_header"
    [] expect = "content" /\ type = METHOD -> "method"
    [] expect = "content" /\ type = BODY -> "body"
    [] OTHER -> "FAIL"

\* What is read of a body, its end byte included.
BodySize_NoEnd(n) == n     \* mutant: the end byte is not read
BodySize(n) == n + 1

\* parse_message_header, and the call that follows it.
ReadMessageHeader ==
  /\ Returned("header")
  /\ \/ ret < HeaderSize /\ Fail
     \/ /\ ret >= HeaderSize
        /\ \E h \in HeaderRead :
             /\ length' = h.length
             /\ pc' = ReadAs(h.type)
             /\ IF ReadAs(h.type) = "FAIL"
                THEN UNCHANGED ruVars
                ELSE Call(IF ReadAs(h.type) = "body" THEN BodySize(h.length) ELSE h.length)
        /\ UNCHANGED <<frames, expect, parsed, handed, failures>>

\* memcpy of n bytes from recvline to cs->parsed.
Copied(n) == [k \in DOMAIN parsed |-> IF k < n THEN buf[k] ELSE parsed[k]]

TooShort == ret < MethodHeaderSize

\* mutant: the method header is taken off
MethodBytes_Args(n) == (n + Word - MethodHeaderSize) % Word
MethodBytes(n) == (MethodHeaderSize + n - 1) % Word

\* read_method: the payload is copied, with some bytes behind it, ...
ReadMethod ==
  /\ Returned("method")
  /\ \/ TooShort /\ Fail
     \/ /\ ~TooShort
        /\ parsed' = Copied(MethodBytes(ret))
        /\ pc' = "method_end"
        /\ Call(1)
        /\ UNCHANGED <<frames, expect, length, handed, failures>>

\* ... and the end byte is read, but not compared.
ReadMethodEnd ==
  /\ Returned("method_end")
  /\ \/ ret = 0 /\ Fail
     \/ /\ ret # 0
        /\ pc' = "handed"
        /\ handed' = "method"
        /\ UNCHANGED <<ruVars, frames, expect, length, parsed, failures>>

\* read_content_header: what read_until returned is not looked at; the length
\* in the frame header decides.
ReadContentHeader ==
  /\ Returned("content_header")
  /\ parsed' = IF length < ContentHeaderSize THEN parsed ELSE Copied(ContentHeaderSize)
  /\ pc' = "content_end"
  /\ Call(1)
  /\ UNCHANGED <<frames, expect, length, handed, failures>>

\* The machine ignores the result too, and goes on to the content.
ReadContentEnd ==
  /\ Returned("content_end")
  /\ pc' = "header"
  /\ expect' = "content"
  /\ Call(HeaderSize)
  /\ UNCHANGED <<frames, length, parsed, handed, failures>>

Terminated_Not(b) == b      \* mutant: body[length] is not set
Terminated(b) == [b EXCEPT ![length] = Nul]

\* read_body: a result of -1 is copied as the size; 0 leaves the old bytes.
ReadBody ==
  /\ Returned("body")
  /\ \/ /\ ret = Word - 1
        /\ pc' = "CRASH"
        /\ UNCHANGED <<parsed, handed>>
     \/ /\ ret # Word - 1
        /\ parsed' = Terminated(Copied(ret))
        /\ handed' = "body"
        /\ pc' = "handed"
  /\ UNCHANGED <<ruVars, frames, expect, length, failures>>

\* The machine has used what it was handed and waits for the next frame: a
\* content header after a publish, a body or a method after a body.
NextFrame ==
  /\ pc = "handed"
  /\ pc' = "header"
  /\ expect' \in IF handed = "body" THEN {"content"} ELSE {"method", "content_header"}
  /\ Call(HeaderSize)
  /\ UNCHANGED <<frames, length, parsed, handed, failures>>

Parse ==
  \/ ReadMessageHeader \/ ReadMethod \/ ReadMethodEnd
  \/ ReadContentHeader \/ ReadContentEnd \/ ReadBody

-----------------------------------------------------------------------------
\* As long as no read fails and the client goes on, every frame is looked for
\* where a frame begins, whatever was expected and whatever came instead.
Aligned ==
  pc = "header" /\ failures = 0 /\ ~closed =>
    \E k \in 1..Len(frames) + 1 : start = Begin[k]

\* The payload of frame k, and nothing else, is in cs->parsed.
Holds(k) ==
  /\ length = frames[k].length
  /\ \A j \in 0..length - 1 : parsed[j] = Begin[k] + HeaderSize + 1 + j

\* What is handed to the machine is one whole frame, which has been consumed
\* to its end.  The exceptions are a read that failed and a body that the end
\* of the connection has cut, for which old bytes are handed over.
HandedWhole ==
  pc = "handed" /\ failures = 0 /\ ~(handed = "body" /\ closed) =>
    \E k \in 1..Len(frames) : Holds(k) /\ got = Begin[k + 1]

=============================================================================
