------------------------------ MODULE Delivery ------------------------------
(***************************************************************************)
(* The way of a body through the broker: from the frame that a publisher   *)
(* sends (Frames), through the C string that q_enqueue stores, to the      *)
(* three frames that action_value_dequeue_received writes for a consumer.  *)
(* That the queue keeps their order is shown by Queue; one consumer takes  *)
(* them here.                                                              *)
(***************************************************************************)
EXTENDS Frames, FiniteSets

CONSTANTS
  DeliverArgsSize,  \* BASIC_DELIVER_ARGS_SIZE, 50 in the code
  Mask,             \* swipe_endianness_64 keeps n % Mask, 2^16 in the code
  Zeros             \* which bytes of the stream are zero

ASSUME DeliveryAssumption ==
  DeliverArgsSize \in Nat /\ Mask \in Nat \ {0, 1} /\ Zeros \subseteq Nat \ {0}

VARIABLES
  nodes,     \* the bodies in the queue, oldest first, as strings
  out,       \* what has been written to the consumer
  origins    \* history: the frame of every body enqueued, 0 for damaged ones

deliveryVars == <<nodes, out, origins>>
vars == <<readerVars, deliveryVars>>

Init == FramesInit /\ nodes = <<>> /\ out = <<>> /\ origins = <<>>

\* A string ends before its first zero byte.
StringAt(b) ==
  LET inside == {n \in DOMAIN b : \A k \in 0..n : b[k] \notin Zeros \cup {Nul}}
  IN [k \in 1..Cardinality(inside) |-> b[k - 1]]

\* The frame that was handed over, unless bytes of it are missing.
Origin ==
  IF failures > 0 \/ closed \/ ~\E k \in 1..Len(frames) : got = Begin[k + 1]
  THEN 0
  ELSE CHOOSE k \in 1..Len(frames) : got = Begin[k + 1]

\* action_wait_publish_content goes on after read_body: the body is enqueued,
\* up to its first zero byte.
Enqueue ==
  /\ handed = "body" /\ NextFrame
  /\ nodes' = Append(nodes, StringAt(parsed))
  /\ origins' = Append(origins, Origin)
  /\ UNCHANGED out

Fields(n) == [k \in 1..n |-> <<"field">>]
Bytes(s) == [k \in DOMAIN s |-> <<"byte", s[k]>>]
End == <<"end">>
Header(type, n) == <<"header", type, n>>

\* A frame is built in sendline and written at once. The 4 that send_method
\* adds to the length is the size of a method header.
SendMethod(args_size) ==
  <<Header(METHOD, args_size + MethodHeaderSize)>>
  \o Fields(MethodHeaderSize) \o Fields(args_size) \o <<End>>

\* bit_cardinality_16: one byte of properties is sent for each flag.
BitCardinality16(flags) == Cardinality({i \in 0..15 : (flags \div 2^i) % 2 = 1})

\* swipe_endianness_64 of a size: its low 32 bits are masked with 16.
SwipeEndianness(n) == n % Mask

\* body_size is one token here.
SendContentHeader(body_size, flags) ==
  LET properties_size == BitCardinality16(flags)
  IN <<Header(CONTENT_HEADER, ContentHeaderSize + properties_size),
       <<"size", SwipeEndianness(body_size)>>>>
     \o Fields(ContentHeaderSize - 1) \o Fields(properties_size) \o <<End>>

SendBody(payload) ==
  <<Header(BODY, Len(payload))>> \o Bytes(payload) \o <<End>>

\* action_wait_value_dequeue and action_value_dequeue_received.
Deliver ==
  /\ nodes # <<>>
  /\ nodes' = Tail(nodes)
  /\ out' = out \o SendMethod(DeliverArgsSize)
                \o SendContentHeader(Len(Head(nodes)), 4096)
                \o SendBody(Head(nodes))
  /\ UNCHANGED <<readerVars, origins>>

Next ==
  \/ (Read \/ Parse \/ (handed # "body" /\ NextFrame)) /\ UNCHANGED deliveryVars
  \/ Enqueue
  \/ Deliver

Spec == Init /\ [][Next]_vars

-----------------------------------------------------------------------------
\* The client takes `out' apart as any AMQP client does: a header says how
\* many bytes follow it, and an end byte must come behind them.
Whole(i) ==
  /\ out[i][1] = "header"
  /\ i + out[i][3] + 1 \in DOMAIN out
  /\ out[i + out[i][3] + 1] = End
  /\ \A k \in i + 1..i + out[i][3] : out[k] # End

Received ==
  LET from[i \in 1..Len(out) + 1] ==
        IF i > Len(out) THEN <<>>
        ELSE IF Whole(i)
             THEN <<[type |-> out[i][2], content |-> SubSeq(out, i + 1, i + out[i][3])]>>
                  \o from[i + out[i][3] + 2]
             ELSE <<[type |-> 0, content |-> <<>>]>>
  IN from[1]

Deliveries == 1..Len(origins) - Len(nodes)

Body(i) == Received[3 * i].content

\* For each body the client of the consumer finds a method, a content header
\* and a body frame, and in it what one frame of the publisher held, in order,
\* up to its first zero byte: no byte of that frame's end, of an earlier frame
\* or of another buffer goes with it.
DeliveredPrefix ==
  /\ [i \in DOMAIN Received |-> Received[i].type]
       = [i \in 1..3 * Cardinality(Deliveries) |-> 1 + ((i - 1) % 3)]
  /\ \A i \in Deliveries : origins[i] # 0 =>
       LET k == origins[i]
           payload == [j \in 1..frames[k].length |-> Begin[k] + HeaderSize + j]
           n == Len(Body(i))
       IN /\ n <= Len(payload)
          /\ Body(i) = Bytes(SubSeq(payload, 1, n))
          /\ \A j \in 1..n : payload[j] \notin Zeros
          /\ n < Len(payload) => payload[n + 1] \in Zeros

=============================================================================
