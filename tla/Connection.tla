----------------------------- MODULE Connection -----------------------------
(***************************************************************************)
(* state_machine.c: one state machine per connection, each in the thread   *)
(* of its slot, all of them on the same queues.  There is one action per   *)
(* state of the machine; what the client sends is chosen freely.           *)
(*                                                                         *)
(* A queue is what Queue.tla shows it to be, a FIFO queue with a set of    *)
(* subscribers of which one takes each message; which one is RoundRobin's  *)
(* matter, here it may be any.  The pool is the set of declared queues.    *)
(* The whole broker is one process: a crash is the end of every thread.    *)
(***************************************************************************)
EXTENDS Integers, FiniteSets, Sequences

CONSTANTS
  Threads,     \* the thread slots
  Queues,      \* the queue names clients use
  Msgs,        \* the bodies clients publish, each of them once (a bound)
  MaxLength,   \* how long a queue gets (a bound)
  Null,        \* the NULL pointer; also a name and a buffer never written
  Cuts         \* whether connections may break in the middle of a frame

ASSUME CutsAssumption == Cuts \in BOOLEAN
ASSUME MaxLengthAssumption == MaxLength \in Nat

VARIABLES
  st,                          \* the state of each machine
  current_queue,               \* the fields of each connection_state
  current_queue_name, recvline,
  parsed,                      \* what was parsed last: a method, a header, a body
  gone,                        \* connections whose client sends nothing more
  failing,                     \* those of them whose next read fails, once
  lost,                        \* connections to which a write has been lost
  declared,                    \* the queues in the pool
  msgs, subs,                  \* of each queue, its messages and subscribers
  sent, delivered              \* history: bodies clients sent, and got

bufVars == <<recvline, parsed>>
curVars == <<current_queue, current_queue_name>>
poolVars == <<declared, msgs, subs>>
history == <<sent, delivered>>
netVars == <<gone, failing, lost>>
connVars == <<st, curVars, bufVars, netVars, poolVars, history>>

-----------------------------------------------------------------------------
\* Class and method ids, and the methods clients send: those the broker
\* knows and two that have the id of a known method in another class.
CONNECTION == 10
CHANNEL == 20
QUEUE == 50
BASIC == 60

StartOk == <<CONNECTION, 11>>
TuneOk == <<CONNECTION, 31>>
Open == <<CONNECTION, 40>>
Close == <<CONNECTION, 50>>
ChannelOpen == <<CHANNEL, 10>>
ChannelClose == <<CHANNEL, 40>>
Channel50 == <<CHANNEL, 50>>
Declare == <<QUEUE, 10>>
Consume == <<BASIC, 20>>
Publish == <<BASIC, 40>>
Ack == <<BASIC, 80>>

Methods == {StartOk, TuneOk, Open, Close, ChannelOpen, ChannelClose,
            Channel50, Declare, Consume, Publish, Ack}

\* Not a method: a content header, or a method that could not be read.
Header == <<0, 0>>
Unreadable == <<0, 1>>

\* A body, a header, a method and a buffer never written are told apart.
ASSUME BuffersAssumption ==
  /\ Null \notin Msgs \cup {Header, Publish}
  /\ Msgs \cap {Header, Publish} = {}

OpeningStates ==
  {"WAIT", "HEADER_RECEIVED", "WAIT_START_OK", "START_OK_RECEIVED",
   "WAIT_TUNE_OK", "WAIT_OPEN_CONNECTION", "OPEN_CONNECTION_RECEIVED",
   "WAIT_OPEN_CHANNEL", "OPEN_CHANNEL_RECEIVED"}
PublishStates ==
  {"BASIC_PUBLISH_RECEIVED", "WAIT_PUBLISH_CONTENT_HEADER",
   "WAIT_PUBLISH_CONTENT"}
ConsumeStates ==
  {"WAIT_VALUE_DEQUEUE", "VALUE_DEQUEUE_RECEIVED", "WAIT_CONSUME_ACK"}
\* CLOSED stands for a slot without a connection, DEAD for the thread of a
\* broker that has crashed.
States ==
  OpeningStates \cup PublishStates \cup ConsumeStates \cup
  {"WAIT_FUNCTIONAL", "QUEUE_DECLARE_RECEIVED", "BASIC_CONSUME_RECEIVED",
   "CLOSE_CHANNEL_RECEIVED", "CLOSE_CONNECTION_RECEIVED",
   "FINISHED", "FAIL", "CLOSED", "DEAD"}

Init ==
  /\ st = [t \in Threads |-> "CLOSED"]
  /\ current_queue = [t \in Threads |-> Null]
  /\ current_queue_name = [t \in Threads |-> Null]
  /\ recvline = [t \in Threads |-> Null]
  /\ parsed = [t \in Threads |-> Null]
  /\ gone = {}
  /\ failing = {}
  /\ lost = {}
  /\ declared = {}
  /\ msgs = [q \in Queues |-> <<>>]
  /\ subs = [q \in Queues |-> {}]
  /\ sent = {}
  /\ delivered = {}

-----------------------------------------------------------------------------
GoTo(t, s) == st' = [st EXCEPT ![t] = s]

\* A read that fails reports that the connection has been reset; what is
\* written after that is lost as well.
ReportFailure(t) ==
  /\ failing' = failing \ {t}
  /\ lost' = lost \cup (failing \cap {t})

\* read_message_header and read_method together: the method, or Unreadable
\* when the client has gone or the frame is too short.  A header that could
\* not be read for an error is taken for one, but then the method is missing.
Readable(t) == IF t \in gone THEN {Unreadable} ELSE Methods \cup {Unreadable}

ReadMethod(t, m) ==
  /\ m \in Readable(t)
  /\ parsed' = [parsed EXCEPT ![t] = m]
  /\ recvline' = [recvline EXCEPT ![t] = Null]
  /\ ReportFailure(t)

\* A use of a queue that is NULL, a copy of size -1 or SIGPIPE ends the
\* process, and with it everything it had in memory.
Crash ==
  /\ st' = [u \in Threads |-> "DEAD"]
  /\ current_queue' = [u \in Threads |-> Null]
  /\ current_queue_name' = [u \in Threads |-> Null]
  /\ recvline' = [u \in Threads |-> Null]
  /\ parsed' = [u \in Threads |-> Null]
  /\ gone' = {} /\ failing' = {} /\ lost' = {} /\ declared' = {}
  /\ msgs' = [q \in Queues |-> <<>>]
  /\ subs' = [q \in Queues |-> {}]
  /\ UNCHANGED history

\* A state that waits for one method, to go on to `next'.
AwaitMethod(t, here, m, next) ==
  /\ st[t] = here
  /\ \E r \in Readable(t) :
       /\ ReadMethod(t, r)
       /\ GoTo(t, IF r = m THEN next ELSE "FAIL")
  /\ UNCHANGED <<curVars, gone, poolVars, history>>

\* A state that goes on without reading.
Pass(t, here, next) ==
  /\ st[t] = here
  /\ GoTo(t, next)
  /\ UNCHANGED <<curVars, bufVars, netVars, poolVars, history>>

\* Something is written to the client.  It is lost if the client has left,
\* though what it has sent ahead may still be there to read.
Write(t) == lost' \in {lost, lost \cup {t}}

\* A lost write makes the client's side reset the connection, and a write to
\* a connection that has been reset raises SIGPIPE, unless the reset is late.
WriteCrash(t) == t \in lost /\ Crash

\* A state that sends one method, in one write.
Answer(t, here, next) ==
  /\ st[t] = here
  /\ \/ /\ GoTo(t, next)
        /\ Write(t)
        /\ UNCHANGED <<curVars, bufVars, gone, failing, poolVars, history>>
     \/ WriteCrash(t)

-----------------------------------------------------------------------------
\* A connection is accepted into a free slot, with a connection_state of
\* its own.
Connect(t) ==
  /\ st[t] = "CLOSED"
  /\ GoTo(t, "WAIT")
  /\ current_queue' = [current_queue EXCEPT ![t] = Null]
  /\ current_queue_name' = [current_queue_name EXCEPT ![t] = Null]
  /\ recvline' = [recvline EXCEPT ![t] = Null]
  /\ parsed' = [parsed EXCEPT ![t] = Null]
  /\ gone' = gone \ {t}
  /\ lost' = lost \ {t}
  /\ UNCHANGED <<failing, poolVars, history>>

\* state_machine_main leaves its loop, its connection_state is given up, and
\* the socket is closed.
End(t) ==
  /\ st[t] \in {"FINISHED", "FAIL"}
  /\ GoTo(t, "CLOSED")
  /\ current_queue' = [current_queue EXCEPT ![t] = Null]
  /\ current_queue_name' = [current_queue_name EXCEPT ![t] = Null]
  /\ recvline' = [recvline EXCEPT ![t] = Null]
  /\ parsed' = [parsed EXCEPT ![t] = Null]
  /\ failing' = failing \ {t}
  /\ lost' = lost \ {t}
  /\ UNCHANGED <<gone, poolVars, history>>

\* The client has left and everything it sent before has been read.  The next
\* read finds the end of the stream or, if the connection was reset, fails
\* and lets only the one after it find the end.
ClientGone(t) ==
  /\ st[t] \notin {"FINISHED", "FAIL", "CLOSED", "DEAD"}
  /\ t \notin gone
  /\ gone' = gone \cup {t}
  /\ failing' \in {failing} \cup (IF Cuts THEN {failing \cup {t}} ELSE {})
  /\ UNCHANGED <<st, curVars, bufVars, lost, poolVars, history>>

-----------------------------------------------------------------------------
\* The protocol header; after a read that has failed it is whatever was in
\* the memory of recvline.
Wait(t) ==
  /\ st[t] = "WAIT"
  /\ \/ GoTo(t, "FAIL")
     \/ t \notin gone \ failing /\ GoTo(t, "HEADER_RECEIVED")
  /\ ReportFailure(t)
  /\ UNCHANGED <<curVars, bufVars, gone, poolVars, history>>

HeaderReceived(t) == Answer(t, "HEADER_RECEIVED", "WAIT_START_OK")

WaitStartOk(t) == AwaitMethod(t, "WAIT_START_OK", StartOk, "START_OK_RECEIVED")

StartOkReceived(t) == Answer(t, "START_OK_RECEIVED", "WAIT_TUNE_OK")

WaitTuneOk(t) == AwaitMethod(t, "WAIT_TUNE_OK", TuneOk, "WAIT_OPEN_CONNECTION")

WaitOpenConnection(t) ==
  AwaitMethod(t, "WAIT_OPEN_CONNECTION", Open, "OPEN_CONNECTION_RECEIVED")

OpenConnectionReceived(t) ==
  Answer(t, "OPEN_CONNECTION_RECEIVED", "WAIT_OPEN_CHANNEL")

CloseConnectionReceived(t) ==
  Answer(t, "CLOSE_CONNECTION_RECEIVED", "FINISHED")

WaitOpenChannel(t) ==
  /\ st[t] = "WAIT_OPEN_CHANNEL"
  /\ \E r \in Readable(t) :
       /\ ReadMethod(t, r)
       /\ GoTo(t, CASE r = ChannelOpen -> "OPEN_CHANNEL_RECEIVED"
                    [] r = Close -> "CLOSE_CONNECTION_RECEIVED"
                    [] OTHER -> "FAIL")
  /\ UNCHANGED <<curVars, gone, poolVars, history>>

OpenChannelReceived(t) == Answer(t, "OPEN_CHANNEL_RECEIVED", "WAIT_FUNCTIONAL")

CloseChannelReceived(t) ==
  Answer(t, "CLOSE_CHANNEL_RECEIVED", "WAIT_OPEN_CHANNEL")

-----------------------------------------------------------------------------
\* The cases of action_wait_functional, as its switch takes them: CHANNEL
\* falls through to CONNECTION, and both to QUEUE.
IsChannelClose(r) == r = ChannelClose
IsConnectionClose(r) == r[1] \in {CHANNEL, CONNECTION} /\ r[2] = Close[2]
IsDeclare(r) == r[1] \in {CHANNEL, CONNECTION, QUEUE} /\ r[2] = Declare[2]

\* get_queue
PoolQueue(q) == IF q \in declared THEN q ELSE Null

\* The name of the queue is parsed into current_queue_name and looked up.
SelectQueue_NameOnly(t, q) ==     \* mutant: current_queue is not looked up
  /\ current_queue_name' = [current_queue_name EXCEPT ![t] = q]
  /\ UNCHANGED <<current_queue, declared>>
SelectQueue(t, q) ==
  /\ current_queue_name' = [current_queue_name EXCEPT ![t] = q]
  /\ current_queue' = [current_queue EXCEPT ![t] = PoolQueue(q)]
  /\ UNCHANGED declared

CreateQueue(t, q) ==
  /\ current_queue_name' = [current_queue_name EXCEPT ![t] = q]
  /\ current_queue' = [current_queue EXCEPT ![t] = q]
  /\ declared' = declared \cup {q}

\* What a method that is not expected, or that cannot be read, leads to.
UnexpectedMethod_Ignored == "WAIT_FUNCTIONAL"   \* mutant: it is read over
UnexpectedMethod == "FAIL"

WaitFunctional(t) ==
  /\ st[t] = "WAIT_FUNCTIONAL"
  /\ \E r \in Readable(t) :
       /\ ReadMethod(t, r)
       /\ CASE IsChannelClose(r) ->
                 GoTo(t, "CLOSE_CHANNEL_RECEIVED") /\ UNCHANGED <<curVars, declared>>
            [] IsConnectionClose(r) ->
                 GoTo(t, "CLOSE_CONNECTION_RECEIVED") /\ UNCHANGED <<curVars, declared>>
            [] IsDeclare(r) ->
                 /\ \E q \in Queues : CreateQueue(t, q)
                 /\ GoTo(t, "QUEUE_DECLARE_RECEIVED")
            [] r = Publish ->
                 /\ \E q \in Queues : SelectQueue(t, q)
                 /\ GoTo(t, "BASIC_PUBLISH_RECEIVED")
            [] r = Consume ->
                 /\ \E q \in Queues : SelectQueue(t, q)
                 /\ GoTo(t, "BASIC_CONSUME_RECEIVED")
            [] OTHER ->
                 GoTo(t, UnexpectedMethod) /\ UNCHANGED <<curVars, declared>>
  /\ UNCHANGED <<gone, msgs, subs, history>>

\* The counts of messages and consumers in the answer are left out.
QueueDeclareReceived(t) == Answer(t, "QUEUE_DECLARE_RECEIVED", "WAIT_FUNCTIONAL")

-----------------------------------------------------------------------------
BasicPublishReceived(t) ==
  Pass(t, "BASIC_PUBLISH_RECEIVED", "WAIT_PUBLISH_CONTENT_HEADER")

\* The header frame, whatever is in it and even if it is cut short or could
\* not be read for an error; one that says it is shorter than a content
\* header leaves in cs->parsed what was there.
WaitPublishContentHeader(t) ==
  /\ st[t] = "WAIT_PUBLISH_CONTENT_HEADER"
  /\ \/ /\ GoTo(t, "FAIL")
        /\ UNCHANGED bufVars
     \/ /\ t \notin gone \ failing
        /\ parsed' \in {parsed, [parsed EXCEPT ![t] = Header]}
        /\ GoTo(t, "WAIT_PUBLISH_CONTENT")
        /\ UNCHANGED recvline
  /\ ReportFailure(t)
  /\ UNCHANGED <<curVars, gone, poolVars, history>>

UnexpectedInContent_Ignored == "WAIT_PUBLISH_CONTENT" \* mutant: it is read over
UnexpectedInContent == "FAIL"

\* A method instead of a body.
NextPublishMethod(t) ==
  /\ st[t] = "WAIT_PUBLISH_CONTENT"
  /\ \E r \in Readable(t) :
       /\ ReadMethod(t, r)
       /\ CASE r = Publish ->
                 /\ \E q \in Queues : SelectQueue(t, q)
                 /\ GoTo(t, "BASIC_PUBLISH_RECEIVED")
            [] r = ChannelClose ->
                 GoTo(t, "CLOSE_CHANNEL_RECEIVED") /\ UNCHANGED <<curVars, declared>>
            [] r = Close ->
                 GoTo(t, "CLOSE_CONNECTION_RECEIVED") /\ UNCHANGED <<curVars, declared>>
            [] OTHER ->
                 GoTo(t, UnexpectedInContent) /\ UNCHANGED <<curVars, declared>>
  /\ UNCHANGED <<gone, msgs, subs, history>>

Enqueue_Front(q, m) == msgs' = [msgs EXCEPT ![q] = <<m>> \o @] \* mutant: a stack
Enqueue(q, m) == msgs' = [msgs EXCEPT ![q] = Append(@, m)]

\* A body: it is parsed and enqueued, and more bodies may follow.
PublishBody(t) ==
  /\ st[t] = "WAIT_PUBLISH_CONTENT"
  /\ t \notin gone
  /\ \E m \in Msgs \ sent :
       /\ sent' = sent \cup {m}
       /\ parsed' = [parsed EXCEPT ![t] = m]
       /\ Len(msgs[current_queue[t]]) < MaxLength
       /\ Enqueue(current_queue[t], m)
  /\ UNCHANGED <<st, curVars, recvline, netVars, declared, subs, delivered>>

\* The connection ends within a body: read_body copies nothing and what
\* cs->parsed holds already is enqueued.  So it is when the header of a frame
\* could not be read for an error and what recvline holds is taken for that
\* of a body.
PublishCutBody(t) ==
  /\ st[t] = "WAIT_PUBLISH_CONTENT"
  /\ Cuts /\ t \notin gone \ failing
  /\ gone' = gone \cup {t}
  /\ ReportFailure(t)
  /\ Len(msgs[current_queue[t]]) < MaxLength
  /\ Enqueue(current_queue[t], parsed[t])
  /\ UNCHANGED <<st, curVars, bufVars, declared, subs, history>>

\* A body for a queue that is NULL, or a connection that is reset before the
\* first byte of a body: read_body takes the -1 for the size to copy.
PublishCrash(t) ==
  /\ st[t] = "WAIT_PUBLISH_CONTENT"
  /\ t \notin gone \ failing
  /\ current_queue[t] = Null \/ (Cuts /\ t \notin gone)
  /\ Crash

\* action_wait_publish_content: a method, a body or a cut body; other frames
\* and the end of the connection lead to FAIL as an unreadable method does.
WaitPublishContent(t) ==
  \/ NextPublishMethod(t)
  \/ current_queue[t] # Null /\ (PublishBody(t) \/ PublishCutBody(t))
  \/ PublishCrash(t)

-----------------------------------------------------------------------------
\* The thread subscribes to the queue and says so to the client.
BasicConsumeReceived(t) ==
  /\ st[t] = "BASIC_CONSUME_RECEIVED"
  /\ \/ /\ current_queue[t] = Null
        /\ Crash
     \/ /\ current_queue[t] # Null
        /\ subs' = [subs EXCEPT ![current_queue[t]] = @ \cup {t}]
        /\ GoTo(t, "WAIT_VALUE_DEQUEUE")
        /\ Write(t)
        /\ UNCHANGED <<curVars, bufVars, gone, failing, declared, msgs, history>>
     \/ WriteCrash(t)

MsgsAfterDequeue_Kept(q) == msgs  \* mutant: the message stays in the queue
MsgsAfterDequeue(q) == [msgs EXCEPT ![q] = Tail(@)]

\* q_dequeue_rr returns with a message.
WaitValueDequeue(t) ==
  /\ st[t] = "WAIT_VALUE_DEQUEUE"
  /\ t \in subs[current_queue[t]]
  /\ msgs[current_queue[t]] # <<>>
  /\ recvline' = [recvline EXCEPT ![t] = Head(msgs[current_queue[t]])]
  /\ msgs' = MsgsAfterDequeue(current_queue[t])
  /\ GoTo(t, "VALUE_DEQUEUE_RECEIVED")
  /\ UNCHANGED <<curVars, parsed, netVars, declared, subs, history>>

\* The message goes out in three writes: if the client has left, the first
\* can be the one that is lost and another the one that raises SIGPIPE.
ValueDequeueReceived(t) ==
  /\ st[t] = "VALUE_DEQUEUE_RECEIVED"
  /\ \/ /\ delivered' = delivered \cup ({recvline[t]} \cap Msgs)
        /\ GoTo(t, "WAIT_CONSUME_ACK")
        /\ Write(t)
        /\ UNCHANGED <<curVars, bufVars, gone, failing, poolVars, sent>>
     \/ t \in gone \cup lost /\ Crash

SubsWithout_Kept(t) == subs       \* mutant: remove_subscriber left out
SubsWithout(t) == [subs EXCEPT ![current_queue[t]] = @ \ {t}]

WaitConsumeAck(t) ==
  /\ st[t] = "WAIT_CONSUME_ACK"
  /\ \E r \in Readable(t) :
       /\ ReadMethod(t, r)
       /\ IF r = Ack
          THEN GoTo(t, "WAIT_VALUE_DEQUEUE") /\ UNCHANGED subs
          ELSE GoTo(t, "FAIL") /\ subs' = SubsWithout(t)
  /\ UNCHANGED <<curVars, gone, declared, msgs, history>>

-----------------------------------------------------------------------------
\* A step of the machine; Step(t) runs in the thread of t, the others are
\* the client's.
Step(t) ==
  \/ Wait(t) \/ HeaderReceived(t) \/ WaitStartOk(t) \/ StartOkReceived(t)
  \/ WaitTuneOk(t) \/ WaitOpenConnection(t) \/ OpenConnectionReceived(t)
  \/ CloseConnectionReceived(t) \/ WaitOpenChannel(t)
  \/ OpenChannelReceived(t) \/ CloseChannelReceived(t)
  \/ WaitFunctional(t) \/ QueueDeclareReceived(t)
  \/ BasicPublishReceived(t) \/ WaitPublishContentHeader(t)
  \/ WaitPublishContent(t) \/ BasicConsumeReceived(t)
  \/ WaitValueDequeue(t) \/ ValueDequeueReceived(t) \/ WaitConsumeAck(t)
  \/ End(t)

Next == \E t \in Threads : Connect(t) \/ ClientGone(t) \/ Step(t)

Spec == Init /\ [][Next]_connVars

\* The operating system runs every thread, also those whose read returns
\* because the client has gone.  No client has to send anything: fairness
\* is asked for only once it is gone.
FairSpec ==
  /\ Spec
  /\ \A t \in Threads : WF_connVars(t \in gone /\ Step(t))

-----------------------------------------------------------------------------
\* What can get into a queue: bodies and, from a connection that is cut, the
\* content header or the publish method that is still in cs->parsed.
Payloads == Msgs \cup {Header, Publish}

\* The buffers of a connection hold what the protocol lets be read into them
\* in each state: nothing but Payloads gets into a queue, to a consumer or to
\* its client, however connections break and whatever their clients send.
TypeOK ==
  /\ st \in [Threads -> States]
  /\ current_queue \in [Threads -> Queues \cup {Null}]
  /\ current_queue_name \in [Threads -> Queues \cup {Null}]
  /\ recvline \in [Threads -> Payloads \cup {Null}]
  /\ parsed \in [Threads -> Methods \cup Msgs \cup {Header, Unreadable, Null}]
  /\ failing \subseteq gone /\ gone \cup lost \subseteq Threads
  /\ declared \subseteq Queues
  /\ msgs \in [Queues -> Seq(Payloads)]
  /\ subs \in [Queues -> SUBSET Threads]
  /\ sent \subseteq Msgs
  /\ delivered \subseteq sent

\* A thread is in the ring of a queue exactly while its connection consumes
\* from it.  However a connection ends, its slot, which the next connection
\* gets, is left in no ring: the round would stop at it for ever.
SubscribedConsumes ==
  \A t \in Threads, q \in Queues :
    st[t] # "DEAD" =>
      (t \in subs[q] <=> st[t] \in ConsumeStates /\ current_queue[t] = q)

\* The body of a publish goes to the queue that this publish named, also
\* when the one before it named another, and a consumer stays on the queue
\* that it named.
QueueOfLastName ==
  \A t \in Threads :
    st[t] \in PublishStates \cup ConsumeStates =>
      current_queue[t] \in {current_queue_name[t], Null}

\* Where a body is: in queues, and in the hands of consuming threads.
Places(m) ==
  {p \in Queues \X (1..MaxLength) :
     p[2] <= Len(msgs[p[1]]) /\ msgs[p[1]][p[2]] = m}
  \cup {<<t, 0>> : t \in {u \in Threads :
                          st[u] = "VALUE_DEQUEUE_RECEIVED" /\ recvline[u] = m}}

\* The broker has not crashed.
Alive == \A t \in Threads : st[t] # "DEAD"

\* As long as the broker runs, each body a client has sent is in one place
\* only: in one queue, in the hands of one consumer, or written to the socket
\* of one, and then nowhere else.
DeliveredOnce ==
  \A m \in sent : Alive =>
    IF m \in delivered THEN Places(m) = {} ELSE Cardinality(Places(m)) = 1

\* Each queue is a FIFO queue with subscribers, as Queue implements it, and
\* the state machines use it as one: a connection takes a message only while
\* it is subscribed and has none in its hands, subscribes only when it is not
\* subscribed and leaves only with empty hands.
Fifo(q) == INSTANCE FifoQueue WITH
  Consumers <- Threads,
  Msgs <- Payloads,
  NoMsg <- Null,
  queue <- msgs[q],
  subs <- subs[q],
  got <- [t \in Threads |->
            IF st[t] = "VALUE_DEQUEUE_RECEIVED" /\ current_queue[t] = q
            THEN recvline[t] ELSE Null]

UseFifoQueues ==
  /\ \A q \in Queues : Fifo(q)!Init
  /\ [][\A q \in Queues : Fifo(q)!Next \/ UNCHANGED Fifo(q)!fifoVars]_connVars

\* Once a client has gone its connection ends, unless it waits for a message.
GoneConnectionEnds ==
  \A t \in Threads :
    (t \in gone) ~> (st[t] \in {"CLOSED", "DEAD", "WAIT_VALUE_DEQUEUE"})

-----------------------------------------------------------------------------
\* README.md: "There is also a FAIL state, if something goes wrong."  While
\* every client stays and reads its answers, none of them ends the broker for
\* the others by what it asks for.
FailsAlone == [][gone \cup lost = {} => Alive']_connVars

=============================================================================
