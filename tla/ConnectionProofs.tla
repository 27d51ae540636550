-------------------------- MODULE ConnectionProofs --------------------------
(***************************************************************************)
(* Theorems about Connection, for any connections, queues and bodies, and  *)
(* whether connections break within a frame or not.                        *)
(***************************************************************************)
EXTENDS Connection, FiniteSetTheorems, TLAPS

ConnTypes ==
  /\ st \in [Threads -> States]
  /\ current_queue \in [Threads -> Queues \cup {Null}]
  /\ current_queue_name \in [Threads -> Queues \cup {Null}]
  /\ subs \in [Queues -> SUBSET Threads]

\* A thread that consumes has a queue; the others would have ended the broker.
ConsumersHaveQueues ==
  \A t \in Threads : st[t] \in ConsumeStates => current_queue[t] # Null

\* The states in which the last name counts: a consumer is about to subscribe
\* in the last of them.
NamingStates == PublishStates \cup ConsumeStates \cup {"BASIC_CONSUME_RECEIVED"}

\* The queue of thread t is the one it named, or NULL.
Named(t) == current_queue[t] \in {current_queue_name[t], Null}

NamesHold == \A t \in Threads : st[t] \in NamingStates => Named(t)

ConnInv ==
  ConnTypes /\ ConsumersHaveQueues /\ SubscribedConsumes /\ NamesHold

\* Where no name and no queue counts.
PlainStates == States \ (NamingStates \cup {"DEAD"})

-----------------------------------------------------------------------------
\* A step of t in which it neither is a consumer nor becomes one.  Its queue
\* counts only when it is about to publish.
LEMMA MoveKeeps ==
  ASSUME ConnInv, NEW t \in Threads, NEW s \in States,
         GoTo(t, s), UNCHANGED subs,
         st[t] \notin ConsumeStates, s \notin ConsumeStates \cup {"DEAD"},
         NEW q \in Queues \cup {Null}, NEW n \in Queues \cup {Null},
         current_queue' = [current_queue EXCEPT ![t] = q],
         current_queue_name' = [current_queue_name EXCEPT ![t] = n],
         s \in NamingStates => q \in {n, Null},
         st[t] # "DEAD"
  PROVE  ConnInv'
<1> USE DEF ConnInv, ConnTypes, GoTo
<1>1. ConnTypes'
  OBVIOUS
<1>2. ConsumersHaveQueues'
  BY DEF ConsumersHaveQueues
<1>3. SubscribedConsumes'
  BY DEF SubscribedConsumes
<1>4. NamesHold'
  BY DEF NamesHold, Named, NamingStates
<1> QED
  BY <1>1, <1>2, <1>3, <1>4

\* The same where t keeps its queue.
LEMMA StayKeeps ==
  ASSUME ConnInv, NEW t \in Threads, NEW s \in States,
         GoTo(t, s), UNCHANGED <<curVars, subs>>,
         st[t] \notin ConsumeStates \cup {"DEAD"},
         s \notin ConsumeStates \cup {"DEAD"},
         s \in NamingStates => Named(t)
  PROVE  ConnInv'
<1>1. /\ current_queue' = [current_queue EXCEPT ![t] = current_queue[t]]
      /\ current_queue_name' = [current_queue_name EXCEPT ![t] = current_queue_name[t]]
      /\ current_queue[t] \in Queues \cup {Null}
      /\ current_queue_name[t] \in Queues \cup {Null}
  BY DEF ConnInv, ConnTypes, curVars
<1> QED
  BY <1>1, MoveKeeps DEF curVars, Named

\* A step that moves between the states of a consumer.
LEMMA ConsumeKeeps ==
  ASSUME ConnInv, NEW t \in Threads, NEW s \in ConsumeStates,
         GoTo(t, s), UNCHANGED <<curVars, subs>>, st[t] \in ConsumeStates
  PROVE  ConnInv'
<1> USE DEF ConnInv, ConnTypes, GoTo, curVars
<1>0. s \in States
  BY DEF States
<1>1. ConnTypes'
  BY <1>0
<1>2. ConsumersHaveQueues'
  BY DEF ConsumersHaveQueues
<1>3. SubscribedConsumes'
  BY DEF SubscribedConsumes, ConsumeStates
<1>4. NamesHold'
  BY DEF NamesHold, Named, NamingStates
<1> QED
  BY <1>1, <1>2, <1>3, <1>4

\* Steps that leave all of this alone.
LEMMA QuietKeeps ==
  ASSUME ConnInv, UNCHANGED <<st, curVars, subs>>
  PROVE  ConnInv'
BY DEF ConnInv, ConnTypes, ConsumersHaveQueues, SubscribedConsumes,
   NamesHold, Named, curVars

\* The end of the process.
LEMMA CrashKeeps ==
  ASSUME ConnInv, Crash
  PROVE  ConnInv'
<1>1. ConnTypes'
  BY DEF Crash, ConnTypes, States
<1>2. \A t \in Threads : st'[t] = "DEAD"
  BY DEF Crash
<1> QED
  BY <1>1, <1>2 DEF ConnInv, ConsumersHaveQueues, SubscribedConsumes,
     NamesHold, NamingStates, ConsumeStates, PublishStates

-----------------------------------------------------------------------------
\* The states before and after the functional one wait for one method, or
\* send one.
LEMMA AwaitKeeps ==
  ASSUME ConnInv, NEW t \in Threads, NEW here, NEW m, NEW next \in PlainStates,
         here \notin ConsumeStates \cup {"DEAD"},
         AwaitMethod(t, here, m, next)
  PROVE  ConnInv'
<1>1. PICK s \in {next, "FAIL"} : GoTo(t, s)
  BY DEF AwaitMethod
<1>2. st[t] = here /\ UNCHANGED <<curVars, subs>>
  BY DEF AwaitMethod, poolVars
<1>3. s \in PlainStates
  BY DEF PlainStates, NamingStates, States, ConsumeStates, PublishStates
<1>4. s \in States /\ s \notin NamingStates /\ s \notin ConsumeStates \cup {"DEAD"}
  BY <1>3 DEF PlainStates, NamingStates
<1> QED
  BY <1>1, <1>2, <1>4, StayKeeps

LEMMA PassKeeps ==
  ASSUME ConnInv, NEW t \in Threads, NEW here, NEW next \in States,
         here \notin ConsumeStates \cup {"DEAD"},
         next \notin ConsumeStates \cup {"DEAD"},
         next \in NamingStates => here \in NamingStates,
         Pass(t, here, next)
  PROVE  ConnInv'
<1>1. st[t] = here /\ GoTo(t, next) /\ UNCHANGED <<curVars, subs>>
  BY DEF Pass, poolVars
<1>2. here \in NamingStates => Named(t)
  BY <1>1 DEF ConnInv, NamesHold
<1> QED
  BY <1>1, <1>2, StayKeeps

LEMMA AnswerKeeps ==
  ASSUME ConnInv, NEW t \in Threads, NEW here, NEW next \in PlainStates,
         here \notin ConsumeStates \cup {"DEAD"},
         Answer(t, here, next)
  PROVE  ConnInv'
<1>1. next \in States /\ next \notin NamingStates /\ next \notin ConsumeStates \cup {"DEAD"}
  BY DEF PlainStates, NamingStates
<1>2. CASE GoTo(t, next) /\ UNCHANGED <<curVars, poolVars>>
  <2>1. st[t] = here /\ UNCHANGED <<curVars, subs>>
    BY <1>2 DEF Answer, poolVars
  <2> QED
    BY <1>1, <1>2, <2>1, StayKeeps
<1> QED
  BY <1>2, CrashKeeps DEF Answer, WriteCrash

\* A step to a plain state, from any but a consumer's.
LEMMA PlainKeeps ==
  ASSUME ConnInv, NEW t \in Threads, NEW s \in PlainStates,
         GoTo(t, s), UNCHANGED <<curVars, subs>>,
         st[t] \notin ConsumeStates \cup {"DEAD"}
  PROVE  ConnInv'
<1>1. s \in States /\ s \notin NamingStates /\ s \notin ConsumeStates \cup {"DEAD"}
  BY DEF PlainStates, NamingStates
<1> QED
  BY <1>1, StayKeeps

LEMMA ClosedKeeps ==
  ASSUME ConnInv, NEW t \in Threads, Connect(t) \/ End(t) \/ ClientGone(t)
  PROVE  ConnInv'
<1>1. CASE ClientGone(t)
  BY <1>1, QuietKeeps DEF ClientGone, poolVars
<1>2. ASSUME NEW s \in {"WAIT", "CLOSED"}, GoTo(t, s), UNCHANGED subs,
             st[t] \in {"CLOSED", "FINISHED", "FAIL"},
             current_queue' = [current_queue EXCEPT ![t] = Null],
             current_queue_name' = [current_queue_name EXCEPT ![t] = Null]
      PROVE  ConnInv'
  BY <1>2, MoveKeeps DEF States, OpeningStates, ConsumeStates
<1> QED
  BY <1>1, <1>2 DEF Connect, End, poolVars

LEMMA OpeningKeeps ==
  ASSUME ConnInv, NEW t \in Threads,
         \/ Wait(t) \/ HeaderReceived(t) \/ WaitStartOk(t) \/ StartOkReceived(t)
         \/ WaitTuneOk(t) \/ WaitOpenConnection(t) \/ OpenConnectionReceived(t)
         \/ CloseConnectionReceived(t) \/ WaitOpenChannel(t)
         \/ OpenChannelReceived(t) \/ CloseChannelReceived(t)
         \/ QueueDeclareReceived(t)
  PROVE  ConnInv'
<1> USE DEF PlainStates, NamingStates, States, OpeningStates, ConsumeStates, PublishStates
<1>1. CASE Wait(t)
  <2>1. PICK s \in {"FAIL", "HEADER_RECEIVED"} : GoTo(t, s)
    BY <1>1 DEF Wait
  <2>2. st[t] = "WAIT" /\ UNCHANGED <<curVars, subs>>
    BY <1>1 DEF Wait, poolVars
  <2> QED
    BY <2>1, <2>2, PlainKeeps
<1>2. CASE WaitStartOk(t) \/ WaitTuneOk(t) \/ WaitOpenConnection(t)
  BY <1>2, AwaitKeeps DEF WaitStartOk, WaitTuneOk, WaitOpenConnection
<1>3. CASE HeaderReceived(t) \/ StartOkReceived(t) \/ OpenConnectionReceived(t)
  BY <1>3, AnswerKeeps DEF HeaderReceived, StartOkReceived, OpenConnectionReceived
<1>4. CASE CloseConnectionReceived(t) \/ OpenChannelReceived(t)
           \/ CloseChannelReceived(t) \/ QueueDeclareReceived(t)
  BY <1>4, AnswerKeeps DEF CloseConnectionReceived, OpenChannelReceived,
     CloseChannelReceived, QueueDeclareReceived
<1>5. CASE WaitOpenChannel(t)
  <2>1. PICK s \in {"OPEN_CHANNEL_RECEIVED", "CLOSE_CONNECTION_RECEIVED", "FAIL"} : GoTo(t, s)
    BY <1>5 DEF WaitOpenChannel
  <2>2. st[t] = "WAIT_OPEN_CHANNEL" /\ UNCHANGED <<curVars, subs>>
    BY <1>5 DEF WaitOpenChannel, poolVars
  <2> QED
    BY <2>1, <2>2, PlainKeeps
<1> QED
  BY <1>1, <1>2, <1>3, <1>4, <1>5

-----------------------------------------------------------------------------
\* A method that names a queue.
LEMMA SelectKeeps ==
  ASSUME ConnInv, NEW t \in Threads, NEW q \in Queues,
         NEW s \in {"BASIC_PUBLISH_RECEIVED", "BASIC_CONSUME_RECEIVED",
                    "QUEUE_DECLARE_RECEIVED"},
         GoTo(t, s), UNCHANGED subs, SelectQueue(t, q) \/ CreateQueue(t, q),
         st[t] \notin ConsumeStates \cup {"DEAD"}
  PROVE  ConnInv'
<1>1. PICK r \in {q, Null} : /\ current_queue' = [current_queue EXCEPT ![t] = r]
                             /\ current_queue_name' = [current_queue_name EXCEPT ![t] = q]
  BY DEF SelectQueue, CreateQueue, PoolQueue
<1>2. s \in States /\ s \notin ConsumeStates \cup {"DEAD"}
  BY DEF States, ConsumeStates, PublishStates
<1> QED
  BY <1>1, <1>2, MoveKeeps

LEMMA WaitFunctionalKeeps ==
  ASSUME ConnInv, NEW t \in Threads, WaitFunctional(t)
  PROVE  ConnInv'
<1>1. /\ st[t] = "WAIT_FUNCTIONAL" /\ UNCHANGED subs
      /\ st[t] \notin ConsumeStates \cup {"DEAD"}
  BY DEF WaitFunctional, ConsumeStates
<1>2. \/ \E s \in {"CLOSE_CHANNEL_RECEIVED", "CLOSE_CONNECTION_RECEIVED", "FAIL"} :
           GoTo(t, s) /\ UNCHANGED curVars
      \/ \E q \in Queues, s \in {"BASIC_PUBLISH_RECEIVED", "BASIC_CONSUME_RECEIVED",
                                 "QUEUE_DECLARE_RECEIVED"} :
           GoTo(t, s) /\ (SelectQueue(t, q) \/ CreateQueue(t, q))
  BY DEF WaitFunctional, UnexpectedMethod
<1>3. {"CLOSE_CHANNEL_RECEIVED", "CLOSE_CONNECTION_RECEIVED", "FAIL"} \subseteq PlainStates
  BY DEF PlainStates, NamingStates, States, ConsumeStates, PublishStates
<1> QED
  BY <1>1, <1>2, <1>3, PlainKeeps, SelectKeeps

LEMMA WaitPublishContentKeeps ==
  ASSUME ConnInv, NEW t \in Threads, WaitPublishContent(t)
  PROVE  ConnInv'
<1>1. CASE NextPublishMethod(t)
  <2>1. /\ st[t] = "WAIT_PUBLISH_CONTENT" /\ UNCHANGED subs
        /\ st[t] \notin ConsumeStates \cup {"DEAD"}
    BY <1>1 DEF NextPublishMethod, ConsumeStates
  <2>2. \/ \E s \in {"CLOSE_CHANNEL_RECEIVED", "CLOSE_CONNECTION_RECEIVED", "FAIL"} :
             GoTo(t, s) /\ UNCHANGED curVars
        \/ \E q \in Queues : GoTo(t, "BASIC_PUBLISH_RECEIVED") /\ SelectQueue(t, q)
    BY <1>1 DEF NextPublishMethod, UnexpectedInContent
  <2>3. {"CLOSE_CHANNEL_RECEIVED", "CLOSE_CONNECTION_RECEIVED", "FAIL"} \subseteq PlainStates
    BY DEF PlainStates, NamingStates, States, ConsumeStates, PublishStates
  <2> QED
    BY <2>1, <2>2, <2>3, PlainKeeps, SelectKeeps
<1>2. CASE PublishBody(t) \/ PublishCutBody(t)
  BY <1>2, QuietKeeps DEF PublishBody, PublishCutBody
<1>3. CASE PublishCrash(t)
  BY <1>3, CrashKeeps DEF PublishCrash
<1> QED
  BY <1>1, <1>2, <1>3 DEF WaitPublishContent

LEMMA PublishKeeps ==
  ASSUME ConnInv, NEW t \in Threads,
         BasicPublishReceived(t) \/ WaitPublishContentHeader(t)
  PROVE  ConnInv'
<1> USE DEF PlainStates, NamingStates, States, ConsumeStates, PublishStates
<1>1. CASE BasicPublishReceived(t)
  BY <1>1, PassKeeps DEF BasicPublishReceived
<1>2. CASE WaitPublishContentHeader(t)
  <2>1. PICK s \in {"FAIL", "WAIT_PUBLISH_CONTENT"} : GoTo(t, s)
    BY <1>2 DEF WaitPublishContentHeader
  <2>2. st[t] = "WAIT_PUBLISH_CONTENT_HEADER" /\ UNCHANGED <<curVars, subs>>
    BY <1>2 DEF WaitPublishContentHeader, poolVars
  <2>3. Named(t)
    BY <2>2 DEF ConnInv, NamesHold
  <2> QED
    BY <2>1, <2>2, <2>3, StayKeeps
<1> QED
  BY <1>1, <1>2

-----------------------------------------------------------------------------
\* The thread enters the ring of the queue that it has named, ...
LEMMA SubscribeKeeps ==
  ASSUME ConnInv, NEW t \in Threads, BasicConsumeReceived(t)
  PROVE  ConnInv'
<1>1. CASE Crash
  BY <1>1, CrashKeeps
<1>2. CASE ~Crash
  <2> USE DEF ConnInv, ConnTypes
  <2>1. /\ st[t] = "BASIC_CONSUME_RECEIVED"
        /\ st' = [st EXCEPT ![t] = "WAIT_VALUE_DEQUEUE"]
        /\ current_queue[t] # Null
        /\ subs' = [subs EXCEPT ![current_queue[t]] = @ \cup {t}]
        /\ UNCHANGED curVars
    BY <1>2 DEF BasicConsumeReceived, WriteCrash, GoTo
  <2>2. current_queue[t] \in Queues
    BY <2>1
  <2>3. ConnTypes'
    BY <2>1, <2>2 DEF States, ConsumeStates, curVars
  <2>4. ConsumersHaveQueues'
    BY <2>1 DEF ConsumersHaveQueues, curVars
  <2>5. SubscribedConsumes'
    <3> SUFFICES ASSUME NEW u \in Threads, NEW q \in Queues, st'[u] # "DEAD"
                 PROVE  u \in subs'[q] <=> st'[u] \in ConsumeStates /\ current_queue'[u] = q
      BY DEF SubscribedConsumes
    <3>1. st[u] # "DEAD"
      BY <2>1
    <3>2. u \in subs[q] <=> st[u] \in ConsumeStates /\ current_queue[u] = q
      BY <3>1 DEF SubscribedConsumes
    <3>3. CASE u = t
      BY <2>1, <2>2, <3>2, <3>3 DEF ConsumeStates, curVars
    <3>4. CASE u # t
      BY <2>1, <2>2, <3>2, <3>4 DEF curVars
    <3> QED
      BY <3>3, <3>4
  <2>6. NamesHold'
    BY <2>1 DEF NamesHold, Named, NamingStates, curVars
  <2> QED
    BY <2>3, <2>4, <2>5, <2>6
<1> QED
  BY <1>1, <1>2

\* ... and leaves it whenever its connection fails.
LEMMA WaitConsumeAckKeeps ==
  ASSUME ConnInv, NEW t \in Threads, WaitConsumeAck(t)
  PROVE  ConnInv'
<1>1. st[t] = "WAIT_CONSUME_ACK" /\ UNCHANGED curVars /\ st[t] \in ConsumeStates
  BY DEF WaitConsumeAck, ConsumeStates
<1>2. CASE GoTo(t, "WAIT_VALUE_DEQUEUE") /\ UNCHANGED subs
  BY <1>1, <1>2, ConsumeKeeps DEF ConsumeStates
<1>3. CASE GoTo(t, "FAIL") /\ subs' = SubsWithout(t)
  <2> USE DEF ConnInv, ConnTypes, GoTo, curVars
  <2>1. current_queue[t] \in Queues
    BY <1>1 DEF ConsumersHaveQueues
  <2>2. ConnTypes'
    BY <1>1, <1>3, <2>1 DEF States, SubsWithout
  <2>3. ConsumersHaveQueues'
    BY <1>1, <1>3 DEF ConsumersHaveQueues, ConsumeStates
  <2>4. SubscribedConsumes'
    <3> SUFFICES ASSUME NEW u \in Threads, NEW q \in Queues, st'[u] # "DEAD"
                 PROVE  u \in subs'[q] <=> st'[u] \in ConsumeStates /\ current_queue'[u] = q
      BY DEF SubscribedConsumes
    <3>1. u \in subs[q] <=> st[u] \in ConsumeStates /\ current_queue[u] = q
      BY <1>1, <1>3 DEF SubscribedConsumes
    <3>2. CASE u = t
      BY <1>1, <1>3, <2>1, <3>1, <3>2 DEF ConsumeStates, SubsWithout
    <3>3. CASE u # t
      BY <1>1, <1>3, <2>1, <3>1, <3>3 DEF SubsWithout
    <3> QED
      BY <3>2, <3>3
  <2>5. NamesHold'
    BY <1>1, <1>3 DEF NamesHold, Named, NamingStates, PublishStates, ConsumeStates
  <2> QED
    BY <2>2, <2>3, <2>4, <2>5
<1> QED
  BY <1>2, <1>3 DEF WaitConsumeAck

LEMMA DequeueKeeps ==
  ASSUME ConnInv, NEW t \in Threads,
         WaitValueDequeue(t) \/ ValueDequeueReceived(t)
  PROVE  ConnInv'
<1>1. CASE Crash
  BY <1>1, CrashKeeps
<1>2. CASE ~Crash
  <2>1. PICK s \in {"VALUE_DEQUEUE_RECEIVED", "WAIT_CONSUME_ACK"} : GoTo(t, s)
    BY <1>2 DEF WaitValueDequeue, ValueDequeueReceived
  <2>2. st[t] \in ConsumeStates /\ s \in ConsumeStates
    BY <1>2 DEF WaitValueDequeue, ValueDequeueReceived, ConsumeStates
  <2>3. UNCHANGED <<curVars, subs>>
    BY <1>2 DEF WaitValueDequeue, ValueDequeueReceived, poolVars
  <2> QED
    BY <2>1, <2>2, <2>3, ConsumeKeeps
<1> QED
  BY <1>1, <1>2

-----------------------------------------------------------------------------
LEMMA InitInv == Init => ConnInv
<1> SUFFICES ASSUME Init PROVE ConnInv
  OBVIOUS
<1>1. ConnTypes
  BY DEF Init, ConnTypes, States
<1>2. \A t \in Threads : st[t] = "CLOSED"
  BY DEF Init
<1>3. \A t \in Threads, q \in Queues : t \notin subs[q]
  BY DEF Init
<1> QED
  BY <1>1, <1>2, <1>3 DEF ConnInv, ConsumersHaveQueues, SubscribedConsumes,
     NamesHold, NamingStates, ConsumeStates, PublishStates

LEMMA NextKeeps == ConnInv /\ [Next]_connVars => ConnInv'
<1> SUFFICES ASSUME ConnInv, [Next]_connVars PROVE ConnInv'
  OBVIOUS
<1>1. ASSUME NEW t \in Threads, Step(t) PROVE ConnInv'
  BY <1>1, ClosedKeeps, OpeningKeeps, WaitFunctionalKeeps, PublishKeeps,
     WaitPublishContentKeeps, SubscribeKeeps, DequeueKeeps, WaitConsumeAckKeeps
     DEF Step
<1>2. CASE UNCHANGED connVars
  BY <1>2, QuietKeeps DEF connVars, poolVars
<1> QED
  BY <1>1, <1>2, ClosedKeeps DEF Next

LEMMA ConnInvariant == Spec => []ConnInv
<1> QED
  BY InitInv, NextKeeps, PTL DEF Spec

\* Whatever the clients send and however their connections end, the ring of a
\* queue has exactly the slots whose connections consume from it.
THEOREM SubscribersConsume == Spec => []SubscribedConsumes
<1>1. ConnInv => SubscribedConsumes
  BY DEF ConnInv
<1> QED
  BY <1>1, ConnInvariant, PTL

\* current_queue is the queue of the last name in every state that uses it.
THEOREM LastNameCounts == Spec => []QueueOfLastName
<1>1. ConnInv => QueueOfLastName
  BY DEF ConnInv, NamesHold, Named, NamingStates, QueueOfLastName
<1> QED
  BY <1>1, ConnInvariant, PTL

-----------------------------------------------------------------------------
\* What the buffers and the queues hold.  What a thread enqueues, also when its
\* connection breaks, is what it parsed last, so that has to be a payload in
\* every state from which it may come to enqueue.
Buffers == Methods \cup Msgs \cup {Header, Unreadable, Null}
Kept == {Header, Publish} \cup sent

BufTypes ==
  /\ recvline \in [Threads -> Payloads \cup {Null}]
  /\ parsed \in [Threads -> Buffers]
  /\ declared \subseteq Queues
  /\ msgs \in [Queues -> Seq(Kept)]
  /\ sent \subseteq Msgs
  /\ delivered \subseteq sent

\* The content of the buffers where it counts.
Content(s, p, r) ==
  /\ s \in {"BASIC_PUBLISH_RECEIVED", "WAIT_PUBLISH_CONTENT_HEADER"} => p = Publish
  /\ s = "WAIT_PUBLISH_CONTENT" => p \in Kept
  /\ s = "VALUE_DEQUEUE_RECEIVED" => r \in Kept

BufContents == \A t \in Threads : Content(st[t], parsed[t], recvline[t])

\* A read can fail only on a connection that is open and whose client has gone.
NetInv ==
  /\ gone \subseteq Threads /\ lost \subseteq Threads
  /\ failing \subseteq {t \in gone : st[t] # "CLOSED"}

BufInv == BufTypes /\ BufContents /\ NetInv

\* Most steps: thread t goes on to state s, with nothing in its hands before or
\* after, and queues and history stay what they are.
MoveTo(t, s) ==
  /\ GoTo(t, s)
  /\ st[t] \notin {"VALUE_DEQUEUE_RECEIVED", "DEAD"}
  /\ s \in States \ {"VALUE_DEQUEUE_RECEIVED", "DEAD"}
  /\ \E p \in Buffers :
       /\ parsed' = [parsed EXCEPT ![t] = p]
       /\ Content(s, p, Null)
  /\ recvline' \in {recvline, [recvline EXCEPT ![t] = Null]}
  /\ \A u \in Threads \ {t} : current_queue'[u] = current_queue[u]
  /\ \/ gone' = gone
     \/ gone' = gone \ {t} /\ st[t] = "CLOSED"
  /\ \/ failing' = failing /\ s # "CLOSED"
     \/ failing' = failing \ {t}
  /\ lost' \subseteq lost \cup {t}
  /\ declared' \subseteq declared \cup Queues
  /\ UNCHANGED <<msgs, history>>

\* The steps that the queues see.
Subscribing(t) ==
  /\ st[t] = "BASIC_CONSUME_RECEIVED"
  /\ current_queue[t] # Null
  /\ subs' = [subs EXCEPT ![current_queue[t]] = @ \cup {t}]
  /\ MoveTo(t, "WAIT_VALUE_DEQUEUE")

Leaving(t) ==
  /\ st[t] = "WAIT_CONSUME_ACK"
  /\ subs' = [subs EXCEPT ![current_queue[t]] = @ \ {t}]
  /\ MoveTo(t, "FAIL")

Sending(t) ==
  /\ st[t] = "VALUE_DEQUEUE_RECEIVED"
  /\ delivered' = delivered \cup ({recvline[t]} \cap Msgs)
  /\ GoTo(t, "WAIT_CONSUME_ACK")
  /\ lost' \subseteq lost \cup {t}
  /\ UNCHANGED <<curVars, bufVars, gone, failing, poolVars, sent>>

Publishing(t) ==
  /\ st[t] = "WAIT_PUBLISH_CONTENT" /\ current_queue[t] # Null
  /\ PublishBody(t) \/ PublishCutBody(t)

Moves(t) == UNCHANGED subs /\ \E s \in States : MoveTo(t, s)

-----------------------------------------------------------------------------
\* Each step is one of these.
LEMMA ReadMoves ==
  ASSUME ConnInv, BufInv, NEW t \in Threads, NEW m, NEW s \in States,
         ReadMethod(t, m), GoTo(t, s), UNCHANGED <<gone, msgs, history>>,
         \A u \in Threads \ {t} : current_queue'[u] = current_queue[u],
         declared' \subseteq declared \cup Queues,
         st[t] \notin {"VALUE_DEQUEUE_RECEIVED", "DEAD"},
         s \notin {"VALUE_DEQUEUE_RECEIVED", "DEAD"},
         s \in PublishStates => s = "BASIC_PUBLISH_RECEIVED" /\ m = Publish
  PROVE  MoveTo(t, s)
<1>1. /\ m \in Buffers /\ failing' = failing \ {t} /\ lost' \subseteq lost \cup {t}
      /\ parsed' = [parsed EXCEPT ![t] = m] /\ recvline' = [recvline EXCEPT ![t] = Null]
  BY DEF ReadMethod, ReportFailure, Readable, Buffers
<1>2. Content(s, m, Null)
  BY DEF Content, PublishStates
<1> QED
  BY <1>1, <1>2 DEF MoveTo

LEMMA StayMoves ==
  ASSUME ConnInv, BufInv, NEW t \in Threads, NEW s \in States,
         GoTo(t, s), UNCHANGED <<curVars, bufVars, gone, declared, msgs, history>>,
         failing' \in {failing, failing \ {t}}, lost' \subseteq lost \cup {t},
         st[t] \notin {"VALUE_DEQUEUE_RECEIVED", "DEAD"},
         s \notin {"VALUE_DEQUEUE_RECEIVED", "DEAD", "CLOSED"},
         Content(s, parsed[t], Null)
  PROVE  MoveTo(t, s)
<1>1. parsed[t] \in Buffers /\ parsed' = [parsed EXCEPT ![t] = parsed[t]]
  BY DEF BufInv, BufTypes, bufVars
<1> QED
  BY <1>1 DEF MoveTo, curVars, bufVars

LEMMA AwaitMoves ==
  ASSUME ConnInv, BufInv, NEW t \in Threads, NEW here, NEW m, NEW next,
         next \in OpeningStates,
         here \notin {"VALUE_DEQUEUE_RECEIVED", "DEAD"}, AwaitMethod(t, here, m, next)
  PROVE  Moves(t)
<1>1. PICK r \in Readable(t) : ReadMethod(t, r) /\ GoTo(t, IF r = m THEN next ELSE "FAIL")
  BY DEF AwaitMethod
<1>2. PICK s \in OpeningStates \cup {"FAIL"} : GoTo(t, s)
  BY <1>1
<1>3. st[t] = here /\ UNCHANGED <<curVars, gone, declared, msgs, subs, history>>
  BY DEF AwaitMethod, poolVars
<1>4. s \in States /\ s \notin PublishStates \cup {"VALUE_DEQUEUE_RECEIVED", "DEAD"}
  BY DEF States, OpeningStates, PublishStates
<1> QED
  BY <1>1, <1>2, <1>3, <1>4, ReadMoves DEF Moves, curVars

LEMMA AnswerMoves ==
  ASSUME ConnInv, BufInv, NEW t \in Threads, NEW here, NEW next,
         next \in OpeningStates \cup {"WAIT_FUNCTIONAL", "FINISHED"},
         here \notin {"VALUE_DEQUEUE_RECEIVED", "DEAD"}, Answer(t, here, next)
  PROVE  Moves(t) \/ Crash
<1>1. CASE GoTo(t, next) /\ Write(t) /\ UNCHANGED <<curVars, bufVars, gone, failing, poolVars, history>>
  <2>1. /\ st[t] = here /\ GoTo(t, next) /\ lost' \subseteq lost \cup {t}
        /\ UNCHANGED <<curVars, bufVars, gone, failing, declared, msgs, subs, history>>
    BY <1>1 DEF Answer, Write, poolVars
  <2>2. next \in States /\ next \notin {"VALUE_DEQUEUE_RECEIVED", "DEAD", "CLOSED"}
    BY DEF States, OpeningStates
  <2>3. Content(next, parsed[t], Null)
    BY DEF Content, OpeningStates
  <2> QED
    BY <2>1, <2>2, <2>3, StayMoves DEF Moves
<1> QED
  BY <1>1 DEF Answer, WriteCrash

LEMMA OpeningMoves ==
  ASSUME ConnInv, BufInv, NEW t \in Threads,
         \/ Wait(t) \/ HeaderReceived(t) \/ WaitStartOk(t) \/ StartOkReceived(t)
         \/ WaitTuneOk(t) \/ WaitOpenConnection(t) \/ OpenConnectionReceived(t)
         \/ CloseConnectionReceived(t) \/ WaitOpenChannel(t)
         \/ OpenChannelReceived(t) \/ CloseChannelReceived(t)
         \/ QueueDeclareReceived(t)
  PROVE  Moves(t) \/ Crash
<1>1. CASE Wait(t)
  <2>1. PICK s \in {"FAIL", "HEADER_RECEIVED"} : GoTo(t, s)
    BY <1>1 DEF Wait
  <2>2. /\ st[t] = "WAIT" /\ failing' = failing \ {t} /\ lost' \subseteq lost \cup {t}
        /\ UNCHANGED <<curVars, bufVars, gone, declared, msgs, subs, history>>
    BY <1>1 DEF Wait, ReportFailure, poolVars
  <2>3. s \in States /\ s \notin {"VALUE_DEQUEUE_RECEIVED", "DEAD", "CLOSED"}
    BY DEF States, OpeningStates
  <2>4. Content(s, parsed[t], Null)
    BY DEF Content
  <2> QED
    BY <2>1, <2>2, <2>3, <2>4, StayMoves DEF Moves
<1>2. CASE WaitStartOk(t) \/ WaitTuneOk(t) \/ WaitOpenConnection(t)
  <2>1. {"START_OK_RECEIVED", "WAIT_OPEN_CONNECTION", "OPEN_CONNECTION_RECEIVED"}
          \subseteq OpeningStates
    BY DEF OpeningStates
  <2> QED
    BY <1>2, <2>1, AwaitMoves DEF WaitStartOk, WaitTuneOk, WaitOpenConnection
<1>3. CASE \/ HeaderReceived(t) \/ StartOkReceived(t) \/ OpenConnectionReceived(t)
           \/ CloseConnectionReceived(t) \/ OpenChannelReceived(t)
           \/ CloseChannelReceived(t) \/ QueueDeclareReceived(t)
  <2>1. {"WAIT_START_OK", "WAIT_TUNE_OK", "WAIT_OPEN_CHANNEL"} \subseteq OpeningStates
    BY DEF OpeningStates
  <2> QED
    BY <1>3, <2>1, AnswerMoves DEF HeaderReceived, StartOkReceived, OpenConnectionReceived,
       CloseConnectionReceived, OpenChannelReceived, CloseChannelReceived, QueueDeclareReceived
<1>4. CASE WaitOpenChannel(t)
  <2>1. PICK r \in Readable(t) : ReadMethod(t, r) /\ GoTo(t, CASE r = ChannelOpen -> "OPEN_CHANNEL_RECEIVED"
                    [] r = Close -> "CLOSE_CONNECTION_RECEIVED"
                    [] OTHER -> "FAIL")
    BY <1>4 DEF WaitOpenChannel
  <2>2. PICK s \in {"OPEN_CHANNEL_RECEIVED", "CLOSE_CONNECTION_RECEIVED", "FAIL"} : GoTo(t, s)
    BY <2>1
  <2>3. st[t] = "WAIT_OPEN_CHANNEL" /\ UNCHANGED <<curVars, gone, declared, msgs, subs, history>>
    BY <1>4 DEF WaitOpenChannel, poolVars
  <2>4. s \in States /\ s \notin PublishStates \cup {"VALUE_DEQUEUE_RECEIVED", "DEAD"}
    BY DEF States, OpeningStates, PublishStates
  <2> QED
    BY <2>1, <2>2, <2>3, <2>4, ReadMoves DEF Moves, curVars
<1> QED
  BY <1>1, <1>2, <1>3, <1>4

\* A queue is named, or the connection closes: no other queue is touched.
LEMMA NamingMoves ==
  ASSUME ConnInv, BufInv, NEW t \in Threads, WaitFunctional(t) \/ NextPublishMethod(t)
  PROVE  Moves(t)
<1>1. /\ st[t] \in {"WAIT_FUNCTIONAL", "WAIT_PUBLISH_CONTENT"}
      /\ UNCHANGED <<gone, msgs, subs, history>>
  BY DEF WaitFunctional, NextPublishMethod
<1>2. PICK r, s :
        /\ ReadMethod(t, r) /\ GoTo(t, s)
        /\ s \in {"CLOSE_CHANNEL_RECEIVED", "CLOSE_CONNECTION_RECEIVED", "FAIL",
                  "QUEUE_DECLARE_RECEIVED", "BASIC_PUBLISH_RECEIVED", "BASIC_CONSUME_RECEIVED"}
        /\ s = "BASIC_PUBLISH_RECEIVED" => r = Publish
        /\ \/ UNCHANGED <<curVars, declared>>
           \/ \E q \in Queues : SelectQueue(t, q) \/ CreateQueue(t, q)
  <2>1. CASE WaitFunctional(t)
    BY <2>1 DEF WaitFunctional, UnexpectedMethod
  <2>2. CASE NextPublishMethod(t)
    BY <2>2 DEF NextPublishMethod, UnexpectedInContent
  <2> QED
    BY <2>1, <2>2
<1>3. /\ \A u \in Threads \ {t} : current_queue'[u] = current_queue[u]
      /\ declared' \subseteq declared \cup Queues
  BY <1>2 DEF SelectQueue, CreateQueue, curVars, ConnInv, ConnTypes
<1>4. /\ s \in States /\ s \notin {"VALUE_DEQUEUE_RECEIVED", "DEAD"}
      /\ s \in PublishStates => s = "BASIC_PUBLISH_RECEIVED"
  BY <1>2 DEF States, PublishStates
<1> QED
  BY <1>1, <1>2, <1>3, <1>4, ReadMoves DEF Moves

LEMMA PublishMoves ==
  ASSUME ConnInv, BufInv, NEW t \in Threads,
         BasicPublishReceived(t) \/ WaitPublishContentHeader(t)
  PROVE  Moves(t)
<1>1. /\ st[t] \in {"BASIC_PUBLISH_RECEIVED", "WAIT_PUBLISH_CONTENT_HEADER"}
      /\ UNCHANGED <<curVars, recvline, gone, declared, msgs, subs, history>>
      /\ failing' \in {failing, failing \ {t}} /\ lost' \subseteq lost \cup {t}
  BY DEF BasicPublishReceived, WaitPublishContentHeader, ReportFailure, Pass, netVars, poolVars, bufVars
<1>2. PICK s \in {"FAIL", "WAIT_PUBLISH_CONTENT_HEADER", "WAIT_PUBLISH_CONTENT"},
           p \in {parsed[t], Header} :
        GoTo(t, s) /\ parsed' = [parsed EXCEPT ![t] = p]
  <2>1. parsed = [parsed EXCEPT ![t] = parsed[t]]
    BY DEF BufInv, BufTypes
  <2>2. CASE BasicPublishReceived(t)
    <3>1. GoTo(t, "WAIT_PUBLISH_CONTENT_HEADER") /\ parsed' = parsed
      BY <2>2 DEF BasicPublishReceived, Pass, bufVars
    <3> QED
      BY <2>1, <3>1
  <2>3. CASE WaitPublishContentHeader(t)
    <3>1. /\ GoTo(t, "FAIL") \/ GoTo(t, "WAIT_PUBLISH_CONTENT")
          /\ parsed' \in {parsed, [parsed EXCEPT ![t] = Header]}
      BY <2>3 DEF WaitPublishContentHeader, bufVars
    <3> QED
      BY <2>1, <3>1
  <2> QED
    BY <2>2, <2>3
<1>3. parsed[t] = Publish
  BY <1>1 DEF BufInv, BufContents, Content
<1>4. s = "WAIT_PUBLISH_CONTENT_HEADER" => p = Publish
  <2>1. s = "WAIT_PUBLISH_CONTENT_HEADER" => BasicPublishReceived(t)
    BY <1>1, <1>2 DEF WaitPublishContentHeader, GoTo, ConnInv, ConnTypes
  <2>2. BasicPublishReceived(t) => parsed'[t] = Publish
    BY <1>3 DEF BasicPublishReceived, Pass, bufVars
  <2> QED
    BY <1>2, <2>1, <2>2 DEF BufInv, BufTypes
<1>5. p \in Buffers /\ Content(s, p, Null)
  BY <1>2, <1>3, <1>4 DEF Content, Buffers, Kept, Methods
<1>6. s \in States \ {"VALUE_DEQUEUE_RECEIVED", "DEAD"} /\ s # "CLOSED"
  BY <1>2 DEF States, PublishStates
<1> QED
  BY <1>1, <1>2, <1>5, <1>6 DEF Moves, MoveTo, curVars

LEMMA OpenCloseMoves ==
  ASSUME ConnInv, BufInv, NEW t \in Threads, Connect(t) \/ End(t)
  PROVE  Moves(t)
<1>1. PICK s \in {"WAIT", "CLOSED"} :
        /\ GoTo(t, s) /\ st[t] \in {"CLOSED", "FINISHED", "FAIL"}
        /\ s = "CLOSED" => failing' = failing \ {t} /\ gone' = gone
        /\ s = "WAIT" => failing' = failing /\ gone' = gone \ {t} /\ st[t] = "CLOSED"
        /\ lost' \subseteq lost \cup {t}
        /\ current_queue' = [current_queue EXCEPT ![t] = Null]
        /\ parsed' = [parsed EXCEPT ![t] = Null]
        /\ recvline' = [recvline EXCEPT ![t] = Null]
        /\ UNCHANGED <<declared, msgs, subs, history>>
  BY DEF Connect, End, poolVars
<1>2. Null \in Buffers /\ Content(s, Null, Null)
  BY <1>1 DEF Content, Buffers
<1>3. s \in States \ {"VALUE_DEQUEUE_RECEIVED", "DEAD"}
  BY DEF States, OpeningStates
<1>4. \A u \in Threads \ {t} : current_queue'[u] = current_queue[u]
  BY <1>1 DEF ConnInv, ConnTypes
<1> QED
  BY <1>1, <1>2, <1>3, <1>4 DEF Moves, MoveTo

LEMMA ConsumeMoves ==
  ASSUME ConnInv, BufInv, NEW t \in Threads,
         BasicConsumeReceived(t) \/ WaitConsumeAck(t)
  PROVE  Moves(t) \/ Subscribing(t) \/ Leaving(t) \/ Crash
<1> SUFFICES ASSUME ~Crash PROVE Moves(t) \/ Subscribing(t) \/ Leaving(t)
  OBVIOUS
<1>1. {"WAIT_VALUE_DEQUEUE", "FAIL"} \subseteq States
  BY DEF States, ConsumeStates
<1>2. CASE BasicConsumeReceived(t)
  <2>1. /\ st[t] = "BASIC_CONSUME_RECEIVED" /\ current_queue[t] # Null
        /\ subs' = [subs EXCEPT ![current_queue[t]] = @ \cup {t}]
        /\ GoTo(t, "WAIT_VALUE_DEQUEUE") /\ lost' \subseteq lost \cup {t}
        /\ UNCHANGED <<curVars, bufVars, gone, failing, declared, msgs, history>>
    BY <1>2 DEF BasicConsumeReceived, Write, WriteCrash
  <2>2. Content("WAIT_VALUE_DEQUEUE", parsed[t], Null)
    BY DEF Content
  <2> QED
    BY <1>1, <2>1, <2>2, StayMoves DEF Subscribing
<1>3. CASE WaitConsumeAck(t)
  <2>1. PICK r, s :
          /\ ReadMethod(t, r) /\ GoTo(t, s) /\ s \in {"WAIT_VALUE_DEQUEUE", "FAIL"}
          /\ \/ UNCHANGED subs
             \/ s = "FAIL" /\ subs' = [subs EXCEPT ![current_queue[t]] = @ \ {t}]
    BY <1>3 DEF WaitConsumeAck, SubsWithout
  <2>2. st[t] = "WAIT_CONSUME_ACK" /\ UNCHANGED <<curVars, gone, declared, msgs, history>>
    BY <1>3 DEF WaitConsumeAck
  <2>3. s \in States /\ s \notin PublishStates
    BY <1>1, <2>1 DEF PublishStates
  <2>4. MoveTo(t, s)
    BY <2>1, <2>2, <2>3, ReadMoves DEF curVars
  <2> QED
    BY <2>1, <2>2, <2>3, <2>4 DEF Moves, Leaving
<1> QED
  BY <1>2, <1>3

LEMMA StepsAre ==
  ASSUME ConnInv, BufInv, Next
  PROVE  \/ Crash
         \/ \E t \in Threads :
              \/ Moves(t) \/ ClientGone(t)
              \/ Subscribing(t) \/ Leaving(t) \/ Publishing(t)
              \/ WaitValueDequeue(t) \/ Sending(t)
<1>1. PICK t \in Threads : Connect(t) \/ ClientGone(t) \/ Step(t)
  BY DEF Next
<1>2. CASE WaitPublishContent(t)
  <2>1. PublishBody(t) \/ PublishCutBody(t) => st[t] = "WAIT_PUBLISH_CONTENT"
    BY DEF PublishBody, PublishCutBody
  <2> QED
    BY <1>2, <2>1, NamingMoves DEF WaitPublishContent, PublishCrash, Publishing
<1>3. CASE ValueDequeueReceived(t)
  BY <1>3 DEF ValueDequeueReceived, Write, Sending
<1> QED
  BY <1>1, <1>2, <1>3, OpeningMoves, NamingMoves, PublishMoves, OpenCloseMoves, ConsumeMoves
     DEF Step

-----------------------------------------------------------------------------
\* The buffers hold payloads where it counts.
LEMMA BufMove ==
  ASSUME ConnInv, BufInv, NEW t \in Threads, NEW s \in States, MoveTo(t, s)
  PROVE  BufInv'
<1>1. PICK p \in Buffers :
        parsed' = [parsed EXCEPT ![t] = p] /\ Content(s, p, Null)
  BY DEF MoveTo
<1>2. /\ st' = [st EXCEPT ![t] = s] /\ s \notin {"VALUE_DEQUEUE_RECEIVED", "DEAD"}
      /\ recvline' \in {recvline, [recvline EXCEPT ![t] = Null]}
      /\ UNCHANGED <<msgs, sent, delivered>> /\ declared' \subseteq declared \cup Queues
  BY DEF MoveTo, GoTo, history
<1>3. BufTypes'
  BY <1>1, <1>2 DEF BufInv, BufTypes, Kept
<1>4. BufContents'
  <2> SUFFICES ASSUME NEW u \in Threads PROVE Content(st[u], parsed[u], recvline[u])'
    BY DEF BufContents
  <2>1. CASE u = t
    BY <1>1, <1>2, <2>1 DEF Content, Kept, BufInv, BufTypes, ConnInv, ConnTypes
  <2>2. CASE u # t
    <3>1. st'[u] = st[u] /\ parsed'[u] = parsed[u] /\ recvline'[u] = recvline[u]
      BY <1>1, <1>2, <2>2 DEF BufInv, BufTypes, ConnInv, ConnTypes
    <3>2. Content(st[u], parsed[u], recvline[u])
      BY DEF BufInv, BufContents
    <3> QED
      BY <1>2, <3>1, <3>2 DEF Content, Kept
  <2> QED
    BY <2>1, <2>2
<1>5. NetInv'
  BY <1>2 DEF MoveTo, BufInv, NetInv, ConnInv, ConnTypes
<1> QED
  BY <1>3, <1>4, <1>5 DEF BufInv

LEMMA BufGone ==
  ASSUME ConnInv, BufInv, NEW t \in Threads, ClientGone(t)
  PROVE  BufInv'
<1>1. /\ st[t] # "CLOSED" /\ gone' = gone \cup {t}
      /\ failing' \in {failing, failing \cup {t}} /\ lost' = lost
      /\ UNCHANGED <<st, recvline, parsed, declared, msgs, sent, delivered>>
  BY DEF ClientGone, bufVars, poolVars, history
<1>2. BufTypes' /\ BufContents'
  BY <1>1 DEF BufInv, BufTypes, BufContents, Content, Kept
<1>3. NetInv'
  BY <1>1 DEF BufInv, NetInv
<1> QED
  BY <1>2, <1>3 DEF BufInv

\* What is enqueued is a body that has just been sent, or what the buffer held.
LEMMA Enqueued ==
  ASSUME ConnInv, BufInv, NEW t \in Threads, Publishing(t)
  PROVE  \E m \in Kept' :
           /\ current_queue[t] \in Queues
           /\ Len(msgs[current_queue[t]]) < MaxLength
           /\ msgs' = [msgs EXCEPT ![current_queue[t]] = Append(@, m)]
           /\ \/ m \in Msgs \ sent /\ sent' = sent \cup {m} /\ parsed' = [parsed EXCEPT ![t] = m]
              \/ Cuts /\ m \in Kept /\ sent' = sent /\ parsed' = parsed
<1>1. current_queue[t] \in Queues /\ st[t] = "WAIT_PUBLISH_CONTENT"
  BY DEF Publishing, ConnInv, ConnTypes
<1>2. CASE PublishBody(t)
  <2>1. PICK m \in Msgs \ sent :
          /\ sent' = sent \cup {m} /\ parsed' = [parsed EXCEPT ![t] = m]
          /\ Len(msgs[current_queue[t]]) < MaxLength
          /\ Enqueue(current_queue[t], m)
    BY <1>2 DEF PublishBody
  <2> QED
    BY <1>1, <2>1 DEF Enqueue, Kept
<1>3. CASE PublishCutBody(t)
  <2>1. parsed[t] \in Kept
    BY <1>1 DEF BufInv, BufContents, Content
  <2> QED
    BY <1>1, <1>3, <2>1 DEF PublishCutBody, Enqueue, Kept, bufVars, history
<1> QED
  BY <1>2, <1>3 DEF Publishing

LEMMA BufPublish ==
  ASSUME ConnInv, BufInv, NEW t \in Threads, Publishing(t)
  PROVE  BufInv'
<1>1. PICK m \in Kept' :
           /\ current_queue[t] \in Queues
           /\ msgs' = [msgs EXCEPT ![current_queue[t]] = Append(@, m)]
           /\ \/ m \in Msgs \ sent /\ sent' = sent \cup {m} /\ parsed' = [parsed EXCEPT ![t] = m]
              \/ m \in Kept /\ sent' = sent /\ parsed' = parsed
  BY Enqueued
<1>2. /\ st[t] = "WAIT_PUBLISH_CONTENT"
      /\ UNCHANGED <<st, recvline, declared, delivered>>
      /\ \/ UNCHANGED <<gone, failing>>
         \/ gone' = gone \cup {t} /\ failing' = failing \ {t}
      /\ lost' \subseteq lost \cup {t}
  BY DEF Publishing, PublishBody, PublishCutBody, ReportFailure, bufVars, netVars, history
<1>3. Kept \subseteq Kept'
  BY <1>1 DEF Kept
<1>4. BufTypes'
  <2>1. msgs' \in [Queues -> Seq(Kept')]
    <3>1. \A q \in Queues : msgs[q] \in Seq(Kept')
      BY <1>3 DEF BufInv, BufTypes
    <3>2. Append(msgs[current_queue[t]], m) \in Seq(Kept')
      BY <1>1, <3>1
    <3> QED
      BY <1>1, <3>1, <3>2 DEF BufInv, BufTypes
  <2>2. parsed' \in [Threads -> Buffers]
    BY <1>1 DEF BufInv, BufTypes, Buffers
  <2> QED
    BY <1>1, <1>2, <2>1, <2>2 DEF BufInv, BufTypes
<1>5. BufContents'
  <2> SUFFICES ASSUME NEW u \in Threads PROVE Content(st[u], parsed[u], recvline[u])'
    BY DEF BufContents
  <2>1. Content(st[u], parsed[u], recvline[u])
    BY DEF BufInv, BufContents
  <2>2. CASE u = t
    BY <1>1, <1>2, <1>3, <2>1, <2>2 DEF Content, BufInv, BufTypes
  <2>3. CASE u # t
    BY <1>1, <1>2, <1>3, <2>1, <2>3 DEF Content, BufInv, BufTypes
  <2> QED
    BY <2>2, <2>3
<1>6. NetInv'
  BY <1>2 DEF BufInv, NetInv
<1> QED
  BY <1>4, <1>5, <1>6 DEF BufInv

\* A dequeue takes the oldest message of the thread's queue.
LEMMA Dequeued ==
  ASSUME ConnInv, BufInv, NEW t \in Threads, WaitValueDequeue(t)
  PROVE  /\ current_queue[t] \in Queues /\ st[t] = "WAIT_VALUE_DEQUEUE"
         /\ msgs[current_queue[t]] \in Seq(Kept) /\ msgs[current_queue[t]] # <<>>
         /\ Head(msgs[current_queue[t]]) \in Kept
         /\ msgs' = [msgs EXCEPT ![current_queue[t]] = Tail(@)]
         /\ recvline' = [recvline EXCEPT ![t] = Head(msgs[current_queue[t]])]
         /\ st' = [st EXCEPT ![t] = "VALUE_DEQUEUE_RECEIVED"]
         /\ UNCHANGED <<current_queue, parsed, gone, failing, lost, declared, subs, sent, delivered>>
<1>1. st[t] = "WAIT_VALUE_DEQUEUE"
  BY DEF WaitValueDequeue
<1>2. current_queue[t] \in Queues
  BY <1>1 DEF ConnInv, ConnTypes, ConsumersHaveQueues, ConsumeStates
<1>3. msgs[current_queue[t]] \in Seq(Kept) /\ msgs[current_queue[t]] # <<>>
  BY <1>2 DEF WaitValueDequeue, BufInv, BufTypes
<1>4. Head(msgs[current_queue[t]]) \in Kept
  BY <1>3
<1> QED
  BY <1>1, <1>2, <1>3, <1>4
     DEF WaitValueDequeue, MsgsAfterDequeue, GoTo, curVars, netVars, history

LEMMA BufDequeue ==
  ASSUME ConnInv, BufInv, NEW t \in Threads, WaitValueDequeue(t)
  PROVE  BufInv'
<1>1. Kept' = Kept /\ Kept \subseteq Payloads
  BY Dequeued DEF Kept, Payloads, BufInv, BufTypes
<1>2. BufTypes'
  <2>1. Tail(msgs[current_queue[t]]) \in Seq(Kept)
    BY Dequeued
  <2>2. msgs' \in [Queues -> Seq(Kept)]
    <3>1. msgs \in [Queues -> Seq(Kept)]
      BY DEF BufInv, BufTypes
    <3>2. msgs' = [msgs EXCEPT ![current_queue[t]] = Tail(msgs[current_queue[t]])]
      BY <3>1, Dequeued
    <3> QED
      BY <2>1, <3>1, <3>2
  <2>3. recvline' \in [Threads -> Payloads \cup {Null}]
    BY <1>1, Dequeued DEF BufInv, BufTypes
  <2> QED
    BY <1>1, <2>2, <2>3, Dequeued DEF BufInv, BufTypes
<1>3. BufContents'
  BY <1>1, Dequeued DEF BufInv, BufTypes, BufContents, Content, ConnInv, ConnTypes
<1>4. NetInv'
  BY Dequeued DEF BufInv, NetInv, ConnInv, ConnTypes
<1> QED
  BY <1>2, <1>3, <1>4 DEF BufInv

LEMMA BufSend ==
  ASSUME ConnInv, BufInv, NEW t \in Threads, Sending(t)
  PROVE  BufInv'
<1>1. /\ st[t] = "VALUE_DEQUEUE_RECEIVED" /\ st' = [st EXCEPT ![t] = "WAIT_CONSUME_ACK"]
      /\ delivered' = delivered \cup ({recvline[t]} \cap Msgs)
      /\ UNCHANGED <<recvline, parsed, gone, failing, declared, msgs, sent>>
      /\ lost' \subseteq lost \cup {t}
  BY DEF Sending, GoTo, bufVars, netVars, poolVars
<1>2. {recvline[t]} \cap Msgs \subseteq sent
  BY <1>1, BuffersAssumption DEF BufInv, BufContents, Content, Kept
<1>3. BufTypes'
  BY <1>1, <1>2 DEF BufInv, BufTypes, Kept
<1>4. BufContents'
  BY <1>1 DEF BufInv, BufContents, Content, Kept, ConnInv, ConnTypes
<1>5. NetInv'
  BY <1>1 DEF BufInv, NetInv, ConnInv, ConnTypes
<1> QED
  BY <1>3, <1>4, <1>5 DEF BufInv

LEMMA BufCrash ==
  ASSUME ConnInv, BufInv, Crash
  PROVE  BufInv'
<1>1. /\ st' = [u \in Threads |-> "DEAD"] /\ recvline' = [u \in Threads |-> Null]
      /\ parsed' = [u \in Threads |-> Null] /\ gone' = {} /\ failing' = {} /\ lost' = {} /\ declared' = {}
      /\ msgs' = [q \in Queues |-> <<>>] /\ UNCHANGED <<sent, delivered>>
  BY DEF Crash, history
<1>2. BufTypes' /\ NetInv'
  BY <1>1 DEF BufInv, BufTypes, NetInv, Buffers
<1>3. BufContents'
  BY <1>1 DEF BufContents, Content
<1> QED
  BY <1>2, <1>3 DEF BufInv

LEMMA BufInit == Init => BufInv
<1> SUFFICES ASSUME Init PROVE BufInv
  OBVIOUS
<1>1. BufTypes /\ NetInv
  BY DEF Init, BufTypes, NetInv, Buffers
<1>2. BufContents
  BY DEF Init, BufContents, Content
<1> QED
  BY <1>1, <1>2 DEF BufInv

LEMMA BufKeeps == ConnInv /\ BufInv /\ [Next]_connVars => BufInv'
<1> SUFFICES ASSUME ConnInv, BufInv, [Next]_connVars PROVE BufInv'
  OBVIOUS
<1>1. CASE UNCHANGED connVars
  <2>1. UNCHANGED <<st, recvline, parsed, gone, failing, lost, declared, msgs, sent, delivered>>
    BY <1>1 DEF connVars, bufVars, netVars, poolVars, history
  <2> QED
    BY <2>1 DEF BufInv, BufTypes, BufContents, Content, NetInv, Kept
<1>2. ASSUME NEW t \in Threads, NEW s \in States, MoveTo(t, s) PROVE BufInv'
  BY <1>2, BufMove
<1>3. {"WAIT_VALUE_DEQUEUE", "FAIL"} \subseteq States
  BY DEF States, ConsumeStates
<1> QED
  BY <1>1, <1>2, <1>3, StepsAre, BufGone, BufPublish, BufDequeue, BufSend, BufCrash
     DEF Moves, Subscribing, Leaving

LEMMA BufInvariant == Spec => [](ConnInv /\ BufInv)
<1>1. Init => ConnInv /\ BufInv
  BY InitInv, BufInit
<1>2. ConnInv /\ BufInv /\ [Next]_connVars => (ConnInv /\ BufInv)'
  BY NextKeeps, BufKeeps
<1> QED
  BY <1>1, <1>2, PTL DEF Spec

\* Only payloads get into a queue, to a consumer and to its client, and only
\* bodies that clients have sent are delivered, however connections break
\* (action_wait_publish_content, action_wait_value_dequeue).
THEOREM ConnectionTypes == Spec => []TypeOK
<1>1. ConnInv /\ BufInv => TypeOK
  <2> SUFFICES ASSUME ConnInv, BufInv PROVE TypeOK
    OBVIOUS
  <2>1. Kept \subseteq Payloads
    BY DEF Kept, Payloads, BufInv, BufTypes
  <2>2. msgs \in [Queues -> Seq(Payloads)]
    BY <2>1 DEF BufInv, BufTypes
  <2>3. parsed \in [Threads -> Methods \cup Msgs \cup {Header, Unreadable, Null}]
    BY DEF BufInv, BufTypes, Buffers
  <2> QED
    BY <2>2, <2>3 DEF ConnInv, ConnTypes, BufInv, BufTypes, NetInv, TypeOK
<1> QED
  BY <1>1, BufInvariant, PTL

-----------------------------------------------------------------------------
\* Each queue is used as a FIFO queue: what its consumers have in their hands.
Hands(q) ==
  [t \in Threads |->
     IF st[t] = "VALUE_DEQUEUE_RECEIVED" /\ current_queue[t] = q THEN recvline[t] ELSE Null]

LEMMA FifoInit ==
  ASSUME Init, NEW q \in Queues
  PROVE  Fifo(q)!Init
  BY DEF Init, Fifo!Init

\* A step that the queue does not see.
LEMMA FifoSame ==
  ASSUME NEW q \in Queues, msgs'[q] = msgs[q], subs'[q] = subs[q], Hands(q)' = Hands(q)
  PROVE  UNCHANGED Fifo(q)!fifoVars
  BY DEF Fifo!fifoVars, Hands
\* Only thread t changes, and it has nothing in its hands.
LEMMA HandsKept ==
  ASSUME NEW t \in Threads, NEW q \in Queues,
         st[t] # "VALUE_DEQUEUE_RECEIVED", st'[t] # "VALUE_DEQUEUE_RECEIVED",
         \A u \in Threads \ {t} : /\ st'[u] = st[u] /\ recvline'[u] = recvline[u]
                                  /\ current_queue'[u] = current_queue[u]
  PROVE  Hands(q)' = Hands(q)
<1>1. \A u \in Threads :
        (IF st'[u] = "VALUE_DEQUEUE_RECEIVED" /\ current_queue'[u] = q THEN recvline'[u] ELSE Null)
          = IF st[u] = "VALUE_DEQUEUE_RECEIVED" /\ current_queue[u] = q THEN recvline[u] ELSE Null
  OBVIOUS
<1> QED
  BY <1>1 DEF Hands

LEMMA MoveHands ==
  ASSUME ConnInv, BufInv, NEW t \in Threads, NEW s, MoveTo(t, s), NEW q \in Queues
  PROVE  Hands(q)' = Hands(q) /\ msgs' = msgs
<1>1. \A u \in Threads \ {t} : /\ st'[u] = st[u] /\ recvline'[u] = recvline[u]
                               /\ current_queue'[u] = current_queue[u]
  BY DEF MoveTo, GoTo, ConnInv, ConnTypes, BufInv, BufTypes
<1>2. st[t] # "VALUE_DEQUEUE_RECEIVED" /\ st'[t] # "VALUE_DEQUEUE_RECEIVED" /\ msgs' = msgs
  BY DEF MoveTo, GoTo, ConnInv, ConnTypes
<1> QED
  BY <1>1, <1>2, HandsKept

FifoStep(q) == Fifo(q)!Next \/ UNCHANGED Fifo(q)!fifoVars

LEMMA MovesFifo ==
  ASSUME ConnInv, BufInv, NEW t \in Threads, Moves(t), NEW q \in Queues
  PROVE  FifoStep(q)
<1>1. UNCHANGED subs /\ Hands(q)' = Hands(q) /\ msgs' = msgs
  BY MoveHands DEF Moves
<1> QED
  BY <1>1, FifoSame DEF FifoStep

LEMMA GoneFifo ==
  ASSUME ConnInv, BufInv, NEW t \in Threads, ClientGone(t), NEW q \in Queues
  PROVE  FifoStep(q)
<1>1. UNCHANGED <<st, current_queue, recvline, msgs, subs>>
  BY DEF ClientGone, curVars, bufVars, poolVars
<1>2. Hands(q)' = Hands(q)
  BY <1>1 DEF Hands
<1> QED
  BY <1>1, <1>2, FifoSame DEF FifoStep

\* A thread subscribes to the queue it has named, of which it was no subscriber.
LEMMA SubscribeFifo ==
  ASSUME ConnInv, BufInv, NEW t \in Threads, Subscribing(t), NEW q \in Queues
  PROVE  FifoStep(q)
<1>1. /\ subs' = [subs EXCEPT ![current_queue[t]] = @ \cup {t}] /\ current_queue[t] \in Queues
      /\ st[t] = "BASIC_CONSUME_RECEIVED"
  BY DEF Subscribing, ConnInv, ConnTypes
<1>2. Hands(q)' = Hands(q) /\ msgs' = msgs
  BY MoveHands DEF Subscribing
<1>3. CASE q = current_queue[t]
  <2>1. t \notin subs[q]
    BY <1>1 DEF ConnInv, SubscribedConsumes, ConsumeStates
  <2>2. subs'[q] = subs[q] \cup {t}
    BY <1>1, <1>3 DEF ConnInv, ConnTypes
  <2>3. Fifo(q)!Subscribe(t)
    BY <1>2, <2>1, <2>2 DEF Fifo!Subscribe, Hands
  <2> QED
    BY <2>3 DEF FifoStep, Fifo!Next
<1>4. CASE q # current_queue[t]
  BY <1>1, <1>2, <1>4, FifoSame DEF FifoStep, ConnInv, ConnTypes
<1> QED
  BY <1>3, <1>4

\* A thread leaves with empty hands.
LEMMA LeaveFifo ==
  ASSUME ConnInv, BufInv, NEW t \in Threads, Leaving(t), NEW q \in Queues
  PROVE  FifoStep(q)
<1>1. /\ subs' = [subs EXCEPT ![current_queue[t]] = @ \ {t}] /\ current_queue[t] \in Queues
      /\ st[t] = "WAIT_CONSUME_ACK"
  BY DEF Leaving, ConnInv, ConnTypes, ConsumersHaveQueues, ConsumeStates
<1>2. Hands(q)' = Hands(q) /\ msgs' = msgs
  BY MoveHands DEF Leaving
<1>3. CASE q = current_queue[t]
  <2>1. t \in subs[q]
    BY <1>1, <1>3 DEF ConnInv, SubscribedConsumes, ConsumeStates
  <2>2. subs'[q] = subs[q] \ {t} /\ Hands(q)[t] = Null
    BY <1>1, <1>3 DEF ConnInv, ConnTypes, Hands
  <2>3. Fifo(q)!Leave(t)
    BY <1>2, <2>1, <2>2 DEF Fifo!Leave, Hands
  <2> QED
    BY <2>3 DEF FifoStep, Fifo!Next
<1>4. CASE q # current_queue[t]
  BY <1>1, <1>2, <1>4, FifoSame DEF FifoStep, ConnInv, ConnTypes
<1> QED
  BY <1>3, <1>4

LEMMA PublishFifo ==
  ASSUME ConnInv, BufInv, NEW t \in Threads, Publishing(t), NEW q \in Queues
  PROVE  FifoStep(q)
<1>1. PICK m \in Kept' :
        /\ current_queue[t] \in Queues
        /\ msgs' = [msgs EXCEPT ![current_queue[t]] = Append(@, m)]
        /\ m \in Msgs \/ m \in Kept
  BY Enqueued
<1>2. UNCHANGED <<st, current_queue, recvline, subs>>
  BY DEF Publishing, PublishBody, PublishCutBody, curVars, bufVars
<1>3. Hands(q)' = Hands(q)
  BY <1>2 DEF Hands
<1>4. CASE q = current_queue[t]
  <2>1. msgs'[q] = Append(msgs[q], m) /\ m \in Payloads
    BY <1>1, <1>4 DEF BufInv, BufTypes, Payloads, Kept
  <2>2. Fifo(q)!Put(m)
    BY <1>2, <1>3, <2>1 DEF Fifo!Put, Hands
  <2> QED
    BY <2>1, <2>2 DEF FifoStep, Fifo!Next
<1>5. CASE q # current_queue[t]
  BY <1>1, <1>2, <1>3, <1>5, FifoSame DEF FifoStep, BufInv, BufTypes
<1> QED
  BY <1>4, <1>5

\* A subscriber with empty hands takes the oldest message.
LEMMA TakeFifo ==
  ASSUME ConnInv, BufInv, NEW t \in Threads, WaitValueDequeue(t), NEW q \in Queues
  PROVE  FifoStep(q)
<1> DEFINE p == current_queue[t]
<1>1. /\ p \in Queues /\ st[t] = "WAIT_VALUE_DEQUEUE" /\ msgs[p] # <<>>
      /\ msgs' = [msgs EXCEPT ![p] = Tail(@)]
      /\ recvline' = [recvline EXCEPT ![t] = Head(msgs[p])]
      /\ st' = [st EXCEPT ![t] = "VALUE_DEQUEUE_RECEIVED"]
      /\ UNCHANGED <<current_queue, subs>>
  BY Dequeued
<1>2. t \in subs[p]
  BY DEF WaitValueDequeue
<1>3. CASE q = p
  <2>1. msgs'[q] = Tail(msgs[q]) /\ Hands(q)[t] = Null
    BY <1>1, <1>3 DEF BufInv, BufTypes, Hands
  <2>2. Hands(q)' = [Hands(q) EXCEPT ![t] = Head(msgs[q])]
    <3>1. ASSUME NEW u \in Threads
          PROVE  (IF st'[u] = "VALUE_DEQUEUE_RECEIVED" /\ current_queue[u] = q THEN recvline'[u] ELSE Null)
                   = IF u = t THEN Head(msgs[q])
                     ELSE IF st[u] = "VALUE_DEQUEUE_RECEIVED" /\ current_queue[u] = q
                     THEN recvline[u] ELSE Null
      <4>1. CASE u = t
        BY <1>1, <1>3, <4>1 DEF BufInv, BufTypes, ConnInv, ConnTypes
      <4>2. CASE u # t
        BY <1>1, <4>2 DEF BufInv, BufTypes, ConnInv, ConnTypes
      <4> QED
        BY <4>1, <4>2
    <3> QED
      BY <1>1, <3>1 DEF Hands
  <2>3. Fifo(q)!Take(t)
    BY <1>1, <1>2, <1>3, <2>1, <2>2 DEF Fifo!Take, Hands
  <2> QED
    BY <2>3 DEF FifoStep, Fifo!Next
<1>4. CASE q # p
  <2>1. msgs'[q] = msgs[q] /\ subs'[q] = subs[q]
    BY <1>1, <1>4 DEF BufInv, BufTypes
  <2>2. ASSUME NEW u \in Threads
        PROVE  (IF st'[u] = "VALUE_DEQUEUE_RECEIVED" /\ current_queue[u] = q THEN recvline'[u] ELSE Null)
                 = IF st[u] = "VALUE_DEQUEUE_RECEIVED" /\ current_queue[u] = q
                   THEN recvline[u] ELSE Null
    <3>1. CASE u = t
      BY <1>1, <1>4, <3>1
    <3>2. CASE u # t
      BY <1>1, <3>2 DEF BufInv, BufTypes, ConnInv, ConnTypes
    <3> QED
      BY <3>1, <3>2
  <2>3. Hands(q)' = Hands(q)
    BY <1>1, <2>2 DEF Hands
  <2> QED
    BY <2>1, <2>3, FifoSame DEF FifoStep
<1> QED
  BY <1>3, <1>4

LEMMA SendFifo ==
  ASSUME ConnInv, BufInv, NEW t \in Threads, Sending(t), NEW q \in Queues
  PROVE  FifoStep(q)
<1>1. /\ st[t] = "VALUE_DEQUEUE_RECEIVED" /\ st' = [st EXCEPT ![t] = "WAIT_CONSUME_ACK"]
      /\ UNCHANGED <<current_queue, recvline, msgs, subs>>
  BY DEF Sending, GoTo, curVars, bufVars, poolVars
<1>2. recvline[t] # Null
  <2>1. recvline[t] \in Kept
    BY <1>1 DEF BufInv, BufContents, Content
  <2> QED
    BY <2>1, BuffersAssumption DEF Kept, BufInv, BufTypes
<1>3. ASSUME NEW u \in Threads
      PROVE  (IF st'[u] = "VALUE_DEQUEUE_RECEIVED" /\ current_queue[u] = q THEN recvline[u] ELSE Null)
               = IF u = t THEN Null
                 ELSE IF st[u] = "VALUE_DEQUEUE_RECEIVED" /\ current_queue[u] = q
                 THEN recvline[u] ELSE Null
  BY <1>1 DEF ConnInv, ConnTypes
<1>4. Hands(q)' = [u \in Threads |-> IF u = t THEN Null ELSE Hands(q)[u]]
  BY <1>1, <1>3 DEF Hands
<1>5. CASE current_queue[t] = q
  <2>1. Hands(q)[t] # Null /\ Hands(q)' = [Hands(q) EXCEPT ![t] = Null]
    BY <1>1, <1>2, <1>4, <1>5 DEF Hands
  <2>2. Fifo(q)!Release(t)
    BY <1>1, <2>1 DEF Fifo!Release, Hands
  <2> QED
    BY <2>2 DEF FifoStep, Fifo!Next
<1>6. CASE current_queue[t] # q
  <2>1. Hands(q)' = Hands(q)
    BY <1>4, <1>6 DEF Hands
  <2> QED
    BY <1>1, <2>1, FifoSame DEF FifoStep
<1> QED
  BY <1>5, <1>6

LEMMA CrashFifo ==
  ASSUME Crash, NEW q \in Queues
  PROVE  FifoStep(q)
<1>1. Fifo(q)!Crash
  BY DEF Crash, Fifo!Crash
<1> QED
  BY <1>1 DEF FifoStep, Fifo!Next

LEMMA StepsFifo ==
  ASSUME ConnInv, BufInv, [Next]_connVars, NEW q \in Queues
  PROVE  FifoStep(q)
<1>1. CASE UNCHANGED connVars
  <2>1. UNCHANGED <<st, current_queue, recvline, msgs, subs>>
    BY <1>1 DEF connVars, curVars, bufVars, poolVars
  <2>2. Hands(q)' = Hands(q)
    BY <2>1 DEF Hands
  <2> QED
    BY <2>1, <2>2, FifoSame DEF FifoStep
<1> QED
  BY <1>1, StepsAre, MovesFifo, GoneFifo, SubscribeFifo, LeaveFifo, PublishFifo, TakeFifo,
     SendFifo, CrashFifo

\* The state machines use each queue as a FIFO queue: no message enters or leaves
\* a queue but through a publish and a dequeue of a subscriber with empty hands,
\* and a consumer subscribes once and leaves with empty hands
\* (action_basic_consume_received, action_wait_value_dequeue,
\* action_wait_consume_ack).
THEOREM QueuesAreFifo == Spec => UseFifoQueues
<1>1. Init => \A q \in Queues : Fifo(q)!Init
  BY FifoInit
<1>2. ConnInv /\ BufInv /\ [Next]_connVars
        => [\A q \in Queues : Fifo(q)!Next \/ UNCHANGED Fifo(q)!fifoVars]_connVars
  BY StepsFifo DEF FifoStep
<1> QED
  BY <1>1, <1>2, BufInvariant, PTL DEF Spec, UseFifoQueues

-----------------------------------------------------------------------------
\* Where the bodies are, while no connection breaks within a frame: at one
\* place of one queue, or in the hands of one thread, until they are delivered.
At(m, q, i) == q \in Queues /\ i \in 1..Len(msgs[q]) /\ msgs[q][i] = m
Holds(m, t) == t \in Threads /\ st[t] = "VALUE_DEQUEUE_RECEIVED" /\ recvline[t] = m

Undelivered == sent \ delivered

OnePlace ==
  /\ \A m, q, i : At(m, q, i) => m \in Undelivered
  /\ \A m, t : Holds(m, t) => m \in Undelivered
  /\ \A m, p, i, q, j : At(m, p, i) /\ At(m, q, j) => p = q /\ i = j
  /\ \A m, t, u : Holds(m, t) /\ Holds(m, u) => t = u
  /\ \A m, q, i, t : ~(At(m, q, i) /\ Holds(m, t))

SomePlace ==
  Alive => \A m \in Undelivered : (\E q, i : At(m, q, i)) \/ (\E t : Holds(m, t))

OnceInv ==
  /\ OnePlace
  /\ SomePlace
  /\ \A q \in Queues : Len(msgs[q]) <= MaxLength

\* Steps that leave every body where it is.
LEMMA OnceSame ==
  ASSUME ConnInv, BufInv, OnceInv, UNCHANGED <<msgs, sent, delivered>>,
         \A t \in Threads : /\ st'[t] = "VALUE_DEQUEUE_RECEIVED" <=> st[t] = "VALUE_DEQUEUE_RECEIVED"
                            /\ st[t] = "VALUE_DEQUEUE_RECEIVED" => recvline'[t] = recvline[t]
                            /\ st[t] = "DEAD" => st'[t] = "DEAD"
  PROVE  OnceInv'
<1>1. \A m, q, i : At(m, q, i)' <=> At(m, q, i)
  BY DEF At
<1>2. \A m, t : Holds(m, t)' <=> Holds(m, t)
  BY DEF Holds
<1>3. OnePlace'
  BY <1>1, <1>2 DEF OnceInv, OnePlace, Undelivered
<1>4. SomePlace'
  BY <1>1, <1>2 DEF OnceInv, SomePlace, Undelivered, Alive
<1> QED
  BY <1>3, <1>4 DEF OnceInv

LEMMA OnceMove ==
  ASSUME ConnInv, BufInv, OnceInv, NEW t \in Threads, NEW s, MoveTo(t, s)
  PROVE  OnceInv'
<1>1. /\ st' = [st EXCEPT ![t] = s] /\ recvline' \in {recvline, [recvline EXCEPT ![t] = Null]}
      /\ s \notin {"VALUE_DEQUEUE_RECEIVED", "DEAD"}
      /\ st[t] \notin {"VALUE_DEQUEUE_RECEIVED", "DEAD"}
      /\ UNCHANGED <<msgs, sent, delivered>>
  BY DEF MoveTo, GoTo, history
<1>2. \A u \in Threads : /\ st'[u] = "VALUE_DEQUEUE_RECEIVED" <=> st[u] = "VALUE_DEQUEUE_RECEIVED"
                         /\ st[u] = "VALUE_DEQUEUE_RECEIVED" => recvline'[u] = recvline[u]
                         /\ st[u] = "DEAD" => st'[u] = "DEAD"
  BY <1>1 DEF ConnInv, ConnTypes, BufInv, BufTypes
<1> QED
  BY <1>1, <1>2, OnceSame

\* A body that nobody has sent before is at the end of a queue and nowhere else.
LEMMA OncePublish ==
  ASSUME ConnInv, BufInv, OnceInv, ~Cuts, NEW t \in Threads, Publishing(t)
  PROVE  OnceInv'
<1> DEFINE p == current_queue[t]
           n == Len(msgs[p]) + 1
<1>1. PICK b \in Msgs \ sent :
        /\ p \in Queues /\ Len(msgs[p]) < MaxLength /\ sent' = sent \cup {b}
        /\ msgs' = [msgs EXCEPT ![p] = Append(@, b)]
  BY Enqueued
<1>2. UNCHANGED <<st, recvline, delivered>>
  BY DEF Publishing, PublishBody, PublishCutBody, bufVars, history
<1>3. /\ msgs \in [Queues -> Seq(Kept)] /\ msgs[p] \in Seq(Kept) /\ Len(msgs[p]) \in Nat
      /\ Len(msgs'[p]) = n /\ msgs'[p][n] = b
      /\ \A i \in 1..Len(msgs[p]) : msgs'[p][i] = msgs[p][i]
      /\ \A q \in Queues \ {p} : msgs'[q] = msgs[q]
  <2>1. msgs \in [Queues -> Seq(Kept)] /\ msgs[p] \in Seq(Kept)
    BY <1>1 DEF BufInv, BufTypes
  <2>2. msgs'[p] = Append(msgs[p], b)
    BY <1>1, <2>1
  <2> QED
    BY <1>1, <2>1, <2>2
<1> HIDE DEF p, n
<1>4. \A m, q, i : At(m, q, i)' <=> At(m, q, i) \/ (m = b /\ q = p /\ i = n)
  <2> SUFFICES ASSUME NEW m, NEW q, NEW i
               PROVE  At(m, q, i)' <=> At(m, q, i) \/ (m = b /\ q = p /\ i = n)
    OBVIOUS
  <2>1. CASE q = p
    BY <1>1, <1>3, <2>1 DEF At, n
  <2>2. CASE q # p
    BY <1>1, <1>3, <2>2 DEF At
  <2> QED
    BY <2>1, <2>2
<1>5. \A m, u : Holds(m, u)' <=> Holds(m, u)
  BY <1>2 DEF Holds
<1>6. b \notin Undelivered /\ Undelivered' = Undelivered \cup {b}
  BY <1>1, <1>2 DEF Undelivered, BufInv, BufTypes
<1>7. OnePlace'
  BY <1>4, <1>5, <1>6 DEF OnceInv, OnePlace
<1>8. SomePlace'
  BY <1>2, <1>4, <1>5, <1>6 DEF OnceInv, SomePlace, Alive
<1>9. \A q \in Queues : Len(msgs'[q]) <= MaxLength
  BY <1>1, <1>3, MaxLengthAssumption DEF OnceInv, n
<1> QED
  BY <1>7, <1>8, <1>9 DEF OnceInv

LEMMA TailIs ==
  ASSUME NEW S, NEW s \in Seq(S), s # <<>>
  PROVE  /\ Len(Tail(s)) = Len(s) - 1
         /\ \A i \in 1..Len(s) - 1 : Tail(s)[i] = s[i + 1]
  OBVIOUS

\* The oldest body moves from its queue into the hands of the thread.
LEMMA OnceTake ==
  ASSUME ConnInv, BufInv, OnceInv, NEW t \in Threads, WaitValueDequeue(t)
  PROVE  OnceInv'
<1>1. PICK p, b :
        /\ p = current_queue[t] /\ b = Head(msgs[p])
        /\ p \in Queues /\ st[t] = "WAIT_VALUE_DEQUEUE" /\ msgs[p] # <<>>
        /\ msgs[p] \in Seq(Kept)
        /\ msgs' = [msgs EXCEPT ![p] = Tail(msgs[p])]
        /\ recvline' = [recvline EXCEPT ![t] = b]
        /\ st' = [st EXCEPT ![t] = "VALUE_DEQUEUE_RECEIVED"]
        /\ UNCHANGED <<sent, delivered>>
  <2>1. msgs' = [msgs EXCEPT ![current_queue[t]] = Tail(msgs[current_queue[t]])]
    BY Dequeued DEF BufInv, BufTypes
  <2>2. PICK p : p = current_queue[t]
    OBVIOUS
  <2>3. PICK b : b = Head(msgs[p])
    OBVIOUS
  <2>4. /\ p \in Queues /\ st[t] = "WAIT_VALUE_DEQUEUE" /\ msgs[p] # <<>>
        /\ msgs[p] \in Seq(Kept)
        /\ msgs' = [msgs EXCEPT ![p] = Tail(msgs[p])]
        /\ recvline' = [recvline EXCEPT ![t] = b]
    BY <2>1, <2>2, <2>3, Dequeued
  <2>5. /\ st' = [st EXCEPT ![t] = "VALUE_DEQUEUE_RECEIVED"]
        /\ UNCHANGED <<sent, delivered>>
    BY Dequeued
  <2> QED
    BY <2>2, <2>3, <2>4, <2>5, Zenon
<1>2. /\ Len(msgs[p]) \in Nat /\ Len(msgs[p]) >= 1 /\ msgs[p][1] = b
      /\ Len(msgs'[p]) = Len(msgs[p]) - 1
      /\ \A i \in 1..Len(msgs[p]) - 1 : msgs'[p][i] = msgs[p][i + 1]
      /\ \A q \in Queues \ {p} : msgs'[q] = msgs[q]
  <2>1. msgs'[p] = Tail(msgs[p])
    BY <1>1 DEF BufInv, BufTypes
  <2>2. \A q \in Queues \ {p} : msgs'[q] = msgs[q]
    BY <1>1 DEF BufInv, BufTypes
  <2>3. Len(msgs[p]) \in Nat /\ Len(msgs[p]) >= 1
    BY <1>1
  <2>4. /\ Len(Tail(msgs[p])) = Len(msgs[p]) - 1
        /\ \A i \in 1..Len(msgs[p]) - 1 : Tail(msgs[p])[i] = msgs[p][i + 1]
    BY <1>1, TailIs
  <2>5. msgs[p][1] = b
    BY <1>1
  <2> QED
    BY <2>1, <2>2, <2>3, <2>4, <2>5
<1>3. \A m, q, i : At(m, q, i)' => \E j : At(m, q, j) /\ j = (IF q = p THEN i + 1 ELSE i)
  <2> SUFFICES ASSUME NEW m, NEW q, NEW i, At(m, q, i)'
               PROVE  At(m, q, IF q = p THEN i + 1 ELSE i)
    OBVIOUS
  <2>1. CASE q = p
    BY <1>1, <1>2, <2>1 DEF At
  <2>2. CASE q # p
    BY <1>1, <1>2, <2>2 DEF At
  <2> QED
    BY <2>1, <2>2
<1>4. \A m, q, i : At(m, q, i) => \/ m = b
                                  \/ \E j : At(m, q, j)'
  <2> SUFFICES ASSUME NEW m, NEW q, NEW i, At(m, q, i), m # b
               PROVE  At(m, q, IF q = p THEN i - 1 ELSE i)'
    OBVIOUS
  <2>1. CASE q = p
    BY <1>1, <1>2, <2>1 DEF At
  <2>2. CASE q # p
    BY <1>1, <1>2, <2>2 DEF At
  <2> QED
    BY <2>1, <2>2
<1>5. At(b, p, 1)
  BY <1>1, <1>2 DEF At
<1>6. \A m, u : Holds(m, u)' <=> Holds(m, u) \/ (m = b /\ u = t)
  BY <1>1 DEF Holds, ConnInv, ConnTypes, BufInv, BufTypes
<1>7. Undelivered' = Undelivered
  BY <1>1 DEF Undelivered
<1>8. \A q, i : ~At(b, q, i)'
  <2> SUFFICES ASSUME NEW q, NEW i, At(b, q, i)' PROVE FALSE
    OBVIOUS
  <2>1. PICK j : At(b, q, j) /\ j = (IF q = p THEN i + 1 ELSE i)
    BY <1>3
  <2>2. q = p /\ j = 1
    BY <1>5, <2>1 DEF OnceInv, OnePlace
  <2> QED
    BY <2>1, <2>2 DEF At
<1>9. \A m, q, i, r, j : At(m, q, i)' /\ At(m, r, j)' => q = r /\ i = j
  <2> SUFFICES ASSUME NEW m, NEW q, NEW i, NEW r, NEW j, At(m, q, i)', At(m, r, j)'
               PROVE  q = r /\ i = j
    OBVIOUS
  <2>1. PICK k : At(m, q, k) /\ k = (IF q = p THEN i + 1 ELSE i)
    BY <1>3
  <2>2. PICK l : At(m, r, l) /\ l = (IF r = p THEN j + 1 ELSE j)
    BY <1>3
  <2>3. q = r /\ k = l
    BY <2>1, <2>2 DEF OnceInv, OnePlace
  <2>4. i \in Int /\ j \in Int
    BY DEF At
  <2> QED
    BY <2>1, <2>2, <2>3, <2>4
<1>10. OnePlace'
  BY <1>3, <1>5, <1>6, <1>7, <1>8, <1>9 DEF OnceInv, OnePlace
<1>11. Alive' => Alive
  BY <1>1 DEF Alive, ConnInv, ConnTypes
<1>12. SomePlace'
  BY <1>4, <1>6, <1>7, <1>11 DEF OnceInv, SomePlace
<1>13. \A q \in Queues : Len(msgs'[q]) <= MaxLength
  BY <1>1, <1>2, MaxLengthAssumption DEF OnceInv
<1> QED
  BY <1>10, <1>12, <1>13 DEF OnceInv

LEMMA OnceSend ==
  ASSUME ConnInv, BufInv, OnceInv, NEW t \in Threads, Sending(t)
  PROVE  OnceInv'
<1> DEFINE b == recvline[t]
<1>1. /\ st[t] = "VALUE_DEQUEUE_RECEIVED" /\ st' = [st EXCEPT ![t] = "WAIT_CONSUME_ACK"]
      /\ delivered' = delivered \cup ({b} \cap Msgs)
      /\ UNCHANGED <<recvline, msgs, sent>>
  BY DEF Sending, GoTo, bufVars, poolVars
<1>2. Holds(b, t)
  BY <1>1 DEF Holds
<1>3. b \in Msgs
  BY <1>2 DEF OnceInv, OnePlace, Undelivered, BufInv, BufTypes
<1> HIDE DEF b
<1>4. \A m, q, i : At(m, q, i)' <=> At(m, q, i)
  BY <1>1 DEF At
<1>5. \A m, u : Holds(m, u)' <=> Holds(m, u) /\ u # t
  BY <1>1 DEF Holds, ConnInv, ConnTypes
<1>6. Undelivered' = Undelivered \ {b}
  BY <1>1, <1>3 DEF Undelivered
<1>7. \A u : Holds(b, u) => u = t
  BY <1>2 DEF OnceInv, OnePlace
<1>8. \A m : Holds(m, t) => m = b
  BY DEF Holds, b
<1>9. \A q, i : ~At(b, q, i)
  BY <1>2 DEF OnceInv, OnePlace
<1>10. OnePlace'
  BY <1>4, <1>5, <1>6, <1>7, <1>9 DEF OnceInv, OnePlace
<1>11. Alive' => Alive
  BY <1>1 DEF Alive, ConnInv, ConnTypes
<1>12. SomePlace'
  BY <1>4, <1>5, <1>6, <1>8, <1>11 DEF OnceInv, SomePlace
<1> QED
  BY <1>1, <1>10, <1>12 DEF OnceInv

LEMMA OnceCrash ==
  ASSUME Crash, NEW t \in Threads
  PROVE  OnceInv'
<1>1. ~Alive' /\ \A m, u : ~Holds(m, u)'
  BY DEF Crash, Alive, Holds
<1>2. \A q \in Queues : msgs'[q] = <<>>
  BY DEF Crash
<1>3. \A m, q, i : ~At(m, q, i)'
  BY <1>2 DEF At
<1> QED
  BY <1>1, <1>2, <1>3, MaxLengthAssumption DEF OnceInv, OnePlace, SomePlace

LEMMA OnceStep ==
  ASSUME ~Cuts, ConnInv, BufInv, OnceInv, [Next]_connVars
  PROVE  OnceInv'
<1>1. CASE UNCHANGED connVars
  <2>1. UNCHANGED <<st, recvline, msgs, sent, delivered>>
    BY <1>1 DEF connVars, bufVars, poolVars, history
  <2> QED
    BY <2>1, OnceSame
<1>2. ASSUME NEW t \in Threads, ClientGone(t) PROVE OnceInv'
  <2>1. UNCHANGED <<st, recvline, msgs, sent, delivered>>
    BY <1>2 DEF ClientGone, bufVars, poolVars, history
  <2> QED
    BY <2>1, OnceSame
<1>3. CASE Next
  <2>1. PICK t \in Threads : TRUE
    BY <1>3 DEF Next
  <2> QED
    BY <1>2, <1>3, <2>1, StepsAre, OnceMove, OncePublish, OnceTake, OnceSend, OnceCrash
       DEF Moves, Subscribing, Leaving
<1> QED
  BY <1>1, <1>3

LEMMA OnceInit == Init => OnceInv
<1> SUFFICES ASSUME Init PROVE OnceInv
  OBVIOUS
<1>1. Undelivered = {} /\ \A m, u : ~Holds(m, u)
  BY DEF Init, Undelivered, Holds
<1>2. \A q \in Queues : msgs[q] = <<>>
  BY DEF Init
<1>3. \A m, q, i : ~At(m, q, i)
  BY <1>2 DEF At
<1> QED
  BY <1>1, <1>2, <1>3, MaxLengthAssumption DEF OnceInv, OnePlace, SomePlace

LEMMA OncePlaces == ConnInv /\ BufInv /\ OnceInv => DeliveredOnce
<1> SUFFICES ASSUME ConnInv, BufInv, OnceInv, NEW m \in sent, Alive
             PROVE  IF m \in delivered THEN Places(m) = {} ELSE Cardinality(Places(m)) = 1
  BY DEF DeliveredOnce
<1>1. \A p \in Places(m) : \/ \E q, i : p = <<q, i>> /\ At(m, q, i)
                           \/ \E t : p = <<t, 0>> /\ Holds(m, t)
  BY MaxLengthAssumption DEF Places, At, Holds, BufInv, BufTypes
<1>2. \A q, i : At(m, q, i) => <<q, i>> \in Places(m)
  <2> SUFFICES ASSUME NEW q, NEW i, At(m, q, i) PROVE <<q, i>> \in Places(m)
    OBVIOUS
  <2>1. q \in Queues /\ Len(msgs[q]) \in Nat /\ Len(msgs[q]) <= MaxLength
    BY DEF At, OnceInv, BufInv, BufTypes
  <2>2. i \in 1..MaxLength /\ i <= Len(msgs[q]) /\ msgs[q][i] = m
    BY <2>1, MaxLengthAssumption DEF At
  <2> QED
    BY <2>1, <2>2 DEF Places
<1>3. \A t : Holds(m, t) => <<t, 0>> \in Places(m)
  BY DEF Places, Holds
<1>4. CASE m \in delivered
  BY <1>1, <1>4 DEF OnceInv, OnePlace, Undelivered
<1>5. CASE m \notin delivered
  <2>1. m \in Undelivered
    BY <1>5 DEF Undelivered
  <2>2. PICK p : Places(m) = {p}
    <3>1. CASE \E q, i : At(m, q, i)
      <4>1. PICK q, i : At(m, q, i)
        BY <3>1
      <4>2. \A x \in Places(m) : x = <<q, i>>
        BY <1>1, <4>1 DEF OnceInv, OnePlace
      <4>3. <<q, i>> \in Places(m)
        BY <1>2, <4>1
      <4> QED
        BY <4>2, <4>3
    <3>2. CASE \E t : Holds(m, t)
      <4>1. PICK t : Holds(m, t)
        BY <3>2
      <4>2. \A x \in Places(m) : x = <<t, 0>>
        BY <1>1, <4>1 DEF OnceInv, OnePlace
      <4>3. <<t, 0>> \in Places(m)
        BY <1>3, <4>1
      <4> QED
        BY <4>2, <4>3
    <3> QED
      BY <2>1, <3>1, <3>2 DEF OnceInv, SomePlace
  <2> QED
    BY <1>5, <2>2, FS_Singleton
<1> QED
  BY <1>4, <1>5

\* As long as no connection breaks within a frame, and until the broker crashes,
\* every body that was sent is in one place or has been delivered, once
\* (queue.c:q_enqueue, q_dequeue_rr; action_value_dequeue_received).
THEOREM EachBodyOnce == ~Cuts => (Spec => []DeliveredOnce)
<1> SUFFICES ASSUME ~Cuts PROVE Spec => []DeliveredOnce
  OBVIOUS
<1>1. Init => OnceInv
  BY OnceInit
<1>2. ConnInv /\ BufInv /\ OnceInv /\ [Next]_connVars => OnceInv'
  BY OnceStep
<1>3. ConnInv /\ BufInv /\ OnceInv => DeliveredOnce
  BY OncePlaces
<1> QED
  BY <1>1, <1>2, <1>3, BufInvariant, PTL DEF Spec

=============================================================================
