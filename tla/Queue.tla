------------------------------- MODULE Queue -------------------------------
(***************************************************************************)
(* queue.c: one queue, its linked list of messages on the heap and the     *)
(* three operations on it, composed with the scheduler of RoundRobin.      *)
(*                                                                         *)
(* A publisher mallocs its node before it takes q->mutex, and broadcasts   *)
(* new_msg_cond while it still holds it.  A consumer that owns the round   *)
(* reads q->size without any mutex, then perhaps waits on new_msg_cond,    *)
(* then dequeues under q->mutex.  In q_dequeue the node is freed before    *)
(* its address is compared with first_node, and malloc may give that       *)
(* address to a publisher in between, so those are two steps.              *)
(***************************************************************************)
EXTENDS RoundRobin, Sequences

CONSTANTS
  Publishers,  \* the threads that publish to the queue
  Addr,        \* the addresses malloc can return for a node (a bound)
  Null,        \* the NULL pointer
  Msgs,        \* the bodies clients publish
  NoMsg        \* a recvline that no q_dequeue has written to

ASSUME AddrAssumption == IsFiniteSet(Addr) /\ Null \notin Addr
ASSUME MsgsAssumption == NoMsg \notin Msgs

VARIABLES
  first_node, last_node, size,  \* the fields of queue; last_node is the oldest
  heap,                         \* the addresses that are allocated
  parent, body,                 \* the fields of the q_node at each address
  ppc,                          \* where each publisher is in q_enqueue
  node,                         \* the n of q_enqueue, of each publisher
  qpc,                          \* where each consumer is between its rounds
  taken,                        \* the last of q_dequeue, of each consumer
  dest                          \* the message each recvline got last

listVars == <<first_node, last_node, size, heap, parent, body>>
pubVars == <<ppc, node>>
conVars == <<qpc, taken, dest>>
qVars == <<rrVars, listVars, pubVars, conVars>>

(***************************************************************************)
(* qpc[t] matters while pc[t] = "round":                                   *)
(* wait_msg  about to read q->size; also the value outside of the round    *)
(* blocking  has read that there is no message, not yet waiting            *)
(* waiting   inside pthread_cond_wait on new_msg_cond                      *)
(* dequeue   about to enter q_dequeue                                      *)
(* taken     in q_dequeue, the node freed, q->mutex held                   *)
(* popped    returned from q_dequeue, about to call next_thread            *)
(***************************************************************************)
QPlaces == {"wait_msg", "blocking", "waiting", "dequeue", "taken", "popped"}

\* A publisher is idle, has malloced its node, or has linked it and holds
\* q->mutex for the broadcast.
PPlaces == {"idle", "allocated", "linked"}

QMutexFree_Dequeuing ==       \* mutant: q_dequeue runs without the mutex
  \A p \in Publishers : ppc[p] # "linked"
QMutexFree ==
  /\ \A p \in Publishers : ppc[p] # "linked"
  /\ \A t \in Threads : qpc[t] # "taken"

QGoTo(t, place) == qpc' = [qpc EXCEPT ![t] = place]
PGoTo(p, place) == ppc' = [ppc EXCEPT ![p] = place]

-----------------------------------------------------------------------------
QueueInit ==
  /\ Init
  /\ first_node = Null
  /\ last_node = Null
  /\ size = 0
  /\ heap = {}
  /\ parent = [a \in Addr |-> Null]
  /\ body = [a \in Addr |-> NoMsg]
  /\ ppc = [p \in Publishers |-> "idle"]
  /\ node = [p \in Publishers |-> Null]
  /\ qpc = [t \in Threads |-> "wait_msg"]
  /\ taken = [t \in Threads |-> Null]
  /\ dest = [t \in Threads |-> NoMsg]

-----------------------------------------------------------------------------
\* q_enqueue, before the mutex: the node is malloced and filled.
Publish(p) ==
  /\ ppc[p] = "idle"
  /\ \E a \in Addr \ heap, m \in Msgs :
       /\ heap' = heap \cup {a}
       /\ parent' = [parent EXCEPT ![a] = Null]
       /\ body' = [body EXCEPT ![a] = m]
       /\ node' = [node EXCEPT ![p] = a]
  /\ PGoTo(p, "allocated")
  /\ UNCHANGED <<rrVars, conVars, first_node, last_node, size>>

\* The oldest node once n is linked in behind the newest one.
LastAfterLink_Always(n) == n  \* mutant: the test for an empty queue dropped
LastAfterLink(n) == IF last_node = Null THEN n ELSE last_node

\* q_enqueue, from the mutex to the broadcast.
LinkNode(p) ==
  /\ ppc[p] = "allocated"
  /\ QMutexFree
  /\ parent' = IF first_node = Null
               THEN parent
               ELSE [parent EXCEPT ![first_node] = node[p]]
  /\ first_node' = node[p]
  /\ last_node' = LastAfterLink(node[p])
  /\ size' = size + 1
  /\ PGoTo(p, "linked")
  /\ UNCHANGED <<rrVars, conVars, heap, body, node>>

\* What the broadcast on new_msg_cond does to a consumer.
Told_Never(t) == qpc[t]       \* mutant: nothing is broadcast
Told(t) == IF qpc[t] = "waiting" THEN "dequeue" ELSE qpc[t]

\* q_enqueue, the broadcast and the unlock.
TellSubscribers(p) ==
  /\ ppc[p] = "linked"
  /\ qpc' = [t \in Threads |-> Told(t)]
  /\ PGoTo(p, "idle")
  /\ node' = [node EXCEPT ![p] = Null]
  /\ UNCHANGED <<rrVars, listVars, taken, dest>>

-----------------------------------------------------------------------------
MustWait_Never == FALSE       \* mutant: wait_msg does not wait
MustWait == size = 0

\* wait_msg, its unlocked test of q->size.
CheckMsg(t) ==
  /\ pc[t] = "round" /\ qpc[t] = "wait_msg"
  /\ QGoTo(t, IF MustWait THEN "blocking" ELSE "dequeue")
  /\ UNCHANGED <<rrVars, listVars, pubVars, taken, dest>>

\* wait_msg, new_msg_mutex taken and given up again by pthread_cond_wait.
StartWaitingMsg(t) ==
  /\ qpc[t] = "blocking"
  /\ QGoTo(t, "waiting")
  /\ UNCHANGED <<rrVars, listVars, pubVars, taken, dest>>

\* pthread_cond_wait returns though no message was published; there is no
\* loop around it that would test q->size again.
SpuriousMsgWakeup(t) ==
  /\ Spurious
  /\ qpc[t] = "waiting"
  /\ QGoTo(t, "dequeue")
  /\ UNCHANGED <<rrVars, listVars, pubVars, taken, dest>>

\* q_dequeue on an empty queue: NULL is returned and dest is left alone.
DequeueNothing(t) ==
  /\ qpc[t] = "dequeue"
  /\ QMutexFree
  /\ last_node = Null
  /\ QGoTo(t, "popped")
  /\ UNCHANGED <<rrVars, listVars, pubVars, taken, dest>>

\* q_dequeue, from the mutex to free(last).
TakeLast(t) ==
  /\ qpc[t] = "dequeue"
  /\ QMutexFree
  /\ last_node # Null
  /\ dest' = [dest EXCEPT ![t] = body[last_node]]
  /\ taken' = [taken EXCEPT ![t] = last_node]
  /\ last_node' = parent[last_node]
  /\ heap' = heap \ {last_node}
  /\ QGoTo(t, "taken")
  /\ UNCHANGED <<rrVars, pubVars, first_node, size, parent, body>>

SizeWithout_Kept == size      \* mutant: size not decremented
SizeWithout == size - 1

\* q_dequeue, the comparison with first_node and the unlock.
FinishDequeue(t) ==
  /\ qpc[t] = "taken"
  /\ first_node' = IF first_node = taken[t] THEN Null ELSE first_node
  /\ size' = SizeWithout
  /\ taken' = [taken EXCEPT ![t] = Null]
  /\ QGoTo(t, "popped")
  /\ UNCHANGED <<rrVars, pubVars, last_node, heap, parent, body, dest>>

-----------------------------------------------------------------------------
\* q_dequeue_rr: the round is handed on only after q_dequeue.
HandOn(t) ==
  /\ qpc[t] = "popped"
  /\ NextThread(t)
  /\ QGoTo(t, "wait_msg")
  /\ UNCHANGED <<listVars, pubVars, taken, dest>>

\* The rest of the scheduler runs beside the list and does not touch it.
Schedule ==
  /\ \E t \in Threads :
       \/ AddSubscriber(t)
       \/ RemoveSubscriber(t)
       \/ CheckRound(t)
       \/ StartWaiting(t)
       \/ SpuriousWakeup(t)
       \/ SignalNext(t)
       \/ Return(t)
  /\ UNCHANGED <<listVars, pubVars, conVars>>

Enqueue(p) == Publish(p) \/ LinkNode(p) \/ TellSubscribers(p)

Dequeue(t) ==
  \/ CheckMsg(t) \/ StartWaitingMsg(t) \/ SpuriousMsgWakeup(t)
  \/ DequeueNothing(t) \/ TakeLast(t) \/ FinishDequeue(t) \/ HandOn(t)

QueueNext ==
  \/ \E p \in Publishers : Enqueue(p)
  \/ \E t \in Threads : Dequeue(t)
  \/ Schedule

QueueSpec == QueueInit /\ [][QueueNext]_qVars

-----------------------------------------------------------------------------
\* The fields hold pointers or NULL and size stays a size of the heap.
QTypeOK ==
  /\ {first_node, last_node} \subseteq Addr \cup {Null}
  /\ size \in 0..Cardinality(Addr)
  /\ heap \subseteq Addr
  /\ parent \in [Addr -> Addr \cup {Null}]
  /\ body \in [Addr -> Msgs \cup {NoMsg}]
  /\ ppc \in [Publishers -> PPlaces]
  /\ node \in [Publishers -> Addr \cup {Null}]
  /\ qpc \in [Threads -> QPlaces]
  /\ taken \in [Threads -> Addr \cup {Null}]
  /\ dest \in [Threads -> Msgs \cup {NoMsg}]

\* The sequences of addresses that can be the list of the queue.
Lists == UNION {[1..n -> Addr] : n \in 0..Cardinality(Addr)}

\* s is what one meets from last_node along the parent links.
Chain(s) ==
  /\ last_node = IF s = <<>> THEN Null ELSE s[1]
  /\ \A i \in 1..Len(s) : parent[s[i]] = IF i = Len(s) THEN Null ELSE s[i + 1]

Private == {node[p] : p \in {q \in Publishers : ppc[q] = "allocated"}}

\* No address is in the list twice, and the list and the nodes still to be
\* linked are all that is allocated: nothing is freed too early or lost.
Allocated(s) ==
  /\ \A i, j \in 1..Len(s) : s[i] = s[j] => i = j
  /\ \A i \in 1..Len(s) : s[i] \in heap \ Private
  /\ \A a \in heap \ Private : \E i \in 1..Len(s) : s[i] = a

NoDequeue == \A t \in Threads : qpc[t] # "taken"

\* size counts the list and first_node is its newest node.  Between free(last)
\* and the comparison with first_node, size counts the freed node too, and
\* first_node is its address if the list is empty now.
Fields(s) ==
  /\ NoDequeue =>
       /\ size = Len(s)
       /\ first_node = IF s = <<>> THEN Null ELSE s[Len(s)]
  /\ \A t \in Threads : qpc[t] = "taken" =>
       /\ size = Len(s) + 1
       /\ first_node = IF s = <<>> THEN taken[t] ELSE s[Len(s)]
       /\ taken[t] # Null
       /\ \A i \in 1..Len(s) : s[i] # taken[t]

IsList(s) == Chain(s) /\ Allocated(s) /\ Fields(s)

\* A node that is not linked yet is its publisher's alone.
PrivateOK ==
  /\ \A p \in Publishers : ppc[p] = "allocated" =>
       node[p] \in heap /\ parent[node[p]] = Null
  /\ \A p, r \in Publishers :
       ppc[p] = "allocated" /\ ppc[r] = "allocated" /\ node[p] = node[r] => p = r

\* The list of the queue survives every interleaving of publishers and
\* consumers, although q_dequeue compares a pointer that it has freed and
\* q_enqueue mallocs outside of the mutex.
QueueOK == PrivateOK /\ \E s \in Lists : IsList(s)

\* A consumer that has passed wait_msg finds a message: q_dequeue does not
\* return NULL, which action_wait_value_dequeue would not notice.
NoEmptyPop ==
  \A t \in Threads : qpc[t] = "dequeue" /\ QMutexFree => last_node # Null

TheList == CHOOSE s \in Lists : Chain(s)

\* A consumer holds a message between free(last) and next_thread.
Holding(t) == qpc[t] \in {"taken", "popped"}

\* The queue is a FIFO queue: the list read from last_node is what was
\* published and not yet taken, oldest first.  What q_dequeue has put into
\* dest is in the hands of its thread until the round is handed on; a
\* dequeue that finds nothing leaves dest without a message.
Fifo == INSTANCE FifoQueue WITH
  Consumers <- Threads,
  queue <- [i \in 1..Len(TheList) |-> body[TheList[i]]],
  subs <- Subscribed,
  got <- [t \in Threads |-> IF Holding(t) THEN dest[t] ELSE NoMsg]

IsFifo == Fifo!Spec

-----------------------------------------------------------------------------
\* A consumer sleeps in wait_msg beside a message, and no publisher is about
\* to wake it.
MsgStalled(t) ==
  /\ qpc[t] = "waiting" /\ size > 0
  /\ \A p \in Publishers : ppc[p] # "linked"

\* The one way to that state is the gap in wait_msg: a publication between
\* its test of q->size and its wait.  Every publication that finds a
\* consumer asleep wakes it before q->mutex is given back.
MsgStallOnlyInGap ==
  [][\A t \in Threads : MsgStalled(t)' /\ ~MsgStalled(t) => StartWaitingMsg(t)]_qVars

\* The operating system runs every thread and clients acknowledge.  Nobody
\* has to publish, to subscribe or to leave.
QueueFairness ==
  /\ \A p \in Publishers : WF_qVars(LinkNode(p) \/ TellSubscribers(p))
  /\ \A t \in Threads :
       /\ WF_qVars(Dequeue(t))
       /\ WF_qVars((CheckRound(t) \/ StartWaiting(t) \/ SignalNext(t) \/ Return(t))
                   /\ UNCHANGED <<listVars, pubVars, conVars>>)

FairQueueSpec == QueueSpec /\ QueueFairness

\* Nobody sleeps through its own round or beside a message.
NobodyStalls == \A t \in Threads : ~Stalled(t) /\ ~MsgStalled(t)

\* The lost wakeups are all that can stop a queue: where none happens, a
\* message in a queue with subscribers is taken, however subscribers come and
\* go, or the last of them leaves.
MessageTaken ==
  []NobodyStalls =>
    ((last_node # Null /\ Subscribed # {})
       ~> (Subscribed = {} \/ \E t \in Threads : qpc[t] = "taken"))

=============================================================================
