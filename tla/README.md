# A verification development for amqp_broker

TLA+ modules, TLC configurations and TLAPS proofs for the AMQP 0.9.1 broker in
`src/`. Every definition is translated from the C code; `PROJECT.json` ("map")
names the lines each one stands for. The repository's comments and README are
used for what the code is supposed to do, and where the code does something
else a run shows it ("What the code does not do", below).

## 1. The system

One process. `main` accepts connections and gives each a slot of `threads[]`
and a thread. Each thread runs the state machine of its connection until it
ends. The threads meet in the queue pool, in the queues and under the mutex of
the log, and in nothing else.

| component | state | operations | interacts through |
|---|---|---|---|
| acceptor, `ep1.c` | `threads[].active`, `.connfd`; `thread_count`, `i` | the setup and the loop of `main`; `connection_thread_main` | `thread_allocation_mutex`, `log_mutex`; the descriptor table |
| state machine, `state_machine.c` | per connection: the state, `current_queue`, `current_queue_name`, `recvline`, `parsed` | one `action_*` per state | calls the pool and the queues; reads and writes its socket |
| queue pool, `queue_pool.c` | a trie of `children[256]` and a queue per node | `create_queue`, `get_queue` | the root's mutex for `create_queue`'s walk, a node's mutex for its queue, none for `get_queue` |
| queue, `queue.c` | `first_node`, `last_node`, `size`, the nodes on the heap | `q_enqueue`, `q_dequeue_rr`, `q_add_subscriber`, `q_size` | `q->mutex`, `new_msg_mutex`, `new_msg_cond` |
| scheduler, `round_robin.c` | `count`, `first`, `last`, `current`, a ring of `subs[]` | `add_subscriber`, `remove_subscriber`, `wait_round`, `next_thread` | `rr->mutex`, a condition variable per subscriber |
| reading and writing, `amqp_message.c`, `util.c` | the buffers of a connection | `read_message_header`, `read_method`, `read_body`, `send_*`, `read_until`, `swipe_endianness_64` | the socket |
| logging, constants | a mutex | `log_*` | stdout |

What is hard, and what would make each part correct:

* **Scheduler.** `wait_round` tests `rr->current` without a mutex and waits
  without a loop; `next_thread` follows links that subscriptions and
  disconnections rewrite at any time. Correct: one ring of exactly the
  subscribers, one thread in the round, nobody served twice before another,
  whoever gets the round is woken (which it is not, section 4).
* **Queue.** The node is malloced before the mutex is taken; the freed node is
  compared with `first_node`; `q->size` is read without a mutex. Correct: the
  nodes form one list that the fields describe, messages leave in the order they
  were linked, no consumer dequeues from an empty queue or sleeps beside a full one.
* **Pool.** Two threads extend the trie, one of them without a mutex. Correct:
  a declared queue stays where its name leads, no name leads to another's queue.
* **Acceptor.** Slots and descriptors are reused while threads end, a thread
  reads its descriptor from the shared slot three times, and `pthread_create` may
  fail unnoticed. Correct: a slot and a socket belong to one thread, a thread
  names one descriptor, no slot is taken without a user, the two mutexes are
  taken in one order.
* **State machine.** Clients may send anything at any time and go away in any
  state. Correct: a slot is subscribed exactly while it consumes, bodies go to
  the queue that was named, are not lost or delivered twice, and every way out of
  the machine is taken.
* **Reading and writing.** `read` may return less than asked, 0 or -1; every
  reader takes the end byte of its frame by itself; bodies become C strings on
  the way. Correct: frames are found where they begin and handed over whole; a
  consumer is sent what a publisher sent, up to a zero byte (and with its size,
  which it is not, section 4).

`PROJECT.json` ("hazards") lists each of these at its line with the properties
that are about it.

## 2. Modules

| module | models | note |
|---|---|---|
| `RoundRobin` | `round_robin.c` | a step is one critical section of `rr->mutex`, or a step outside of it |
| `RoundRobinOrder` | `RoundRobin` with a history variable | records who was served while a thread waited |
| `FifoQueue` | the promise of a queue with subscribers | abstract specification, implemented by `Queue`, relied on by `Connection` |
| `Queue` | `queue.c`, composed with `RoundRobin` | EXTENDS it: `q_dequeue_rr` is `CheckRound`, ..., `CheckMsg`, ..., `TakeLast`, `FinishDequeue`, `HandOn` |
| `QueuePool` | `queue_pool.c` | the walk of the trie, a character a step |
| `Acceptor` | `ep1.c`, and of `log.c` the mutex | |
| `Connection` | `state_machine.c`, and of `amqp_message.c` what reading yields | one action per state; queues as `FifoQueue` promises them |
| `ReadUntil` | `read_until` | the calls of one connection; has no specification of its own |
| `Frames` | the readers of `amqp_message.c` | EXTENDS `ReadUntil` |
| `Delivery` | `q_enqueue`'s string, the senders of a delivery, `swipe_endianness_64`, `bit_cardinality_16` | EXTENDS `Frames`: from a publisher's frame to a consumer's |
| `MC*` | | symmetry sets and names for TLC |
| `RoundRobinProofs`, `RoundRobinOrderProofs`, `QueueProofs`, `QueuePoolProofs`, `AcceptorProofs`, `ConnectionProofs`, `ReadProofs` | | theorems (section 5); `ReadProofs` is about `ReadUntil`, `Frames` and `Delivery` |
| `Induction` | | lemmas about natural numbers for these proofs; nothing in it is about the broker |

**RoundRobin.** The variables are the fields of the C structure and `pc`, where
each thread is. `pc = "round"` is the region between the return of `wait_round`
and the call of `next_thread`, which no lock guards. `next_thread` is two steps
(`NextThread`, `SignalNext`) with `rr->mutex` held in between, because
`wait_round` takes no `rr->mutex` and can run between them; `wait_round` is
`CheckRound`, `StartWaiting` and the wakeup in `SignalNext`, or `SpuriousWakeup`.
After `next_thread` the thread is `"served"` and talks to its client, from
where it comes back (`Return`) or unsubscribes (`RemoveSubscriber`). Those are
the places where `state_machine.c` makes the calls, so the model does not
remove a thread that waits. The links of a slot that has not been subscribed are
unset memory in the code; the model gives them the value -1 and `LinksOK` shows
that no subscriber's link is such a value.

**Queue.** `heap`, `parent` and `body` are the memory, `Addr` the addresses that
malloc has to choose from. `Publish` is everything before `q->mutex`, `LinkNode`
the section up to the broadcast, `TellSubscribers` the broadcast and the unlock.
They are separate because `wait_msg` tests `q->size` without a mutex.
`TakeLast` ends with `free(last)` and `FinishDequeue` begins with the comparison
of the freed pointer, because a publisher may malloc that address in between,
outside of the mutex. `Schedule` are the scheduler's other steps.

**FifoQueue, and how the composition is split.** A queue is a sequence of bodies,
a set of subscribers, and what each of them holds: `Put`, `Subscribe`, `Take` by a
subscriber with empty hands, `Release`, `Leave`. `Queue` is shown to implement it (`IsFifo`), with the list
read from `last_node` as the sequence, `Subscribed` as the subscribers, and
`dest[t]` as what a thread holds until it hands the round on. `Connection` uses
queues only in this way (`UseFifoQueues`): each of its queues, seen alone, is a
`FifoQueue`, where a `Crash` empties it. So what `Connection` assumes of a queue
and what `Queue` shows is one specification, and neither run needs the states of
the other.

**QueuePool.** `Descend` reads a child pointer, `Install` stores a new node;
two threads may both read NULL. `create_queue` keeps the root's mutex during the
walk, `get_queue` does not, so `Call` of the one waits for `PoolMutexFree` and of
the other does not. A node holds one queue at most, which is therefore known by
its node.

**Acceptor.** `main` and one process per slot. The array and the cells behind it
that the index expression can reach are `Slots`; the content of the latter at the
start is arbitrary. That nothing but `main` and its threads writes them afterwards
is an assumption of all that is checked and proved about them. The code does not
guarantee it: `thread_allocation_mutex` is declared behind the array
(`src/ep1.c:58-59`), so a connection there may write over the mutex and the mutex
over the connection, and a `thread_id` of `MAX_CONNECTIONS` or more also leaves
`subs[]` of a scheduler (`src/round_robin.c:17`). `SetUp` is everything before the endless loop, which may
exit. `Search` is one turn of the inner loop, with the mutex held over all
turns, as in the code; `TableFull`, `LogFull` and `SleepFull` are its failure.
`Accept` and `CreateThread` run unlocked; `AcceptFails` exits, and a
`pthread_create` that fails leaves the slot in `abandoned`, a history variable.
`Log` and `Logged` are the lock and the unlock in each function of `log.c` that a
thread calls; `named` remembers the descriptor in its ACCEPT line.

**Connection.** `st[t]` is the state of the machine in slot t; every `action_*`
is one action with its reads, its early returns and its calls. A read yields any
method, or nothing readable, and after the client has gone only the latter.
`gone` becomes true when the next read finds the end of the stream, and `failing`
when reads return -1 instead; then the states that do not look at the
result of a read go on with what their buffers hold (`Wait`,
`WaitPublishContentHeader`, `PublishCutBody`). In
`WAIT_FUNCTIONAL` the switch is modelled with its fall-through cases.
`Crash` is the end of the process: the use of a NULL queue, the copy of a body of
size -1, or SIGPIPE. The code does not look at the result of a write. One to a
client that has left goes through and is lost (`Write`, which remembers that in
`lost`); it makes the client's side reset the connection, and only a later write can
raise SIGPIPE (`WriteCrash`), as can one after a read that reported the reset
(`ReportFailure`). An answer is one write (`Answer`), a delivery is three
(`ValueDequeueReceived`), so it can do both. `End` gives the connection's state up, as the C function returns.
A queue is a sequence with a set of subscribers; which subscriber takes a
message is left open, as that is the matter of `RoundRobin` and `Queue`.

**ReadUntil, Frames, Delivery.** A byte is its number in the stream, so that a
buffer tells where each of its bytes came from, and a byte of the past is 0.
`Call` begins a `read_until`; `ReadBytes`, `ReadEnd` and `ReadError` are what
`read` does, and `Return` the end of the loop. `pc` in `Frames` is the place of
the call, `expect` what the state of the machine calls for; a frame of another
type is read as the expected one, as in the code, but where a body may come. After a failing
read `recvline` is parsed with what it holds, and bytes that are not those of a
header are any header. In `Delivery` a handed body is enqueued as a string
(`StringAt`: to the first zero byte), and `Deliver` writes its three frames as
tokens: a header with the length the code computes, a token per byte, the end
byte. `Received` takes them apart with those lengths only. The lengths of
headers and the mask are scaled down, the code that uses them is not.

Assumed everywhere: words are read and written atomically and in one order seen
by all threads (the unlocked reads are data races in C; the values they
can yield on one word are those of a before or an after); `malloc` succeeds.

## 3. Runs

`Spurious` says whether `pthread_cond_wait` may return without a signal. POSIX
permits it, so the list of the queue is checked with it; what the code can only
keep without it is checked without. `rr_lost_round`, `acc_full`, `pool_lost` and
`conn_crash` expect a violation.

| run | properties | bounds | shows |
|---|---|---|---|
| `rr_order` | `TypeOK` `RingOK` `RoundExclusive` `NoOvertaking` `StallOnlyInGapOrByLeaving` | 4 threads | the ring survives every order of operations, one thread is in the round, the service is round robin under churn; a thread sleeps through its round for two reasons and no third |
| `queue_list` | `QTypeOK` `QueueOK` `MsgStallOnlyInGap` | 2 publishers, 2 consumers, 3 addresses, spurious wakeups | the list on the heap is intact; a consumer sleeps beside a message for one reason only |
| `queue_live` | `NoEmptyPop` `IsFifo` `MessageTaken` | 2 publishers, 2 consumers, 2 addresses, 2 bodies, fairness | `Queue` implements `FifoQueue`; no empty dequeue; where no wakeup is lost, every message is taken |
| `pool_names` | `TypeOK` `RightQueue` `DeclaredStays` `GetReturnsQueue` | 2 threads, names a, ab, b, 6 nodes | racing walks never end at another name's queue; declared queues are found, if clients use only those |
| `acc_slots` | `TypeOK` `SlotExclusive` `SocketExclusive` `SlotNotLost` `SameDescriptor` `NoLockCycle` | table of 3 (and 2 cells behind it), 2 descriptors, failing accepts and thread creations | a slot and a socket have one thread, and a thread one descriptor; taken slots have users; the mutexes are taken in one order |
| `conn_queues` | `TypeOK` `SubscribedConsumes` `QueueOfLastName` | 2 connections, 2 queues, 1 body, queue length 1, cut bodies | subscriptions and queue pointers are never stale |
| `conn_once` | `DeliveredOnce` `UseFifoQueues` `GoneConnectionEnds` | 2 connections, 1 queue, 2 bodies, queue length 2, fairness | queues are used as `FifoQueue` allows; no body is lost in the broker or delivered twice; every state but the wait for a message notices the end of its connection |
| `frames_read` | `ReadsInOrder` `SizeOrZero` `InBounds` `Aligned` `HandedWhole` `DeliveredPrefix` | 0 to 2 frames of 4 types and payloads to 3, from every state that reads frames; headers of 2, 2 and 3 bytes; 1 failing read; 2 zero bytes | every way to cut the stream and to end it: frames are not mistaken, and what is delivered is what was published, to its first zero byte |
| `rr_lost_round` | `RoundReachesWaiter` | 2 threads | violated, section 4 |
| `acc_full` | `EndedFreesSlot` | table of 2 | violated, section 4 |
| `pool_lost` | `DeclaredFound` | 2 threads, names a, ab | violated, section 4 |
| `conn_crash` | `FailsAlone` | 2 connections | violated, section 4 |

Bounds and why they are enough. Four threads give a ring with a first, a last, a
current and one more; links of at most three neighbours are rewritten at once,
and the theorems of section 5 hold for any number. With three addresses a queue
can hold two nodes while a third is malloced, and an address that is freed is
given away again while its old value is still compared. Three names give a shared
path, an end within a path and a separate path. A table of three slots with
search from every slot reaches all cells behind it, and with two descriptors
each is reused while other slots still name it. Two frames are a frame and the one after it,
which is what a byte too many or too few disturbs; the model starts in each of the three
states, so a body may be the first of them. A payload of three bytes makes a whole
content header, and one of two a header cut short. A zero byte falls before, in
and behind each payload as the lengths vary. The connections do not
touch each other's state but through the queues and the pool, so pairs show what
they do to each other. A queue at `MaxLength` makes a publisher of `Connection`
wait, which the code does not do: this is a bound of the model only.
`MaxNodes` likewise stops a walk that would extend the trie once more.

`CHECK_DEADLOCK FALSE` is set where the system can really stop: sleeping
consumers (`rr_*`, `queue_*`), the bounded set of bodies and a crashed broker
(`conn_*`), the end of the frames (`frames_read`).

Fairness. `FairSpec` of `RoundRobin`: the operating system runs every thread
(weak fairness of its steps, there being no step of another thread that disables
one for ever), messages are there and clients acknowledge; nothing forces a
subscription. It restricts `Spec` to clients that do not leave, which shows the
lost wakeup to be independent of `remove_subscriber`. `QueueFairness`: the same
of every thread and of publishers that have begun; nobody has to publish, to
subscribe or to leave, and clients acknowledge. `MessageTaken` is about the
behaviours in which nobody stalls (`NobodyStalls`), since the lost wakeups are
in the code: it says that they are all that can stop a queue. `Acceptor`: `main` and ended
threads go on, no client has to connect or leave; a mutex that is free again and
again is got in the end (strong fairness). `Connection`: fairness only of
threads whose client has gone, since their reads return at once; no client has
to send anything, and no message has to come.

## 4. What the code does not do

Four runs check a sentence of a comment or of `src/README.md` that the code does
not keep; the lines are quoted in `PROJECT.json` ("findings").

| run | what it shows |
|---|---|
| `rr_lost_round` | the broadcast of `next_thread` falls between the test and the wait of `wait_round`: the owner of the round sleeps, and with it every consumer of the queue |
| `acc_full` | `main` waits for a slot with the mutex that is needed to free one |
| `pool_lost` | a lookup of an undeclared name replaces a node with a declared queue |
| `conn_crash` | a client that stays consumes from an undeclared name: `q_add_subscriber` uses NULL, which ends the process |

`FailsAlone` is about clients that stay and read their answers, so that the run ends
in the use of the NULL queue and not in what a departure does; that comes below.

The actions translate some further departures, which are part of every run of
their module without being the subject of one:

* `wait_msg` (`src/queue.c:80`) has the same lost wakeup as `wait_round`
  (`CheckMsg`, `StartWaitingMsg`), which `MsgStallOnlyInGap` shows to be the only
  way for a consumer to sleep beside a message.
* Neither wait is in a loop. A spurious return from `wait_round` lets a thread out of
  it in another's round, although `src/round_robin.h:59` says "Wait until it's the
  round of thread with id thread_id", and one from `wait_msg` lets a consumer dequeue
  from an empty queue, whose NULL `action_wait_value_dequeue` takes for a message
  (`SpuriousWakeup`, `SpuriousMsgWakeup`, `DequeueNothing`). So `RoundExclusive` and
  `NoEmptyPop` are only claimed, and only proved, for `~Spurious`; `QueueOK` also
  holds with two threads in `q_dequeue`.
* `remove_subscriber` (`src/round_robin.c:61`) gives the round to the next thread
  without a signal (`RemoveSubscriber`): the second way to sleep through a round
  in `StallOnlyInGapOrByLeaving`.
* `thread_count + i % MAX_CONNECTIONS` (`src/ep1.c:153`) reaches cells behind the
  table (`Probe`, `Slots`), and if one of them looks free, more than "Maximum number
  of simultaneous connections" (`src/config.h:14`) are accepted. What such a
  connection does to the mutex that is declared there, and to `subs[]` of a
  scheduler, is in no model (section 2, Acceptor).
* The cases of `action_wait_functional` fall through (`IsConnectionClose`,
  `IsDeclare`): `channel.open` in WAIT FUNCTIONAL declares a queue.
* In WAIT CONSUME ACK a `connection.close` leads to FAIL (`WaitConsumeAck`).
* A consumer that waits for a message does not notice that its client has gone
  (`WaitValueDequeue`), hence the exception in `GoneConnectionEnds`.
* A publish to an undeclared name crashes in `q_enqueue` as a consume does in
  `q_add_subscriber` (`PublishCrash`).
* A client that sends the protocol header and start-ok ahead and leaves ends the
  process: the first answer is lost, the second raises SIGPIPE (`WriteCrash`); so can
  a delivery to a consumer that has gone, whose second write it may be.
* A body that is cut short enqueues what the buffer held before
  (`PublishCutBody`), hence `Cuts = FALSE` for `DeliveredOnce`; `Aligned`,
  `HandedWhole` and `DeliveredPrefix` claim less of such a body.
* A failing `read` makes `read_until` return up to 2^64 - 1 (`ReadError`), hence
  the exceptions in `SizeOrZero`, `Aligned` and `HandedWhole`; a body is then
  copied with the size -1 (`ReadBody`, `PublishCrash`).
* A body is a C string: it ends at its first zero byte (`StringAt`, `DeliveredPrefix`).
* `swipe_endianness_64` keeps 16 of the 32 low bits (`src/util.c:19`): a body of
  64 KiB or more is announced as n modulo 2^16, although the comment at
  `src/amqp_message.h:117-119` calls the field the "size of the body that will be
  sent/received after it" and `MAXLINE` has room for it (`SwipeEndianness`).
* A content header shorter than its fixed part leaves the old one in `parsed`
  (`ReadContentHeader`), and its NULL is not looked at.
* Any failing `accept` ends the process (`AcceptFails`), and a thread that is not
  created keeps its slot and socket for good (`CreateThread`, `SlotNotLost`).
* `BASIC_CONSUME_OK_ARGS_SIZE` is 13 for an array of 10 bytes
  (`src/hardcoded_values.c:55-57`); three bytes behind it are sent. This is read
  off the constant and in no model.

## 5. Proofs

Every safety property of a passing run, the action properties and the two uses of
`FifoQueue` among them, is also a theorem. All proofs are for arbitrary constants,
under the named assumptions of the modules: the sets of threads and addresses are
finite, -1 is no thread, NULL no address, no node and no name (`NullAssumption`), and
a body, a header, a method and an empty buffer are told apart (`BuffersAssumption`).
Some have a hypothesis that the run makes with a constant: `~Spurious` for
`RoundExclusive`, `NoOvertaking`, `NoEmptyPop` and `IsFifo`, and `~Cuts` for
`DeliveredOnce`. Without it the code does not have the property (section 4).

Some definitions are recursive functions (`Trail`, `Begin`, `Received`) or a CHOOSE
over sequences (`TheList`), and need induction over the numbers. `Induction` states
it with sets in place of predicates: a set of numbers has a least element
(`LeastNumber`), a set with 0 that is closed under the successor up to a bound has
everything up to it (`UpTo`), and a recursive definition has a function that satisfies
it (`Recursion`), without which nothing follows from the CHOOSE that TLA+ gives it.

`RoundRobinProofs`:

* `RingCorrect`, `TypeCorrect`. The inductive invariant is `RingInv`, the types
  and `RingOK`. `OneRing`, that a set of subscribers closed under `next`
  is all of them, makes it inductive: it excludes that `remove_subscriber`
  of a thread that is its own neighbour meets others. For `add_subscriber` and
  `remove_subscriber` the closed set of the new ring is turned into one of the old
  (`AddKeepsRing`, `RemoveKeepsRing`). The other operations do not touch the links.
  Cardinalities, for `count`, come from `FiniteSetTheorems`.
* `RoundIsExclusive`, for `~Spurious`. `RoundExclusive` is inductive together with
  `RingInv`, which is needed once: `add_subscriber` takes the round when
  `count = 0`, and then nobody holds it.
* `StallsCorrect`, spurious wakeups or not: `StallStep` goes through the actions.
  A step that gives the round to a thread asleep is `remove_subscriber` of the
  current one, or `next_thread`, whose second half wakes it.

`RoundRobinOrderProofs`, `ServedInTurn`, for `~Spurious`. The subscribers can be numbered
along the ring, from the current one on, so that whoever was served while a thread
waited has a higher number than that thread (`RankInv`, with `RingInv` and
`RoundExclusive`). No field holds such numbers: the proof gives those of the next
state. `next_thread` turns the first into the last (`ServeRanks`), `add_subscriber`
puts the new thread in front of the first, which is behind the last (`AddRanks`), and
`remove_subscriber` closes the gap (`RemoveRanks`).

`QueueProofs`:

* `QueueSchedules`: a step of `Queue` is a step of `RoundRobin` or leaves it alone,
  so `QueueSpec` implements `Spec` and the theorems above hold of the composed
  system (`QueueRingCorrect` for the ring,
  `QueueRoundIsExclusive` for the round).
* `QueueCorrect`, `QueueTypeCorrect`. `QueueOK` says that some sequence of
  distinct addresses is linked by `parent`, starts at `last_node`, ends at
  `first_node`, has the length `size`, and is with the publishers' nodes all that is
  allocated. Between `free(last)` and the comparison with `first_node`, `size`
  counts one more and `first_node` may be the freed address. That clause, and that
  no node of the list has the address of a half dequeued one, justify the comparison
  of the freed pointer; the latter holds because linking needs the mutex that the
  dequeuer has. So `ListInv` adds to `QueueOK` the types and `MutexInv`, that the
  mutex has one holder, and is inductive. It splits `IsList` in `Linked` and
  `NoneLost`, whose lemmas give for each action the sequence of the next state:
  the same, with the node appended, or its tail. That the sequence fits in `Lists`,
  and the bound of `size`, is the pigeonhole principle (`DistinctBound`).
* `MsgStallsCorrect`: the action property of the waits for messages, from
  `ListInv`, spurious wakeups or not.
* `NoEmptyPopCorrect`, for `~Spurious`. `DequeueInv` adds to `ListInv` that a
  consumer past `wait_msg` has a message, which `RoundExclusive` protects from
  the other consumers.
* `QueueIsFifo`, for `~Spurious`: the initial states map to initial states of
  `FifoQueue` and each step to a step of it or a stutter. `TheList` is a CHOOSE, so two
  chains from one node are shown to be equal (`ChainsAgree`); then it is the sequence
  that the lemmas of `ListInv` follow, `LinkNode` is `Put`, `TakeLast` is `Take`,
  and what is left does not touch it. `FifoInv` adds to `DequeueInv` that every node
  and every consumer between `free(last)` and `next_thread` has a message.

`QueuePoolProofs`, for any names, threads and number of nodes. `TrieInv` holds whatever
clients ask for: there is an assignment of a prefix to every node, kept in no field,
with which every edge, every queue and every walk agree (`Paths`). A node that
`get_queue` has replaced keeps its prefix while walks still pass through it, so
they end at their own name (`WalksEndRight`), and the mutex of the root is needed for
nothing but that one thread creates at a time. `SteadyInv` is about
clients that use only declared names: then edges are added where there is none, by one
thread, a walk is where the trie leads today (`Trail`), and additions do not move what
was there (`TrailGrows`), from which `DeclaredQueueStays` and `GetFindsQueue` follow.

`AcceptorProofs`, for a table of any size. The inductive invariant `AccInv` joins
`TypeOK`, `SlotExclusive`, `SlotNotLost`, `SocketExclusive` and `SameDescriptor` with
what they need of each other: while main searches, `thread_count` is in the table, so that
`Probe` stays in `Slots`, and the slot it fills in is marked (`SearchInv`); only a
thread that is not at its end, or main for a full table, has `log_mutex`
(`LogInv`), from which `NoLockCycle` follows; an abandoned slot stays marked
(`AbandonedInv`), so it is never filled in again.

`ConnectionProofs`. `SubscribedConsumes` and `QueueOfLastName` are inductive with
the types of the fields they mention, the fact that a consumer's queue is not
NULL, and the last name's queue being current also in BASIC CONSUME RECEIVED,
before the thread subscribes. Most states neither are a consumer's nor become one
(`MoveKeeps`); the states of a consumer keep their queue (`ConsumeKeeps`), and what is left is the step into
the ring (`SubscribeKeeps`) and the one out of it (`WaitConsumeAckKeeps`). In all of it
`Crash` may end everything.

The other theorems about `Connection` follow what the buffers and queues hold.
`BufInv` says, for every state from which a thread may come to enqueue or
deliver, that `parsed` or `recvline` has a payload, also when the connection breaks and
old bytes are used; it gives `TypeOK` (`ConnectionTypes`). A step is then one that no
queue sees (`MoveTo`), a subscription, a leave, a publish, a dequeue or a delivery, and
of each queue alone these are a stutter or the steps of `FifoQueue`
(`QueuesAreFifo`). `OnceInv`, for `EachBodyOnce`, says that an undelivered body is at one
place of one queue or in the hands of one thread, and at no second one.

`ReadProofs`, for any sizes, any frames and any number of failing reads. `InStep` says
that `sum` and `_buf` move together, until a failing first `read` makes `sum` the
largest word and ends the loop; `Stored` says where the bytes of the call are. That no reader asks for more than the buffers
hold (`SizesFit`) comes from the bound of the payload (`SizesAssumption`), which the code does not test.

* `FramesAreAligned`, `FramesAreWhole`. `FrameInv` follows the reader through frame k:
  as long as no read has failed and the client goes on, the call of `read_until`
  began behind the header, at the end byte or at the next frame (`InFrame`), and
  after the end of the stream nothing but a body is handed over (`AfterEnd`). Where
  frames begin is a sum over the frames before (`BeginAdds`), and two do not begin
  at one place (`BeginGrows`), so a header that was read is that of its own frame
  (`OwnHeader`).
* `BodiesArriveWhole`. `DeliveryInv`: there is a sequence of all
  bodies ever enqueued, whose last ones are in the queue; what is written is made of
  three frames for each of the others (`Framed`, `ThreeFrames`); and a body whose frame is known
  is the payload of that frame up to a zero byte (`FrameCut`). `ReceivedIs` is what
  makes the client's recursion over the tokens known: in a sequence whose
  headers count out what follows them it finds exactly these frames. `StringIs`
  finds the end of the C string, which is there because `read_body` sets a 0
  (`Ended`).

Only model-checked: liveness, which is `MessageTaken`, `GoneConnectionEnds`, the
counterexample to `RoundReachesWaiter`, and whatever needs ENABLED. The runs with
an expected violation are counterexamples and have nothing to prove.

## 6. Not modelled

* `free_queue` and `free_pool`, which are never called.
* The fields inside the arguments of methods (`parse_*_args`, `fill_short_string`,
  `send_queue_declare_ok`): `Connection` has the names they yield as values.
* Frames longer than the buffers, `MAXLINE` bytes, and names longer than theirs:
  the code does not test either, so what follows is undefined.
* What is printed, and the bytes of `hardcoded_values.c`.
* A `malloc` that fails: its result is used unseen, and the process ends.
* Acknowledged deliveries: the code drops a message when it takes it from the queue.
  Heartbeats and other channels are not handled by the code.

Some hazards in `PROJECT.json` have no property, most of them because the code always
does the wrong thing; their notes say why.

## 7. Plan

Done: 1 `RoundRobin`, 2 `Queue` over it and the refinement of `FifoQueue`, 3
`Acceptor`, 4 `QueuePool`, 5 `Connection` and its use of `FifoQueue`, 6 `ReadUntil`,
`Frames`, `Delivery`; the proofs of section 5.

Next, in this order:

1. Proofs. What the properties of one module mean for another: that messages leave
   `Queue` in the order in which they were linked and reach one consumer each, from
   `QueueIsFifo` alone; what remains true of a queue when `Spurious` holds.
2. Models. `Connection` with `Acceptor`: slots that are given to another
   connection. The fields of `queue.declare`, `basic.publish` and `basic.consume`.
