------------------------------ MODULE Acceptor ------------------------------
(***************************************************************************)
(* ep1.c: main sets up its socket, and then looks for a free slot of       *)
(* threads[], accepts a connection into it and starts the connection's     *)
(* thread, for ever; the thread closes its socket and gives the slot back. *)
(* thread_allocation_mutex guards the `active' flags, but main keeps it    *)
(* over the whole search, the sleep for a full table included, and fills   *)
(* in the slot after unlocking.  log.c: all of them log under log_mutex.   *)
(*                                                                         *)
(* The search tests threads[thread_count + i % MAX_CONNECTIONS], where %   *)
(* binds tighter than +, so the index may lie behind the array.  Memory is *)
(* modelled as Slots: the array, and behind it cells whose content is      *)
(* arbitrary at the start.  That only main and its threads write them is   *)
(* an assumption: in the code thread_allocation_mutex is declared behind   *)
(* the array, and what is written there is up to the linker.               *)
(***************************************************************************)
EXTENDS Integers, FiniteSets

CONSTANTS
  MaxConnections,   \* MAX_CONNECTIONS of config.h
  Fds,              \* the descriptors the process may have (a bound)
  NoFd              \* a connfd that was never set

ASSUME MaxAssumption == MaxConnections \in Nat \ {0}
ASSUME FdsAssumption == IsFiniteSet(Fds) /\ NoFd \notin Fds

Array == 0..MaxConnections - 1
Slots == 0..2 * MaxConnections - 2

\* Who holds log_mutex, when it is not the thread of a slot.
Nobody == -1
Main == -2

VARIABLES
  active,          \* threads[c].active
  connfd,          \* threads[c].connfd
  open,            \* the descriptors that are open
  conn,            \* what the connection's thread in each slot is doing
  main,            \* where main is
  thread_count, i, \* the variables of its loop
  log_mutex,       \* who holds it
  named,           \* history: the descriptor in the ACCEPT line of each thread
  abandoned        \* history: slots whose thread could not be created

slotVars == <<active, connfd>>
loopVars == <<main, thread_count, i>>
history == <<named, abandoned>>
accVars == <<slotVars, open, conn, loopVars, log_mutex, history>>

(***************************************************************************)
(* main:  setup   before the endless loop                                  *)
(*        lock    about to take thread_allocation_mutex                    *)
(*        search  in the inner loop, holding it                            *)
(*        full    holding it, about to log and to sleep                    *)
(*        accept  unlocked, waiting in accept(); the slot is thread_count  *)
(*        create  has filled in the slot, about to call pthread_create     *)
(*        exited  the process has ended                                    *)
(* conn:  none, created (about to log its ACCEPT line), serving            *)
(*        (state_machine_main), closing (connfd closed, about to log its   *)
(*        CLOSE line), closed (about to clear active under the mutex)      *)
(***************************************************************************)
MainPlaces == {"setup", "lock", "search", "full", "accept", "create", "exited"}
ConnPlaces == {"none", "created", "serving", "closing", "closed"}

AllocationMutexFree == main \notin {"search", "full"}

Init ==
  /\ active \in {a \in [Slots -> BOOLEAN] : \A c \in Array : ~a[c]}
  /\ connfd = [c \in Slots |-> NoFd]
  /\ open = {}
  /\ conn = [c \in Slots |-> "none"]
  /\ main = "setup"
  /\ thread_count = 0
  /\ i = 0
  /\ log_mutex = Nobody
  /\ named = [c \in Slots |-> NoFd]
  /\ abandoned = {}

-----------------------------------------------------------------------------
\* The arguments are wrong, or socket, bind or listen fails: exit; otherwise
\* the loop begins.
SetUp ==
  /\ main = "setup"
  /\ main' \in {"lock", "exited"}
  /\ UNCHANGED <<slotVars, open, conn, thread_count, i, log_mutex, history>>

LockSlots ==
  /\ main = "lock"
  /\ main' = "search"
  /\ i' = 0
  /\ UNCHANGED <<slotVars, open, conn, thread_count, log_mutex, history>>

\* The slot that the inner loop looks at.
Probe == thread_count + (i % MaxConnections)

FoundFree_Blind(c) == TRUE        \* mutant: the flag is not tested
FoundFree(c) == ~active[c]

SlotsLeft_OneMore == i <= MaxConnections  \* mutant: one turn too many
SlotsLeft == i < MaxConnections

\* One turn of the inner loop.
Search ==
  /\ main = "search" /\ SlotsLeft
  /\ IF FoundFree(Probe)
     THEN /\ thread_count' = Probe
          /\ active' = [active EXCEPT ![Probe] = TRUE]
          /\ main' = "accept"
          /\ i' = 0
     ELSE /\ i' = i + 1
          /\ UNCHANGED <<active, thread_count, main>>
  /\ UNCHANGED <<connfd, open, conn, log_mutex, history>>

\* No slot is free.  main logs, sleeps, and starts over, the mutex held.
TableFull ==
  /\ main = "search" /\ i = MaxConnections
  /\ main' = "full"
  /\ UNCHANGED <<slotVars, open, conn, thread_count, i, log_mutex, history>>

LogFull ==
  /\ main = "full"
  /\ log_mutex = Nobody
  /\ log_mutex' = Main
  /\ UNCHANGED <<slotVars, open, conn, loopVars, history>>

SleepFull ==
  /\ log_mutex = Main
  /\ log_mutex' = Nobody
  /\ main' = "search"
  /\ i' = 0
  /\ UNCHANGED <<slotVars, open, conn, thread_count, history>>

\* accept returns a descriptor that is not open; main stores it.
Accept ==
  /\ main = "accept"
  /\ \E fd \in Fds \ open :
       /\ open' = open \cup {fd}
       /\ connfd' = [connfd EXCEPT ![thread_count] = fd]
  /\ main' = "create"
  /\ UNCHANGED <<active, conn, thread_count, i, log_mutex, history>>

\* accept fails, for want of a descriptor or because of the client: exit.
AcceptFails ==
  /\ main = "accept"
  /\ main' = "exited"
  /\ UNCHANGED <<slotVars, open, conn, thread_count, i, log_mutex, history>>

\* pthread_create succeeds, or fails, which main does not look at.
CreateThread ==
  /\ main = "create"
  /\ \/ /\ conn' = [conn EXCEPT ![thread_count] = "created"]
        /\ UNCHANGED abandoned
     \/ /\ abandoned' = abandoned \cup {thread_count}
        /\ UNCHANGED conn
  /\ thread_count' = (thread_count + 1) % MaxConnections
  /\ main' = "lock"
  /\ UNCHANGED <<slotVars, open, i, log_mutex, named>>

-----------------------------------------------------------------------------
\* A thread logs: its ACCEPT line, the lines of state_machine_main, and its
\* CLOSE line, each under log_mutex.
Log(c) ==
  /\ conn[c] \in {"created", "serving", "closing"}
  /\ log_mutex = Nobody
  /\ log_mutex' = c
  /\ named' = IF conn[c] = "created" THEN [named EXCEPT ![c] = connfd[c]] ELSE named
  /\ UNCHANGED <<slotVars, open, conn, loopVars, abandoned>>

LogMutexAfter_Kept(c) == IF conn[c] = "closing" THEN c ELSE Nobody
                         \* mutant: log_connection_close does not unlock
LogMutexAfter(c) == Nobody

PlaceAfterLog(place) ==
  CASE place = "created" -> "serving" [] place = "closing" -> "closed" [] OTHER -> place

Logged(c) ==
  /\ log_mutex = c /\ conn[c] # "closed"
  /\ log_mutex' = LogMutexAfter(c)
  /\ conn' = [conn EXCEPT ![c] = PlaceAfterLog(@)]
  /\ UNCHANGED <<slotVars, open, loopVars, history>>

ActiveAfterClose_Freed(c) == [active EXCEPT ![c] = FALSE] \* mutant: slot freed early
ActiveAfterClose(c) == active

OpenAfterClose_Kept(c) == open    \* mutant: the socket is not closed
OpenAfterClose(c) == open \ {connfd[c]}

\* state_machine_main returns and the socket is closed.
CloseConnection(c) ==
  /\ conn[c] = "serving" /\ log_mutex # c
  /\ open' = OpenAfterClose(c)
  /\ active' = ActiveAfterClose(c)
  /\ conn' = [conn EXCEPT ![c] = "closing"]
  /\ UNCHANGED <<connfd, loopVars, log_mutex, history>>

ActiveAfterFree_Kept(c) == active  \* mutant: the flag is not cleared
ActiveAfterFree(c) == [active EXCEPT ![c] = FALSE]

\* The thread gives its slot back and ends.
FreeSlot(c) ==
  /\ conn[c] = "closed"
  /\ AllocationMutexFree
  /\ active' = ActiveAfterFree(c)
  /\ conn' = [conn EXCEPT ![c] = "none"]
  /\ named' = [named EXCEPT ![c] = NoFd]
  /\ UNCHANGED <<connfd, open, loopVars, log_mutex, abandoned>>

-----------------------------------------------------------------------------
MainStep ==
  \/ SetUp \/ LockSlots \/ Search \/ TableFull \/ LogFull \/ SleepFull
  \/ Accept \/ AcceptFails \/ CreateThread

ThreadStep(c) == Log(c) \/ Logged(c) \/ CloseConnection(c) \/ FreeSlot(c)

\* exit ends all threads; nothing happens after it.
Next ==
  \/ main # "exited" /\ (MainStep \/ \E c \in Slots : ThreadStep(c))
  \/ main = "exited" /\ UNCHANGED accVars

Spec == Init /\ [][Next]_accVars

\* main and the threads are run by the operating system, and a thread that
\* waits for a mutex gets it if it becomes free again and again.  Clients need
\* not connect (Accept) and need not end (CloseConnection).
FairSpec ==
  /\ Spec
  /\ WF_accVars(LockSlots \/ Search \/ TableFull \/ SleepFull \/ CreateThread)
  /\ SF_accVars(LogFull)
  /\ \A c \in Slots :
       /\ SF_accVars(main # "exited" /\ FreeSlot(c))
       /\ SF_accVars(main # "exited" /\ Log(c))
       /\ WF_accVars(main # "exited" /\ Logged(c))

-----------------------------------------------------------------------------
TypeOK ==
  /\ active \in [Slots -> BOOLEAN]
  /\ connfd \in [Slots -> Fds \cup {NoFd}]
  /\ open \subseteq Fds
  /\ conn \in [Slots -> ConnPlaces]
  /\ main \in MainPlaces
  /\ thread_count \in Slots
  /\ i \in 0..MaxConnections
  /\ log_mutex \in Slots \cup {Nobody, Main}
  /\ named \in [Slots -> Fds \cup {NoFd}]
  /\ abandoned \subseteq Slots

\* The slot main is filling in without the mutex belongs to no thread, and
\* no thread's slot looks free to the next search.
SlotExclusive ==
  /\ main \in {"accept", "create"} => conn[thread_count] = "none"
  /\ \A c \in Slots : conn[c] # "none" => active[c]

\* The slots that stand for an open descriptor: main is about to create the
\* thread, the thread has not closed it, or there is no thread to do so.
InUse(c) ==
  \/ main = "create" /\ thread_count = c
  \/ conn[c] \in {"created", "serving"}
  \/ c \in abandoned

\* Every open descriptor belongs to one slot, and every slot in use has an
\* open descriptor of its own, although main rewrites the slot's connfd
\* outside of the mutex and descriptors are used again as soon as a thread
\* has closed them.  Only a failing pthread_create leaks one.
SocketExclusive ==
  /\ \A c \in Slots : InUse(c) => connfd[c] \in open
  /\ \A fd \in open : \E c \in Slots : InUse(c) /\ connfd[c] = fd
  /\ \A c, d \in Slots : InUse(c) /\ InUse(d) /\ connfd[c] = connfd[d] => c = d

\* A slot of the table that main cannot use has a user: its thread, main, or,
\* for good, a thread that could not be created.
SlotNotLost ==
  \A c \in Array : active[c] =>
    \/ conn[c] # "none"
    \/ main \in {"accept", "create", "exited"} /\ thread_count = c
    \/ c \in abandoned

\* The thread reads connfd in the shared slot three times: to log, to serve
\* and close, and to log again.  It is the same descriptor each time, so that
\* its CLOSE line names the descriptor of its ACCEPT line.
SameDescriptor ==
  \A c \in Slots : conn[c] \in {"serving", "closing"} => connfd[c] = named[c]

\* main and a thread never wait for each other: main wants log_mutex while it
\* has thread_allocation_mutex, which a thread wants that has log_mutex.
NoLockCycle ==
  ~(main = "full" /\ log_mutex \in Slots /\ conn[log_mutex] = "closed")

\* ep1.c: the server is an endless loop that waits for connections and
\* handles each.  A thread that has ended its connection gets to clear its
\* slot, so that main finds room for the next one.
EndedFreesSlot ==
  \A c \in Slots : (conn[c] = "closed") ~> (conn[c] = "none" \/ main = "exited")

=============================================================================
