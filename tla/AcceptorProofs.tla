--------------------------- MODULE AcceptorProofs ---------------------------
(***************************************************************************)
(* Theorems about Acceptor, for a table of any size and any finite set of  *)
(* descriptors.                                                            *)
(***************************************************************************)
EXTENDS Acceptor, TLAPS

\* main looks for a slot from a place in the table, and the slot it fills in
\* is its own.
SearchInv ==
  /\ main \in {"setup", "lock", "search", "full"} => thread_count \in Array
  /\ main \in {"accept", "create"} => active[thread_count]

\* main has log_mutex only for a full table, and a thread only while it has
\* work to do; its ACCEPT line names its own descriptor.
LogInv ==
  /\ log_mutex \in Slots => conn[log_mutex] \in {"created", "serving", "closing"}
  /\ log_mutex = Main => main = "full"
  /\ \A c \in Slots : conn[c] = "created" /\ log_mutex = c => connfd[c] = named[c]

\* A slot whose thread could not be created is taken for good.
AbandonedInv ==
  \A c \in abandoned :
    /\ active[c] /\ conn[c] = "none"
    /\ ~(main \in {"accept", "create"} /\ thread_count = c)

AccInv ==
  /\ TypeOK /\ SearchInv /\ LogInv /\ AbandonedInv
  /\ SlotExclusive /\ SlotNotLost /\ SocketExclusive /\ SameDescriptor

-----------------------------------------------------------------------------
\* The index of the search stays in the table and the cells behind it.
LEMMA ProbeInSlots ==
  ASSUME thread_count \in Array, i \in 0..MaxConnections
  PROVE  Probe \in Slots
<1>1. i % MaxConnections \in 0..MaxConnections - 1
  BY MaxAssumption
<1> QED
  BY <1>1, MaxAssumption DEF Probe, Slots, Array

LEMMA NextInArray ==
  ASSUME thread_count \in Slots
  PROVE  (thread_count + 1) % MaxConnections \in Array
BY MaxAssumption DEF Slots, Array

LEMMA SlotFacts == Array \subseteq Slots /\ 0 \in Array /\ Nobody \notin Slots /\ Main \notin Slots
                   /\ Nobody # Main
BY MaxAssumption DEF Slots, Array, Nobody, Main

LEMMA InitInv == Init => AccInv
<1> SUFFICES ASSUME Init PROVE AccInv
  OBVIOUS
<1> USE SlotFacts
<1>1. TypeOK
  BY MaxAssumption DEF Init, TypeOK, ConnPlaces, MainPlaces
<1>2. SearchInv /\ LogInv /\ AbandonedInv
  BY DEF Init, SearchInv, LogInv, AbandonedInv
<1>3. SlotExclusive /\ SlotNotLost /\ SocketExclusive /\ SameDescriptor
  BY DEF Init, SlotExclusive, SlotNotLost, SocketExclusive, SameDescriptor, InUse
<1> QED
  BY <1>1, <1>2, <1>3 DEF AccInv

\* Every lemma below takes one action of main or of a thread.
LEMMA SetUpKeeps ==
  ASSUME AccInv, SetUp
  PROVE  AccInv'
<1> USE SlotFacts DEF AccInv, TypeOK, slotVars, loopVars, history
<1>1. TypeOK'
  BY DEF SetUp, MainPlaces
<1>2. SearchInv'
  BY DEF SetUp, SearchInv
<1>3. LogInv'
  BY DEF SetUp, LogInv
<1>4. AbandonedInv'
  BY DEF SetUp, AbandonedInv
<1>5. SlotExclusive'
  BY DEF SetUp, SlotExclusive
<1>6. SlotNotLost'
  BY DEF SetUp, SlotNotLost
<1>7. SocketExclusive'
  BY DEF SetUp, SocketExclusive, InUse
<1>8. SameDescriptor'
  BY DEF SetUp, SameDescriptor
<1> QED
  BY <1>1, <1>2, <1>3, <1>4, <1>5, <1>6, <1>7, <1>8

LEMMA LockSlotsKeeps ==
  ASSUME AccInv, LockSlots
  PROVE  AccInv'
<1> USE SlotFacts DEF AccInv, TypeOK, slotVars, loopVars, history
<1>1. TypeOK'
  BY MaxAssumption DEF LockSlots, MainPlaces
<1>2. SearchInv'
  BY DEF LockSlots, SearchInv
<1>3. LogInv'
  BY DEF LockSlots, LogInv
<1>4. AbandonedInv'
  BY DEF LockSlots, AbandonedInv
<1>5. SlotExclusive'
  BY DEF LockSlots, SlotExclusive
<1>6. SlotNotLost'
  BY DEF LockSlots, SlotNotLost
<1>7. SocketExclusive'
  BY DEF LockSlots, SocketExclusive, InUse
<1>8. SameDescriptor'
  BY DEF LockSlots, SameDescriptor
<1> QED
  BY <1>1, <1>2, <1>3, <1>4, <1>5, <1>6, <1>7, <1>8

\* The slot found was free, so nobody was using it.
LEMMA SearchKeeps ==
  ASSUME AccInv, Search
  PROVE  AccInv'
<1> USE SlotFacts DEF AccInv, TypeOK, slotVars, loopVars, history
<1>0. Probe \in Slots
  BY ProbeInSlots DEF Search, SearchInv
<1>1. TypeOK'
  <2>1. CASE FoundFree(Probe)
    <3>1. i' = 0 /\ i' \in 0..MaxConnections
      BY <2>1, MaxAssumption DEF Search
    <3>2. thread_count' \in Slots /\ active' \in [Slots -> BOOLEAN]
      BY <1>0, <2>1 DEF Search
    <3> QED
      BY <2>1, <3>1, <3>2 DEF Search, MainPlaces
  <2>2. CASE ~FoundFree(Probe)
    <3>1. i' \in 0..MaxConnections
      BY <2>2, MaxAssumption DEF Search, SlotsLeft
    <3> QED
      BY <2>2, <3>1 DEF Search
  <2> QED
    BY <2>1, <2>2
<1>2. SearchInv'
  BY <1>0 DEF Search, FoundFree, SlotsLeft, SearchInv
<1>3. LogInv'
  BY <1>0 DEF Search, FoundFree, SlotsLeft, LogInv
<1>4. AbandonedInv'
  BY <1>0 DEF Search, FoundFree, SlotsLeft, AbandonedInv
<1>5. SlotExclusive'
  BY <1>0 DEF Search, FoundFree, SlotsLeft, SlotExclusive
<1>6. SlotNotLost'
  BY <1>0 DEF Search, FoundFree, SlotsLeft, SlotNotLost
<1>7. SocketExclusive'
  BY <1>0 DEF Search, FoundFree, SlotsLeft, SocketExclusive, InUse
<1>8. SameDescriptor'
  BY <1>0 DEF Search, FoundFree, SlotsLeft, SameDescriptor
<1> QED
  BY <1>1, <1>2, <1>3, <1>4, <1>5, <1>6, <1>7, <1>8

LEMMA TableFullKeeps ==
  ASSUME AccInv, TableFull
  PROVE  AccInv'
<1> USE SlotFacts DEF AccInv, TypeOK, slotVars, loopVars, history
<1>1. TypeOK'
  BY DEF TableFull, MainPlaces
<1>2. SearchInv'
  BY DEF TableFull, SearchInv
<1>3. LogInv'
  BY DEF TableFull, LogInv
<1>4. AbandonedInv'
  BY DEF TableFull, AbandonedInv
<1>5. SlotExclusive'
  BY DEF TableFull, SlotExclusive
<1>6. SlotNotLost'
  BY DEF TableFull, SlotNotLost
<1>7. SocketExclusive'
  BY DEF TableFull, SocketExclusive, InUse
<1>8. SameDescriptor'
  BY DEF TableFull, SameDescriptor
<1> QED
  BY <1>1, <1>2, <1>3, <1>4, <1>5, <1>6, <1>7, <1>8

LEMMA LogFullKeeps ==
  ASSUME AccInv, LogFull
  PROVE  AccInv'
<1> USE SlotFacts DEF AccInv, TypeOK, slotVars, loopVars, history
<1>1. TypeOK'
  BY DEF LogFull
<1>2. SearchInv'
  BY DEF LogFull, SearchInv
<1>3. LogInv'
  BY DEF LogFull, LogInv
<1>4. AbandonedInv'
  BY DEF LogFull, AbandonedInv
<1>5. SlotExclusive'
  BY DEF LogFull, SlotExclusive
<1>6. SlotNotLost'
  BY DEF LogFull, SlotNotLost
<1>7. SocketExclusive'
  BY DEF LogFull, SocketExclusive, InUse
<1>8. SameDescriptor'
  BY DEF LogFull, SameDescriptor
<1> QED
  BY <1>1, <1>2, <1>3, <1>4, <1>5, <1>6, <1>7, <1>8

\* main has log_mutex, so it is the one to unlock it.
LEMMA SleepFullKeeps ==
  ASSUME AccInv, SleepFull
  PROVE  AccInv'
<1> USE SlotFacts DEF AccInv, TypeOK, slotVars, loopVars, history
<1>1. TypeOK'
  BY MaxAssumption DEF SleepFull, MainPlaces
<1>2. SearchInv'
  BY DEF SleepFull, SearchInv, LogInv
<1>3. LogInv'
  BY DEF SleepFull, LogInv
<1>4. AbandonedInv'
  BY DEF SleepFull, AbandonedInv, LogInv
<1>5. SlotExclusive'
  BY DEF SleepFull, SlotExclusive, LogInv
<1>6. SlotNotLost'
  BY DEF SleepFull, SlotNotLost, LogInv
<1>7. SocketExclusive'
  BY DEF SleepFull, SocketExclusive, InUse, LogInv
<1>8. SameDescriptor'
  BY DEF SleepFull, SameDescriptor
<1> QED
  BY <1>1, <1>2, <1>3, <1>4, <1>5, <1>6, <1>7, <1>8

\* The descriptor was not open, and no thread reads the slot.
LEMMA AcceptKeeps ==
  ASSUME AccInv, Accept
  PROVE  AccInv'
<1> USE SlotFacts DEF AccInv, TypeOK, slotVars, loopVars, history
<1>1. TypeOK'
  BY DEF Accept, MainPlaces
<1>2. SearchInv'
  BY DEF Accept, SearchInv
<1>3. LogInv'
  BY DEF Accept, LogInv, SlotExclusive
<1>4. AbandonedInv'
  BY DEF Accept, AbandonedInv
<1>5. SlotExclusive'
  BY DEF Accept, SlotExclusive
<1>6. SlotNotLost'
  BY DEF Accept, SlotNotLost
<1>7. SocketExclusive'
  BY FdsAssumption DEF Accept, SocketExclusive, InUse, SlotExclusive, AbandonedInv
<1>8. SameDescriptor'
  BY DEF Accept, SameDescriptor, SlotExclusive
<1> QED
  BY <1>1, <1>2, <1>3, <1>4, <1>5, <1>6, <1>7, <1>8

LEMMA AcceptFailsKeeps ==
  ASSUME AccInv, AcceptFails
  PROVE  AccInv'
<1> USE SlotFacts DEF AccInv, TypeOK, slotVars, loopVars, history
<1>1. TypeOK'
  BY DEF AcceptFails, MainPlaces
<1>2. SearchInv'
  BY DEF AcceptFails, SearchInv
<1>3. LogInv'
  BY DEF AcceptFails, LogInv
<1>4. AbandonedInv'
  BY DEF AcceptFails, AbandonedInv
<1>5. SlotExclusive'
  BY DEF AcceptFails, SlotExclusive
<1>6. SlotNotLost'
  BY DEF AcceptFails, SlotNotLost
<1>7. SocketExclusive'
  BY DEF AcceptFails, SocketExclusive, InUse
<1>8. SameDescriptor'
  BY DEF AcceptFails, SameDescriptor
<1> QED
  BY <1>1, <1>2, <1>3, <1>4, <1>5, <1>6, <1>7, <1>8

\* The slot passes from main to its thread, or is abandoned.
LEMMA CreateThreadKeeps ==
  ASSUME AccInv, CreateThread
  PROVE  AccInv'
<1> USE SlotFacts DEF AccInv, TypeOK, slotVars, loopVars, history
<1>0. thread_count' \in Array /\ thread_count \in Slots
  BY NextInArray DEF CreateThread
<1>1. TypeOK'
  BY <1>0 DEF CreateThread, MainPlaces, ConnPlaces
<1>2. SearchInv'
  BY <1>0 DEF CreateThread, SearchInv
<1>3. LogInv'
  BY <1>0 DEF CreateThread, LogInv, SlotExclusive
<1>4. AbandonedInv'
  <2>1. main' = "lock" /\ active' = active
    BY DEF CreateThread
  <2>2. CASE abandoned' = abandoned /\ conn' = [conn EXCEPT ![thread_count] = "created"]
    BY <2>1, <2>2 DEF CreateThread, AbandonedInv
  <2>3. CASE abandoned' = abandoned \cup {thread_count} /\ conn' = conn
    BY <2>1, <2>3 DEF CreateThread, AbandonedInv, SearchInv, SlotExclusive
  <2> QED
    BY <2>2, <2>3 DEF CreateThread
<1>5. SlotExclusive'
  BY <1>0 DEF CreateThread, SlotExclusive, SearchInv
<1>6. SlotNotLost'
  BY <1>0 DEF CreateThread, SlotNotLost
<1>7. SocketExclusive'
  BY <1>0 DEF CreateThread, SocketExclusive, InUse, SlotExclusive
<1>8. SameDescriptor'
  BY <1>0 DEF CreateThread, SameDescriptor, SlotExclusive
<1> QED
  BY <1>1, <1>2, <1>3, <1>4, <1>5, <1>6, <1>7, <1>8

LEMMA LogKeeps ==
  ASSUME AccInv, NEW c \in Slots, Log(c)
  PROVE  AccInv'
<1> USE SlotFacts DEF AccInv, TypeOK, slotVars, loopVars, history
<1>1. TypeOK'
  BY DEF Log
<1>2. SearchInv'
  BY DEF Log, SearchInv
<1>3. LogInv'
  BY DEF Log, LogInv
<1>4. AbandonedInv'
  BY DEF Log, AbandonedInv
<1>5. SlotExclusive'
  BY DEF Log, SlotExclusive
<1>6. SlotNotLost'
  BY DEF Log, SlotNotLost
<1>7. SocketExclusive'
  BY DEF Log, SocketExclusive, InUse
<1>8. SameDescriptor'
  BY DEF Log, SameDescriptor
<1> QED
  BY <1>1, <1>2, <1>3, <1>4, <1>5, <1>6, <1>7, <1>8

\* The thread that unlocks is not at its end.
LEMMA LoggedKeeps ==
  ASSUME AccInv, NEW c \in Slots, Logged(c)
  PROVE  AccInv'
<1> USE SlotFacts DEF AccInv, TypeOK, slotVars, loopVars, history
<1>1. TypeOK'
  BY DEF Logged, LogMutexAfter, PlaceAfterLog, ConnPlaces
<1>2. SearchInv'
  BY DEF Logged, LogMutexAfter, PlaceAfterLog, SearchInv
<1>3. LogInv'
  BY DEF Logged, LogMutexAfter, PlaceAfterLog, LogInv
<1>4. AbandonedInv'
  BY DEF Logged, LogMutexAfter, PlaceAfterLog, AbandonedInv, LogInv
<1>5. SlotExclusive'
  BY DEF Logged, LogMutexAfter, PlaceAfterLog, SlotExclusive, LogInv
<1>6. SlotNotLost'
  BY DEF Logged, LogMutexAfter, PlaceAfterLog, SlotNotLost, LogInv
<1>7. SocketExclusive'
  BY DEF Logged, LogMutexAfter, PlaceAfterLog, SocketExclusive, InUse, LogInv
<1>8. SameDescriptor'
  BY DEF Logged, LogMutexAfter, PlaceAfterLog, SameDescriptor, LogInv
<1> QED
  BY <1>1, <1>2, <1>3, <1>4, <1>5, <1>6, <1>7, <1>8

\* The descriptor was this slot's alone.
LEMMA CloseConnectionKeeps ==
  ASSUME AccInv, NEW c \in Slots, CloseConnection(c)
  PROVE  AccInv'
<1> USE SlotFacts DEF AccInv, TypeOK, slotVars, loopVars, history
<1>1. TypeOK'
  BY DEF CloseConnection, OpenAfterClose, ActiveAfterClose, ConnPlaces
<1>2. SearchInv'
  BY DEF CloseConnection, OpenAfterClose, ActiveAfterClose, SearchInv
<1>3. LogInv'
  BY DEF CloseConnection, OpenAfterClose, ActiveAfterClose, LogInv
<1>4. AbandonedInv'
  BY DEF CloseConnection, OpenAfterClose, ActiveAfterClose, AbandonedInv
<1>5. SlotExclusive'
  BY DEF CloseConnection, OpenAfterClose, ActiveAfterClose, SlotExclusive
<1>6. SlotNotLost'
  BY DEF CloseConnection, OpenAfterClose, ActiveAfterClose, SlotNotLost
<1>7. SocketExclusive'
  BY DEF CloseConnection, OpenAfterClose, ActiveAfterClose, SocketExclusive, InUse, AbandonedInv, SlotExclusive, SearchInv
<1>8. SameDescriptor'
  BY DEF CloseConnection, OpenAfterClose, ActiveAfterClose, SameDescriptor
<1> QED
  BY <1>1, <1>2, <1>3, <1>4, <1>5, <1>6, <1>7, <1>8

\* Nobody uses the slot any more, and main is not filling it in.
LEMMA FreeSlotKeeps ==
  ASSUME AccInv, NEW c \in Slots, FreeSlot(c)
  PROVE  AccInv'
<1> USE SlotFacts DEF AccInv, TypeOK, slotVars, loopVars, history
<1>1. TypeOK'
  BY DEF FreeSlot, ActiveAfterFree, ConnPlaces
<1>2. SearchInv'
  BY DEF FreeSlot, ActiveAfterFree, SearchInv, SlotExclusive
<1>3. LogInv'
  BY DEF FreeSlot, ActiveAfterFree, LogInv
<1>4. AbandonedInv'
  BY DEF FreeSlot, ActiveAfterFree, AbandonedInv
<1>5. SlotExclusive'
  BY DEF FreeSlot, ActiveAfterFree, SlotExclusive
<1>6. SlotNotLost'
  BY DEF FreeSlot, ActiveAfterFree, SlotNotLost
<1>7. SocketExclusive'
  BY DEF FreeSlot, ActiveAfterFree, SocketExclusive, InUse
<1>8. SameDescriptor'
  BY DEF FreeSlot, ActiveAfterFree, SameDescriptor
<1> QED
  BY <1>1, <1>2, <1>3, <1>4, <1>5, <1>6, <1>7, <1>8

\* AccInv is inductive.
LEMMA NextKeeps == AccInv /\ [Next]_accVars => AccInv'
<1> SUFFICES ASSUME AccInv, [Next]_accVars PROVE AccInv'
  OBVIOUS
<1>1. CASE MainStep
  BY <1>1, SetUpKeeps, LockSlotsKeeps, SearchKeeps, TableFullKeeps, LogFullKeeps,
     SleepFullKeeps, AcceptKeeps, AcceptFailsKeeps, CreateThreadKeeps
     DEF MainStep
<1>2. ASSUME NEW c \in Slots, ThreadStep(c) PROVE AccInv'
  BY <1>2, LogKeeps, LoggedKeeps, CloseConnectionKeeps, FreeSlotKeeps
     DEF ThreadStep
<1>3. CASE UNCHANGED accVars
  BY <1>3 DEF AccInv, accVars, slotVars, loopVars, history, TypeOK, SearchInv,
     LogInv, AbandonedInv, SlotExclusive, SlotNotLost, SocketExclusive, InUse,
     SameDescriptor
<1> QED
  BY <1>1, <1>2, <1>3 DEF Next

LEMMA AccInvariant == Spec => []AccInv
<1> QED
  BY InitInv, NextKeeps, PTL DEF Spec

-----------------------------------------------------------------------------
\* The index that main computes never leaves the table and the cells behind it,
\* and every variable keeps its type.
THEOREM TypeCorrect == Spec => []TypeOK
<1>1. AccInv => TypeOK
  BY DEF AccInv
<1> QED
  BY <1>1, AccInvariant, PTL

\* A slot that main fills in without thread_allocation_mutex has no thread, and
\* the slot of a thread never looks free.
THEOREM SlotIsExclusive == Spec => []SlotExclusive
<1>1. AccInv => SlotExclusive
  BY DEF AccInv
<1> QED
  BY <1>1, AccInvariant, PTL

\* An open descriptor belongs to one slot, whatever is closed and accepted again
\* before the slot is given back.
THEOREM SocketIsExclusive == Spec => []SocketExclusive
<1>1. AccInv => SocketExclusive
  BY DEF AccInv
<1> QED
  BY <1>1, AccInvariant, PTL

\* A slot of the table is taken only by main, by a thread, or by a thread that
\* could not be created.
THEOREM NoSlotIsLost == Spec => []SlotNotLost
<1>1. AccInv => SlotNotLost
  BY DEF AccInv
<1> QED
  BY <1>1, AccInvariant, PTL

\* A thread finds the same descriptor in its slot each time it looks.
THEOREM DescriptorStays == Spec => []SameDescriptor
<1>1. AccInv => SameDescriptor
  BY DEF AccInv
<1> QED
  BY <1>1, AccInvariant, PTL

\* thread_allocation_mutex and log_mutex are never waited for in a cycle.
THEOREM LocksAreOrdered == Spec => []NoLockCycle
<1>1. AccInv => NoLockCycle
  BY DEF AccInv, LogInv, NoLockCycle
<1> QED
  BY <1>1, AccInvariant, PTL

=============================================================================
