--------------------------- MODULE RoundRobinProofs ---------------------------
(***************************************************************************)
(* Proofs about RoundRobin for any finite set of threads.  RingInv, the    *)
(* shape of the ring, is inductive by itself: no step of wait_round or     *)
(* next_thread touches the links.  RoundExclusive needs it once: when      *)
(* add_subscriber sees count = 0 and takes the round, nobody holds it.     *)
(***************************************************************************)
EXTENDS RoundRobin, FiniteSetTheorems, TLAPS

Types ==
  /\ {first, last, current} \subseteq Threads \cup {NoThread}
  /\ prev \in [Threads -> Threads \cup {NoThread}]
  /\ next \in [Threads -> Threads \cup {NoThread}]
  /\ pc \in [Threads -> Places]

\* The inductive invariant of the ring.
RingInv == Types /\ RingOK

\* The inductive invariant of the round.
RoundInv == RingInv /\ RoundExclusive

-----------------------------------------------------------------------------
\* The subscribed threads are finitely many, so count is a natural number
\* that is 0 exactly when nobody is subscribed.
LEMMA CountFacts ==
  ASSUME CountOK
  PROVE  /\ IsFiniteSet(Subscribed)
         /\ count \in Nat
         /\ count <= Cardinality(Threads)
         /\ Cardinality(Threads) \in Nat
         /\ count = 0 <=> Subscribed = {}
<1>1. Subscribed \in SUBSET Threads
  BY DEF Subscribed
<1>2. IsFiniteSet(Threads)
  BY ThreadsAssumption
<1>3. IsFiniteSet(Subscribed) /\ Cardinality(Subscribed) <= Cardinality(Threads)
  BY <1>1, <1>2, FS_Subset
<1>4. Cardinality(Threads) \in Nat /\ Cardinality(Subscribed) \in Nat
  BY <1>2, <1>3, FS_CardinalityType
<1>5. Cardinality(Subscribed) = 0 <=> Subscribed = {}
  BY <1>3, FS_EmptySet
<1> QED
  BY <1>3, <1>4, <1>5 DEF CountOK

-----------------------------------------------------------------------------
\* add_subscriber keeps the types and adds exactly its thread to the ring.
LEMMA AddSubscribes ==
  ASSUME NEW t \in Threads, Types, AddSubscriber(t)
  PROVE  /\ Types'
         /\ t \notin Subscribed
         /\ Subscribed' = Subscribed \cup {t}
  BY DEF Types, AddSubscriber, LinkSubscriber, GoTo, Subscribed, Places

\* remove_subscriber keeps the types and takes exactly its thread away.
LEMMA RemoveUnsubscribes ==
  ASSUME NEW t \in Threads, RingInv, RemoveSubscriber(t)
  PROVE  /\ Types'
         /\ t \in Subscribed
         /\ Subscribed' = Subscribed \ {t}
<1>1. t \in Subscribed /\ Subscribed' = Subscribed \ {t}
  BY DEF RingInv, Types, RemoveSubscriber, GoTo, Subscribed, Places
<1>2. prev[t] \in Threads /\ next[t] \in Threads
  BY <1>1 DEF RingInv, RingOK, LinksOK, Subscribed
<1>3. Types'
  BY <1>2 DEF RingInv, Types, RemoveSubscriber, CurrentWithout, FirstWithout,
              LastWithout, GoTo, Places
<1> QED
  BY <1>1, <1>3

\* The steps of wait_round and next_thread move threads between places but
\* subscribe and unsubscribe nobody, and leave the links alone.
LEMMA OthersKeepRing ==
  ASSUME NEW t \in Threads, RingInv,
         \/ CheckRound(t) \/ StartWaiting(t) \/ SpuriousWakeup(t)
         \/ NextThread(t) \/ SignalNext(t) \/ Return(t)
  PROVE  /\ Types'
         /\ Subscribed' = Subscribed
         /\ UNCHANGED <<count, first, last, prev, next>>
         /\ current' = current \/ (Subscribed # {} /\ current' = next[current])
<1> USE DEF RingInv, Types, Subscribed, Places, GoTo, links
<1>1. CASE CheckRound(t)
  BY <1>1 DEF CheckRound
<1>2. CASE StartWaiting(t)
  BY <1>2 DEF StartWaiting
<1>3. CASE SpuriousWakeup(t)
  BY <1>3 DEF SpuriousWakeup
<1>4. CASE NextThread(t)
  <2>1. t \in Subscribed
    BY <1>4 DEF NextThread
  <2>2. current \in Subscribed
    BY <2>1 DEF RingOK, EndsOK
  <2>3. next[current] \in Threads
    BY <2>2 DEF RingOK, LinksOK
  <2> QED
    BY <1>4, <2>1, <2>3 DEF NextThread, Successor
<1>5. CASE SignalNext(t)
  BY <1>5 DEF SignalNext, Woken
<1>6. CASE Return(t)
  BY <1>6 DEF Return
<1> QED
  BY <1>1, <1>2, <1>3, <1>4, <1>5, <1>6

-----------------------------------------------------------------------------
\* add_subscriber keeps one ring: the new node closes the gap between last
\* and first, so a closed set that holds it also holds first, and conversely.
LEMMA AddKeepsRing ==
  ASSUME NEW t \in Threads, RingInv, AddSubscriber(t)
  PROVE  RingOK'
<1>1. /\ Types' /\ Types /\ t \notin Subscribed
      /\ Subscribed' = Subscribed \cup {t}
  BY AddSubscribes DEF RingInv
<1>2. /\ IsFiniteSet(Subscribed) /\ count \in Nat
      /\ count = 0 <=> Subscribed = {}
  BY CountFacts DEF RingInv, RingOK
<1>3. CountOK'
  <2>1. Cardinality(Subscribed \cup {t}) = Cardinality(Subscribed) + 1
    BY <1>1, <1>2, FS_AddElement
  <2> QED
    BY <1>1, <2>1 DEF CountOK, AddSubscriber, RingInv, RingOK
<1>4. CASE Subscribed = {}
  <2>1. /\ first' = t /\ last' = t /\ current' = t
        /\ next'[t] = t /\ prev'[t] = t /\ Subscribed' = {t}
    BY <1>1, <1>2, <1>4 DEF AddSubscriber, LinkSubscriber, Types
  <2> QED
    BY <1>3, <2>1 DEF RingOK, EndsOK, LinksOK, OneRing
<1>5. CASE Subscribed # {}
  <2>1. /\ first \in Subscribed /\ last \in Subscribed /\ current \in Subscribed
        /\ next[last] = first /\ prev[first] = last
    BY <1>5 DEF RingInv, RingOK, EndsOK, LinksOK
  <2>2. /\ last' = t /\ first' = first /\ current' = current
        /\ next' = [next EXCEPT ![last] = t, ![t] = first]
        /\ prev' = [prev EXCEPT ![first] = t, ![t] = last]
    BY <1>2, <1>5 DEF AddSubscriber, LinkSubscriber
  <2>3. /\ next'[last] = t /\ next'[t] = first
        /\ prev'[first] = t /\ prev'[t] = last
        /\ \A u \in Subscribed : u # last => next'[u] = next[u]
        /\ \A u \in Subscribed : u # first => prev'[u] = prev[u]
    BY <1>1, <2>1, <2>2 DEF Types, Subscribed
  <2>4. EndsOK'
    BY <1>1, <2>1, <2>2, <2>3 DEF EndsOK
  <2>5. LinksOK'
    BY <1>1, <2>1, <2>3 DEF LinksOK, RingInv, RingOK
  <2>6. OneRing'
    <3> SUFFICES ASSUME NEW S \in SUBSET Subscribed', S # {},
                        \A u \in S : next'[u] \in S
                 PROVE  S = Subscribed'
      BY DEF OneRing
    <3> DEFINE R == S \ {t}
    <3>1. R \in SUBSET Subscribed
      BY <1>1
    <3>2. t \in S => first \in R
      BY <1>1, <2>1, <2>3
    <3>3. R # {}
      BY <3>2
    <3>4. \A u \in R : next[u] \in R
      <4> TAKE u \in R
      <4>1. CASE u = last
        BY <2>1, <2>3, <3>2, <4>1
      <4>2. CASE u # last
        <5>1. next[u] \in S
          BY <2>3, <3>1, <4>2
        <5>2. next[u] # t
          BY <1>1, <3>1 DEF RingInv, RingOK, LinksOK
        <5> QED
          BY <5>1, <5>2
      <4> QED
        BY <4>1, <4>2
    <3>5. R = Subscribed
      BY <3>1, <3>3, <3>4 DEF RingInv, RingOK, OneRing
    <3>6. t \in S
      BY <2>1, <2>3, <3>5
    <3> QED
      BY <1>1, <3>5, <3>6
  <2> QED
    BY <1>3, <2>4, <2>5, <2>6 DEF RingOK
<1> QED
  BY <1>4, <1>5

\* remove_subscriber keeps one ring: the predecessor of the removed thread
\* takes over its successor, so a closed set that holds the predecessor is
\* closed in the old ring once the removed thread is added to it.
LEMMA RemoveKeepsRing ==
  ASSUME NEW t \in Threads, RingInv, RemoveSubscriber(t)
  PROVE  RingOK'
<1> DEFINE p == prev[t]
           n == next[t]
<1>1. /\ Types' /\ Types /\ t \in Subscribed
      /\ Subscribed' = Subscribed \ {t}
  BY RemoveUnsubscribes DEF RingInv
<1>2. /\ IsFiniteSet(Subscribed) /\ count \in Nat
      /\ count = Cardinality(Subscribed)
  BY CountFacts DEF RingInv, RingOK, CountOK
<1>3. Cardinality(Subscribed \ {t}) = count - 1 /\ IsFiniteSet(Subscribed \ {t})
  BY <1>1, <1>2, FS_RemoveElement
<1>4. CountOK'
  BY <1>1, <1>3 DEF CountOK, RemoveSubscriber, CountWithout
<1>5. count = 1 <=> Subscribed' = {}
  BY <1>1, <1>2, <1>3, FS_EmptySet
<1>6. CASE Subscribed' = {}
  BY <1>4, <1>5, <1>6
  DEF RemoveSubscriber, FirstWithout, LastWithout, RingOK, EndsOK, LinksOK,
      OneRing
<1>7. CASE Subscribed' # {}
  <2>1. /\ {first, last, current} \subseteq Subscribed /\ next[last] = first
        /\ p \in Subscribed /\ n \in Subscribed /\ next[p] = t /\ prev[n] = t
    BY <1>1 DEF RingInv, RingOK, EndsOK, LinksOK
  <2>2. p # t /\ n # t
    <3> SUFFICES ASSUME n = t PROVE FALSE
      BY <2>1
    <3>1. {t} = Subscribed
      BY <1>1 DEF RingInv, RingOK, OneRing
    <3> QED
      BY <1>1, <1>7, <3>1
  <2>3. /\ current' = IF current = t THEN n ELSE current
        /\ first' = IF first = t THEN n ELSE first
        /\ last' = IF last = t THEN p ELSE last
    BY <1>5, <1>7
    DEF RemoveSubscriber, CurrentWithout, FirstWithout, LastWithout
  <2>4. /\ next'[p] = n /\ prev'[n] = p
        /\ \A u \in Subscribed : u # p => next'[u] = next[u]
        /\ \A u \in Subscribed : u # n => prev'[u] = prev[u]
    BY <1>1, <2>1 DEF RemoveSubscriber, Types, Subscribed
  <2>5. EndsOK'
    <3>1. {first', last', current'} \subseteq Subscribed'
      BY <1>1, <2>1, <2>2, <2>3
    <3>2. prev[first] = last
      BY <2>1 DEF RingInv, RingOK, LinksOK
    <3>3. next'[last'] = first'
      <4>1. CASE last = t
        BY <2>1, <2>2, <2>3, <2>4, <4>1
      <4>2. CASE last # t /\ first = t
        BY <2>1, <2>2, <2>3, <2>4, <3>2, <4>2
      <4>3. CASE last # t /\ first # t
        BY <2>1, <2>2, <2>3, <2>4, <4>3
      <4> QED
        BY <4>1, <4>2, <4>3
    <3> QED
      BY <1>7, <3>1, <3>3 DEF EndsOK
  <2>6. LinksOK'
    <3> SUFFICES ASSUME NEW u \in Subscribed'
                 PROVE  /\ next'[u] \in Subscribed' /\ prev'[next'[u]] = u
                        /\ prev'[u] \in Subscribed' /\ next'[prev'[u]] = u
      BY DEF LinksOK
    <3>1. /\ u \in Subscribed /\ u # t
          /\ next[u] \in Subscribed /\ prev[next[u]] = u
          /\ prev[u] \in Subscribed /\ next[prev[u]] = u
      BY <1>1 DEF RingInv, RingOK, LinksOK
    <3>2. next'[u] \in Subscribed' /\ prev'[next'[u]] = u
      BY <1>1, <2>1, <2>2, <2>4, <3>1
    <3>3. prev'[u] \in Subscribed' /\ next'[prev'[u]] = u
      BY <1>1, <2>1, <2>2, <2>4, <3>1
    <3> QED
      BY <3>2, <3>3
  <2>7. OneRing'
    <3> SUFFICES ASSUME NEW S \in SUBSET Subscribed', S # {},
                        \A u \in S : next'[u] \in S
                 PROVE  S = Subscribed'
      BY DEF OneRing
    <3>1. CASE p \in S
      <4> DEFINE R == S \cup {t}
      <4>1. \A u \in R : next[u] \in R
        BY <1>1, <2>1, <2>4, <3>1
      <4>2. R \in SUBSET Subscribed /\ R # {}
        BY <1>1
      <4>3. R = Subscribed
        BY <4>1, <4>2 DEF RingInv, RingOK, OneRing
      <4> QED
        BY <1>1, <4>3
    <3>2. CASE p \notin S
      <4>1. \A u \in S : next[u] \in S
        BY <1>1, <2>4, <3>2
      <4>2. S = Subscribed
        BY <1>1, <4>1 DEF RingInv, RingOK, OneRing
      <4> QED
        BY <1>1, <4>2
    <3> QED
      BY <3>1, <3>2
  <2> QED
    BY <1>4, <2>5, <2>6, <2>7 DEF RingOK
<1> QED
  BY <1>6, <1>7

-----------------------------------------------------------------------------
\* Every step of every thread keeps the ring.
LEMMA RingStep == RingInv /\ [Next]_rrVars => RingInv'
<1> SUFFICES ASSUME RingInv, [Next]_rrVars PROVE RingInv'
  OBVIOUS
<1>1. ASSUME NEW t \in Threads, AddSubscriber(t) PROVE RingInv'
  BY <1>1, AddSubscribes, AddKeepsRing DEF RingInv
<1>2. ASSUME NEW t \in Threads, RemoveSubscriber(t) PROVE RingInv'
  BY <1>2, RemoveUnsubscribes, RemoveKeepsRing DEF RingInv
<1>3. ASSUME NEW t \in Threads,
             \/ CheckRound(t) \/ StartWaiting(t) \/ SpuriousWakeup(t)
             \/ NextThread(t) \/ SignalNext(t) \/ Return(t)
      PROVE  RingInv'
  <2>1. /\ Types' /\ Subscribed' = Subscribed
        /\ UNCHANGED <<count, first, last, prev, next>>
        /\ current' = current \/ (Subscribed # {} /\ current' = next[current])
    BY <1>3, OthersKeepRing
  <2>2. EndsOK'
    BY <2>1 DEF RingInv, RingOK, EndsOK, LinksOK
  <2>3. CountOK' /\ LinksOK' /\ OneRing'
    BY <2>1 DEF RingInv, RingOK, CountOK, LinksOK, OneRing
  <2> QED
    BY <2>1, <2>2, <2>3 DEF RingInv, RingOK
<1>4. CASE UNCHANGED rrVars
  BY <1>4 DEF rrVars, RingInv, Types, RingOK, CountOK, EndsOK, LinksOK, OneRing,
              Subscribed
<1> QED
  BY <1>1, <1>2, <1>3, <1>4 DEF Next

LEMMA RingInit == Init => RingInv
<1> SUFFICES ASSUME Init PROVE RingInv
  OBVIOUS
<1>1. Subscribed = {}
  BY DEF Init, Subscribed
<1>2. Types
  BY DEF Init, Types, Places
<1>3. CountOK
  BY <1>1, FS_EmptySet DEF Init, CountOK
<1>4. EndsOK /\ LinksOK /\ OneRing
  BY <1>1 DEF Init, EndsOK, LinksOK, OneRing
<1> QED
  BY <1>2, <1>3, <1>4 DEF RingInv, RingOK

\* For any number of threads, and with or without spurious wakeups,
\* add_subscriber and remove_subscriber keep one ring of the subscribed
\* threads, and the round always belongs to one of them.
THEOREM RingCorrect == Spec => []RingOK
<1>1. RingInv => RingOK
  BY DEF RingInv
<1> QED
  BY <1>1, RingInit, RingStep, PTL DEF Spec

\* Every field of the scheduler keeps its type, and count its bound.
THEOREM TypeCorrect == Spec => []TypeOK
<1>1. RingInv => TypeOK
  BY CountFacts DEF RingInv, RingOK, Types, TypeOK
<1> QED
  BY <1>1, RingInit, RingStep, PTL DEF Spec

-----------------------------------------------------------------------------
\* When no wait ends spuriously, a thread that gets past wait_round is the
\* current one, and nobody moves the round while it is there.
LEMMA RoundStep ==
  ASSUME ~Spurious
  PROVE  RoundInv /\ [Next]_rrVars => RoundInv'
<1> SUFFICES ASSUME RoundInv, [Next]_rrVars PROVE RoundInv'
  OBVIOUS
<1>1. RingInv'
  BY RingStep DEF RoundInv
<1> SUFFICES ASSUME NEW u \in Threads, pc'[u] = "round" PROVE current' = u
  BY <1>1 DEF RoundInv, RoundExclusive
<1> USE DEF RoundInv, RoundExclusive, RingInv, Types, GoTo, links
<1>2. ASSUME NEW t \in Threads, AddSubscriber(t) PROVE current' = u
  <2>1. u # t /\ pc[u] = "round"
    BY <1>2 DEF AddSubscriber
  <2>2. u \in Subscribed
    BY <2>1 DEF Subscribed
  <2>3. count # 0
    BY <2>2, CountFacts DEF RingOK
  <2> QED
    BY <1>2, <2>1, <2>3 DEF AddSubscriber, LinkSubscriber
<1>3. ASSUME NEW t \in Threads, RemoveSubscriber(t) PROVE current' = u
  BY <1>3 DEF RemoveSubscriber, CurrentWithout
<1>4. ASSUME NEW t \in Threads, CheckRound(t) PROVE current' = u
  BY <1>4 DEF CheckRound
<1>5. ASSUME NEW t \in Threads, StartWaiting(t) PROVE current' = u
  BY <1>5 DEF StartWaiting
<1>6. ASSUME NEW t \in Threads, SpuriousWakeup(t) PROVE current' = u
  BY <1>6 DEF SpuriousWakeup
<1>7. ASSUME NEW t \in Threads, NextThread(t) PROVE current' = u
  BY <1>7 DEF NextThread
<1>8. ASSUME NEW t \in Threads, SignalNext(t) PROVE current' = u
  BY <1>8 DEF SignalNext, Woken
<1>9. ASSUME NEW t \in Threads, Return(t) PROVE current' = u
  BY <1>9 DEF Return
<1>10. CASE UNCHANGED rrVars
  BY <1>10 DEF rrVars
<1> QED
  BY <1>2, <1>3, <1>4, <1>5, <1>6, <1>7, <1>8, <1>9, <1>10 DEF Next

\* Without spurious wakeups at most one thread is ever between wait_round
\* and next_thread, and it is the one rr->current names.
THEOREM RoundIsExclusive ==
  ASSUME ~Spurious
  PROVE  Spec => []RoundExclusive
<1>1. Init => RoundInv
  BY RingInit DEF Init, RoundInv, RoundExclusive
<1>2. RoundInv => RoundExclusive
  BY DEF RoundInv
<1>3. RoundInv /\ [Next]_rrVars => RoundInv'
  BY RoundStep
<1> QED
  BY <1>1, <1>2, <1>3, PTL DEF Spec

-----------------------------------------------------------------------------
\* Who can leave a thread asleep in its own round.
LEMMA StallStep ==
  ASSUME RingInv, [Next]_rrVars,
         NEW t \in Threads, Stalled(t)', ~Stalled(t)
  PROVE  StartWaiting(t) \/ RemoveSubscriber(current)
<1> USE DEF RingInv, Types, GoTo, links
<1>1. /\ pc'[t] = "waiting" /\ current' = t
      /\ \A u \in Threads : pc'[u] # "signalling"
  BY DEF Stalled, MutexFree
<1>2. ~(pc[t] = "waiting" /\ current = t /\ \A u \in Threads : pc[u] # "signalling")
  BY DEF Stalled, MutexFree
<1>3. ASSUME NEW u \in Threads, AddSubscriber(u) PROVE FALSE
  <2>1. u # t /\ pc[t] = "waiting" /\ MutexFree
    BY <1>1, <1>3 DEF AddSubscriber
  <2>2. current' = u \/ current' = current
    BY <1>3 DEF AddSubscriber, LinkSubscriber
  <2> QED
    BY <1>1, <1>2, <2>1, <2>2 DEF MutexFree
<1>4. ASSUME NEW u \in Threads, RemoveSubscriber(u), u # current PROVE FALSE
  BY <1>1, <1>2, <1>4 DEF RemoveSubscriber, CurrentWithout, MutexFree
<1>5. ASSUME NEW u \in Threads, CheckRound(u) PROVE FALSE
  BY <1>1, <1>2, <1>5 DEF CheckRound
<1>6. ASSUME NEW u \in Threads, StartWaiting(u), u # t PROVE FALSE
  BY <1>1, <1>2, <1>6 DEF StartWaiting
<1>7. ASSUME NEW u \in Threads, SpuriousWakeup(u) PROVE FALSE
  BY <1>1, <1>2, <1>7 DEF SpuriousWakeup
<1>8. ASSUME NEW u \in Threads, NextThread(u) PROVE FALSE
  BY <1>1, <1>8 DEF NextThread
<1>9. ASSUME NEW u \in Threads, SignalNext(u) PROVE FALSE
  BY <1>1, <1>9 DEF SignalNext, Woken
<1>10. ASSUME NEW u \in Threads, Return(u) PROVE FALSE
  BY <1>1, <1>2, <1>10 DEF Return
<1>11. CASE UNCHANGED rrVars
  BY <1>1, <1>2, <1>11 DEF rrVars
<1> QED
  BY <1>3, <1>4, <1>5, <1>6, <1>7, <1>8, <1>9, <1>10, <1>11 DEF Next

\* For any number of threads, a round is slept through only because of the gap
\* in wait_round, or after remove_subscriber has taken out the current thread.
THEOREM StallsCorrect == Spec => StallOnlyInGapOrByLeaving
<1>1. RingInv /\ [Next]_rrVars =>
        [\A t \in Threads : Stalled(t)' /\ ~Stalled(t) =>
           StartWaiting(t) \/ RemoveSubscriber(current)]_rrVars
  BY StallStep
<1> QED
  BY <1>1, RingInit, RingStep, PTL DEF Spec, StallOnlyInGapOrByLeaving

=============================================================================
