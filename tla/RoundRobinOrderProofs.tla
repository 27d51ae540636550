----------------------- MODULE RoundRobinOrderProofs -----------------------
(***************************************************************************)
(* The order of service of RoundRobin, for any finite set of threads: the  *)
(* subscribed threads can be numbered along the ring from the current one, *)
(* and whoever was served while a thread waited has a higher number than   *)
(* that thread.  No field of the scheduler holds these numbers.            *)
(***************************************************************************)
EXTENDS RoundRobinOrder, RoundRobinProofs

Ranked(rank) ==
  /\ \A x, y \in Subscribed : rank[x] = rank[y] => x = y
  /\ \A x \in Subscribed : next[x] = current \/ rank[next[x]] = rank[x] + 1
  /\ \A x \in Subscribed : rank[current] <= rank[x] /\ rank[x] <= rank[prev[current]]
  /\ \A t \in Subscribed : \A u \in ahead[t] : u \in Subscribed /\ rank[t] < rank[u]

RankInv == \E rank \in [Threads -> Int] : Ranked(rank)

OrderInv == RoundInv /\ RankInv

\* What a step does to the history, for a thread that was and stays subscribed.
LEMMA Ahead ==
  ASSUME OrderNext, NEW t \in Subscribed, t \in Subscribed'
  PROVE  /\ ahead'[t] \subseteq (ahead[t] \cup Served) \ Leaving
         /\ t \in Served => ahead'[t] = {}
  BY DEF OrderNext, Subscribed

\* Who has just subscribed has been overtaken by nobody.
LEMMA AheadOfNew ==
  ASSUME OrderNext, NEW t \in Threads \ Subscribed
  PROVE  ahead'[t] = {}
  BY DEF OrderNext, Subscribed

-----------------------------------------------------------------------------
\* The steps that neither change the ring nor serve anybody.
LEMMA QuietRanks ==
  ASSUME OrderInv, OrderNext, NEW t \in Threads,
         \/ CheckRound(t) \/ StartWaiting(t) \/ SpuriousWakeup(t)
         \/ SignalNext(t) \/ Return(t)
  PROVE  RankInv'
<1>1. /\ Subscribed' = Subscribed /\ UNCHANGED <<next, prev>>
      /\ RingInv
  BY OthersKeepRing DEF OrderInv, RoundInv
<1>2. UNCHANGED current
  BY DEF CheckRound, StartWaiting, SpuriousWakeup, SignalNext, Return, links
<1>3. Served = {}
  BY <1>1 DEF CheckRound, StartWaiting, SpuriousWakeup, SignalNext, Return, GoTo, Woken,
     Served, RingInv, Types
<1>4. PICK rank \in [Threads -> Int] : Ranked(rank)
  BY DEF OrderInv, RankInv
<1>5. Ranked(rank)'
  BY <1>1, <1>2, <1>3, <1>4, Ahead DEF Ranked
<1> QED
  BY <1>5 DEF RankInv

\* The current thread is served: from the first it becomes the last.
LEMMA ServeRanks ==
  ASSUME OrderInv, OrderNext, NEW t \in Threads, NextThread(t)
  PROVE  RankInv'
<1>1. /\ Subscribed' = Subscribed /\ UNCHANGED <<next, prev>> /\ RingInv /\ RingInv'
      /\ pc[t] = "round" /\ current = t /\ current' = next[t] /\ t \in Subscribed
  <2>1. RingInv /\ RoundExclusive /\ pc[t] = "round"
    BY DEF OrderInv, RoundInv, NextThread
  <2>2. RingInv'
    BY <2>1, RingStep DEF OrderNext
  <2> QED
    BY <2>1, <2>2, OthersKeepRing DEF NextThread, Successor, RoundExclusive, Subscribed
<1>2. Served = {t}
  BY <1>1 DEF NextThread, GoTo, Served, RingInv, Types
<1>3. PICK rank \in [Threads -> Int] : Ranked(rank)
  BY DEF OrderInv, RankInv
<1>4. /\ next[t] \in Subscribed /\ prev[t] \in Subscribed /\ Subscribed \subseteq Threads
      /\ \A x \in Subscribed : next[x] \in Subscribed /\ prev[next[x]] = x
      /\ \A x \in Subscribed : prev[x] \in Subscribed /\ next[prev[x]] = x
  BY <1>1 DEF RingInv, RingOK, LinksOK, Subscribed
<1>5. PICK turned \in [Threads -> Int] : turned = [rank EXCEPT ![t] = rank[prev[t]] + 1]
  <2>1. rank[prev[t]] + 1 \in Int
    BY <1>4
  <2>2. [rank EXCEPT ![t] = rank[prev[t]] + 1] \in [Threads -> Int]
    BY <2>1
  <2> QED
    BY <2>2
<1>6. /\ turned[t] = rank[prev[t]] + 1
      /\ \A x \in Subscribed \ {t} : turned[x] = rank[x]
      /\ \A x \in Subscribed : rank[x] \in Int /\ rank[t] <= rank[x] /\ rank[x] <= rank[prev[t]]
  BY <1>1, <1>3, <1>4, <1>5 DEF Ranked
<1>7. \A x, y \in Subscribed : turned[x] = turned[y] => x = y
  BY <1>3, <1>4, <1>6 DEF Ranked
<1>8. \A x \in Subscribed : next[x] = next[t] \/ turned[next[x]] = turned[x] + 1
  <2> SUFFICES ASSUME NEW x \in Subscribed, next[x] # next[t]
               PROVE  turned[next[x]] = turned[x] + 1
    OBVIOUS
  <2>1. x # t /\ next[x] \in Subscribed
    BY <1>4
  <2>2. CASE next[x] = t
    BY <1>4, <1>6, <2>1, <2>2
  <2>3. CASE next[x] # t
    BY <1>1, <1>3, <1>6, <2>1, <2>3 DEF Ranked
  <2> QED
    BY <2>2, <2>3
<1>9. \A x \in Subscribed : turned[next[t]] <= turned[x] /\ turned[x] <= turned[t]
  <2> SUFFICES ASSUME NEW x \in Subscribed
               PROVE  turned[next[t]] <= turned[x] /\ turned[x] <= turned[t]
    OBVIOUS
  <2>1. CASE next[t] = t
    <3>1. Subscribed = {t}
      <4>1. OneRing /\ {t} \in SUBSET Subscribed
        BY <1>1 DEF RingInv, RingOK
      <4>2. \A y \in {t} : next[y] \in {t}
        BY <2>1
      <4> QED
        BY <4>1, <4>2 DEF OneRing
    <3> QED
      BY <2>1, <3>1, <1>6
  <2>2. CASE next[t] # t
    <3>1. turned[next[t]] = rank[t] + 1
      BY <1>1, <1>3, <1>4, <1>6, <2>2 DEF Ranked
    <3>2. x # t => rank[x] # rank[t]
      BY <1>1, <1>3 DEF Ranked
    <3> QED
      BY <1>1, <1>4, <1>6, <3>1, <3>2
  <2> QED
    BY <2>1, <2>2
<1>10. ASSUME NEW u \in Subscribed, NEW v \in ahead'[u]
       PROVE  v \in Subscribed /\ turned[u] < turned[v]
  <2>1. u # t /\ v \in ahead[u] \cup {t}
    BY <1>1, <1>2, <1>10, Ahead
  <2>2. CASE v = t
    BY <1>1, <1>4, <1>6, <2>1, <2>2
  <2>3. CASE v # t
    BY <1>1, <1>3, <1>6, <2>1, <2>3 DEF Ranked
  <2> QED
    BY <2>2, <2>3
<1>11. prev[next[t]] = t
  BY <1>1, <1>4
<1>12. Ranked(turned)'
  BY <1>1, <1>7, <1>8, <1>9, <1>10, <1>11 DEF Ranked
<1> QED
  BY <1>12 DEF RankInv

\* A new subscriber comes after the last one, before the first: those from the
\* first up to the current one move up by one.
LEMMA AddRanks ==
  ASSUME OrderInv, OrderNext, NEW t \in Threads, AddSubscriber(t)
  PROVE  RankInv'
<1>1. /\ RingInv /\ RingInv' /\ t \notin Subscribed /\ Subscribed' = Subscribed \cup {t}
      /\ pc' = [pc EXCEPT ![t] = "wait_round"] /\ last' = t
  <2>1. RingInv /\ Types
    BY DEF OrderInv, RoundInv, RingInv
  <2>2. RingInv'
    BY <2>1, RingStep DEF OrderNext
  <2> QED
    BY <2>1, <2>2, AddSubscribes DEF AddSubscriber, GoTo
<1>2. Served = {}
  BY <1>1 DEF Served, RingInv, Types
<1>3. /\ \A u \in Subscribed : ahead'[u] \subseteq ahead[u]
      /\ ahead'[t] = {}
  BY <1>1, <1>2, Ahead, AheadOfNew
<1>4. PICK rank \in [Threads -> Int] : Ranked(rank)
  BY DEF OrderInv, RankInv
<1>5. CASE Subscribed = {}
  <2>1. /\ Subscribed' = {t} /\ current' = t /\ next'[t] = t /\ prev'[t] = t
    BY <1>1, <1>5 DEF RingInv, Types, RingOK, EndsOK, LinksOK
  <2>2. Ranked(rank)'
    BY <1>3, <1>4, <2>1 DEF Ranked
  <2> QED
    BY <2>2 DEF RankInv
<1>6. CASE Subscribed # {}
  <2>1. /\ {first, last, current} \subseteq Subscribed /\ Subscribed \subseteq Threads
        /\ next[last] = first /\ prev[first] = last
        /\ \A x \in Subscribed : next[x] \in Subscribed /\ prev[next[x]] = x
        /\ \A x \in Subscribed : prev[x] \in Subscribed /\ next[prev[x]] = x
    BY <1>1, <1>6 DEF RingInv, RingOK, EndsOK, LinksOK, Subscribed
  <2>2. count # 0
    BY <1>1, <1>6, CountFacts DEF RingInv, RingOK
  <2>3. /\ current' = current
        /\ next' = [next EXCEPT ![last] = t, ![t] = first]
        /\ prev' = [prev EXCEPT ![first] = t, ![t] = last]
    BY <2>2 DEF AddSubscriber, LinkSubscriber
  <2>4. /\ next'[last] = t /\ next'[t] = first
        /\ prev'[first] = t /\ prev'[t] = last
        /\ \A u \in Subscribed : u # last => next'[u] = next[u]
        /\ \A u \in Subscribed : u # first => prev'[u] = prev[u]
    BY <1>1, <2>1, <2>3 DEF RingInv, Types
  <2>5. PICK k \in Int : k = rank[last] + 1
    BY <2>1
  <2>6. PICK moved \in [Threads -> Int] :
          moved = [x \in Threads |-> IF x = t THEN k
                                     ELSE IF rank[x] >= k THEN rank[x] + 1 ELSE rank[x]]
    <3>1. [x \in Threads |-> IF x = t THEN k
                             ELSE IF rank[x] >= k THEN rank[x] + 1 ELSE rank[x]]
            \in [Threads -> Int]
      OBVIOUS
    <3> QED
      BY <3>1
  <2>7. /\ moved[t] = k
        /\ \A x \in Subscribed : /\ rank[x] \in Int
                                 /\ rank[x] >= k => moved[x] = rank[x] + 1
                                 /\ rank[x] < k => moved[x] = rank[x]
    BY <1>1, <2>1, <2>6
  <2>8. /\ \A x, y \in Subscribed : rank[x] = rank[y] => x = y
        /\ \A x \in Subscribed : next[x] = current \/ rank[next[x]] = rank[x] + 1
        /\ \A x \in Subscribed : rank[current] <= rank[x] /\ rank[x] <= rank[prev[current]]
        /\ \A u \in Subscribed : \A v \in ahead[u] : v \in Subscribed /\ rank[u] < rank[v]
    BY <1>4 DEF Ranked
  <2>9. \A x, y \in Subscribed' : moved[x] = moved[y] => x = y
    BY <1>1, <2>7, <2>8
  <2>10. \A x \in Subscribed' : next'[x] = current \/ moved[next'[x]] = moved[x] + 1
    <3> SUFFICES ASSUME NEW x \in Subscribed', next'[x] # current
                 PROVE  moved[next'[x]] = moved[x] + 1
      OBVIOUS
    <3>1. CASE x = t
      <4>1. rank[first] = rank[last] + 1
        BY <2>1, <2>4, <2>8, <3>1
      <4> QED
        BY <2>1, <2>4, <2>5, <2>7, <3>1, <4>1
    <3>2. CASE x = last
      BY <2>1, <2>4, <2>5, <2>7, <3>2
    <3>3. CASE x # t /\ x # last
      <4>1. x \in Subscribed /\ next'[x] = next[x] /\ next[x] \in Subscribed
        BY <1>1, <2>1, <2>4, <3>3
      <4>2. rank[next[x]] = rank[x] + 1
        BY <2>8, <4>1
      <4>3. rank[x] # rank[last]
        BY <2>1, <2>8, <3>3, <4>1
      <4> QED
        BY <2>1, <2>5, <2>7, <4>1, <4>2, <4>3
    <3> QED
      BY <3>1, <3>2, <3>3
  <2>11. \A x \in Subscribed' : moved[current] <= moved[x]
    <3>1. rank[current] < k
      BY <2>1, <2>5, <2>7, <2>8
    <3> QED
      BY <1>1, <2>1, <2>7, <2>8, <3>1
  <2>12. \A x \in Subscribed' : moved[x] <= moved[prev'[current]]
    <3>1. CASE first = current
      <4>1. \A x \in Subscribed : rank[x] < k
        BY <2>1, <2>5, <2>7, <2>8, <3>1
      <4> QED
        BY <1>1, <2>4, <2>7, <3>1, <4>1
    <3>2. CASE first # current
      <4>1. prev'[current] = prev[current] /\ prev[current] \in Subscribed
        BY <2>1, <2>4, <3>2
      <4>2. rank[first] = k
        BY <2>1, <2>5, <2>8, <3>2
      <4>3. rank[prev[current]] >= k
        BY <2>1, <2>8, <4>2
      <4> QED
        BY <1>1, <2>1, <2>7, <2>8, <4>1, <4>3
    <3> QED
      BY <3>1, <3>2
  <2>13. \A u \in Subscribed' : \A v \in ahead'[u] : v \in Subscribed' /\ moved[u] < moved[v]
    <3> SUFFICES ASSUME NEW u \in Subscribed', NEW v \in ahead'[u]
                 PROVE  v \in Subscribed' /\ moved[u] < moved[v]
      OBVIOUS
    <3>1. u \in Subscribed /\ v \in ahead[u]
      BY <1>1, <1>3
    <3>2. v \in Subscribed /\ rank[u] < rank[v]
      BY <2>8, <3>1
    <3> QED
      BY <1>1, <2>7, <3>1, <3>2
  <2>14. Ranked(moved)'
    BY <2>3, <2>9, <2>10, <2>11, <2>12, <2>13 DEF Ranked
  <2> QED
    BY <2>14 DEF RankInv
<1> QED
  BY <1>5, <1>6

\* Those behind a subscriber that leaves move down by one.
LEMMA RemoveRanks ==
  ASSUME OrderInv, OrderNext, NEW t \in Threads, RemoveSubscriber(t)
  PROVE  RankInv'
<1>1. /\ RingInv /\ RingInv' /\ t \in Subscribed /\ Subscribed' = Subscribed \ {t}
      /\ pc' = [pc EXCEPT ![t] = "idle"]
      /\ current' = IF current = t THEN next[t] ELSE current
  <2>1. RingInv
    BY DEF OrderInv, RoundInv
  <2>2. RingInv'
    BY <2>1, RingStep DEF OrderNext
  <2> QED
    BY <2>1, <2>2, RemoveUnsubscribes DEF RemoveSubscriber, GoTo, CurrentWithout
<1>2. Served = {} /\ t \in Leaving
  BY <1>1 DEF Served, Leaving, RingInv, Types, Subscribed
<1>3. \A u \in Subscribed' : ahead'[u] \subseteq ahead[u] \ {t}
  BY <1>1, <1>2, Ahead
<1>4. PICK rank \in [Threads -> Int] : Ranked(rank)
  BY DEF OrderInv, RankInv
<1>5. CASE Subscribed' = {}
  BY <1>4, <1>5 DEF RankInv, Ranked
<1>6. CASE Subscribed' # {}
  <2> DEFINE p == prev[t]
             n == next[t]
  <2>1. /\ current \in Subscribed /\ Subscribed \subseteq Threads
        /\ \A x \in Subscribed : next[x] \in Subscribed /\ prev[next[x]] = x
        /\ \A x \in Subscribed : prev[x] \in Subscribed /\ next[prev[x]] = x
    BY <1>1 DEF RingInv, RingOK, EndsOK, LinksOK, Subscribed
  <2>2. p # t /\ n # t
    <3> SUFFICES ASSUME n = t PROVE FALSE
      BY <1>1, <2>1
    <3>1. OneRing /\ {t} \in SUBSET Subscribed
      BY <1>1 DEF RingInv, RingOK
    <3>2. {t} = Subscribed
      BY <3>1 DEF OneRing
    <3> QED
      BY <1>1, <1>6, <3>2
  <2>3. /\ next'[p] = n /\ prev'[n] = p
        /\ \A u \in Subscribed : u # p => next'[u] = next[u]
        /\ \A u \in Subscribed : u # n => prev'[u] = prev[u]
    BY <1>1, <2>1 DEF RemoveSubscriber, RingInv, Types
  <2>4. PICK moved \in [Threads -> Int] :
          moved = [x \in Threads |-> IF rank[x] > rank[t] THEN rank[x] - 1 ELSE rank[x]]
    <3>1. [x \in Threads |-> IF rank[x] > rank[t] THEN rank[x] - 1 ELSE rank[x]]
            \in [Threads -> Int]
      OBVIOUS
    <3> QED
      BY <3>1
  <2>5. \A x \in Subscribed : /\ rank[x] \in Int
                              /\ rank[x] > rank[t] => moved[x] = rank[x] - 1
                              /\ rank[x] <= rank[t] => moved[x] = rank[x]
    BY <1>1, <2>1, <2>4
  <2>6. /\ \A x, y \in Subscribed : rank[x] = rank[y] => x = y
        /\ \A x \in Subscribed : next[x] = current \/ rank[next[x]] = rank[x] + 1
        /\ \A x \in Subscribed : rank[current] <= rank[x] /\ rank[x] <= rank[prev[current]]
        /\ \A u \in Subscribed : \A v \in ahead[u] : v \in Subscribed /\ rank[u] < rank[v]
    BY <1>4 DEF Ranked
  <2>7. \A x \in Subscribed' : x \in Subscribed /\ x # t /\ rank[x] # rank[t]
    BY <1>1, <2>6
  <2>8. \A x, y \in Subscribed' : moved[x] = moved[y] => x = y
    BY <1>1, <2>5, <2>6, <2>7
  <2>9. ASSUME current # t
        PROVE  /\ rank[t] = rank[p] + 1 /\ current' = current
               /\ n # current => rank[n] = rank[t] + 1
    BY <1>1, <2>1, <2>6, <2>9
  <2>10. ASSUME current = t
         PROVE  current' = n /\ rank[n] = rank[t] + 1
    BY <1>1, <2>1, <2>2, <2>6, <2>10
  <2>11. ASSUME NEW x \in Subscribed', next'[x] # current'
         PROVE  moved[next'[x]] = moved[x] + 1
    <3>1. CASE x = p
      <4>1. next'[x] = n /\ current # t /\ n # current
        BY <2>3, <2>9, <2>10, <2>11, <3>1
      <4> QED
        BY <1>1, <2>1, <2>5, <2>9, <3>1, <4>1
    <3>2. CASE x # p
      <4>1. next'[x] = next[x] /\ next[x] # t /\ next[x] \in Subscribed /\ x \in Subscribed
        BY <2>1, <2>3, <2>7, <3>2
      <4>2. next[x] # current
        BY <2>9, <2>11, <4>1
      <4>3. rank[next[x]] = rank[x] + 1
        BY <2>6, <4>1, <4>2
      <4>4. rank[next[x]] # rank[t] /\ rank[x] # rank[t]
        BY <1>1, <2>6, <2>7, <4>1
      <4> QED
        BY <1>1, <2>5, <4>1, <4>3, <4>4
    <3> QED
      BY <3>1, <3>2
  <2>12. \A x \in Subscribed' : moved[current'] <= moved[x]
    <3>1. CASE current = t
      BY <1>1, <2>1, <2>5, <2>6, <2>7, <2>10, <3>1
    <3>2. CASE current # t
      BY <1>1, <2>1, <2>5, <2>6, <2>7, <2>9, <3>2
    <3> QED
      BY <3>1, <3>2
  <2>13. \A x \in Subscribed' : moved[x] <= moved[prev'[current']]
    <3>1. CASE current = t
      BY <1>1, <2>1, <2>3, <2>5, <2>6, <2>7, <2>10, <3>1
    <3>2. CASE current # t /\ n = current
      BY <1>1, <2>1, <2>3, <2>5, <2>6, <2>7, <2>9, <3>2
    <3>3. CASE current # t /\ n # current
      <4>1. prev'[current'] = prev[current] /\ prev[current] \in Subscribed
        BY <2>1, <2>3, <2>9, <3>3
      <4> QED
        BY <1>1, <2>1, <2>5, <2>6, <2>7, <4>1
    <3> QED
      BY <3>1, <3>2, <3>3
  <2>14. ASSUME NEW u \in Subscribed', NEW v \in ahead'[u]
         PROVE  v \in Subscribed' /\ moved[u] < moved[v]
    <3>1. v \in ahead[u] /\ v # t /\ u \in Subscribed
      BY <1>1, <1>3, <2>14
    <3>2. v \in Subscribed /\ rank[u] < rank[v]
      BY <2>6, <3>1
    <3>3. rank[v] # rank[t] /\ rank[u] # rank[t]
      BY <1>1, <2>6, <2>7, <3>1, <3>2
    <3> QED
      BY <1>1, <2>5, <3>1, <3>2, <3>3
  <2>15. Ranked(moved)'
    BY <2>8, <2>11, <2>12, <2>13, <2>14 DEF Ranked
  <2> QED
    BY <2>15 DEF RankInv
<1> QED
  BY <1>5, <1>6

-----------------------------------------------------------------------------
LEMMA OrderStep ==
  ASSUME ~Spurious
  PROVE  OrderInv /\ [OrderNext]_orderVars => OrderInv'
<1> SUFFICES ASSUME OrderInv, [OrderNext]_orderVars PROVE OrderInv'
  OBVIOUS
<1>1. RoundInv'
  BY RoundStep DEF OrderInv, OrderNext, orderVars
<1>2. CASE UNCHANGED orderVars
  <2>1. UNCHANGED <<next, prev, current, pc, ahead>>
    BY <1>2 DEF orderVars, rrVars
  <2>2. RankInv'
    BY <2>1 DEF OrderInv, RankInv, Ranked, Subscribed
  <2> QED
    BY <1>1, <2>2 DEF OrderInv
<1>3. CASE OrderNext
  BY <1>1, <1>3, QuietRanks, ServeRanks, AddRanks, RemoveRanks DEF OrderInv, OrderNext, Next
<1> QED
  BY <1>2, <1>3

LEMMA OrderStart == OrderInit => OrderInv
<1> SUFFICES ASSUME OrderInit PROVE OrderInv
  OBVIOUS
<1>1. RoundInv
  BY RingInit DEF OrderInit, Init, RoundInv, RoundExclusive
<1>2. Subscribed = {}
  BY DEF OrderInit, Init, Subscribed
<1>3. PICK rank \in [Threads -> Int] : rank = [t \in Threads |-> 0]
  <2>1. [t \in Threads |-> 0] \in [Threads -> Int]
    OBVIOUS
  <2> QED
    BY <2>1
<1>4. Ranked(rank)
  BY <1>2 DEF Ranked
<1> QED
  BY <1>1, <1>4 DEF OrderInv, RankInv

\* Without spurious wakeups no subscriber is served twice while another one,
\* which stays subscribed, is not served: next_thread passes the round along a
\* ring that add_subscriber and remove_subscriber only extend behind the last
\* and only shorten (round_robin.c:12-100).
THEOREM ServedInTurn ==
  ASSUME ~Spurious
  PROVE  OrderSpec => NoOvertaking
<1>1. OrderInv /\ [OrderNext]_orderVars
        => [\A u \in Served : \A t \in Subscribed \ {u} : u \notin ahead[t]]_orderVars
  <2> SUFFICES ASSUME OrderInv, OrderNext, NEW u \in Served, NEW t \in Subscribed, u \in ahead[t]
               PROVE  FALSE
    OBVIOUS
  <2>1. u = current /\ u \in Subscribed
    BY DEF Served, OrderInv, RoundInv, RoundExclusive, Subscribed
  <2>2. PICK rank \in [Threads -> Int] : Ranked(rank)
    BY DEF OrderInv, RankInv
  <2>3. rank[t] < rank[u] /\ rank[current] <= rank[t]
    BY <2>2 DEF Ranked
  <2>4. rank[t] \in Int /\ rank[u] \in Int
    BY <2>1, <2>2 DEF Subscribed
  <2> QED
    BY <2>1, <2>3, <2>4
<1>2. OrderInv /\ [OrderNext]_orderVars => OrderInv'
  BY OrderStep
<1> QED
  BY <1>1, <1>2, OrderStart, PTL DEF OrderSpec, NoOvertaking

=============================================================================
