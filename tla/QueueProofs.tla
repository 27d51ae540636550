---------------------------- MODULE QueueProofs ----------------------------
(***************************************************************************)
(* Theorems about Queue: the queue drives its scheduler as RoundRobin      *)
(* specifies, so that what is proved there holds of it; and the list on    *)
(* the heap stays a list, so that a consumer never dequeues nothing.       *)
(***************************************************************************)
EXTENDS Queue, RoundRobinProofs, Induction, SequenceTheorems, FunctionTheorems

\* The types of the queue's variables; size is bounded by ListInv.
QTypes ==
  /\ {first_node, last_node} \subseteq Addr \cup {Null}
  /\ size \in Int
  /\ heap \subseteq Addr
  /\ parent \in [Addr -> Addr \cup {Null}]
  /\ body \in [Addr -> Msgs \cup {NoMsg}]
  /\ ppc \in [Publishers -> PPlaces]
  /\ node \in [Publishers -> Addr \cup {Null}]
  /\ qpc \in [Threads -> QPlaces]
  /\ taken \in [Threads -> Addr \cup {Null}]
  /\ dest \in [Threads -> Msgs \cup {NoMsg}]

\* At most one thread holds q->mutex.
MutexInv ==
  /\ \A p, r \in Publishers : ppc[p] = "linked" /\ ppc[r] = "linked" => p = r
  /\ \A t, u \in Threads : qpc[t] = "taken" /\ qpc[u] = "taken" => t = u
  /\ \A p \in Publishers, t \in Threads : ~(ppc[p] = "linked" /\ qpc[t] = "taken")

\* IsList(s) of Queue, in the two parts that the lemmas take one by one:
\* s is the list of the queue, and shares no node with a publisher.
Linked(s) ==
  /\ \A i, j \in 1..Len(s) : s[i] = s[j] => i = j
  /\ \A i \in 1..Len(s) :
       /\ s[i] \in heap
       /\ parent[s[i]] = IF i = Len(s) THEN Null ELSE s[i + 1]
       /\ \A p \in Publishers : ppc[p] = "allocated" => node[p] # s[i]
  /\ last_node = IF s = <<>> THEN Null ELSE s[1]
  /\ NoDequeue =>
       /\ size = Len(s)
       /\ first_node = IF s = <<>> THEN Null ELSE s[Len(s)]
  /\ \A t \in Threads : qpc[t] = "taken" =>
       /\ size = Len(s) + 1
       /\ first_node = IF s = <<>> THEN taken[t] ELSE s[Len(s)]
       /\ taken[t] # Null
       /\ \A i \in 1..Len(s) : s[i] # taken[t]

\* Every allocated address belongs to the list or to a publisher.
NoneLost(s) ==
  \A a \in heap :
    \/ \E p \in Publishers : ppc[p] = "allocated" /\ node[p] = a
    \/ \E i \in 1..Len(s) : s[i] = a

ListInv ==
  /\ QTypes /\ MutexInv /\ PrivateOK
  /\ \E s \in Seq(Addr) : Linked(s) /\ NoneLost(s)

\* A thread is in wait_msg or q_dequeue only while it owns the round, and
\* past wait_msg only when there is a message; so it is when a publisher is
\* about to broadcast.
DequeueInv ==
  /\ \A t \in Threads : qpc[t] # "wait_msg" => pc[t] = "round"
  /\ \A t \in Threads : qpc[t] = "dequeue" => last_node # Null
  /\ \A p \in Publishers : ppc[p] = "linked" => last_node # Null

QueueInv == RoundInv /\ ListInv /\ DequeueInv

-----------------------------------------------------------------------------
\* Each step of the queue is a step of the scheduler or leaves it alone.
LEMMA QueueStepSchedules == [QueueNext]_qVars => [Next]_rrVars
<1> SUFFICES ASSUME [QueueNext]_qVars PROVE [Next]_rrVars
  OBVIOUS
<1>1. ASSUME NEW p \in Publishers, Enqueue(p) PROVE UNCHANGED rrVars
  BY <1>1 DEF Enqueue, Publish, LinkNode, TellSubscribers, Told
<1>2. ASSUME NEW t \in Threads, Dequeue(t), ~HandOn(t) PROVE UNCHANGED rrVars
  BY <1>2 DEF Dequeue, CheckMsg, StartWaitingMsg, SpuriousMsgWakeup,
              DequeueNothing, TakeLast, FinishDequeue
<1>3. ASSUME NEW t \in Threads, HandOn(t) PROVE Next
  BY <1>3 DEF HandOn, Next
<1>4. CASE Schedule
  BY <1>4 DEF Schedule, Next
<1>5. CASE UNCHANGED qVars
  BY <1>5 DEF qVars
<1> QED
  BY <1>1, <1>2, <1>3, <1>4, <1>5 DEF QueueNext

\* q_dequeue_rr, q_enqueue and the rest together use the scheduler only as
\* round_robin.c lets them: the composition implements RoundRobin.
THEOREM QueueSchedules == QueueSpec => Spec
<1>1. QueueInit => Init
  BY DEF QueueInit
<1> QED
  BY <1>1, QueueStepSchedules, PTL DEF QueueSpec, Spec

\* The ring of subscribers stays one ring whatever happens on the list.
THEOREM QueueRingCorrect == QueueSpec => []RingOK
  BY QueueSchedules, RingCorrect, PTL

\* Without spurious wakeups one consumer at most is in the middle of a
\* q_dequeue_rr of the queue.
THEOREM QueueRoundIsExclusive ==
  ASSUME ~Spurious
  PROVE  QueueSpec => []RoundExclusive
  BY QueueSchedules, RoundIsExclusive, PTL

-----------------------------------------------------------------------------
\* The types: what is malloced is an address, and what is freed was one.
LEMMA TypesStep ==
  ASSUME QTypes, [QueueNext]_qVars
  PROVE  QTypes'
<1> USE DEF QTypes, QPlaces, PPlaces, QGoTo, PGoTo
<1>1. ASSUME NEW p \in Publishers, Publish(p) PROVE QTypes'
  BY <1>1 DEF Publish, conVars
<1>2. ASSUME NEW p \in Publishers, LinkNode(p) PROVE QTypes'
  BY <1>2 DEF LinkNode, LastAfterLink, conVars
<1>3. ASSUME NEW p \in Publishers, TellSubscribers(p) PROVE QTypes'
  BY <1>3 DEF TellSubscribers, Told, listVars
<1>4. ASSUME NEW t \in Threads, CheckMsg(t) PROVE QTypes'
  BY <1>4 DEF CheckMsg, listVars, pubVars
<1>5. ASSUME NEW t \in Threads,
             StartWaitingMsg(t) \/ SpuriousMsgWakeup(t) \/ DequeueNothing(t)
      PROVE  QTypes'
  BY <1>5 DEF StartWaitingMsg, SpuriousMsgWakeup, DequeueNothing, listVars, pubVars
<1>6. ASSUME NEW t \in Threads, TakeLast(t) PROVE QTypes'
  BY <1>6 DEF TakeLast, pubVars
<1>7. ASSUME NEW t \in Threads, FinishDequeue(t) PROVE QTypes'
  BY <1>7 DEF FinishDequeue, SizeWithout, pubVars
<1>8. ASSUME NEW t \in Threads, HandOn(t) PROVE QTypes'
  BY <1>8 DEF HandOn, listVars, pubVars
<1>9. CASE Schedule
  BY <1>9 DEF Schedule, listVars, pubVars, conVars
<1>10. CASE UNCHANGED qVars
  BY <1>10 DEF qVars, listVars, pubVars, conVars
<1> QED
  BY <1>1, <1>2, <1>3, <1>4, <1>5, <1>6, <1>7, <1>8, <1>9, <1>10
     DEF QueueNext, Enqueue, Dequeue

\* The mutex has one holder: who takes it finds it free.
LEMMA MutexStep ==
  ASSUME QTypes, MutexInv, [QueueNext]_qVars
  PROVE  MutexInv'
<1> USE DEF QTypes, QPlaces, PPlaces, QGoTo, PGoTo, MutexInv
<1>1. ASSUME NEW p \in Publishers, Publish(p) PROVE MutexInv'
  BY <1>1 DEF Publish, conVars
<1>2. ASSUME NEW p \in Publishers, LinkNode(p) PROVE MutexInv'
  BY <1>2 DEF LinkNode, QMutexFree, conVars
<1>3. ASSUME NEW p \in Publishers, TellSubscribers(p) PROVE MutexInv'
  BY <1>3 DEF TellSubscribers, Told
<1>4. ASSUME NEW t \in Threads, CheckMsg(t) PROVE MutexInv'
  BY <1>4 DEF CheckMsg, pubVars
<1>5. ASSUME NEW t \in Threads,
             StartWaitingMsg(t) \/ SpuriousMsgWakeup(t) \/ DequeueNothing(t)
      PROVE  MutexInv'
  BY <1>5 DEF StartWaitingMsg, SpuriousMsgWakeup, DequeueNothing, pubVars
<1>6. ASSUME NEW t \in Threads, TakeLast(t) PROVE MutexInv'
  BY <1>6 DEF TakeLast, QMutexFree, pubVars
<1>7. ASSUME NEW t \in Threads, FinishDequeue(t) PROVE MutexInv'
  BY <1>7 DEF FinishDequeue, pubVars
<1>8. ASSUME NEW t \in Threads, HandOn(t) PROVE MutexInv'
  BY <1>8 DEF HandOn, pubVars
<1>9. CASE Schedule
  BY <1>9 DEF Schedule, pubVars, conVars
<1>10. CASE UNCHANGED qVars
  BY <1>10 DEF qVars, pubVars, conVars
<1> QED
  BY <1>1, <1>2, <1>3, <1>4, <1>5, <1>6, <1>7, <1>8, <1>9, <1>10
     DEF QueueNext, Enqueue, Dequeue

-----------------------------------------------------------------------------
\* What Append and Tail do to the length and to the elements.
LEMMA AppendFacts ==
  ASSUME NEW S, NEW s \in Seq(S), NEW n \in S, NEW r, r = Append(s, n)
  PROVE  /\ r \in Seq(S) /\ r # <<>>
         /\ Len(s) \in Nat /\ Len(r) = Len(s) + 1
         /\ \A i \in 1..Len(r) : r[i] = IF i = Len(s) + 1 THEN n ELSE s[i]
  OBVIOUS

LEMMA TailFacts ==
  ASSUME NEW S, NEW s \in Seq(S), s # <<>>, NEW r, r = Tail(s)
  PROVE  /\ r \in Seq(S)
         /\ Len(s) \in Nat /\ Len(r) = Len(s) - 1
         /\ (r = <<>> <=> Len(s) = 1)
         /\ \A i \in 1..Len(r) : r[i] = s[i + 1] /\ i + 1 \in 1..Len(s)
<1>1. /\ r \in Seq(S) /\ Len(s) \in Nat /\ Len(r) = Len(s) - 1
  OBVIOUS
<1>2. \A i \in 1..Len(r) : r[i] = s[i + 1] /\ i + 1 \in 1..Len(s)
  BY <1>1
<1>3. r = <<>> => Len(r) = 0
  BY EmptySeq
<1>4. Len(r) = 0 => r = <<>>
  BY <1>1, EmptySeq
<1> QED
  BY <1>1, <1>2, <1>3, <1>4

-----------------------------------------------------------------------------
\* malloc returns an address that neither the list nor a publisher has.
LEMMA PublishKeepsList ==
  ASSUME QTypes, PrivateOK, NEW s \in Seq(Addr), Linked(s),
         NEW p \in Publishers, Publish(p)
  PROVE  PrivateOK' /\ Linked(s)'
<1> PICK a \in Addr \ heap, m \in Msgs :
      /\ heap' = heap \cup {a}
      /\ parent' = [parent EXCEPT ![a] = Null]
      /\ node' = [node EXCEPT ![p] = a]
  BY DEF Publish
<1>1. /\ ppc[p] = "idle" /\ ppc' = [ppc EXCEPT ![p] = "allocated"]
      /\ UNCHANGED <<first_node, last_node, size, qpc, taken>>
  BY DEF Publish, PGoTo, conVars
<1>2. PrivateOK'
  BY <1>1 DEF PrivateOK, QTypes
<1>3. \A i \in 1..Len(s) : s[i] # a /\ s[i] \in Addr
  BY DEF Linked
<1>4. Linked(s)'
  BY <1>1, <1>3 DEF Linked, QTypes, NoDequeue
<1> QED
  BY <1>2, <1>4

\* q_enqueue puts its node behind the newest one.
LEMMA LinkKeepsList ==
  ASSUME QTypes, PrivateOK, NEW s \in Seq(Addr), Linked(s),
         NEW p \in Publishers, LinkNode(p), NEW n, n = node[p]
  PROVE  PrivateOK' /\ Linked(Append(s, n))' /\ last_node' # Null
<1> PICK r : r = Append(s, n)
  OBVIOUS
<1>1. /\ ppc[p] = "allocated" /\ ppc' = [ppc EXCEPT ![p] = "linked"]
      /\ NoDequeue /\ NoDequeue'
      /\ n \in heap /\ n \in Addr /\ parent[n] = Null
      /\ UNCHANGED <<heap, node, qpc, taken>>
  BY DEF LinkNode, QMutexFree, NoDequeue, PGoTo, conVars, PrivateOK, QTypes
<1>2. /\ first_node = (IF s = <<>> THEN Null ELSE s[Len(s)])
      /\ size = Len(s)
      /\ \A i \in 1..Len(s) : s[i] # n /\ s[i] \in Addr
  BY <1>1 DEF Linked
<1>3. /\ r \in Seq(Addr) /\ Len(s) \in Nat /\ Len(r) = Len(s) + 1 /\ r # <<>>
      /\ \A i \in 1..Len(r) : r[i] = IF i = Len(s) + 1 THEN n ELSE s[i]
  BY <1>1, AppendFacts
<1>4. \A i \in 1..Len(r) : parent'[r[i]] = IF i = Len(r) THEN Null ELSE r[i + 1]
  <2>1. CASE s = <<>>
    BY <1>1, <1>2, <1>3, <2>1 DEF LinkNode
  <2>2. CASE s # <<>>
    <3>1. /\ Len(s) \in Nat /\ Len(s) > 0 /\ first_node = s[Len(s)]
          /\ first_node # Null /\ first_node \in Addr
      BY <1>2, <2>2, AddrAssumption
    <3>2. parent' = [parent EXCEPT ![s[Len(s)]] = n]
      BY <3>1 DEF LinkNode
    <3>3. \A i \in 1..Len(s) : i # Len(s) => s[i] # s[Len(s)]
      BY <3>1 DEF Linked
    <3>4. \A i \in 1..Len(s) : parent[s[i]] = IF i = Len(s) THEN Null ELSE s[i + 1]
      BY DEF Linked
    <3>5. ASSUME NEW i \in 1..Len(r)
          PROVE  parent'[r[i]] = IF i = Len(r) THEN Null ELSE r[i + 1]
      <4>1. CASE i = Len(s) + 1
        BY <1>1, <1>2, <1>3, <3>1, <3>2, <4>1 DEF QTypes
      <4>2. CASE i = Len(s)
        BY <1>1, <1>2, <1>3, <3>1, <3>2, <4>2 DEF QTypes
      <4>3. CASE i < Len(s)
        BY <1>1, <1>2, <1>3, <3>1, <3>2, <3>3, <3>4, <4>3 DEF QTypes
      <4> QED
        BY <1>3, <3>1, <4>1, <4>2, <4>3
    <3> QED
      BY <3>5
  <2> QED
    BY <2>1, <2>2
<1>5. /\ first_node' = n /\ size' = Len(r)
      /\ last_node' = r[1] /\ last_node' # Null
  BY <1>1, <1>2, <1>3, AddrAssumption DEF LinkNode, LastAfterLink, Linked
<1>6. \A i, j \in 1..Len(r) : r[i] = r[j] => i = j
  BY <1>2, <1>3 DEF Linked
<1>7. \A i \in 1..Len(r) : r[i] \in heap /\
        \A q \in Publishers : ppc'[q] = "allocated" => node[q] # r[i]
  BY <1>1, <1>3 DEF Linked, PrivateOK, QTypes
<1>8. Linked(r)'
  <2>1. /\ last_node' = IF r = <<>> THEN Null ELSE r[1]
        /\ first_node' = IF r = <<>> THEN Null ELSE r[Len(r)]
    BY <1>3, <1>5
  <2>2. \A t \in Threads : qpc'[t] # "taken"
    BY <1>1 DEF NoDequeue
  <2>3. \A i \in 1..Len(r) : r[i] \in heap'
    BY <1>1, <1>7
  <2>4. \A i \in 1..Len(r), q \in Publishers : ppc'[q] = "allocated" => node'[q] # r[i]
    BY <1>1, <1>7
  <2> QED
    BY <1>4, <1>5, <1>6, <2>1, <2>2, <2>3, <2>4 DEF Linked
<1>9. PrivateOK'
  <2>1. ASSUME NEW q \in Publishers, ppc'[q] = "allocated"
        PROVE  ppc[q] = "allocated" /\ node[q] # n /\ node[q] # first_node
    BY <1>1, <1>2, <2>1, AddrAssumption DEF Linked, PrivateOK, QTypes
  <2> QED
    BY <1>1, <2>1 DEF PrivateOK, LinkNode, QTypes
<1> QED
  BY <1>5, <1>8, <1>9

\* q_dequeue takes the oldest node off.
LEMMA TakeKeepsList ==
  ASSUME QTypes, MutexInv, PrivateOK, NEW s \in Seq(Addr), Linked(s),
         NEW t \in Threads, TakeLast(t)
  PROVE  PrivateOK' /\ s # <<>> /\ Linked(Tail(s))'
<1> PICK r : r = Tail(s)
  OBVIOUS
<1>1. /\ NoDequeue /\ last_node # Null
      /\ qpc' = [qpc EXCEPT ![t] = "taken"]
      /\ taken' = [taken EXCEPT ![t] = last_node]
      /\ last_node' = parent[last_node]
      /\ heap' = heap \ {last_node}
      /\ UNCHANGED <<ppc, node, first_node, size, parent>>
  BY DEF TakeLast, QMutexFree, NoDequeue, QGoTo, pubVars
<1>2. /\ s # <<>> /\ last_node = s[1] /\ size = Len(s)
      /\ s[1] \in heap /\ first_node = s[Len(s)] /\ Len(s) \in Nat /\ Len(s) >= 1
  BY <1>1 DEF Linked
<1>3. /\ r \in Seq(Addr) /\ Len(r) = Len(s) - 1
      /\ (r = <<>> <=> Len(s) = 1)
      /\ \A i \in 1..Len(r) : r[i] = s[i + 1] /\ i + 1 \in 1..Len(s)
  BY <1>2, TailFacts
<1>4. /\ \A i, j \in 1..Len(r) : r[i] = r[j] => i = j
      /\ \A i \in 1..Len(r) : r[i] \in heap /\ r[i] # s[1]
  BY <1>2, <1>3 DEF Linked
<1>5. \A i \in 1..Len(r) : parent[r[i]] = IF i = Len(r) THEN Null ELSE r[i + 1]
  BY <1>2, <1>3 DEF Linked
<1>6. last_node' = IF r = <<>> THEN Null ELSE r[1]
  BY <1>1, <1>2, <1>3 DEF Linked
<1>7. \A u \in Threads : qpc'[u] = "taken" => u = t
  BY <1>1 DEF NoDequeue, QTypes
<1>8. ~NoDequeue' /\ taken'[t] = s[1]
  BY <1>1, <1>2 DEF NoDequeue, QTypes
<1>9. first_node = IF r = <<>> THEN s[1] ELSE r[Len(r)]
  BY <1>2, <1>3
<1>10. ASSUME NEW i \in 1..Len(r), NEW p \in Publishers, ppc[p] = "allocated"
       PROVE  node[p] # r[i]
  <2>1. r[i] = s[i + 1] /\ i + 1 \in 1..Len(s)
    BY <1>3
  <2> QED
    BY <1>10, <2>1 DEF Linked
<1>11. Linked(r)'
  <2>1. size' = Len(r) + 1
    BY <1>1, <1>2, <1>3
  <2>2. \A i \in 1..Len(r) : r[i] \in heap' /\ parent' = parent
    BY <1>1, <1>2, <1>4
  <2>3. \A u \in Threads : qpc'[u] = "taken" =>
          /\ size' = Len(r) + 1
          /\ first_node' = IF r = <<>> THEN taken'[u] ELSE r[Len(r)]
          /\ taken'[u] # Null
          /\ \A i \in 1..Len(r) : r[i] # taken'[u]
    BY <1>1, <1>2, <1>4, <1>7, <1>8, <1>9, <2>1
  <2>4. \A i \in 1..Len(r), p \in Publishers : ppc'[p] = "allocated" => node'[p] # r[i]
    BY <1>1, <1>10
  <2>5. \A i \in 1..Len(r) : parent'[r[i]] = IF i = Len(r) THEN Null ELSE r[i + 1]
    BY <1>1, <1>5
  <2> QED
    BY <1>4, <1>6, <1>8, <2>2, <2>3, <2>4, <2>5 DEF Linked
<1>12. PrivateOK'
  BY <1>1, <1>2 DEF PrivateOK, Linked
<1> QED
  BY <1>2, <1>11, <1>12

\* The comparison of the freed pointer with first_node is right, although
\* another thread may have been given the address meanwhile.
LEMMA FinishKeepsList ==
  ASSUME QTypes, MutexInv, PrivateOK, NEW s \in Seq(Addr), Linked(s),
         NEW t \in Threads, FinishDequeue(t)
  PROVE  PrivateOK' /\ Linked(s)'
<1>1. /\ qpc[t] = "taken" /\ qpc' = [qpc EXCEPT ![t] = "popped"]
      /\ first_node' = (IF first_node = taken[t] THEN Null ELSE first_node)
      /\ size' = size - 1
      /\ UNCHANGED <<ppc, node, last_node, heap, parent>>
  BY DEF FinishDequeue, SizeWithout, QGoTo, pubVars
<1>2. /\ size = Len(s) + 1 /\ Len(s) \in Nat
      /\ first_node = IF s = <<>> THEN taken[t] ELSE s[Len(s)]
      /\ \A i \in 1..Len(s) : s[i] # taken[t]
  BY <1>1 DEF Linked
<1>3. /\ size' = Len(s)
      /\ first_node' = IF s = <<>> THEN Null ELSE s[Len(s)]
  BY <1>1, <1>2
<1>4. \A u \in Threads : qpc'[u] # "taken"
  BY <1>1 DEF MutexInv, QTypes
<1>5. Linked(s)'
  BY <1>1, <1>3, <1>4 DEF Linked
<1>6. PrivateOK'
  BY <1>1 DEF PrivateOK
<1> QED
  BY <1>5, <1>6

\* The steps that do not touch the list.
LEMMA OthersKeepList ==
  ASSUME QTypes, MutexInv, PrivateOK, NEW s \in Seq(Addr), Linked(s),
         UNCHANGED <<first_node, last_node, size, heap, parent, taken>>,
         \A t \in Threads : qpc'[t] = "taken" <=> qpc[t] = "taken",
         \A p \in Publishers : ppc'[p] = "allocated" <=> ppc[p] = "allocated",
         \A p \in Publishers : ppc[p] = "allocated" => node'[p] = node[p]
  PROVE  PrivateOK' /\ Linked(s)' /\ (NoneLost(s) => NoneLost(s)')
<1>1. NoDequeue' = NoDequeue
  BY DEF NoDequeue
<1>2. PrivateOK' /\ Linked(s)'
  BY <1>1 DEF PrivateOK, Linked
<1>3. NoneLost(s) => NoneLost(s)'
  BY DEF NoneLost
<1> QED
  BY <1>2, <1>3

-----------------------------------------------------------------------------
\* A malloced node has an owner: first its publisher, then the list.
LEMMA PublishLosesNone ==
  ASSUME QTypes, NEW s, NoneLost(s), NEW p \in Publishers, Publish(p)
  PROVE  NoneLost(s)'
<1> PICK a \in Addr \ heap, m \in Msgs :
      heap' = heap \cup {a} /\ node' = [node EXCEPT ![p] = a]
  BY DEF Publish
<1>1. ppc[p] = "idle" /\ ppc' = [ppc EXCEPT ![p] = "allocated"]
  BY DEF Publish, PGoTo
<1>2. ppc'[p] = "allocated" /\ node'[p] = a
  BY <1>1 DEF QTypes
<1>3. \A q \in Publishers : ppc[q] = "allocated" =>
        ppc'[q] = "allocated" /\ node'[q] = node[q]
  BY <1>1 DEF QTypes
<1> QED
  BY <1>2, <1>3 DEF NoneLost

LEMMA LinkLosesNone ==
  ASSUME QTypes, NEW s \in Seq(Addr), NoneLost(s), NEW p \in Publishers,
         LinkNode(p), NEW n \in Addr, n = node[p]
  PROVE  NoneLost(Append(s, n))'
<1> PICK r : r = Append(s, n)
  OBVIOUS
<1>1. /\ ppc[p] = "allocated" /\ ppc' = [ppc EXCEPT ![p] = "linked"]
      /\ heap' = heap /\ node' = node
  BY DEF LinkNode, PGoTo
<1>2. /\ Len(s) \in Nat /\ Len(r) = Len(s) + 1
      /\ \A i \in 1..Len(r) : r[i] = IF i = Len(s) + 1 THEN n ELSE s[i]
  BY AppendFacts
<1>3. ASSUME NEW a \in heap, NEW q \in Publishers, ppc[q] = "allocated", node[q] = a
      PROVE  \/ ppc'[q] = "allocated" /\ node'[q] = a
             \/ \E i \in 1..Len(r) : r[i] = a
  <2>1. CASE q = p
    <3>1. Len(r) \in 1..Len(r) /\ r[Len(r)] = n
      BY <1>2
    <3> QED
      BY <1>3, <2>1, <3>1
  <2>2. CASE q # p
    BY <1>1, <1>3, <2>2 DEF QTypes
  <2> QED
    BY <2>1, <2>2
<1>4. ASSUME NEW i \in 1..Len(s)
      PROVE  i \in 1..Len(r) /\ r[i] = s[i]
  BY <1>2
<1>5. NoneLost(r)'
  BY <1>1, <1>3, <1>4 DEF NoneLost
<1> QED
  BY <1>5

\* What leaves the list is freed, the oldest node and no other.
LEMMA TakeLosesNone ==
  ASSUME NEW s \in Seq(Addr), s # <<>>, Linked(s), NoneLost(s),
         NEW t \in Threads, TakeLast(t)
  PROVE  NoneLost(Tail(s))'
<1> PICK r : r = Tail(s)
  OBVIOUS
<1>1. heap' = heap \ {s[1]} /\ ppc' = ppc /\ node' = node
  BY DEF TakeLast, Linked, pubVars
<1>2. /\ Len(s) \in Nat /\ Len(r) = Len(s) - 1
      /\ \A i \in 1..Len(r) : r[i] = s[i + 1]
  BY TailFacts
<1>3. ASSUME NEW i \in 1..Len(s), i # 1
      PROVE  i - 1 \in 1..Len(r) /\ r[i - 1] = s[i]
  BY <1>2, <1>3
<1>4. ASSUME NEW a \in heap, a # s[1], NEW i \in 1..Len(s), s[i] = a
      PROVE  \E j \in 1..Len(r) : r[j] = a
  BY <1>3, <1>4
<1>5. NoneLost(r)'
  BY <1>1, <1>4 DEF NoneLost
<1> QED
  BY <1>5

-----------------------------------------------------------------------------
\* Every step keeps the list.
LEMMA ListStep ==
  ASSUME ListInv, [QueueNext]_qVars
  PROVE  ListInv'
<1> DEFINE Kept(r) == PrivateOK' /\ Linked(r)' /\ NoneLost(r)'
<1> PICK s \in Seq(Addr) : Linked(s) /\ NoneLost(s)
  BY DEF ListInv
<1>1. QTypes' /\ MutexInv' /\ QTypes /\ MutexInv /\ PrivateOK
  BY TypesStep, MutexStep DEF ListInv
<1> SUFFICES \E r \in Seq(Addr) : Kept(r)
  BY <1>1 DEF ListInv
<1> USE <1>1
<1>2. ASSUME NEW p \in Publishers, Publish(p)
      PROVE  Kept(s)
  BY <1>2, PublishKeepsList, PublishLosesNone
<1>3. ASSUME NEW p \in Publishers, LinkNode(p)
      PROVE  \E r \in Seq(Addr) : Kept(r)
  <2>1. PICK n \in Addr : n = node[p]
    BY <1>3 DEF LinkNode, PrivateOK, QTypes
  <2>2. Append(s, n) \in Seq(Addr)
    OBVIOUS
  <2>3. Kept(Append(s, n))
    BY <1>3, <2>1, LinkKeepsList, LinkLosesNone
  <2> QED
    BY <2>2, <2>3
<1>4. ASSUME NEW t \in Threads, TakeLast(t)
      PROVE  \E r \in Seq(Addr) : Kept(r)
  <2>1. PrivateOK' /\ s # <<>> /\ Linked(Tail(s))'
    BY <1>4, TakeKeepsList
  <2>2. Tail(s) \in Seq(Addr)
    BY <2>1
  <2>3. Kept(Tail(s))
    BY <1>4, <2>1, TakeLosesNone
  <2> QED
    BY <2>2, <2>3
<1>5. ASSUME NEW t \in Threads, FinishDequeue(t)
      PROVE  Kept(s)
  <2>1. NoneLost(s)'
    BY <1>5 DEF FinishDequeue, NoneLost, pubVars
  <2> QED
    BY <1>5, <2>1, FinishKeepsList
<1>6. ASSUME NEW p \in Publishers, TellSubscribers(p)
      PROVE  Kept(s)
  <2>1. /\ UNCHANGED <<first_node, last_node, size, heap, parent, taken>>
        /\ \A t \in Threads : qpc'[t] = "taken" <=> qpc[t] = "taken"
        /\ \A q \in Publishers : ppc'[q] = "allocated" <=> ppc[q] = "allocated"
        /\ \A q \in Publishers : ppc[q] = "allocated" => node'[q] = node[q]
    BY <1>6 DEF TellSubscribers, Told, listVars, PGoTo, QTypes
  <2> QED
    BY <2>1, OthersKeepList
<1>7. ASSUME NEW t \in Threads,
             \/ CheckMsg(t) \/ StartWaitingMsg(t) \/ SpuriousMsgWakeup(t)
             \/ DequeueNothing(t) \/ HandOn(t)
      PROVE  Kept(s)
  <2>1. UNCHANGED <<first_node, last_node, size, heap, parent, taken, ppc, node>>
    BY <1>7 DEF CheckMsg, StartWaitingMsg, SpuriousMsgWakeup, DequeueNothing,
                HandOn, listVars, pubVars
  <2>2. \A u \in Threads : qpc'[u] = "taken" <=> qpc[u] = "taken"
    BY <1>7 DEF CheckMsg, StartWaitingMsg, SpuriousMsgWakeup, DequeueNothing,
                HandOn, QGoTo, QTypes
  <2> QED
    BY <2>1, <2>2, OthersKeepList
<1>8. CASE Schedule \/ UNCHANGED qVars
  <2>1. UNCHANGED <<first_node, last_node, size, heap, parent, taken, ppc, node, qpc>>
    BY <1>8 DEF Schedule, qVars, listVars, pubVars, conVars
  <2>2. Kept(s)
    BY <2>1, OthersKeepList
  <2> QED
    BY <2>2
<1> HIDE DEF Kept
<1> QED
  BY <1>2, <1>3, <1>4, <1>5, <1>6, <1>7, <1>8 DEF QueueNext, Enqueue, Dequeue

\* The list starts empty.
LEMMA ListInit == QueueInit => ListInv
<1> SUFFICES ASSUME QueueInit PROVE ListInv
  OBVIOUS
<1>1. QTypes /\ MutexInv /\ PrivateOK
  BY DEF QueueInit, QTypes, QPlaces, PPlaces, MutexInv, PrivateOK
<1>2. PICK s \in Seq(Addr) : s = <<>> /\ Len(s) = 0
  BY EmptySeq
<1>3. Linked(s) /\ NoneLost(s)
  BY <1>2 DEF Linked, NoneLost, QueueInit, NoDequeue
<1> QED
  BY <1>1, <1>3 DEF ListInv

-----------------------------------------------------------------------------
\* When no wait ends spuriously, a thread that leaves wait_msg has seen a
\* message, and only that thread can take it away again.
LEMMA DequeueStep ==
  ASSUME ~Spurious, QueueInv, [QueueNext]_qVars
  PROVE  DequeueInv'
<1> USE DEF QueueInv, DequeueInv
<1> PICK s \in Seq(Addr) : Linked(s)
  BY DEF ListInv
<1>1. /\ QTypes /\ pc \in [Threads -> Places]
      /\ \A t, u \in Threads : pc[t] = "round" /\ pc[u] = "round" => t = u
  BY DEF ListInv, RoundInv, RingInv, Types, RoundExclusive
<1>2. ASSUME NEW p \in Publishers, Publish(p) PROVE DequeueInv'
  BY <1>1, <1>2 DEF Publish, PGoTo, rrVars, conVars, QTypes
<1>3. ASSUME NEW p \in Publishers, LinkNode(p) PROVE DequeueInv'
  <2>1. QTypes /\ PrivateOK
    BY DEF ListInv
  <2>2. last_node' # Null
    BY <1>3, <2>1, LinkKeepsList
  <2> QED
    BY <1>3, <2>2 DEF LinkNode, rrVars, conVars
<1>4. ASSUME NEW p \in Publishers, TellSubscribers(p) PROVE DequeueInv'
  BY <1>1, <1>4 DEF TellSubscribers, Told, PGoTo, rrVars, listVars, QTypes
<1>5. ASSUME NEW t \in Threads, CheckMsg(t) PROVE DequeueInv'
  <2>1. NoDequeue
    BY <1>1, <1>5 DEF CheckMsg, NoDequeue
  <2>2. size # 0 => last_node # Null
    BY <2>1, AddrAssumption DEF Linked, QTypes
  <2> QED
    BY <1>1, <1>5, <2>2
       DEF CheckMsg, MustWait, QGoTo, rrVars, listVars, pubVars, QTypes
<1>6. ASSUME NEW t \in Threads, StartWaitingMsg(t) \/ DequeueNothing(t)
      PROVE  DequeueInv'
  BY <1>1, <1>6 DEF StartWaitingMsg, DequeueNothing, QGoTo, rrVars, listVars,
                    pubVars, QTypes
<1>7. ASSUME NEW t \in Threads, TakeLast(t) PROVE DequeueInv'
  <2>1. /\ qpc[t] = "dequeue" /\ qpc' = [qpc EXCEPT ![t] = "taken"]
        /\ pc' = pc /\ ppc' = ppc /\ \A p \in Publishers : ppc[p] # "linked"
    BY <1>7 DEF TakeLast, QMutexFree, QGoTo, rrVars, pubVars
  <2>2. \A u \in Threads : qpc[u] = "dequeue" => u = t
    BY <1>1, <2>1
  <2> QED
    BY <1>1, <2>1, <2>2 DEF QTypes
<1>8. ASSUME NEW t \in Threads, FinishDequeue(t) PROVE DequeueInv'
  BY <1>1, <1>8 DEF FinishDequeue, QGoTo, rrVars, pubVars, QTypes
<1>9. ASSUME NEW t \in Threads, HandOn(t) PROVE DequeueInv'
  BY <1>1, <1>9 DEF HandOn, NextThread, GoTo, QGoTo, listVars, pubVars, QTypes
<1>10. CASE Schedule
  <2>1. UNCHANGED <<last_node, ppc, qpc>>
    BY <1>10 DEF Schedule, listVars, pubVars, conVars
  <2>2. \A u \in Threads : pc[u] = "round" => pc'[u] = "round"
    BY <1>1, <1>10 DEF Schedule, AddSubscriber, RemoveSubscriber, CheckRound,
         StartWaiting, SpuriousWakeup, SignalNext, Return, GoTo, Woken
  <2> QED
    BY <2>1, <2>2
<1>11. ASSUME NEW t \in Threads, SpuriousMsgWakeup(t) PROVE FALSE
  BY <1>11 DEF SpuriousMsgWakeup
<1>12. CASE UNCHANGED qVars
  BY <1>12 DEF qVars, rrVars, listVars, pubVars, conVars
<1> QED
  BY <1>2, <1>3, <1>4, <1>5, <1>6, <1>7, <1>8, <1>9, <1>10, <1>11, <1>12
     DEF QueueNext, Enqueue, Dequeue

\* Without spurious wakeups the ring, the list and the places of the threads
\* agree from the start on and after every step.
LEMMA QueueInvInit == QueueInit => QueueInv
<1> SUFFICES ASSUME QueueInit PROVE QueueInv
  OBVIOUS
<1>1. RoundInv
  BY RingInit DEF QueueInit, Init, RoundInv, RoundExclusive
<1>2. DequeueInv
  BY DEF QueueInit, DequeueInv
<1> QED
  BY <1>1, <1>2, ListInit DEF QueueInv

LEMMA QueueInvStep ==
  ASSUME ~Spurious, QueueInv, [QueueNext]_qVars
  PROVE  QueueInv'
<1>1. RoundInv'
  BY RoundStep, QueueStepSchedules DEF QueueInv
<1> QED
  BY <1>1, ListStep, DequeueStep DEF QueueInv

\* For any number of publishers and consumers, without spurious wakeups a
\* consumer that calls q_dequeue finds a message, although q->size is read
\* without the mutex: the round keeps the other consumers away.
THEOREM NoEmptyPopCorrect ==
  ASSUME ~Spurious
  PROVE  QueueSpec => []NoEmptyPop
<1>1. QueueInv => NoEmptyPop
  BY DEF QueueInv, DequeueInv, NoEmptyPop
<1>2. QueueInv /\ [QueueNext]_qVars => QueueInv'
  BY QueueInvStep
<1> QED
  BY <1>1, <1>2, QueueInvInit, PTL DEF QueueSpec

-----------------------------------------------------------------------------
\* A list without repetitions is no longer than the heap is large.
LEMMA DistinctBound ==
  ASSUME NEW T, IsFiniteSet(T), NEW n \in Nat, NEW f \in [1..n -> T],
         \A i, j \in 1..n : f[i] = f[j] => i = j
  PROVE  n <= Cardinality(T)
<1>1. f \in Injection(1..n, T)
  BY Fun_IsInj
<1>2. Cardinality(1..n) <= Cardinality(T)
  BY <1>1, FS_Injection
<1>3. Cardinality(1..n) = n
  BY FS_Interval
<1> QED
  BY <1>2, <1>3

\* size counts nodes of the list, and while a dequeue is half done also the
\* node that was freed, of which the list has no copy.
LEMMA SizeBound ==
  ASSUME ListInv
  PROVE  size \in 0..Cardinality(Addr)
<1> PICK s \in Seq(Addr) : Linked(s)
  BY DEF ListInv
<1>1. Len(s) \in Nat /\ s \in [1..Len(s) -> Addr]
  BY LenProperties
<1>2. \A i, j \in 1..Len(s) : s[i] = s[j] => i = j
  BY DEF Linked
<1>3. IsFiniteSet(Addr) /\ Cardinality(Addr) \in Nat
  BY AddrAssumption, FS_CardinalityType
<1>4. CASE NoDequeue
  <2>1. size = Len(s)
    BY <1>4 DEF Linked
  <2>2. Len(s) <= Cardinality(Addr)
    BY <1>1, <1>2, <1>3, DistinctBound
  <2> QED
    BY <1>1, <1>3, <2>1, <2>2
<1>5. CASE ~NoDequeue
  <2>1. PICK t \in Threads : qpc[t] = "taken"
    BY <1>5 DEF NoDequeue
  <2>2. /\ size = Len(s) + 1
        /\ taken[t] \in Addr
        /\ \A i \in 1..Len(s) : s[i] # taken[t]
    BY <2>1 DEF Linked, ListInv, QTypes
  <2>3. s \in [1..Len(s) -> Addr \ {taken[t]}]
    BY <1>1, <2>2
  <2>4. /\ IsFiniteSet(Addr \ {taken[t]})
        /\ Cardinality(Addr \ {taken[t]}) = Cardinality(Addr) - 1
    BY <1>3, <2>2, FS_RemoveElement
  <2>5. Len(s) <= Cardinality(Addr) - 1
    BY <1>1, <1>2, <2>3, <2>4, DistinctBound
  <2> QED
    BY <1>1, <1>3, <2>2, <2>5
<1> QED
  BY <1>4, <1>5

\* The queue's fields keep their types, spurious wakeups or not, and size
\* never exceeds the number of nodes that fit on the heap nor goes below 0.
THEOREM QueueTypeCorrect == QueueSpec => []QTypeOK
<1>1. ListInv => QTypeOK
  BY SizeBound DEF ListInv, QTypes, QTypeOK
<1>2. ListInv /\ [QueueNext]_qVars => ListInv'
  BY ListStep
<1> QED
  BY <1>1, <1>2, ListInit, PTL DEF QueueSpec

\* The two parts are what Queue asks of the list.
LEMMA ListFromParts ==
  ASSUME QTypes, NEW s \in Seq(Addr), Linked(s), NoneLost(s)
  PROVE  s \in Lists /\ IsList(s)
<1>1. Len(s) \in Nat /\ s \in [1..Len(s) -> Addr]
  BY LenProperties
<1>2. \A i, j \in 1..Len(s) : s[i] = s[j] => i = j
  BY DEF Linked
<1>3. IsFiniteSet(Addr) /\ Cardinality(Addr) \in Nat
  BY AddrAssumption, FS_CardinalityType
<1>4. Len(s) \in 0..Cardinality(Addr)
  BY <1>1, <1>2, <1>3, DistinctBound
<1>5. s \in Lists
  BY <1>1, <1>4 DEF Lists
<1>6. Chain(s) /\ Fields(s)
  BY DEF Linked, Chain, Fields
<1>7. Allocated(s)
  BY DEF Linked, NoneLost, Allocated, Private
<1> QED
  BY <1>5, <1>6, <1>7 DEF IsList

\* The list of the queue survives every interleaving of any number of
\* publishers and consumers, spurious wakeups or not: no node is linked twice,
\* freed while it is linked or lost, and first_node, last_node and size agree
\* with it, although q_dequeue compares a pointer that it has freed.
THEOREM QueueCorrect == QueueSpec => []QueueOK
<1>1. ListInv => QueueOK
  BY ListFromParts DEF ListInv, QueueOK
<1>2. ListInv /\ [QueueNext]_qVars => ListInv'
  BY ListStep
<1> QED
  BY <1>1, <1>2, ListInit, PTL DEF QueueSpec

-----------------------------------------------------------------------------
\* Who can leave a consumer asleep beside a message.
LEMMA MsgStallStep ==
  ASSUME QTypes, [QueueNext]_qVars,
         NEW t \in Threads, MsgStalled(t)', ~MsgStalled(t)
  PROVE  StartWaitingMsg(t)
<1> USE DEF QTypes, PGoTo, QGoTo, rrVars, listVars, pubVars, conVars
<1>1. qpc'[t] = "waiting" /\ size' > 0 /\ \A p \in Publishers : ppc'[p] # "linked"
  BY DEF MsgStalled
<1>2. ~(qpc[t] = "waiting" /\ size > 0 /\ \A p \in Publishers : ppc[p] # "linked")
  BY DEF MsgStalled
<1>3. ASSUME NEW p \in Publishers, Publish(p) PROVE FALSE
  BY <1>1, <1>2, <1>3 DEF Publish
<1>4. ASSUME NEW p \in Publishers, LinkNode(p) PROVE FALSE
  BY <1>1, <1>4 DEF LinkNode
<1>5. ASSUME NEW p \in Publishers, TellSubscribers(p) PROVE FALSE
  BY <1>1, <1>5 DEF TellSubscribers, Told
<1>6. ASSUME NEW u \in Threads, CheckMsg(u) PROVE FALSE
  BY <1>1, <1>2, <1>6 DEF CheckMsg
<1>7. ASSUME NEW u \in Threads, StartWaitingMsg(u), u # t PROVE FALSE
  BY <1>1, <1>2, <1>7 DEF StartWaitingMsg
<1>8. ASSUME NEW u \in Threads, SpuriousMsgWakeup(u) PROVE FALSE
  BY <1>1, <1>2, <1>8 DEF SpuriousMsgWakeup
<1>9. ASSUME NEW u \in Threads, DequeueNothing(u) PROVE FALSE
  BY <1>1, <1>2, <1>9 DEF DequeueNothing
<1>10. ASSUME NEW u \in Threads, TakeLast(u) PROVE FALSE
  BY <1>1, <1>2, <1>10 DEF TakeLast
<1>11. ASSUME NEW u \in Threads, FinishDequeue(u) PROVE FALSE
  <2>1. size' = size - 1 /\ ppc' = ppc /\ qpc' = [qpc EXCEPT ![u] = "popped"]
    BY <1>11 DEF FinishDequeue, SizeWithout
  <2>2. size > 0
    BY <1>1, <2>1
  <2> QED
    BY <1>1, <1>2, <2>1, <2>2
<1>12. ASSUME NEW u \in Threads, HandOn(u) PROVE FALSE
  BY <1>1, <1>2, <1>12 DEF HandOn
<1>13. CASE Schedule
  BY <1>1, <1>2, <1>13 DEF Schedule
<1>14. CASE UNCHANGED qVars
  BY <1>1, <1>2, <1>14 DEF qVars
<1> QED
  BY <1>3, <1>4, <1>5, <1>6, <1>7, <1>8, <1>9, <1>10, <1>11, <1>12, <1>13, <1>14
     DEF QueueNext, Enqueue, Dequeue

\* For any number of publishers and consumers, a consumer is asleep beside a
\* message only because of the gap in wait_msg.
THEOREM MsgStallsCorrect == QueueSpec => MsgStallOnlyInGap
<1>1. QueueInit => QTypes
  BY ListInit DEF ListInv
<1>2. QTypes /\ [QueueNext]_qVars => QTypes'
  BY TypesStep
<1>3. QTypes /\ [QueueNext]_qVars =>
        [\A t \in Threads : MsgStalled(t)' /\ ~MsgStalled(t) =>
           StartWaitingMsg(t)]_qVars
  BY MsgStallStep
<1> QED
  BY <1>1, <1>2, <1>3, PTL DEF QueueSpec, MsgStallOnlyInGap

-----------------------------------------------------------------------------
(***************************************************************************)
(* The refinement of FifoQueue.  TheList of Queue is a CHOOSE, so it must  *)
(* be shown first that one sequence only is a chain from last_node; then   *)
(* each step on the heap is the step on sequences it stands for.           *)
(***************************************************************************)
ChainFrom(oldest, up, s) ==
  /\ oldest = IF s = <<>> THEN Null ELSE s[1]
  /\ \A i \in 1..Len(s) : up[s[i]] = IF i = Len(s) THEN Null ELSE s[i + 1]

\* Two chains from one node go the same way, as far as the first one goes.
LEMMA ChainsAgree ==
  ASSUME NEW oldest, NEW up, NEW s \in Seq(Addr), NEW r \in Seq(Addr),
         ChainFrom(oldest, up, s), ChainFrom(oldest, up, r)
  PROVE  Len(s) <= Len(r) /\ \A i \in 1..Len(s) : r[i] = s[i]
<1> DEFINE Same == {n \in Nat : n <= Len(r) /\ \A i \in 1..n : r[i] = s[i]}
<1>1. /\ Len(s) \in Nat /\ \A i \in 1..Len(s) : s[i] \in Addr /\ s[i] # Null
      /\ Len(r) \in Nat /\ \A i \in 1..Len(r) : r[i] \in Addr
  BY AddrAssumption
<1>2. 0 \in Same
  BY <1>1
<1>3. ASSUME NEW n \in 0..Len(s) - 1, n \in Same PROVE n + 1 \in Same
  <2>1. /\ n \in Nat /\ n + 1 \in 1..Len(s) /\ n <= Len(r)
        /\ \A i \in 1..n : r[i] = s[i]
    BY <1>1, <1>3
  <2>2. n + 1 <= Len(r) /\ r[n + 1] = s[n + 1]
    <3>1. CASE n = 0
      <4>1. s # <<>>
        BY <2>1, <3>1, EmptySeq
      <4>2. oldest = s[1] /\ s[1] # Null
        BY <1>1, <2>1, <3>1, <4>1 DEF ChainFrom
      <4>3. r # <<>> /\ oldest = r[1]
        BY <4>2 DEF ChainFrom
      <4>4. Len(r) \in Nat \ {0}
        BY <4>3, EmptySeq
      <4>5. r[1] = s[1] /\ 1 <= Len(r)
        BY <4>2, <4>3, <4>4
      <4> QED
        BY <3>1, <4>5
    <3>2. CASE n # 0
      <4>1. n \in 1..Len(s) /\ n \in 1..Len(r) /\ n # Len(s) /\ r[n] = s[n]
        BY <1>1, <2>1, <3>2
      <4>2. up[s[n]] = s[n + 1] /\ s[n + 1] # Null
        BY <1>1, <2>1, <4>1 DEF ChainFrom
      <4>3. up[r[n]] = IF n = Len(r) THEN Null ELSE r[n + 1]
        BY <4>1 DEF ChainFrom
      <4> QED
        BY <1>1, <2>1, <4>1, <4>2, <4>3
    <3> QED
      BY <3>1, <3>2
  <2> QED
    BY <2>1, <2>2
<1>4. Len(s) \in Same
  <2>1. Len(s) \in 0..Len(s)
    BY <1>1
  <2> HIDE DEF Same
  <2> QED
    BY <1>1, <1>2, <1>3, <2>1, UpTo
<1> QED
  BY <1>4

LEMMA OneChain ==
  ASSUME NEW oldest, NEW up, NEW s \in Seq(Addr), NEW r \in Seq(Addr),
         ChainFrom(oldest, up, s), ChainFrom(oldest, up, r)
  PROVE  r = s
<1>1. Len(s) <= Len(r) /\ \A i \in 1..Len(s) : r[i] = s[i]
  BY ChainsAgree
<1>2. Len(r) <= Len(s)
  BY ChainsAgree
<1>3. Len(s) = Len(r)
  BY <1>1, <1>2
<1> QED
  BY <1>1, <1>3, SeqEqual

\* So TheList is any list of the queue that one can show, before and after a
\* step.
LEMMA ListsAreSeqs == Lists \subseteq Seq(Addr)
<1> SUFFICES ASSUME NEW n \in 0..Cardinality(Addr), NEW s \in [1..n -> Addr]
             PROVE  s \in Seq(Addr)
  BY DEF Lists
<1>1. n \in Nat
  BY AddrAssumption, FS_CardinalityType
<1> QED
  BY <1>1, SeqDef

LEMMA TheListIs ==
  ASSUME NEW s \in Lists, Chain(s)
  PROVE  TheList = s
<1>1. \A r \in Lists : Chain(r) => ChainFrom(last_node, parent, r)
  BY DEF Chain, ChainFrom
<1>2. \A r \in Lists : Chain(r) => r = s
  BY <1>1, ListsAreSeqs, OneChain
<1> QED
  BY <1>2 DEF TheList

LEMMA TheListIsNext ==
  ASSUME NEW s \in Lists, Chain(s)'
  PROVE  TheList' = s
<1>1. ChainFrom(last_node', parent', s)
  BY DEF Chain, ChainFrom
<1>2. \A r \in Lists : Chain(r)' => ChainFrom(last_node', parent', r)
  BY DEF Chain, ChainFrom
<1>3. \A r \in Lists : Chain(r)' => r = s
  BY <1>1, <1>2, ListsAreSeqs, OneChain
<1>4. TheList' = CHOOSE r \in Lists : Chain(r)'
  BY DEF TheList, Lists
<1> QED
  BY <1>3, <1>4

-----------------------------------------------------------------------------
\* Every node on the heap has a message, and so has every consumer between
\* free(last) and next_thread.
BodyInv ==
  /\ \A a \in heap : body[a] \in Msgs
  /\ \A t \in Threads : Holding(t) => dest[t] \in Msgs

FifoInv == QueueInv /\ BodyInv

LEMMA BodyStep ==
  ASSUME ~Spurious, FifoInv, [QueueNext]_qVars
  PROVE  BodyInv'
<1> USE DEF QTypes, BodyInv, Holding, PGoTo, QGoTo, rrVars, listVars, pubVars, conVars
<1>1. QTypes /\ BodyInv
  BY DEF FifoInv, QueueInv, ListInv
<1>2. ASSUME NEW p \in Publishers, Publish(p) PROVE BodyInv'
  BY <1>1, <1>2 DEF Publish
<1>3. ASSUME NEW p \in Publishers, LinkNode(p) PROVE BodyInv'
  BY <1>1, <1>3 DEF LinkNode
<1>4. ASSUME NEW p \in Publishers, TellSubscribers(p) PROVE BodyInv'
  BY <1>1, <1>4 DEF TellSubscribers, Told
<1>5. ASSUME NEW t \in Threads,
             CheckMsg(t) \/ StartWaitingMsg(t) \/ SpuriousMsgWakeup(t) \/ HandOn(t)
      PROVE  BodyInv'
  BY <1>1, <1>5 DEF CheckMsg, StartWaitingMsg, SpuriousMsgWakeup, HandOn
<1>6. ASSUME NEW t \in Threads, DequeueNothing(t) PROVE FALSE
  BY <1>6 DEF DequeueNothing, FifoInv, QueueInv, DequeueInv
<1>7. ASSUME NEW t \in Threads, TakeLast(t) PROVE BodyInv'
  <2>1. PICK s \in Seq(Addr) : Linked(s)
    BY DEF FifoInv, QueueInv, ListInv
  <2>2. last_node \in heap
    BY <1>7, <2>1 DEF TakeLast, Linked
  <2> QED
    BY <1>1, <1>7, <2>2 DEF TakeLast
<1>8. ASSUME NEW t \in Threads, FinishDequeue(t) PROVE BodyInv'
  BY <1>1, <1>8 DEF FinishDequeue
<1>9. CASE Schedule \/ UNCHANGED qVars
  BY <1>1, <1>9 DEF Schedule, qVars
<1> QED
  BY <1>2, <1>3, <1>4, <1>5, <1>6, <1>7, <1>8, <1>9
     DEF QueueNext, Enqueue, Dequeue

LEMMA FifoInvInit == QueueInit => FifoInv
  BY QueueInvInit DEF QueueInit, FifoInv, BodyInv, Holding

LEMMA FifoInvStep ==
  ASSUME ~Spurious, FifoInv, [QueueNext]_qVars
  PROVE  FifoInv'
  BY QueueInvStep, BodyStep DEF FifoInv

-----------------------------------------------------------------------------
\* What the variables of FifoQueue are on the heap.
Bodies(s) == [i \in 1..Len(s) |-> body[s[i]]]
Got == [t \in Threads |-> IF Holding(t) THEN dest[t] ELSE NoMsg]

\* Each change of the list as a change of the sequence of its messages.
LEMMA BodiesUnchanged ==
  ASSUME NEW s \in Seq(Addr), \A i \in 1..Len(s) : body'[s[i]] = body[s[i]]
  PROVE  Bodies(s)' = Bodies(s)
  BY DEF Bodies

LEMMA BodiesAppend ==
  ASSUME NEW s \in Seq(Addr), NEW n \in Addr, body' = body, QTypes
  PROVE  Bodies(Append(s, n))' = Append(Bodies(s), body[n])
<1> DEFINE r == Append(s, n)
           b == Bodies(s)
           x == body[n]
<1>1. /\ Len(s) \in Nat /\ Len(r) = Len(s) + 1
      /\ \A i \in 1..Len(r) : r[i] = IF i = Len(s) + 1 THEN n ELSE s[i]
      /\ \A i \in 1..Len(s) : s[i] \in Addr
  BY AppendFacts
<1>2. b \in Seq(Msgs \cup {NoMsg}) /\ Len(b) = Len(s) /\ x \in Msgs \cup {NoMsg}
  BY <1>1, SeqDef DEF Bodies, QTypes
<1>3. /\ Append(b, x) \in Seq(Msgs \cup {NoMsg})
      /\ Len(Append(b, x)) = Len(s) + 1
      /\ \A i \in 1..Len(s) + 1 :
           Append(b, x)[i] = IF i = Len(s) + 1 THEN x ELSE b[i]
  <2> HIDE DEF b, x
  <2> QED
    BY <1>1, <1>2, AppendFacts
<1>4. Bodies(r)' = [i \in 1..Len(r) |-> body[r[i]]]
  BY DEF Bodies
<1> QED
  BY <1>1, <1>3, <1>4 DEF Bodies

LEMMA BodiesTail ==
  ASSUME NEW s \in Seq(Addr), s # <<>>, body' = body, QTypes
  PROVE  /\ Bodies(s) # <<>> /\ Head(Bodies(s)) = body[s[1]]
         /\ Bodies(Tail(s))' = Tail(Bodies(s))
<1> DEFINE r == Tail(s)
           b == Bodies(s)
<1>1. /\ r \in Seq(Addr) /\ Len(s) \in Nat /\ Len(r) = Len(s) - 1
      /\ \A i \in 1..Len(r) : r[i] = s[i + 1] /\ i + 1 \in 1..Len(s)
      /\ \A i \in 1..Len(s) : s[i] \in Addr
  BY TailFacts
<1>2. Len(s) # 0
  BY EmptySeq
<1>3. /\ b \in Seq(Msgs \cup {NoMsg}) /\ Len(b) = Len(s)
      /\ \A i \in 1..Len(s) : b[i] = body[s[i]]
  BY <1>1, SeqDef DEF Bodies, QTypes
<1>4. b # <<>> /\ Head(b) = body[s[1]]
  <2> HIDE DEF b
  <2> QED
    BY <1>1, <1>2, <1>3, EmptySeq
<1>5. /\ Tail(b) \in Seq(Msgs \cup {NoMsg})
      /\ Len(Tail(b)) = Len(s) - 1
      /\ \A i \in 1..Len(s) - 1 : Tail(b)[i] = b[i + 1]
  <2> HIDE DEF b
  <2> QED
    BY <1>3, <1>4, TailFacts
<1>6. Bodies(r)' = [i \in 1..Len(r) |-> body[r[i]]]
  BY DEF Bodies
<1>7. PICK c : c = Bodies(r)'
  OBVIOUS
<1>8. /\ c \in Seq(Msgs \cup {NoMsg}) /\ Len(c) = Len(s) - 1
      /\ \A i \in 1..Len(s) - 1 : c[i] = b[i + 1]
  <2>1. \A i \in 1..Len(r) : r[i] \in Addr
    BY <1>1
  <2>2. c \in [1..Len(r) -> Msgs \cup {NoMsg}]
    BY <1>6, <1>7, <2>1 DEF QTypes
  <2> HIDE DEF b, r
  <2>3. Len(r) \in Nat /\ Len(r) = Len(s) - 1
    BY <1>1
  <2>4. c \in Seq(Msgs \cup {NoMsg}) /\ Len(c) = Len(r)
    BY <2>2, <2>3, SeqDef
  <2>5. \A i \in 1..Len(s) - 1 : c[i] = body[r[i]]
    BY <1>6, <1>7, <2>3
  <2>6. \A i \in 1..Len(s) - 1 : body[r[i]] = b[i + 1]
    BY <1>1, <1>3, <2>3
  <2> QED
    BY <2>3, <2>4, <2>5, <2>6
<1>9. Tail(b) = c
  <2> HIDE DEF b
  <2> QED
    BY <1>5, <1>8, SeqEqual
<1> QED
  BY <1>4, <1>7, <1>9

-----------------------------------------------------------------------------
\* A step of FifoQueue in the terms of the heap: how the list of messages,
\* the subscribers and what the consumers hold change together.
FifoStep ==
  \/ /\ \E m \in Msgs : Bodies(TheList)' = Append(Bodies(TheList), m)
     /\ Subscribed' = Subscribed /\ Got' = Got
  \/ \E t \in Threads :
       \/ /\ t \notin Subscribed /\ Subscribed' = Subscribed \cup {t}
          /\ Bodies(TheList)' = Bodies(TheList) /\ Got' = Got
       \/ /\ t \in Subscribed /\ Got[t] = NoMsg /\ Bodies(TheList) # <<>>
          /\ Got' = [Got EXCEPT ![t] = Head(Bodies(TheList))]
          /\ Bodies(TheList)' = Tail(Bodies(TheList))
          /\ Subscribed' = Subscribed
       \/ /\ Got[t] # NoMsg /\ Got' = [Got EXCEPT ![t] = NoMsg]
          /\ Bodies(TheList)' = Bodies(TheList) /\ Subscribed' = Subscribed
       \/ /\ t \in Subscribed /\ Got[t] = NoMsg /\ Subscribed' = Subscribed \ {t}
          /\ Bodies(TheList)' = Bodies(TheList) /\ Got' = Got
  \/ /\ Bodies(TheList)' = Bodies(TheList)
     /\ Subscribed' = Subscribed /\ Got' = Got

\* It is what FifoQueue calls a step.
LEMMA FifoStepIsFifo == FifoStep => [Fifo!Next]_Fifo!fifoVars
<1>1. /\ Bodies(TheList) = [i \in 1..Len(TheList) |-> body[TheList[i]]]
      /\ Bodies(TheList)' = [i \in 1..Len(TheList) |-> body[TheList[i]]]'
  BY DEF Bodies
<1>2. /\ Got = [t \in Threads |-> IF Holding(t) THEN dest[t] ELSE NoMsg]
      /\ Got' = [t \in Threads |-> IF Holding(t) THEN dest[t] ELSE NoMsg]'
  BY DEF Got
<1> QED
  BY <1>1, <1>2 DEF FifoStep, Fifo!Next, Fifo!fifoVars, Fifo!Put, Fifo!Subscribe,
     Fifo!Take, Fifo!Release, Fifo!Leave

\* A sequence that has the shape of the list is what TheList chooses.
LEMMA DistinctInLists ==
  ASSUME NEW s \in Seq(Addr), \A i, j \in 1..Len(s) : s[i] = s[j] => i = j
  PROVE  s \in Lists
<1>1. Len(s) \in Nat /\ s \in [1..Len(s) -> Addr]
  BY LenProperties
<1>2. IsFiniteSet(Addr) /\ Cardinality(Addr) \in Nat
  BY AddrAssumption, FS_CardinalityType
<1>3. Len(s) \in 0..Cardinality(Addr)
  BY <1>1, <1>2, DistinctBound
<1> QED
  BY <1>1, <1>3 DEF Lists

LEMMA LinkedIsTheList ==
  ASSUME NEW s \in Seq(Addr), Linked(s)
  PROVE  TheList = s
<1>1. s \in Lists
  BY DistinctInLists DEF Linked
<1>2. Chain(s)
  BY DEF Linked, Chain
<1> QED
  BY <1>1, <1>2, TheListIs

LEMMA LinkedIsTheListNext ==
  ASSUME NEW s \in Seq(Addr), Linked(s)'
  PROVE  TheList' = s
<1>1. s \in Lists
  BY DistinctInLists DEF Linked
<1>2. Chain(s)'
  BY DEF Linked, Chain
<1> QED
  BY <1>1, <1>2, TheListIsNext

\* publish, q_enqueue's critical section and q_dequeue's, on the messages.
LEMMA LinkIsPut ==
  ASSUME FifoInv, NEW p \in Publishers, LinkNode(p)
  PROVE  FifoStep
<1>1. QTypes /\ PrivateOK /\ BodyInv
  BY DEF FifoInv, QueueInv, ListInv
<1>2. PICK s \in Seq(Addr) : Linked(s)
  BY DEF FifoInv, QueueInv, ListInv
<1>3. PICK n \in Addr : n = node[p] /\ n \in heap
  BY <1>1 DEF LinkNode, PrivateOK, QTypes
<1>4. PICK r \in Seq(Addr) : r = Append(s, n)
  <2>1. Append(s, n) \in Seq(Addr)
    OBVIOUS
  <2> QED
    BY <2>1
<1>5. Linked(r)'
  BY <1>1, <1>2, <1>3, <1>4, LinkKeepsList
<1>6. TheList = s /\ TheList' = r
  BY <1>2, <1>4, <1>5, LinkedIsTheList, LinkedIsTheListNext
<1>7. Bodies(r)' = Append(Bodies(s), body[n])
  BY <1>1, <1>4, BodiesAppend DEF LinkNode
<1>8. Bodies(TheList)' = Append(Bodies(TheList), body[n])
  BY <1>6, <1>7 DEF Bodies
<1>9. body[n] \in Msgs
  BY <1>1, <1>3 DEF BodyInv
<1>10. Subscribed' = Subscribed /\ Got' = Got
  <2>1. pc' = pc /\ qpc' = qpc /\ dest' = dest
    BY DEF LinkNode, rrVars, conVars
  <2> QED
    BY <2>1 DEF Subscribed, Got, Holding
<1> QED
  BY <1>8, <1>9, <1>10 DEF FifoStep

LEMMA TakeIsTake ==
  ASSUME FifoInv, NEW t \in Threads, TakeLast(t)
  PROVE  FifoStep
<1>1. QTypes /\ MutexInv /\ PrivateOK
  BY DEF FifoInv, QueueInv, ListInv
<1>2. PICK s \in Seq(Addr) : Linked(s)
  BY DEF FifoInv, QueueInv, ListInv
<1>3. s # <<>> /\ Linked(Tail(s))' /\ last_node = s[1]
  BY <1>1, <1>2, TakeKeepsList DEF TakeLast, Linked
<1>4. PICK r \in Seq(Addr) : r = Tail(s)
  <2>1. Tail(s) \in Seq(Addr)
    BY <1>3
  <2> QED
    BY <2>1
<1>5. TheList = s /\ TheList' = r
  <2>1. Linked(r)'
    BY <1>3, <1>4
  <2> QED
    BY <1>2, <1>4, <2>1, LinkedIsTheList, LinkedIsTheListNext
<1>6. /\ Bodies(s) # <<>> /\ Head(Bodies(s)) = body[s[1]]
      /\ Bodies(r)' = Tail(Bodies(s))
  BY <1>1, <1>3, <1>4, BodiesTail DEF TakeLast
<1>7. /\ Bodies(TheList) # <<>> /\ Head(Bodies(TheList)) = body[last_node]
      /\ Bodies(TheList)' = Tail(Bodies(TheList))
  BY <1>3, <1>5, <1>6 DEF Bodies
<1>8. /\ pc' = pc /\ qpc[t] = "dequeue" /\ qpc' = [qpc EXCEPT ![t] = "taken"]
      /\ dest' = [dest EXCEPT ![t] = body[last_node]]
  BY DEF TakeLast, QGoTo, rrVars
<1>9. t \in Subscribed /\ Subscribed' = Subscribed
  <2>1. pc[t] = "round"
    BY <1>8 DEF FifoInv, QueueInv, DequeueInv
  <2> QED
    BY <1>8, <2>1 DEF Subscribed
<1>10. Got[t] = NoMsg /\ Got' = [Got EXCEPT ![t] = body[last_node]]
  BY <1>1, <1>8 DEF Got, Holding, QTypes
<1> QED
  BY <1>7, <1>9, <1>10 DEF FifoStep

\* The steps that leave every message where it is: mallocs among them, since
\* malloc never returns an address of the list.
LEMMA ListKept ==
  ASSUME NEW s \in Seq(Addr), Linked(s), Linked(s)',
         \A i \in 1..Len(s) : body'[s[i]] = body[s[i]]
  PROVE  Bodies(TheList)' = Bodies(TheList)
<1>1. TheList = s /\ TheList' = s
  BY LinkedIsTheList, LinkedIsTheListNext
<1>2. Bodies(s)' = Bodies(s)
  BY BodiesUnchanged
<1> QED
  BY <1>1, <1>2 DEF Bodies

LEMMA RestIsFifo ==
  ASSUME ~Spurious, FifoInv, [QueueNext]_qVars,
         \A p \in Publishers : ~LinkNode(p), \A t \in Threads : ~TakeLast(t)
  PROVE  FifoStep
<1>1. QTypes /\ MutexInv /\ PrivateOK /\ BodyInv /\ DequeueInv
      /\ pc \in [Threads -> Places]
  BY DEF FifoInv, QueueInv, ListInv, RoundInv, RingInv, Types
<1>2. PICK s \in Seq(Addr) : Linked(s)
  BY DEF FifoInv, QueueInv, ListInv
<1>3. ASSUME UNCHANGED <<first_node, last_node, size, heap, parent, body, taken, ppc, node>>,
             \A u \in Threads : qpc'[u] = "taken" <=> qpc[u] = "taken"
      PROVE  Bodies(TheList)' = Bodies(TheList)
  BY <1>1, <1>2, <1>3, OthersKeepList, ListKept
<1>4. ASSUME \A u \in Threads : qpc'[u] \in {"taken", "popped"} <=> qpc[u] \in {"taken", "popped"},
             dest' = dest
      PROVE  Got' = Got
  BY <1>4 DEF Got, Holding
<1>5. ASSUME NEW p \in Publishers, Publish(p) PROVE FifoStep
  <2>1. Linked(s)'
    BY <1>1, <1>2, <1>5, PublishKeepsList
  <2>2. \A i \in 1..Len(s) : body'[s[i]] = body[s[i]]
    BY <1>1, <1>2, <1>5 DEF Publish, Linked, QTypes
  <2>3. Bodies(TheList)' = Bodies(TheList)
    BY <1>2, <2>1, <2>2, ListKept
  <2>4. pc' = pc /\ qpc' = qpc /\ dest' = dest
    BY <1>5 DEF Publish, rrVars, conVars
  <2>5. Subscribed' = Subscribed /\ Got' = Got
    BY <1>4, <2>4 DEF Subscribed
  <2> QED
    BY <2>3, <2>5 DEF FifoStep
<1>6. ASSUME NEW p \in Publishers, TellSubscribers(p) PROVE FifoStep
  <2>1. /\ pc' = pc /\ dest' = dest
        /\ UNCHANGED <<first_node, last_node, size, heap, parent, body, taken>>
        /\ \A u \in Threads : qpc'[u] = Told(u)
        /\ ppc[p] = "linked" /\ ppc' = [ppc EXCEPT ![p] = "idle"]
        /\ node' = [node EXCEPT ![p] = Null]
    BY <1>6 DEF TellSubscribers, PGoTo, rrVars, listVars
  <2>2. /\ \A u \in Threads : qpc'[u] = "taken" <=> qpc[u] = "taken"
        /\ \A q \in Publishers : ppc'[q] = "allocated" <=> ppc[q] = "allocated"
        /\ \A q \in Publishers : ppc[q] = "allocated" => node'[q] = node[q]
    BY <1>1, <2>1 DEF Told, QTypes
  <2>3. Linked(s)'
    BY <1>1, <1>2, <2>1, <2>2, OthersKeepList
  <2>4. Bodies(TheList)' = Bodies(TheList)
    BY <1>2, <2>1, <2>3, ListKept
  <2>5. Got' = Got
    BY <1>4, <2>1 DEF Told
  <2> QED
    BY <2>1, <2>4, <2>5 DEF FifoStep, Subscribed
<1>7. ASSUME NEW t \in Threads, CheckMsg(t) \/ StartWaitingMsg(t) PROVE FifoStep
  <2>1. /\ pc' = pc /\ dest' = dest
        /\ UNCHANGED <<first_node, last_node, size, heap, parent, body, taken, ppc, node>>
        /\ qpc[t] \in {"wait_msg", "blocking"}
        /\ \E place \in {"blocking", "waiting", "dequeue"} :
             qpc' = [qpc EXCEPT ![t] = place]
    BY <1>7 DEF CheckMsg, StartWaitingMsg, QGoTo, rrVars, listVars, pubVars
  <2>2. \A u \in Threads : /\ qpc'[u] = "taken" <=> qpc[u] = "taken"
                           /\ qpc'[u] = "popped" <=> qpc[u] = "popped"
    BY <1>1, <2>1 DEF QTypes
  <2>3. Bodies(TheList)' = Bodies(TheList) /\ Got' = Got
    BY <1>3, <1>4, <2>1, <2>2
  <2> QED
    BY <2>1, <2>3 DEF FifoStep, Subscribed
<1>8. ASSUME NEW t \in Threads, SpuriousMsgWakeup(t) \/ DequeueNothing(t) PROVE FALSE
  BY <1>1, <1>8 DEF SpuriousMsgWakeup, DequeueNothing, DequeueInv
<1>9. ASSUME NEW t \in Threads, FinishDequeue(t) PROVE FifoStep
  <2>1. /\ pc' = pc /\ dest' = dest /\ body' = body
        /\ qpc[t] = "taken" /\ qpc' = [qpc EXCEPT ![t] = "popped"]
    BY <1>9 DEF FinishDequeue, QGoTo, rrVars
  <2>2. Linked(s)'
    BY <1>1, <1>2, <1>9, FinishKeepsList
  <2>3. Bodies(TheList)' = Bodies(TheList)
    BY <1>2, <2>1, <2>2, ListKept
  <2>4. \A u \in Threads :
          qpc'[u] \in {"taken", "popped"} <=> qpc[u] \in {"taken", "popped"}
    BY <1>1, <2>1 DEF QTypes
  <2>5. Got' = Got
    BY <1>4, <2>1, <2>4
  <2> QED
    BY <2>1, <2>3, <2>5 DEF FifoStep, Subscribed
<1>10. ASSUME NEW t \in Threads, HandOn(t) PROVE FifoStep
  <2>1. /\ qpc[t] = "popped" /\ qpc' = [qpc EXCEPT ![t] = "wait_msg"]
        /\ pc[t] = "round" /\ pc' = [pc EXCEPT ![t] = "signalling"]
        /\ dest' = dest
        /\ UNCHANGED <<first_node, last_node, size, heap, parent, body, taken, ppc, node>>
    BY <1>10 DEF HandOn, NextThread, GoTo, QGoTo, listVars, pubVars
  <2>2. \A u \in Threads : qpc'[u] = "taken" <=> qpc[u] = "taken"
    BY <1>1, <2>1 DEF QTypes
  <2>3. Bodies(TheList)' = Bodies(TheList)
    BY <1>3, <2>1, <2>2
  <2>4. Subscribed' = Subscribed
    BY <1>1, <2>1 DEF Subscribed
  <2>5. Got[t] = dest[t] /\ dest[t] # NoMsg /\ Got' = [Got EXCEPT ![t] = NoMsg]
    BY <1>1, <2>1, MsgsAssumption DEF Got, Holding, BodyInv, QTypes
  <2> QED
    BY <2>3, <2>4, <2>5 DEF FifoStep
<1>11. CASE Schedule
  <2>1. UNCHANGED <<first_node, last_node, size, heap, parent, body, taken, ppc, node,
                    qpc, dest>>
    BY <1>11 DEF Schedule, listVars, pubVars, conVars
  <2>2. Bodies(TheList)' = Bodies(TheList) /\ Got' = Got
    BY <1>3, <1>4, <2>1
  <2>3. ASSUME NEW t \in Threads, AddSubscriber(t)
        PROVE  t \notin Subscribed /\ Subscribed' = Subscribed \cup {t}
    BY <1>1, <2>3 DEF AddSubscriber, GoTo, Subscribed
  <2>4. ASSUME NEW t \in Threads, RemoveSubscriber(t)
        PROVE  t \in Subscribed /\ Got[t] = NoMsg /\ Subscribed' = Subscribed \ {t}
    <3>1. pc[t] = "served" /\ pc' = [pc EXCEPT ![t] = "idle"]
      BY <2>4 DEF RemoveSubscriber, GoTo
    <3>2. qpc[t] = "wait_msg"
      BY <1>1, <3>1 DEF DequeueInv
    <3> QED
      BY <1>1, <3>1, <3>2 DEF Subscribed, Got, Holding
  <2>5. ASSUME NEW t \in Threads,
               \/ CheckRound(t) \/ StartWaiting(t) \/ SpuriousWakeup(t)
               \/ SignalNext(t) \/ Return(t)
        PROVE  Subscribed' = Subscribed
    BY <1>1, <2>5 DEF CheckRound, StartWaiting, SpuriousWakeup, SignalNext, Return,
                      GoTo, Woken, Subscribed
  <2> QED
    BY <1>11, <2>2, <2>3, <2>4, <2>5 DEF Schedule, FifoStep
<1>12. CASE UNCHANGED qVars
  <2>1. UNCHANGED <<first_node, last_node, size, heap, parent, body, taken, ppc, node,
                    qpc, dest, pc>>
    BY <1>12 DEF qVars, rrVars, listVars, pubVars, conVars
  <2>2. Bodies(TheList)' = Bodies(TheList) /\ Got' = Got
    BY <1>3, <1>4, <2>1
  <2> QED
    BY <2>1, <2>2 DEF FifoStep, Subscribed
<1> QED
  BY <1>5, <1>6, <1>7, <1>8, <1>9, <1>10, <1>11, <1>12
     DEF QueueNext, Enqueue, Dequeue

\* The queue keeps the promise of FifoQueue, for any number of publishers and
\* consumers and any heap: messages are taken in the order in which they were
\* linked, each by one subscriber, no dequeue comes back without one, and
\* nobody leaves with a message in its hands.  Without spurious wakeups, as
\* for NoEmptyPopCorrect, which it rests on.
THEOREM QueueIsFifo ==
  ASSUME ~Spurious
  PROVE  QueueSpec => IsFifo
<1>1. QueueInit => Fifo!Init
  <2> SUFFICES ASSUME QueueInit PROVE Fifo!Init
    OBVIOUS
  <2>1. PICK s \in Seq(Addr) : s = <<>> /\ Len(s) = 0
    BY EmptySeq
  <2>2. Linked(s)
    BY <2>1 DEF Linked, QueueInit, NoDequeue
  <2>3. TheList = <<>> /\ Len(TheList) = 0
    BY <2>1, <2>2, LinkedIsTheList
  <2>4. Bodies(TheList) = <<>>
    BY <2>3 DEF Bodies
  <2>5. Subscribed = {} /\ \A t \in Threads : ~Holding(t)
    BY DEF QueueInit, Init, Subscribed, Holding
  <2> QED
    BY <2>4, <2>5 DEF Fifo!Init, Bodies
<1>2. FifoInv /\ [QueueNext]_qVars => FifoInv'
  BY FifoInvStep
<1>3. FifoInv /\ [QueueNext]_qVars => [Fifo!Next]_Fifo!fifoVars
  BY LinkIsPut, TakeIsTake, RestIsFifo, FifoStepIsFifo
<1> QED
  BY <1>1, <1>2, <1>3, FifoInvInit, PTL DEF QueueSpec, IsFifo, Fifo!Spec

=============================================================================
