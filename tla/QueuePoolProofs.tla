-------------------------- MODULE QueuePoolProofs --------------------------
(***************************************************************************)
(* Theorems about QueuePool, for any names, threads and number of nodes.   *)
(* The first part holds whatever clients ask for: each node stands for one *)
(* prefix of names, also when it has been cut off from the trie.  The      *)
(* second is about clients that use only declared names; then no edge of   *)
(* the trie is ever replaced.                                              *)
(***************************************************************************)
EXTENDS QueuePool, Induction, SequenceTheorems

Pointers == Nodes \cup {Null}

PoolTypes ==
  /\ used \in 0..MaxNodes
  /\ children \in [Nodes -> [Chars -> (1..used) \cup {Null}]]
  /\ queue \in [Nodes -> Names \cup {Null}]
  /\ pc \in [Threads -> Places]
  /\ creating \in [Threads -> BOOLEAN]
  /\ name \in [Threads -> Names \cup {<<>>}]
  /\ at \in [Threads -> 0..used]
  /\ depth \in [Threads -> Nat]
  /\ declared \subseteq [name : Names, q : 0..used]
  /\ stray \in BOOLEAN

\* How far a walk is: it installs a node before the end of its name, and has
\* found one only at the end.
CallInv ==
  \A t \in Threads :
    /\ depth[t] <= Len(name[t])
    /\ pc[t] # "idle" => name[t] \in Names
    /\ pc[t] = "install" => depth[t] < Len(name[t])
    /\ pc[t] = "found" => depth[t] = Len(name[t])

\* path[n] is the prefix of names that node n was created for.  No field holds
\* it; it is what all edges, queues and walks have to agree on.
Paths(path) ==
  /\ path[Root] = <<>>
  /\ \A n \in Nodes, c \in Chars :
       children[n][c] # Null => n <= used /\ path[children[n][c]] = Append(path[n], c)
  /\ \A n \in Nodes : queue[n] # Null => n <= used /\ queue[n] = path[n]
  /\ \A t \in Threads : pc[t] # "idle" => path[at[t]] = SubSeq(name[t], 1, depth[t])

PathInv == \E path \in [Nodes -> Seq(Chars)] : Paths(path)

\* The pool's mutex: one thread at a time walks for create_queue.
OneCreates ==
  \A t, u \in Threads :
    /\ creating[t] /\ pc[t] \in {"walk", "install"}
    /\ creating[u] /\ pc[u] \in {"walk", "install"}
    => t = u

TrieInv == PoolTypes /\ CallInv /\ PathInv /\ OneCreates

-----------------------------------------------------------------------------
\* The characters of a name, and its prefixes.
LEMMA NamesAreSequences == \A n \in Names : n \in Seq(Chars)
<1> SUFFICES ASSUME NEW n \in Names PROVE n \in Seq(Chars)
  OBVIOUS
<1>1. n \in Seq(UNION {{n[k] : k \in 1..Len(n)}})
  BY NamesAssumption
<1>2. Len(n) \in Nat /\ DOMAIN n = 1..Len(n)
  BY <1>1
<1>3. \A k \in 1..Len(n) : n[k] \in Chars
  BY DEF Chars
<1> QED
  BY <1>1, <1>2, <1>3, IsASeq

LEMMA Prefixes ==
  ASSUME NEW n \in Seq(Chars)
  PROVE  /\ Len(n) \in Nat
         /\ SubSeq(n, 1, 0) = <<>>
         /\ SubSeq(n, 1, Len(n)) = n
         /\ \A d \in 0..Len(n) - 1 :
              /\ n[d + 1] \in Chars
              /\ SubSeq(n, 1, d + 1) = Append(SubSeq(n, 1, d), n[d + 1])
<1>1. Len(n) \in Nat
  OBVIOUS
<1>2. SubSeq(n, 1, 0) = <<>>
  BY SubSeqEmpty
<1>3. SubSeq(n, 1, Len(n)) = n
  BY SubSeqFull
<1>4. ASSUME NEW d \in 0..Len(n) - 1
      PROVE  /\ n[d + 1] \in Chars
             /\ SubSeq(n, 1, d + 1) = Append(SubSeq(n, 1, d), n[d + 1])
  BY <1>1, SubSeqRecursiveSecond
<1> QED
  BY <1>1, <1>2, <1>3, <1>4

-----------------------------------------------------------------------------
\* A call begins at the root, with the empty prefix.
LEMMA CallKeeps ==
  ASSUME TrieInv, NEW t \in Threads, NEW create \in BOOLEAN, NEW n \in Names,
         Call(t, create, n), create => PoolMutexFree, stray' \in BOOLEAN
  PROVE  TrieInv'
<1> USE DEF TrieInv, PoolTypes
<1>1. /\ pc' = [pc EXCEPT ![t] = "walk"]
      /\ creating' = [creating EXCEPT ![t] = create]
      /\ name' = [name EXCEPT ![t] = n]
      /\ at' = [at EXCEPT ![t] = Root]
      /\ depth' = [depth EXCEPT ![t] = 0]
      /\ UNCHANGED <<used, children, queue, declared>>
  BY DEF Call, GoTo, trieVars
<1>2. PoolTypes'
  BY <1>1, NullAssumption DEF Places, Root
<1>3. n \in Seq(Chars) /\ Len(n) \in Nat /\ SubSeq(n, 1, 0) = <<>>
  BY NamesAreSequences, Prefixes
<1>4. CallInv'
  BY <1>1, <1>3 DEF CallInv
<1>5. PathInv'
  <2>1. PICK path \in [Nodes -> Seq(Chars)] : Paths(path)
    BY DEF PathInv
  <2>2. Paths(path)'
    BY <1>1, <1>3, <2>1 DEF Paths
  <2> QED
    BY <2>2 DEF PathInv
<1>6. OneCreates'
  BY <1>1 DEF OneCreates, PoolMutexFree
<1> QED
  BY <1>2, <1>4, <1>5, <1>6

\* One look at a child: the edge adds the next character of the name.
LEMMA DescendKeeps ==
  ASSUME TrieInv, NEW t \in Threads, Descend(t)
  PROVE  TrieInv'
<1>1. /\ pc[t] = "walk" /\ name[t] \in Names /\ depth[t] <= Len(name[t])
      /\ depth[t] \in Nat /\ at[t] \in Nodes /\ at[t] <= used
      /\ UNCHANGED <<used, children, queue, creating, name, declared, stray>>
  BY NullAssumption DEF TrieInv, PoolTypes, Descend, CallInv, trieVars, history, Nodes
<1>2. /\ name[t] \in Seq(Chars) /\ Len(name[t]) \in Nat
      /\ depth[t] < Len(name[t]) =>
           /\ name[t][depth[t] + 1] \in Chars
           /\ SubSeq(name[t], 1, depth[t] + 1)
                = Append(SubSeq(name[t], 1, depth[t]), name[t][depth[t] + 1])
  <2>1. name[t] \in Seq(Chars)
    BY <1>1, NamesAreSequences
  <2>2. depth[t] < Len(name[t]) => depth[t] \in 0..Len(name[t]) - 1
    BY <1>1, <2>1
  <2> QED
    BY <2>1, <2>2, Prefixes
<1>3. \/ /\ depth[t] = Len(name[t])
         /\ pc' = [pc EXCEPT ![t] = "found"] /\ UNCHANGED <<at, depth>>
      \/ /\ depth[t] < Len(name[t]) /\ Child(t) = Null
         /\ pc' = [pc EXCEPT ![t] = "install"] /\ UNCHANGED <<at, depth>>
      \/ /\ depth[t] < Len(name[t]) /\ Child(t) # Null
         /\ at' = [at EXCEPT ![t] = Child(t)]
         /\ depth' = [depth EXCEPT ![t] = depth[t] + 1] /\ UNCHANGED pc
  <2>1. depth[t] # Len(name[t]) => depth[t] < Len(name[t])
    BY <1>1, <1>2
  <2> QED
    BY <2>1 DEF Descend, GoTo
<1>4. depth[t] < Len(name[t]) /\ Child(t) # Null => Child(t) \in 1..used
  BY <1>1, <1>2 DEF Child, TrieInv, PoolTypes
<1>5. PoolTypes'
  <2> USE DEF TrieInv, PoolTypes
  <2>1. pc' \in [Threads -> Places]
    BY <1>3 DEF Places
  <2>2. depth' \in [Threads -> Nat]
    BY <1>3
  <2>3. at' \in [Threads -> 0..used]
    BY <1>3, <1>4
  <2> QED
    BY <1>1, <2>1, <2>2, <2>3
<1>6. CallInv'
  BY <1>1, <1>2, <1>3 DEF TrieInv, PoolTypes, CallInv
<1>7. PathInv'
  <2>1. PICK path \in [Nodes -> Seq(Chars)] : Paths(path)
    BY DEF TrieInv, PathInv
  <2>2. path[at[t]] = SubSeq(name[t], 1, depth[t])
    BY <1>1, <2>1 DEF Paths
  <2>3. ASSUME depth[t] < Len(name[t]), Child(t) # Null
        PROVE  path[Child(t)] = SubSeq(name[t], 1, depth[t] + 1)
    <3>1. path[Child(t)] = Append(path[at[t]], name[t][depth[t] + 1])
      BY <1>1, <1>2, <2>1, <2>3 DEF Paths, Child
    <3> QED
      BY <1>2, <2>2, <2>3, <3>1
  <2>4. \A u \in Threads : pc'[u] # "idle" => path[at'[u]] = SubSeq(name[u], 1, depth'[u])
    BY <1>1, <1>3, <2>1, <2>3 DEF TrieInv, PoolTypes, Paths
  <2>5. Paths(path)'
    BY <1>1, <2>1, <2>4 DEF Paths
  <2> QED
    BY <2>5 DEF PathInv
<1>8. OneCreates'
  BY <1>1, <1>3 DEF TrieInv, PoolTypes, OneCreates
<1> QED
  BY <1>5, <1>6, <1>7, <1>8 DEF TrieInv

\* What a thread about to install a node has at hand.
LEMMA AtInstall ==
  ASSUME TrieInv, NEW t \in Threads, pc[t] = "install"
  PROVE  /\ name[t] \in Names /\ depth[t] \in 0..Len(name[t]) - 1
         /\ name[t][depth[t] + 1] \in Chars
         /\ SubSeq(name[t], 1, depth[t] + 1)
              = Append(SubSeq(name[t], 1, depth[t]), name[t][depth[t] + 1])
         /\ at[t] \in Nodes /\ at[t] \in 0..used /\ used \in Nat
<1>1. /\ name[t] \in Names /\ depth[t] < Len(name[t])
      /\ depth[t] \in Nat /\ at[t] \in Nodes /\ at[t] \in 0..used /\ used \in Nat
  BY NullAssumption DEF TrieInv, PoolTypes, CallInv, Nodes
<1>2. name[t] \in Seq(Chars)
  BY <1>1, NamesAreSequences
<1>3. depth[t] \in 0..Len(name[t]) - 1
  BY <1>1, <1>2
<1> QED
  BY <1>1, <1>2, <1>3, Prefixes

\* A new node stands for the prefix that was walked and one character more.
\* The node that it may displace keeps its prefix.
LEMMA InstallKeeps ==
  ASSUME TrieInv, NEW t \in Threads, Install(t)
  PROVE  TrieInv'
<1> DEFINE c == name[t][depth[t] + 1]
           m == used + 1
<1>1. /\ pc[t] = "install" /\ m \in Nodes /\ m \in Nat /\ used' = m
      /\ children' = [children EXCEPT ![at[t]][c] = m]
      /\ at' = [at EXCEPT ![t] = m]
      /\ depth' = [depth EXCEPT ![t] = depth[t] + 1]
      /\ pc' = [pc EXCEPT ![t] = "walk"]
      /\ UNCHANGED <<queue, creating, name, declared, stray>>
  BY NullAssumption DEF Install, TrieInv, PoolTypes, GoTo, NodeAfter, history, Nodes
<1>2. /\ depth[t] \in 0..Len(name[t]) - 1 /\ c \in Chars
      /\ SubSeq(name[t], 1, depth[t] + 1) = Append(SubSeq(name[t], 1, depth[t]), c)
      /\ at[t] \in Nodes /\ at[t] \in 0..used /\ used \in Nat /\ name[t] \in Names
  BY <1>1, AtInstall
<1> HIDE DEF c
<1>3. PoolTypes'
  <2> USE DEF TrieInv, PoolTypes
  <2>1. children' \in [Nodes -> [Chars -> (1..m) \cup {Null}]]
    BY <1>1, <1>2
  <2>2. pc' \in [Threads -> Places]
    BY <1>1 DEF Places
  <2>3. at' \in [Threads -> 0..m] /\ depth' \in [Threads -> Nat]
    BY <1>1, <1>2
  <2>4. declared' \subseteq [name : Names, q : 0..m]
    BY <1>1, <1>2
  <2>5. m \in 0..MaxNodes
    BY <1>1 DEF Nodes
  <2> QED
    BY <1>1, <2>1, <2>2, <2>3, <2>4, <2>5
<1>4. CallInv'
  BY <1>1, <1>2 DEF TrieInv, PoolTypes, CallInv
<1>5. PathInv'
  <2>1. PICK path \in [Nodes -> Seq(Chars)] : Paths(path)
    BY DEF TrieInv, PathInv
  <2>2. PICK longer \in [Nodes -> Seq(Chars)] :
          longer = [path EXCEPT ![m] = Append(path[at[t]], c)]
    <3>1. Append(path[at[t]], c) \in Seq(Chars)
      BY <1>2
    <3>2. [path EXCEPT ![m] = Append(path[at[t]], c)] \in [Nodes -> Seq(Chars)]
      BY <3>1
    <3> QED
      BY <3>2
  <2>3. /\ longer[m] = Append(path[at[t]], c)
        /\ \A n \in Nodes : n <= used => longer[n] = path[n]
    BY <1>1, <1>2, <2>2 DEF Nodes
  <2>4. longer[Root] = <<>>
    BY <1>2, <2>1, <2>3, NullAssumption DEF Paths, Root, Nodes
  <2>5. ASSUME NEW n \in Nodes, NEW d \in Chars, children'[n][d] # Null
        PROVE  n <= m /\ longer[children'[n][d]] = Append(longer[n], d)
    <3>1. CASE n = at[t] /\ d = c
      <4>1. children'[n][d] = m
        BY <1>1, <1>2, <3>1 DEF TrieInv, PoolTypes
      <4>2. n <= m /\ n <= used
        BY <1>2, <3>1
      <4>3. longer[children'[n][d]] = Append(path[at[t]], c)
        BY <2>3, <4>1
      <4>4. longer[n] = path[at[t]]
        BY <2>3, <3>1, <4>2
      <4> QED
        BY <3>1, <4>2, <4>3, <4>4
    <3>2. CASE ~(n = at[t] /\ d = c)
      <4>1. children'[n][d] = children[n][d]
        BY <1>1, <1>2, <3>2 DEF TrieInv, PoolTypes
      <4>2. children[n][d] \in 1..used /\ children[n][d] \in Nodes
        BY <2>5, <4>1, NullAssumption DEF TrieInv, PoolTypes, Nodes
      <4>3. n <= used /\ path[children[n][d]] = Append(path[n], d)
        BY <2>1, <2>5, <4>1 DEF Paths
      <4>4. n <= m /\ children[n][d] <= used
        BY <1>2, <4>2, <4>3, NullAssumption DEF Nodes
      <4>5. longer[children[n][d]] = path[children[n][d]] /\ longer[n] = path[n]
        BY <2>3, <4>2, <4>3, <4>4
      <4> QED
        BY <4>1, <4>3, <4>4, <4>5
    <3> QED
      BY <3>1, <3>2
  <2>6. \A n \in Nodes : queue[n] # Null => n <= m /\ queue[n] = longer[n]
    BY <1>2, <2>1, <2>3 DEF Paths, Nodes
  <2>7. ASSUME NEW u \in Threads, pc'[u] # "idle"
        PROVE  longer[at'[u]] = SubSeq(name[u], 1, depth'[u])
    <3>1. CASE u = t
      <4>1. path[at[t]] = SubSeq(name[t], 1, depth[t])
        BY <1>1, <2>1 DEF Paths
      <4> QED
        BY <1>1, <1>2, <2>3, <3>1, <4>1 DEF TrieInv, PoolTypes
    <3>2. CASE u # t
      <4>1. at'[u] = at[u] /\ depth'[u] = depth[u] /\ pc[u] # "idle"
        BY <1>1, <2>7, <3>2 DEF TrieInv, PoolTypes
      <4>2. at[u] \in Nodes /\ at[u] <= used
        BY NullAssumption DEF TrieInv, PoolTypes, Nodes
      <4> QED
        BY <2>1, <2>3, <4>1, <4>2 DEF Paths
    <3> QED
      BY <3>1, <3>2
  <2>8. Paths(longer)'
    BY <1>1, <2>4, <2>5, <2>6, <2>7 DEF Paths
  <2> QED
    BY <2>8 DEF PathInv
<1>6. OneCreates'
  BY <1>1 DEF TrieInv, PoolTypes, OneCreates
<1> QED
  BY <1>3, <1>4, <1>5, <1>6 DEF TrieInv

\* The node that a walk ends at stands for the whole name.
LEMMA FoundPath ==
  ASSUME TrieInv, NEW t \in Threads, pc[t] = "found",
         NEW path \in [Nodes -> Seq(Chars)], Paths(path)
  PROVE  /\ name[t] \in Names /\ at[t] \in Nodes /\ at[t] \in 0..used
         /\ path[at[t]] = name[t]
<1>1. /\ name[t] \in Names /\ at[t] \in Nodes /\ at[t] \in 0..used
      /\ depth[t] = Len(name[t])
  BY NullAssumption DEF TrieInv, PoolTypes, CallInv, Nodes
<1>2. path[at[t]] = SubSeq(name[t], 1, depth[t])
  BY DEF Paths
<1> QED
  BY <1>1, <1>2, NamesAreSequences, Prefixes

\* A call ends; create_queue may have given the node its queue.
LEMMA ReturnKeeps ==
  ASSUME TrieInv, NEW t \in Threads, ReturnCreated(t) \/ ReturnGot(t)
  PROVE  TrieInv'
<1>1. /\ pc[t] = "found" /\ pc' = [pc EXCEPT ![t] = "idle"]
      /\ \/ UNCHANGED queue
         \/ queue[at[t]] = Null /\ queue' = [queue EXCEPT ![at[t]] = name[t]]
      /\ declared' \subseteq declared \cup {[name |-> name[t], q |-> at[t]]}
      /\ UNCHANGED <<used, children, creating, name, at, depth, stray>>
  <2>1. CASE ReturnCreated(t)
    <3>1. at[t] \in Nodes
      BY NullAssumption DEF TrieInv, PoolTypes, Nodes
    <3> QED
      BY <2>1, <3>1 DEF ReturnCreated, GoTo, callVars, TrieInv, PoolTypes
  <2>2. CASE ReturnGot(t)
    BY <2>2 DEF ReturnGot, GoTo, trieVars, callVars, history
  <2> QED
    BY <2>1, <2>2
<1>2. PICK path \in [Nodes -> Seq(Chars)] : Paths(path)
  BY DEF TrieInv, PathInv
<1>3. /\ name[t] \in Names /\ at[t] \in Nodes /\ at[t] \in 0..used
      /\ path[at[t]] = name[t]
  BY <1>1, <1>2, FoundPath
<1>4. PoolTypes'
  BY <1>1, <1>3 DEF TrieInv, PoolTypes, Places
<1>5. CallInv' /\ OneCreates'
  BY <1>1 DEF TrieInv, PoolTypes, CallInv, OneCreates
<1>6. Paths(path)'
  BY <1>1, <1>2, <1>3 DEF TrieInv, PoolTypes, Paths
<1> QED
  BY <1>4, <1>5, <1>6 DEF TrieInv, PathInv

LEMMA TrieInit == Init => TrieInv
<1> SUFFICES ASSUME Init PROVE TrieInv
  OBVIOUS
<1>1. PoolTypes
  <2>1. used \in 0..MaxNodes /\ at \in [Threads -> 0..used] /\ depth \in [Threads -> Nat]
    BY NullAssumption DEF Init, Root
  <2>2. children \in [Nodes -> [Chars -> (1..used) \cup {Null}]]
    BY DEF Init
  <2> QED
    BY <2>1, <2>2 DEF Init, PoolTypes, Places
<1>2. CallInv
  BY DEF Init, CallInv
<1>3. PathInv
  <2>1. PICK path \in [Nodes -> Seq(Chars)] : path = [n \in Nodes |-> <<>>]
    <3>1. <<>> \in Seq(Chars)
      OBVIOUS
    <3>2. [n \in Nodes |-> <<>>] \in [Nodes -> Seq(Chars)]
      BY <3>1
    <3> QED
      BY <3>2
  <2>2. Root \in Nodes
    BY NullAssumption DEF Root, Nodes
  <2>3. Paths(path)
    BY <2>1, <2>2 DEF Paths, Init
  <2> QED
    BY <2>3 DEF PathInv
<1>4. OneCreates
  BY DEF Init, OneCreates
<1> QED
  BY <1>1, <1>2, <1>3, <1>4 DEF TrieInv

LEMMA TrieStep == TrieInv /\ [Next]_poolVars => TrieInv'
<1> SUFFICES ASSUME TrieInv, [Next]_poolVars PROVE TrieInv'
  OBVIOUS
<1>1. CASE UNCHANGED poolVars
  <2>1. UNCHANGED <<used, children, queue, pc, creating, name, at, depth, declared, stray>>
    BY <1>1 DEF poolVars, trieVars, callVars, history
  <2> QED
    BY <2>1 DEF TrieInv, PoolTypes, CallInv, PathInv, Paths, OneCreates
<1>2. ASSUME NEW t \in Threads, CreateQueue(t) PROVE TrieInv'
  <2>1. PICK n \in Names : Call(t, TRUE, n)
    BY <1>2 DEF CreateQueue
  <2>2. PoolMutexFree /\ stray' \in BOOLEAN
    BY <1>2 DEF CreateQueue, TrieInv, PoolTypes
  <2> QED
    BY <2>1, <2>2, CallKeeps
<1>3. ASSUME NEW t \in Threads, GetQueue(t) PROVE TrieInv'
  <2>1. PICK n \in Names : Call(t, FALSE, n) /\ stray' = (stray \/ \A d \in declared : d.name # n)
    BY <1>3 DEF GetQueue
  <2>2. stray' \in BOOLEAN
    BY <2>1
  <2> QED
    BY <2>1, <2>2, CallKeeps
<1> QED
  BY <1>1, <1>2, <1>3, DescendKeeps, InstallKeeps, ReturnKeeps DEF Next

LEMMA TrieAlways == Spec => []TrieInv
  BY TrieInit, TrieStep, PTL DEF Spec

\* Type correctness: every pointer of the trie is a node that was malloced, and
\* a walk never leaves its name (queue_pool.c:9-24).
THEOREM PoolTypeCorrect == Spec => []TypeOK
<1>1. TrieInv => TypeOK
  <2> SUFFICES ASSUME TrieInv PROVE TypeOK
    OBVIOUS
  <2>1. 0..used \subseteq Nodes
    BY NullAssumption DEF TrieInv, PoolTypes, Nodes
  <2>2. \A t \in Threads : depth[t] \in 0..Len(name[t])
    <3> SUFFICES ASSUME NEW t \in Threads PROVE depth[t] \in 0..Len(name[t])
      OBVIOUS
    <3>1. name[t] \in Seq(Chars)
      <4>1. name[t] \in Names \/ name[t] = <<>>
        BY DEF TrieInv, PoolTypes
      <4>2. <<>> \in Seq(Chars)
        OBVIOUS
      <4> QED
        BY <4>1, <4>2, NamesAreSequences
    <3>2. depth[t] \in Nat /\ depth[t] <= Len(name[t])
      BY DEF TrieInv, PoolTypes, CallInv
    <3> QED
      BY <3>1, <3>2
  <2>3. at \in [Threads -> Nodes] /\ declared \subseteq [name : Names, q : Nodes]
    BY <2>1 DEF TrieInv, PoolTypes
  <2> QED
    BY <2>2, <2>3 DEF TrieInv, PoolTypes, TypeOK
<1> QED
  BY <1>1, TrieAlways, PTL

\* Whatever get_queue's walks, which take no mutex, do to the trie, no call
\* ends at the queue of another name (queue_pool.c:9-24, 56-59).
THEOREM WalksEndRight == Spec => []RightQueue
<1>1. TrieInv => RightQueue
  <2> SUFFICES ASSUME TrieInv, NEW t \in Threads, pc[t] = "found"
               PROVE  queue[at[t]] \in {name[t], Null}
    BY DEF RightQueue
  <2>1. PICK path \in [Nodes -> Seq(Chars)] : Paths(path)
    BY DEF TrieInv, PathInv
  <2>2. at[t] \in Nodes /\ path[at[t]] = name[t]
    BY <2>1, FoundPath
  <2> QED
    BY <2>1, <2>2 DEF Paths
<1> QED
  BY <1>1, TrieAlways, PTL

-----------------------------------------------------------------------------
\* Trail, as a function of the edges: Trail(n) is TrailOf(children, n) before a
\* step and TrailOf(children', n) after it.
TrailOf(edges, n) ==
  LET node[k \in 0..Len(n)] ==
        IF k = 0 THEN Root
        ELSE IF node[k - 1] = Null THEN Null
        ELSE edges[node[k - 1]][n[k]]
  IN  node

Edges == [Nodes -> [Chars -> Pointers]]

\* The recursion defines a function: it starts at the root and follows the
\* edges for the characters.
LEMMA TrailUnfolds ==
  ASSUME NEW edges \in Edges, NEW n \in Seq(Chars), NEW trail,
         trail = TrailOf(edges, n)
  PROVE  /\ trail \in [0..Len(n) -> Pointers]
         /\ trail[0] = Root
         /\ \A k \in 1..Len(n) :
              trail[k] = IF trail[k - 1] = Null THEN Null
                         ELSE edges[trail[k - 1]][n[k]]
<1> DEFINE top == Len(n)
           next(k, p) == IF p = Null THEN Null ELSE edges[p][n[k]]
           IsTrail(f) == f = [k \in 0..top |-> IF k = 0 THEN Root ELSE next(k, f[k - 1])]
<1>1. top \in Nat /\ Root \in Pointers
  BY NullAssumption DEF Root, Nodes, Pointers
<1>2. \A k \in 1..top, p \in Pointers : next(k, p) \in Pointers
  BY DEF Pointers, Edges
<1>3. PICK step \in [1..top -> [Pointers -> Pointers]] :
        \A k \in 1..top, p \in Pointers : step[k][p] = next(k, p)
  <2> HIDE DEF next, top
  <2>1. PICK step : step = [k \in 1..top |-> [p \in Pointers |-> next(k, p)]]
    OBVIOUS
  <2>2. step \in [1..top -> [Pointers -> Pointers]]
    BY <1>2, <2>1
  <2> QED
    BY <2>1, <2>2
<1>4. PICK f \in [0..top -> Pointers] :
        f[0] = Root /\ \A k \in 1..top : f[k] = step[k][f[k - 1]]
  <2> HIDE DEF top
  <2>1. RecursiveData(Pointers, Root, top, step)
    BY <1>1 DEF RecursiveData
  <2>2. PICK f : DefinedBy(f, Pointers, Root, top, step)
    BY <2>1, Recursion
  <2> QED
    BY <2>2 DEF DefinedBy
<1>5. \A k \in 1..top : f[k] = next(k, f[k - 1])
  <2> SUFFICES ASSUME NEW k \in 1..top PROVE f[k] = next(k, f[k - 1])
    OBVIOUS
  <2>1. k - 1 \in 0..top
    BY <1>1
  <2>2. f[k - 1] \in Pointers
    BY <2>1
  <2> HIDE DEF next, top
  <2> QED
    BY <1>3, <1>4, <2>2
<1>6. IsTrail(f)
  <2>1. \A k \in 0..top : k # 0 => k \in 1..top
    BY <1>1
  <2> HIDE DEF next, top
  <2> QED
    BY <1>4, <1>5, <2>1
<1>7. trail = CHOOSE g : IsTrail(g)
  BY DEF TrailOf
<1>8. IsTrail(trail)
  <2> HIDE DEF IsTrail
  <2> QED
    BY <1>6, <1>7
<1>9. DOMAIN trail = 0..top /\ DOMAIN f = 0..top
  BY <1>4, <1>8
<1>10. trail[0] = Root /\ \A k \in 1..top : trail[k] = next(k, trail[k - 1])
  <2>1. \A k \in 1..top : k \in 0..top /\ k # 0
    BY <1>1
  <2>2. 0 \in 0..top
    BY <1>1
  <2> HIDE DEF next, top
  <2> QED
    BY <1>8, <2>1, <2>2
<1>11. \A k \in 0..top : trail[k] \in Pointers
  <2> DEFINE Typed == {k \in 0..top : trail[k] \in Pointers}
  <2>1. 0 \in Typed
    BY <1>1, <1>10
  <2>2. ASSUME NEW k \in 0..top - 1, k \in Typed PROVE k + 1 \in Typed
    <3>1. k + 1 \in 1..top /\ k + 1 \in 0..top /\ (k + 1) - 1 = k
      BY <1>1
    <3>2. trail[k + 1] = next(k + 1, trail[k])
      <4> HIDE DEF next, top
      <4> QED
        BY <1>10, <3>1
    <3> HIDE DEF next
    <3> QED
      BY <1>2, <2>2, <3>1, <3>2
  <2> HIDE DEF Typed, top
  <2>3. 0..top \subseteq Typed
    BY <1>1, <2>1, <2>2, UpTo
  <2> QED
    BY <2>3 DEF Typed
<1>12. trail = [k \in 0..top |-> trail[k]]
  <2> HIDE DEF next, top
  <2> QED
    BY <1>8, <1>9
<1> QED
  BY <1>10, <1>11, <1>12

\* After a missing child nothing is reached.
LEMMA TrailStops ==
  ASSUME NEW edges \in Edges, NEW n \in Seq(Chars), NEW trail, trail = TrailOf(edges, n),
         NEW k \in 0..Len(n), trail[k] = Null
  PROVE  trail[Len(n)] = Null
<1> DEFINE S == {j \in 0..Len(n) : j >= k => trail[j] = Null}
<1>1. Len(n) \in Nat
  OBVIOUS
<1>2. 0 \in S
  BY <1>1
<1>3. ASSUME NEW j \in 0..Len(n) - 1, j \in S PROVE j + 1 \in S
  <2>1. j + 1 \in 1..Len(n) /\ (j + 1) - 1 = j
    BY <1>1
  <2>2. trail[j + 1] = IF trail[j] = Null THEN Null ELSE edges[trail[j]][n[j + 1]]
    BY <2>1, TrailUnfolds
  <2> QED
    BY <1>3, <2>1, <2>2
<1>4. 0..Len(n) \subseteq S
  <2> HIDE DEF S
  <2> QED
    BY <1>1, <1>2, <1>3, UpTo
<1> QED
  BY <1>1, <1>4

\* Edges that are only added lengthen trails and change none of their nodes.
LEMMA TrailGrows ==
  ASSUME NEW edges \in Edges, NEW more \in Edges, NEW n \in Seq(Chars),
         \A p \in Nodes, c \in Chars : edges[p][c] # Null => more[p][c] = edges[p][c],
         NEW k \in 0..Len(n), TrailOf(edges, n)[k] # Null
  PROVE  TrailOf(more, n)[k] = TrailOf(edges, n)[k]
<1>1. PICK old : old = TrailOf(edges, n)
  OBVIOUS
<1>2. PICK new : new = TrailOf(more, n)
  OBVIOUS
<1> DEFINE S == {j \in 0..Len(n) : old[j] # Null => new[j] = old[j]}
<1>3. Len(n) \in Nat
  OBVIOUS
<1>4. 0 \in S
  BY <1>1, <1>2, <1>3, TrailUnfolds
<1>5. ASSUME NEW j \in 0..Len(n) - 1, j \in S PROVE j + 1 \in S
  <2>1. j + 1 \in 1..Len(n) /\ (j + 1) - 1 = j /\ j \in 0..Len(n) /\ n[j + 1] \in Chars
    BY <1>3
  <2>2. old[j + 1] = IF old[j] = Null THEN Null ELSE edges[old[j]][n[j + 1]]
    BY <1>1, <2>1, TrailUnfolds
  <2>3. new[j + 1] = IF new[j] = Null THEN Null ELSE more[new[j]][n[j + 1]]
    BY <1>2, <2>1, TrailUnfolds
  <2>4. old[j] \in Pointers
    BY <1>1, <2>1, TrailUnfolds
  <2>5. ASSUME old[j + 1] # Null PROVE new[j + 1] = old[j + 1]
    BY <1>5, <2>1, <2>2, <2>3, <2>4, <2>5 DEF Pointers
  <2> QED
    BY <2>1, <2>5
<1>6. 0..Len(n) \subseteq S
  <2> HIDE DEF S
  <2> QED
    BY <1>3, <1>4, <1>5, UpTo
<1> QED
  BY <1>1, <1>2, <1>6

-----------------------------------------------------------------------------
\* What holds while clients use only declared names: only create_queue adds
\* edges, one thread at a time and where there is none; so a walk never leaves
\* the trie, and a declared name keeps its queue.
SteadyInv ==
  ~stray =>
    /\ \A t \in Threads :
         /\ pc[t] = "install" => creating[t] /\ Child(t) = Null
         /\ pc[t] # "idle" => at[t] = Trail(name[t])[depth[t]]
         /\ pc[t] # "idle" /\ ~creating[t] => \E d \in declared : d.name = name[t]
    /\ \A d \in declared : Found(d)

\* Trail, and what a step makes of it.
LEMMA Trails == \A n : Trail(n) = TrailOf(children, n)
  BY DEF Trail, TrailOf

LEMMA TrailsNext == \A n : Trail(n)' = TrailOf(children', n)
  BY DEF Trail, TrailOf

LEMMA ChildrenAreEdges ==
  ASSUME NEW n \in 0..MaxNodes, NEW edges \in [Nodes -> [Chars -> (1..n) \cup {Null}]]
  PROVE  edges \in Edges
<1>1. (1..n) \cup {Null} \subseteq Pointers
  BY NullAssumption DEF Pointers, Nodes
<1> QED
  BY <1>1 DEF Edges

\* A declared name is a name, and its queue's node is a node.
LEMMA Declared ==
  ASSUME PoolTypes, NEW d \in declared
  PROVE  d.name \in Names /\ d.q \in Nodes /\ d.q # Null /\ d.name # Null
<1>1. d \in [name : Names, q : 0..used]
  BY DEF PoolTypes
<1>2. 0..used \subseteq Nodes
  BY NullAssumption DEF PoolTypes, Nodes
<1> QED
  BY <1>1, <1>2, NullAssumption

\* Where a walk is is not NULL.
LEMMA Walking ==
  ASSUME TrieInv, NEW t \in Threads, pc[t] # "idle"
  PROVE  /\ name[t] \in Names /\ name[t] \in Seq(Chars) /\ depth[t] \in 0..Len(name[t])
         /\ at[t] \in Nodes /\ at[t] # Null
<1>1. name[t] \in Names /\ depth[t] <= Len(name[t]) /\ depth[t] \in Nat
  BY DEF TrieInv, CallInv, PoolTypes
<1>2. name[t] \in Seq(Chars)
  BY <1>1, NamesAreSequences
<1>3. at[t] \in Nodes
  BY NullAssumption DEF TrieInv, PoolTypes, Nodes
<1> QED
  BY <1>1, <1>2, <1>3, NullAssumption

\* A step that keeps all edges keeps the trails that lead somewhere.
LEMMA TrailsKept ==
  ASSUME TrieInv, TrieInv',
         \A p \in Nodes, c \in Chars : children[p][c] # Null => children'[p][c] = children[p][c]
  PROVE  \A n \in Seq(Chars) : \A k \in 0..Len(n) :
           Trail(n)[k] # Null => Trail(n)'[k] = Trail(n)[k]
<1>1. children \in Edges /\ children' \in Edges
  BY ChildrenAreEdges DEF TrieInv, PoolTypes
<1>2. ASSUME NEW n \in Seq(Chars), NEW k \in 0..Len(n), TrailOf(children, n)[k] # Null
      PROVE  TrailOf(children', n)[k] = TrailOf(children, n)[k]
  BY <1>1, <1>2, TrailGrows
<1> QED
  BY <1>2, Trails, TrailsNext

\* A walk of get_queue for a declared name is not stopped: the child is there.
LEMMA ChildThere ==
  ASSUME TrieInv, SteadyInv, ~stray, NEW t \in Threads, pc[t] = "walk", ~creating[t],
         depth[t] # Len(name[t])
  PROVE  Child(t) # Null
<1>1. PICK d \in declared : d.name = name[t] /\ Found(d)
  BY DEF SteadyInv
<1>2. /\ name[t] \in Seq(Chars) /\ depth[t] \in 0..Len(name[t]) /\ at[t] # Null
      /\ at[t] = Trail(name[t])[depth[t]]
  BY Walking DEF SteadyInv
<1>3. Trail(name[t])[Len(name[t])] # Null
  BY <1>1, Declared DEF Found, Walk, TrieInv
<1> DEFINE k == depth[t] + 1
<1>4. k \in 1..Len(name[t]) /\ k \in 0..Len(name[t]) /\ k - 1 = depth[t] /\ Len(name[t]) \in Nat
  BY <1>2
<1> HIDE DEF k
<1>5. children \in Edges
  BY ChildrenAreEdges DEF TrieInv, PoolTypes
<1>6. PICK trail : trail = TrailOf(children, name[t])
  OBVIOUS
<1>7. trail[k] = children[trail[k - 1]][name[t][k]] \/ trail[k - 1] = Null
  BY <1>2, <1>4, <1>5, <1>6, TrailUnfolds
<1>8. trail[k] # Null
  BY <1>2, <1>3, <1>4, <1>5, <1>6, TrailStops, Trails
<1> QED
  BY <1>2, <1>4, <1>6, <1>7, <1>8, Trails DEF Child, k

\* The trail of a walk's name, one character further.
LEMMA NextOnTrail ==
  ASSUME NEW edges \in Edges, NEW n \in Seq(Chars), NEW k \in 0..Len(n), k # Len(n),
         TrailOf(edges, n)[k] # Null
  PROVE  TrailOf(edges, n)[k + 1] = edges[TrailOf(edges, n)[k]][n[k + 1]]
<1>1. PICK trail : trail = TrailOf(edges, n)
  OBVIOUS
<1>2. k + 1 \in 1..Len(n) /\ (k + 1) - 1 = k
  OBVIOUS
<1>3. trail[k + 1] = IF trail[k] = Null THEN Null ELSE edges[trail[k]][n[k + 1]]
  BY <1>1, <1>2, TrailUnfolds
<1> QED
  BY <1>1, <1>3

LEMMA SteadyInit == Init => SteadyInv
  BY DEF Init, SteadyInv

\* A call begins at the root, where every trail begins.
LEMMA SteadyCall ==
  ASSUME TrieInv, TrieInv', SteadyInv, NEW t \in Threads, CreateQueue(t) \/ GetQueue(t)
  PROVE  SteadyInv'
<1> SUFFICES ASSUME ~stray' PROVE SteadyInv'
  BY DEF SteadyInv
<1>1. PICK n \in Names :
        /\ pc' = [pc EXCEPT ![t] = "walk"]
        /\ name' = [name EXCEPT ![t] = n]
        /\ at' = [at EXCEPT ![t] = Root]
        /\ depth' = [depth EXCEPT ![t] = 0]
        /\ UNCHANGED <<used, children, queue, declared>>
        /\ \/ creating' = [creating EXCEPT ![t] = TRUE] /\ ~stray
           \/ /\ creating' = [creating EXCEPT ![t] = FALSE] /\ ~stray
              /\ \E d \in declared : d.name = n
  <2>1. CASE CreateQueue(t)
    BY <2>1 DEF CreateQueue, Call, GoTo, trieVars
  <2>2. CASE GetQueue(t)
    <3>1. PICK n \in Names :
            Call(t, FALSE, n) /\ stray' = (stray \/ \A d \in declared : d.name # n)
      BY <2>2 DEF GetQueue
    <3>2. ~stray /\ \E d \in declared : d.name = n
      BY <3>1, Zenon
    <3> QED
      BY <3>1, <3>2 DEF Call, GoTo, trieVars
  <2> QED
    BY <2>1, <2>2
<1>2. \A s : Trail(s)' = Trail(s)
  BY <1>1, Trails, TrailsNext
<1>3. n \in Seq(Chars) /\ children \in Edges /\ Trail(n)[0] = Root
  BY NamesAreSequences, ChildrenAreEdges, TrailUnfolds, Trails DEF TrieInv, PoolTypes
<1>4. ASSUME NEW u \in Threads
      PROVE  /\ pc'[u] = "install" => creating'[u] /\ Child(u)' = Null
             /\ pc'[u] # "idle" => at'[u] = Trail(name'[u])[depth'[u]]
             /\ pc'[u] # "idle" /\ ~creating'[u] => \E d \in declared : d.name = name'[u]
  <2>1. CASE u = t
    BY <1>1, <1>3, <2>1 DEF TrieInv, PoolTypes
  <2>2. CASE u # t
    BY <1>1, <2>2 DEF TrieInv, PoolTypes, SteadyInv, Child
  <2> QED
    BY <2>1, <2>2
<1>5. \A d \in declared : Found(d)'
  BY <1>1, <1>2 DEF SteadyInv, Found, Walk
<1> QED
  BY <1>1, <1>2, <1>4, <1>5 DEF SteadyInv

\* One character further on the trail, or a child that create_queue will add.
LEMMA SteadyDescend ==
  ASSUME TrieInv, TrieInv', SteadyInv, NEW t \in Threads, Descend(t)
  PROVE  SteadyInv'
<1> SUFFICES ASSUME ~stray' PROVE SteadyInv'
  BY DEF SteadyInv
<1>1. /\ pc[t] = "walk" /\ ~stray
      /\ UNCHANGED <<used, children, queue, creating, name, declared, stray>>
      /\ \/ pc' = [pc EXCEPT ![t] = "found"] /\ UNCHANGED <<at, depth>>
         \/ /\ Child(t) = Null /\ depth[t] # Len(name[t])
            /\ pc' = [pc EXCEPT ![t] = "install"] /\ UNCHANGED <<at, depth>>
         \/ /\ depth[t] # Len(name[t])
            /\ at' = [at EXCEPT ![t] = Child(t)]
            /\ depth' = [depth EXCEPT ![t] = depth[t] + 1] /\ UNCHANGED pc
  BY DEF Descend, GoTo, trieVars, history, TrieInv, PoolTypes
<1>2. \A s : Trail(s)' = Trail(s)
  BY <1>1, Trails, TrailsNext
<1>3. /\ name[t] \in Seq(Chars) /\ depth[t] \in 0..Len(name[t]) /\ at[t] # Null
      /\ at[t] = Trail(name[t])[depth[t]]
  BY <1>1, Walking DEF SteadyInv
<1>4. depth[t] # Len(name[t]) => Trail(name[t])[depth[t] + 1] = Child(t)
  BY <1>3, NextOnTrail, ChildrenAreEdges, Trails DEF Child, TrieInv, PoolTypes
<1>5. ASSUME NEW u \in Threads
      PROVE  /\ pc'[u] = "install" => creating[u] /\ Child(u)' = Null
             /\ pc'[u] # "idle" => at'[u] = Trail(name[u])[depth'[u]]
             /\ pc'[u] # "idle" /\ ~creating[u] => \E d \in declared : d.name = name[u]
  <2>1. CASE u = t
    <3>1. pc'[t] = "install" => creating[t] /\ Child(t) = Null /\ UNCHANGED <<at, depth>>
      BY <1>1, ChildThere DEF TrieInv, PoolTypes
    <3>2. pc'[t] = "install" => Child(t)' = Null
      BY <1>1, <3>1 DEF Child
    <3>3. at'[t] = Trail(name[t])[depth'[t]]
      BY <1>1, <1>3, <1>4 DEF TrieInv, PoolTypes
    <3>4. ~creating[t] => \E d \in declared : d.name = name[t]
      BY <1>1 DEF SteadyInv
    <3> QED
      BY <2>1, <3>1, <3>2, <3>3, <3>4
  <2>2. CASE u # t
    <3>1. pc'[u] = pc[u] /\ at'[u] = at[u] /\ depth'[u] = depth[u]
      BY <1>1, <2>2 DEF TrieInv, PoolTypes
    <3> QED
      BY <1>1, <3>1 DEF SteadyInv, Child
  <2> QED
    BY <2>1, <2>2
<1>6. \A d \in declared : Found(d)'
  BY <1>1, <1>2 DEF SteadyInv, Found, Walk
<1> QED
  BY <1>1, <1>2, <1>5, <1>6 DEF SteadyInv

\* The edge that create_queue adds was missing, and it is the only thread that
\* adds one: every other trail stays what it was.
LEMMA SteadyInstall ==
  ASSUME TrieInv, TrieInv', SteadyInv, NEW t \in Threads, Install(t)
  PROVE  SteadyInv'
<1> SUFFICES ASSUME ~stray' PROVE SteadyInv'
  BY DEF SteadyInv
<1> DEFINE c == name[t][depth[t] + 1]
           m == used + 1
<1>1. /\ pc[t] = "install" /\ ~stray /\ used' = m
      /\ children' = [children EXCEPT ![at[t]][c] = m]
      /\ at' = [at EXCEPT ![t] = m]
      /\ depth' = [depth EXCEPT ![t] = depth[t] + 1]
      /\ pc' = [pc EXCEPT ![t] = "walk"]
      /\ UNCHANGED <<queue, creating, name, declared, stray>>
  BY DEF Install, TrieInv, PoolTypes, GoTo, NodeAfter, history
<1>2. /\ c \in Chars /\ at[t] \in Nodes /\ at[t] # Null
      /\ name[t] \in Seq(Chars) /\ depth[t] \in 0..Len(name[t]) /\ depth[t] # Len(name[t])
  BY <1>1, AtInstall, Walking
<1>3. creating[t] /\ children[at[t]][c] = Null /\ at[t] = Trail(name[t])[depth[t]]
  BY <1>1 DEF SteadyInv, Child
<1> HIDE DEF c, m
<1>4. \A p \in Nodes, d \in Chars : children[p][d] # Null => children'[p][d] = children[p][d]
  BY <1>1, <1>2, <1>3 DEF TrieInv, PoolTypes
<1>5. \A n \in Seq(Chars) : \A k \in 0..Len(n) :
        Trail(n)[k] # Null => TrailOf(children', n)[k] = Trail(n)[k]
  BY <1>4, TrailsKept, TrailsNext
<1>6. ASSUME NEW u \in Threads
      PROVE  /\ pc'[u] = "install" => creating[u] /\ Child(u)' = Null
             /\ pc'[u] # "idle" => at'[u] = TrailOf(children', name[u])[depth'[u]]
             /\ pc'[u] # "idle" /\ ~creating[u] => \E d \in declared : d.name = name[u]
  <2>1. CASE u = t
    <3>1. pc'[t] = "walk" /\ at'[t] = m /\ depth'[t] = depth[t] + 1
      BY <1>1 DEF TrieInv, PoolTypes
    <3>2. TrailOf(children', name[t])[depth[t]] = at[t]
      BY <1>2, <1>3, <1>5
    <3>3. children' \in Edges
      BY ChildrenAreEdges DEF TrieInv, PoolTypes
    <3>4. TrailOf(children', name[t])[depth[t] + 1] = children'[at[t]][c]
      BY <1>2, <3>2, <3>3, NextOnTrail DEF c
    <3>5. children'[at[t]][c] = m
      BY <1>1, <1>2 DEF TrieInv, PoolTypes
    <3> QED
      BY <1>3, <2>1, <3>1, <3>4, <3>5
  <2>2. CASE u # t
    <3>1. pc'[u] = pc[u] /\ at'[u] = at[u] /\ depth'[u] = depth[u]
      BY <1>1, <2>2 DEF TrieInv, PoolTypes
    <3>2. pc[u] # "install"
      BY <1>1, <1>3, <2>2 DEF SteadyInv, TrieInv, OneCreates
    <3>3. ASSUME pc[u] # "idle" PROVE at[u] = TrailOf(children', name[u])[depth[u]]
      <4>1. /\ name[u] \in Seq(Chars) /\ depth[u] \in 0..Len(name[u]) /\ at[u] # Null
            /\ at[u] = Trail(name[u])[depth[u]]
        BY <1>1, <3>3, Walking DEF SteadyInv
      <4> QED
        BY <1>5, <4>1
    <3> QED
      BY <1>1, <3>1, <3>2, <3>3 DEF SteadyInv
  <2> QED
    BY <2>1, <2>2
<1>7. ASSUME NEW d \in declared PROVE Found(d)'
  <2>1. d.name \in Names /\ d.q # Null /\ Found(d)
    BY <1>1, Declared DEF SteadyInv, TrieInv
  <2>2. d.name \in Seq(Chars) /\ Len(d.name) \in 0..Len(d.name)
    BY <2>1, NamesAreSequences
  <2>3. TrailOf(children', d.name)[Len(d.name)] = d.q
    BY <1>5, <2>1, <2>2 DEF Found, Walk
  <2> QED
    BY <1>1, <2>1, <2>3, TrailsNext DEF Found, Walk
<1> QED
  BY <1>1, <1>6, <1>7, TrailsNext DEF SteadyInv

\* create_queue returns: its walk has followed the trail to the end, and the
\* node has the queue of its name, now or already.
LEMMA SteadyReturn ==
  ASSUME TrieInv, TrieInv', SteadyInv, NEW t \in Threads, ReturnCreated(t) \/ ReturnGot(t)
  PROVE  SteadyInv'
<1> SUFFICES ASSUME ~stray' PROVE SteadyInv'
  BY DEF SteadyInv
<1>1. /\ pc[t] = "found" /\ pc' = [pc EXCEPT ![t] = "idle"] /\ ~stray
      /\ \/ UNCHANGED <<queue, declared>>
         \/ /\ queue' = [queue EXCEPT ![at[t]] = IF @ = Null THEN name[t] ELSE @]
            /\ declared' = declared \cup {[name |-> name[t], q |-> at[t]]}
      /\ UNCHANGED <<used, children, creating, name, at, depth>>
  BY DEF ReturnCreated, ReturnGot, GoTo, trieVars, callVars, history
<1>2. \A s : Trail(s)' = Trail(s)
  BY <1>1, Trails, TrailsNext
<1>3. ASSUME NEW u \in Threads
      PROVE  /\ pc'[u] = "install" => creating[u] /\ Child(u)' = Null
             /\ pc'[u] # "idle" => at[u] = Trail(name[u])[depth[u]]
             /\ pc'[u] # "idle" /\ ~creating[u] => \E d \in declared' : d.name = name[u]
  BY <1>1 DEF TrieInv, PoolTypes, SteadyInv, Child
<1>4. /\ name[t] \in Names /\ at[t] \in Nodes /\ queue[at[t]] \in {name[t], Null}
      /\ at[t] = Walk(name[t])
  <2>1. PICK path \in [Nodes -> Seq(Chars)] : Paths(path)
    BY DEF TrieInv, PathInv
  <2>2. at[t] \in Nodes /\ path[at[t]] = name[t] /\ name[t] \in Names
    BY <1>1, <2>1, FoundPath
  <2>3. queue[at[t]] \in {name[t], Null}
    BY <2>1, <2>2 DEF Paths
  <2>4. depth[t] = Len(name[t])
    BY <1>1 DEF TrieInv, CallInv
  <2> QED
    BY <1>1, <2>2, <2>3, <2>4 DEF SteadyInv, Walk
<1>5. ASSUME NEW d \in declared PROVE Walk(d.name) = d.q /\ queue'[d.q] = d.name
  <2>1. Walk(d.name) = d.q /\ queue[d.q] = d.name /\ d.q \in Nodes /\ d.name # Null
    BY <1>1, Declared DEF SteadyInv, Found, TrieInv
  <2> QED
    BY <1>1, <2>1 DEF TrieInv, PoolTypes
<1>6. ASSUME NEW d \in declared' PROVE Walk(d.name) = d.q /\ queue'[d.q] = d.name
  <2>1. CASE d \in declared
    BY <1>5, <2>1
  <2>2. CASE d \notin declared
    <3>1. /\ d = [name |-> name[t], q |-> at[t]]
          /\ queue' = [queue EXCEPT ![at[t]] = IF @ = Null THEN name[t] ELSE @]
      BY <1>1, <1>6, <2>2
    <3> QED
      BY <1>4, <3>1 DEF TrieInv, PoolTypes
  <2> QED
    BY <2>1, <2>2
<1>7. \A d \in declared' : Found(d)'
  BY <1>2, <1>6, <1>1 DEF Found, Walk
<1> QED
  BY <1>1, <1>2, <1>3, <1>7 DEF SteadyInv

LEMMA SteadyStep == TrieInv /\ TrieInv' /\ SteadyInv /\ [Next]_poolVars => SteadyInv'
<1> SUFFICES ASSUME TrieInv, TrieInv', SteadyInv, [Next]_poolVars PROVE SteadyInv'
  OBVIOUS
<1>1. CASE UNCHANGED poolVars
  <2>1. UNCHANGED <<used, children, queue, pc, creating, name, at, depth, declared, stray>>
    BY <1>1 DEF poolVars, trieVars, callVars, history
  <2>2. \A s : Trail(s)' = Trail(s)
    BY <2>1, Trails, TrailsNext
  <2> QED
    BY <2>1, <2>2 DEF SteadyInv, Found, Walk, Child
<1> QED
  BY <1>1, SteadyCall, SteadyDescend, SteadyInstall, SteadyReturn DEF Next

LEMMA SteadyAlways == Spec => [](TrieInv /\ SteadyInv)
<1>1. Init => TrieInv /\ SteadyInv
  BY TrieInit, SteadyInit
<1>2. TrieInv /\ SteadyInv /\ [Next]_poolVars => (TrieInv /\ SteadyInv)'
  BY TrieStep, SteadyStep
<1> QED
  BY <1>1, <1>2, PTL DEF Spec

\* Clients that use only declared names keep meeting at one queue, however
\* their walks and the additions to the trie interleave (queue_pool.c:9-59).
THEOREM DeclaredQueueStays == Spec => []DeclaredStays
<1>1. SteadyInv => DeclaredStays
  BY DEF SteadyInv, DeclaredStays
<1> QED
  BY <1>1, SteadyAlways, PTL

\* Such a client's get_queue, which takes no mutex, never returns NULL
\* (queue_pool.c:56-59).
THEOREM GetFindsQueue == Spec => []GetReturnsQueue
<1>1. TrieInv /\ SteadyInv => GetReturnsQueue
  <2> SUFFICES ASSUME TrieInv, SteadyInv, ~stray, NEW t \in Threads,
                      pc[t] = "found", ~creating[t]
               PROVE  queue[at[t]] # Null
    BY DEF GetReturnsQueue
  <2>1. PICK d \in declared : d.name = name[t] /\ Found(d)
    BY DEF SteadyInv
  <2>2. at[t] = Trail(name[t])[Len(name[t])]
    BY DEF SteadyInv, TrieInv, CallInv
  <2> QED
    BY <2>1, <2>2, Declared DEF Found, Walk, TrieInv
<1> QED
  BY <1>1, SteadyAlways, PTL

=============================================================================
