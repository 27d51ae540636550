----------------------------- MODULE QueuePool -----------------------------
(***************************************************************************)
(* queue_pool.c: the trie that finds a queue by its name, used by all      *)
(* connections.  _get_trie_node walks one character per step and creates   *)
(* the nodes that are missing; it reads a child pointer and, when that is  *)
(* NULL, stores a new one, which are separate steps.  create_queue walks   *)
(* with the pool's mutex, get_queue walks without any.                     *)
(***************************************************************************)
EXTENDS Integers, FiniteSets, Sequences

CONSTANTS
  Threads,       \* the connections' threads
  Names,         \* queue names, sequences of characters
  MaxNodes,      \* how many nodes malloc can return (a bound)
  Null           \* the NULL pointer, of nodes and of queues

ASSUME NamesAssumption == \A n \in Names : n \in Seq(UNION {{n[k] : k \in 1..Len(n)}})

Root == 0
Nodes == 0..MaxNodes
Chars == UNION {{n[k] : k \in 1..Len(n)} : n \in Names}

ASSUME NullAssumption ==
  MaxNodes \in Nat /\ Null \notin Nodes /\ Null \notin Names

VARIABLES
  used,      \* how many nodes were malloced; they are numbered 1..used
  children,  \* children[node][char]
  queue,     \* queue[node], the name its queue was created with, or Null; a
             \* node gets one queue at most, so the node identifies the queue
  pc,        \* idle, or where a thread is in the pool's functions
  creating,  \* whether it runs create_queue or get_queue
  name,      \* the name it was given
  at, depth, \* the node _get_trie_node has reached, and by how many characters
  declared,  \* history: the names create_queue was called for and the queues
             \* it returned
  stray      \* history: whether get_queue was called for any other name

trieVars == <<used, children, queue>>
callVars == <<creating, name, at, depth>>
history == <<declared, stray>>
poolVars == <<trieVars, pc, callVars, history>>

(* walk: at a node, about to read the child for the next character;        *)
(* install: has read NULL; found: the node of the name is reached.         *)
Places == {"idle", "walk", "install", "found"}

PoolMutexFree_None == TRUE        \* mutant: create_queue takes no mutex
PoolMutexFree ==
  ~ \E t \in Threads : creating[t] /\ pc[t] \in {"walk", "install"}

GoTo(t, place) == pc' = [pc EXCEPT ![t] = place]

Init ==
  /\ used = 0
  /\ children = [n \in Nodes |-> [c \in Chars |-> Null]]
  /\ queue = [n \in Nodes |-> Null]
  /\ pc = [t \in Threads |-> "idle"]
  /\ creating = [t \in Threads |-> FALSE]
  /\ name = [t \in Threads |-> <<>>]
  /\ at = [t \in Threads |-> Root]
  /\ depth = [t \in Threads |-> 0]
  /\ declared = {}
  /\ stray = FALSE

-----------------------------------------------------------------------------
Call(t, create, n) ==
  /\ pc[t] = "idle"
  /\ GoTo(t, "walk")
  /\ creating' = [creating EXCEPT ![t] = create]
  /\ name' = [name EXCEPT ![t] = n]
  /\ at' = [at EXCEPT ![t] = Root]
  /\ depth' = [depth EXCEPT ![t] = 0]
  /\ UNCHANGED <<trieVars, declared>>

\* create_queue, up to the mutex that it keeps for the walk.
CreateQueue(t) ==
  /\ PoolMutexFree
  /\ \E n \in Names : Call(t, TRUE, n)
  /\ UNCHANGED stray

\* get_queue: no mutex.
GetQueue(t) ==
  \E n \in Names :
    /\ Call(t, FALSE, n)
    /\ stray' = (stray \/ \A d \in declared : d.name # n)

\* _get_trie_node, one call: the end of the name, or a look at the child.
Child(t) == children[at[t]][name[t][depth[t] + 1]]

Descend(t) ==
  /\ pc[t] = "walk"
  /\ IF depth[t] = Len(name[t])
     THEN GoTo(t, "found") /\ UNCHANGED <<at, depth>>
     ELSE IF Child(t) = Null
     THEN GoTo(t, "install") /\ UNCHANGED <<at, depth>>
     ELSE /\ at' = [at EXCEPT ![t] = Child(t)]
          /\ depth' = [depth EXCEPT ![t] = @ + 1]
          /\ UNCHANGED pc
  /\ UNCHANGED <<trieVars, creating, name, history>>

\* Where the walk goes on after a missing child was added.
NodeAfter_Parent(t, n) == at[t]   \* mutant: the walk stays at the parent
NodeAfter_Stale(t, n) == Null     \* mutant: the walk goes on at the old child
NodeAfter(t, n) == n

\* _get_trie_node, the missing child: malloc, store, descend.
Install(t) ==
  /\ pc[t] = "install"
  /\ used < MaxNodes
  /\ used' = used + 1
  /\ children' = [children EXCEPT ![at[t]][name[t][depth[t] + 1]] = used + 1]
  /\ at' = [at EXCEPT ![t] = NodeAfter(t, used + 1)]
  /\ depth' = [depth EXCEPT ![t] = @ + 1]
  /\ GoTo(t, "walk")
  /\ UNCHANGED <<queue, creating, name, history>>

\* create_queue, the section of the node's mutex: the queue is created
\* unless the node has one; it returns the node's queue.
ReturnCreated(t) ==
  /\ pc[t] = "found" /\ creating[t]
  /\ queue' = [queue EXCEPT ![at[t]] = IF @ = Null THEN name[t] ELSE @]
  /\ declared' = declared \cup {[name |-> name[t], q |-> at[t]]}
  /\ GoTo(t, "idle")
  /\ UNCHANGED <<used, children, callVars, stray>>

\* get_queue returns the queue of the node, or NULL.
ReturnGot(t) ==
  /\ pc[t] = "found" /\ ~creating[t]
  /\ GoTo(t, "idle")
  /\ UNCHANGED <<trieVars, callVars, history>>

Next ==
  \E t \in Threads :
    \/ CreateQueue(t) \/ GetQueue(t)
    \/ Descend(t) \/ Install(t)
    \/ ReturnCreated(t) \/ ReturnGot(t)

Spec == Init /\ [][Next]_poolVars

-----------------------------------------------------------------------------
TypeOK ==
  /\ used \in 0..MaxNodes
  /\ children \in [Nodes -> [Chars -> (1..used) \cup {Null}]]
  /\ queue \in [Nodes -> Names \cup {Null}]
  /\ pc \in [Threads -> Places]
  /\ creating \in [Threads -> BOOLEAN]
  /\ name \in [Threads -> Names \cup {<<>>}]
  /\ at \in [Threads -> Nodes]
  /\ \A t \in Threads : depth[t] \in 0..Len(name[t])
  /\ declared \subseteq [name : Names, q : Nodes]
  /\ stray \in BOOLEAN

\* The nodes a walk for n meets when nobody else runs, with Null where it has
\* to stop, and the one that it ends at.
Trail(n) ==
  LET node[k \in 0..Len(n)] ==
        IF k = 0 THEN Root
        ELSE IF node[k - 1] = Null THEN Null
        ELSE children[node[k - 1]][n[k]]
  IN  node
Walk(n) == Trail(n)[Len(n)]

Found(d) == Walk(d.name) = d.q /\ queue[d.q] = d.name

\* As long as clients use only names that somebody has declared, a queue
\* that a client was told exists is, from then on, the queue that its name
\* leads to: publishers and consumers of one name meet.
DeclaredStays == ~stray => \A d \in declared : Found(d)

\* Whatever races on the trie, a call never ends at the queue of another
\* name: the node it returns holds a queue of the name, or none yet.
RightQueue ==
  \A t \in Threads :
    pc[t] = "found" => queue[at[t]] \in {name[t], Null}

\* For such clients a walk of get_queue, which takes no mutex, ends at a
\* queue and not at NULL, whoever extends the trie meanwhile.
GetReturnsQueue ==
  ~stray => \A t \in Threads :
    pc[t] = "found" /\ ~creating[t] => queue[at[t]] # Null

\* queue_pool.h: get_queue returns a queue, given its name, so a declared
\* queue is found whatever else clients ask for.
DeclaredFound == \A d \in declared : Found(d)

=============================================================================
