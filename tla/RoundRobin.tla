----------------------------- MODULE RoundRobin -----------------------------
(***************************************************************************)
(* round_robin.c: the scheduler that decides which of the threads consuming *)
(* from one queue takes the next message.                                  *)
(*                                                                         *)
(* Each thread is one broker thread slot; a slot is an index of `subs', and *)
(* every step below is one critical section of rr->mutex, or one step taken *)
(* outside of it.  wait_round reads rr->current without the mutex, so its   *)
(* test and its pthread_cond_wait are separate steps; next_thread keeps     *)
(* rr->mutex from the move of the round to the broadcast, so those are      *)
(* separate steps too, and no other section of the mutex runs between them. *)
(***************************************************************************)
EXTENDS Integers, FiniteSets

CONSTANTS
  Threads,    \* the thread ids, the indexes of rr->subs
  NoThread,   \* the id -1; it also stands for links that malloc left unset
  Spurious    \* whether pthread_cond_wait may return without a broadcast

ASSUME ThreadsAssumption == IsFiniteSet(Threads) /\ NoThread \notin Threads
ASSUME SpuriousAssumption == Spurious \in BOOLEAN

VARIABLES
  count, first, last, current,   \* the fields of round_robin_scheduler
  prev, next,                    \* subs[t].prev and subs[t].next
  pc                             \* where each thread is

links == <<count, first, last, current, prev, next>>
rrVars == <<count, first, last, current, prev, next, pc>>

(***************************************************************************)
(* idle        not subscribed                                              *)
(* wait_round  subscribed, about to call wait_round                        *)
(* blocking    has read that the round is not its own, not yet waiting     *)
(* waiting     inside pthread_cond_wait on its own round_cond              *)
(* round       returned from wait_round: the thread owns the dequeue       *)
(* signalling  in next_thread, round moved, broadcast still to come        *)
(* served      returned from next_thread, talking to its client            *)
(***************************************************************************)
Places == {"idle", "wait_round", "blocking", "waiting", "round",
           "signalling", "served"}

Subscribed == {t \in Threads : pc[t] # "idle"}

\* rr->mutex is free: only next_thread keeps it for more than one step.
MutexFree == \A t \in Threads : pc[t] # "signalling"

GoTo(t, place) == pc' = [pc EXCEPT ![t] = place]

-----------------------------------------------------------------------------
Init ==
  /\ count = 0
  /\ first = NoThread
  /\ last = NoThread
  /\ current = NoThread
  /\ prev = [t \in Threads |-> NoThread]
  /\ next = [t \in Threads |-> NoThread]
  /\ pc = [t \in Threads |-> "idle"]

-----------------------------------------------------------------------------
\* add_subscriber: the new node goes between the last node and the first.
LinkSubscriber(t) ==
  IF count = 0
  THEN /\ first' = t
       /\ current' = t
       /\ next' = [next EXCEPT ![t] = t]
       /\ prev' = [prev EXCEPT ![t] = t]
  ELSE /\ next' = [next EXCEPT ![last] = t, ![t] = first]
       /\ prev' = [prev EXCEPT ![first] = t, ![t] = last]
       /\ UNCHANGED <<first, current>>

AddSubscriber(t) ==
  /\ pc[t] = "idle"
  /\ MutexFree
  /\ LinkSubscriber(t)
  /\ last' = t
  /\ count' = count + 1
  /\ GoTo(t, "wait_round")

\* The scheduler's fields once the node of t is gone.
CurrentWithout_Always(t) == next[t]   \* mutant: the test of current dropped
CurrentWithout_Kept(t) == current     \* mutant: the round stays with t
CurrentWithout(t) == IF current = t THEN next[t] ELSE current
FirstWithout(t) ==
  IF count = 1 THEN NoThread ELSE IF first = t THEN next[t] ELSE first
LastWithout_Kept(t) ==                \* mutant: last not moved back
  IF count = 1 THEN NoThread ELSE last
LastWithout(t) ==
  IF count = 1 THEN NoThread ELSE IF last = t THEN prev[t] ELSE last

CountWithout_Kept == count            \* mutant: count not decremented
CountWithout == count - 1

\* remove_subscriber.  The round may move to the next thread; nothing is
\* signalled to it.
RemoveSubscriber(t) ==
  /\ pc[t] = "served"
  /\ MutexFree
  /\ next' = [next EXCEPT ![prev[t]] = next[t]]
  /\ prev' = [prev EXCEPT ![next[t]] = prev[t]]
  /\ current' = CurrentWithout(t)
  /\ first' = FirstWithout(t)
  /\ last' = LastWithout(t)
  /\ count' = CountWithout
  /\ GoTo(t, "idle")

-----------------------------------------------------------------------------
\* wait_round, its unlocked test of rr->current.
CheckRound(t) ==
  /\ pc[t] = "wait_round"
  /\ GoTo(t, IF current = t THEN "round" ELSE "blocking")
  /\ UNCHANGED links

\* wait_round, round_mutex taken and given up again by pthread_cond_wait.
StartWaiting(t) ==
  /\ pc[t] = "blocking"
  /\ GoTo(t, "waiting")
  /\ UNCHANGED links

\* pthread_cond_wait returns though nobody has signalled; there is no loop
\* around it that would test rr->current again.
SpuriousWakeup(t) ==
  /\ Spurious
  /\ pc[t] = "waiting"
  /\ GoTo(t, "round")
  /\ UNCHANGED links

-----------------------------------------------------------------------------
\* The thread that gets the round when the current one hands it on.
Successor_Restart == first            \* mutant: the turn restarts at first
Successor == next[current]

\* next_thread, up to rr->current = next; rr->mutex stays locked.
NextThread(t) ==
  /\ pc[t] = "round"
  /\ MutexFree
  /\ current' = Successor
  /\ GoTo(t, "signalling")
  /\ UNCHANGED <<count, first, last, prev, next>>

\* What the broadcast on the round_cond of u does: wake u if it waits there.
Woken_Never(u) == pc[u]           \* mutant: nothing is broadcast
Woken(u) == IF pc[u] = "waiting" THEN "round" ELSE pc[u]

\* next_thread, the broadcast to the new current thread, and the unlock.
SignalNext(t) ==
  /\ pc[t] = "signalling"
  /\ pc' = [[pc EXCEPT ![current] = Woken(current)] EXCEPT ![t] = "served"]
  /\ UNCHANGED links

\* The client acknowledges and the thread comes back for another message.
Return(t) ==
  /\ pc[t] = "served"
  /\ GoTo(t, "wait_round")
  /\ UNCHANGED links

-----------------------------------------------------------------------------
Next ==
  \E t \in Threads :
    \/ AddSubscriber(t)
    \/ RemoveSubscriber(t)
    \/ CheckRound(t)
    \/ StartWaiting(t)
    \/ SpuriousWakeup(t)
    \/ NextThread(t)
    \/ SignalNext(t)
    \/ Return(t)

Spec == Init /\ [][Next]_rrVars

(***************************************************************************)
(* Fairness of the threads.  The operating system runs every thread, and   *)
(* the two steps that wait for somebody else are taken to be prompt: a     *)
(* message is there to dequeue (NextThread) and the client acknowledges    *)
(* (Return).  Nothing forces a subscription or a disconnection.            *)
(***************************************************************************)
Fairness ==
  \A t \in Threads :
    /\ WF_rrVars(CheckRound(t))
    /\ WF_rrVars(StartWaiting(t))
    /\ WF_rrVars(NextThread(t))
    /\ WF_rrVars(SignalNext(t))
    /\ WF_rrVars(Return(t))

\* Clients that, once subscribed, never leave.
Loyal == \A t \in Threads : ~RemoveSubscriber(t)

FairSpec == Init /\ [][Next /\ Loyal]_rrVars /\ Fairness

-----------------------------------------------------------------------------
\* The fields of the scheduler hold thread ids, or -1, and count never
\* exceeds the size of subs.
TypeOK ==
  /\ count \in 0..Cardinality(Threads)
  /\ {first, last, current} \subseteq Threads \cup {NoThread}
  /\ prev \in [Threads -> Threads \cup {NoThread}]
  /\ next \in [Threads -> Threads \cup {NoThread}]
  /\ pc \in [Threads -> Places]

\* count is the number of subscribed threads.
CountOK == count = Cardinality(Subscribed)

\* first and last are the ends of the ring and the round belongs to a
\* subscribed thread; an empty scheduler has no ends.
EndsOK ==
  IF Subscribed = {}
  THEN first = NoThread /\ last = NoThread
  ELSE /\ {first, last, current} \subseteq Subscribed
       /\ next[last] = first

\* Following next and then prev, or prev and then next, leads back, and
\* neither leaves the subscribed threads for an unset link.
LinksOK ==
  \A t \in Subscribed :
    /\ next[t] \in Subscribed /\ prev[next[t]] = t
    /\ prev[t] \in Subscribed /\ next[prev[t]] = t

\* There is one ring only: a set of subscribed threads that next does not
\* leave is all of them, so the round comes to every subscriber.
OneRing ==
  \A S \in SUBSET Subscribed :
    S # {} /\ (\A t \in S : next[t] \in S) => S = Subscribed

\* However subscriptions, removals and dequeues interleave, and whether or
\* not waits end spuriously, add_subscriber and remove_subscriber keep one
\* ring of exactly the subscribed threads.
RingOK == CountOK /\ EndsOK /\ LinksOK /\ OneRing

\* A thread that has returned from wait_round holds the round, so no two
\* threads are ever between wait_round and next_thread of one queue.  The
\* code has no lock for this region: it rests on who may move rr->current,
\* and on wakeups that are never spurious, since no loop tests it again.
RoundExclusive == \A t \in Threads : pc[t] = "round" => current = t

\* A thread sleeps through its own round, and nobody is about to wake it.
Stalled(t) == pc[t] = "waiting" /\ current = t /\ MutexFree

\* There are two ways to that state: the gap between the test and the wait of
\* wait_round, and a current thread that leaves while the next one waits.
\* Whoever else moves the round wakes the thread it goes to.
StallOnlyInGapOrByLeaving ==
  [][\A t \in Threads : Stalled(t)' /\ ~Stalled(t) =>
       StartWaiting(t) \/ RemoveSubscriber(current)]_rrVars

\* round_robin.h: a thread that waits for its round is woken when the round
\* comes to it; stated for FairSpec, where no client ever leaves.
RoundReachesWaiter ==
  \A t \in Threads :
    (pc[t] = "waiting" /\ current = t) ~> (pc[t] = "round")

=============================================================================
