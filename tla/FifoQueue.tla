----------------------------- MODULE FifoQueue -----------------------------
(***************************************************************************)
(* What a queue of the broker promises, and what its users keep to:        *)
(* published messages are handed out in the order of publication, each to  *)
(* one subscriber, and a dequeue never comes back without a message.       *)
(* Threads take messages only between Subscribe and Leave, one at a time.  *)
(***************************************************************************)
EXTENDS Sequences

CONSTANTS
  Consumers,   \* the threads that consume from the queue
  Msgs,        \* what can be published
  NoMsg        \* what a consumer holds while it is not sending a message on

VARIABLES
  queue,       \* the messages in the queue, the oldest first
  subs,        \* the subscribers
  got          \* the message each consumer has in its hands

fifoVars == <<queue, subs, got>>

Init ==
  /\ queue = <<>>
  /\ subs = {}
  /\ got = [t \in Consumers |-> NoMsg]

Put(m) ==
  /\ queue' = Append(queue, m)
  /\ UNCHANGED <<subs, got>>

Subscribe(t) ==
  /\ t \notin subs
  /\ subs' = subs \cup {t}
  /\ UNCHANGED <<queue, got>>

Take(t) ==
  /\ t \in subs /\ got[t] = NoMsg
  /\ queue # <<>>
  /\ got' = [got EXCEPT ![t] = Head(queue)]
  /\ queue' = Tail(queue)
  /\ UNCHANGED subs

\* The consumer has sent its message on.
Release(t) ==
  /\ got[t] # NoMsg
  /\ got' = [got EXCEPT ![t] = NoMsg]
  /\ UNCHANGED <<queue, subs>>

\* A consumer leaves with nothing in its hands.
Leave(t) ==
  /\ t \in subs /\ got[t] = NoMsg
  /\ subs' = subs \ {t}
  /\ UNCHANGED <<queue, got>>

\* The process ends; what it had in memory is lost.
Crash ==
  /\ queue' = <<>>
  /\ subs' = {}
  /\ got' = [t \in Consumers |-> NoMsg]

Next ==
  \/ \E m \in Msgs : Put(m)
  \/ \E t \in Consumers : Subscribe(t) \/ Take(t) \/ Release(t) \/ Leave(t)
  \/ Crash

Spec == Init /\ [][Next]_fifoVars

=============================================================================
