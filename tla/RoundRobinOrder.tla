--------------------------- MODULE RoundRobinOrder ---------------------------
(***************************************************************************)
(* RoundRobin with a history variable that records who was served while a  *)
(* thread waited, to state the order in which the scheduler serves.        *)
(***************************************************************************)
EXTENDS RoundRobin

VARIABLE ahead  \* ahead[t]: the threads served since t subscribed or was served

orderVars == <<rrVars, ahead>>

\* The threads that take the round, and leave the scheduler, in this step.
Served == {u \in Threads : pc[u] = "round" /\ pc'[u] = "signalling"}
Leaving == {u \in Threads : pc[u] # "idle" /\ pc'[u] = "idle"}

OrderInit == Init /\ ahead = [t \in Threads |-> {}]

OrderNext ==
  /\ Next
  /\ ahead' = [t \in Threads |->
                 IF pc[t] = "idle" \/ t \in Served \cup Leaving THEN {}
                 ELSE (ahead[t] \cup Served) \ Leaving]

OrderSpec == OrderInit /\ [][OrderNext]_orderVars

\* Round robin: while a thread stays subscribed and unserved, no other
\* subscription is served twice, whatever subscribes, leaves or waits.
NoOvertaking ==
  [][\A u \in Served : \A t \in Subscribed \ {u} : u \notin ahead[t]]_orderVars

=============================================================================
