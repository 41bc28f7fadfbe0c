-------------------------- MODULE BroadcastChannel --------------------------
(***************************************************************************)
(* What the rest of a node expects of sendMessageBroadcast: a message that *)
(* a node broadcasts is handed to processNetworkMessage of every other     *)
(* node exactly once, in any order, after any delay.                       *)
(***************************************************************************)
CONSTANTS
  Nodes,     \* the nodes of the network
  Messages,  \* the messages that are broadcast
  Origin     \* who broadcasts each message

VARIABLES
  sent,      \* the messages broadcast so far
  delivered  \* per node: the messages processed so far

channelVars == <<sent, delivered>>

Init ==
  /\ sent = {}
  /\ delivered = [n \in Nodes |-> {}]

Broadcast(m) ==
  /\ m \notin sent
  /\ sent' = sent \cup {m}
  /\ UNCHANGED delivered

Deliver(n, m) ==
  /\ m \in sent /\ Origin[m] # n /\ m \notin delivered[n]
  /\ delivered' = [delivered EXCEPT ![n] = @ \cup {m}]
  /\ UNCHANGED sent

Next == \E m \in Messages : Broadcast(m) \/ \E n \in Nodes : Deliver(n, m)

Spec == Init /\ [][Next]_channelVars

\* Every message that is broadcast reaches every other node
FairSpec ==
  Spec /\ \A n \in Nodes, m \in Messages : WF_channelVars(Deliver(n, m))

=============================================================================
