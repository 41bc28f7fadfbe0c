------------------------------- MODULE Barrier -------------------------------
(***************************************************************************)
(* What the bootstrap promises: every node is given an entry of the        *)
(* topology that no other node has, and none passes into P2P mode before   *)
(* all nodes have theirs.                                                  *)
(***************************************************************************)
EXTENDS Integers

CONSTANTS
  Nodes,
  Entries  \* of the topology, from 1 on

VARIABLES
  entry,  \* per node: its entry, 0 for none
  passed  \* the nodes in P2P mode

barrierVars == <<entry, passed>>

Init == entry = [n \in Nodes |-> 0] /\ passed = {}

Arrive(n) ==
  /\ entry[n] = 0
  /\ \E e \in Entries \ {entry[m] : m \in Nodes} :
       entry' = [entry EXCEPT ![n] = e]
  /\ UNCHANGED passed

Pass(n) ==
  /\ \A m \in Nodes : entry[m] # 0
  /\ n \notin passed
  /\ passed' = passed \cup {n}
  /\ UNCHANGED entry

Next == \E n \in Nodes : Arrive(n) \/ Pass(n)

Spec == Init /\ [][Next]_barrierVars

=============================================================================
