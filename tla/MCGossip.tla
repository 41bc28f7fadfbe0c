------------------------------ MODULE MCGossip ------------------------------
(***************************************************************************)
(* A network and a message for TLC.                                        *)
(***************************************************************************)
EXTENDS Gossip

CONSTANT a  \* the message

\* A ring of three with a fourth node behind one of them
RingAndTail ==
  [n \in Nodes |-> CASE n = 1 -> {2, 3} [] n = 2 -> {1, 3} [] n = 3 -> {1, 2, 4} [] n = 4 -> {3}]

\* From a node of the ring, which its own message comes back to
FromOne == [m \in Messages |-> 1]
=============================================================================
