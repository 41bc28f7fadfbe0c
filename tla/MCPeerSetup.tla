----------------------------- MODULE MCPeerSetup -----------------------------
(***************************************************************************)
(* Values for PeerSetup: a mesh of three nodes; the hosts are right, or    *)
(* those of the two nodes that are dialled are exchanged.                  *)
(***************************************************************************)
EXTENDS PeerSetup

Mesh == [n \in Nodes |-> Nodes \ {n}]

Right == [n \in Nodes |-> n]
RightOrSwapped == {Right, [Right EXCEPT ![2] = 3, ![3] = 2]}

=============================================================================
