------------------------------ MODULE Bootstrap ------------------------------
(***************************************************************************)
(* How the nodes get their part of the network topology: the bootstrap     *)
(* server (bootstrap-server/src/Communication.js, State.js) and its client *)
(* in every node (bootstrap_client.go).  Each connection is a websocket:   *)
(* first in, first out, in both directions.                                *)
(***************************************************************************)
EXTENDS Integers, Sequences, FiniteSets, Functions

CONSTANTS
  Nodes,     \* the nodes of the network, as many as network.json has entries
  MaxDials   \* how often a node dials before it aborts

targetNumNodes == Cardinality(Nodes)

ASSUME NodesAssumption == IsFiniteSet(Nodes) /\ MaxDials \in Nat \ {0}

VARIABLES
  state,           \* of the server
  clients,         \* wss.clients, in the order of connection
  nodesIdsMapping, \* nodes in the order of their hellos
  stored,          \* nodes whose configuration is confirmed (nodesConfigs)
  nodesReady,      \* nodes that are ready
  checkConfig,     \* the interval that looks for network.json is running
  nodeState,       \* per node: state of the client
  dials,           \* per node: failed dials
  view,            \* per node: the entry of nodes_view received, 0 for none
  toServer,        \* per node: messages sent and not received
  toNode

serverVars == <<state, clients, nodesIdsMapping, stored, nodesReady, checkConfig>>
nodeVars == <<nodeState, dials, view>>
vars == <<serverVars, nodeVars, toServer, toNode>>

ServerStates == {"BOOTING", "RECEIVE_HELLO", "SEND_CONF", "SEND_RDY", "FINISH"}
NodeStates == {"dialling", "connected", "hello_confirm", "config", "ready", "finish", "aborted"}

\* Messages to a node; a configuration is sent as the number of its entry
Answer == [type : {"hello", "send_ready"}, entry : {0}]
            \cup [type : {"send_conf"}, entry : 1 .. targetNumNodes]

HelloOk == [type |-> "hello", entry |-> 0]
SendReady == [type |-> "send_ready", entry |-> 0]

TypeOK ==
  /\ state \in ServerStates /\ checkConfig \in BOOLEAN
  /\ clients \in Seq(Nodes) /\ Len(clients) <= targetNumNodes
  /\ nodesIdsMapping \in Seq(Nodes) /\ Len(nodesIdsMapping) <= targetNumNodes
  /\ stored \subseteq Range(nodesIdsMapping) /\ nodesReady \subseteq stored
  /\ nodeState \in [Nodes -> NodeStates]
  /\ dials \in [Nodes -> 0 .. MaxDials]
  /\ view \in [Nodes -> 0 .. targetNumNodes]
  /\ toServer \in [Nodes -> Seq({"hello", "conf", "ready"})]
  /\ toNode \in [Nodes -> Seq(Answer)]

Init ==
  /\ state = "BOOTING"
  /\ clients = <<>>
  /\ nodesIdsMapping = <<>>
  /\ stored = {}
  /\ nodesReady = {}
  /\ checkConfig = FALSE
  /\ nodeState = [n \in Nodes |-> "dialling"]
  /\ dials = [n \in Nodes |-> 0]
  /\ view = [n \in Nodes |-> 0]
  /\ toServer = [n \in Nodes |-> <<>>]
  /\ toNode = [n \in Nodes |-> <<>>]

-----------------------------------------------------------------------------
(* Node *)

Become(n, s) == nodeState' = [nodeState EXCEPT ![n] = s]
Tell(n, msg) == toServer' = [toServer EXCEPT ![n] = Append(@, msg)]

\* Ten seconds later the node dials again, until it gives up
DialFails(n) ==
  /\ nodeState[n] = "dialling" /\ state = "BOOTING"
  /\ dials' = [dials EXCEPT ![n] = @ + 1]
  /\ IF dials[n] + 1 = MaxDials THEN Become(n, "aborted") ELSE UNCHANGED nodeState
  /\ UNCHANGED <<serverVars, view, toServer, toNode>>

Dial(n) ==
  /\ nodeState[n] = "dialling" /\ state # "BOOTING"
  /\ clients' = Append(clients, n)
  /\ Become(n, "connected")
  /\ UNCHANGED <<state, nodesIdsMapping, stored, nodesReady, checkConfig, dials, view,
                 toServer, toNode>>

sendHelloMsg(n) ==
  /\ nodeState[n] = "connected"
  /\ Become(n, "hello_confirm")
  /\ Tell(n, "hello")
  /\ UNCHANGED <<serverVars, dials, view, toNode>>

\* The goroutine that reads the connection; what it expects depends on its state alone
NodeReads(n) ==
  /\ toNode[n] # <<>>
  /\ toNode' = [toNode EXCEPT ![n] = Tail(@)]
  /\ LET msg == Head(toNode[n])
     IN  \/ /\ nodeState[n] = "hello_confirm"
            /\ IF msg.type # "send_conf" THEN Become(n, "config") ELSE UNCHANGED nodeState
            /\ UNCHANGED <<view, toServer>>
         \/ /\ nodeState[n] = "config"
            /\ view' = [view EXCEPT ![n] = msg.entry]
            /\ Become(n, "ready")
            /\ Tell(n, "conf")
         \/ /\ nodeState[n] = "ready"
            /\ Become(n, "finish")
            /\ Tell(n, "ready")
            /\ UNCHANGED view
  /\ UNCHANGED <<serverVars, dials>>

-----------------------------------------------------------------------------
(* Server *)

\* wss 'listening'
Listening ==
  /\ state = "BOOTING"
  /\ state' = "RECEIVE_HELLO"
  /\ UNCHANGED <<clients, nodesIdsMapping, stored, nodesReady, checkConfig, nodeVars,
                 toServer, toNode>>

\* Mutant: the server does not wait for the last node
AllKnown_ButOne(ids) == Len(ids) = targetNumNodes - 1

AllKnown(ids) == Len(ids) = targetNumNodes

\* A message is read whatever it is; the expected one has an effect
Read(n, s) ==
  /\ state = s /\ toServer[n] # <<>>
  /\ toServer' = [toServer EXCEPT ![n] = Tail(@)]

ReceiveHello(n) ==
  /\ Read(n, "RECEIVE_HELLO")
  /\ IF Head(toServer[n]) = "hello" /\ n \notin Range(nodesIdsMapping)
     THEN /\ nodesIdsMapping' = Append(nodesIdsMapping, n)
          /\ toNode' = [toNode EXCEPT ![n] = Append(@, HelloOk)]
     ELSE UNCHANGED <<nodesIdsMapping, toNode>>
  /\ IF AllKnown(nodesIdsMapping') THEN state' = "SEND_CONF" /\ checkConfig' = TRUE
                                   ELSE UNCHANGED <<state, checkConfig>>
  /\ UNCHANGED <<clients, stored, nodesReady, nodeVars>>

\* A node that is connected dials no more: it is one of the clients, once
entryOf(n) == CHOOSE i \in DOMAIN clients : clients[i] = n

Configuration(n) == [type |-> "send_conf", entry |-> entryOf(n)]

\* Each 2.5 seconds; network.json is there by then
sendConfigurations ==
  /\ checkConfig
  /\ checkConfig' = FALSE
  /\ toNode' = [n \in Nodes |-> IF n \in Range(clients)
                                THEN Append(toNode[n], Configuration(n)) ELSE toNode[n]]
  /\ UNCHANGED <<state, clients, nodesIdsMapping, stored, nodesReady, nodeVars, toServer>>

\* Mutant: one confirmation too few
AllStored_Fewer(nodes) == Cardinality(nodes) = targetNumNodes - 1

AllStored(nodes) == Cardinality(nodes) = targetNumNodes

\* sendReady is part of the step that stores the last confirmation
ReceiveConf(n) ==
  /\ Read(n, "SEND_CONF")
  /\ stored' = IF Head(toServer[n]) = "conf" THEN stored \cup ({n} \cap Range(nodesIdsMapping))
                                             ELSE stored
  /\ IF AllStored(stored')
     THEN /\ state' = "SEND_RDY"
          /\ toNode' = [m \in Nodes |-> IF m \in Range(clients)
                                        THEN Append(toNode[m], SendReady) ELSE toNode[m]]
     ELSE UNCHANGED <<state, toNode>>
  /\ UNCHANGED <<clients, nodesIdsMapping, nodesReady, checkConfig, nodeVars>>

\* The server stops once everybody is ready
ReceiveReady(n) ==
  /\ Read(n, "SEND_RDY")
  /\ nodesReady' = IF Head(toServer[n]) = "ready" THEN nodesReady \cup {n} ELSE nodesReady
  /\ state' = IF Cardinality(nodesReady') = targetNumNodes THEN "FINISH" ELSE state
  /\ UNCHANGED <<clients, nodesIdsMapping, stored, checkConfig, nodeVars, toNode>>

-----------------------------------------------------------------------------

Next ==
  \/ Listening
  \/ sendConfigurations
  \/ \E n \in Nodes :
       \/ DialFails(n)
       \/ Dial(n)
       \/ sendHelloMsg(n)
       \/ NodeReads(n)
       \/ ReceiveHello(n)
       \/ ReceiveConf(n)
       \/ ReceiveReady(n)

Spec == Init /\ [][Next]_vars

\* Processes run and websockets deliver
FairSpec == Spec /\ WF_vars(Next)

-----------------------------------------------------------------------------

BarrierSpec ==
  INSTANCE Barrier WITH Entries <- 1 .. targetNumNodes,
                        entry <- view, passed <- {n \in Nodes : nodeState[n] = "finish"}

(***************************************************************************)
(* The bootstrap is a barrier: each node is configured with an entry of    *)
(* its own, once, and one that passes into P2P mode finds all the others   *)
(* configured, although the server counts hellos, confirmations and ready  *)
(* messages and each side reads what comes next by its own state.          *)
(***************************************************************************)
ImplementsBarrier == BarrierSpec!Spec

(***************************************************************************)
(* Unless a node gave up dialling, every node passes into P2P mode and the *)
(* server knows: nobody waits for a message that was given to another      *)
(* state.                                                                  *)
(***************************************************************************)
EverybodyFinishes ==
  <>(\/ state = "FINISH" /\ \A n \in Nodes : nodeState[n] = "finish"
     \/ \E n \in Nodes : nodeState[n] = "aborted")

=============================================================================
