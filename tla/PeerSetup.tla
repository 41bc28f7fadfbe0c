------------------------------ MODULE PeerSetup ------------------------------
(***************************************************************************)
(* How the nodes open their P2P streams (runP2p of p2p.go and the stream   *)
(* functions of p2p_communication.go) and when the operator is told that   *)
(* all of them are ready.                                                  *)
(*                                                                         *)
(* Of two peers the one with the smaller id dials, the other one listens.  *)
(* A node has one goroutine per peer in runP2p and one per incoming        *)
(* stream, handleStream.  They share the map nodeStreams.Streams without a *)
(* lock: a write takes two steps.  One that begins during another may be   *)
(* noticed by the Go runtime, which ends the process ("concurrent map      *)
(* writes"); if it is not, the entry added first may be lost.              *)
(*                                                                         *)
(* A dial under streamsSync is one step; one that fails changes nothing,   *)
(* and is repeated every six seconds.  The 2048 repetitions are not        *)
(* counted: they last longer than a listener takes to set its handler, so  *)
(* only a node that will never have an answer gives up.                    *)
(***************************************************************************)
EXTENDS Integers, FiniteSets

CONSTANTS
  Nodes,      \* the nodes, by their integer ids in network.json
  Peers,      \* Peers[n]: the connections of n in network.json
  Assignments \* what a configuration may say: Address[n] is the host given as n's

ASSUME NetworkAssumption ==
  /\ IsFiniteSet(Nodes) /\ Nodes \subseteq Int
  /\ Peers \in [Nodes -> SUBSET Nodes]
  /\ \A n \in Nodes : Peers[n] # {} /\ n \notin Peers[n] /\ \A p \in Peers[n] : n \in Peers[p]
  /\ Assignments \subseteq [Nodes -> Nodes]

VARIABLES
  address,               \* the p2p_id of each node in the configurations
  streams,               \* per node: nodeStreams.Streams, by peer
  links,                 \* per node: progress of its goroutines in runP2p, by peer
  callbacks,             \* per node: progress of handleStream, by peer
  sendReadyMessageState, \* per node
  nodesReady,            \* NODE_READY messages counted by the data processor
  initialised,           \* per node: runP2p has returned
  fate                   \* per node: "up", or how its process ended

vars == <<address, streams, links, callbacks, sendReadyMessageState, nodesReady,
          initialised, fate>>

Listens(n, p) == n > p
Dials(n, p) == n < p

TypeOK ==
  /\ address \in Assignments
  /\ streams \in [Nodes -> [Nodes -> {"none", "placeholder", "open"}]]
  /\ links \in [Nodes -> [Nodes -> {"start", "placing", "store", "storing", "count", "done"}]]
  /\ callbacks \in [Nodes -> [Nodes -> {"none", "called", "storing", "count", "done"}]]
  /\ sendReadyMessageState \in [Nodes -> BOOLEAN]
  /\ nodesReady \in 0 .. Cardinality(Nodes)
  /\ initialised \in [Nodes -> BOOLEAN]
  /\ fate \in [Nodes -> {"up", "raced", "gave_up"}]

\* A goroutine exists for peers only
Init ==
  /\ address \in Assignments
  /\ streams = [n \in Nodes |-> [p \in Nodes |-> "none"]]
  /\ links = [n \in Nodes |-> [p \in Nodes |-> IF p \in Peers[n] THEN "start" ELSE "done"]]
  /\ callbacks = [n \in Nodes |-> [p \in Nodes |-> "none"]]
  /\ sendReadyMessageState = [n \in Nodes |-> FALSE]
  /\ nodesReady = 0
  /\ initialised = [n \in Nodes |-> FALSE]
  /\ fate = [n \in Nodes |-> "up"]

-----------------------------------------------------------------------------

LinkGoes(n, p, from, to) ==
  /\ fate[n] = "up" /\ links[n][p] = from
  /\ links' = [links EXCEPT ![n][p] = to]

CallbackGoes(n, p, from, to) ==
  /\ fate[n] = "up" /\ callbacks[n][p] = from
  /\ callbacks' = [callbacks EXCEPT ![n][p] = to]

\* createStream and connectStream are called with streamsSync
streamsSyncFree(n) == \A p \in Nodes : links[n][p] # "placing"

WritesFor(n, p) == links[n][p] \in {"placing", "storing"} \/ callbacks[n][p] = "storing"

OtherWrite(n, p) == \E q \in Nodes \ {p} : WritesFor(n, q)

\* The two steps of a write to nodeStreams.Streams
BeginWrite(n, p) ==
  \/ UNCHANGED fate
  \/ OtherWrite(n, p) /\ fate' = [fate EXCEPT ![n] = "raced"]

EndWrite(n, p, entry) ==
  \/ streams' = [streams EXCEPT ![n][p] = entry]
  \/ OtherWrite(n, p) /\ streams[n][p] = "none" /\ UNCHANGED streams

(***************************************************************************)
(* The greater id: a placeholder, then SetStreamHandler.  With the handler *)
(* set an incoming stream finds its placeholder.                           *)
(***************************************************************************)
BeginCreateStream(n, p) ==
  /\ Listens(n, p) /\ streamsSyncFree(n)
  /\ LinkGoes(n, p, "start", "placing")
  /\ BeginWrite(n, p)
  /\ UNCHANGED <<address, streams, callbacks, sendReadyMessageState, nodesReady, initialised>>

EndCreateStream(n, p) ==
  /\ LinkGoes(n, p, "placing", "done")
  /\ EndWrite(n, p, "placeholder")
  /\ UNCHANGED <<address, callbacks, sendReadyMessageState, nodesReady, initialised, fate>>

\* Mutant: the protocol does not name the node that is dialled
Answers_Anybody(n, p) ==
  /\ fate[address[p]] = "up"
  /\ links[address[p]][n] = "done"

\* The protocol names both ids, and its handler is set after the placeholder
Answers(n, p) ==
  /\ address[p] = p /\ fate[p] = "up"
  /\ links[p][n] = "done"

\* The smaller id: libp2p calls handleStream on the other side
connectStream(n, p) ==
  /\ Dials(n, p) /\ streamsSyncFree(n)
  /\ Answers(n, p)
  /\ LinkGoes(n, p, "start", "store")
  /\ callbacks' = [callbacks EXCEPT ![address[p]][n] = "called"]
  /\ UNCHANGED <<address, streams, sendReadyMessageState, nodesReady, initialised, fate>>

\* "Failed to connect to peer": nobody at that address will ever answer
GiveUp(n, p) ==
  /\ Dials(n, p) /\ fate[n] = "up" /\ links[n][p] = "start"
  /\ address[p] # p \/ fate[p] # "up"
  /\ fate' = [fate EXCEPT ![n] = "gave_up"]
  /\ UNCHANGED <<address, streams, links, callbacks, sendReadyMessageState, nodesReady,
                 initialised>>

BeginStore(n, p) ==
  /\ LinkGoes(n, p, "store", "storing")
  /\ BeginWrite(n, p)
  /\ UNCHANGED <<address, streams, callbacks, sendReadyMessageState, nodesReady, initialised>>

EndStore(n, p) ==
  /\ LinkGoes(n, p, "storing", "count")
  /\ EndWrite(n, p, "open")
  /\ UNCHANGED <<address, callbacks, sendReadyMessageState, nodesReady, initialised, fate>>

BeginHandleStream(n, p) ==
  /\ CallbackGoes(n, p, "called", "storing")
  /\ BeginWrite(n, p)
  /\ UNCHANGED <<address, streams, links, sendReadyMessageState, nodesReady, initialised>>

EndHandleStream(n, p) ==
  /\ CallbackGoes(n, p, "storing", "count")
  /\ EndWrite(n, p, "open")
  /\ UNCHANGED <<address, links, sendReadyMessageState, nodesReady, initialised, fate>>

-----------------------------------------------------------------------------

\* Mutant: expectedNumberOfPeers counts the node itself
MapFull_WithSelf(n) ==
  Cardinality({p \in Nodes : streams[n][p] # "none"}) = Cardinality(Peers[n]) + 1

\* len(nodeStreams.Streams) == expectedNumberOfPeers
MapFull(n) == \A p \in Peers[n] : streams[n][p] # "none"

\* Mutant: sendReadyMessageState is not looked at
sendRabbitMqReadyMessage_Again(n) ==
  /\ sendReadyMessageState' = [sendReadyMessageState EXCEPT ![n] = TRUE]
  /\ nodesReady' = nodesReady + 1

\* NODE_READY, once: the data processor counts the messages, not the nodes
sendRabbitMqReadyMessage(n) ==
  /\ sendReadyMessageState' = [sendReadyMessageState EXCEPT ![n] = TRUE]
  /\ nodesReady' = IF sendReadyMessageState[n] THEN nodesReady ELSE nodesReady + 1

ReportIfFull(n) ==
  IF MapFull(n) THEN sendRabbitMqReadyMessage(n)
                ELSE UNCHANGED <<sendReadyMessageState, nodesReady>>

LinkCounts(n, p) ==
  /\ LinkGoes(n, p, "count", "done")
  /\ ReportIfFull(n)
  /\ UNCHANGED <<address, streams, callbacks, initialised, fate>>

CallbackCounts(n, p) ==
  /\ CallbackGoes(n, p, "count", "done")
  /\ ReportIfFull(n)
  /\ UNCHANGED <<address, streams, links, initialised, fate>>

\* wg.Wait, "All peers connected", and the variables of the protocol
Initialise(n) ==
  /\ fate[n] = "up" /\ ~initialised[n]
  /\ \A p \in Nodes : links[n][p] = "done"
  /\ initialised' = [initialised EXCEPT ![n] = TRUE]
  /\ UNCHANGED <<address, streams, links, callbacks, sendReadyMessageState, nodesReady, fate>>

-----------------------------------------------------------------------------

LinkStep(n, p) ==
  \/ BeginCreateStream(n, p)
  \/ EndCreateStream(n, p)
  \/ connectStream(n, p)
  \/ GiveUp(n, p)
  \/ BeginStore(n, p)
  \/ EndStore(n, p)
  \/ LinkCounts(n, p)

CallbackStep(n, p) ==
  \/ BeginHandleStream(n, p)
  \/ EndHandleStream(n, p)
  \/ CallbackCounts(n, p)

Next == \E n \in Nodes : Initialise(n) \/ \E p \in Peers[n] : LinkStep(n, p) \/ CallbackStep(n, p)

Spec == Init /\ [][Next]_vars

\* Goroutines run, libp2p delivers, and dials are repeated
FairSpec == Spec /\ WF_vars(Next)

-----------------------------------------------------------------------------

\* What GET commands/nodes-ready shows as N/N
AllReady == nodesReady = Cardinality(Nodes)

(***************************************************************************)
(* A node counts the placeholders of streams it still waits for, so its    *)
(* own NODE_READY says little.  But once the operator sees N/N, every link *)
(* has been dialled, is in the map of the node that dialled it (whose      *)
(* reader would otherwise find no peer for its stream and end the process),*)
(* and the other side has been called.                                     *)
(***************************************************************************)
AllReadyMeansDialled ==
  AllReady => \A n \in Nodes : \A p \in Peers[n] :
                Dials(n, p) => streams[n][p] = "open" /\ callbacks[p][n] # "none"

(***************************************************************************)
(* A configuration that names the host of another node for one that is     *)
(* dialled (the bootstrap server numbers connections and hellos apart)     *)
(* never connects that link to the wrong host: the operator never sees     *)
(* N/N, so no key is distributed in a network with a wrong link.           *)
(***************************************************************************)
MixedUpNeverReady ==
  AllReady => \A n \in Nodes : \A p \in Peers[n] : Dials(n, p) => address[p] = p

Connected(n) == initialised[n] /\ \A p \in Peers[n] : streams[n][p] = "open"

\* The entry of a peer was written and is not there
Lost(n) == \E p \in Peers[n] : links[n][p] \in {"count", "done"} /\ streams[n][p] = "none"

(***************************************************************************)
(* Unless addresses are mixed up, the runtime noticed a race or an entry   *)
(* was lost to one, everybody connects to everybody it should and reports  *)
(* it: nobody waits for a handler that is set too late or for a report     *)
(* that nobody sends.                                                      *)
(***************************************************************************)
EveryoneConnects ==
  <>(\/ AllReady /\ \A n \in Nodes : Connected(n)
     \/ \E n \in Nodes : address[n] # n \/ fate[n] = "raced" \/ Lost(n))

=============================================================================
