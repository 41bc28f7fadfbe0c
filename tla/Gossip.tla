------------------------------- MODULE Gossip -------------------------------
(***************************************************************************)
(* The gossip layer of p2p_communication.go: readData, sendMessageBroadcast*)
(* and gossipMessage.  A node forwards a message it sees for the first     *)
(* time to all its peers, one goroutine per peer, and processes it in the  *)
(* goroutine that read it; histMutex makes the first time unique.          *)
(*                                                                         *)
(* A message stands for its id, which is random and unique.  The simulated *)
(* latency of a goroutine is the time until its step.                      *)
(***************************************************************************)
EXTENDS Integers, Sequences, FiniteSets

CONSTANTS
  Nodes,     \* the nodes of the network
  Peers,     \* per node: the peers in its configuration
  Messages,  \* the messages that are broadcast
  Origin,    \* who broadcasts each message
  None       \* no message

ASSUME PeersAssumption ==
  /\ Peers \in [Nodes -> SUBSET Nodes]
  /\ \A n, p \in Nodes : p \in Peers[n] <=> n \in Peers[p]
  /\ \A n \in Nodes : n \notin Peers[n]

ASSUME MessagesAssumption == Origin \in [Messages -> Nodes] /\ None \notin Messages

VARIABLES
  sent,                 \* the messages broadcast so far
  messageHistory,       \* per node: the messages sent or seen
  messagePeersHistory,  \* per node and peer: the messages received from that peer
  gossiping,            \* per node and peer: goroutines that have not written yet
  stream,               \* per node and peer: what the node wrote and the peer has not read
  processing,           \* per node and peer: the message its reader processes
  processed             \* per node and message: how often it was processed

vars == <<sent, messageHistory, messagePeersHistory, gossiping, stream, processing, processed>>

TypeOK ==
  /\ sent \subseteq Messages
  /\ messageHistory \in [Nodes -> SUBSET Messages]
  /\ messagePeersHistory \in [Nodes -> [Nodes -> SUBSET Messages]]
  /\ gossiping \in [Nodes -> [Nodes -> SUBSET Messages]]
  /\ stream \in [Nodes -> [Nodes -> Seq(Messages)]]
  /\ processing \in [Nodes -> [Nodes -> Messages \cup {None}]]
  /\ processed \in [Nodes -> [Messages -> Nat]]

Init ==
  /\ sent = {}
  /\ messageHistory = [n \in Nodes |-> {}]
  /\ messagePeersHistory = [n \in Nodes |-> [p \in Nodes |-> {}]]
  /\ gossiping = [n \in Nodes |-> [p \in Nodes |-> {}]]
  /\ stream = [n \in Nodes |-> [p \in Nodes |-> <<>>]]
  /\ processing = [n \in Nodes |-> [p \in Nodes |-> None]]
  /\ processed = [n \in Nodes |-> [m \in Messages |-> 0]]

-----------------------------------------------------------------------------

\* One goroutine per peer, for message m of node n
Gossiped(n, m) ==
  [gossiping EXCEPT ![n] = [p \in Nodes |-> IF p \in Peers[n] THEN @[p] \cup {m} ELSE @[p]]]

\* Mutant: the sender does not remember its message
Remembered_NotOwn(history, n, m) == history

Remembered(history, n, m) == [history EXCEPT ![n] = @ \cup {m}]

\* The origin stores the message "to not receive it back" and does not process it here
sendMessageBroadcast(m) ==
  LET n == Origin[m]
  IN  /\ m \notin sent
      /\ sent' = sent \cup {m}
      /\ messageHistory' = Remembered(messageHistory, n, m)
      /\ gossiping' = Gossiped(n, m)
      /\ UNCHANGED <<messagePeersHistory, stream, processing, processed>>

\* Mutant: a message is kept from a peer that another peer sent it to as well
messageAlreadyReceived_FromAny(n, p, m) == m \in messageHistory[n]

messageAlreadyReceived(n, p, m) == m \in messagePeersHistory[n][p]

\* A peer that sent the message itself does not get it back
gossipMessage(n, p, m) ==
  /\ m \in gossiping[n][p]
  /\ gossiping' = [gossiping EXCEPT ![n][p] = @ \ {m}]
  /\ stream' = IF messageAlreadyReceived(n, p, m) THEN stream
               ELSE [stream EXCEPT ![n][p] = Append(@, m)]
  /\ UNCHANGED <<sent, messageHistory, messagePeersHistory, processing, processed>>

\* Mutant: only the peers' own histories are searched
isMessageFirstOccurrence_PerPeer(n, p, m) == m \notin messagePeersHistory[n][p]

isMessageFirstOccurrence(n, p, m) == m \notin messageHistory[n]

\* Mutant: everything that was written is read as one message
NextMessage_Unlimited(n, p) == stream[p][n]

\* "Every message is delimitered by a newline"
NextMessage(n, p) == Head(stream[p][n])

\* The reader of node n for the stream of peer p, under histMutex
readData(n, p) ==
  /\ processing[n][p] = None /\ stream[p][n] # <<>>
  /\ LET m == NextMessage(n, p)
     IN  /\ stream' = [stream EXCEPT ![p][n] = Tail(@)]
         /\ messagePeersHistory' = [messagePeersHistory EXCEPT ![n][p] = @ \cup {m}]
         /\ IF isMessageFirstOccurrence(n, p, m)
            THEN /\ messageHistory' = [messageHistory EXCEPT ![n] = @ \cup {m}]
                 /\ gossiping' = Gossiped(n, m)
                 /\ processing' = [processing EXCEPT ![n][p] = m]
            ELSE UNCHANGED <<messageHistory, gossiping, processing>>
  /\ UNCHANGED <<sent, processed>>

\* processNetworkMessage returns; only then the reader reads on
EndProcessing(n, p) ==
  /\ processing[n][p] # None
  /\ processed' = [processed EXCEPT ![n][processing[n][p]] = @ + 1]
  /\ processing' = [processing EXCEPT ![n][p] = None]
  /\ UNCHANGED <<sent, messageHistory, messagePeersHistory, gossiping, stream>>

Next ==
  \/ \E m \in Messages : sendMessageBroadcast(m)
  \/ \E n, p \in Nodes :
       \/ \E m \in Messages : gossipMessage(n, p, m)
       \/ readData(n, p)
       \/ EndProcessing(n, p)

Spec == Init /\ [][Next]_vars

\* Goroutines run, streams deliver, and no handler blocks for ever
FairSpec ==
  /\ Spec
  /\ \A n, p \in Nodes :
       /\ \A m \in Messages : WF_vars(gossipMessage(n, p, m))
       /\ WF_vars(readData(n, p))
       /\ WF_vars(EndProcessing(n, p))

-----------------------------------------------------------------------------

(***************************************************************************)
(* A message is processed at most once per node, however many peers        *)
(* forward it and however their copies interleave, and never by its        *)
(* origin.                                                                 *)
(***************************************************************************)
ProcessedOnce ==
  \A n \in Nodes, m \in Messages :
    processed[n][m] <= IF n = Origin[m] THEN 0 ELSE 1

(***************************************************************************)
(* Gossip ends: a message crosses a link at most once in each direction.   *)
(* What is on the way from n to p or has arrived there was never also      *)
(* about to be written.                                                    *)
(***************************************************************************)
OneCopyPerLink ==
  \A n, p \in Nodes : \A m \in Messages :
    LET copies == {i \in DOMAIN stream[n][p] : stream[n][p][i] = m}
    IN  /\ Cardinality(copies) <= 1
        /\ copies # {} => m \notin gossiping[n][p] /\ m \notin messagePeersHistory[p][n]
        /\ m \in gossiping[n][p] => m \notin messagePeersHistory[p][n]

-----------------------------------------------------------------------------

\* What gossip is for: a message counts as delivered when its handler has returned
Channel == INSTANCE BroadcastChannel
             WITH delivered <- [n \in Nodes |-> {m \in Messages : processed[n][m] > 0}]

(***************************************************************************)
(* Gossip over a connected network is a broadcast channel: every message   *)
(* reaches every other node exactly once.                                  *)
(***************************************************************************)
ImplementsChannel == Channel!FairSpec

=============================================================================
