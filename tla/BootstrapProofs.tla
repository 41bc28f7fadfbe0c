--------------------------- MODULE BootstrapProofs ---------------------------
(***************************************************************************)
(* Theorems about Bootstrap, for every number of nodes and of dials: its   *)
(* state is well formed, it implements the barrier, and it comes to an end.*)
(***************************************************************************)
EXTENDS Bootstrap, TLAPS, FiniteSetTheorems, SequenceTheorems

Distinct(s) == \A i, j \in DOMAIN s : s[i] = s[j] => i = j

\* Every node is known; the configurations are sent; the ready messages are sent
Complete == state \in {"SEND_CONF", "SEND_RDY", "FINISH"}
Configured == Complete /\ ~checkConfig
Released == state \in {"SEND_RDY", "FINISH"}

Has(n) == nodeState[n] \in {"ready", "finish"}

\* A node has one connection, from when it stops dialling
ClientsOnce ==
  /\ Distinct(clients)
  /\ \A n \in Nodes : n \in Range(clients) <=> nodeState[n] \notin {"dialling", "aborted"}

\* A node is known once, after its hello, and all are when configurations are due
HellosOnce ==
  /\ Distinct(nodesIdsMapping)
  /\ \A n \in Range(nodesIdsMapping) : nodeState[n] \notin {"dialling", "connected", "aborted"}
  /\ Complete => Range(nodesIdsMapping) = Nodes

\* The server stores confirmations of nodes that have a view, and releases them all
StagesInOrder ==
  /\ checkConfig => state = "SEND_CONF"
  /\ \A n \in stored : Has(n)
  /\ Released => stored = Nodes

\* A node is never ahead of the server; its view is the entry of its connection
NodesInOrder ==
  \A n \in Nodes :
    /\ nodeState[n] = "dialling" => dials[n] < MaxDials
    /\ nodeState[n] = "config" => n \in Range(nodesIdsMapping)
    /\ Has(n) => /\ Configured
                 /\ view[n] \in DOMAIN clients /\ clients[view[n]] = n
    /\ ~Has(n) => view[n] = 0
    /\ nodeState[n] = "finish" => Released

\* What a node has sent and the server did not read says where the node is
SentInState ==
  \A n \in Nodes : \A i \in DOMAIN toServer[n] :
    /\ toServer[n][i] = "hello" => nodeState[n] \notin {"dialling", "connected", "aborted"}
    /\ toServer[n][i] = "conf" => Has(n)

\* What a node has not read yet is what its state expects, in that order
Expected(n) ==
  IF nodeState[n] = "hello_confirm" /\ n \in Range(nodesIdsMapping)
    THEN IF Configured THEN <<HelloOk, Configuration(n)>> ELSE <<HelloOk>>
  ELSE IF nodeState[n] = "config" /\ Configured THEN <<Configuration(n)>>
  ELSE IF nodeState[n] = "ready" /\ Released THEN <<SendReady>>
  ELSE <<>>

QueuesExpected == \A n \in Nodes : toNode[n] = Expected(n)

(***************************************************************************)
(* That all views are there when a node passes is not inductive: nodes go  *)
(* by their own state and read whatever comes next.  It follows from what  *)
(* the connections carry: each message is in the one place in the queue    *)
(* where the node expects it, and its entry is the place of the connection *)
(* among the clients, which no two nodes share.                            *)
(***************************************************************************)
BootInv ==
  /\ TypeOK /\ ClientsOnce /\ HellosOnce /\ StagesInOrder /\ NodesInOrder
  /\ SentInState /\ QueuesExpected

-----------------------------------------------------------------------------
(* Sequences of nodes and of messages *)

\* Without repetition there are no more entries than nodes; with as many, all are there
LEMMA DistinctBounded ==
  ASSUME NEW s \in Seq(Nodes), Distinct(s)
  PROVE  Len(s) <= targetNumNodes /\ (Len(s) = targetNumNodes => Range(s) = Nodes)
<1>1. s \in [1 .. Len(s) -> Nodes] /\ Len(s) \in Nat
  OBVIOUS
<1>2. s \in Injection(1 .. Len(s), Nodes)
  <2>1. IsInjective(s)
    BY DEF Distinct, IsInjective
  <2> QED
    BY <1>1, <2>1 DEF Injection
<1>3. Cardinality(1 .. Len(s)) = Len(s)
  <2>1. \A k \in Nat : Cardinality(1 .. k) = k
    BY FS_Interval
  <2> QED
    BY <1>1, <2>1
<1>4. Len(s) <= targetNumNodes
  BY <1>2, <1>3, NodesAssumption, FS_Injection DEF targetNumNodes
<1>5. Len(s) = targetNumNodes => s \in Surjection(1 .. Len(s), Nodes)
  BY <1>2, <1>3, NodesAssumption, FS_Injection DEF targetNumNodes
<1>6. s \in Surjection(1 .. Len(s), Nodes) => Range(s) = Nodes
  BY <1>1 DEF Surjection, Range
<1> QED
  BY <1>4, <1>5, <1>6

\* A sequence without repetition in which all are is as long as there are nodes
LEMMA DistinctFull ==
  ASSUME NEW s \in Seq(Nodes), Distinct(s), Range(s) = Nodes
  PROVE  Len(s) = targetNumNodes
<1>1. s \in [1 .. Len(s) -> Nodes] /\ Len(s) \in Nat
  OBVIOUS
<1>2. s \in Surjection(1 .. Len(s), Nodes)
  BY <1>1 DEF Surjection, Range
<1>3. \A k \in Nat : IsFiniteSet(1 .. k) /\ Cardinality(1 .. k) = k
  BY FS_Interval
<1>4. targetNumNodes <= Len(s)
  BY <1>1, <1>2, <1>3, FS_Surjection DEF targetNumNodes
<1>5. Len(s) <= targetNumNodes
  BY DistinctBounded
<1>6. targetNumNodes \in Nat /\ Len(s) \in Nat
  BY <1>1, NodesAssumption, FS_CardinalityType DEF targetNumNodes
<1>7. \A a, b \in Nat : a <= b /\ b <= a => b = a
  OBVIOUS
<1> QED
  BY <1>4, <1>5, <1>6, <1>7, Zenon

LEMMA AppendDistinct ==
  ASSUME NEW s \in Seq(Nodes), Distinct(s), NEW n \in Nodes, n \notin Range(s)
  PROVE  /\ Append(s, n) \in Seq(Nodes) /\ Distinct(Append(s, n))
         /\ Range(Append(s, n)) = Range(s) \cup {n}
         /\ Len(Append(s, n)) <= targetNumNodes
<1>1. /\ Append(s, n) \in Seq(Nodes) /\ DOMAIN Append(s, n) = 1 .. Len(s) + 1
      /\ \A i \in 1 .. Len(s) : Append(s, n)[i] = s[i]
      /\ Append(s, n)[Len(s) + 1] = n /\ Len(s) \in Nat /\ DOMAIN s = 1 .. Len(s)
  BY AppendProperties
<1>2. \A i \in DOMAIN s : s[i] # n
  BY DEF Range
<1>3. Distinct(Append(s, n))
  BY <1>1, <1>2 DEF Distinct
<1>4. Range(Append(s, n)) = Range(s) \cup {n}
  BY <1>1 DEF Range
<1> QED
  BY <1>1, <1>3, <1>4, DistinctBounded

\* The short queues of answers
LEMMA Queues ==
  ASSUME NEW a, NEW b
  PROVE  /\ <<a>> # <<>> /\ Head(<<a>>) = a /\ Tail(<<a>>) = <<>>
         /\ <<a, b>> # <<>> /\ Head(<<a, b>>) = a /\ Tail(<<a, b>>) = <<b>>
         /\ Append(<<>>, a) = <<a>> /\ Append(<<a>>, b) = <<a, b>>
<1>1. <<a>> # <<>> /\ Head(<<a>>) = a
  OBVIOUS
<1>2. Tail(<<a>>) = <<>>
  OBVIOUS
<1>3. <<a, b>> # <<>> /\ Head(<<a, b>>) = a
  OBVIOUS
<1>4. Tail(<<a, b>>) = <<b>>
  OBVIOUS
<1>5. Append(<<>>, a) = <<a>>
  OBVIOUS
<1>6. Append(<<a>>, b) = <<a, b>>
  <2>1. <<a>> \in Seq({a, b}) /\ b \in {a, b} /\ <<a, b>> \in Seq({a, b})
    OBVIOUS
  <2>2. /\ Append(<<a>>, b) \in Seq({a, b}) /\ Len(Append(<<a>>, b)) = 2
        /\ Append(<<a>>, b)[1] = a /\ Append(<<a>>, b)[2] = b
    BY <2>1, AppendProperties
  <2>3. <<a, b>>[1] = a /\ <<a, b>>[2] = b /\ Len(<<a, b>>) = 2
    OBVIOUS
  <2>4. \A i \in 1 .. Len(<<a, b>>) : Append(<<a>>, b)[i] = <<a, b>>[i]
    BY <2>2, <2>3
  <2> QED
    BY <2>1, <2>2, <2>3, <2>4, SeqEqual
<1> QED
  BY <1>1, <1>2, <1>3, <1>4, <1>5, <1>6

\* A client's entry
LEMMA EntryOf ==
  ASSUME TypeOK, NEW n \in Range(clients)
  PROVE  /\ entryOf(n) \in DOMAIN clients /\ clients[entryOf(n)] = n
         /\ entryOf(n) \in 1 .. targetNumNodes
         /\ Configuration(n) \in Answer
<1>1. \E i \in DOMAIN clients : clients[i] = n
  BY DEF Range
<1>2. entryOf(n) \in DOMAIN clients /\ clients[entryOf(n)] = n
  BY <1>1 DEF entryOf
<1>3. DOMAIN clients = 1 .. Len(clients) /\ Len(clients) \in Nat
  BY DEF TypeOK
<1>4. targetNumNodes \in Nat
  BY NodesAssumption, FS_CardinalityType DEF targetNumNodes
<1>5. entryOf(n) \in 1 .. targetNumNodes
  BY <1>2, <1>3, <1>4 DEF TypeOK
<1> QED
  BY <1>2, <1>5 DEF Configuration, Answer

\* Two nodes never share an entry
LEMMA EntriesDiffer ==
  ASSUME BootInv, NEW n \in Nodes, NEW m \in Nodes, n # m, n \in Range(clients), Has(m)
  PROVE  view[m] # entryOf(n)
BY EntryOf DEF BootInv, NodesInOrder

-----------------------------------------------------------------------------
(* The steps of the nodes *)

LEMMA BootInit == Init => BootInv
<1> SUFFICES ASSUME Init PROVE BootInv
  OBVIOUS
<1>1. targetNumNodes \in Nat
  BY NodesAssumption, FS_CardinalityType DEF targetNumNodes
<1>2. Range(<<>>) = {} /\ Len(<<>>) = 0 /\ <<>> \in Seq(Nodes) /\ Distinct(<<>>)
  BY DEF Range, Distinct
<1>3. TypeOK
  <2>1. state \in ServerStates /\ checkConfig \in BOOLEAN
    BY DEF Init, ServerStates
  <2>2. /\ clients \in Seq(Nodes) /\ Len(clients) <= targetNumNodes
        /\ nodesIdsMapping \in Seq(Nodes) /\ Len(nodesIdsMapping) <= targetNumNodes
        /\ stored \subseteq Range(nodesIdsMapping) /\ nodesReady \subseteq stored
    BY <1>1, <1>2 DEF Init
  <2>3. nodeState \in [Nodes -> NodeStates]
    BY DEF Init, NodeStates
  <2>4. dials \in [Nodes -> 0 .. MaxDials] /\ view \in [Nodes -> 0 .. targetNumNodes]
    BY <1>1, NodesAssumption DEF Init
  <2>5. toServer \in [Nodes -> Seq({"hello", "conf", "ready"})] /\ toNode \in [Nodes -> Seq(Answer)]
    BY DEF Init
  <2> QED
    BY <2>1, <2>2, <2>3, <2>4, <2>5 DEF TypeOK
<1>4. ClientsOnce /\ HellosOnce /\ StagesInOrder
  BY <1>2 DEF Init, ClientsOnce, HellosOnce, StagesInOrder, Complete, Released
<1>5. NodesInOrder
  <2>1. \A n \in Nodes : nodeState[n] = "dialling" /\ dials[n] = 0 /\ view[n] = 0
    BY DEF Init
  <2> QED
    BY <2>1, NodesAssumption DEF NodesInOrder, Has
<1>6. SentInState
  BY DEF Init, SentInState
<1>7. QueuesExpected
  BY DEF Init, QueuesExpected, Expected
<1> QED
  BY <1>3, <1>4, <1>5, <1>6, <1>7 DEF BootInv

LEMMA NodeSets ==
  ASSUME TypeOK
  PROVE  /\ Range(clients) \subseteq Nodes /\ Range(nodesIdsMapping) \subseteq Nodes
         /\ stored \subseteq Nodes /\ targetNumNodes \in Nat
<1>1. targetNumNodes \in Nat
  BY NodesAssumption, FS_CardinalityType DEF targetNumNodes
<1>2. Range(clients) \subseteq Nodes /\ Range(nodesIdsMapping) \subseteq Nodes
  BY DEF TypeOK, Range
<1> QED
  BY <1>1, <1>2 DEF TypeOK

\* As long as one node has not said hello, nothing is configured
LEMMA EarlyStage ==
  ASSUME BootInv, NEW n \in Nodes, n \notin Range(nodesIdsMapping)
  PROVE  ~Complete /\ ~Released /\ ~Configured /\ \A k \in Nodes : ~Has(k)
<1>1. ~Complete
  BY DEF BootInv, HellosOnce
<1> QED
  BY <1>1 DEF BootInv, NodesInOrder, Configured, Complete, Released

\* What a node expects depends on its state, its place among the clients and the stage
LEMMA ExpectedSame ==
  ASSUME NEW k, nodeState'[k] = nodeState[k], clients' = clients,
         k \in Range(nodesIdsMapping') <=> k \in Range(nodesIdsMapping),
         Configured' <=> Configured, Released' <=> Released
  PROVE  Expected(k)' = Expected(k)
<1>1. Configuration(k)' = Configuration(k)
  BY DEF Configuration, entryOf
<1> QED
  BY <1>1 DEF Expected

LEMMA DialFailsInv ==
  ASSUME BootInv, NEW n \in Nodes, DialFails(n)
  PROVE  BootInv'
<1>1. /\ nodeState[n] = "dialling" /\ dials[n] < MaxDials
      /\ dials' = [dials EXCEPT ![n] = @ + 1]
      /\ \/ dials[n] + 1 = MaxDials /\ nodeState' = [nodeState EXCEPT ![n] = "aborted"]
         \/ dials[n] + 1 # MaxDials /\ nodeState' = nodeState
      /\ UNCHANGED <<serverVars, view, toServer, toNode>>
  BY DEF DialFails, Become, BootInv, NodesInOrder
<1>2. /\ state' = state /\ clients' = clients /\ nodesIdsMapping' = nodesIdsMapping
      /\ stored' = stored /\ nodesReady' = nodesReady /\ checkConfig' = checkConfig
      /\ view' = view /\ toServer' = toServer /\ toNode' = toNode
  BY <1>1 DEF serverVars
<1>3. /\ dials' \in [Nodes -> 0 .. MaxDials]
      /\ nodeState' \in [Nodes -> NodeStates]
      /\ \A k \in Nodes \ {n} : nodeState'[k] = nodeState[k] /\ dials'[k] = dials[k]
      /\ nodeState'[n] = "aborted" \/ (nodeState'[n] = "dialling" /\ dials'[n] < MaxDials)
  <2>1. dials[n] \in Nat /\ dials[n] + 1 \in 0 .. MaxDials
    BY <1>1, NodesAssumption DEF BootInv, TypeOK
  <2>2. dials' \in [Nodes -> 0 .. MaxDials] /\ dials'[n] = dials[n] + 1
    BY <1>1, <2>1 DEF BootInv, TypeOK
  <2>3. nodeState' \in [Nodes -> NodeStates]
    BY <1>1 DEF BootInv, TypeOK, NodeStates
  <2>4. \A k \in Nodes \ {n} : nodeState'[k] = nodeState[k] /\ dials'[k] = dials[k]
    BY <1>1 DEF BootInv, TypeOK
  <2>5. nodeState'[n] = "aborted" \/ (nodeState'[n] = "dialling" /\ dials'[n] < MaxDials)
    BY <1>1, <2>1, <2>2, NodesAssumption DEF BootInv, TypeOK
  <2> QED
    BY <2>2, <2>3, <2>4, <2>5
<1>4. \A k \in Nodes : Has(k)' <=> Has(k)
  BY <1>1, <1>3 DEF Has
<1>5. TypeOK'
  BY <1>2, <1>3 DEF BootInv, TypeOK
<1>6. ClientsOnce' /\ HellosOnce'
  BY <1>1, <1>2, <1>3, NodeSets DEF BootInv, ClientsOnce, HellosOnce, Complete
<1>7. StagesInOrder'
  BY <1>2, <1>4, NodeSets DEF BootInv, StagesInOrder, Released
<1>8. NodesInOrder' /\ SentInState'
  BY <1>1, <1>2, <1>3, <1>4
     DEF BootInv, NodesInOrder, SentInState, Configured, Complete, Released
<1>9. QueuesExpected'
  <2>1. (Configured' <=> Configured) /\ (Released' <=> Released)
    BY <1>2 DEF Configured, Complete, Released
  <2>2. \A k \in Nodes \ {n} : Expected(k)' = Expected(k)
    BY <1>2, <1>3, <2>1, ExpectedSame
  <2>3. Expected(n)' = <<>> /\ Expected(n) = <<>>
    BY <1>1, <1>3 DEF Expected
  <2> QED
    BY <1>2, <2>2, <2>3 DEF BootInv, QueuesExpected
<1> QED
  BY <1>5, <1>6, <1>7, <1>8, <1>9 DEF BootInv

LEMMA DialInv ==
  ASSUME BootInv, NEW n \in Nodes, Dial(n)
  PROVE  BootInv'
<1>1. /\ nodeState[n] = "dialling"
      /\ clients' = Append(clients, n)
      /\ nodeState' = [nodeState EXCEPT ![n] = "connected"]
      /\ UNCHANGED <<state, nodesIdsMapping, stored, nodesReady, checkConfig, dials, view,
                     toServer, toNode>>
  BY DEF Dial, Become
<1>2. n \notin Range(nodesIdsMapping) /\ n \notin Range(clients)
  BY <1>1 DEF BootInv, HellosOnce, ClientsOnce
<1>3. ~Complete /\ ~Released /\ ~Configured /\ \A k \in Nodes : ~Has(k)
  BY <1>2, EarlyStage
<1>4. /\ clients' \in Seq(Nodes) /\ Distinct(clients') /\ Len(clients') <= targetNumNodes
      /\ Range(clients') = Range(clients) \cup {n}
  BY <1>1, <1>2, AppendDistinct DEF BootInv, ClientsOnce, TypeOK
<1>5. /\ nodeState' \in [Nodes -> NodeStates] /\ nodeState'[n] = "connected"
      /\ \A k \in Nodes \ {n} : nodeState'[k] = nodeState[k]
  BY <1>1 DEF BootInv, TypeOK, NodeStates
<1>6. ~Complete' /\ ~Released' /\ ~Configured' /\ \A k \in Nodes : ~Has(k)'
  BY <1>1, <1>3, <1>5 DEF Complete, Released, Configured, Has
<1>7. TypeOK'
  BY <1>1, <1>4, <1>5 DEF BootInv, TypeOK
<1>8. ClientsOnce'
  BY <1>4, <1>5 DEF BootInv, ClientsOnce
<1>9. HellosOnce'
  BY <1>1, <1>2, <1>5, <1>6, NodeSets DEF BootInv, HellosOnce
<1>10. StagesInOrder'
  BY <1>1, <1>3, <1>6, NodeSets DEF BootInv, StagesInOrder
<1>11. NodesInOrder'
  BY <1>1, <1>3, <1>5, <1>6 DEF BootInv, NodesInOrder
<1>12. SentInState'
  BY <1>1, <1>3, <1>5 DEF BootInv, SentInState
<1>13. QueuesExpected'
  <2>1. \A k \in Nodes \ {n} : Expected(k)' = Expected(k)
    BY <1>1, <1>3, <1>5, <1>6 DEF Expected
  <2>2. Expected(n)' = <<>> /\ Expected(n) = <<>>
    BY <1>1, <1>5 DEF Expected
  <2> QED
    BY <1>1, <2>1, <2>2 DEF BootInv, QueuesExpected
<1> QED
  BY <1>7, <1>8, <1>9, <1>10, <1>11, <1>12, <1>13 DEF BootInv

\* A node that sends appends to its connection
LEMMA TellSets ==
  ASSUME TypeOK, NEW n \in Nodes, NEW msg \in {"hello", "conf", "ready"}, Tell(n, msg)
  PROVE  /\ toServer' \in [Nodes -> Seq({"hello", "conf", "ready"})]
         /\ \A k \in Nodes : \A i \in DOMAIN toServer'[k] :
              \/ i \in DOMAIN toServer[k] /\ toServer'[k][i] = toServer[k][i]
              \/ k = n /\ toServer'[k][i] = msg
<1> DEFINE M == {"hello", "conf", "ready"}
<1>1. toServer[n] \in Seq(M) /\ toServer \in [Nodes -> Seq(M)]
  BY DEF TypeOK
<1>2. /\ Append(toServer[n], msg) \in Seq(M)
      /\ \A i \in DOMAIN Append(toServer[n], msg) :
           \/ i \in DOMAIN toServer[n] /\ Append(toServer[n], msg)[i] = toServer[n][i]
           \/ Append(toServer[n], msg)[i] = msg
  BY <1>1, AppendProperties
<1>3. toServer' = [toServer EXCEPT ![n] = Append(toServer[n], msg)]
  BY DEF Tell
<1> HIDE DEF M
<1>4. toServer' \in [Nodes -> Seq(M)]
  BY <1>1, <1>2, <1>3
<1>5. \A k \in Nodes : toServer'[k] = IF k = n THEN Append(toServer[n], msg) ELSE toServer[k]
  BY <1>1, <1>3
<1> QED
  BY <1>2, <1>4, <1>5 DEF M

LEMMA HelloInv ==
  ASSUME BootInv, NEW n \in Nodes, sendHelloMsg(n)
  PROVE  BootInv'
<1>1. /\ nodeState[n] = "connected"
      /\ nodeState' = [nodeState EXCEPT ![n] = "hello_confirm"]
      /\ Tell(n, "hello")
      /\ UNCHANGED <<serverVars, dials, view, toNode>>
  BY DEF sendHelloMsg, Become
<1>2. n \notin Range(nodesIdsMapping)
  BY <1>1 DEF BootInv, HellosOnce
<1>3. ~Complete /\ ~Released /\ ~Configured /\ \A k \in Nodes : ~Has(k)
  BY <1>2, EarlyStage
<1>4. /\ state' = state /\ clients' = clients /\ nodesIdsMapping' = nodesIdsMapping
      /\ stored' = stored /\ nodesReady' = nodesReady /\ checkConfig' = checkConfig
      /\ dials' = dials /\ view' = view /\ toNode' = toNode
  BY <1>1 DEF serverVars
<1>5. /\ nodeState' \in [Nodes -> NodeStates] /\ nodeState'[n] = "hello_confirm"
      /\ \A k \in Nodes \ {n} : nodeState'[k] = nodeState[k]
  BY <1>1 DEF BootInv, TypeOK, NodeStates
<1>6. ~Complete' /\ ~Released' /\ ~Configured' /\ \A k \in Nodes : ~Has(k)'
  BY <1>3, <1>4, <1>5 DEF Complete, Released, Configured, Has
<1>7. /\ toServer' \in [Nodes -> Seq({"hello", "conf", "ready"})]
      /\ \A k \in Nodes : \A i \in DOMAIN toServer'[k] :
           \/ i \in DOMAIN toServer[k] /\ toServer'[k][i] = toServer[k][i]
           \/ k = n /\ toServer'[k][i] = "hello"
  BY <1>1, TellSets DEF BootInv
<1>8. TypeOK'
  BY <1>4, <1>5, <1>7 DEF BootInv, TypeOK
<1>9. ClientsOnce'
  BY <1>1, <1>4, <1>5 DEF BootInv, ClientsOnce
<1>10. HellosOnce' /\ StagesInOrder'
  BY <1>2, <1>3, <1>4, <1>5, <1>6, NodeSets DEF BootInv, HellosOnce, StagesInOrder
<1>11. NodesInOrder'
  BY <1>3, <1>4, <1>5, <1>6 DEF BootInv, NodesInOrder
<1>12. SentInState'
  BY <1>3, <1>5, <1>7 DEF BootInv, SentInState
<1>13. QueuesExpected'
  <2>1. \A k \in Nodes \ {n} : Expected(k)' = Expected(k)
    BY <1>3, <1>4, <1>5, <1>6, ExpectedSame
  <2>2. Expected(n)' = <<>> /\ Expected(n) = <<>>
    BY <1>1, <1>2, <1>4, <1>5 DEF Expected
  <2> QED
    BY <1>4, <2>1, <2>2 DEF BootInv, QueuesExpected
<1> QED
  BY <1>8, <1>9, <1>10, <1>11, <1>12, <1>13 DEF BootInv

\* The goroutine that reads finds what the state of the node expects
LEMMA ReadsExpected ==
  ASSUME BootInv, NEW n \in Nodes, toNode[n] # <<>>
  PROVE  /\ nodeState[n] = "hello_confirm" =>
              /\ n \in Range(nodesIdsMapping) /\ Head(toNode[n]) = HelloOk
              /\ Tail(toNode[n]) = IF Configured THEN <<Configuration(n)>> ELSE <<>>
         /\ nodeState[n] = "config" =>
              /\ Configured /\ Head(toNode[n]) = Configuration(n) /\ Tail(toNode[n]) = <<>>
         /\ nodeState[n] = "ready" => Released /\ Tail(toNode[n]) = <<>>
<1>1. toNode[n] = Expected(n)
  BY DEF BootInv, QueuesExpected
<1>2. CASE nodeState[n] = "hello_confirm"
  BY <1>1, <1>2, Queues DEF Expected
<1>3. CASE nodeState[n] = "config"
  BY <1>1, <1>3, Queues DEF Expected
<1>4. CASE nodeState[n] = "ready"
  BY <1>1, <1>4, Queues DEF Expected
<1> QED
  BY <1>2, <1>3, <1>4

\* What is common to the three messages a node can read
LEMMA ReadsSets ==
  ASSUME BootInv, NEW n \in Nodes, NodeReads(n)
  PROVE  /\ toNode[n] # <<>>
         /\ toNode' \in [Nodes -> Seq(Answer)] /\ toNode'[n] = Tail(toNode[n])
         /\ \A k \in Nodes \ {n} : toNode'[k] = toNode[k]
         /\ state' = state /\ clients' = clients /\ nodesIdsMapping' = nodesIdsMapping
         /\ stored' = stored /\ nodesReady' = nodesReady /\ checkConfig' = checkConfig
         /\ dials' = dials
         /\ Complete' <=> Complete
         /\ Configured' <=> Configured
         /\ Released' <=> Released
<1>1. toNode[n] # <<>> /\ toNode' = [toNode EXCEPT ![n] = Tail(@)]
  BY DEF NodeReads
<1>2. toNode[n] \in Seq(Answer) /\ toNode \in [Nodes -> Seq(Answer)]
  BY DEF BootInv, TypeOK
<1>3. Tail(toNode[n]) \in Seq(Answer)
  BY <1>1, <1>2, HeadTailProperties
<1>4. UNCHANGED <<serverVars, dials>>
  BY DEF NodeReads
<1> QED
  BY <1>1, <1>2, <1>3, <1>4 DEF serverVars, Complete, Configured, Released

LEMMA ReadsHelloInv ==
  ASSUME BootInv, NEW n \in Nodes, NodeReads(n), nodeState[n] = "hello_confirm"
  PROVE  BootInv' /\ UNCHANGED view /\ \A k \in Nodes : Has(k)' <=> Has(k)
<1>1. /\ n \in Range(nodesIdsMapping) /\ Head(toNode[n]) = HelloOk
      /\ Tail(toNode[n]) = IF Configured THEN <<Configuration(n)>> ELSE <<>>
  BY ReadsSets, ReadsExpected
<1>2. nodeState' = [nodeState EXCEPT ![n] = "config"] /\ UNCHANGED <<view, toServer>>
  BY <1>1 DEF NodeReads, Become, HelloOk
<1>3. /\ nodeState' \in [Nodes -> NodeStates] /\ nodeState'[n] = "config"
      /\ \A k \in Nodes \ {n} : nodeState'[k] = nodeState[k]
  BY <1>2 DEF BootInv, TypeOK, NodeStates
<1>4. \A k \in Nodes : Has(k)' <=> Has(k)
  BY <1>3 DEF Has
<1>5. TypeOK'
  BY <1>2, <1>3, ReadsSets DEF BootInv, TypeOK
<1>6. ClientsOnce' /\ HellosOnce'
  BY <1>3, ReadsSets, NodeSets DEF BootInv, ClientsOnce, HellosOnce
<1>7. StagesInOrder'
  BY <1>4, ReadsSets, NodeSets DEF BootInv, StagesInOrder
<1>8. NodesInOrder'
  BY <1>1, <1>2, <1>3, <1>4, ReadsSets DEF BootInv, NodesInOrder
<1>9. SentInState'
  BY <1>2, <1>3, <1>4 DEF BootInv, SentInState
<1>10. QueuesExpected'
  <2>1. \A k \in Nodes \ {n} : Expected(k)' = Expected(k)
    BY <1>3, ReadsSets, ExpectedSame
  <2>2. Configuration(n)' = Configuration(n)
    BY ReadsSets DEF Configuration, entryOf
  <2>3. Expected(n)' = Tail(toNode[n])
    BY <1>1, <1>3, <2>2, ReadsSets DEF Expected
  <2> QED
    BY <2>1, <2>3, ReadsSets DEF BootInv, QueuesExpected
<1> QED
  BY <1>2, <1>4, <1>5, <1>6, <1>7, <1>8, <1>9, <1>10 DEF BootInv

LEMMA ReadsConfigurationInv ==
  ASSUME BootInv, NEW n \in Nodes, NodeReads(n), nodeState[n] = "config"
  PROVE  /\ BootInv'
         /\ view' = [view EXCEPT ![n] = entryOf(n)] /\ n \in Range(clients)
         /\ nodeState' = [nodeState EXCEPT ![n] = "ready"]
<1>1. Configured /\ Head(toNode[n]) = Configuration(n) /\ Tail(toNode[n]) = <<>>
  BY ReadsSets, ReadsExpected
<1>2. /\ nodeState' = [nodeState EXCEPT ![n] = "ready"]
      /\ view' = [view EXCEPT ![n] = entryOf(n)]
      /\ Tell(n, "conf")
  BY <1>1 DEF NodeReads, Become, Configuration
<1>3. /\ nodeState' \in [Nodes -> NodeStates] /\ nodeState'[n] = "ready"
      /\ \A k \in Nodes \ {n} : nodeState'[k] = nodeState[k]
  BY <1>2 DEF BootInv, TypeOK, NodeStates
<1>4. n \in Range(clients)
  BY DEF BootInv, ClientsOnce
<1>5. entryOf(n) \in 1 .. targetNumNodes /\ entryOf(n) \in DOMAIN clients /\ clients[entryOf(n)] = n
  BY <1>4, EntryOf DEF BootInv
<1>6. /\ view' \in [Nodes -> 0 .. targetNumNodes] /\ view'[n] = entryOf(n)
      /\ \A k \in Nodes \ {n} : view'[k] = view[k]
  <2>1. entryOf(n) \in 0 .. targetNumNodes
    BY <1>5, NodeSets DEF BootInv
  <2> QED
    BY <1>2, <2>1 DEF BootInv, TypeOK
<1>7. Has(n)' /\ ~Has(n) /\ \A k \in Nodes \ {n} : Has(k)' <=> Has(k)
  BY <1>3 DEF Has
<1>8. /\ toServer' \in [Nodes -> Seq({"hello", "conf", "ready"})]
      /\ \A k \in Nodes : \A i \in DOMAIN toServer'[k] :
           \/ i \in DOMAIN toServer[k] /\ toServer'[k][i] = toServer[k][i]
           \/ k = n /\ toServer'[k][i] = "conf"
  BY <1>2, TellSets DEF BootInv
<1>9. ~Released
  BY <1>7 DEF BootInv, StagesInOrder
<1>10. TypeOK'
  BY <1>3, <1>6, <1>8, ReadsSets DEF BootInv, TypeOK
<1>11. ClientsOnce' /\ HellosOnce'
  BY <1>3, ReadsSets, NodeSets DEF BootInv, ClientsOnce, HellosOnce
<1>12. StagesInOrder'
  BY <1>7, ReadsSets, NodeSets DEF BootInv, StagesInOrder
<1>13. NodesInOrder'
  BY <1>1, <1>3, <1>5, <1>6, <1>7, ReadsSets DEF BootInv, NodesInOrder
<1>14. SentInState'
  BY <1>3, <1>7, <1>8 DEF BootInv, SentInState
<1>15. QueuesExpected'
  <2>1. \A k \in Nodes \ {n} : Expected(k)' = Expected(k)
    BY <1>3, ReadsSets, ExpectedSame
  <2>2. Expected(n)' = <<>>
    BY <1>3, <1>9, ReadsSets DEF Expected
  <2> QED
    BY <1>1, <2>1, <2>2, ReadsSets DEF BootInv, QueuesExpected
<1> QED
  BY <1>2, <1>4, <1>10, <1>11, <1>12, <1>13, <1>14, <1>15 DEF BootInv

LEMMA ReadsReadyInv ==
  ASSUME BootInv, NEW n \in Nodes, NodeReads(n), nodeState[n] = "ready"
  PROVE  /\ BootInv' /\ UNCHANGED view /\ Released
         /\ nodeState' = [nodeState EXCEPT ![n] = "finish"]
<1>1. Released /\ Tail(toNode[n]) = <<>>
  BY ReadsSets, ReadsExpected
<1>2. nodeState' = [nodeState EXCEPT ![n] = "finish"] /\ Tell(n, "ready") /\ UNCHANGED view
  BY DEF NodeReads, Become
<1>3. /\ nodeState' \in [Nodes -> NodeStates] /\ nodeState'[n] = "finish"
      /\ \A k \in Nodes \ {n} : nodeState'[k] = nodeState[k]
  BY <1>2 DEF BootInv, TypeOK, NodeStates
<1>4. \A k \in Nodes : Has(k)' <=> Has(k)
  BY <1>3 DEF Has
<1>5. /\ toServer' \in [Nodes -> Seq({"hello", "conf", "ready"})]
      /\ \A k \in Nodes : \A i \in DOMAIN toServer'[k] :
           \/ i \in DOMAIN toServer[k] /\ toServer'[k][i] = toServer[k][i]
           \/ k = n /\ toServer'[k][i] = "ready"
  BY <1>2, TellSets DEF BootInv
<1>6. TypeOK'
  BY <1>2, <1>3, <1>5, ReadsSets DEF BootInv, TypeOK
<1>7. ClientsOnce' /\ HellosOnce'
  BY <1>3, ReadsSets, NodeSets DEF BootInv, ClientsOnce, HellosOnce
<1>8. StagesInOrder'
  BY <1>4, ReadsSets, NodeSets DEF BootInv, StagesInOrder
<1>9. NodesInOrder'
  BY <1>1, <1>2, <1>3, <1>4, ReadsSets DEF BootInv, NodesInOrder
<1>10. SentInState'
  BY <1>3, <1>4, <1>5 DEF BootInv, SentInState
<1>11. QueuesExpected'
  <2>1. \A k \in Nodes \ {n} : Expected(k)' = Expected(k)
    BY <1>3, ReadsSets, ExpectedSame
  <2>2. Expected(n)' = <<>>
    BY <1>3 DEF Expected
  <2> QED
    BY <1>1, <2>1, <2>2, ReadsSets DEF BootInv, QueuesExpected
<1> QED
  BY <1>1, <1>2, <1>6, <1>7, <1>8, <1>9, <1>10, <1>11 DEF BootInv

-----------------------------------------------------------------------------
(* The steps of the server *)

LEMMA ListeningInv ==
  ASSUME BootInv, Listening
  PROVE  BootInv'
<1>1. /\ state = "BOOTING" /\ state' = "RECEIVE_HELLO"
      /\ UNCHANGED <<clients, nodesIdsMapping, stored, nodesReady, checkConfig, nodeState, dials,
                     view, toServer, toNode>>
  BY DEF Listening, nodeVars
<1>2. ~Complete /\ ~Complete' /\ ~Released /\ ~Released' /\ ~Configured /\ ~Configured'
  BY <1>1 DEF Complete, Released, Configured
<1>3. \A k : Has(k)' <=> Has(k)
  BY <1>1 DEF Has
<1>4. ~checkConfig
  BY <1>1 DEF BootInv, StagesInOrder
<1>5. TypeOK'
  BY <1>1 DEF BootInv, TypeOK, ServerStates
<1>6. ClientsOnce' /\ HellosOnce' /\ StagesInOrder'
  BY <1>1, <1>2, <1>3, <1>4 DEF BootInv, ClientsOnce, HellosOnce, StagesInOrder
<1>7. NodesInOrder' /\ SentInState'
  BY <1>1, <1>2, <1>3 DEF BootInv, NodesInOrder, SentInState
<1>8. QueuesExpected'
  <2>1. \A k \in Nodes : Expected(k)' = Expected(k)
    BY <1>1, <1>2, ExpectedSame
  <2> QED
    BY <1>1, <2>1 DEF BootInv, QueuesExpected
<1> QED
  BY <1>5, <1>6, <1>7, <1>8 DEF BootInv

\* Reading takes the first message of a node from its connection
LEMMA ReadSets ==
  ASSUME TypeOK, SentInState, NEW n \in Nodes, NEW s, Read(n, s), UNCHANGED nodeState
  PROVE  /\ toServer' \in [Nodes -> Seq({"hello", "conf", "ready"})]
         /\ SentInState'
         /\ Head(toServer[n]) = "hello" => nodeState[n] \notin {"dialling", "connected", "aborted"}
         /\ Head(toServer[n]) = "conf" => Has(n)
<1> DEFINE M == {"hello", "conf", "ready"}
<1>1. /\ toServer \in [Nodes -> Seq(M)] /\ toServer[n] \in Seq(M) /\ toServer[n] # <<>>
      /\ toServer' = [toServer EXCEPT ![n] = Tail(@)]
  BY DEF Read, TypeOK
<1>2. /\ Tail(toServer[n]) \in Seq(M)
      /\ \A i \in DOMAIN Tail(toServer[n]) : i + 1 \in DOMAIN toServer[n]
                                           /\ Tail(toServer[n])[i] = toServer[n][i + 1]
  BY <1>1, HeadTailProperties
<1>3. 1 \in DOMAIN toServer[n] /\ Head(toServer[n]) = toServer[n][1]
  BY <1>1
<1> HIDE DEF M
<1>4. toServer' \in [Nodes -> Seq(M)]
  BY <1>1, <1>2
<1>5. \A k \in Nodes : toServer'[k] = IF k = n THEN Tail(toServer[n]) ELSE toServer[k]
  BY <1>1
<1>6. SentInState'
  BY <1>2, <1>5 DEF SentInState, Has
<1> QED
  BY <1>3, <1>4, <1>6 DEF SentInState, M

LEMMA ReceiveHelloInv ==
  ASSUME BootInv, NEW n \in Nodes, ReceiveHello(n)
  PROVE  BootInv'
<1>1. /\ Read(n, "RECEIVE_HELLO") /\ state = "RECEIVE_HELLO"
      /\ \/ state' = "SEND_CONF" /\ checkConfig' = TRUE /\ Len(nodesIdsMapping') = targetNumNodes
         \/ UNCHANGED <<state, checkConfig>>
      /\ UNCHANGED <<clients, stored, nodesReady, nodeState, dials, view>>
  BY DEF ReceiveHello, Read, AllKnown, nodeVars
<1>2. /\ toServer' \in [Nodes -> Seq({"hello", "conf", "ready"})] /\ SentInState'
      /\ Head(toServer[n]) = "hello" => nodeState[n] \notin {"dialling", "connected", "aborted"}
  BY <1>1, ReadSets DEF BootInv
<1>3. ~Complete /\ ~Released /\ ~Configured /\ \A k \in Nodes : ~Has(k)
  BY <1>1 DEF Complete, Released, Configured, BootInv, NodesInOrder
<1>4. ~Released' /\ ~Configured' /\ ~checkConfig /\ \A k \in Nodes : ~Has(k)'
  BY <1>1, <1>3 DEF Complete, Released, Configured, Has, BootInv, StagesInOrder
<1>5. /\ nodesIdsMapping' \in Seq(Nodes) /\ Distinct(nodesIdsMapping')
      /\ Len(nodesIdsMapping') <= targetNumNodes
      /\ \/ UNCHANGED <<nodesIdsMapping, toNode>>
         \/ /\ nodeState[n] = "hello_confirm" /\ n \notin Range(nodesIdsMapping)
            /\ Range(nodesIdsMapping') = Range(nodesIdsMapping) \cup {n}
            /\ toNode' = [toNode EXCEPT ![n] = Append(@, HelloOk)]
  <2>1. CASE Head(toServer[n]) = "hello" /\ n \notin Range(nodesIdsMapping)
    <3>1. /\ nodesIdsMapping' = Append(nodesIdsMapping, n)
          /\ toNode' = [toNode EXCEPT ![n] = Append(@, HelloOk)]
      BY <2>1 DEF ReceiveHello
    <3>2. nodeState[n] = "hello_confirm"
      BY <1>2, <1>3, <2>1 DEF BootInv, TypeOK, NodeStates, NodesInOrder, Has
    <3> QED
      BY <2>1, <3>1, <3>2, AppendDistinct DEF BootInv, HellosOnce, TypeOK
  <2>2. CASE ~(Head(toServer[n]) = "hello" /\ n \notin Range(nodesIdsMapping))
    BY <2>2 DEF ReceiveHello, BootInv, TypeOK, HellosOnce
  <2> QED
    BY <2>1, <2>2
<1>6. HelloOk \in Answer
  BY DEF HelloOk, Answer
<1>7. toNode' \in [Nodes -> Seq(Answer)]
  <2>1. toNode \in [Nodes -> Seq(Answer)] /\ Append(toNode[n], HelloOk) \in Seq(Answer)
    BY <1>6, AppendProperties DEF BootInv, TypeOK
  <2> QED
    BY <1>5, <2>1
<1>8. stored = {} /\ nodesReady = {}
  BY <1>3, NodeSets DEF BootInv, StagesInOrder, TypeOK
<1>9. TypeOK'
  <2>1. state' \in ServerStates /\ checkConfig' \in BOOLEAN
    BY <1>1 DEF BootInv, TypeOK, ServerStates
  <2> QED
    BY <1>1, <1>2, <1>5, <1>7, <1>8, <2>1 DEF BootInv, TypeOK
<1>10. ClientsOnce'
  BY <1>1 DEF BootInv, ClientsOnce
<1>11. HellosOnce'
  <2>1. Complete' => Len(nodesIdsMapping') = targetNumNodes
    BY <1>1, <1>3 DEF Complete
  <2>2. Complete' => Range(nodesIdsMapping') = Nodes
    BY <1>5, <2>1, DistinctBounded
  <2> QED
    BY <1>1, <1>5, <2>2 DEF BootInv, HellosOnce
<1>12. StagesInOrder'
  BY <1>1, <1>4, <1>8 DEF StagesInOrder
<1>13. NodesInOrder'
  BY <1>1, <1>3, <1>4, <1>5 DEF BootInv, NodesInOrder
<1>14. QueuesExpected'
  <2>1. \A k \in Nodes : k # n \/ (n \in Range(nodesIdsMapping') <=> n \in Range(nodesIdsMapping))
          => Expected(k)' = Expected(k)
    BY <1>1, <1>3, <1>4, <1>5, ExpectedSame
  <2>2. CASE UNCHANGED <<nodesIdsMapping, toNode>>
    BY <2>1, <2>2 DEF BootInv, QueuesExpected
  <2>3. CASE ~UNCHANGED <<nodesIdsMapping, toNode>>
    <3>1. Expected(n) = <<>> /\ Expected(n)' = <<HelloOk>>
      BY <1>1, <1>4, <1>5, <2>3 DEF Expected
    <3>2. toNode[n] = <<>>
      BY <3>1 DEF BootInv, QueuesExpected
    <3>3. toNode'[n] = <<HelloOk>> /\ \A k \in Nodes \ {n} : toNode'[k] = toNode[k]
      BY <1>5, <2>3, <3>2, Queues DEF BootInv, TypeOK
    <3> QED
      BY <2>1, <3>1, <3>3 DEF BootInv, QueuesExpected
  <2> QED
    BY <2>2, <2>3
<1> QED
  BY <1>2, <1>9, <1>10, <1>11, <1>12, <1>13, <1>14 DEF BootInv

LEMMA sendConfigurationsInv ==
  ASSUME BootInv, sendConfigurations
  PROVE  BootInv'
<1>1. /\ checkConfig /\ checkConfig' = FALSE
      /\ toNode' = [n \in Nodes |-> IF n \in Range(clients)
                                    THEN Append(toNode[n], Configuration(n)) ELSE toNode[n]]
      /\ UNCHANGED <<state, clients, nodesIdsMapping, stored, nodesReady, nodeState, dials,
                     view, toServer>>
  BY DEF sendConfigurations, nodeVars
<1>2. state = "SEND_CONF"
  BY <1>1 DEF BootInv, StagesInOrder
<1>3. Complete /\ Complete' /\ ~Configured /\ Configured' /\ ~Released /\ ~Released'
  BY <1>1, <1>2 DEF Complete, Configured, Released
<1>4. \A k \in Nodes : ~Has(k) /\ ~Has(k)'
  BY <1>1, <1>3 DEF BootInv, NodesInOrder, Has
<1>5. \A k \in Nodes : /\ k \in Range(nodesIdsMapping)
                       /\ nodeState[k] \in {"hello_confirm", "config"}
                       /\ k \in Range(clients)
  BY <1>3, <1>4 DEF BootInv, HellosOnce, ClientsOnce, TypeOK, NodeStates, Has
<1>6. \A k \in Nodes : toNode'[k] = Append(toNode[k], Configuration(k))
  BY <1>1, <1>5
<1>7. toNode' \in [Nodes -> Seq(Answer)]
  <2>1. \A k \in Nodes : Append(toNode[k], Configuration(k)) \in Seq(Answer)
    BY <1>5, EntryOf, AppendProperties DEF BootInv, TypeOK
  <2> QED
    BY <1>1, <1>6, <2>1
<1>8. TypeOK'
  BY <1>1, <1>7 DEF BootInv, TypeOK
<1>9. ClientsOnce' /\ HellosOnce' /\ StagesInOrder'
  BY <1>1, <1>3, <1>4, NodeSets DEF BootInv, ClientsOnce, HellosOnce, StagesInOrder
<1>10. NodesInOrder' /\ SentInState'
  BY <1>1, <1>3, <1>4 DEF BootInv, NodesInOrder, SentInState
<1>11. QueuesExpected'
  <2> SUFFICES ASSUME NEW k \in Nodes PROVE toNode'[k] = Expected(k)'
    BY DEF QueuesExpected
  <2>1. Configuration(k)' = Configuration(k)
    BY <1>1 DEF Configuration, entryOf
  <2>2. toNode[k] = Expected(k)
    BY DEF BootInv, QueuesExpected
  <2>3. CASE nodeState[k] = "hello_confirm"
    <3>1. toNode[k] = <<HelloOk>>
      BY <1>3, <1>5, <2>2, <2>3 DEF Expected
    <3>2. Expected(k)' = <<HelloOk, Configuration(k)>>
      BY <1>1, <1>3, <1>5, <2>1, <2>3 DEF Expected
    <3> QED
      BY <1>6, <3>1, <3>2, Queues
  <2>4. CASE nodeState[k] = "config"
    <3>1. toNode[k] = <<>>
      BY <1>3, <2>2, <2>4 DEF Expected
    <3>2. Expected(k)' = <<Configuration(k)>>
      BY <1>1, <1>3, <2>1, <2>4 DEF Expected
    <3> QED
      BY <1>6, <3>1, <3>2, Queues
  <2> QED
    BY <1>5, <2>3, <2>4
<1> QED
  BY <1>8, <1>9, <1>10, <1>11 DEF BootInv

LEMMA ReceiveConfInv ==
  ASSUME BootInv, NEW n \in Nodes, ReceiveConf(n)
  PROVE  BootInv'
<1>1. /\ Read(n, "SEND_CONF") /\ state = "SEND_CONF"
      /\ UNCHANGED <<clients, nodesIdsMapping, nodesReady, checkConfig, nodeState, dials, view>>
      /\ \/ AllStored(stored') /\ state' = "SEND_RDY"
            /\ toNode' = [m \in Nodes |-> IF m \in Range(clients)
                                          THEN Append(toNode[m], SendReady) ELSE toNode[m]]
         \/ UNCHANGED <<state, toNode>>
  BY DEF ReceiveConf, Read, nodeVars
<1>2. /\ toServer' \in [Nodes -> Seq({"hello", "conf", "ready"})] /\ SentInState'
      /\ Head(toServer[n]) = "conf" => Has(n)
  BY <1>1, ReadSets DEF BootInv
<1>3. \A k : Has(k)' <=> Has(k)
  BY <1>1 DEF Has
<1>4. /\ stored \subseteq stored' /\ stored' \subseteq Range(nodesIdsMapping)
      /\ \A k \in stored' : Has(k)
  BY <1>2 DEF ReceiveConf, BootInv, TypeOK, StagesInOrder
<1>5. Complete /\ Complete' /\ ~Released /\ (Configured' <=> Configured)
  BY <1>1 DEF Complete, Configured, Released
<1>6. Released' <=> state' = "SEND_RDY"
  BY <1>1 DEF Released
<1>7. Released' => stored' = Nodes
  <2>1. stored' \in SUBSET Nodes
    BY <1>4, NodeSets DEF BootInv
  <2>2. AllStored(stored') => stored' = Nodes
    BY <2>1, NodesAssumption, FS_Subset DEF AllStored, targetNumNodes
  <2> QED
    BY <1>1, <1>6, <2>2
<1>8. \A k \in Nodes : nodeState[k] # "finish"
  BY <1>5 DEF BootInv, NodesInOrder
<1>9. Released' => \A k \in Nodes : k \in Range(clients) /\ nodeState[k] = "ready"
  BY <1>4, <1>7, <1>8 DEF Has, BootInv, ClientsOnce
<1>10. toNode' \in [Nodes -> Seq(Answer)]
  <2>1. \A k \in Nodes : toNode[k] \in Seq(Answer) /\ Append(toNode[k], SendReady) \in Seq(Answer)
    BY AppendProperties DEF BootInv, TypeOK, SendReady, Answer
  <2> QED
    BY <1>1, <2>1 DEF BootInv, TypeOK
<1>11. TypeOK'
  <2>1. state' \in ServerStates
    BY <1>1 DEF BootInv, TypeOK, ServerStates
  <2> QED
    BY <1>1, <1>2, <1>4, <1>10, <2>1 DEF BootInv, TypeOK
<1>12. ClientsOnce' /\ HellosOnce'
  BY <1>1, <1>5 DEF BootInv, ClientsOnce, HellosOnce
<1>13. StagesInOrder'
  <2>1. checkConfig => ~Released'
    <3>1. Released' => Has(n)
      BY <1>4, <1>7
    <3>2. Has(n) => ~checkConfig
      BY DEF BootInv, NodesInOrder, Configured
    <3> QED
      BY <3>1, <3>2
  <2> QED
    BY <1>1, <1>3, <1>4, <1>6, <1>7, <2>1 DEF BootInv, StagesInOrder
<1>14. NodesInOrder'
  BY <1>1, <1>3, <1>5, <1>8 DEF BootInv, NodesInOrder
<1>15. QueuesExpected'
  <2> SUFFICES ASSUME NEW k \in Nodes PROVE toNode'[k] = Expected(k)'
    BY DEF QueuesExpected
  <2>1. toNode[k] = Expected(k)
    BY DEF BootInv, QueuesExpected
  <2>2. CASE Released'
    <3>1. toNode[k] = <<>> /\ Expected(k)' = <<SendReady>>
      BY <1>1, <1>5, <1>9, <2>1, <2>2 DEF Expected
    <3>2. toNode'[k] = Append(toNode[k], SendReady)
      BY <1>1, <1>6, <1>9, <2>2
    <3> QED
      BY <3>1, <3>2, Queues
  <2>3. CASE ~Released'
    BY <1>1, <1>5, <1>6, <2>1, <2>3, ExpectedSame
  <2> QED
    BY <2>2, <2>3
<1> QED
  BY <1>2, <1>11, <1>12, <1>13, <1>14, <1>15 DEF BootInv

LEMMA ReceiveReadyInv ==
  ASSUME BootInv, NEW n \in Nodes, ReceiveReady(n)
  PROVE  BootInv'
<1>1. /\ Read(n, "SEND_RDY") /\ state = "SEND_RDY" /\ state' \in {"SEND_RDY", "FINISH"}
      /\ nodesReady' \subseteq nodesReady \cup {n}
      /\ UNCHANGED <<clients, nodesIdsMapping, stored, checkConfig, nodeState, dials, view, toNode>>
  BY DEF ReceiveReady, Read, nodeVars
<1>2. toServer' \in [Nodes -> Seq({"hello", "conf", "ready"})] /\ SentInState'
  BY <1>1, ReadSets DEF BootInv
<1>3. \A k : Has(k)' <=> Has(k)
  BY <1>1 DEF Has
<1>4. Complete /\ Complete' /\ Released /\ Released' /\ (Configured' <=> Configured)
  BY <1>1 DEF Complete, Configured, Released
<1>5. stored = Nodes /\ ~checkConfig
  BY <1>1, <1>4 DEF BootInv, StagesInOrder
<1>6. TypeOK'
  <2>1. state' \in ServerStates /\ nodesReady' \subseteq stored
    BY <1>1, <1>5 DEF BootInv, TypeOK, ServerStates
  <2> QED
    BY <1>1, <1>2, <2>1 DEF BootInv, TypeOK
<1>7. ClientsOnce' /\ HellosOnce' /\ StagesInOrder'
  BY <1>1, <1>3, <1>4, <1>5 DEF BootInv, ClientsOnce, HellosOnce, StagesInOrder
<1>8. NodesInOrder'
  BY <1>1, <1>3, <1>4 DEF BootInv, NodesInOrder
<1>9. QueuesExpected'
  <2>1. \A k \in Nodes : Expected(k)' = Expected(k)
    BY <1>1, <1>4, ExpectedSame
  <2> QED
    BY <1>1, <2>1 DEF BootInv, QueuesExpected
<1> QED
  BY <1>2, <1>6, <1>7, <1>8, <1>9 DEF BootInv

-----------------------------------------------------------------------------
(* The theorems *)

LEMMA NodeReadsInv ==
  ASSUME BootInv, NEW n \in Nodes, NodeReads(n)
  PROVE  BootInv'
BY ReadsHelloInv, ReadsConfigurationInv, ReadsReadyInv DEF NodeReads

LEMMA UnchangedInv == BootInv /\ UNCHANGED vars => BootInv'
<1> SUFFICES ASSUME BootInv, UNCHANGED vars PROVE BootInv'
  OBVIOUS
<1>1. UNCHANGED <<state, clients, nodesIdsMapping, stored, nodesReady, checkConfig, nodeState,
                  dials, view, toServer, toNode>>
  BY DEF vars, serverVars, nodeVars
<1>2. /\ Complete' <=> Complete
      /\ Configured' <=> Configured
      /\ Released' <=> Released
      /\ \A k : Has(k)' <=> Has(k)
  BY <1>1 DEF Complete, Configured, Released, Has
<1>3. \A k \in Nodes : Expected(k)' = Expected(k)
  BY <1>1, <1>2, ExpectedSame
<1> QED
  BY <1>1, <1>2, <1>3
     DEF BootInv, TypeOK, ClientsOnce, HellosOnce, StagesInOrder, NodesInOrder, SentInState,
         QueuesExpected

LEMMA BootStep == BootInv /\ [Next]_vars => BootInv'
BY ListeningInv, sendConfigurationsInv, DialFailsInv, DialInv, HelloInv, NodeReadsInv,
   ReceiveHelloInv, ReceiveConfInv, ReceiveReadyInv, UnchangedInv
   DEF Next

LEMMA BootHolds == Spec => []BootInv
BY BootInit, BootStep, PTL DEF Spec

(***************************************************************************)
(* The state of the bootstrap server and of its clients is well formed.    *)
(***************************************************************************)
THEOREM TypeCorrect == Spec => []TypeOK
<1>1. BootInv => TypeOK
  BY DEF BootInv
<1> QED
  BY <1>1, BootHolds, PTL

-----------------------------------------------------------------------------
(* The bootstrap is a barrier *)

\* A node arrives when it reads its configuration
LEMMA ConfigurationArrives ==
  ASSUME BootInv, NEW n \in Nodes, NodeReads(n), nodeState[n] = "config"
  PROVE  BarrierSpec!Arrive(n)
<1>1. /\ view' = [view EXCEPT ![n] = entryOf(n)] /\ n \in Range(clients)
      /\ nodeState' = [nodeState EXCEPT ![n] = "ready"]
  BY ReadsConfigurationInv
<1>2. view[n] = 0
  BY DEF BootInv, NodesInOrder, Has
<1>3. entryOf(n) \in 1 .. targetNumNodes
  BY <1>1, EntryOf DEF BootInv
<1>4. \A m \in Nodes : view[m] # entryOf(n)
  <2> SUFFICES ASSUME NEW m \in Nodes PROVE view[m] # entryOf(n)
    OBVIOUS
  <2>1. CASE Has(m)
    <3>1. m # n
      BY <2>1 DEF Has
    <3> QED
      BY <1>1, <2>1, <3>1, EntriesDiffer
  <2>2. CASE ~Has(m)
    BY <1>3, <2>2 DEF BootInv, NodesInOrder
  <2> QED
    BY <2>1, <2>2
<1>5. {m \in Nodes : nodeState'[m] = "finish"} = {m \in Nodes : nodeState[m] = "finish"}
  BY <1>1 DEF BootInv, TypeOK
<1>6. entryOf(n) \in (1 .. targetNumNodes) \ {view[m] : m \in Nodes}
  BY <1>3, <1>4
<1> QED
  BY <1>1, <1>2, <1>5, <1>6 DEF BarrierSpec!Arrive

\* A node passes when it reads that all are ready
LEMMA ReadyPasses ==
  ASSUME BootInv, NEW n \in Nodes, NodeReads(n), nodeState[n] = "ready"
  PROVE  BarrierSpec!Pass(n)
<1>1. UNCHANGED view /\ Released /\ nodeState' = [nodeState EXCEPT ![n] = "finish"]
  BY ReadsReadyInv
<1>2. \A m \in Nodes : view[m] # 0
  <2> SUFFICES ASSUME NEW m \in Nodes PROVE view[m] # 0
    OBVIOUS
  <2>1. view[m] \in DOMAIN clients
    BY <1>1 DEF BootInv, StagesInOrder, NodesInOrder
  <2> QED
    BY <2>1 DEF BootInv, TypeOK
<1>3. {m \in Nodes : nodeState'[m] = "finish"} = {m \in Nodes : nodeState[m] = "finish"} \cup {n}
  BY <1>1 DEF BootInv, TypeOK
<1> QED
  BY <1>1, <1>2, <1>3 DEF BarrierSpec!Pass

\* Every other step leaves the views and the nodes in P2P mode as they are
LEMMA OtherStutters ==
  ASSUME BootInv, UNCHANGED view,
         \A k \in Nodes : nodeState'[k] = "finish" <=> nodeState[k] = "finish"
  PROVE  UNCHANGED BarrierSpec!barrierVars
<1>1. {m \in Nodes : nodeState'[m] = "finish"} = {m \in Nodes : nodeState[m] = "finish"}
  OBVIOUS
<1> QED
  BY <1>1 DEF BarrierSpec!barrierVars

LEMMA NodeStutters ==
  ASSUME BootInv, NEW n \in Nodes,
         \/ DialFails(n) \/ Dial(n) \/ sendHelloMsg(n)
         \/ NodeReads(n) /\ nodeState[n] = "hello_confirm"
  PROVE  UNCHANGED BarrierSpec!barrierVars
<1>1. CASE NodeReads(n) /\ nodeState[n] = "hello_confirm"
  <2>1. UNCHANGED view /\ nodeState' \in {[nodeState EXCEPT ![n] = "config"], nodeState}
    BY <1>1, ReadsHelloInv DEF NodeReads, Become
  <2> QED
    BY <1>1, <2>1, OtherStutters DEF BootInv, TypeOK
<1>2. CASE DialFails(n) \/ Dial(n) \/ sendHelloMsg(n)
  <2>1. UNCHANGED view /\ nodeState[n] \in {"dialling", "connected"}
    BY <1>2 DEF DialFails, Dial, sendHelloMsg
  <2>2. \E s \in {"aborted", "connected", "hello_confirm", nodeState[n]} :
          nodeState' = [nodeState EXCEPT ![n] = s]
    BY <1>2 DEF DialFails, Dial, sendHelloMsg, Become, BootInv, TypeOK
  <2> QED
    BY <2>1, <2>2, OtherStutters DEF BootInv, TypeOK
<1> QED
  BY <1>1, <1>2

LEMMA ServerStutters ==
  ASSUME BootInv,
         \/ Listening \/ sendConfigurations \/ UNCHANGED vars
         \/ \E n \in Nodes : ReceiveHello(n) \/ ReceiveConf(n) \/ ReceiveReady(n)
  PROVE  UNCHANGED BarrierSpec!barrierVars
<1>1. UNCHANGED <<nodeState, view>>
  BY DEF Listening, sendConfigurations, vars, ReceiveHello, ReceiveConf, ReceiveReady, nodeVars
<1> QED
  BY <1>1, OtherStutters

LEMMA BarrierStep == BootInv /\ [Next]_vars => [BarrierSpec!Next]_BarrierSpec!barrierVars
<1> SUFFICES ASSUME BootInv, [Next]_vars PROVE [BarrierSpec!Next]_BarrierSpec!barrierVars
  OBVIOUS
<1>1. CASE \E n \in Nodes : NodeReads(n)
  <2>1. PICK n \in Nodes : NodeReads(n)
    BY <1>1
  <2>2. nodeState[n] \in {"hello_confirm", "config", "ready"}
    BY <2>1 DEF NodeReads
  <2> QED
    BY <2>1, <2>2, NodeStutters, ConfigurationArrives, ReadyPasses DEF BarrierSpec!Next
<1>2. CASE \E n \in Nodes : DialFails(n) \/ Dial(n) \/ sendHelloMsg(n)
  BY <1>2, NodeStutters
<1>3. CASE \/ Listening \/ sendConfigurations \/ UNCHANGED vars
           \/ \E n \in Nodes : ReceiveHello(n) \/ ReceiveConf(n) \/ ReceiveReady(n)
  BY <1>3, ServerStutters
<1> QED
  BY <1>1, <1>2, <1>3 DEF Next

LEMMA BarrierInit == Init => BarrierSpec!Init
BY DEF Init, BarrierSpec!Init

(***************************************************************************)
(* The bootstrap implements the barrier: a node arrives with the step in   *)
(* which it reads its configuration and passes with the one in which it    *)
(* reads that all are ready; nothing else the nodes and the server do is   *)
(* visible.                                                                *)
(***************************************************************************)
THEOREM BootstrapIsBarrier == Spec => ImplementsBarrier
BY BarrierInit, BarrierStep, BootHolds, PTL DEF Spec, ImplementsBarrier, BarrierSpec!Spec

-----------------------------------------------------------------------------
(* The bootstrap comes to an end *)

\* What a node has sent and the server has still to read, exactly
Sent(n) ==
  IF nodeState[n] = "hello_confirm" /\ n \notin Range(nodesIdsMapping) THEN <<"hello">>
  ELSE IF nodeState[n] = "ready" /\ n \notin stored THEN <<"conf">>
  ELSE IF nodeState[n] = "finish" /\ n \notin nodesReady THEN <<"ready">>
  ELSE <<>>

NothingLost == \A n \in Nodes : toServer[n] = Sent(n)

\* The server leaves a state as soon as the last node it waits for is there
CountsKept ==
  /\ state \in {"BOOTING", "RECEIVE_HELLO"} => Range(nodesIdsMapping) # Nodes
  /\ state = "SEND_CONF" => stored # Nodes
  /\ state = "SEND_RDY" => nodesReady # Nodes
  /\ state = "FINISH" => nodesReady = Nodes
  /\ \A n \in nodesReady : nodeState[n] = "finish"

EndInv == BootInv /\ NothingLost /\ CountsKept

\* The guards of Next: the server has something to do, or a node, or the server for a node
SomebodyActs ==
  \/ state = "BOOTING" \/ checkConfig
  \/ \E n \in Nodes :
       \/ nodeState[n] \in {"dialling", "connected"}
       \/ toNode[n] # <<>> /\ nodeState[n] \in {"hello_confirm", "config", "ready"}
       \/ toServer[n] # <<>> /\ state \in {"RECEIVE_HELLO", "SEND_CONF", "SEND_RDY"}

EverybodyFinished == state = "FINISH" /\ \A n \in Nodes : nodeState[n] = "finish"

NobodyStuck == EverybodyFinished \/ (\E n \in Nodes : nodeState[n] = "aborted") \/ SomebodyActs

\* The steps a node has taken, those of the server for it included
Rank == [dialling |-> 0, aborted |-> 0, connected |-> 1, hello_confirm |-> 2, config |-> 3,
         ready |-> 4, finish |-> 5]

One(cond) == IF cond THEN 1 ELSE 0

StepsOf(n) == dials[n] + Rank[nodeState[n]] + One(n \in Range(nodesIdsMapping))
                + One(n \in stored) + One(n \in nodesReady)

\* Listening, and sending the configurations
ServerSteps == One(state # "BOOTING") + One(Configured)

\* Each step is one of those that a node or the server has to take
OneStepOn ==
  \/ ServerSteps' = ServerSteps + 1 /\ \A k \in Nodes : StepsOf(k)' = StepsOf(k)
  \/ /\ ServerSteps' = ServerSteps
     /\ \E n \in Nodes : /\ StepsOf(n)' = StepsOf(n) + 1
                         /\ \A k \in Nodes \ {n} : StepsOf(k)' = StepsOf(k)

StepsBounded == ServerSteps \in 0 .. 2 /\ \A n \in Nodes : StepsOf(n) \in 0 .. MaxDials + 8

LEMMA RankType == Rank \in [NodeStates -> 0 .. 5]
BY DEF Rank, NodeStates

LEMMA StepTypes ==
  ASSUME TypeOK, NEW n \in Nodes
  PROVE  /\ dials[n] \in Nat /\ Rank[nodeState[n]] \in 0 .. 5
         /\ dials[n] <= MaxDials
BY RankType, NodesAssumption DEF TypeOK

LEMMA SentSame ==
  ASSUME NEW k \in Nodes, nodeState'[k] = nodeState[k],
         k \in Range(nodesIdsMapping') <=> k \in Range(nodesIdsMapping),
         k \in stored' <=> k \in stored, k \in nodesReady' <=> k \in nodesReady
  PROVE  Sent(k)' = Sent(k)
BY DEF Sent

LEMMA StepsSame ==
  ASSUME NEW k \in Nodes, nodeState'[k] = nodeState[k], dials'[k] = dials[k],
         k \in Range(nodesIdsMapping') <=> k \in Range(nodesIdsMapping),
         k \in stored' <=> k \in stored, k \in nodesReady' <=> k \in nodesReady
  PROVE  StepsOf(k)' = StepsOf(k)
BY DEF StepsOf, One

\* A step of a node only
LEMMA NodeStepEnd ==
  ASSUME EndInv, NEW n \in Nodes,
         UNCHANGED <<state, nodesIdsMapping, stored, nodesReady, checkConfig>>,
         \A k \in Nodes \ {n} : /\ nodeState'[k] = nodeState[k] /\ dials'[k] = dials[k]
                                /\ toServer'[k] = toServer[k],
         nodeState[n] # "finish", toServer'[n] = Sent(n)',
         nodeState'[n] \in NodeStates, dials'[n] \in Nat,
         dials'[n] + Rank[nodeState'[n]] = dials[n] + Rank[nodeState[n]] + 1
  PROVE  NothingLost' /\ CountsKept' /\ OneStepOn
<1>1. n \notin nodesReady
  BY DEF EndInv, CountsKept
<1>2. \A k \in Nodes \ {n} : Sent(k)' = Sent(k) /\ StepsOf(k)' = StepsOf(k)
  BY SentSame, StepsSame
<1>3. NothingLost'
  BY <1>2 DEF EndInv, NothingLost
<1>4. CountsKept'
  <2>1. \A k \in nodesReady : k \in Nodes /\ k # n
    BY <1>1, NodeSets DEF EndInv, BootInv, TypeOK
  <2> QED
    BY <2>1 DEF EndInv, CountsKept
<1>5. ServerSteps' = ServerSteps
  BY DEF ServerSteps, Configured, Complete, One
<1>6. StepsOf(n)' = StepsOf(n) + 1
  <2>1. /\ dials[n] \in Nat /\ Rank[nodeState[n]] \in 0 .. 5 /\ Rank[nodeState'[n]] \in 0 .. 5
        /\ dials'[n] \in Nat
    BY RankType, StepTypes DEF EndInv, BootInv
  <2>2. /\ One(n \in Range(nodesIdsMapping)) \in Nat /\ One(n \in stored) \in Nat
        /\ One(n \in nodesReady) \in Nat
    BY DEF One
  <2>3. /\ One(n \in Range(nodesIdsMapping))' = One(n \in Range(nodesIdsMapping))
        /\ One(n \in stored)' = One(n \in stored)
        /\ One(n \in nodesReady)' = One(n \in nodesReady)
    BY DEF One
  <2> QED
    BY <2>1, <2>2, <2>3 DEF StepsOf
<1> QED
  BY <1>2, <1>3, <1>4, <1>5, <1>6 DEF OneStepOn

LEMMA DialFailsEnd ==
  ASSUME EndInv, NEW n \in Nodes, DialFails(n)
  PROVE  NothingLost' /\ CountsKept' /\ OneStepOn
<1>1. /\ nodeState[n] = "dialling" /\ dials' = [dials EXCEPT ![n] = @ + 1]
      /\ nodeState' \in {[nodeState EXCEPT ![n] = "aborted"], nodeState}
      /\ UNCHANGED <<state, nodesIdsMapping, stored, nodesReady, checkConfig, toServer>>
  BY DEF DialFails, Become, serverVars
<1>2. /\ nodeState'[n] \in {"dialling", "aborted"} /\ dials[n] \in Nat /\ dials'[n] = dials[n] + 1
      /\ \A k \in Nodes \ {n} : nodeState'[k] = nodeState[k] /\ dials'[k] = dials[k]
  BY <1>1 DEF EndInv, BootInv, TypeOK
<1>3. toServer[n] = Sent(n) /\ Sent(n) = <<>> /\ Sent(n)' = <<>>
  BY <1>1, <1>2 DEF EndInv, NothingLost, Sent
<1>4. Rank[nodeState'[n]] = 0 /\ Rank[nodeState[n]] = 0 /\ nodeState'[n] \in NodeStates
  BY <1>1, <1>2 DEF Rank, NodeStates
<1> QED
  BY <1>1, <1>2, <1>3, <1>4, NodeStepEnd

LEMMA DialEnd ==
  ASSUME EndInv, NEW n \in Nodes, Dial(n)
  PROVE  NothingLost' /\ CountsKept' /\ OneStepOn
<1>1. /\ nodeState[n] = "dialling" /\ nodeState' = [nodeState EXCEPT ![n] = "connected"]
      /\ UNCHANGED <<state, nodesIdsMapping, stored, nodesReady, checkConfig, dials, toServer>>
  BY DEF Dial, Become
<1>2. /\ nodeState'[n] = "connected" /\ dials[n] \in Nat
      /\ \A k \in Nodes \ {n} : nodeState'[k] = nodeState[k]
  BY <1>1 DEF EndInv, BootInv, TypeOK
<1>3. toServer[n] = Sent(n) /\ Sent(n) = <<>> /\ Sent(n)' = <<>>
  BY <1>1, <1>2 DEF EndInv, NothingLost, Sent
<1>4. Rank[nodeState'[n]] = 1 /\ Rank[nodeState[n]] = 0 /\ nodeState'[n] \in NodeStates
  BY <1>1, <1>2 DEF Rank, NodeStates
<1> QED
  BY <1>1, <1>2, <1>3, <1>4, NodeStepEnd

\* A node that sends has nothing else under way
LEMMA TellEnd ==
  ASSUME TypeOK, NEW n \in Nodes, NEW msg, toServer[n] = <<>>, Tell(n, msg)
  PROVE  toServer'[n] = <<msg>> /\ \A k \in Nodes \ {n} : toServer'[k] = toServer[k]
BY Queues DEF Tell, TypeOK

LEMMA HelloEnd ==
  ASSUME EndInv, NEW n \in Nodes, sendHelloMsg(n)
  PROVE  NothingLost' /\ CountsKept' /\ OneStepOn
<1>1. /\ nodeState[n] = "connected" /\ nodeState' = [nodeState EXCEPT ![n] = "hello_confirm"]
      /\ Tell(n, "hello")
      /\ UNCHANGED <<state, nodesIdsMapping, stored, nodesReady, checkConfig, dials>>
  BY DEF sendHelloMsg, Become, serverVars
<1>2. /\ nodeState'[n] = "hello_confirm" /\ dials[n] \in Nat
      /\ \A k \in Nodes \ {n} : nodeState'[k] = nodeState[k]
  BY <1>1 DEF EndInv, BootInv, TypeOK
<1>3. n \notin Range(nodesIdsMapping)
  BY <1>1 DEF EndInv, BootInv, HellosOnce
<1>4. toServer[n] = <<>> /\ Sent(n)' = <<"hello">>
  BY <1>1, <1>2, <1>3 DEF EndInv, NothingLost, Sent
<1>5. toServer'[n] = <<"hello">> /\ \A k \in Nodes \ {n} : toServer'[k] = toServer[k]
  BY <1>1, <1>4, TellEnd DEF EndInv, BootInv
<1>6. Rank[nodeState'[n]] = 2 /\ Rank[nodeState[n]] = 1 /\ nodeState'[n] \in NodeStates
  BY <1>1, <1>2 DEF Rank, NodeStates
<1> QED
  BY <1>1, <1>2, <1>4, <1>5, <1>6, NodeStepEnd

LEMMA NodeReadsEnd ==
  ASSUME EndInv, NEW n \in Nodes, NodeReads(n)
  PROVE  NothingLost' /\ CountsKept' /\ OneStepOn
<1>1. /\ UNCHANGED <<state, nodesIdsMapping, stored, nodesReady, checkConfig, dials>>
      /\ nodeState[n] \in {"hello_confirm", "config", "ready"} /\ toNode[n] # <<>>
  BY DEF NodeReads, serverVars
<1>2. dials[n] \in Nat /\ toServer[n] = Sent(n)
  BY DEF EndInv, BootInv, TypeOK, NothingLost
<1>3. CASE nodeState[n] = "hello_confirm"
  <2>1. n \in Range(nodesIdsMapping) /\ Head(toNode[n]) = HelloOk
    BY <1>1, <1>3, ReadsExpected DEF EndInv
  <2>2. nodeState' = [nodeState EXCEPT ![n] = "config"] /\ UNCHANGED toServer
    BY <1>3, <2>1 DEF NodeReads, Become, HelloOk
  <2>3. nodeState'[n] = "config" /\ \A k \in Nodes \ {n} : nodeState'[k] = nodeState[k]
    BY <2>2 DEF EndInv, BootInv, TypeOK
  <2>4. Sent(n) = <<>> /\ Sent(n)' = <<>>
    BY <1>3, <2>1, <2>3 DEF Sent
  <2>5. Rank[nodeState'[n]] = 3 /\ Rank[nodeState[n]] = 2 /\ nodeState'[n] \in NodeStates
    BY <1>3, <2>3 DEF Rank, NodeStates
  <2> QED
    BY <1>1, <1>2, <1>3, <2>2, <2>3, <2>4, <2>5, NodeStepEnd
<1>4. CASE nodeState[n] = "config"
  <2>1. nodeState' = [nodeState EXCEPT ![n] = "ready"] /\ Tell(n, "conf")
    BY <1>4 DEF NodeReads, Become
  <2>2. nodeState'[n] = "ready" /\ \A k \in Nodes \ {n} : nodeState'[k] = nodeState[k]
    BY <2>1 DEF EndInv, BootInv, TypeOK
  <2>3. n \notin stored
    BY <1>4 DEF EndInv, BootInv, StagesInOrder, Has
  <2>4. Sent(n) = <<>> /\ Sent(n)' = <<"conf">>
    BY <1>1, <1>4, <2>2, <2>3 DEF Sent
  <2>5. toServer'[n] = <<"conf">> /\ \A k \in Nodes \ {n} : toServer'[k] = toServer[k]
    BY <1>2, <2>1, <2>4, TellEnd DEF EndInv, BootInv
  <2>6. Rank[nodeState'[n]] = 4 /\ Rank[nodeState[n]] = 3 /\ nodeState'[n] \in NodeStates
    BY <1>4, <2>2 DEF Rank, NodeStates
  <2> QED
    BY <1>1, <1>2, <1>4, <2>2, <2>4, <2>5, <2>6, NodeStepEnd
<1>5. CASE nodeState[n] = "ready"
  <2>1. nodeState' = [nodeState EXCEPT ![n] = "finish"] /\ Tell(n, "ready")
    BY <1>5 DEF NodeReads, Become
  <2>2. nodeState'[n] = "finish" /\ \A k \in Nodes \ {n} : nodeState'[k] = nodeState[k]
    BY <2>1 DEF EndInv, BootInv, TypeOK
  <2>3. n \in stored
    BY <1>1, <1>5, ReadsExpected DEF EndInv, BootInv, StagesInOrder
  <2>4. n \notin nodesReady
    BY <1>5 DEF EndInv, CountsKept
  <2>5. Sent(n) = <<>> /\ Sent(n)' = <<"ready">>
    BY <1>1, <1>5, <2>2, <2>3, <2>4 DEF Sent
  <2>6. toServer'[n] = <<"ready">> /\ \A k \in Nodes \ {n} : toServer'[k] = toServer[k]
    BY <1>2, <2>1, <2>5, TellEnd DEF EndInv, BootInv
  <2>7. Rank[nodeState'[n]] = 5 /\ Rank[nodeState[n]] = 4 /\ nodeState'[n] \in NodeStates
    BY <1>5, <2>2 DEF Rank, NodeStates
  <2> QED
    BY <1>1, <1>2, <1>5, <2>2, <2>5, <2>6, <2>7, NodeStepEnd
<1> QED
  BY <1>1, <1>3, <1>4, <1>5

LEMMA ServerAloneEnd ==
  ASSUME EndInv, Listening \/ sendConfigurations
  PROVE  NothingLost' /\ CountsKept' /\ OneStepOn
<1>1. UNCHANGED <<nodesIdsMapping, stored, nodesReady, nodeState, dials, toServer>>
  BY DEF Listening, sendConfigurations, nodeVars
<1>2. \A k \in Nodes : Sent(k)' = Sent(k) /\ StepsOf(k)' = StepsOf(k)
  BY <1>1, SentSame, StepsSame
<1>3. NothingLost'
  BY <1>1, <1>2 DEF EndInv, NothingLost
<1>4. CASE Listening
  <2>1. state = "BOOTING" /\ state' = "RECEIVE_HELLO" /\ checkConfig' = checkConfig
    BY <1>4 DEF Listening
  <2>2. CountsKept'
    BY <1>1, <2>1 DEF EndInv, CountsKept
  <2>3. ServerSteps' = ServerSteps + 1
    BY <2>1 DEF ServerSteps, One, Configured, Complete
  <2> QED
    BY <1>2, <1>3, <2>2, <2>3 DEF OneStepOn
<1>5. CASE sendConfigurations
  <2>1. checkConfig /\ checkConfig' = FALSE /\ state' = state
    BY <1>5 DEF sendConfigurations
  <2>2. state = "SEND_CONF"
    BY <2>1 DEF EndInv, BootInv, StagesInOrder
  <2>3. CountsKept'
    BY <1>1, <2>1 DEF EndInv, CountsKept
  <2>4. ServerSteps' = ServerSteps + 1
    BY <2>1, <2>2 DEF ServerSteps, One, Configured, Complete
  <2> QED
    BY <1>2, <1>3, <2>3, <2>4 DEF OneStepOn
<1> QED
  BY <1>4, <1>5

\* A message of a node that the server reads
LEMMA ServerReadsEnd ==
  ASSUME EndInv, NEW n \in Nodes, NEW s, Read(n, s), UNCHANGED <<nodeState, dials>>,
         \A k \in Nodes \ {n} :
           /\ k \in Range(nodesIdsMapping') <=> k \in Range(nodesIdsMapping)
           /\ k \in stored' <=> k \in stored
           /\ k \in nodesReady' <=> k \in nodesReady,
         Tail(toServer[n]) = Sent(n)', StepsOf(n)' = StepsOf(n) + 1, ServerSteps' = ServerSteps
  PROVE  NothingLost' /\ OneStepOn
<1>1. \A k \in Nodes \ {n} : Sent(k)' = Sent(k) /\ StepsOf(k)' = StepsOf(k)
  BY SentSame, StepsSame
<1>2. toServer'[n] = Tail(toServer[n]) /\ \A k \in Nodes \ {n} : toServer'[k] = toServer[k]
  BY DEF Read, EndInv, BootInv, TypeOK
<1>3. NothingLost'
  BY <1>1, <1>2 DEF EndInv, NothingLost
<1> QED
  BY <1>1, <1>3 DEF OneStepOn

LEMMA ReceiveHelloEnd ==
  ASSUME EndInv, Nodes # {}, NEW n \in Nodes, ReceiveHello(n)
  PROVE  NothingLost' /\ CountsKept' /\ OneStepOn
<1>1. /\ Read(n, "RECEIVE_HELLO") /\ state = "RECEIVE_HELLO" /\ toServer[n] # <<>>
      /\ UNCHANGED <<stored, nodesReady, nodeState, dials>>
      /\ IF Len(nodesIdsMapping') = targetNumNodes
         THEN state' = "SEND_CONF" /\ checkConfig' = TRUE ELSE UNCHANGED <<state, checkConfig>>
  BY DEF ReceiveHello, Read, nodeVars, AllKnown
<1>2. \A k \in Nodes : ~Has(k)
  BY <1>1 DEF EndInv, BootInv, NodesInOrder, Configured, Complete
<1>3. stored = {} /\ nodesReady = {}
  BY <1>2, NodeSets DEF EndInv, BootInv, StagesInOrder, TypeOK
<1>4. /\ nodeState[n] = "hello_confirm" /\ n \notin Range(nodesIdsMapping)
      /\ toServer[n] = <<"hello">>
  <2>1. toServer[n] = Sent(n) /\ Sent(n) # <<>>
    BY <1>1 DEF EndInv, NothingLost
  <2>2. nodeState[n] \notin {"ready", "finish"}
    BY <1>2 DEF Has
  <2> QED
    BY <2>1, <2>2 DEF Sent
<1>5. Head(toServer[n]) = "hello" /\ Tail(toServer[n]) = <<>>
  BY <1>4, Queues
<1>6. nodesIdsMapping' = Append(nodesIdsMapping, n)
  BY <1>4, <1>5 DEF ReceiveHello
<1>7. /\ nodesIdsMapping' \in Seq(Nodes) /\ Distinct(nodesIdsMapping')
      /\ Range(nodesIdsMapping') = Range(nodesIdsMapping) \cup {n}
  BY <1>4, <1>6, AppendDistinct DEF EndInv, BootInv, HellosOnce, TypeOK
<1>8. Sent(n)' = <<>>
  BY <1>1, <1>4, <1>7 DEF Sent
<1>9. StepsOf(n)' = StepsOf(n) + 1
  <2>1. /\ One(n \in Range(nodesIdsMapping))' = 1 /\ One(n \in Range(nodesIdsMapping)) = 0
        /\ One(n \in stored)' = 0 /\ One(n \in stored) = 0
        /\ One(n \in nodesReady)' = 0 /\ One(n \in nodesReady) = 0
    BY <1>1, <1>3, <1>4, <1>7 DEF One
  <2> QED
    BY <1>1, <2>1, StepTypes DEF StepsOf, EndInv, BootInv
<1>10. ServerSteps' = ServerSteps
  BY <1>1 DEF ServerSteps, One, Configured, Complete
<1>11. CountsKept'
  <2>1. Range(nodesIdsMapping') = Nodes => Len(nodesIdsMapping') = targetNumNodes
    BY <1>7, DistinctFull
  <2> QED
    BY <1>1, <1>3, <2>1 DEF CountsKept
<1>12. \A k \in Nodes \ {n} : /\ k \in Range(nodesIdsMapping') <=> k \in Range(nodesIdsMapping)
                              /\ k \in stored' <=> k \in stored
                              /\ k \in nodesReady' <=> k \in nodesReady
  BY <1>1, <1>7
<1> QED
  BY <1>1, <1>5, <1>8, <1>9, <1>10, <1>11, <1>12, ServerReadsEnd

LEMMA ReceiveConfEnd ==
  ASSUME EndInv, Nodes # {}, NEW n \in Nodes, ReceiveConf(n)
  PROVE  NothingLost' /\ CountsKept' /\ OneStepOn
<1>1. /\ Read(n, "SEND_CONF") /\ state = "SEND_CONF" /\ toServer[n] # <<>>
      /\ UNCHANGED <<nodesIdsMapping, nodesReady, checkConfig, nodeState, dials>>
      /\ IF AllStored(stored') THEN state' = "SEND_RDY" ELSE state' = state
  BY DEF ReceiveConf, Read, nodeVars
<1>2. Range(nodesIdsMapping) = Nodes /\ \A k \in Nodes : nodeState[k] # "finish"
  BY <1>1 DEF EndInv, BootInv, HellosOnce, NodesInOrder, Complete, Released
<1>3. nodesReady = {}
  BY <1>2, NodeSets DEF EndInv, CountsKept, BootInv, TypeOK
<1>4. nodeState[n] = "ready" /\ n \notin stored /\ toServer[n] = <<"conf">>
  <2>1. toServer[n] = Sent(n) /\ Sent(n) # <<>>
    BY <1>1 DEF EndInv, NothingLost
  <2> QED
    BY <1>2, <2>1 DEF Sent
<1>5. Head(toServer[n]) = "conf" /\ Tail(toServer[n]) = <<>>
  BY <1>4, Queues
<1>6. stored' = stored \cup {n}
  BY <1>2, <1>5 DEF ReceiveConf
<1>7. Sent(n)' = <<>>
  BY <1>1, <1>4, <1>6 DEF Sent
<1>8. StepsOf(n)' = StepsOf(n) + 1
  <2>1. /\ One(n \in Range(nodesIdsMapping))' = 1 /\ One(n \in Range(nodesIdsMapping)) = 1
        /\ One(n \in stored)' = 1 /\ One(n \in stored) = 0
        /\ One(n \in nodesReady)' = 0 /\ One(n \in nodesReady) = 0
    BY <1>1, <1>2, <1>3, <1>4, <1>6 DEF One
  <2> QED
    BY <1>1, <2>1, StepTypes DEF StepsOf, EndInv, BootInv
<1>9. ServerSteps' = ServerSteps
  BY <1>1 DEF ServerSteps, One, Configured, Complete
<1>10. CountsKept'
  <2>1. stored' = Nodes => AllStored(stored')
    BY DEF AllStored, targetNumNodes
  <2> QED
    BY <1>1, <1>3, <2>1 DEF CountsKept
<1>11. \A k \in Nodes \ {n} : k \in stored' <=> k \in stored
  BY <1>6
<1> QED
  BY <1>1, <1>5, <1>7, <1>8, <1>9, <1>10, <1>11, ServerReadsEnd

LEMMA ReceiveReadyEnd ==
  ASSUME EndInv, NEW n \in Nodes, ReceiveReady(n)
  PROVE  NothingLost' /\ CountsKept' /\ OneStepOn
<1>1. /\ Read(n, "SEND_RDY") /\ state = "SEND_RDY" /\ toServer[n] # <<>>
      /\ UNCHANGED <<nodesIdsMapping, stored, checkConfig, nodeState, dials>>
      /\ state' = IF Cardinality(nodesReady') = targetNumNodes THEN "FINISH" ELSE state
  BY DEF ReceiveReady, Read, nodeVars
<1>2. Range(nodesIdsMapping) = Nodes /\ stored = Nodes
  BY <1>1 DEF EndInv, BootInv, HellosOnce, StagesInOrder, Complete, Released
<1>3. nodeState[n] = "finish" /\ n \notin nodesReady /\ toServer[n] = <<"ready">>
  <2>1. toServer[n] = Sent(n) /\ Sent(n) # <<>>
    BY <1>1 DEF EndInv, NothingLost
  <2> QED
    BY <1>2, <2>1 DEF Sent
<1>4. Head(toServer[n]) = "ready" /\ Tail(toServer[n]) = <<>>
  BY <1>3, Queues
<1>5. nodesReady' = nodesReady \cup {n}
  BY <1>4 DEF ReceiveReady
<1>6. Sent(n)' = <<>>
  BY <1>1, <1>3, <1>5 DEF Sent
<1>7. StepsOf(n)' = StepsOf(n) + 1
  <2>1. /\ One(n \in Range(nodesIdsMapping))' = 1 /\ One(n \in Range(nodesIdsMapping)) = 1
        /\ One(n \in stored)' = 1 /\ One(n \in stored) = 1
        /\ One(n \in nodesReady)' = 1 /\ One(n \in nodesReady) = 0
    BY <1>1, <1>2, <1>3, <1>5 DEF One
  <2> QED
    BY <1>1, <2>1, StepTypes DEF StepsOf, EndInv, BootInv
<1>8. ServerSteps' = ServerSteps
  BY <1>1 DEF ServerSteps, One, Configured, Complete
<1>9. CountsKept'
  <2>1. nodesReady' \in SUBSET Nodes
    BY <1>5, NodeSets DEF EndInv, BootInv, TypeOK
  <2>2. Cardinality(nodesReady') = targetNumNodes <=> nodesReady' = Nodes
    BY <2>1, NodesAssumption, FS_Subset DEF targetNumNodes
  <2>3. \A k \in nodesReady' : nodeState'[k] = "finish"
    BY <1>1, <1>3, <1>5 DEF EndInv, CountsKept
  <2> QED
    BY <1>1, <1>2, <2>2, <2>3 DEF CountsKept
<1>10. \A k \in Nodes \ {n} : k \in nodesReady' <=> k \in nodesReady
  BY <1>5
<1> QED
  BY <1>1, <1>4, <1>6, <1>7, <1>8, <1>9, <1>10, ServerReadsEnd

LEMMA EndStep == Nodes # {} /\ EndInv /\ Next => EndInv' /\ OneStepOn
<1> SUFFICES ASSUME Nodes # {}, EndInv, Next PROVE EndInv' /\ OneStepOn
  OBVIOUS
<1>1. BootInv'
  BY BootStep DEF EndInv
<1>2. NothingLost' /\ CountsKept' /\ OneStepOn
  BY ServerAloneEnd, DialFailsEnd, DialEnd, HelloEnd, NodeReadsEnd, ReceiveHelloEnd,
     ReceiveConfEnd, ReceiveReadyEnd DEF Next
<1> QED
  BY <1>1, <1>2 DEF EndInv

LEMMA EndUnchanged == EndInv /\ UNCHANGED vars => EndInv'
<1> SUFFICES ASSUME EndInv, UNCHANGED vars PROVE EndInv'
  OBVIOUS
<1>1. UNCHANGED <<state, nodesIdsMapping, stored, nodesReady, nodeState, dials, toServer>>
  BY DEF vars, serverVars, nodeVars
<1>2. \A k \in Nodes : Sent(k)' = Sent(k)
  BY <1>1, SentSame
<1> QED
  BY <1>1, <1>2, UnchangedInv DEF EndInv, NothingLost, CountsKept

LEMMA EndInit == Nodes # {} /\ Init => EndInv
<1> SUFFICES ASSUME Nodes # {}, Init PROVE EndInv
  OBVIOUS
<1>1. NothingLost
  BY DEF Init, NothingLost, Sent
<1>2. CountsKept
  BY DEF Init, CountsKept, Range
<1> QED
  BY <1>1, <1>2, BootInit DEF EndInv

\* Where the bootstrap is not over there is a node that the server waits for, and it can go on
LEMMA NotOverActs == EndInv => NobodyStuck
<1> SUFFICES ASSUME EndInv, ~EverybodyFinished, \A n \in Nodes : nodeState[n] # "aborted"
             PROVE  SomebodyActs
  BY DEF NobodyStuck
<1> USE DEF EndInv
<1>1. \A n \in Nodes : /\ toNode[n] = Expected(n) /\ toServer[n] = Sent(n)
                       /\ nodeState[n] \in NodeStates
  BY DEF BootInv, QueuesExpected, NothingLost, TypeOK
<1>2. CASE state = "BOOTING"
  BY <1>2 DEF SomebodyActs
<1>3. CASE state = "RECEIVE_HELLO"
  <2>1. PICK n \in Nodes : n \notin Range(nodesIdsMapping)
    BY <1>3, NodeSets DEF CountsKept, BootInv
  <2>2. nodeState[n] \in {"dialling", "connected", "hello_confirm"}
    BY <1>1, <1>3, <2>1 DEF NodeStates, BootInv, NodesInOrder, Configured, Complete, Has
  <2>3. nodeState[n] = "hello_confirm" => toServer[n] # <<>>
    BY <1>1, <2>1 DEF Sent
  <2> QED
    BY <1>3, <2>2, <2>3 DEF SomebodyActs
<1>4. CASE state = "SEND_CONF"
  <2>1. CASE checkConfig
    BY <2>1 DEF SomebodyActs
  <2>2. CASE ~checkConfig
    <3>1. Configured /\ ~Released /\ Range(nodesIdsMapping) = Nodes
      BY <1>4, <2>2 DEF Configured, Complete, Released, BootInv, HellosOnce
    <3>2. PICK n \in Nodes : n \notin stored
      BY <1>4, NodeSets DEF CountsKept, BootInv
    <3>3. nodeState[n] \in {"hello_confirm", "config", "ready"}
      BY <1>1, <3>1 DEF NodeStates, BootInv, NodesInOrder, HellosOnce
    <3>4. nodeState[n] = "hello_confirm" \/ nodeState[n] = "config" => toNode[n] # <<>>
      BY <1>1, <3>1, Queues DEF Expected
    <3>5. nodeState[n] = "ready" => toServer[n] # <<>>
      BY <1>1, <3>2 DEF Sent
    <3> QED
      BY <1>4, <3>3, <3>4, <3>5 DEF SomebodyActs
  <2> QED
    BY <2>1, <2>2
<1>5. CASE state = "SEND_RDY"
  <2>1. Released /\ stored = Nodes
    BY <1>5 DEF Released, BootInv, StagesInOrder
  <2>2. PICK n \in Nodes : n \notin nodesReady
    BY <1>5, NodeSets DEF CountsKept, BootInv, TypeOK
  <2>3. nodeState[n] \in {"ready", "finish"}
    BY <2>1 DEF BootInv, StagesInOrder, Has
  <2>4. nodeState[n] = "ready" => toNode[n] # <<>>
    BY <1>1, <2>1, Queues DEF Expected
  <2>5. nodeState[n] = "finish" => toServer[n] # <<>>
    BY <1>1, <2>2 DEF Sent
  <2> QED
    BY <1>5, <2>3, <2>4, <2>5 DEF SomebodyActs
<1>6. CASE state = "FINISH"
  BY <1>6 DEF CountsKept, EverybodyFinished
<1> QED
  BY <1>2, <1>3, <1>4, <1>5, <1>6 DEF BootInv, TypeOK, ServerStates

LEMMA AlwaysBounded == EndInv => StepsBounded
<1> SUFFICES ASSUME EndInv PROVE StepsBounded
  OBVIOUS
<1>1. ServerSteps \in 0 .. 2
  BY DEF ServerSteps, One
<1>2. \A n \in Nodes : StepsOf(n) \in 0 .. MaxDials + 8
  <2> SUFFICES ASSUME NEW n \in Nodes PROVE StepsOf(n) \in 0 .. MaxDials + 8
    OBVIOUS
  <2>1. /\ One(n \in Range(nodesIdsMapping)) \in 0 .. 1 /\ One(n \in stored) \in 0 .. 1
        /\ One(n \in nodesReady) \in 0 .. 1
    BY DEF One
  <2> QED
    BY <2>1, StepTypes, NodesAssumption DEF StepsOf, EndInv, BootInv
<1> QED
  BY <1>1, <1>2 DEF StepsBounded

(***************************************************************************)
(* Nobody waits for a message that will not come: unless a node gave up    *)
(* dialling or everybody is in P2P mode and the server knows, the server   *)
(* or a node has something to do.  Each message is read in the one state   *)
(* in which it has an effect.                                              *)
(***************************************************************************)
THEOREM NobodyWaits ==
  ASSUME Nodes # {}
  PROVE  Spec => []NobodyStuck
BY EndInit, EndStep, EndUnchanged, NotOverActs, PTL DEF Spec

(***************************************************************************)
(* The bootstrap takes at most MaxDials + 8 steps for each node and two    *)
(* more, whatever the interleaving: no message is read in vain, and what   *)
(* was done is not done again.  With NobodyWaits and processes that run,   *)
(* it therefore ends, for any number of nodes.                             *)
(***************************************************************************)
THEOREM StepsRunOut ==
  ASSUME Nodes # {}
  PROVE  Spec => []StepsBounded /\ [][OneStepOn]_vars
BY EndInit, EndStep, EndUnchanged, AlwaysBounded, PTL DEF Spec

=============================================================================
