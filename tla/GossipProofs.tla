---------------------------- MODULE GossipProofs ----------------------------
(***************************************************************************)
(* Theorems about Gossip, for every network, every set of messages and     *)
(* every interleaving of readers and gossiping goroutines.                 *)
(***************************************************************************)
EXTENDS Gossip, FiniteSetTheorems, TLAPS

\* Nothing is written, read or processed that was not broadcast
OnlySent ==
  \A n, p \in Nodes :
    /\ messageHistory[n] \subseteq sent
    /\ gossiping[n][p] \subseteq sent
    /\ \A i \in 1 .. Len(stream[n][p]) : stream[n][p][i] \in sent

\* The origin of a message has it in its history from the start
OriginRemembers == \A m \in sent : m \in messageHistory[Origin[m]]

\* A message that is being processed was never processed, nor is by another reader
ProcessingOnce ==
  \A n, p \in Nodes : \A m \in Messages : processing[n][p] = m =>
    /\ m \in messageHistory[n] /\ n # Origin[m]
    /\ processed[n][m] = 0
    /\ \A q \in Nodes : processing[n][q] = m => q = p

\* A message that was processed was processed once and stays in the history
ProcessedRemembered ==
  \A n \in Nodes, m \in Messages : processed[n][m] # 0 =>
    /\ m \in messageHistory[n] /\ n # Origin[m]
    /\ processed[n][m] = 1

(***************************************************************************)
(* ProcessedOnce is not inductive: a second reader could hold the message  *)
(* that was processed.  What excludes it is that the history, looked up    *)
(* and extended in one critical section, contains every message that is    *)
(* being processed or was, and at its origin every message that was sent.  *)
(***************************************************************************)
GossipInv == TypeOK /\ OnlySent /\ OriginRemembers /\ ProcessingOnce /\ ProcessedRemembered

LEMMA GossipInit == Init => GossipInv
BY MessagesAssumption
   DEF Init, GossipInv, TypeOK, OnlySent, OriginRemembers, ProcessingOnce, ProcessedRemembered

\* Changing one entry of a table
LEMMA Entry ==
  ASSUME NEW A, NEW B, NEW T, NEW f \in [A -> [B -> T]], NEW a \in A, NEW b \in B, NEW v \in T
  PROVE  /\ [f EXCEPT ![a][b] = v] \in [A -> [B -> T]]
         /\ \A x \in A, y \in B :
              [f EXCEPT ![a][b] = v][x][y] = IF x = a /\ y = b THEN v ELSE f[x][y]
OBVIOUS

\* A message that joins a history
LEMMA HistoryGrows ==
  ASSUME TypeOK, NEW n \in Nodes, NEW m \in Messages,
         messageHistory' = [messageHistory EXCEPT ![n] = @ \cup {m}]
  PROVE  /\ messageHistory' \in [Nodes -> SUBSET Messages]
         /\ \A k \in Nodes : messageHistory'[k] = IF k = n THEN messageHistory[k] \cup {m}
                                                           ELSE messageHistory[k]
BY DEF TypeOK

\* Starting the goroutines of a message keeps the others
LEMMA GossipedType ==
  ASSUME TypeOK, NEW n \in Nodes, NEW m \in Messages
  PROVE  /\ Gossiped(n, m) \in [Nodes -> [Nodes -> SUBSET Messages]]
         /\ \A k, p \in Nodes : Gossiped(n, m)[k][p] \subseteq gossiping[k][p] \cup {m}
BY DEF Gossiped, TypeOK

LEMMA BroadcastStep ==
  ASSUME GossipInv, NEW m \in Messages, sendMessageBroadcast(m)
  PROVE  GossipInv'
<1> DEFINE n == Origin[m]
<1>1. n \in Nodes
  BY MessagesAssumption
<1>2. /\ m \notin sent /\ sent' = sent \cup {m}
      /\ messageHistory' = [messageHistory EXCEPT ![n] = @ \cup {m}]
      /\ gossiping' = Gossiped(n, m)
      /\ UNCHANGED <<messagePeersHistory, stream, processing, processed>>
  BY DEF sendMessageBroadcast, Remembered
<1> HIDE DEF n
<1>h. \A k \in Nodes : messageHistory'[k] = IF k = n THEN messageHistory[k] \cup {m}
                                                    ELSE messageHistory[k]
  BY <1>1, <1>2, HistoryGrows DEF GossipInv
<1>g. /\ gossiping' \in [Nodes -> [Nodes -> SUBSET Messages]]
      /\ \A k, p \in Nodes : gossiping'[k][p] \subseteq gossiping[k][p] \cup {m}
  BY <1>1, <1>2, GossipedType DEF GossipInv
<1>3. TypeOK'
  BY <1>1, <1>2, <1>g, HistoryGrows DEF GossipInv, TypeOK
<1>4. OnlySent'
  BY <1>2, <1>h, <1>g DEF GossipInv, OnlySent
<1>5. OriginRemembers'
  BY <1>1, <1>2, <1>h, MessagesAssumption DEF GossipInv, OriginRemembers, TypeOK, n
<1>6. ProcessingOnce'
  BY <1>2, <1>h DEF GossipInv, ProcessingOnce
<1>7. ProcessedRemembered'
  BY <1>2, <1>h DEF GossipInv, ProcessedRemembered
<1> QED
  BY <1>3, <1>4, <1>5, <1>6, <1>7 DEF GossipInv

LEMMA WriteStep ==
  ASSUME GossipInv, NEW n \in Nodes, NEW p \in Nodes, NEW m \in Messages, gossipMessage(n, p, m)
  PROVE  GossipInv'
<1>1. /\ m \in gossiping[n][p]
      /\ gossiping' = [gossiping EXCEPT ![n][p] = @ \ {m}]
      /\ stream' = stream \/ stream' = [stream EXCEPT ![n][p] = Append(@, m)]
      /\ UNCHANGED <<sent, messageHistory, messagePeersHistory, processing, processed>>
  BY DEF gossipMessage
<1>g. /\ gossiping' \in [Nodes -> [Nodes -> SUBSET Messages]]
      /\ \A k, q \in Nodes : gossiping'[k][q] \subseteq gossiping[k][q]
  <2>1. gossiping \in [Nodes -> [Nodes -> SUBSET Messages]]
        /\ gossiping[n][p] \ {m} \in SUBSET Messages
    BY DEF GossipInv, TypeOK
  <2>2. /\ gossiping' \in [Nodes -> [Nodes -> SUBSET Messages]]
        /\ \A k, q \in Nodes : gossiping'[k][q] = IF k = n /\ q = p THEN gossiping[n][p] \ {m}
                                                                   ELSE gossiping[k][q]
    BY <1>1, <2>1, Entry
  <2> QED
    BY <2>2
<1>s. /\ stream' \in [Nodes -> [Nodes -> Seq(Messages)]]
      /\ \A k, q \in Nodes :
           stream'[k][q] = stream[k][q] \/ stream'[k][q] = Append(stream[k][q], m)
  <2>1. stream \in [Nodes -> [Nodes -> Seq(Messages)]] /\ Append(stream[n][p], m) \in Seq(Messages)
    BY DEF GossipInv, TypeOK
  <2>2. CASE stream' = [stream EXCEPT ![n][p] = Append(@, m)]
    BY <2>1, <2>2, Entry
  <2> QED
    BY <1>1, <2>1, <2>2
<1>2. TypeOK'
  BY <1>1, <1>g, <1>s DEF GossipInv, TypeOK
<1>3. m \in sent
  BY <1>1 DEF GossipInv, OnlySent
<1>4. OnlySent'
  <2> SUFFICES ASSUME NEW k \in Nodes, NEW q \in Nodes
               PROVE  /\ messageHistory'[k] \subseteq sent'
                      /\ gossiping'[k][q] \subseteq sent'
                      /\ \A i \in 1 .. Len(stream'[k][q]) : stream'[k][q][i] \in sent'
    BY DEF OnlySent
  <2>2. messageHistory'[k] \subseteq sent' /\ gossiping'[k][q] \subseteq sent'
    BY <1>1, <1>g DEF GossipInv, OnlySent
  <2>3. stream'[k][q] = stream[k][q] \/ stream'[k][q] = Append(stream[k][q], m)
    BY <1>s
  <2>4. stream[k][q] \in Seq(Messages)
    BY DEF GossipInv, TypeOK
  <2>5. \A i \in 1 .. Len(stream[k][q]) : stream[k][q][i] \in sent
    BY DEF GossipInv, OnlySent
  <2>6. \A i \in 1 .. Len(stream'[k][q]) : stream'[k][q][i] \in sent
    BY <1>3, <2>3, <2>4, <2>5
  <2> QED
    BY <1>1, <2>2, <2>6
<1>5. OriginRemembers' /\ ProcessingOnce' /\ ProcessedRemembered'
  BY <1>1 DEF GossipInv, OriginRemembers, ProcessingOnce, ProcessedRemembered
<1> QED
  BY <1>2, <1>4, <1>5 DEF GossipInv

LEMMA ReadStep ==
  ASSUME GossipInv, NEW n \in Nodes, NEW p \in Nodes, readData(n, p)
  PROVE  GossipInv'
<1> PICK m : m = Head(stream[p][n])
  OBVIOUS
<1>1. /\ stream[p][n] \in Seq(Messages) /\ stream[p][n] # <<>>
      /\ processing[n][p] = None
  BY DEF readData, GossipInv, TypeOK
<1>2. m \in Messages /\ m \in sent
  BY <1>1 DEF GossipInv, OnlySent
<1>3. /\ stream' = [stream EXCEPT ![p][n] = Tail(@)]
      /\ messagePeersHistory' = [messagePeersHistory EXCEPT ![n][p] = @ \cup {m}]
      /\ UNCHANGED <<sent, processed>>
  BY DEF readData, NextMessage
<1>4. \/ UNCHANGED <<messageHistory, gossiping, processing>>
      \/ /\ m \notin messageHistory[n]
         /\ messageHistory' = [messageHistory EXCEPT ![n] = @ \cup {m}]
         /\ gossiping' = Gossiped(n, m)
         /\ processing' = [processing EXCEPT ![n][p] = m]
  BY DEF readData, NextMessage, isMessageFirstOccurrence
<1>s. /\ stream' \in [Nodes -> [Nodes -> Seq(Messages)]]
      /\ \A k, q \in Nodes :
           stream'[k][q] = IF k = p /\ q = n THEN Tail(stream[p][n]) ELSE stream[k][q]
  <2>1. stream \in [Nodes -> [Nodes -> Seq(Messages)]] /\ Tail(stream[p][n]) \in Seq(Messages)
    BY <1>1 DEF GossipInv, TypeOK
  <2> QED
    BY <1>3, <2>1, Entry
<1>m. messagePeersHistory' \in [Nodes -> [Nodes -> SUBSET Messages]]
  <2>1. /\ messagePeersHistory \in [Nodes -> [Nodes -> SUBSET Messages]]
        /\ messagePeersHistory[n][p] \cup {m} \in SUBSET Messages
    BY <1>2 DEF GossipInv, TypeOK
  <2> QED
    BY <1>3, <2>1, Entry
<1>c. /\ messageHistory' \in [Nodes -> SUBSET Messages]
      /\ gossiping' \in [Nodes -> [Nodes -> SUBSET Messages]]
      /\ processing' \in [Nodes -> [Nodes -> Messages \cup {None}]]
      /\ \A k, q \in Nodes : /\ messageHistory'[k] \subseteq messageHistory[k] \cup {m}
                             /\ messageHistory[k] \subseteq messageHistory'[k]
                             /\ gossiping'[k][q] \subseteq gossiping[k][q] \cup {m}
  <2>1. CASE UNCHANGED <<messageHistory, gossiping, processing>>
    BY <2>1 DEF GossipInv, TypeOK
  <2>2. CASE /\ messageHistory' = [messageHistory EXCEPT ![n] = @ \cup {m}]
             /\ gossiping' = Gossiped(n, m)
             /\ processing' = [processing EXCEPT ![n][p] = m]
    <3>1. processing \in [Nodes -> [Nodes -> Messages \cup {None}]]
      BY DEF GossipInv, TypeOK
    <3>2. processing' \in [Nodes -> [Nodes -> Messages \cup {None}]]
      BY <1>2, <2>2, <3>1, Entry
    <3>3. /\ messageHistory' \in [Nodes -> SUBSET Messages]
          /\ \A k \in Nodes : /\ messageHistory'[k] \subseteq messageHistory[k] \cup {m}
                              /\ messageHistory[k] \subseteq messageHistory'[k]
      BY <1>2, <2>2, HistoryGrows DEF GossipInv
    <3> QED
      BY <1>2, <2>2, <3>2, <3>3, GossipedType DEF GossipInv
  <2> QED
    BY <1>4, <2>1, <2>2
<1>5. TypeOK'
  BY <1>3, <1>s, <1>m, <1>c DEF GossipInv, TypeOK
<1>6. OnlySent'
  <2> SUFFICES ASSUME NEW k \in Nodes, NEW q \in Nodes
               PROVE  /\ messageHistory'[k] \subseteq sent'
                      /\ gossiping'[k][q] \subseteq sent'
                      /\ \A i \in 1 .. Len(stream'[k][q]) : stream'[k][q][i] \in sent'
    BY DEF OnlySent
  <2>2. /\ messageHistory'[k] \subseteq messageHistory[k] \cup {m}
        /\ gossiping'[k][q] \subseteq gossiping[k][q] \cup {m}
    BY <1>c
  <2>3. stream'[k][q] = stream[k][q] \/ (k = p /\ q = n /\ stream'[k][q] = Tail(stream[p][n]))
    BY <1>s
  <2>4. /\ messageHistory[k] \subseteq sent /\ gossiping[k][q] \subseteq sent
        /\ \A i \in 1 .. Len(stream[k][q]) : stream[k][q][i] \in sent
    BY DEF GossipInv, OnlySent
  <2>5. \A i \in 1 .. Len(stream'[k][q]) : stream'[k][q][i] \in sent
    <3>1. /\ Len(Tail(stream[p][n])) = Len(stream[p][n]) - 1
          /\ \A i \in 1 .. Len(Tail(stream[p][n])) : Tail(stream[p][n])[i] = stream[p][n][i + 1]
          /\ Len(stream[p][n]) \in Nat
      BY <1>1
    <3>2. \A i \in 1 .. Len(stream[p][n]) : stream[p][n][i] \in sent
      BY DEF GossipInv, OnlySent
    <3>3. \A i \in 1 .. Len(Tail(stream[p][n])) : Tail(stream[p][n])[i] \in sent
      <4> TAKE i \in 1 .. Len(Tail(stream[p][n]))
      <4>1. i + 1 \in 1 .. Len(stream[p][n])
        BY <3>1
      <4> QED
        BY <3>1, <3>2, <4>1
    <3>4. CASE stream'[k][q] = stream[k][q]
      BY <2>4, <3>4
    <3>5. CASE stream'[k][q] = Tail(stream[p][n])
      BY <3>3, <3>5
    <3> QED
      BY <2>3, <3>4, <3>5
  <2> QED
    BY <1>2, <1>3, <2>2, <2>4, <2>5
<1>7. OriginRemembers'
  BY <1>3, <1>c, MessagesAssumption DEF GossipInv, OriginRemembers, TypeOK
<1>8. CASE UNCHANGED <<messageHistory, gossiping, processing>>
  BY <1>3, <1>5, <1>6, <1>7, <1>8
     DEF GossipInv, ProcessingOnce, ProcessedRemembered
<1>9. CASE /\ m \notin messageHistory[n]
           /\ messageHistory' = [messageHistory EXCEPT ![n] = @ \cup {m}]
           /\ processing' = [processing EXCEPT ![n][p] = m]
  <2>1. n # Origin[m] /\ processed[n][m] = 0 /\ \A q \in Nodes : processing[n][q] # m
    BY <1>2, <1>9
       DEF GossipInv, OriginRemembers, ProcessingOnce, ProcessedRemembered
  <2>2. \A k, q \in Nodes :
          processing'[k][q] = IF k = n /\ q = p THEN m ELSE processing[k][q]
    <3>1. processing \in [Nodes -> [Nodes -> Messages \cup {None}]]
      BY DEF GossipInv, TypeOK
    <3> QED
      BY <1>2, <1>9, <3>1, Entry
  <2>3. \A k \in Nodes : messageHistory'[k] = IF k = n THEN messageHistory[k] \cup {m}
                                                       ELSE messageHistory[k]
    BY <1>2, <1>9, HistoryGrows DEF GossipInv
  <2>4. ProcessingOnce'
    <3> SUFFICES ASSUME NEW k \in Nodes, NEW q \in Nodes, NEW x \in Messages,
                        processing'[k][q] = x
                 PROVE  /\ x \in messageHistory'[k] /\ k # Origin[x]
                        /\ processed'[k][x] = 0
                        /\ \A r \in Nodes : processing'[k][r] = x => r = q
      BY DEF ProcessingOnce
    <3>1. CASE k = n /\ q = p
      BY <1>3, <2>1, <2>2, <2>3, <3>1
    <3>2. CASE ~(k = n /\ q = p)
      <4>1. processing[k][q] = x
        BY <2>2, <3>2
      <4>2. /\ x \in messageHistory[k] /\ k # Origin[x] /\ processed[k][x] = 0
            /\ \A r \in Nodes : processing[k][r] = x => r = q
        BY <4>1 DEF GossipInv, ProcessingOnce
      <4>3. k = n => x # m
        BY <2>1, <4>1
      <4> QED
        BY <1>3, <2>2, <2>3, <4>2, <4>3
    <3> QED
      BY <3>1, <3>2
  <2>5. ProcessedRemembered'
    BY <1>3, <2>3 DEF GossipInv, ProcessedRemembered
  <2> QED
    BY <1>5, <1>6, <1>7, <2>4, <2>5 DEF GossipInv
<1> QED
  BY <1>4, <1>8, <1>9

LEMMA ProcessStep ==
  ASSUME GossipInv, NEW n \in Nodes, NEW p \in Nodes, EndProcessing(n, p)
  PROVE  GossipInv'
<1> PICK m : m = processing[n][p]
  OBVIOUS
<1>1. /\ m \in Messages /\ m # None
      /\ processed' = [processed EXCEPT ![n][m] = @ + 1]
      /\ processing' = [processing EXCEPT ![n][p] = None]
      /\ UNCHANGED <<sent, messageHistory, messagePeersHistory, gossiping, stream>>
  BY DEF EndProcessing, GossipInv, TypeOK
<1>2. /\ m \in messageHistory[n] /\ n # Origin[m] /\ processed[n][m] = 0
      /\ \A q \in Nodes : processing[n][q] = m => q = p
  BY <1>1 DEF GossipInv, ProcessingOnce
<1>3. TypeOK'
  <2>1. /\ processed \in [Nodes -> [Messages -> Nat]] /\ processed[n][m] + 1 \in Nat
        /\ processing \in [Nodes -> [Nodes -> Messages \cup {None}]]
    BY <1>1 DEF GossipInv, TypeOK
  <2>2. /\ processed' \in [Nodes -> [Messages -> Nat]]
        /\ processing' \in [Nodes -> [Nodes -> Messages \cup {None}]]
    BY <1>1, <2>1, Entry
  <2> QED
    BY <1>1, <2>2 DEF GossipInv, TypeOK
<1>4. /\ \A k, q \in Nodes :
           processing'[k][q] = IF k = n /\ q = p THEN None ELSE processing[k][q]
      /\ \A k \in Nodes, x \in Messages :
           processed'[k][x] = IF k = n /\ x = m THEN 1 ELSE processed[k][x]
  <2>1. /\ processed \in [Nodes -> [Messages -> Nat]] /\ processed[n][m] + 1 = 1
        /\ processing \in [Nodes -> [Nodes -> Messages \cup {None}]]
    BY <1>2 DEF GossipInv, TypeOK
  <2> QED
    BY <1>1, <2>1, Entry
<1>5. OnlySent' /\ OriginRemembers'
  BY <1>1 DEF GossipInv, OnlySent, OriginRemembers
<1>6. ProcessingOnce'
  BY <1>1, <1>2, <1>4, MessagesAssumption DEF GossipInv, ProcessingOnce
<1>7. ProcessedRemembered'
  BY <1>1, <1>2, <1>4 DEF GossipInv, ProcessedRemembered
<1> QED
  BY <1>3, <1>5, <1>6, <1>7 DEF GossipInv

LEMMA GossipStep ==
  ASSUME GossipInv, [Next]_vars
  PROVE  GossipInv'
<1>1. CASE UNCHANGED vars
  BY <1>1 DEF vars, GossipInv, TypeOK, OnlySent, OriginRemembers, ProcessingOnce,
              ProcessedRemembered
<1> QED
  BY <1>1, BroadcastStep, WriteStep, ReadStep, ProcessStep DEF Next

LEMMA GossipInvariant == Spec => []GossipInv
BY GossipInit, GossipStep, PTL DEF Spec

\* Every variable of the gossip layer keeps its type
THEOREM TypeCorrect == Spec => []TypeOK
<1>1. GossipInv => TypeOK
  BY DEF GossipInv
<1> QED
  BY <1>1, GossipInvariant, PTL

(***************************************************************************)
(* In every network no node processes a message twice, or its own at all.  *)
(***************************************************************************)
THEOREM NeverTwice == Spec => []ProcessedOnce
<1>1. GossipInv => ProcessedOnce
  BY DEF GossipInv, ProcessedRemembered, ProcessedOnce, TypeOK
<1> QED
  BY <1>1, GossipInvariant, PTL

-----------------------------------------------------------------------------
(* One copy per link *)

\* A stream holds a message at one place at most
NoDuplicates ==
  \A n, p \in Nodes : \A i, j \in 1 .. Len(stream[n][p]) :
    stream[n][p][i] = stream[n][p][j] => i = j

\* Message m is on its way from n to p
InStream(n, p, m) == \E i \in 1 .. Len(stream[n][p]) : stream[n][p][i] = m

\* Message m is not about to be written, or not under way, once it has come further
GoesOnce ==
  \A n, p \in Nodes : \A m \in Messages :
    /\ InStream(n, p, m) => m \notin gossiping[n][p] /\ m \notin messagePeersHistory[p][n]
    /\ m \in gossiping[n][p] => m \notin messagePeersHistory[p][n]

\* What a node is about to write, has written or has had read is in its history
WrittenRemembered ==
  \A n, p \in Nodes : \A m \in Messages :
    m \in gossiping[n][p] \/ InStream(n, p, m) \/ m \in messagePeersHistory[p][n] =>
      m \in messageHistory[n]

(***************************************************************************)
(* A message enters the goroutines of a node in the step in which it       *)
(* enters its history, so all that is anywhere on a link was in the        *)
(* history before: a second round of goroutines never starts.              *)
(***************************************************************************)
LinkInv == NoDuplicates /\ GoesOnce /\ WrittenRemembered

LEMMA LinkInit == Init => LinkInv
BY DEF Init, LinkInv, NoDuplicates, GoesOnce, WrittenRemembered, InStream

\* New goroutines for a message that is nowhere on the node's links
LEMMA NewGoroutines ==
  ASSUME TypeOK, LinkInv, NEW n \in Nodes, NEW m \in Messages, m \notin messageHistory[n]
  PROVE  /\ \A p \in Nodes : /\ m \notin gossiping[n][p] /\ ~InStream(n, p, m)
                             /\ m \notin messagePeersHistory[p][n]
         /\ \A k, p \in Nodes : \A x \in Messages :
              x \in Gossiped(n, m)[k][p] => x \in gossiping[k][p] \/ (k = n /\ x = m)
<1>1. \A p \in Nodes : /\ m \notin gossiping[n][p] /\ ~InStream(n, p, m)
                       /\ m \notin messagePeersHistory[p][n]
  BY DEF LinkInv, WrittenRemembered
<1>2. \A k, p \in Nodes : \A x \in Messages :
        x \in Gossiped(n, m)[k][p] => x \in gossiping[k][p] \/ (k = n /\ x = m)
  BY DEF Gossiped, TypeOK
<1> QED
  BY <1>1, <1>2

LEMMA BroadcastLink ==
  ASSUME GossipInv, LinkInv, NEW m \in Messages, sendMessageBroadcast(m)
  PROVE  LinkInv'
<1> DEFINE n == Origin[m]
<1>1. n \in Nodes
  BY MessagesAssumption
<1>2. /\ m \notin sent
      /\ messageHistory' = [messageHistory EXCEPT ![n] = @ \cup {m}]
      /\ gossiping' = Gossiped(n, m)
      /\ UNCHANGED <<messagePeersHistory, stream>>
  BY DEF sendMessageBroadcast, Remembered
<1> HIDE DEF n
<1>3. m \notin messageHistory[n]
  BY <1>1, <1>2 DEF GossipInv, OnlySent
<1>4. \A k, p \in Nodes : \A x \in Messages : InStream(k, p, x)' <=> InStream(k, p, x)
  BY <1>2 DEF InStream
<1>5. \A k \in Nodes : messageHistory'[k] = IF k = n THEN messageHistory[k] \cup {m}
                                                     ELSE messageHistory[k]
  BY <1>1, <1>2, HistoryGrows DEF GossipInv
<1>6. NoDuplicates'
  BY <1>2 DEF LinkInv, NoDuplicates
<1>7. GoesOnce'
  BY <1>1, <1>2, <1>3, <1>4, NewGoroutines DEF GossipInv, LinkInv, GoesOnce
<1>8. WrittenRemembered'
  BY <1>1, <1>2, <1>3, <1>4, <1>5, NewGoroutines DEF GossipInv, LinkInv, WrittenRemembered
<1> QED
  BY <1>6, <1>7, <1>8 DEF LinkInv

LEMMA WriteLink ==
  ASSUME GossipInv, LinkInv, NEW n \in Nodes, NEW p \in Nodes, NEW m \in Messages,
         gossipMessage(n, p, m)
  PROVE  LinkInv'
<1>1. /\ m \in gossiping[n][p]
      /\ gossiping' = [gossiping EXCEPT ![n][p] = @ \ {m}]
      /\ stream' = stream \/ stream' = [stream EXCEPT ![n][p] = Append(@, m)]
      /\ UNCHANGED <<messageHistory, messagePeersHistory>>
  BY DEF gossipMessage
<1>2. /\ ~InStream(n, p, m) /\ m \notin messagePeersHistory[p][n] /\ m \in messageHistory[n]
  BY <1>1 DEF LinkInv, GoesOnce, WrittenRemembered
<1>g. \A k, q \in Nodes : \A x \in Messages :
        x \in gossiping'[k][q] <=> x \in gossiping[k][q] /\ ~(k = n /\ q = p /\ x = m)
  <2>1. gossiping \in [Nodes -> [Nodes -> SUBSET Messages]]
        /\ gossiping[n][p] \ {m} \in SUBSET Messages
    BY DEF GossipInv, TypeOK
  <2>2. \A k, q \in Nodes : gossiping'[k][q] = IF k = n /\ q = p THEN gossiping[n][p] \ {m}
                                                                 ELSE gossiping[k][q]
    BY <1>1, <2>1, Entry
  <2> QED
    BY <2>2
<1>s. \A k, q \in Nodes :
        \/ stream'[k][q] = stream[k][q]
        \/ k = n /\ q = p /\ stream'[k][q] = Append(stream[n][p], m)
  <2>1. stream \in [Nodes -> [Nodes -> Seq(Messages)]] /\ Append(stream[n][p], m) \in Seq(Messages)
    BY DEF GossipInv, TypeOK
  <2>2. CASE stream' = [stream EXCEPT ![n][p] = Append(@, m)]
    BY <2>1, <2>2, Entry
  <2> QED
    BY <1>1, <2>2
<1>a. /\ stream[n][p] \in Seq(Messages) /\ Len(stream[n][p]) \in Nat
      /\ Len(Append(stream[n][p], m)) = Len(stream[n][p]) + 1
      /\ \A i \in 1 .. Len(stream[n][p]) : Append(stream[n][p], m)[i] = stream[n][p][i]
      /\ Append(stream[n][p], m)[Len(stream[n][p]) + 1] = m
  BY DEF GossipInv, TypeOK
<1>3. \A k, q \in Nodes : \A x \in Messages :
        InStream(k, q, x)' => InStream(k, q, x) \/ (k = n /\ q = p /\ x = m)
  <2> SUFFICES ASSUME NEW k \in Nodes, NEW q \in Nodes, NEW x \in Messages, InStream(k, q, x)'
               PROVE  InStream(k, q, x) \/ (k = n /\ q = p /\ x = m)
    OBVIOUS
  <2>1. CASE stream'[k][q] = stream[k][q]
    BY <2>1 DEF InStream
  <2>2. CASE k = n /\ q = p /\ stream'[k][q] = Append(stream[n][p], m)
    <3>1. PICK i \in 1 .. Len(stream[n][p]) + 1 : Append(stream[n][p], m)[i] = x
      BY <1>a, <2>2 DEF InStream
    <3>2. CASE i \in 1 .. Len(stream[n][p])
      BY <1>a, <2>2, <3>1, <3>2 DEF InStream
    <3>3. CASE i = Len(stream[n][p]) + 1
      BY <1>a, <2>2, <3>1, <3>3
    <3> QED
      BY <1>a, <3>1, <3>2, <3>3
  <2> QED
    BY <1>s, <2>1, <2>2
<1>4. NoDuplicates'
  <2> SUFFICES ASSUME NEW k \in Nodes, NEW q \in Nodes,
                      NEW i \in 1 .. Len(stream'[k][q]), NEW j \in 1 .. Len(stream'[k][q]),
                      stream'[k][q][i] = stream'[k][q][j]
               PROVE  i = j
    BY DEF NoDuplicates
  <2>1. CASE stream'[k][q] = stream[k][q]
    BY <2>1 DEF LinkInv, NoDuplicates
  <2>2. CASE k = n /\ q = p /\ stream'[k][q] = Append(stream[n][p], m)
    <3>1. /\ i \in 1 .. Len(stream[n][p]) + 1 /\ j \in 1 .. Len(stream[n][p]) + 1
          /\ Append(stream[n][p], m)[i] = Append(stream[n][p], m)[j]
      BY <1>a, <2>2
    <3>2. \A h \in 1 .. Len(stream[n][p]) : stream[n][p][h] # m
      BY <1>2 DEF InStream
    <3>3. \A h, l \in 1 .. Len(stream[n][p]) : stream[n][p][h] = stream[n][p][l] => h = l
      BY DEF LinkInv, NoDuplicates
    <3>4. CASE i \in 1 .. Len(stream[n][p]) /\ j \in 1 .. Len(stream[n][p])
      BY <1>a, <3>1, <3>3, <3>4
    <3>5. CASE i \in 1 .. Len(stream[n][p]) /\ j = Len(stream[n][p]) + 1
      BY <1>a, <3>1, <3>2, <3>5
    <3>6. CASE j \in 1 .. Len(stream[n][p]) /\ i = Len(stream[n][p]) + 1
      BY <1>a, <3>1, <3>2, <3>6
    <3> QED
      BY <1>a, <3>1, <3>4, <3>5, <3>6
  <2> QED
    BY <1>s, <2>1, <2>2
<1>5. GoesOnce'
  BY <1>1, <1>2, <1>3, <1>g DEF LinkInv, GoesOnce
<1>6. WrittenRemembered'
  BY <1>1, <1>2, <1>3, <1>g DEF LinkInv, WrittenRemembered
<1> QED
  BY <1>4, <1>5, <1>6 DEF LinkInv

LEMMA ReadLink ==
  ASSUME GossipInv, LinkInv, NEW n \in Nodes, NEW p \in Nodes, readData(n, p)
  PROVE  LinkInv'
<1> PICK m : m = Head(stream[p][n])
  OBVIOUS
<1>1. /\ stream[p][n] \in Seq(Messages) /\ stream[p][n] # <<>>
      /\ Len(stream[p][n]) \in Nat /\ 1 \in 1 .. Len(stream[p][n]) /\ stream[p][n][1] = m
      /\ Len(Tail(stream[p][n])) = Len(stream[p][n]) - 1
      /\ \A i \in 1 .. Len(Tail(stream[p][n])) : Tail(stream[p][n])[i] = stream[p][n][i + 1]
  BY DEF readData, GossipInv, TypeOK
<1>2. m \in Messages
  BY <1>1
<1>3. /\ stream' = [stream EXCEPT ![p][n] = Tail(@)]
      /\ messagePeersHistory' = [messagePeersHistory EXCEPT ![n][p] = @ \cup {m}]
  BY DEF readData, NextMessage
<1>4. \/ UNCHANGED <<messageHistory, gossiping>>
      \/ /\ m \notin messageHistory[n]
         /\ messageHistory' = [messageHistory EXCEPT ![n] = @ \cup {m}]
         /\ gossiping' = Gossiped(n, m)
  BY DEF readData, NextMessage, isMessageFirstOccurrence
<1>s. \A k, q \in Nodes :
        stream'[k][q] = IF k = p /\ q = n THEN Tail(stream[p][n]) ELSE stream[k][q]
  <2>1. stream \in [Nodes -> [Nodes -> Seq(Messages)]] /\ Tail(stream[p][n]) \in Seq(Messages)
    BY <1>1 DEF GossipInv, TypeOK
  <2> QED
    BY <1>3, <2>1, Entry
<1>m. \A k, q \in Nodes : \A x \in Messages :
        x \in messagePeersHistory'[k][q] <=>
          x \in messagePeersHistory[k][q] \/ (k = n /\ q = p /\ x = m)
  <2>1. /\ messagePeersHistory \in [Nodes -> [Nodes -> SUBSET Messages]]
        /\ messagePeersHistory[n][p] \cup {m} \in SUBSET Messages
    BY <1>2 DEF GossipInv, TypeOK
  <2>2. \A k, q \in Nodes :
          messagePeersHistory'[k][q] = IF k = n /\ q = p THEN messagePeersHistory[n][p] \cup {m}
                                                         ELSE messagePeersHistory[k][q]
    BY <1>3, <2>1, Entry
  <2> QED
    BY <2>2
<1>5. InStream(p, n, m) /\ m \notin gossiping[p][n] /\ m \in messageHistory[p]
  BY <1>1, <1>2 DEF LinkInv, GoesOnce, WrittenRemembered, InStream
<1>t. \A i \in 1 .. Len(Tail(stream[p][n])) :
        i + 1 \in 1 .. Len(stream[p][n]) /\ i + 1 # 1
  BY <1>1
<1>6. \A k, q \in Nodes : \A x \in Messages :
        InStream(k, q, x)' => InStream(k, q, x) /\ ~(k = p /\ q = n /\ x = m)
  <2> SUFFICES ASSUME NEW k \in Nodes, NEW q \in Nodes, NEW x \in Messages, InStream(k, q, x)'
               PROVE  InStream(k, q, x) /\ ~(k = p /\ q = n /\ x = m)
    OBVIOUS
  <2>1. CASE ~(k = p /\ q = n)
    BY <1>s, <2>1 DEF InStream
  <2>2. CASE k = p /\ q = n
    <3>1. PICK i \in 1 .. Len(Tail(stream[p][n])) : Tail(stream[p][n])[i] = x
      BY <1>s, <2>2 DEF InStream
    <3>2. i + 1 \in 1 .. Len(stream[p][n]) /\ stream[p][n][i + 1] = x /\ i + 1 # 1
      BY <1>1, <1>t, <3>1
    <3>3. stream[p][n][i + 1] # stream[p][n][1]
      BY <1>1, <3>2 DEF LinkInv, NoDuplicates
    <3> QED
      BY <1>1, <2>2, <3>2, <3>3 DEF InStream
  <2> QED
    BY <2>1, <2>2
<1>7. NoDuplicates'
  <2> SUFFICES ASSUME NEW k \in Nodes, NEW q \in Nodes,
                      NEW i \in 1 .. Len(stream'[k][q]), NEW j \in 1 .. Len(stream'[k][q]),
                      stream'[k][q][i] = stream'[k][q][j]
               PROVE  i = j
    BY DEF NoDuplicates
  <2>1. CASE ~(k = p /\ q = n)
    BY <1>s, <2>1 DEF LinkInv, NoDuplicates
  <2>2. CASE k = p /\ q = n
    <3>1. /\ i \in 1 .. Len(Tail(stream[p][n])) /\ j \in 1 .. Len(Tail(stream[p][n]))
          /\ Tail(stream[p][n])[i] = Tail(stream[p][n])[j]
      BY <1>s, <2>2
    <3>2. /\ i + 1 \in 1 .. Len(stream[p][n]) /\ j + 1 \in 1 .. Len(stream[p][n])
          /\ stream[p][n][i + 1] = stream[p][n][j + 1]
      BY <1>1, <1>t, <3>1
    <3>3. i + 1 = j + 1
      BY <3>2 DEF LinkInv, NoDuplicates
    <3> QED
      BY <1>1, <3>1, <3>3
  <2> QED
    BY <2>1, <2>2
<1>8. CASE UNCHANGED <<messageHistory, gossiping>>
  <2>1. GoesOnce'
    BY <1>5, <1>6, <1>m, <1>8 DEF LinkInv, GoesOnce
  <2>2. WrittenRemembered'
    BY <1>5, <1>6, <1>m, <1>8 DEF LinkInv, WrittenRemembered
  <2> QED
    BY <1>7, <2>1, <2>2 DEF LinkInv
<1>9. CASE /\ m \notin messageHistory[n]
           /\ messageHistory' = [messageHistory EXCEPT ![n] = @ \cup {m}]
           /\ gossiping' = Gossiped(n, m)
  <2>1. \A k \in Nodes : messageHistory'[k] = IF k = n THEN messageHistory[k] \cup {m}
                                                       ELSE messageHistory[k]
    BY <1>2, <1>9, HistoryGrows DEF GossipInv
  <2>2. n # p
    BY <1>5, <1>9
  <2>3. \A k, q \in Nodes : \A x \in Messages :
          x \in gossiping'[k][q] => x \in gossiping[k][q] \/ (k = n /\ x = m)
    BY <1>2, <1>9, NewGoroutines DEF GossipInv
  <2>4. \A q \in Nodes : /\ m \notin gossiping[n][q] /\ ~InStream(n, q, m)
                         /\ m \notin messagePeersHistory[q][n]
    BY <1>2, <1>9, NewGoroutines DEF GossipInv
  <2>5. GoesOnce'
    BY <1>5, <1>6, <1>m, <2>2, <2>3, <2>4 DEF LinkInv, GoesOnce
  <2>6. WrittenRemembered'
    <3> SUFFICES ASSUME NEW k \in Nodes, NEW q \in Nodes, NEW x \in Messages,
                        \/ x \in gossiping'[k][q]
                        \/ InStream(k, q, x)'
                        \/ x \in messagePeersHistory'[q][k]
                 PROVE  x \in messageHistory'[k]
      BY DEF WrittenRemembered
    <3>1. x \in messageHistory[k] => x \in messageHistory'[k]
      BY <2>1
    <3>2. \/ x \in gossiping[k][q] \/ InStream(k, q, x) \/ x \in messagePeersHistory[q][k]
          \/ k = n /\ x = m
          \/ k = p /\ x = m
      BY <1>6, <1>m, <2>3
    <3>3. k = n /\ x = m => x \in messageHistory'[k]
      BY <2>1
    <3> QED
      BY <1>5, <3>1, <3>2, <3>3 DEF LinkInv, WrittenRemembered
  <2> QED
    BY <1>7, <2>5, <2>6 DEF LinkInv
<1> QED
  BY <1>4, <1>8, <1>9

LEMMA LinkStep ==
  ASSUME GossipInv, LinkInv, [Next]_vars
  PROVE  LinkInv'
<1>1. ASSUME UNCHANGED <<stream, gossiping, messageHistory, messagePeersHistory>>
      PROVE  LinkInv'
  BY <1>1 DEF LinkInv, NoDuplicates, GoesOnce, WrittenRemembered, InStream
<1>2. CASE UNCHANGED vars
  BY <1>1, <1>2 DEF vars
<1>3. ASSUME NEW n \in Nodes, NEW p \in Nodes, EndProcessing(n, p)
      PROVE  LinkInv'
  BY <1>1, <1>3 DEF EndProcessing
<1> QED
  BY <1>2, <1>3, BroadcastLink, WriteLink, ReadLink DEF Next

LEMMA LinkInvariant == Spec => [](TypeOK /\ LinkInv)
<1>1. GossipInv => TypeOK
  BY DEF GossipInv
<1> QED
  BY <1>1, LinkInit, LinkStep, GossipInvariant, PTL DEF Spec

\* A set whose elements are all equal
LEMMA AtMostOne ==
  ASSUME NEW S, \A x, y \in S : x = y
  PROVE  Cardinality(S) <= 1
<1>1. CASE S = {}
  BY <1>1, FS_EmptySet
<1>2. ASSUME NEW x \in S
      PROVE  Cardinality(S) = 1
  <2>1. S = {x}
    OBVIOUS
  <2> QED
    BY <2>1, FS_Singleton
<1> QED
  BY <1>1, <1>2

(***************************************************************************)
(* In every network a message crosses a link at most once in each          *)
(* direction, so gossip ends.                                              *)
(***************************************************************************)
THEOREM CrossesOnce == Spec => []OneCopyPerLink
<1>1. ASSUME TypeOK, LinkInv
      PROVE  OneCopyPerLink
  <2> SUFFICES ASSUME NEW n \in Nodes, NEW p \in Nodes, NEW m \in Messages
               PROVE  LET copies == {i \in DOMAIN stream[n][p] : stream[n][p][i] = m}
                      IN  /\ Cardinality(copies) <= 1
                          /\ copies # {} => /\ m \notin gossiping[n][p]
                                            /\ m \notin messagePeersHistory[p][n]
                          /\ m \in gossiping[n][p] => m \notin messagePeersHistory[p][n]
    BY DEF OneCopyPerLink
  <2> DEFINE copies == {i \in DOMAIN stream[n][p] : stream[n][p][i] = m}
  <2>1. DOMAIN stream[n][p] = 1 .. Len(stream[n][p])
    BY <1>1 DEF TypeOK
  <2>2. \A i, j \in copies : i = j
    BY <1>1, <2>1 DEF LinkInv, NoDuplicates
  <2>3. copies # {} => InStream(n, p, m)
    BY <2>1 DEF InStream
  <2>4. /\ InStream(n, p, m) => m \notin gossiping[n][p] /\ m \notin messagePeersHistory[p][n]
        /\ m \in gossiping[n][p] => m \notin messagePeersHistory[p][n]
    BY <1>1 DEF LinkInv, GoesOnce
  <2> HIDE DEF copies
  <2>5. Cardinality(copies) <= 1
    BY <2>2, AtMostOne
  <2>6. copies # {} => m \notin gossiping[n][p] /\ m \notin messagePeersHistory[p][n]
    BY <2>3, <2>4
  <2> QED
    BY <2>4, <2>5, <2>6 DEF copies
<1> QED
  BY <1>1, LinkInvariant, PTL

-----------------------------------------------------------------------------

(***************************************************************************)
(* The safety half of the refinement: whatever gossip does is a step of    *)
(* the broadcast channel or invisible to its users.                        *)
(***************************************************************************)
THEOREM GossipIsChannel == Spec => Channel!Spec
<1> DEFINE handed == [n \in Nodes |-> {m \in Messages : processed[n][m] > 0}]
<1>1. Init => Channel!Init
  BY DEF Init, Channel!Init
<1>2. ASSUME GossipInv, [Next]_vars
      PROVE  [Channel!Next]_(Channel!channelVars)
  <2>1. CASE UNCHANGED vars
    BY <2>1 DEF vars, Channel!channelVars
  <2>2. ASSUME NEW m \in Messages, sendMessageBroadcast(m)
        PROVE  Channel!Broadcast(m)
    BY <2>2 DEF sendMessageBroadcast, Channel!Broadcast
  <2>3. ASSUME NEW n \in Nodes, NEW p \in Nodes,
               readData(n, p) \/ \E m \in Messages : gossipMessage(n, p, m)
        PROVE  UNCHANGED Channel!channelVars
    BY <2>3 DEF readData, gossipMessage, Channel!channelVars
  <2>4. ASSUME NEW n \in Nodes, NEW p \in Nodes, EndProcessing(n, p)
        PROVE  \E m \in Messages : Channel!Deliver(n, m)
    <3> PICK m : m = processing[n][p]
      OBVIOUS
    <3>1. /\ m \in Messages /\ UNCHANGED sent
          /\ processed' = [processed EXCEPT ![n][m] = @ + 1]
      BY <1>2, <2>4 DEF EndProcessing, GossipInv, TypeOK
    <3>2. m \in sent /\ Origin[m] # n /\ processed[n][m] = 0
      BY <1>2, <3>1 DEF GossipInv, ProcessingOnce, OnlySent
    <3>3. \A k \in Nodes, x \in Messages :
            processed'[k][x] = IF k = n /\ x = m THEN 1 ELSE processed[k][x]
      BY <1>2, <3>1, <3>2 DEF GossipInv, TypeOK
    <3>4. handed' = [handed EXCEPT ![n] = @ \cup {m}]
      <4>1. \A k \in Nodes : {x \in Messages : processed'[k][x] > 0}
              = IF k = n THEN handed[n] \cup {m} ELSE handed[k]
        BY <3>1, <3>3
      <4> QED
        BY <4>1
    <3>5. m \notin handed[n]
      BY <3>2
    <3> QED
      BY <3>1, <3>2, <3>4, <3>5 DEF Channel!Deliver
  <2> QED
    BY <1>2, <2>1, <2>2, <2>3, <2>4 DEF Next, Channel!Next
<1> QED
  BY <1>1, <1>2, GossipInvariant, PTL DEF Spec, Channel!Spec

-----------------------------------------------------------------------------
(* Everybody is reached *)

\* A node in whose history a message is has it from somebody or has still to write it to him
Forwarded ==
  \A n \in Nodes : \A m \in messageHistory[n] : \A p \in Peers[n] :
    m \in messageHistory[p] \/ m \in gossiping[n][p] \/ InStream(n, p, m)

\* What is in the history is handled, except at its origin
HandledOrInHand ==
  \A n \in Nodes : \A m \in messageHistory[n] : n # Origin[m] =>
    processed[n][m] = 1 \/ \E p \in Nodes : processing[n][p] = m

FloodInv == GossipInv /\ LinkInv /\ Forwarded /\ HandledOrInHand

\* No goroutine, stream or handler has the message any more
Quiet(m) ==
  \A n, p \in Nodes : m \notin gossiping[n][p] /\ ~InStream(n, p, m) /\ processing[n][p] # m

ReachedAll ==
  \A m \in sent : Quiet(m) => \A n \in Nodes \ {Origin[m]} : processed[n][m] = 1

\* No part of the network is without a peer outside
Connected ==
  \A S \in SUBSET Nodes : S # {} /\ (\A n \in S : Peers[n] \subseteq S) => S = Nodes

LEMMA PeersAreNodes ==
  /\ \A n \in Nodes : \A p \in Peers[n] : p \in Nodes
  /\ \A m \in Messages : Origin[m] \in Nodes /\ m # None
BY PeersAssumption, MessagesAssumption

\* The goroutines that are started
LEMMA StartedGoroutines ==
  ASSUME TypeOK, NEW n \in Nodes, NEW m \in Messages
  PROVE  /\ \A p \in Peers[n] : m \in Gossiped(n, m)[n][p]
         /\ \A k, p \in Nodes : gossiping[k][p] \subseteq Gossiped(n, m)[k][p]
BY PeersAreNodes DEF Gossiped, TypeOK

LEMMA FloodInit == Init => FloodInv
<1>1. Init => Forwarded /\ HandledOrInHand
  BY DEF Init, Forwarded, HandledOrInHand
<1> QED
  BY <1>1, GossipInit, LinkInit DEF FloodInv

LEMMA BroadcastFlood ==
  ASSUME FloodInv, NEW m \in Messages, sendMessageBroadcast(m)
  PROVE  Forwarded' /\ HandledOrInHand'
<1> DEFINE n == Origin[m]
<1>1. /\ n \in Nodes /\ messageHistory' = [messageHistory EXCEPT ![n] = @ \cup {m}]
      /\ gossiping' = Gossiped(n, m) /\ UNCHANGED <<stream, processing, processed>>
  BY PeersAreNodes DEF sendMessageBroadcast, Remembered
<1>0. n = Origin[m]
  OBVIOUS
<1> HIDE DEF n
<1>2. \A k \in Nodes : messageHistory'[k] = IF k = n THEN messageHistory[k] \cup {m}
                                                     ELSE messageHistory[k]
  BY <1>1, HistoryGrows DEF FloodInv, GossipInv
<1>3. /\ \A p \in Peers[n] : m \in gossiping'[n][p]
      /\ \A k, p \in Nodes : gossiping[k][p] \subseteq gossiping'[k][p]
  BY <1>1, StartedGoroutines DEF FloodInv, GossipInv
<1>4. \A k, p \in Nodes : \A x : InStream(k, p, x)' <=> InStream(k, p, x)
  BY <1>1 DEF InStream
<1>5. Forwarded'
  <2> SUFFICES ASSUME NEW k \in Nodes, NEW x \in messageHistory'[k], NEW q \in Peers[k]
               PROVE  x \in messageHistory'[q] \/ x \in gossiping'[k][q] \/ InStream(k, q, x)'
    BY DEF Forwarded
  <2>1. q \in Nodes
    BY PeersAreNodes
  <2>2. CASE x \in messageHistory[k]
    <3>1. x \in messageHistory[q] \/ x \in gossiping[k][q] \/ InStream(k, q, x)
      BY <2>2 DEF FloodInv, Forwarded
    <3> QED
      BY <1>2, <1>3, <1>4, <2>1, <3>1
  <2>3. CASE x \notin messageHistory[k]
    BY <1>2, <1>3, <2>3
  <2> QED
    BY <2>2, <2>3
<1>6. HandledOrInHand'
  BY <1>0, <1>1, <1>2 DEF FloodInv, HandledOrInHand
<1> QED
  BY <1>5, <1>6

LEMMA WriteFlood ==
  ASSUME FloodInv, NEW n \in Nodes, NEW p \in Nodes, NEW m \in Messages, gossipMessage(n, p, m)
  PROVE  Forwarded' /\ HandledOrInHand'
<1>1. /\ gossiping' = [gossiping EXCEPT ![n][p] = @ \ {m}]
      /\ UNCHANGED <<messageHistory, messagePeersHistory, processing, processed>>
      /\ IF m \in messagePeersHistory[n][p] THEN UNCHANGED stream
         ELSE stream' = [stream EXCEPT ![n][p] = Append(@, m)]
  BY DEF gossipMessage, messageAlreadyReceived
<1>2. \A k, q \in Nodes : \A x \in gossiping[k][q] :
        x \in gossiping'[k][q] \/ (k = n /\ q = p /\ x = m)
  <2>1. /\ gossiping \in [Nodes -> [Nodes -> SUBSET Messages]]
        /\ gossiping[n][p] \ {m} \in SUBSET Messages
    BY DEF FloodInv, GossipInv, TypeOK
  <2>2. \A k, q \in Nodes : gossiping'[k][q] = IF k = n /\ q = p THEN gossiping[n][p] \ {m}
                                                                 ELSE gossiping[k][q]
    BY <1>1, <2>1, Entry
  <2> QED
    BY <2>2
<1>3. /\ \A k, q \in Nodes : \A x : InStream(k, q, x) => InStream(k, q, x)'
      /\ m \in messagePeersHistory[n][p] \/ InStream(n, p, m)'
  <2>1. CASE m \in messagePeersHistory[n][p]
    BY <1>1, <2>1 DEF InStream
  <2>2. CASE m \notin messagePeersHistory[n][p]
    <3>0. stream' = [stream EXCEPT ![n][p] = Append(stream[n][p], m)]
      BY <1>1, <2>2
    <3>1. stream \in [Nodes -> [Nodes -> Seq(Messages)]] /\ stream[n][p] \in Seq(Messages)
      BY DEF FloodInv, GossipInv, TypeOK
    <3>2. /\ Append(stream[n][p], m) \in Seq(Messages)
          /\ Len(stream[n][p]) \in Nat /\ Len(Append(stream[n][p], m)) = Len(stream[n][p]) + 1
          /\ \A i \in 1 .. Len(stream[n][p]) : Append(stream[n][p], m)[i] = stream[n][p][i]
          /\ Append(stream[n][p], m)[Len(stream[n][p]) + 1] = m
      BY <3>1
    <3>3. \A k, q \in Nodes : stream'[k][q] = IF k = n /\ q = p THEN Append(stream[n][p], m)
                                                                ELSE stream[k][q]
      BY <3>0, <3>1, <3>2, Entry
    <3>4. InStream(n, p, m)' /\ \A x : InStream(n, p, x) => InStream(n, p, x)'
      <4>1. stream'[n][p] = Append(stream[n][p], m)
        BY <3>3
      <4>2. /\ Len(stream'[n][p]) = Len(stream[n][p]) + 1
            /\ stream'[n][p][Len(stream[n][p]) + 1] = m
            /\ \A i \in 1 .. Len(stream[n][p]) : stream'[n][p][i] = stream[n][p][i]
        BY <3>2, <4>1
      <4>3. InStream(n, p, m)'
        BY <3>2, <4>2 DEF InStream
      <4>4. ASSUME NEW x, InStream(n, p, x) PROVE InStream(n, p, x)'
        <5>1. PICK i \in 1 .. Len(stream[n][p]) : stream[n][p][i] = x
          BY <4>4 DEF InStream
        <5>2. i \in 1 .. Len(stream'[n][p]) /\ stream'[n][p][i] = x
          BY <3>2, <4>2, <5>1
        <5> QED
          BY <5>2 DEF InStream
      <4> QED
        BY <4>3, <4>4
    <3>5. \A k, q \in Nodes : ~(k = n /\ q = p) => \A x : InStream(k, q, x) => InStream(k, q, x)'
      BY <3>3 DEF InStream
    <3> QED
      BY <3>4, <3>5
  <2> QED
    BY <2>1, <2>2
<1>4. m \in messagePeersHistory[n][p] => m \in messageHistory[p]
  BY DEF FloodInv, LinkInv, WrittenRemembered
<1>5. Forwarded'
  BY <1>1, <1>2, <1>3, <1>4, PeersAreNodes DEF FloodInv, Forwarded
<1>6. HandledOrInHand'
  BY <1>1 DEF FloodInv, HandledOrInHand
<1> QED
  BY <1>5, <1>6

LEMMA ReadFlood ==
  ASSUME FloodInv, NEW n \in Nodes, NEW p \in Nodes, readData(n, p)
  PROVE  Forwarded' /\ HandledOrInHand'
<1> PICK m : m = Head(stream[p][n])
  OBVIOUS
<1>1. /\ stream[p][n] \in Seq(Messages) /\ stream[p][n] # <<>> /\ processing[n][p] = None
      /\ Len(stream[p][n]) \in Nat /\ 1 \in 1 .. Len(stream[p][n]) /\ stream[p][n][1] = m
      /\ Tail(stream[p][n]) \in Seq(Messages)
      /\ Len(Tail(stream[p][n])) = Len(stream[p][n]) - 1
      /\ \A i \in 1 .. Len(Tail(stream[p][n])) : Tail(stream[p][n])[i] = stream[p][n][i + 1]
  BY DEF readData, FloodInv, GossipInv, TypeOK
<1>2. m \in Messages /\ m # None
  BY <1>1, PeersAreNodes
<1>3. /\ stream' = [stream EXCEPT ![p][n] = Tail(@)]
      /\ UNCHANGED processed
      /\ IF m \notin messageHistory[n]
         THEN /\ messageHistory' = [messageHistory EXCEPT ![n] = @ \cup {m}]
              /\ gossiping' = Gossiped(n, m)
              /\ processing' = [processing EXCEPT ![n][p] = m]
         ELSE UNCHANGED <<messageHistory, gossiping, processing>>
  BY DEF readData, NextMessage, isMessageFirstOccurrence
<1>4. \A k, q \in Nodes :
        stream'[k][q] = IF k = p /\ q = n THEN Tail(stream[p][n]) ELSE stream[k][q]
  <2>1. stream \in [Nodes -> [Nodes -> Seq(Messages)]] /\ Tail(stream[p][n]) \in Seq(Messages)
    BY <1>1 DEF FloodInv, GossipInv, TypeOK
  <2>2. stream' = [stream EXCEPT ![p][n] = Tail(stream[p][n])]
    BY <1>3
  <2> QED
    BY <2>1, <2>2, Entry
<1>5. \A k, q \in Nodes : \A x : InStream(k, q, x) => InStream(k, q, x)' \/ (q = n /\ x = m)
  <2> SUFFICES ASSUME NEW k \in Nodes, NEW q \in Nodes, NEW x, InStream(k, q, x), ~(q = n /\ x = m)
               PROVE  InStream(k, q, x)'
    OBVIOUS
  <2>1. CASE k = p /\ q = n
    <3>1. PICK i \in 1 .. Len(stream[p][n]) : stream[p][n][i] = x
      BY <2>1 DEF InStream
    <3>2. i # 1
      BY <1>1, <2>1, <3>1
    <3>3. i - 1 \in 1 .. Len(Tail(stream[p][n]))
      BY <1>1, <3>1, <3>2
    <3>4. Tail(stream[p][n])[i - 1] = x
      BY <1>1, <3>1, <3>3
    <3> QED
      BY <1>4, <2>1, <3>3, <3>4 DEF InStream
  <2>2. CASE ~(k = p /\ q = n)
    BY <1>4, <2>2 DEF InStream
  <2> QED
    BY <2>1, <2>2
<1>6. /\ \A k \in Nodes : messageHistory[k] \subseteq messageHistory'[k]
      /\ \A k \in Nodes : \A x \in messageHistory'[k] : x \in messageHistory[k] \/ (k = n /\ x = m)
      /\ m \in messageHistory'[n]
      /\ \A k, q \in Nodes : gossiping[k][q] \subseteq gossiping'[k][q]
      /\ m \notin messageHistory[n] => \A q \in Peers[n] : m \in gossiping'[n][q]
  <2>1. CASE m \in messageHistory[n]
    BY <1>3, <2>1
  <2>2. CASE m \notin messageHistory[n]
    <3>1. \A k \in Nodes : messageHistory'[k] = IF k = n THEN messageHistory[k] \cup {m}
                                                         ELSE messageHistory[k]
      BY <1>2, <1>3, <2>2, HistoryGrows DEF FloodInv, GossipInv
    <3>2. /\ \A q \in Peers[n] : m \in gossiping'[n][q]
          /\ \A k, q \in Nodes : gossiping[k][q] \subseteq gossiping'[k][q]
      BY <1>2, <1>3, <2>2, StartedGoroutines DEF FloodInv, GossipInv
    <3> QED
      BY <3>1, <3>2
  <2> QED
    BY <2>1, <2>2
<1>7. Forwarded'
  <2> SUFFICES ASSUME NEW k \in Nodes, NEW x \in messageHistory'[k], NEW q \in Peers[k]
               PROVE  x \in messageHistory'[q] \/ x \in gossiping'[k][q] \/ InStream(k, q, x)'
    BY DEF Forwarded
  <2>1. q \in Nodes
    BY PeersAreNodes
  <2>2. CASE x \in messageHistory[k]
    <3>1. x \in messageHistory[q] \/ x \in gossiping[k][q] \/ InStream(k, q, x)
      BY <2>2 DEF FloodInv, Forwarded
    <3> QED
      BY <1>5, <1>6, <2>1, <3>1
  <2>3. CASE x \notin messageHistory[k]
    BY <1>6, <2>3
  <2> QED
    BY <2>2, <2>3
<1>8. HandledOrInHand'
  <2>1. \A k, q \in Nodes : processing[k][q] # None => processing'[k][q] = processing[k][q]
    <3>1. processing \in [Nodes -> [Nodes -> Messages \cup {None}]] /\ m \in Messages \cup {None}
      BY <1>2 DEF FloodInv, GossipInv, TypeOK
    <3>2. CASE processing' = [processing EXCEPT ![n][p] = m]
      BY <1>1, <3>1, <3>2, Entry
    <3> QED
      BY <1>3, <3>2
  <2>2. m \notin messageHistory[n] => processing'[n][p] = m
    <3>1. processing \in [Nodes -> [Nodes -> Messages \cup {None}]] /\ m \in Messages \cup {None}
      BY <1>2 DEF FloodInv, GossipInv, TypeOK
    <3> QED
      BY <1>3, <3>1, Entry
  <2>3. \A k \in Nodes : \A x \in messageHistory[k] : x # None
    BY PeersAreNodes DEF FloodInv, GossipInv, TypeOK
  <2> QED
    BY <1>3, <1>6, <2>1, <2>2, <2>3 DEF FloodInv, HandledOrInHand
<1> QED
  BY <1>7, <1>8

LEMMA ProcessFlood ==
  ASSUME FloodInv, NEW n \in Nodes, NEW p \in Nodes, EndProcessing(n, p)
  PROVE  Forwarded' /\ HandledOrInHand'
<1> PICK m : m = processing[n][p]
  OBVIOUS
<1>1. /\ m \in Messages
      /\ processed' = [processed EXCEPT ![n][m] = @ + 1]
      /\ processing' = [processing EXCEPT ![n][p] = None]
      /\ UNCHANGED <<messageHistory, gossiping, stream>>
  BY DEF EndProcessing, FloodInv, GossipInv, TypeOK
<1>2. processed[n][m] = 0
  BY <1>1 DEF FloodInv, GossipInv, ProcessingOnce
<1>3. /\ \A k, q \in Nodes :
           processing'[k][q] = IF k = n /\ q = p THEN None ELSE processing[k][q]
      /\ \A k \in Nodes, x \in Messages :
           processed'[k][x] = IF k = n /\ x = m THEN 1 ELSE processed[k][x]
  <2>1. /\ processed \in [Nodes -> [Messages -> Nat]] /\ processed[n][m] + 1 = 1
        /\ processing \in [Nodes -> [Nodes -> Messages \cup {None}]]
    BY <1>2 DEF FloodInv, GossipInv, TypeOK
  <2> QED
    BY <1>1, <2>1, Entry
<1>4. Forwarded'
  BY <1>1 DEF FloodInv, Forwarded, InStream
<1>5. HandledOrInHand'
  <2>1. \A k \in Nodes : messageHistory[k] \subseteq Messages
    BY DEF FloodInv, GossipInv, TypeOK
  <2> QED
    BY <1>1, <1>3, <2>1 DEF FloodInv, HandledOrInHand
<1> QED
  BY <1>4, <1>5

LEMMA FloodStep == FloodInv /\ [Next]_vars => FloodInv'
<1> SUFFICES ASSUME FloodInv, [Next]_vars PROVE FloodInv'
  OBVIOUS
<1>1. GossipInv' /\ LinkInv'
  BY GossipStep, LinkStep DEF FloodInv
<1>2. CASE UNCHANGED vars
  BY <1>1, <1>2 DEF vars, FloodInv, Forwarded, HandledOrInHand, InStream
<1> QED
  BY <1>1, <1>2, BroadcastFlood, WriteFlood, ReadFlood, ProcessFlood DEF Next, FloodInv

LEMMA QuietMeansReached ==
  ASSUME FloodInv, Connected, NEW m \in sent, Quiet(m)
  PROVE  \A n \in Nodes \ {Origin[m]} : processed[n][m] = 1
<1> DEFINE S == {n \in Nodes : m \in messageHistory[n]}
<1>1. m \in Messages /\ Origin[m] \in Nodes
  BY PeersAreNodes DEF FloodInv, GossipInv, TypeOK
<1>2. Origin[m] \in S
  BY <1>1 DEF FloodInv, GossipInv, OriginRemembers
<1>3. \A n \in S : Peers[n] \subseteq S
  BY PeersAreNodes DEF FloodInv, Forwarded, Quiet
<1>4. S = Nodes
  BY <1>2, <1>3 DEF Connected
<1> QED
  BY <1>4 DEF FloodInv, HandledOrInHand, Quiet

(***************************************************************************)
(* The safety part of ImplementsChannel that its steps do not show: in a   *)
(* connected network no message is lost on the way.  When no goroutine,    *)
(* stream or handler has it any more, every node but the origin has        *)
(* processed it, although a peer that is known to have a message is left   *)
(* out.  As a message crosses a link once (CrossesOnce), this comes.       *)
(***************************************************************************)
THEOREM ReachesEverybody ==
  ASSUME Connected
  PROVE  Spec => []ReachedAll
<1>1. FloodInv => ReachedAll
  BY QuietMeansReached DEF ReachedAll
<1> QED
  BY <1>1, FloodInit, FloodStep, PTL DEF Spec

=============================================================================
