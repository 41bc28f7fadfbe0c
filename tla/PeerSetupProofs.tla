--------------------------- MODULE PeerSetupProofs ---------------------------
(***************************************************************************)
(* Theorems about PeerSetup, for every network, whatever the               *)
(* configurations say and however the goroutines of a node interleave.     *)
(***************************************************************************)
EXTENDS PeerSetup, TLAPS, FiniteSetTheorems

\* A node that dials is never called back on that link, has no placeholder for it and, once
\* it has dialled, has reached the right host, which was called
DialledRight ==
  \A n \in Nodes : \A p \in Peers[n] : Dials(n, p) =>
    /\ callbacks[n][p] = "none" /\ streams[n][p] # "placeholder" /\ links[n][p] # "placing"
    /\ links[n][p] # "start" => callbacks[p][n] # "none" /\ address[p] = p
    /\ streams[n][p] # "none" => links[n][p] # "start"

\* An entry is replaced, never removed
ReportedFull == \A n \in Nodes : sendReadyMessageState[n] => MapFull(n)

ReadyOnce == nodesReady = Cardinality({n \in Nodes : sendReadyMessageState[n]})

(***************************************************************************)
(* The operator sees a number.  That it is N says that every node has      *)
(* reported (ReadyOnce), hence an entry for each peer (ReportedFull), and  *)
(* an entry of a node that dials is no placeholder (DialledRight).         *)
(***************************************************************************)
SetupInv == TypeOK /\ DialledRight /\ ReportedFull /\ ReadyOnce

-----------------------------------------------------------------------------

LinkStates == {"start", "placing", "store", "storing", "count", "done"}
CallbackStates == {"none", "called", "storing", "count", "done"}

CallbackBecomes(n, p, to) == callbacks' = [callbacks EXCEPT ![n][p] = to]

\* The two kinds of goroutines, one step further
LEMMA LinkGone ==
  ASSUME TypeOK, NEW n \in Nodes, NEW p \in Nodes, NEW from, NEW to \in LinkStates,
         LinkGoes(n, p, from, to)
  PROVE  /\ links' \in [Nodes -> [Nodes -> LinkStates]] /\ links[n][p] = from
         /\ \A k, q \in Nodes : links'[k][q] = IF k = n /\ q = p THEN to ELSE links[k][q]
<1>1. links \in [Nodes -> [Nodes -> LinkStates]]
  BY DEF TypeOK, LinkStates
<1>2. links' = [links EXCEPT ![n][p] = to] /\ links[n][p] = from
  BY DEF LinkGoes
<1> QED
  BY <1>1, <1>2

LEMMA CallbackGone ==
  ASSUME TypeOK, NEW n \in Nodes, NEW p \in Nodes, NEW to \in CallbackStates,
         CallbackBecomes(n, p, to)
  PROVE  /\ callbacks' \in [Nodes -> [Nodes -> CallbackStates]]
         /\ \A k, q \in Nodes : callbacks'[k][q] = IF k = n /\ q = p THEN to ELSE callbacks[k][q]
<1>1. callbacks \in [Nodes -> [Nodes -> CallbackStates]]
  BY DEF TypeOK, CallbackStates
<1> QED
  BY <1>1 DEF CallbackBecomes

\* An entry is added or replaced, or the write is lost to another one
LEMMA Written ==
  ASSUME TypeOK, NEW n \in Nodes, NEW p \in Nodes, NEW entry \in {"placeholder", "open"},
         EndWrite(n, p, entry)
  PROVE  /\ streams' \in [Nodes -> [Nodes -> {"none", "placeholder", "open"}]]
         /\ \A k, q \in Nodes : \/ streams'[k][q] = streams[k][q]
                                \/ k = n /\ q = p /\ streams'[k][q] = entry
<1>1. streams \in [Nodes -> [Nodes -> {"none", "placeholder", "open"}]]
  BY DEF TypeOK
<1>2. CASE streams' = [streams EXCEPT ![n][p] = entry]
  <2>1. \A k, q \in Nodes : streams'[k][q] = IF k = n /\ q = p THEN entry ELSE streams[k][q]
    BY <1>1, <1>2
  <2>2. streams' \in [Nodes -> [Nodes -> {"none", "placeholder", "open"}]]
    BY <1>1, <1>2
  <2> QED
    BY <2>1, <2>2
<1>3. CASE UNCHANGED streams
  BY <1>1, <1>3
<1> QED
  BY <1>2, <1>3 DEF EndWrite

\* A node that reports counts once, and has an entry for each peer
LEMMA Reported ==
  ASSUME SetupInv, NEW n \in Nodes, ReportIfFull(n), UNCHANGED streams
  PROVE  /\ sendReadyMessageState' \in [Nodes -> BOOLEAN] /\ nodesReady' \in 0 .. Cardinality(Nodes)
         /\ ReportedFull' /\ ReadyOnce'
<1> DEFINE R == {k \in Nodes : sendReadyMessageState[k]}
<1>1. sendReadyMessageState \in [Nodes -> BOOLEAN] /\ nodesReady = Cardinality(R)
  BY DEF SetupInv, TypeOK, ReadyOnce
<1>2. CASE MapFull(n) /\ ~sendReadyMessageState[n]
  <2>1. /\ sendReadyMessageState' = [sendReadyMessageState EXCEPT ![n] = TRUE]
        /\ nodesReady' = nodesReady + 1
    BY <1>2 DEF ReportIfFull, sendRabbitMqReadyMessage
  <2>2. /\ sendReadyMessageState' \in [Nodes -> BOOLEAN]
        /\ \A k \in Nodes : sendReadyMessageState'[k] <=> (k = n \/ sendReadyMessageState[k])
    BY <1>1, <2>1
  <2>3. {k \in Nodes : sendReadyMessageState'[k]} = R \cup {n}
    BY <2>2
  <2>4. n \notin R /\ R \in SUBSET Nodes /\ R \cup {n} \in SUBSET Nodes
    BY <1>2
  <2> HIDE DEF R
  <2>5. IsFiniteSet(R) /\ Cardinality(R \cup {n}) = Cardinality(R) + 1
    BY <2>4, NetworkAssumption, FS_Subset, FS_AddElement
  <2>6. /\ Cardinality(R \cup {n}) <= Cardinality(Nodes)
        /\ Cardinality(R \cup {n}) \in Nat /\ Cardinality(Nodes) \in Nat
    BY <2>4, NetworkAssumption, FS_Subset, FS_CardinalityType
  <2>7. nodesReady' = Cardinality(R \cup {n})
    BY <1>1, <2>1, <2>5
  <2>8. nodesReady' \in 0 .. Cardinality(Nodes)
    BY <2>6, <2>7
  <2>9. ReportedFull'
    BY <1>2, <2>2 DEF SetupInv, ReportedFull, MapFull
  <2> QED
    BY <2>2, <2>3, <2>7, <2>8, <2>9 DEF ReadyOnce
<1>3. CASE ~(MapFull(n) /\ ~sendReadyMessageState[n])
  <2>1. UNCHANGED <<sendReadyMessageState, nodesReady>>
    BY <1>1, <1>3 DEF ReportIfFull, sendRabbitMqReadyMessage
  <2> QED
    BY <2>1 DEF SetupInv, TypeOK, ReportedFull, MapFull, ReadyOnce
<1> QED
  BY <1>2, <1>3

\* Without a report, and with no entry removed, the count stays right
LEMMA NotReported ==
  ASSUME SetupInv, UNCHANGED <<sendReadyMessageState, nodesReady>>,
         \A n, p \in Nodes : streams[n][p] # "none" => streams'[n][p] # "none"
  PROVE  ReportedFull' /\ ReadyOnce'
<1>1. \A n \in Nodes : Peers[n] \subseteq Nodes
  BY NetworkAssumption
<1>2. ReportedFull'
  BY <1>1 DEF SetupInv, ReportedFull, MapFull
<1> QED
  BY <1>2 DEF SetupInv, ReadyOnce

LEMMA SetupInit == Init => SetupInv
<1> SUFFICES ASSUME Init PROVE SetupInv
  OBVIOUS
<1>1. /\ \A n \in Nodes : Peers[n] \subseteq Nodes
      /\ streams = [n \in Nodes |-> [p \in Nodes |-> "none"]]
      /\ callbacks = [n \in Nodes |-> [p \in Nodes |-> "none"]]
      /\ links = [n \in Nodes |-> [p \in Nodes |-> IF p \in Peers[n] THEN "start" ELSE "done"]]
  BY NetworkAssumption DEF Init
<1>2. sendReadyMessageState = [n \in Nodes |-> FALSE] /\ nodesReady = 0
  BY DEF Init
<1>3. Cardinality(Nodes) \in Nat /\ {n \in Nodes : sendReadyMessageState[n]} = {}
  BY <1>2, NetworkAssumption, FS_CardinalityType
<1>4. ReadyOnce
  BY <1>2, <1>3, FS_EmptySet DEF ReadyOnce
<1>5. /\ streams \in [Nodes -> [Nodes -> {"none", "placeholder", "open"}]]
      /\ links \in [Nodes -> [Nodes -> {"start", "placing", "store", "storing", "count", "done"}]]
      /\ callbacks \in [Nodes -> [Nodes -> {"none", "called", "storing", "count", "done"}]]
  BY <1>1
<1>6. /\ nodesReady \in 0 .. Cardinality(Nodes) /\ sendReadyMessageState \in [Nodes -> BOOLEAN]
      /\ address \in Assignments /\ initialised \in [Nodes -> BOOLEAN]
      /\ fate \in [Nodes -> {"up", "raced", "gave_up"}]
  BY <1>2, <1>3 DEF Init
<1>7. TypeOK
  BY <1>5, <1>6 DEF TypeOK
<1>8. DialledRight
  <2>1. \A n \in Nodes : \A p \in Peers[n] :
          callbacks[n][p] = "none" /\ streams[n][p] = "none" /\ links[n][p] = "start"
    BY <1>1
  <2> QED
    BY <2>1 DEF DialledRight
<1>9. ReportedFull
  BY <1>2 DEF ReportedFull
<1> QED
  BY <1>4, <1>7, <1>8, <1>9 DEF SetupInv

LEMMA PeersMet ==
  /\ \A n \in Nodes : \A p \in Peers[n] : p \in Nodes /\ p # n /\ n \in Peers[p]
  /\ \A n, p \in Nodes : ~(Dials(n, p) /\ Listens(n, p)) /\ (Dials(n, p) <=> Listens(p, n))
<1>1. \A n, p \in Nodes : n \in Int /\ p \in Int
  BY NetworkAssumption
<1>2. \A n, p \in Nodes : ~(Dials(n, p) /\ Listens(n, p)) /\ (Dials(n, p) <=> Listens(p, n))
  BY <1>1 DEF Dials, Listens
<1> QED
  BY <1>2, NetworkAssumption

\* A step on a link that does not dial, or is past the dialling
LEMMA DialledKept ==
  ASSUME SetupInv, UNCHANGED address, NEW n \in Nodes, NEW p \in Peers[n],
         \A k, q \in Nodes : \/ links'[k][q] = links[k][q]
                             \/ /\ k = n /\ q = p
                                /\ Dials(n, p) => /\ links[n][p] # "start"
                                                  /\ links'[n][p] \notin {"start", "placing"},
         \A k, q \in Nodes : \/ streams'[k][q] = streams[k][q]
                             \/ /\ k = n /\ q = p
                                /\ Dials(n, p) => links[n][p] # "start" /\ streams'[n][p] = "open",
         \A k, q \in Nodes : \/ callbacks'[k][q] = callbacks[k][q]
                             \/ Listens(k, q) /\ callbacks'[k][q] # "none"
  PROVE  DialledRight'
<1> SUFFICES ASSUME NEW k \in Nodes, NEW q \in Peers[k], Dials(k, q)
             PROVE  /\ callbacks'[k][q] = "none" /\ streams'[k][q] # "placeholder"
                    /\ links'[k][q] # "placing"
                    /\ links'[k][q] # "start" => callbacks'[q][k] # "none" /\ address[q] = q
                    /\ streams'[k][q] # "none" => links'[k][q] # "start"
  BY DEF DialledRight, Dials
<1>1. q \in Nodes /\ ~Listens(k, q)
  BY PeersMet
<1>2. /\ callbacks[k][q] = "none" /\ streams[k][q] # "placeholder" /\ links[k][q] # "placing"
      /\ links[k][q] # "start" => callbacks[q][k] # "none" /\ address[q] = q
      /\ streams[k][q] # "none" => links[k][q] # "start"
  BY DEF SetupInv, DialledRight
<1>3. /\ links'[k][q] # "placing"
      /\ links'[k][q] # "start" <=> links[k][q] # "start"
  BY <1>1, <1>2
<1>4. streams'[k][q] # "placeholder" /\ (streams'[k][q] # "none" => links[k][q] # "start")
  BY <1>1, <1>2
<1>5. callbacks'[k][q] = "none" /\ (callbacks[q][k] # "none" => callbacks'[q][k] # "none")
  BY <1>1, <1>2
<1> QED
  BY <1>2, <1>3, <1>4, <1>5

LEMMA SetupConnect ==
  ASSUME SetupInv, NEW n \in Nodes, NEW p \in Peers[n], connectStream(n, p)
  PROVE  SetupInv'
<1>1. /\ Dials(n, p) /\ address[p] = p /\ p \in Nodes /\ LinkGoes(n, p, "start", "store")
      /\ CallbackBecomes(p, n, "called")
      /\ UNCHANGED <<address, streams, sendReadyMessageState, nodesReady, initialised, fate>>
  BY PeersMet DEF connectStream, Answers, CallbackBecomes
<1>2. /\ links' \in [Nodes -> [Nodes -> LinkStates]]
      /\ \A k, q \in Nodes : links'[k][q] = IF k = n /\ q = p THEN "store" ELSE links[k][q]
  BY <1>1, LinkGone DEF SetupInv, LinkStates
<1>3. /\ callbacks' \in [Nodes -> [Nodes -> CallbackStates]]
      /\ \A k, q \in Nodes : callbacks'[k][q] = IF k = p /\ q = n THEN "called" ELSE callbacks[k][q]
  BY <1>1, CallbackGone DEF SetupInv, CallbackStates
<1>4. TypeOK'
  BY <1>1, <1>2, <1>3 DEF SetupInv, TypeOK, LinkStates, CallbackStates
<1>5. DialledRight'
  <2> SUFFICES ASSUME NEW k \in Nodes, NEW q \in Peers[k], Dials(k, q)
               PROVE  /\ callbacks'[k][q] = "none" /\ streams[k][q] # "placeholder"
                      /\ links'[k][q] # "placing"
                      /\ links'[k][q] # "start" => callbacks'[q][k] # "none" /\ address[q] = q
                      /\ streams[k][q] # "none" => links'[k][q] # "start"
    BY <1>1 DEF DialledRight, Dials
  <2>1. q \in Nodes /\ ~(k = p /\ q = n)
    BY <1>1, PeersMet
  <2>2. /\ callbacks[k][q] = "none" /\ streams[k][q] # "placeholder" /\ links[k][q] # "placing"
        /\ links[k][q] # "start" => callbacks[q][k] # "none" /\ address[q] = q
        /\ streams[k][q] # "none" => links[k][q] # "start"
    BY DEF SetupInv, DialledRight
  <2> QED
    BY <1>1, <1>2, <1>3, <2>1, <2>2
<1>6. ReportedFull' /\ ReadyOnce'
  BY <1>1, NotReported
<1> QED
  BY <1>4, <1>5, <1>6 DEF SetupInv

LEMMA SetupLink ==
  ASSUME SetupInv, NEW n \in Nodes, NEW p \in Peers[n],
         \/ BeginCreateStream(n, p) \/ EndCreateStream(n, p) \/ GiveUp(n, p)
         \/ BeginStore(n, p) \/ EndStore(n, p) \/ LinkCounts(n, p)
  PROVE  SetupInv'
<1>1. /\ p \in Nodes /\ TypeOK
      /\ UNCHANGED <<address, callbacks, initialised>>
  BY PeersMet
     DEF BeginCreateStream, EndCreateStream, GiveUp, BeginStore, EndStore, LinkCounts, SetupInv
<1>2. /\ links' \in [Nodes -> [Nodes -> LinkStates]]
      /\ \A k, q \in Nodes : \/ links'[k][q] = links[k][q]
                             \/ /\ k = n /\ q = p
                                /\ Dials(n, p) => /\ links[n][p] # "start"
                                                  /\ links'[n][p] \notin {"start", "placing"}
  <2>1. CASE GiveUp(n, p)
    BY <1>1, <2>1 DEF GiveUp, TypeOK, LinkStates
  <2>2. CASE BeginCreateStream(n, p)
    <3>1. ~Dials(n, p) /\ LinkGoes(n, p, "start", "placing")
      BY <1>1, <2>2, PeersMet DEF BeginCreateStream
    <3> QED
      BY <1>1, <3>1, LinkGone DEF LinkStates
  <2>3. CASE EndCreateStream(n, p)
    <3>1. LinkGoes(n, p, "placing", "done")
      BY <2>3 DEF EndCreateStream
    <3> QED
      BY <1>1, <3>1, LinkGone DEF LinkStates
  <2>4. CASE BeginStore(n, p)
    <3>1. LinkGoes(n, p, "store", "storing")
      BY <2>4 DEF BeginStore
    <3> QED
      BY <1>1, <3>1, LinkGone DEF LinkStates
  <2>5. CASE EndStore(n, p)
    <3>1. LinkGoes(n, p, "storing", "count")
      BY <2>5 DEF EndStore
    <3> QED
      BY <1>1, <3>1, LinkGone DEF LinkStates
  <2>6. CASE LinkCounts(n, p)
    <3>1. LinkGoes(n, p, "count", "done")
      BY <2>6 DEF LinkCounts
    <3> QED
      BY <1>1, <3>1, LinkGone DEF LinkStates
  <2> QED
    BY <2>1, <2>2, <2>3, <2>4, <2>5, <2>6
<1>3. /\ streams' \in [Nodes -> [Nodes -> {"none", "placeholder", "open"}]]
      /\ \A k, q \in Nodes : \/ streams'[k][q] = streams[k][q]
                             \/ /\ k = n /\ q = p /\ streams'[n][p] # "none"
                                /\ Dials(n, p) => links[n][p] # "start" /\ streams'[n][p] = "open"
  <2>1. CASE EndCreateStream(n, p)
    <3>1. links[n][p] = "placing" /\ EndWrite(n, p, "placeholder")
      BY <2>1 DEF EndCreateStream, LinkGoes
    <3>2. ~Dials(n, p)
      BY <3>1 DEF SetupInv, DialledRight
    <3> QED
      BY <1>1, <3>1, <3>2, Written
  <2>2. CASE EndStore(n, p)
    <3>1. links[n][p] = "storing" /\ EndWrite(n, p, "open")
      BY <2>2 DEF EndStore, LinkGoes
    <3> QED
      BY <1>1, <3>1, Written
  <2>3. CASE UNCHANGED streams
    BY <1>1, <2>3 DEF TypeOK
  <2> QED
    BY <2>1, <2>2, <2>3 DEF BeginCreateStream, GiveUp, BeginStore, LinkCounts
<1>4. DialledRight'
  BY <1>1, <1>2, <1>3, DialledKept
<1>5. fate' \in [Nodes -> {"up", "raced", "gave_up"}]
  BY <1>1 DEF BeginCreateStream, EndCreateStream, GiveUp, BeginStore, EndStore, LinkCounts, BeginWrite,
       TypeOK
<1>6. /\ sendReadyMessageState' \in [Nodes -> BOOLEAN] /\ nodesReady' \in 0 .. Cardinality(Nodes)
      /\ ReportedFull' /\ ReadyOnce'
  <2>1. CASE LinkCounts(n, p)
    BY <2>1, Reported DEF LinkCounts
  <2>2. CASE UNCHANGED <<sendReadyMessageState, nodesReady>>
    BY <1>1, <1>3, <2>2, NotReported DEF TypeOK
  <2> QED
    BY <2>1, <2>2 DEF BeginCreateStream, EndCreateStream, GiveUp, BeginStore, EndStore
<1>7. TypeOK'
  BY <1>1, <1>2, <1>3, <1>5, <1>6 DEF TypeOK, LinkStates
<1> QED
  BY <1>4, <1>6, <1>7 DEF SetupInv

LEMMA SetupCallback ==
  ASSUME SetupInv, NEW n \in Nodes, NEW p \in Peers[n], CallbackStep(n, p)
  PROVE  SetupInv'
<1>1. /\ p \in Nodes /\ TypeOK /\ callbacks[n][p] # "none"
      /\ \E to \in CallbackStates \ {"none"} : CallbackBecomes(n, p, to)
      /\ UNCHANGED <<address, links, initialised>>
  BY PeersMet
     DEF CallbackStep, BeginHandleStream, EndHandleStream, CallbackCounts, CallbackGoes, CallbackStates,
         CallbackBecomes, SetupInv
<1>2. ~Dials(n, p) /\ Listens(n, p)
  <2>1. ~Dials(n, p)
    BY <1>1 DEF SetupInv, DialledRight
  <2>2. n \in Int /\ p \in Int /\ n # p
    BY <1>1, PeersMet, NetworkAssumption
  <2> QED
    BY <2>1, <2>2 DEF Dials, Listens
<1>3. /\ callbacks' \in [Nodes -> [Nodes -> CallbackStates]]
      /\ \A k, q \in Nodes : \/ callbacks'[k][q] = callbacks[k][q]
                             \/ Listens(k, q) /\ callbacks'[k][q] # "none"
  BY <1>1, <1>2, CallbackGone
<1>4. /\ streams' \in [Nodes -> [Nodes -> {"none", "placeholder", "open"}]]
      /\ \A k, q \in Nodes : \/ streams'[k][q] = streams[k][q]
                             \/ k = n /\ q = p /\ streams'[n][p] # "none"
  <2>1. CASE EndHandleStream(n, p)
    BY <1>1, <2>1, Written DEF EndHandleStream
  <2>2. CASE UNCHANGED streams
    BY <1>1, <2>2 DEF TypeOK
  <2> QED
    BY <2>1, <2>2 DEF CallbackStep, BeginHandleStream, CallbackCounts
<1>5. DialledRight'
  BY <1>1, <1>2, <1>3, <1>4, DialledKept
<1>6. fate' \in [Nodes -> {"up", "raced", "gave_up"}]
  BY <1>1 DEF CallbackStep, BeginHandleStream, EndHandleStream, CallbackCounts, BeginWrite, TypeOK
<1>7. /\ sendReadyMessageState' \in [Nodes -> BOOLEAN] /\ nodesReady' \in 0 .. Cardinality(Nodes)
      /\ ReportedFull' /\ ReadyOnce'
  <2>1. CASE CallbackCounts(n, p)
    BY <2>1, Reported DEF CallbackCounts
  <2>2. CASE UNCHANGED <<sendReadyMessageState, nodesReady>>
    BY <1>1, <1>4, <2>2, NotReported DEF TypeOK
  <2> QED
    BY <2>1, <2>2 DEF CallbackStep, BeginHandleStream, EndHandleStream
<1>8. TypeOK'
  BY <1>1, <1>3, <1>4, <1>6, <1>7 DEF TypeOK, CallbackStates
<1> QED
  BY <1>5, <1>7, <1>8 DEF SetupInv

LEMMA SetupStep == SetupInv /\ [Next]_vars => SetupInv'
<1> SUFFICES ASSUME SetupInv, [Next]_vars PROVE SetupInv'
  OBVIOUS
<1>1. CASE \E n \in Nodes : Initialise(n)
  <2>1. /\ UNCHANGED <<address, streams, links, callbacks, sendReadyMessageState, nodesReady, fate>>
        /\ initialised' \in [Nodes -> BOOLEAN]
    BY <1>1 DEF Initialise, SetupInv, TypeOK
  <2> QED
    BY <2>1 DEF SetupInv, TypeOK, DialledRight, Dials, ReportedFull, MapFull, ReadyOnce
<1>2. CASE \E n \in Nodes : \E p \in Peers[n] : LinkStep(n, p) \/ CallbackStep(n, p)
  BY <1>2, SetupConnect, SetupLink, SetupCallback DEF LinkStep
<1>3. CASE UNCHANGED vars
  BY <1>3 DEF SetupInv, TypeOK, DialledRight, Dials, ReportedFull, MapFull, ReadyOnce, vars
<1> QED
  BY <1>1, <1>2, <1>3 DEF Next

LEMMA SetupAlways == Spec => []SetupInv
BY SetupInit, SetupStep, PTL DEF Spec

\* N/N says that all have reported
LEMMA AllReported ==
  ASSUME SetupInv, AllReady, NEW n \in Nodes, NEW p \in Peers[n], Dials(n, p)
  PROVE  streams[n][p] = "open" /\ callbacks[p][n] # "none" /\ address[p] = p
<1> DEFINE R == {k \in Nodes : sendReadyMessageState[k]}
<1>1. R \in SUBSET Nodes /\ Cardinality(Nodes) = Cardinality(R)
  BY DEF SetupInv, ReadyOnce, AllReady
<1>2. R = Nodes
  <2> HIDE DEF R
  <2> QED
    BY <1>1, NetworkAssumption, FS_Subset
<1>3. MapFull(n)
  BY <1>2 DEF SetupInv, ReportedFull
<1>4. p \in Nodes /\ streams[n][p] \in {"none", "placeholder", "open"} /\ streams[n][p] # "none"
  BY <1>3, PeersMet DEF MapFull, SetupInv, TypeOK
<1> QED
  BY <1>4 DEF SetupInv, DialledRight

(***************************************************************************)
(* Type correctness: the data processor never counts more than N nodes.    *)
(***************************************************************************)
THEOREM TypeCorrect == Spec => []TypeOK
<1>1. SetupInv => TypeOK
  BY DEF SetupInv
<1> QED
  BY <1>1, SetupAlways, PTL

(***************************************************************************)
(* Once the operator sees N/N, every link has been dialled and stored and  *)
(* its other side has been called, though writes to the map may be lost    *)
(* and placeholders are counted.                                           *)
(***************************************************************************)
THEOREM ReadyMeansDialled == Spec => []AllReadyMeansDialled
<1>1. SetupInv => AllReadyMeansDialled
  BY AllReported DEF AllReadyMeansDialled
<1> QED
  BY <1>1, SetupAlways, PTL

(***************************************************************************)
(* With a wrong host for a node that is dialled the operator never sees    *)
(* N/N.                                                                    *)
(***************************************************************************)
THEOREM MixedUpNotReady == Spec => []MixedUpNeverReady
<1>1. SetupInv => MixedUpNeverReady
  BY AllReported DEF MixedUpNeverReady
<1> QED
  BY <1>1, SetupAlways, PTL

-----------------------------------------------------------------------------
(* Nobody waits for ever *)

\* A stream is handled after its placeholder, and an open stream stays open
PlacedFirst ==
  \A n \in Nodes :
    /\ \A p \in Nodes \ Peers[n] : links[n][p] = "done"
    /\ \A p \in Peers[n] : Listens(n, p) =>
         /\ links[n][p] \in {"start", "placing", "done"}
         /\ callbacks[n][p] # "none" => links[n][p] = "done"
         /\ callbacks[n][p] \in {"count", "done"} => streams[n][p] # "placeholder"

\* A node gives up only if a host is wrong or a process ended before
GaveUpForReason ==
  \A n \in Nodes : fate[n] = "gave_up" => \E k \in Nodes : address[k] # k \/ fate[k] = "raced"

StillToCount(n, p) == IF Dials(n, p) THEN links[n][p] # "done" ELSE callbacks[n][p] # "done"

\* As long as a node with a full map has not reported, one of its goroutines will
ReportToCome ==
  \A n \in Nodes : MapFull(n) /\ ~sendReadyMessageState[n] => \E p \in Peers[n] : StillToCount(n, p)

GoesOnInv == SetupInv /\ PlacedFirst /\ GaveUpForReason /\ ReportToCome

\* The guards of Next
LinkCanGo(n, p) ==
  \/ links[n][p] = "start" /\ streamsSyncFree(n) /\ (Listens(n, p) \/ Answers(n, p))
  \/ links[n][p] \in {"placing", "store", "storing", "count"}
  \/ callbacks[n][p] \in {"called", "storing", "count"}

SomebodyActs ==
  \E n \in Nodes :
    /\ fate[n] = "up"
    /\ \/ ~initialised[n] /\ \A p \in Nodes : links[n][p] = "done"
       \/ \E p \in Peers[n] : LinkCanGo(n, p)

NobodyStuck ==
  \/ AllReady /\ \A n \in Nodes : Connected(n)
  \/ \E n \in Nodes : address[n] # n \/ fate[n] = "raced" \/ Lost(n)
  \/ SomebodyActs

LEMMA DialsOrListens ==
  ASSUME NEW n \in Nodes, NEW p \in Peers[n]
  PROVE  (Dials(n, p) <=> ~Listens(n, p)) /\ (Dials(n, p) <=> Listens(p, n)) /\ p \in Nodes /\ p # n
         /\ n \in Peers[p]
<1>1. n \in Int /\ p \in Int /\ n # p /\ p \in Nodes
  BY PeersMet, NetworkAssumption
<1> QED
  BY <1>1, PeersMet DEF Dials, Listens

\* A write to the map changes one entry
LEMMA WrittenHere ==
  ASSUME TypeOK, NEW n \in Nodes, NEW p \in Nodes,
         EndWrite(n, p, "placeholder") \/ EndWrite(n, p, "open") \/ UNCHANGED streams
  PROVE  \A k, q \in Nodes : streams'[k][q] = streams[k][q] \/ (k = n /\ q = p)
<1>1. CASE EndWrite(n, p, "placeholder")
  BY <1>1, Written
<1>2. CASE EndWrite(n, p, "open")
  BY <1>2, Written
<1>3. CASE UNCHANGED streams
  BY <1>3
<1> QED
  BY <1>1, <1>2, <1>3

\* Only the goroutines of one node change what it has still to count
LEMMA ReportKept ==
  ASSUME GoesOnInv, NEW n \in Nodes,
         \A k \in Nodes \ {n} :
           /\ \A q \in Nodes : streams'[k][q] = streams[k][q]
           /\ sendReadyMessageState[k] => sendReadyMessageState'[k]
           /\ \A q \in Peers[k] : StillToCount(k, q) => StillToCount(k, q)',
         MapFull(n)' /\ ~sendReadyMessageState'[n] => \E q \in Peers[n] : StillToCount(n, q)'
  PROVE  ReportToCome'
<1> SUFFICES ASSUME NEW k \in Nodes \ {n}, MapFull(k)', ~sendReadyMessageState'[k]
             PROVE  \E q \in Peers[k] : StillToCount(k, q)'
  BY DEF ReportToCome
<1>1. MapFull(k)
  BY PeersMet DEF MapFull
<1>2. PICK q \in Peers[k] : StillToCount(k, q)
  BY <1>1 DEF GoesOnInv, ReportToCome
<1> QED
  BY <1>2

\* A race is a reason, and reasons do not go away
LEMMA GaveUpKept ==
  ASSUME GoesOnInv, UNCHANGED address, NEW n \in Nodes,
         UNCHANGED fate \/ fate' = [fate EXCEPT ![n] = "raced"]
  PROVE  GaveUpForReason'
BY DEF GoesOnInv, SetupInv, TypeOK, GaveUpForReason

LEMMA CreateGoesOn ==
  ASSUME GoesOnInv, NEW n \in Nodes, NEW p \in Peers[n],
         BeginCreateStream(n, p) \/ EndCreateStream(n, p)
  PROVE  PlacedFirst' /\ GaveUpForReason' /\ ReportToCome'
<1>1. p \in Nodes /\ TypeOK
  BY PeersMet DEF GoesOnInv, SetupInv
<1>2. /\ UNCHANGED <<address, callbacks, sendReadyMessageState>>
      /\ UNCHANGED fate \/ fate' = [fate EXCEPT ![n] = "raced"]
  BY DEF BeginCreateStream, EndCreateStream, BeginWrite
<1>3. /\ links[n][p] \in {"start", "placing"} /\ Listens(n, p)
      /\ \A k, q \in Nodes : \/ links'[k][q] = links[k][q] /\ (k # n \/ q # p)
                             \/ k = n /\ q = p /\ links'[k][q] \in {"placing", "done"}
  <2>1. CASE BeginCreateStream(n, p)
    <3>1. LinkGoes(n, p, "start", "placing") /\ Listens(n, p)
      BY <2>1 DEF BeginCreateStream
    <3> QED
      BY <1>1, <3>1, LinkGone DEF LinkStates
  <2>2. CASE EndCreateStream(n, p)
    <3>1. LinkGoes(n, p, "placing", "done")
      BY <2>2 DEF EndCreateStream
    <3>2. links[n][p] = "placing"
      BY <3>1 DEF LinkGoes
    <3>3. Listens(n, p)
      BY <3>2, DialsOrListens DEF GoesOnInv, SetupInv, DialledRight
    <3> QED
      BY <1>1, <3>1, <3>3, LinkGone DEF LinkStates
  <2> QED
    BY <2>1, <2>2
<1>4. callbacks[n][p] = "none"
  BY <1>3 DEF GoesOnInv, PlacedFirst
<1>5. \A k, q \in Nodes : streams'[k][q] = streams[k][q] \/ (k = n /\ q = p)
  <2>1. EndWrite(n, p, "placeholder") \/ UNCHANGED streams
    BY DEF BeginCreateStream, EndCreateStream
  <2> QED
    BY <1>1, <2>1, WrittenHere
<1>6. PlacedFirst'
  BY <1>1, <1>2, <1>3, <1>4, <1>5, PeersMet DEF GoesOnInv, PlacedFirst, Listens
<1>7. StillToCount(n, p)'
  <2>1. ~Dials(n, p)
    BY <1>3, DialsOrListens
  <2> QED
    BY <1>2, <1>4, <2>1 DEF StillToCount, Dials
<1>8. \A k \in Nodes \ {n} : \A q \in Peers[k] : StillToCount(k, q) => StillToCount(k, q)'
  BY <1>2, <1>3, PeersMet DEF StillToCount, Dials
<1>9. ReportToCome'
  BY <1>2, <1>5, <1>7, <1>8, ReportKept
<1> QED
  BY <1>2, <1>6, <1>9, GaveUpKept

LEMMA ConnectGoesOn ==
  ASSUME GoesOnInv, NEW n \in Nodes, NEW p \in Peers[n], connectStream(n, p)
  PROVE  PlacedFirst' /\ GaveUpForReason' /\ ReportToCome'
<1>1. /\ Dials(n, p) /\ Answers(n, p) /\ p \in Nodes /\ p # n /\ TypeOK
      /\ LinkGoes(n, p, "start", "store")
      /\ CallbackBecomes(p, n, "called")
      /\ UNCHANGED <<address, streams, sendReadyMessageState, fate>>
  BY PeersMet DEF connectStream, Answers, CallbackBecomes, GoesOnInv, SetupInv
<1>2. \A k, q \in Nodes : links'[k][q] = IF k = n /\ q = p THEN "store" ELSE links[k][q]
  BY <1>1, LinkGone DEF LinkStates
<1>3. \A k, q \in Nodes : callbacks'[k][q] = IF k = p /\ q = n THEN "called" ELSE callbacks[k][q]
  BY <1>1, CallbackGone DEF CallbackStates
<1>4. links[p][n] = "done" /\ ~Listens(n, p)
  BY <1>1, DialsOrListens DEF Answers
<1>5. PlacedFirst'
  <2>1. \A k \in Nodes : \A q \in Nodes \ Peers[k] : links'[k][q] = "done"
    BY <1>2 DEF GoesOnInv, PlacedFirst
  <2> SUFFICES ASSUME NEW k \in Nodes, NEW q \in Peers[k], Listens(k, q)
               PROVE  /\ links'[k][q] \in {"start", "placing", "done"}
                      /\ callbacks'[k][q] # "none" => links'[k][q] = "done"
                      /\ callbacks'[k][q] \in {"count", "done"} => streams'[k][q] # "placeholder"
    BY <2>1 DEF PlacedFirst, Listens
  <2>2. q \in Nodes /\ links'[k][q] = links[k][q]
    BY <1>2, <1>4, PeersMet
  <2>3. /\ links[k][q] \in {"start", "placing", "done"}
        /\ callbacks[k][q] # "none" => links[k][q] = "done"
        /\ callbacks[k][q] \in {"count", "done"} => streams[k][q] # "placeholder"
    BY DEF GoesOnInv, PlacedFirst
  <2> QED
    BY <1>1, <1>3, <1>4, <2>2, <2>3
<1>6. StillToCount(n, p)'
  BY <1>1, <1>2 DEF StillToCount, Dials
<1>7. \A k \in Nodes \ {n} : \A q \in Peers[k] : StillToCount(k, q) => StillToCount(k, q)'
  BY <1>2, <1>3, PeersMet DEF StillToCount, Dials
<1>8. ReportToCome'
  BY <1>1, <1>6, <1>7, ReportKept
<1> QED
  BY <1>1, <1>5, <1>8, GaveUpKept

LEMMA StoreGoesOn ==
  ASSUME GoesOnInv, NEW n \in Nodes, NEW p \in Peers[n], BeginStore(n, p) \/ EndStore(n, p)
  PROVE  PlacedFirst' /\ GaveUpForReason' /\ ReportToCome'
<1>1. p \in Nodes /\ TypeOK
  BY PeersMet DEF GoesOnInv, SetupInv
<1>2. /\ UNCHANGED <<address, callbacks, sendReadyMessageState>>
      /\ UNCHANGED fate \/ fate' = [fate EXCEPT ![n] = "raced"]
  BY DEF BeginStore, EndStore, BeginWrite
<1>3. \E from \in {"store", "storing"}, to \in {"storing", "count"} : LinkGoes(n, p, from, to)
  BY DEF BeginStore, EndStore
<1>4. /\ links[n][p] \in {"store", "storing"}
      /\ \A k, q \in Nodes : \/ links'[k][q] = links[k][q] /\ (k # n \/ q # p)
                             \/ k = n /\ q = p /\ links'[k][q] \in {"storing", "count"}
  BY <1>1, <1>3, LinkGone DEF LinkStates
<1>5. Dials(n, p) /\ ~Listens(n, p)
  BY <1>4, DialsOrListens DEF GoesOnInv, PlacedFirst
<1>6. \A k, q \in Nodes : streams'[k][q] = streams[k][q] \/ (k = n /\ q = p)
  <2>1. EndWrite(n, p, "open") \/ UNCHANGED streams
    BY DEF BeginStore, EndStore
  <2> QED
    BY <1>1, <2>1, WrittenHere
<1>7. PlacedFirst'
  BY <1>1, <1>2, <1>4, <1>5, <1>6, PeersMet DEF GoesOnInv, PlacedFirst, Listens
<1>8. StillToCount(n, p)'
  BY <1>1, <1>4, <1>5 DEF StillToCount, Dials
<1>9. \A k \in Nodes \ {n} : \A q \in Peers[k] : StillToCount(k, q) => StillToCount(k, q)'
  BY <1>2, <1>4, PeersMet DEF StillToCount, Dials
<1>10. ReportToCome'
  BY <1>2, <1>6, <1>8, <1>9, ReportKept
<1> QED
  BY <1>2, <1>7, <1>10, GaveUpKept

LEMMA HandleGoesOn ==
  ASSUME GoesOnInv, NEW n \in Nodes, NEW p \in Peers[n],
         BeginHandleStream(n, p) \/ EndHandleStream(n, p)
  PROVE  PlacedFirst' /\ GaveUpForReason' /\ ReportToCome'
<1>1. p \in Nodes /\ TypeOK
  BY PeersMet DEF GoesOnInv, SetupInv
<1>2. /\ UNCHANGED <<address, links, sendReadyMessageState>>
      /\ UNCHANGED fate \/ fate' = [fate EXCEPT ![n] = "raced"]
  BY DEF BeginHandleStream, EndHandleStream, BeginWrite
<1>3. \E to \in {"storing", "count"} :
        /\ CallbackBecomes(n, p, to) /\ callbacks[n][p] \in {"called", "storing"}
        /\ to = "count" => EndWrite(n, p, "open")
        /\ to = "storing" => UNCHANGED streams
  BY DEF BeginHandleStream, EndHandleStream, CallbackGoes, CallbackBecomes
<1>4. PICK to \in {"storing", "count"} :
        /\ CallbackBecomes(n, p, to) /\ callbacks[n][p] \in {"called", "storing"}
        /\ to = "count" => EndWrite(n, p, "open")
        /\ to = "storing" => UNCHANGED streams
  BY <1>3
<1>5. \A k, q \in Nodes : callbacks'[k][q] = IF k = n /\ q = p THEN to ELSE callbacks[k][q]
  BY <1>1, <1>4, CallbackGone DEF CallbackStates
<1>6. ~Dials(n, p) /\ Listens(n, p)
  BY <1>4, DialsOrListens DEF GoesOnInv, SetupInv, DialledRight
<1>7. \A k, q \in Nodes : streams'[k][q] = streams[k][q] \/ (k = n /\ q = p)
  BY <1>1, <1>4, WrittenHere
<1>8. to = "count" => streams'[n][p] # "placeholder"
  BY <1>1, <1>4 DEF EndWrite, TypeOK
<1>9. PlacedFirst'
  <2>1. \A k \in Nodes : \A q \in Nodes \ Peers[k] : links'[k][q] = "done"
    BY <1>2 DEF GoesOnInv, PlacedFirst
  <2> SUFFICES ASSUME NEW k \in Nodes, NEW q \in Peers[k], Listens(k, q)
               PROVE  /\ links'[k][q] \in {"start", "placing", "done"}
                      /\ callbacks'[k][q] # "none" => links'[k][q] = "done"
                      /\ callbacks'[k][q] \in {"count", "done"} => streams'[k][q] # "placeholder"
    BY <2>1 DEF PlacedFirst, Listens
  <2>2. /\ links[k][q] \in {"start", "placing", "done"}
        /\ callbacks[k][q] # "none" => links[k][q] = "done"
        /\ callbacks[k][q] \in {"count", "done"} => streams[k][q] # "placeholder"
    BY DEF GoesOnInv, PlacedFirst
  <2>3. q \in Nodes
    BY PeersMet
  <2> QED
    BY <1>2, <1>4, <1>5, <1>7, <1>8, <2>2, <2>3
<1>10. StillToCount(n, p)'
  BY <1>1, <1>4, <1>5, <1>6 DEF StillToCount, Dials
<1>11. \A k \in Nodes \ {n} : \A q \in Peers[k] : StillToCount(k, q) => StillToCount(k, q)'
  BY <1>2, <1>5, PeersMet DEF StillToCount, Dials
<1>12. ReportToCome'
  BY <1>2, <1>7, <1>10, <1>11, ReportKept
<1> QED
  BY <1>2, <1>9, <1>12, GaveUpKept

LEMMA CountsGoOn ==
  ASSUME GoesOnInv, NEW n \in Nodes, NEW p \in Peers[n], LinkCounts(n, p) \/ CallbackCounts(n, p)
  PROVE  PlacedFirst' /\ GaveUpForReason' /\ ReportToCome'
<1>1. p \in Nodes /\ TypeOK
  BY PeersMet DEF GoesOnInv, SetupInv
<1>2. UNCHANGED <<address, streams, fate>> /\ ReportIfFull(n)
  BY DEF LinkCounts, CallbackCounts
<1>3. \A k, q \in Nodes : \/ links'[k][q] = links[k][q]
                          \/ k = n /\ q = p /\ links'[k][q] = "done"
  <2>1. CASE LinkCounts(n, p)
    BY <1>1, <2>1, LinkGone DEF LinkCounts, LinkStates
  <2>2. CASE UNCHANGED links
    BY <2>2
  <2> QED
    BY <2>1, <2>2 DEF CallbackCounts
<1>4. \A k, q \in Nodes : \/ callbacks'[k][q] = callbacks[k][q]
                          \/ /\ k = n /\ q = p /\ callbacks'[k][q] = "done"
                             /\ callbacks[k][q] = "count"
  <2>1. CASE CallbackCounts(n, p)
    <3>1. CallbackBecomes(n, p, "done") /\ callbacks[n][p] = "count"
      BY <2>1 DEF CallbackCounts, CallbackGoes, CallbackBecomes
    <3> QED
      BY <1>1, <3>1, CallbackGone DEF CallbackStates
  <2>2. CASE UNCHANGED callbacks
    BY <2>2
  <2> QED
    BY <2>1, <2>2 DEF LinkCounts
<1>5. PlacedFirst'
  <2>1. \A k \in Nodes : \A q \in Nodes \ Peers[k] : links'[k][q] = "done"
    BY <1>3 DEF GoesOnInv, PlacedFirst
  <2> SUFFICES ASSUME NEW k \in Nodes, NEW q \in Peers[k], Listens(k, q)
               PROVE  /\ links'[k][q] \in {"start", "placing", "done"}
                      /\ callbacks'[k][q] # "none" => links'[k][q] = "done"
                      /\ callbacks'[k][q] \in {"count", "done"} => streams'[k][q] # "placeholder"
    BY <2>1 DEF PlacedFirst, Listens
  <2>2. /\ links[k][q] \in {"start", "placing", "done"}
        /\ callbacks[k][q] # "none" => links[k][q] = "done"
        /\ callbacks[k][q] \in {"count", "done"} => streams[k][q] # "placeholder"
    BY DEF GoesOnInv, PlacedFirst
  <2>3. q \in Nodes
    BY PeersMet
  <2> QED
    BY <1>2, <1>3, <1>4, <2>2, <2>3
<1>6. MapFull(n)' => sendReadyMessageState'[n]
  <2>1. MapFull(n)' => MapFull(n)
    BY <1>2 DEF MapFull
  <2> QED
    BY <1>1, <1>2, <2>1 DEF ReportIfFull, sendRabbitMqReadyMessage, TypeOK
<1>7. \A k \in Nodes \ {n} : sendReadyMessageState'[k] = sendReadyMessageState[k]
  BY <1>1, <1>2 DEF ReportIfFull, sendRabbitMqReadyMessage, TypeOK
<1>8. \A k \in Nodes \ {n} : \A q \in Peers[k] : StillToCount(k, q) => StillToCount(k, q)'
  BY <1>3, <1>4, PeersMet DEF StillToCount, Dials
<1>9. ReportToCome'
  BY <1>2, <1>6, <1>7, <1>8, ReportKept
<1> QED
  BY <1>2, <1>5, <1>9, GaveUpKept

LEMMA QuietGoesOn ==
  ASSUME GoesOnInv, UNCHANGED <<address, streams, links, callbacks, sendReadyMessageState>>
  PROVE  PlacedFirst' /\ ReportToCome'
<1>1. PlacedFirst'
  BY DEF GoesOnInv, PlacedFirst, Listens
<1>2. ReportToCome'
  BY DEF GoesOnInv, ReportToCome, MapFull, StillToCount, Dials
<1> QED
  BY <1>1, <1>2

LEMMA GiveUpGoesOn ==
  ASSUME GoesOnInv, NEW n \in Nodes, NEW p \in Peers[n], GiveUp(n, p)
  PROVE  PlacedFirst' /\ GaveUpForReason' /\ ReportToCome'
<1>1. /\ address[p] # p \/ fate[p] # "up"
      /\ fate' = [fate EXCEPT ![n] = "gave_up"]
      /\ UNCHANGED <<address, streams, links, callbacks, sendReadyMessageState>>
  BY PeersMet DEF GiveUp
<1>2. fate \in [Nodes -> {"up", "raced", "gave_up"}] /\ p \in Nodes /\ fate[n] = "up"
  BY PeersMet DEF GiveUp, GoesOnInv, SetupInv, TypeOK
<1>3. address[p] # p \/ fate[p] = "raced" \/ fate[p] = "gave_up"
  BY <1>1, <1>2 DEF GiveUp
<1>4. \E k \in Nodes : address[k] # k \/ fate[k] = "raced"
  BY <1>2, <1>3 DEF GoesOnInv, GaveUpForReason
<1>5. GaveUpForReason'
  BY <1>1, <1>2, <1>4 DEF GaveUpForReason
<1> QED
  BY <1>1, <1>5, QuietGoesOn

LEMMA GoesOnInit == Init => GoesOnInv
<1> SUFFICES ASSUME Init PROVE GoesOnInv
  OBVIOUS
<1>1. \A n, p \in Nodes : /\ links[n][p] = IF p \in Peers[n] THEN "start" ELSE "done"
                          /\ callbacks[n][p] = "none" /\ streams[n][p] = "none"
  BY DEF Init
<1>2. PlacedFirst
  BY <1>1, PeersMet DEF PlacedFirst
<1>3. GaveUpForReason
  BY DEF Init, GaveUpForReason
<1>4. \A n \in Nodes : ~MapFull(n)
  <2> SUFFICES ASSUME NEW n \in Nodes PROVE ~MapFull(n)
    OBVIOUS
  <2>1. PICK p \in Peers[n] : TRUE
    BY NetworkAssumption
  <2>2. streams[n][p] = "none"
    BY <1>1, PeersMet
  <2> QED
    BY <2>1, <2>2 DEF MapFull
<1> QED
  BY <1>2, <1>3, <1>4, SetupInit DEF GoesOnInv, ReportToCome

LEMMA GoesOnStep == GoesOnInv /\ [Next]_vars => GoesOnInv'
<1> SUFFICES ASSUME GoesOnInv, [Next]_vars PROVE GoesOnInv'
  OBVIOUS
<1>1. SetupInv'
  BY SetupStep DEF GoesOnInv
<1>2. CASE \E n \in Nodes : Initialise(n)
  <2>1. PICK n \in Nodes : Initialise(n)
    BY <1>2
  <2>2. UNCHANGED <<address, streams, links, callbacks, sendReadyMessageState, fate>>
    BY <2>1 DEF Initialise
  <2> QED
    BY <1>1, <2>1, <2>2, QuietGoesOn, GaveUpKept DEF GoesOnInv
<1>3. CASE \E n \in Nodes : \E p \in Peers[n] : LinkStep(n, p) \/ CallbackStep(n, p)
  BY <1>1, <1>3, CreateGoesOn, ConnectGoesOn, GiveUpGoesOn, StoreGoesOn, CountsGoOn, HandleGoesOn
     DEF LinkStep, CallbackStep, GoesOnInv
<1>4. CASE UNCHANGED vars
  <2>1. UNCHANGED <<address, streams, links, callbacks, sendReadyMessageState, fate>>
    BY <1>4 DEF vars
  <2>2. GaveUpForReason'
    BY <2>1 DEF GoesOnInv, GaveUpForReason
  <2> QED
    BY <1>1, <2>1, <2>2, QuietGoesOn DEF GoesOnInv
<1> QED
  BY <1>2, <1>3, <1>4 DEF Next

\* When no goroutine can go on, all are done, and the entries they wrote are open
LEMMA QuietMeansConnected ==
  ASSUME GoesOnInv
  PROVE  NobodyStuck
<1> SUFFICES ASSUME \A n \in Nodes : address[n] = n /\ fate[n] # "raced" /\ ~Lost(n), ~SomebodyActs
             PROVE  AllReady /\ \A n \in Nodes : Connected(n)
  BY DEF NobodyStuck
<1>1. \A n \in Nodes : fate[n] = "up"
  BY DEF GoesOnInv, SetupInv, TypeOK, GaveUpForReason
<1>2. \A n \in Nodes : \A p \in Peers[n] : ~LinkCanGo(n, p)
  BY <1>1 DEF SomebodyActs
<1>3. \A n \in Nodes : streamsSyncFree(n)
  <2> SUFFICES ASSUME NEW n \in Nodes, NEW p \in Nodes PROVE links[n][p] # "placing"
    BY DEF streamsSyncFree
  <2>1. CASE p \in Peers[n]
    BY <1>2, <2>1 DEF LinkCanGo
  <2>2. CASE p \notin Peers[n]
    BY <2>2 DEF GoesOnInv, PlacedFirst
  <2> QED
    BY <2>1, <2>2
<1>4. \A n \in Nodes : \A p \in Peers[n] : Listens(n, p) => links[n][p] = "done"
  BY <1>2, <1>3 DEF LinkCanGo, GoesOnInv, PlacedFirst
<1>5. \A n \in Nodes : \A p \in Peers[n] : Dials(n, p) => links[n][p] = "done"
  <2> SUFFICES ASSUME NEW n \in Nodes, NEW p \in Peers[n], Dials(n, p) PROVE links[n][p] = "done"
    OBVIOUS
  <2>1. p \in Nodes /\ links[p][n] = "done"
    BY <1>4, DialsOrListens
  <2>2. Answers(n, p)
    BY <1>1, <2>1 DEF Answers
  <2>3. links[n][p] \in {"start", "placing", "store", "storing", "count", "done"}
    BY <2>1 DEF GoesOnInv, SetupInv, TypeOK
  <2> QED
    BY <1>2, <1>3, <2>2, <2>3 DEF LinkCanGo
<1>6. \A n, p \in Nodes : links[n][p] = "done"
  BY <1>4, <1>5, DialsOrListens DEF GoesOnInv, PlacedFirst
<1>7. \A n \in Nodes : initialised[n]
  BY <1>1, <1>6 DEF SomebodyActs
<1>8. \A n \in Nodes : \A p \in Peers[n] : streams[n][p] # "none"
  BY <1>6, PeersMet DEF Lost
<1>9. \A n \in Nodes : \A p \in Peers[n] :
        streams[n][p] = "open" /\ (Listens(n, p) => callbacks[n][p] = "done")
  <2> SUFFICES ASSUME NEW n \in Nodes, NEW p \in Peers[n]
               PROVE  streams[n][p] = "open" /\ (Listens(n, p) => callbacks[n][p] = "done")
    OBVIOUS
  <2>1. /\ p \in Nodes /\ streams[n][p] \in {"none", "placeholder", "open"}
        /\ callbacks[n][p] \in {"none", "called", "storing", "count", "done"}
    BY PeersMet DEF GoesOnInv, SetupInv, TypeOK
  <2>2. CASE Dials(n, p)
    <3>1. streams[n][p] # "placeholder"
      BY <2>2 DEF GoesOnInv, SetupInv, DialledRight
    <3> QED
      BY <1>8, <2>1, <2>2, <3>1, DialsOrListens
  <2>3. CASE Listens(n, p)
    <3>1. n \in Peers[p] /\ Dials(p, n)
      BY <2>1, <2>3, PeersMet
    <3>2. callbacks[n][p] # "none"
      BY <1>6, <2>1, <3>1 DEF GoesOnInv, SetupInv, DialledRight
    <3>3. callbacks[n][p] = "done"
      BY <1>2, <2>1, <3>2 DEF LinkCanGo
    <3>4. streams[n][p] # "placeholder"
      BY <2>3, <3>3 DEF GoesOnInv, PlacedFirst
    <3> QED
      BY <1>8, <2>1, <3>3, <3>4
  <2> QED
    BY <2>2, <2>3, DialsOrListens
<1>10. \A n \in Nodes : sendReadyMessageState[n]
  <2> SUFFICES ASSUME NEW n \in Nodes, ~sendReadyMessageState[n] PROVE FALSE
    OBVIOUS
  <2>1. MapFull(n)
    BY <1>8 DEF MapFull
  <2>2. PICK p \in Peers[n] : StillToCount(n, p)
    BY <2>1 DEF GoesOnInv, ReportToCome
  <2>3. p \in Nodes /\ (~Dials(n, p) => Listens(n, p))
    BY DialsOrListens
  <2> QED
    BY <1>6, <1>9, <2>2, <2>3 DEF StillToCount
<1>11. AllReady
  <2>1. {n \in Nodes : sendReadyMessageState[n]} = Nodes
    BY <1>10
  <2> QED
    BY <2>1 DEF GoesOnInv, SetupInv, ReadyOnce, AllReady
<1> QED
  BY <1>7, <1>9, <1>11 DEF Connected

(***************************************************************************)
(* Nobody waits for ever: where the addresses are right, no race was       *)
(* noticed and no entry is lost to one, either everybody is connected and  *)
(* the operator sees N/N, or a goroutine can go on.  There is no deadlock  *)
(* between nodes that dial and listen under streamsSync, and the map never *)
(* fills up with the last report already behind it.                        *)
(***************************************************************************)
THEOREM NobodyWaits == Spec => []NobodyStuck
BY GoesOnInit, GoesOnStep, QuietMeansConnected, PTL DEF Spec

=============================================================================
