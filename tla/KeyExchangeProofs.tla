-------------------------- MODULE KeyExchangeProofs --------------------------
(***************************************************************************)
(* Theorems about KeyExchange and CommitmentProof, for every number of     *)
(* nodes and commands, every interleaving of the handlers, and Merkle      *)
(* trees of every depth.                                                   *)
(***************************************************************************)
EXTENDS CommitmentProof, TLAPS, FiniteSetTheorems, WellFoundedInduction

\* Handlers that found all keys and are not done
Builders(n) == At(n, {"append", "range", "tree"})

\* What the list of leaves says of the handlers that build from it.  The first of
\* them is alone until it is full; a second one only makes it too long, unless it
\* comes while the first still fills it.
LeavesFit ==
  \A n \in Nodes :
    /\ leaves[n] = "empty" => Builders(n) = {}
    /\ leaves[n] = "filling" => \A h, g \in Builders(n) : h = g /\ h.pc = "append"
    /\ leaves[n] = "full" =>
         \A h, g \in Builders(n) : h = g /\ h.pc # "append" /\ tree[n] = NoTree
    /\ leaves[n] = "over" => \A h, g \in At(n, {"tree"}) : h = g /\ tree[n] = NoTree
    /\ leaves[n] \in {"empty", "filling"} => tree[n] = NoTree

\* Keys are only added: who found all of them still has them when it builds
BuildsFromAll == \A n \in Nodes : \A h \in Builders(n) : exchangedPubKey[n] = Nodes

TreeOfAll == \A n \in Nodes : leaves[n] # "torn" => tree[n] \in {NoTree, Nodes}

TreeInv == TypeOK /\ LeavesFit /\ BuildsFromAll /\ TreeOfAll

\* A first key was received and not answered
Owes(h) == h.pc = "answer" /\ h.own

\* Only the requester is given commands, at most one of them waits to be carried out,
\* and each is good for one broadcast
CommandsCounted ==
  /\ \A n \in Nodes \ {Requester} : handlers[n] \cap Command = {}
  /\ sends[Requester] <= requests
  /\ handlers[Requester] \cap Command # {} => sends[Requester] < requests

\* Nobody receives anything before the requester has set its flag
RequesterIsFirst ==
  sentInitial[Requester] \/ \A n \in Nodes : net[n] = {} /\ handlers[n] \subseteq Command

\* A broadcast does not come back to the node that sent it
OthersKeys == \A n \in Nodes : \A m \in net[n] : m.key # n

\* Any other node receives one first key, and has not sent until that is answered
FirstKeyOnce ==
  \A n \in Nodes \ {Requester} :
    /\ sends[n] <= 1
    /\ exchangedPubKey[n] = {n} => sends[n] = 0 /\ \A h \in handlers[n] : ~Owes(h)
    /\ \A h \in handlers[n] : Owes(h) => sends[n] = 0 /\ \A g \in handlers[n] : Owes(g) => g = h

(***************************************************************************)
(* KeySentOnce is not inductive: a handler with the first key could be     *)
(* left over at a node that sent already.  There is one such handler per   *)
(* node, because from the first key on the node knows a key that is not    *)
(* its own; and at the requester there is none without the flag, because   *)
(* nobody sends before the requester does.                                 *)
(***************************************************************************)
SendInv == TypeOK /\ CommandsCounted /\ RequesterIsFirst /\ OthersKeys /\ FirstKeyOnce

-----------------------------------------------------------------------------
(* Helpers of the handlers *)

\* Commands and handlers are told apart by their pc
LEMMA HandlerOrCommand ==
  ASSUME NEW h \in Handler \cup Command
  PROVE  /\ h.pc # "send" => h \in Handler
         /\ h.pc = "send" <=> h \in Command
BY DEF Handler, HandlerPc, Command

\* A handler that goes on stays a handler
LEMMA HandlerGoes ==
  ASSUME NEW h \in Handler, NEW pc \in HandlerPc
  PROVE  /\ [h EXCEPT !.pc = pc] \in Handler
         /\ [h EXCEPT !.pc = pc].pc = pc
BY DEF Handler

\* So does one that has answered
LEMMA HandlerAnswered ==
  ASSUME NEW h \in Handler
  PROVE  /\ [h EXCEPT !.pc = "count", !.own = FALSE] \in Handler
         /\ [h EXCEPT !.pc = "count", !.own = FALSE].pc = "count"
BY DEF Handler, HandlerPc

\* A handler, or a command, that ends
LEMMA HandlerEnds ==
  ASSUME TypeOK, NEW n \in Nodes, NEW h, Swap(n, h, {})
  PROVE  /\ handlers' \in [Nodes -> SUBSET (Handler \cup Command)]
         /\ \A k \in Nodes : \A g \in handlers'[k] : g \in handlers[k] /\ (k = n => g # h)
BY DEF Swap, TypeOK

\* A handler that goes on
LEMMA HandlerSwapped ==
  ASSUME TypeOK, NEW n \in Nodes, NEW h, NEW new \in Handler, Swap(n, h, {new})
  PROVE  /\ handlers' \in [Nodes -> SUBSET (Handler \cup Command)]
         /\ \A k \in Nodes : \A g \in handlers'[k] :
              \/ g \in handlers[k] /\ (k = n => g # h)
              \/ k = n /\ g = new
BY DEF Swap, TypeOK

LEMMA HandlerGoesOn ==
  ASSUME TypeOK, NEW n \in Nodes, NEW h \in handlers[n], h.pc # "send",
         NEW pc \in HandlerPc, Go(n, h, pc)
  PROVE  \E new \in Handler :
           /\ new.pc = pc /\ Swap(n, h, {new})
           /\ handlers' \in [Nodes -> SUBSET (Handler \cup Command)]
           /\ \A k \in Nodes : \A g \in handlers'[k] :
                \/ g \in handlers[k] /\ (k = n => g # h)
                \/ k = n /\ g = new
<1> DEFINE new == [h EXCEPT !.pc = pc]
<1>1. new \in Handler /\ new.pc = pc
  BY HandlerOrCommand, HandlerGoes DEF TypeOK
<1>2. Swap(n, h, {new})
  BY DEF Go
<1> HIDE DEF new
<1> QED
  BY <1>1, <1>2, HandlerSwapped

\* A handler that panics takes the others with it
LEMMA HandlerPanics ==
  ASSUME TypeOK, NEW n \in Nodes, Panic(n)
  PROVE  /\ handlers' \in [Nodes -> SUBSET (Handler \cup Command)]
         /\ alive' \in [Nodes -> BOOLEAN] /\ ~alive'[n] /\ handlers'[n] = {}
         /\ \A k \in Nodes \ {n} : handlers'[k] = handlers[k] /\ alive'[k] = alive[k]
         /\ tree' = tree
BY DEF Panic, TypeOK

\* A broadcast reaches the queues of the others only
LEMMA BroadcastKeySets ==
  ASSUME TypeOK, NEW n \in Nodes, BroadcastKey(n, net[n])
  PROVE  /\ net' \in [Nodes -> SUBSET KeyMessage]
         /\ net'[n] = net[n]
         /\ \A k \in Nodes \ {n} : \A m \in net'[k] : m \in net[k] \/ m.key = n
         /\ sends' \in [Nodes -> Nat]
         /\ sends'[n] = sends[n] + 1
         /\ \A k \in Nodes \ {n} : sends'[k] = sends[k]
<1>1. [key |-> n, id |-> sends[n]] \in KeyMessage
  BY DEF TypeOK, KeyMessage
<1> QED
  BY <1>1 DEF BroadcastKey, TypeOK

\* All keys are there when there are as many as nodes
LEMMA AllKeysIsNodes ==
  ASSUME TypeOK, NEW n \in Nodes, AllKeys(n)
  PROVE  exchangedPubKey[n] = Nodes
<1>1. exchangedPubKey[n] \in SUBSET Nodes
  BY DEF TypeOK
<1> QED
  BY <1>1, NetworkAssumption, FS_Subset DEF AllKeys, numOfNodes

-----------------------------------------------------------------------------
(* The Merkle trees *)

\* A list of leaves that a handler begins to append to
LEMMA ListGrows ==
  /\ Growing("empty") = "filling" /\ Growing("filling") = "torn"
  /\ Growing("full") = "over" /\ Growing("over") = "over" /\ Growing("torn") = "torn"
BY DEF Growing

LEMMA TreeInit == Init => TreeInv
BY NetworkAssumption
   DEF Init, TreeInv, TypeOK, LeavesFit, BuildsFromAll, TreeOfAll, NoTree, LeafList, Builders, At

\* No handler begins or goes on to build, and no tree and no list changes
LEMMA NobodyBuilds ==
  ASSUME TreeInv, TypeOK', UNCHANGED <<leaves, tree>>,
         \A k \in Nodes : exchangedPubKey[k] \subseteq exchangedPubKey'[k],
         \A k \in Nodes : \A g \in Builders(k)' : g \in Builders(k)
  PROVE  TreeInv'
<1>1. \A k \in Nodes : \A g \in At(k, {"tree"})' : g \in At(k, {"tree"})
  BY DEF Builders, At
<1>2. BuildsFromAll'
  BY DEF TreeInv, TypeOK, BuildsFromAll
<1>3. LeavesFit'
  <2> SUFFICES ASSUME NEW k \in Nodes
               PROVE  /\ leaves[k] = "empty" => Builders(k)' = {}
                      /\ leaves[k] = "filling" =>
                           \A h, g \in Builders(k)' : h = g /\ h.pc = "append"
                      /\ leaves[k] = "full" =>
                           \A h, g \in Builders(k)' : h = g /\ h.pc # "append" /\ tree[k] = NoTree
                      /\ leaves[k] = "over" =>
                           \A h, g \in At(k, {"tree"})' : h = g /\ tree[k] = NoTree
                      /\ leaves[k] \in {"empty", "filling"} => tree[k] = NoTree
    BY DEF LeavesFit
  <2> QED
    BY <1>1 DEF TreeInv, LeavesFit
<1> QED
  BY <1>2, <1>3 DEF TreeInv, TreeOfAll

LEMMA RequestTree ==
  ASSUME TreeInv, RequestDistribution
  PROVE  TreeInv'
<1>1. /\ requests' = requests + 1 /\ requests < MaxRequests
      /\ UNCHANGED <<net, sends, exchangedPubKey, sentInitial, leaves, tree, alive>>
  BY DEF RequestDistribution
<1>2. /\ handlers' \in [Nodes -> SUBSET (Handler \cup Command)]
      /\ \A n \in Nodes : \A h \in handlers'[n] : h \in handlers[n] \/ h.pc = "send"
  <2>1. [pc |-> "send"] \in Command
    BY DEF Command
  <2> QED
    BY <2>1, NetworkAssumption DEF RequestDistribution, TreeInv, TypeOK
<1>3. TypeOK'
  BY <1>1, <1>2, NetworkAssumption DEF TreeInv, TypeOK
<1>4. \A k \in Nodes : \A g \in Builders(k)' : g \in Builders(k)
  BY <1>2 DEF Builders, At
<1> QED
  BY <1>1, <1>3, <1>4, NobodyBuilds

LEMMA SendInitialTree ==
  ASSUME TreeInv, NEW n \in Nodes, NEW h \in handlers[n], SendInitial(n, h)
  PROVE  TreeInv'
<1>1. /\ BroadcastKey(n, net[n]) /\ Swap(n, h, {})
      /\ sentInitial' = [sentInitial EXCEPT ![n] = TRUE]
      /\ UNCHANGED <<requests, exchangedPubKey, leaves, tree, alive>>
  BY DEF SendInitial
<1>2. TypeOK'
  BY <1>1, BroadcastKeySets, HandlerEnds DEF TreeInv, TypeOK
<1>3. \A k \in Nodes : \A g \in handlers'[k] : g \in handlers[k]
  BY <1>1, HandlerEnds DEF TreeInv
<1>4. \A k \in Nodes : \A g \in Builders(k)' : g \in Builders(k)
  BY <1>3 DEF Builders, At
<1> QED
  BY <1>1, <1>2, <1>4, NobodyBuilds

LEMMA ReceiveTree ==
  ASSUME TreeInv, NEW n \in Nodes, NEW m \in net[n], ReceiveKey(n, m)
  PROVE  TreeInv'
<1> DEFINE new == [pc |-> "answer", msg |-> m, own |-> exchangedPubKey[n] = {n}]
<1>1. /\ net' = [net EXCEPT ![n] = @ \ {m}]
      /\ exchangedPubKey' = [exchangedPubKey EXCEPT ![n] = @ \cup {m.key}]
      /\ handlers' = [handlers EXCEPT ![n] = @ \cup {new}]
      /\ UNCHANGED <<sends, requests, sentInitial, leaves, tree, alive>>
  BY DEF ReceiveKey, Known, TreeInv, TypeOK
<1>2. m \in KeyMessage /\ m.key \in Nodes
  BY DEF TreeInv, TypeOK, KeyMessage
<1>3. new \in Handler /\ new.pc = "answer"
  BY <1>2 DEF Handler, HandlerPc
<1> HIDE DEF new
<1>4. TypeOK'
  BY <1>1, <1>2, <1>3 DEF TreeInv, TypeOK
<1>5. \A k \in Nodes : exchangedPubKey[k] \subseteq exchangedPubKey'[k]
  BY <1>1 DEF TreeInv, TypeOK
<1>6. \A k \in Nodes : \A g \in handlers'[k] : g \in handlers[k] \/ g = new
  BY <1>1 DEF TreeInv, TypeOK
<1>7. \A k \in Nodes : \A g \in Builders(k)' : g \in Builders(k)
  BY <1>3, <1>6 DEF Builders, At
<1> QED
  BY <1>1, <1>4, <1>5, <1>7, NobodyBuilds

LEMMA AnswerTree ==
  ASSUME TreeInv, NEW n \in Nodes, NEW h \in handlers[n], AnswerKey(n, h)
  PROVE  TreeInv'
<1> DEFINE new == [h EXCEPT !.pc = "count", !.own = FALSE]
<1>1. /\ BroadcastKey(n, net[n]) \/ UNCHANGED <<net, sends>>
      /\ h.pc = "answer" /\ Swap(n, h, {new})
      /\ UNCHANGED <<requests, exchangedPubKey, sentInitial, leaves, tree, alive>>
  BY DEF AnswerKey
<1>2. new \in Handler /\ new.pc = "count"
  BY <1>1, HandlerOrCommand, HandlerAnswered DEF TreeInv, TypeOK
<1> HIDE DEF new
<1>3. /\ handlers' \in [Nodes -> SUBSET (Handler \cup Command)]
      /\ \A k \in Nodes : \A g \in handlers'[k] : g \in handlers[k] \/ g = new
  BY <1>1, <1>2, HandlerSwapped DEF TreeInv
<1>4. net' \in [Nodes -> SUBSET KeyMessage] /\ sends' \in [Nodes -> Nat]
  BY <1>1, BroadcastKeySets DEF TreeInv, TypeOK
<1>5. TypeOK'
  BY <1>1, <1>3, <1>4 DEF TreeInv, TypeOK
<1>6. \A k \in Nodes : \A g \in Builders(k)' : g \in Builders(k)
  BY <1>2, <1>3 DEF Builders, At
<1> QED
  BY <1>1, <1>5, <1>6, NobodyBuilds

\* What is left to show of a step at node n: the other nodes' leaves fit already
LEMMA OneNodeBuilds ==
  ASSUME TreeInv, TypeOK', NEW n \in Nodes, UNCHANGED exchangedPubKey,
         \A k \in Nodes \ {n} : /\ handlers'[k] = handlers[k]
                                /\ leaves'[k] = leaves[k] /\ tree'[k] = tree[k],
         \A g \in Builders(n)' : exchangedPubKey[n] = Nodes,
         leaves'[n] # "torn" => tree'[n] \in {NoTree, Nodes},
         leaves'[n] = "empty" => Builders(n)' = {},
         leaves'[n] = "filling" => \A h, g \in Builders(n)' : h = g /\ h.pc = "append",
         leaves'[n] = "full" =>
           \A h, g \in Builders(n)' : h = g /\ h.pc # "append" /\ tree'[n] = NoTree,
         leaves'[n] = "over" => \A h, g \in At(n, {"tree"})' : h = g /\ tree'[n] = NoTree,
         leaves'[n] \in {"empty", "filling"} => tree'[n] = NoTree
  PROVE  TreeInv'
<1>1. \A k \in Nodes \ {n} : /\ Builders(k)' = Builders(k)
                             /\ At(k, {"tree"})' = At(k, {"tree"})
  BY DEF Builders, At
<1>2. BuildsFromAll'
  BY <1>1 DEF TreeInv, BuildsFromAll
<1>3. TreeOfAll'
  BY DEF TreeInv, TreeOfAll
<1>4. LeavesFit'
  <2> SUFFICES ASSUME NEW k \in Nodes
               PROVE  /\ leaves'[k] = "empty" => Builders(k)' = {}
                      /\ leaves'[k] = "filling" =>
                           \A h, g \in Builders(k)' : h = g /\ h.pc = "append"
                      /\ leaves'[k] = "full" =>
                           \A h, g \in Builders(k)' : h = g /\ h.pc # "append" /\ tree'[k] = NoTree
                      /\ leaves'[k] = "over" =>
                           \A h, g \in At(k, {"tree"})' : h = g /\ tree'[k] = NoTree
                      /\ leaves'[k] \in {"empty", "filling"} => tree'[k] = NoTree
    BY DEF LeavesFit
  <2>1. CASE k = n
    BY <2>1
  <2>2. CASE k # n
    BY <1>1, <2>2 DEF TreeInv, LeavesFit
  <2> QED
    BY <2>1, <2>2
<1> QED
  BY <1>2, <1>3, <1>4 DEF TreeInv

LEMMA CountTree ==
  ASSUME TreeInv, NEW n \in Nodes, NEW h \in handlers[n], CountKeys(n, h)
  PROVE  TreeInv'
<1>1. /\ h.pc = "count"
      /\ UNCHANGED <<net, sends, requests, exchangedPubKey, sentInitial, tree, alive>>
  BY DEF CountKeys
<1>2. CASE AllKeys(n) /\ Go(n, h, "append") /\ leaves' = [leaves EXCEPT ![n] = Growing(@)]
  <2>1. exchangedPubKey[n] = Nodes
    BY <1>2, AllKeysIsNodes DEF TreeInv
  <2>0. TypeOK /\ h.pc # "send" /\ "append" \in HandlerPc
    BY <1>1 DEF TreeInv, HandlerPc
  <2>2. PICK new \in Handler :
          /\ new.pc = "append" /\ Swap(n, h, {new})
          /\ handlers' \in [Nodes -> SUBSET (Handler \cup Command)]
          /\ \A k \in Nodes : \A g \in handlers'[k] :
               \/ g \in handlers[k] /\ (k = n => g # h)
               \/ k = n /\ g = new
    BY <1>2, <2>0, HandlerGoesOn
  <2>3. leaves[n] \in LeafList /\ leaves'[n] = Growing(leaves[n])
    BY <1>2 DEF TreeInv, TypeOK
  <2>4. TypeOK'
    <3>1. leaves' \in [Nodes -> LeafList]
      BY <1>2, <2>3, ListGrows DEF TreeInv, TypeOK, LeafList
    <3> QED
      BY <1>1, <2>2, <3>1 DEF TreeInv, TypeOK
  <2>5. \A k \in Nodes \ {n} : handlers'[k] = handlers[k] /\ leaves'[k] = leaves[k]
    BY <1>2 DEF Go, Swap, TreeInv, TypeOK
  <2>6. /\ \A g \in Builders(n)' : g \in Builders(n) \/ g = new
        /\ \A g \in At(n, {"tree"})' : g \in At(n, {"tree"}) /\ g \in Builders(n)
    BY <2>2 DEF Builders, At
  <2>7. /\ leaves[n] = "empty" => Builders(n) = {} /\ tree[n] = NoTree
        /\ leaves[n] = "full" => \A i, g \in Builders(n) : i = g /\ tree[n] = NoTree
        /\ leaves[n] = "over" => \A i, g \in At(n, {"tree"}) : i = g /\ tree[n] = NoTree
        /\ leaves[n] # "torn" => tree[n] \in {NoTree, Nodes}
    BY DEF TreeInv, LeavesFit, TreeOfAll
  <2> USE <1>1, <2>1, <2>4, <2>5, <2>6, <2>7, ListGrows
  <2>8. CASE leaves[n] = "empty"
    <3>1. leaves'[n] = "filling" /\ \A i, g \in Builders(n)' : i = g /\ i.pc = "append"
      BY <2>2, <2>3, <2>8
    <3> QED
      BY <2>8, <3>1, OneNodeBuilds
  <2>9. CASE leaves[n] \in {"full", "over"}
    <3>1. leaves'[n] = "over" /\ \A i, g \in At(n, {"tree"})' : i = g /\ tree[n] = NoTree
      BY <2>3, <2>9
    <3> QED
      BY <2>9, <3>1, OneNodeBuilds
  <2>10. CASE leaves[n] \in {"filling", "torn"}
    <3>1. leaves'[n] = "torn"
      BY <2>3, <2>10
    <3> QED
      BY <3>1, OneNodeBuilds
  <2> QED
    BY <2>3, <2>8, <2>9, <2>10 DEF LeafList
<1>3. CASE Swap(n, h, {}) /\ UNCHANGED leaves
  <2>1. /\ handlers' \in [Nodes -> SUBSET (Handler \cup Command)]
        /\ \A k \in Nodes : \A g \in handlers'[k] : g \in handlers[k]
    BY <1>3, HandlerEnds DEF TreeInv
  <2>2. TypeOK'
    BY <1>1, <1>3, <2>1 DEF TreeInv, TypeOK
  <2>3. \A k \in Nodes : \A g \in Builders(k)' : g \in Builders(k)
    BY <2>1 DEF Builders, At
  <2> QED
    BY <1>1, <1>3, <2>2, <2>3, NobodyBuilds
<1> QED
  BY <1>2, <1>3 DEF CountKeys

LEMMA AppendTree ==
  ASSUME TreeInv, NEW n \in Nodes, NEW h \in handlers[n], AppendLeaves(n, h)
  PROVE  TreeInv'
<1>1. /\ h.pc = "append" /\ Go(n, h, "range")
      /\ leaves' = [leaves EXCEPT ![n] = IF @ = "filling" THEN "full" ELSE @]
      /\ UNCHANGED <<net, sends, requests, exchangedPubKey, sentInitial, tree, alive>>
  BY DEF AppendLeaves
<1>0. TypeOK /\ h.pc # "send" /\ "range" \in HandlerPc
  BY <1>1 DEF TreeInv, HandlerPc
<1>2. PICK new \in Handler :
        /\ new.pc = "range" /\ Swap(n, h, {new})
        /\ handlers' \in [Nodes -> SUBSET (Handler \cup Command)]
        /\ \A k \in Nodes : \A g \in handlers'[k] :
             \/ g \in handlers[k] /\ (k = n => g # h)
             \/ k = n /\ g = new
  BY <1>0, <1>1, HandlerGoesOn
<1>3. /\ leaves[n] \in LeafList
      /\ leaves'[n] = IF leaves[n] = "filling" THEN "full" ELSE leaves[n]
  BY <1>1 DEF TreeInv, TypeOK
<1>4. TypeOK'
  <2>1. leaves' \in [Nodes -> LeafList]
    BY <1>1 DEF TreeInv, TypeOK, LeafList
  <2> QED
    BY <1>1, <1>2, <2>1 DEF TreeInv, TypeOK
<1>5. \A k \in Nodes \ {n} : handlers'[k] = handlers[k] /\ leaves'[k] = leaves[k]
  BY <1>1 DEF Go, Swap, TreeInv, TypeOK
<1>6. /\ h \in Builders(n)
      /\ \A g \in Builders(n)' : (g \in Builders(n) /\ g # h) \/ g = new
      /\ \A g \in At(n, {"tree"})' : g \in At(n, {"tree"})
  BY <1>1, <1>2 DEF Builders, At
<1>7. exchangedPubKey[n] = Nodes
  BY <1>6 DEF TreeInv, BuildsFromAll
<1>8. /\ leaves[n] \notin {"empty", "full"}
      /\ leaves[n] = "filling" => tree[n] = NoTree /\ \A g \in Builders(n) : g = h
      /\ leaves[n] = "over" => \A i, g \in At(n, {"tree"}) : i = g /\ tree[n] = NoTree
      /\ leaves[n] # "torn" => tree[n] \in {NoTree, Nodes}
  BY <1>1, <1>6 DEF TreeInv, LeavesFit, TreeOfAll
<1> USE <1>1, <1>4, <1>5, <1>6, <1>7, <1>8
<1>9. CASE leaves[n] = "filling"
  <2>1. leaves'[n] = "full" /\ \A i, g \in Builders(n)' : i = g /\ i.pc # "append"
    BY <1>2, <1>3, <1>9
  <2> QED
    BY <1>9, <2>1, OneNodeBuilds
<1>10. CASE leaves[n] = "over"
  <2>1. leaves'[n] = "over" /\ \A i, g \in At(n, {"tree"})' : i = g /\ tree[n] = NoTree
    BY <1>3, <1>10
  <2> QED
    BY <1>10, <2>1, OneNodeBuilds
<1>11. CASE leaves[n] = "torn"
  <2>1. leaves'[n] = "torn"
    BY <1>3, <1>11
  <2> QED
    BY <2>1, OneNodeBuilds
<1> QED
  BY <1>3, <1>9, <1>10, <1>11 DEF LeafList

LEMMA RangeTree ==
  ASSUME TreeInv, NEW n \in Nodes, NEW h \in handlers[n], RangeLeaves(n, h)
  PROVE  TreeInv'
<1>1. /\ h.pc = "range" /\ leaves[n] # "over" /\ Go(n, h, "tree")
      /\ UNCHANGED <<net, sends, requests, exchangedPubKey, sentInitial, leaves, tree, alive>>
  BY DEF RangeLeaves
<1>0. TypeOK /\ h.pc # "send" /\ "tree" \in HandlerPc
  BY <1>1 DEF TreeInv, HandlerPc
<1>2. PICK new \in Handler :
        /\ new.pc = "tree" /\ Swap(n, h, {new})
        /\ handlers' \in [Nodes -> SUBSET (Handler \cup Command)]
        /\ \A k \in Nodes : \A g \in handlers'[k] :
             \/ g \in handlers[k] /\ (k = n => g # h)
             \/ k = n /\ g = new
  BY <1>0, <1>1, HandlerGoesOn
<1>3. TypeOK'
  BY <1>1, <1>2 DEF TreeInv, TypeOK
<1>4. \A k \in Nodes \ {n} : handlers'[k] = handlers[k]
  BY <1>1 DEF Go, Swap, TreeInv, TypeOK
<1>5. /\ h \in Builders(n)
      /\ \A g \in Builders(n)' : (g \in Builders(n) /\ g # h) \/ g = new
  BY <1>1, <1>2 DEF Builders, At
<1>6. exchangedPubKey[n] = Nodes
  BY <1>5 DEF TreeInv, BuildsFromAll
<1>7. /\ leaves[n] \in {"full", "torn"}
      /\ leaves[n] = "full" => tree[n] = NoTree /\ \A g \in Builders(n) : g = h
  BY <1>1, <1>5 DEF TreeInv, TypeOK, LeafList, LeavesFit
<1> USE <1>1, <1>3, <1>4, <1>5, <1>6, <1>7
<1>8. CASE leaves[n] = "full"
  <2>1. \A i, g \in Builders(n)' : i = g /\ i.pc # "append"
    BY <1>2, <1>8
  <2> QED
    BY <1>8, <2>1, OneNodeBuilds
<1>9. CASE leaves[n] = "torn"
  BY <1>9, OneNodeBuilds
<1> QED
  BY <1>8, <1>9

\* A process that ends builds no more
LEMMA PanicTree ==
  ASSUME TreeInv, NEW n \in Nodes, Panic(n),
         UNCHANGED <<net, sends, requests, exchangedPubKey, sentInitial, leaves>>
  PROVE  TreeInv'
<1>1. TypeOK'
  BY HandlerPanics DEF TreeInv, TypeOK
<1>2. \A k \in Nodes : \A g \in Builders(k)' : g \in Builders(k)
  BY HandlerPanics DEF TreeInv, Builders, At
<1> QED
  BY <1>1, <1>2, HandlerPanics, NobodyBuilds DEF TreeInv

LEMMA BuildTreeTree ==
  ASSUME TreeInv, NEW n \in Nodes, NEW h \in handlers[n], BuildTree(n, h)
  PROVE  TreeInv'
<1>1. /\ h.pc = "tree"
      /\ UNCHANGED <<net, sends, requests, exchangedPubKey, sentInitial, leaves>>
  BY DEF BuildTree
<1>2. h \in Builders(n) /\ h \in At(n, {"tree"})
  BY <1>1 DEF Builders, At
<1>3. exchangedPubKey[n] = Nodes
  BY <1>2 DEF TreeInv, BuildsFromAll
<1>4. CASE /\ \/ tree' = [tree EXCEPT ![n] = exchangedPubKey[n]]
              \/ leaves[n] = "torn" /\ tree' = [tree EXCEPT ![n] = {n}]
           /\ Swap(n, h, {}) /\ UNCHANGED alive
  <2>1. /\ handlers' \in [Nodes -> SUBSET (Handler \cup Command)]
        /\ \A k \in Nodes : \A g \in handlers'[k] : g \in handlers[k] /\ (k = n => g # h)
    BY <1>4, HandlerEnds DEF TreeInv
  <2>2. /\ tree' \in [Nodes -> SUBSET Nodes]
        /\ \A k \in Nodes \ {n} : tree'[k] = tree[k]
        /\ leaves[n] # "torn" => tree'[n] = Nodes
    BY <1>3, <1>4 DEF TreeInv, TypeOK
  <2>3. TypeOK'
    BY <1>1, <1>4, <2>1, <2>2 DEF TreeInv, TypeOK
  <2>4. \A k \in Nodes \ {n} : handlers'[k] = handlers[k]
    BY <1>4 DEF Swap, TreeInv, TypeOK
  <2>5. /\ \A g \in Builders(n)' : g \in Builders(n) /\ g # h
        /\ \A g \in At(n, {"tree"})' : g \in At(n, {"tree"}) /\ g # h
    BY <2>1 DEF Builders, At
  <2>6. leaves[n] \in {"full", "over", "torn"}
    BY <1>1, <1>2 DEF TreeInv, TypeOK, LeafList, LeavesFit
  <2>7. /\ leaves[n] = "full" => Builders(n)' = {}
        /\ leaves[n] = "over" => At(n, {"tree"})' = {}
    <3>1. /\ leaves[n] = "full" => \A g \in Builders(n) : g = h
          /\ leaves[n] = "over" => \A g \in At(n, {"tree"}) : g = h
      BY <1>2 DEF TreeInv, LeavesFit
    <3> QED
      BY <2>5, <3>1
  <2> QED
    BY <1>1, <1>3, <2>2, <2>3, <2>4, <2>6, <2>7, OneNodeBuilds
<1>5. CASE Panic(n)
  BY <1>1, <1>5, PanicTree
<1> QED
  BY <1>4, <1>5 DEF BuildTree

LEMMA TreeStep == TreeInv /\ [Next]_vars => TreeInv'
<1> SUFFICES ASSUME TreeInv, [Next]_vars PROVE TreeInv'
  OBVIOUS
<1>1. CASE RequestDistribution
  BY <1>1, RequestTree
<1>2. CASE \E n \in Nodes : NodeStep(n)
  <2>1. ASSUME NEW n \in Nodes, NEW h \in handlers[n], OverrunLeaves(n, h)
        PROVE  TreeInv'
    BY <2>1, PanicTree DEF OverrunLeaves
  <2> QED
    BY <1>2, <2>1, SendInitialTree, ReceiveTree, AnswerTree, CountTree, AppendTree, RangeTree,
       BuildTreeTree DEF NodeStep
<1>3. CASE UNCHANGED vars
  <2>1. TypeOK' /\ \A k \in Nodes : Builders(k)' = Builders(k)
    BY <1>3 DEF vars, TreeInv, TypeOK, Builders, At
  <2> QED
    BY <1>3, <2>1, NobodyBuilds DEF vars
<1> QED
  BY <1>1, <1>2, <1>3 DEF Next

LEMMA TreeHolds == Spec => []TreeInv
BY TreeInit, TreeStep, PTL DEF Spec

(***************************************************************************)
(* The state of the key exchange is well formed.                           *)
(***************************************************************************)
THEOREM TypeCorrect == Spec => []TypeOK
<1>1. TreeInv => TypeOK
  BY DEF TreeInv
<1> QED
  BY <1>1, TreeHolds, PTL

(***************************************************************************)
(* Two nodes whose leaves were not appended by two handlers at the same    *)
(* time have the same tree.  The appends, the loop over the leaves and the *)
(* hashing are separate steps without a mutex: of two handlers that do not *)
(* append together, at most one gets to hash all leaves, from a full list  *)
(* of keys that were all there when it counted them, and the other can     *)
(* only end the process.                                                   *)
(***************************************************************************)
THEOREM TreesAgree == Spec => []SameTree
<1>1. TreeInv => SameTree
  <2> SUFFICES ASSUME TreeInv PROVE SameTree
    OBVIOUS
  <2>1. \A n \in Nodes : leaves[n] # "torn" /\ tree[n] # NoTree => tree[n] = Nodes
    BY DEF TreeInv, TreeOfAll
  <2>2. ASSUME NEW n \in Nodes, leaves[n] # "torn", NEW h \in At(n, {"tree"}),
               NEW g \in At(n, {"tree"})
        PROVE  h = g /\ tree[n] = NoTree
    <3>1. h \in Builders(n) /\ g \in Builders(n) /\ h.pc = "tree"
      BY DEF Builders, At
    <3> QED
      BY <2>2, <3>1 DEF TreeInv, TypeOK, LeafList, LeavesFit
  <2> QED
    BY <2>1, <2>2 DEF SameTree
<1> QED
  BY <1>1, TreeHolds, PTL

-----------------------------------------------------------------------------
(* How often a key is sent *)

LEMMA SendInit == Init => SendInv
<1> SUFFICES ASSUME Init PROVE SendInv
  OBVIOUS
<1>1. TypeOK
  BY TreeInit DEF TreeInv
<1>2. /\ \A n \in Nodes : sends[n] = 0 /\ net[n] = {} /\ handlers[n] = {}
      /\ requests = 0
  BY DEF Init
<1>3. CommandsCounted
  BY <1>2, NetworkAssumption DEF CommandsCounted
<1>4. RequesterIsFirst /\ OthersKeys /\ FirstKeyOnce
  BY <1>2 DEF RequesterIsFirst, OthersKeys, FirstKeyOnce
<1> QED
  BY <1>1, <1>3, <1>4 DEF SendInv

LEMMA RequestSend ==
  ASSUME SendInv, TypeOK', RequestDistribution
  PROVE  SendInv'
<1>1. /\ requests' = requests + 1
      /\ UNCHANGED <<net, sends, exchangedPubKey, sentInitial>>
      /\ requests \in Nat /\ sends \in [Nodes -> Nat]
  BY NetworkAssumption DEF RequestDistribution, SendInv, TypeOK
<1>2. /\ \A n \in Nodes \ {Requester} : handlers'[n] = handlers[n]
      /\ \A h \in handlers'[Requester] : h \in handlers[Requester] \/ h \in Command
  BY NetworkAssumption DEF RequestDistribution, SendInv, TypeOK, Command
<1>3. CommandsCounted'
  BY <1>1, <1>2, NetworkAssumption DEF SendInv, CommandsCounted
<1>4. RequesterIsFirst'
  BY <1>1, <1>2, NetworkAssumption DEF SendInv, RequesterIsFirst
<1> QED
  BY <1>1, <1>2, <1>3, <1>4 DEF SendInv, OthersKeys, FirstKeyOnce

LEMMA SendInitialSend ==
  ASSUME SendInv, TypeOK', NEW n \in Nodes, NEW h \in handlers[n], SendInitial(n, h)
  PROVE  SendInv'
<1>1. /\ BroadcastKey(n, net[n]) /\ Swap(n, h, {})
      /\ sentInitial' = [sentInitial EXCEPT ![n] = TRUE]
      /\ UNCHANGED <<requests, exchangedPubKey>>
  BY DEF SendInitial
<1>2. h \in Command /\ h = [pc |-> "send"] /\ n = Requester
  BY HandlerOrCommand DEF SendInitial, SendInv, TypeOK, CommandsCounted, Command
<1>3. /\ handlers'[n] \cap Command = {}
      /\ \A k \in Nodes : \A g \in handlers'[k] : g \in handlers[k]
  BY <1>1, <1>2, HandlerEnds DEF SendInv, Command
<1>4. sends[n] < requests /\ sends[n] \in Nat /\ requests \in Nat
  BY <1>2 DEF SendInv, CommandsCounted, TypeOK
<1>5. /\ sends'[n] = sends[n] + 1
      /\ \A k \in Nodes \ {n} : sends'[k] = sends[k]
      /\ net'[n] = net[n]
      /\ \A k \in Nodes \ {n} : \A m \in net'[k] : m \in net[k] \/ m.key = n
  BY <1>1, BroadcastKeySets DEF SendInv
<1>6. sentInitial'[Requester]
  BY <1>1, <1>2 DEF SendInv, TypeOK
<1>7. CommandsCounted'
  BY <1>1, <1>2, <1>3, <1>4, <1>5 DEF SendInv, CommandsCounted
<1>8. OthersKeys'
  BY <1>5 DEF SendInv, OthersKeys
<1>9. FirstKeyOnce'
  BY <1>1, <1>2, <1>3, <1>5 DEF SendInv, FirstKeyOnce
<1> QED
  BY <1>6, <1>7, <1>8, <1>9 DEF SendInv, RequesterIsFirst

LEMMA ReceiveSend ==
  ASSUME SendInv, TypeOK', NEW n \in Nodes, NEW m \in net[n], ReceiveKey(n, m)
  PROVE  SendInv'
<1> DEFINE new == [pc |-> "answer", msg |-> m, own |-> exchangedPubKey[n] = {n}]
<1>1. /\ net' = [net EXCEPT ![n] = @ \ {m}]
      /\ exchangedPubKey' = [exchangedPubKey EXCEPT ![n] = @ \cup {m.key}]
      /\ handlers' = [handlers EXCEPT ![n] = @ \cup {new}]
      /\ UNCHANGED <<sends, requests, sentInitial>>
  BY DEF ReceiveKey, Known, SendInv, TypeOK
<1>2. new \notin Command /\ (Owes(new) <=> exchangedPubKey[n] = {n})
  BY DEF Command, Owes
<1> HIDE DEF new
<1>3. /\ handlers'[n] = handlers[n] \cup {new}
      /\ \A k \in Nodes \ {n} : handlers'[k] = handlers[k]
      /\ \A k \in Nodes : \A p \in net'[k] : p \in net[k]
  BY <1>1 DEF SendInv, TypeOK
<1>4. /\ exchangedPubKey'[n] # {n}
      /\ \A k \in Nodes \ {n} : exchangedPubKey'[k] = exchangedPubKey[k]
  <2>1. m.key # n
    BY DEF SendInv, OthersKeys
  <2>2. exchangedPubKey'[n] = exchangedPubKey[n] \cup {m.key}
    BY <1>1 DEF SendInv, TypeOK
  <2>3. m.key \in exchangedPubKey'[n]
    BY <2>2
  <2>4. exchangedPubKey'[n] # {n}
    BY <2>1, <2>3
  <2> QED
    BY <1>1, <2>4 DEF SendInv, TypeOK
<1>5. sentInitial[Requester]
  BY DEF SendInv, RequesterIsFirst
<1>6. CommandsCounted'
  BY <1>1, <1>2, <1>3 DEF SendInv, CommandsCounted
<1>7. FirstKeyOnce'
  <2> SUFFICES ASSUME NEW k \in Nodes \ {Requester}
               PROVE  /\ sends'[k] <= 1
                      /\ exchangedPubKey'[k] = {k} =>
                           sends'[k] = 0 /\ \A h \in handlers'[k] : ~Owes(h)
                      /\ \A h \in handlers'[k] : Owes(h) =>
                           sends'[k] = 0 /\ \A g \in handlers'[k] : Owes(g) => g = h
    BY DEF FirstKeyOnce, Owes
  <2>1. CASE k = n
    BY <1>1, <1>2, <1>3, <1>4, <2>1 DEF SendInv, FirstKeyOnce
  <2>2. CASE k # n
    BY <1>1, <1>3, <1>4, <2>2 DEF SendInv, FirstKeyOnce
  <2> QED
    BY <2>1, <2>2
<1> QED
  BY <1>1, <1>3, <1>5, <1>6, <1>7 DEF SendInv, RequesterIsFirst, OthersKeys

LEMMA AnswerSend ==
  ASSUME SendInv, TypeOK', NEW n \in Nodes, NEW h \in handlers[n], AnswerKey(n, h)
  PROVE  SendInv'
<1> DEFINE new == [h EXCEPT !.pc = "count", !.own = FALSE]
<1>1. /\ h.pc = "answer" /\ Swap(n, h, {new})
      /\ UNCHANGED <<requests, exchangedPubKey, sentInitial>>
  BY DEF AnswerKey
<1>2. h \notin Command
  BY <1>1 DEF Command
<1>0. new \in Handler /\ new \notin Command /\ ~Owes(new)
  BY <1>1, HandlerOrCommand, HandlerAnswered DEF SendInv, TypeOK, Owes, Command
<1> HIDE DEF new
<1>3. sentInitial[Requester]
  BY <1>2 DEF SendInv, RequesterIsFirst
<1>4. \A k \in Nodes : \A g \in handlers'[k] :
        \/ g \in handlers[k] /\ (k = n => g # h)
        \/ g \notin Command /\ ~Owes(g)
  BY <1>0, <1>1, HandlerSwapped DEF SendInv
<1>5. CASE Answers(n, h)
  <2>1. n # Requester /\ Owes(h)
    BY <1>1, <1>3, <1>5 DEF Answers, Owes
  <2>2. BroadcastKey(n, net[n])
    BY <1>5 DEF AnswerKey
  <2>3. /\ sends'[n] = sends[n] + 1
        /\ \A k \in Nodes \ {n} : sends'[k] = sends[k]
        /\ net'[n] = net[n]
        /\ \A k \in Nodes \ {n} : \A m \in net'[k] : m \in net[k] \/ m.key = n
    BY <2>2, BroadcastKeySets DEF SendInv
  <2>4. /\ sends'[n] = 1 /\ exchangedPubKey[n] # {n}
        /\ \A g \in handlers'[n] : ~Owes(g)
    BY <1>4, <2>1, <2>3 DEF SendInv, FirstKeyOnce
  <2>5. CommandsCounted'
    <3>1. \A k \in Nodes : \A g \in handlers'[k] : g \in Command => g \in handlers[k]
      BY <1>4
    <3>2. sends'[Requester] = sends[Requester]
      BY <2>1, <2>3, NetworkAssumption
    <3> QED
      BY <1>1, <3>1, <3>2, NetworkAssumption DEF SendInv, CommandsCounted
  <2>6. OthersKeys'
    BY <2>3 DEF SendInv, OthersKeys
  <2>7. FirstKeyOnce'
    BY <1>1, <1>4, <2>3, <2>4 DEF SendInv, FirstKeyOnce
  <2> QED
    BY <1>1, <1>3, <2>5, <2>6, <2>7 DEF SendInv, RequesterIsFirst
<1>6. CASE ~Answers(n, h)
  <2>1. UNCHANGED <<net, sends>>
    BY <1>6 DEF AnswerKey
  <2>2. CommandsCounted'
    BY <1>1, <1>4, <2>1, NetworkAssumption DEF SendInv, CommandsCounted
  <2>3. FirstKeyOnce'
    BY <1>1, <1>4, <2>1 DEF SendInv, FirstKeyOnce
  <2> QED
    BY <1>1, <1>3, <2>1, <2>2, <2>3 DEF SendInv, RequesterIsFirst, OthersKeys
<1> QED
  BY <1>5, <1>6

\* A step of a handler that has answered
Quiet(n, h) ==
  \/ CountKeys(n, h)
  \/ AppendLeaves(n, h)
  \/ RangeLeaves(n, h)
  \/ OverrunLeaves(n, h)
  \/ BuildTree(n, h)

\* It goes on, ends, or ends all handlers of its node
LEMMA QuietHandlers ==
  ASSUME TypeOK, NEW n \in Nodes, NEW h \in handlers[n], Quiet(n, h)
  PROVE  /\ h.pc \notin {"send", "answer"} /\ alive[n]
         /\ UNCHANGED <<net, sends, requests, exchangedPubKey, sentInitial>>
         /\ \A k \in Nodes : \A g \in handlers'[k] :
              g \in handlers[k] \/ (k = n /\ g \notin Command /\ ~Owes(g))
<1>1. /\ h.pc \notin {"send", "answer"} /\ alive[n]
      /\ UNCHANGED <<net, sends, requests, exchangedPubKey, sentInitial>>
  BY DEF Quiet, CountKeys, AppendLeaves, RangeLeaves, OverrunLeaves, BuildTree
<1>2. ASSUME NEW pc \in {"append", "range", "tree"}, Go(n, h, pc)
      PROVE  \A k \in Nodes : \A g \in handlers'[k] :
               g \in handlers[k] \/ (k = n /\ g \notin Command /\ ~Owes(g))
  <2>1. pc \in HandlerPc /\ h.pc # "send"
    BY <1>1 DEF HandlerPc
  <2>2. PICK new \in Handler :
          /\ new.pc = pc /\ Swap(n, h, {new})
          /\ handlers' \in [Nodes -> SUBSET (Handler \cup Command)]
          /\ \A k \in Nodes : \A g \in handlers'[k] :
               \/ g \in handlers[k] /\ (k = n => g # h)
               \/ k = n /\ g = new
    BY <1>2, <2>1, HandlerGoesOn
  <2>3. new \notin Command /\ ~Owes(new)
    BY <2>2 DEF Command, Owes
  <2> QED
    BY <2>2, <2>3
<1>3. \/ \E pc \in {"append", "range", "tree"} : Go(n, h, pc)
      \/ Swap(n, h, {})
      \/ Panic(n)
  BY DEF Quiet, CountKeys, AppendLeaves, RangeLeaves, OverrunLeaves, BuildTree
<1> QED
  BY <1>1, <1>2, <1>3, HandlerEnds, HandlerPanics

\* Handlers that count or build send nothing
LEMMA QuietSend ==
  ASSUME SendInv, TypeOK', NEW n \in Nodes, NEW h \in handlers[n], Quiet(n, h)
  PROVE  SendInv'
<1>1. h.pc # "send" /\ h \notin Command
  BY QuietHandlers DEF SendInv, Command
<1>2. UNCHANGED <<net, sends, requests, exchangedPubKey, sentInitial>>
  BY QuietHandlers DEF SendInv
<1>4. \A k \in Nodes : \A g \in handlers'[k] :
        g \in handlers[k] \/ (k = n /\ g \notin Command /\ ~Owes(g))
  BY QuietHandlers DEF SendInv
<1>5. CommandsCounted'
  BY <1>2, <1>4, NetworkAssumption DEF SendInv, CommandsCounted
<1>6. RequesterIsFirst'
  BY <1>1, <1>2, <1>4 DEF SendInv, RequesterIsFirst
<1>7. FirstKeyOnce'
  BY <1>2, <1>4 DEF SendInv, FirstKeyOnce
<1> QED
  BY <1>2, <1>5, <1>6, <1>7 DEF SendInv, OthersKeys

LEMMA SendStep == SendInv /\ TypeOK' /\ [Next]_vars => SendInv'
<1> SUFFICES ASSUME SendInv, TypeOK', [Next]_vars PROVE SendInv'
  OBVIOUS
<1>1. CASE RequestDistribution
  BY <1>1, RequestSend
<1>2. CASE \E n \in Nodes : NodeStep(n)
  BY <1>2, SendInitialSend, ReceiveSend, AnswerSend, QuietSend DEF NodeStep, Quiet
<1>3. CASE UNCHANGED vars
  BY <1>3
     DEF vars, SendInv, CommandsCounted, RequesterIsFirst, OthersKeys, FirstKeyOnce, Owes
<1> QED
  BY <1>1, <1>2, <1>3 DEF Next

(***************************************************************************)
(* A node that was given no command sends its key once at most, the        *)
(* requester once per command at most, although the command reads the keys *)
(* without the mutex and the flag is not set by an answer.                 *)
(***************************************************************************)
THEOREM KeysSentOnce == Spec => []KeySentOnce
<1>1. SendInv => KeySentOnce
  BY DEF SendInv, CommandsCounted, FirstKeyOnce, KeySentOnce
<1> QED
  BY <1>1, SendInit, SendStep, TypeCorrect, PTL DEF Spec

-----------------------------------------------------------------------------
(* The exchange comes to an end *)

\* A key that was sent is known to everybody or on its way to him
KeysUnderWay ==
  \A n \in Nodes : sends[n] > 0 =>
    \A k \in Nodes : n \in exchangedPubKey[k] \/ \E m \in net[k] : m.key = n

\* Who knows another key has sent his own or has a handler that will, while he lives
AnswerOwed ==
  \A n \in Nodes \ {Requester} :
    /\ ~sentInitial[n]
    /\ exchangedPubKey[n] # {n} =>
         ~alive[n] \/ sends[n] > 0 \/ \E h \in handlers[n] : Owes(h)

\* The first command makes the requester send
CommandCarriedOut ==
  /\ requests > 0 => sends[Requester] > 0 \/ handlers[Requester] \cap Command # {}
  /\ sentInitial[Requester] => sends[Requester] > 0
  /\ exchangedPubKey[Requester] # {Requester} => sentInitial[Requester]

\* Who has all keys begins a list of leaves, and what begins it leaves a tree or an end
BuiltOrBuilding ==
  \A n \in Nodes :
    /\ exchangedPubKey[n] = Nodes =>
         leaves[n] # "empty" \/ \E h \in handlers[n] : h \notin Command
    /\ leaves[n] = "filling" => At(n, {"append"}) # {}
    /\ leaves[n] = "full" => At(n, {"range", "tree"}) # {} \/ tree[n] = Nodes
    /\ leaves[n] = "over" => At(n, {"append", "range"}) # {} \/ ~alive[n]
    /\ leaves[n] = "torn" => Builders(n) # {} \/ ~alive[n] \/ tree[n] # NoTree
    /\ ~alive[n] => leaves[n] \in {"over", "torn"}

Owed == KeysUnderWay /\ AnswerOwed /\ CommandCarriedOut /\ BuiltOrBuilding
EndInv == TreeInv /\ SendInv /\ Owed

Idle(n) == net[n] = {} /\ handlers[n] = {}

\* Nothing is left to do at the nodes that live
Settled == requests > 0 /\ \A n \in Nodes : alive[n] => Idle(n)

SettledWithTrees ==
  Settled => \/ \A n \in Nodes : tree[n] = Nodes \/ Contested(n)
             \/ \E n \in Nodes : ~alive[n] /\ sends[n] = 0

\* The sets of handlers
LEMMA SwapSets ==
  ASSUME TypeOK, NEW n \in Nodes, NEW h, NEW new, Swap(n, h, new)
  PROVE  /\ handlers'[n] = (handlers[n] \ {h}) \cup new
         /\ \A k \in Nodes \ {n} : handlers'[k] = handlers[k]
BY DEF Swap, TypeOK

\* A broadcast is on its way to all others
LEMMA BroadcastUnderWay ==
  ASSUME TypeOK, NEW n \in Nodes, BroadcastKey(n, net[n]), UNCHANGED exchangedPubKey, KeysUnderWay
  PROVE  /\ KeysUnderWay' /\ sends'[n] > 0
         /\ \A k \in Nodes : sends[k] > 0 => sends'[k] > 0
<1>1. \A k \in Nodes \ {n} : net[k] \subseteq net'[k] /\ [key |-> n, id |-> sends[n]] \in net'[k]
  BY DEF BroadcastKey
<1>2. \A k \in Nodes \ {n} : \E m \in net'[k] : m.key = n
  BY <1>1
<1>3. net'[n] = net[n]
  BY DEF BroadcastKey
<1>4. /\ sends[n] \in Nat /\ sends'[n] = sends[n] + 1
      /\ \A k \in Nodes \ {n} : sends'[k] = sends[k]
  BY BroadcastKeySets DEF TypeOK
<1>5. n \in exchangedPubKey[n]
  BY DEF TypeOK
<1>6. KeysUnderWay'
  <2> SUFFICES ASSUME NEW j \in Nodes, sends'[j] > 0, NEW k \in Nodes
               PROVE  j \in exchangedPubKey[k] \/ \E m \in net'[k] : m.key = j
    BY DEF KeysUnderWay
  <2>1. CASE j = n
    BY <1>2, <1>5, <2>1
  <2>2. CASE j # n
    <3>1. j \in exchangedPubKey[k] \/ \E m \in net[k] : m.key = j
      BY <1>4, <2>2 DEF KeysUnderWay
    <3> QED
      BY <1>1, <1>3, <3>1
  <2> QED
    BY <2>1, <2>2
<1> QED
  BY <1>4, <1>6

\* No handler stops building, and no list, tree or process changes
LEMMA NobodyStops ==
  ASSUME BuiltOrBuilding, UNCHANGED <<leaves, tree, alive>>,
         \A k \in Nodes : \A g \in Builders(k) : g \in handlers'[k],
         \A k \in Nodes : exchangedPubKey'[k] = Nodes =>
           leaves[k] # "empty" \/ \E h \in handlers'[k] : h \notin Command
  PROVE  BuiltOrBuilding'
<1>1. \A k \in Nodes :
        /\ Builders(k) \subseteq Builders(k)'
        /\ At(k, {"append"}) \subseteq At(k, {"append"})'
        /\ At(k, {"append", "range"}) \subseteq At(k, {"append", "range"})'
        /\ At(k, {"range", "tree"}) \subseteq At(k, {"range", "tree"})'
  BY DEF Builders, At
<1> SUFFICES ASSUME NEW k \in Nodes
             PROVE  /\ exchangedPubKey'[k] = Nodes =>
                         leaves'[k] # "empty" \/ \E h \in handlers'[k] : h \notin Command
                    /\ leaves'[k] = "filling" => At(k, {"append"})' # {}
                    /\ leaves'[k] = "full" => At(k, {"range", "tree"})' # {} \/ tree'[k] = Nodes
                    /\ leaves'[k] = "over" => At(k, {"append", "range"})' # {} \/ ~alive'[k]
                    /\ leaves'[k] = "torn" => Builders(k)' # {} \/ ~alive'[k] \/ tree'[k] # NoTree
                    /\ ~alive'[k] => leaves'[k] \in {"over", "torn"}
  BY DEF BuiltOrBuilding
<1>2. /\ leaves[k] = "filling" => At(k, {"append"}) # {}
      /\ leaves[k] = "full" => At(k, {"range", "tree"}) # {} \/ tree[k] = Nodes
      /\ leaves[k] = "over" => At(k, {"append", "range"}) # {} \/ ~alive[k]
      /\ leaves[k] = "torn" => Builders(k) # {} \/ ~alive[k] \/ tree[k] # NoTree
      /\ ~alive[k] => leaves[k] \in {"over", "torn"}
  BY DEF BuiltOrBuilding
<1> QED
  BY <1>1, <1>2

LEMMA RequestOwed ==
  ASSUME EndInv, RequestDistribution
  PROVE  Owed'
<1>1. UNCHANGED <<net, sends, exchangedPubKey, sentInitial, leaves, tree, alive>>
  BY DEF RequestDistribution
<1>2. /\ \A n \in Nodes : handlers[n] \subseteq handlers'[n]
      /\ \A n \in Nodes \ {Requester} : handlers'[n] = handlers[n]
  BY DEF RequestDistribution, EndInv, TreeInv, TypeOK
<1>3. AlreadyStarted(Requester) \/ handlers'[Requester] \cap Command # {}
  <2>1. [pc |-> "send"] \in Command
    BY DEF Command
  <2> QED
    BY <2>1, NetworkAssumption DEF RequestDistribution, EndInv, TreeInv, TypeOK
<1>4. CommandCarriedOut'
  BY <1>1, <1>3 DEF EndInv, Owed, CommandCarriedOut, AlreadyStarted
<1>5. BuiltOrBuilding'
  <2>1. \A k \in Nodes : \A g \in handlers[k] : g \in handlers'[k]
    BY <1>2
  <2>2. \A k \in Nodes : \A g \in Builders(k) : g \in handlers'[k]
    BY <2>1 DEF Builders, At
  <2> QED
    BY <1>1, <2>1, <2>2, NobodyStops DEF EndInv, Owed, BuiltOrBuilding
<1>6. KeysUnderWay' /\ AnswerOwed'
  BY <1>1, <1>2 DEF EndInv, Owed, KeysUnderWay, AnswerOwed, Owes
<1> QED
  BY <1>4, <1>5, <1>6 DEF Owed

LEMMA SendInitialOwed ==
  ASSUME EndInv, NEW n \in Nodes, NEW h \in handlers[n], SendInitial(n, h)
  PROVE  Owed'
<1>1. /\ BroadcastKey(n, net[n]) /\ Swap(n, h, {})
      /\ sentInitial' = [sentInitial EXCEPT ![n] = TRUE]
      /\ UNCHANGED <<requests, exchangedPubKey, leaves, tree, alive>>
  BY DEF SendInitial
<1>2. h \in Command /\ n = Requester
  BY HandlerOrCommand DEF SendInitial, EndInv, SendInv, TypeOK, CommandsCounted, Command
<1>3. /\ handlers'[n] = handlers[n] \ {h}
      /\ \A k \in Nodes \ {n} : handlers'[k] = handlers[k]
  BY <1>1, SwapSets DEF EndInv, TreeInv
<1>4. /\ KeysUnderWay' /\ sends'[n] > 0
      /\ \A k \in Nodes : sends[k] > 0 => sends'[k] > 0
  BY <1>1, BroadcastUnderWay DEF EndInv, TreeInv, Owed
<1>5. AnswerOwed'
  BY <1>1, <1>2, <1>3, <1>4 DEF EndInv, TreeInv, TypeOK, Owed, AnswerOwed, Owes
<1>6. CommandCarriedOut'
  BY <1>1, <1>2, <1>4 DEF EndInv, TreeInv, TypeOK, Owed, CommandCarriedOut
<1>7. BuiltOrBuilding'
  <2>1. \A k \in Nodes : \A g \in handlers[k] : g \notin Command => g \in handlers'[k]
    BY <1>2, <1>3
  <2>2. \A k \in Nodes : \A g \in Builders(k) : g \in handlers'[k]
    BY <2>1 DEF Builders, At, Command
  <2> QED
    BY <1>1, <2>1, <2>2, NobodyStops DEF EndInv, Owed, BuiltOrBuilding
<1> QED
  BY <1>4, <1>5, <1>6, <1>7 DEF Owed

LEMMA ReceiveOwed ==
  ASSUME EndInv, NEW n \in Nodes, NEW m \in net[n], ReceiveKey(n, m)
  PROVE  Owed'
<1> DEFINE new == [pc |-> "answer", msg |-> m, own |-> exchangedPubKey[n] = {n}]
<1>1. /\ net' = [net EXCEPT ![n] = @ \ {m}]
      /\ exchangedPubKey' = [exchangedPubKey EXCEPT ![n] = @ \cup {m.key}]
      /\ handlers' = [handlers EXCEPT ![n] = @ \cup {new}]
      /\ UNCHANGED <<sends, requests, sentInitial, leaves, tree, alive>>
  BY DEF ReceiveKey, Known, EndInv, TreeInv, TypeOK
<1>2. new \notin Command /\ (Owes(new) <=> exchangedPubKey[n] = {n})
  BY DEF Command, Owes
<1> HIDE DEF new
<1>3. /\ handlers'[n] = handlers[n] \cup {new} /\ net'[n] = net[n] \ {m}
      /\ exchangedPubKey'[n] = exchangedPubKey[n] \cup {m.key}
      /\ \A k \in Nodes \ {n} : /\ handlers'[k] = handlers[k] /\ net'[k] = net[k]
                                /\ exchangedPubKey'[k] = exchangedPubKey[k]
  BY <1>1 DEF EndInv, TreeInv, TypeOK
<1>4. sentInitial[Requester]
  BY DEF EndInv, SendInv, RequesterIsFirst
<1>5. KeysUnderWay'
  <2> SUFFICES ASSUME NEW j \in Nodes, sends[j] > 0, NEW k \in Nodes
               PROVE  j \in exchangedPubKey'[k] \/ \E p \in net'[k] : p.key = j
    BY <1>1 DEF KeysUnderWay
  <2>1. j \in exchangedPubKey[k] \/ \E p \in net[k] : p.key = j
    BY DEF EndInv, Owed, KeysUnderWay
  <2> QED
    BY <1>3, <2>1
<1>6. AnswerOwed'
  <2> SUFFICES ASSUME NEW k \in Nodes \ {Requester}
               PROVE  /\ ~sentInitial'[k]
                      /\ exchangedPubKey'[k] # {k} =>
                           ~alive'[k] \/ sends'[k] > 0 \/ \E h \in handlers'[k] : Owes(h)
    BY DEF AnswerOwed, Owes
  <2>1. /\ ~sentInitial[k]
        /\ exchangedPubKey[k] # {k} =>
             ~alive[k] \/ sends[k] > 0 \/ \E h \in handlers[k] : Owes(h)
    BY DEF EndInv, Owed, AnswerOwed
  <2>2. CASE k = n
    BY <1>1, <1>2, <1>3, <2>1, <2>2
  <2>3. CASE k # n
    BY <1>1, <1>3, <2>1, <2>3
  <2> QED
    BY <2>2, <2>3
<1>7. CommandCarriedOut'
  <2>1. handlers[Requester] \subseteq handlers'[Requester]
    BY <1>3, NetworkAssumption
  <2> QED
    BY <1>1, <1>4, <2>1 DEF EndInv, Owed, CommandCarriedOut
<1>8. BuiltOrBuilding'
  <2>1. \A k \in Nodes : \A g \in handlers[k] : g \in handlers'[k]
    BY <1>3
  <2>2. \A k \in Nodes : \A g \in Builders(k) : g \in handlers'[k]
    BY <2>1 DEF Builders, At
  <2>3. \A k \in Nodes : exchangedPubKey'[k] = Nodes =>
          leaves[k] # "empty" \/ \E h \in handlers'[k] : h \notin Command
    BY <1>2, <1>3, <2>1 DEF EndInv, Owed, BuiltOrBuilding
  <2> QED
    BY <1>1, <2>2, <2>3, NobodyStops DEF EndInv, Owed
<1> QED
  BY <1>5, <1>6, <1>7, <1>8 DEF Owed

LEMMA AnswerKeyOwed ==
  ASSUME EndInv, NEW n \in Nodes, NEW h \in handlers[n], AnswerKey(n, h)
  PROVE  Owed'
<1> DEFINE new == [h EXCEPT !.pc = "count", !.own = FALSE]
<1>1. /\ h.pc = "answer" /\ Swap(n, h, {new})
      /\ UNCHANGED <<requests, exchangedPubKey, sentInitial, leaves, tree, alive>>
      /\ IF Answers(n, h) THEN BroadcastKey(n, net[n]) ELSE UNCHANGED <<net, sends>>
  BY DEF AnswerKey
<1>2. h \notin Command
  BY <1>1 DEF Command
<1>3. h \in Handler
  BY <1>1, HandlerOrCommand DEF EndInv, TreeInv, TypeOK
<1>4. new \notin Command
  BY <1>3, HandlerAnswered DEF Command
<1> HIDE DEF new
<1>5. /\ handlers'[n] = (handlers[n] \ {h}) \cup {new}
      /\ \A k \in Nodes \ {n} : handlers'[k] = handlers[k]
  BY <1>1, SwapSets DEF EndInv, TreeInv
<1>6. /\ KeysUnderWay' /\ (Answers(n, h) => sends'[n] > 0)
      /\ \A k \in Nodes : sends[k] > 0 => sends'[k] > 0
  <2>1. CASE Answers(n, h)
    BY <1>1, <2>1, BroadcastUnderWay DEF EndInv, TreeInv, Owed
  <2>2. CASE ~Answers(n, h)
    BY <1>1, <2>2 DEF EndInv, Owed, KeysUnderWay
  <2> QED
    BY <2>1, <2>2
<1>7. AnswerOwed'
  <2> SUFFICES ASSUME NEW k \in Nodes \ {Requester}
               PROVE  /\ ~sentInitial'[k]
                      /\ exchangedPubKey'[k] # {k} =>
                           ~alive'[k] \/ sends'[k] > 0 \/ \E g \in handlers'[k] : Owes(g)
    BY DEF AnswerOwed, Owes
  <2>1. /\ ~sentInitial[k]
        /\ exchangedPubKey[k] # {k} =>
             ~alive[k] \/ sends[k] > 0 \/ \E g \in handlers[k] : Owes(g)
    BY DEF EndInv, Owed, AnswerOwed
  <2>2. CASE k = n
    <3>1. Owes(h) => Answers(n, h)
      BY <2>1, <2>2 DEF Owes, Answers
    <3> QED
      BY <1>1, <1>5, <1>6, <2>1, <2>2, <3>1
  <2>3. CASE k # n
    BY <1>1, <1>5, <1>6, <2>1, <2>3
  <2> QED
    BY <2>2, <2>3
<1>8. CommandCarriedOut'
  <2>1. handlers[Requester] \cap Command \subseteq handlers'[Requester] \cap Command
    BY <1>2, <1>5, NetworkAssumption
  <2> QED
    BY <1>1, <1>6, <2>1, NetworkAssumption DEF EndInv, Owed, CommandCarriedOut
<1>9. BuiltOrBuilding'
  <2>1. \A k \in Nodes : \A g \in handlers[k] : g # h => g \in handlers'[k]
    BY <1>5
  <2>2. \A k \in Nodes : \A g \in Builders(k) : g \in handlers'[k]
    BY <1>1, <2>1 DEF Builders, At
  <2>3. \A k \in Nodes : exchangedPubKey[k] = Nodes =>
          leaves[k] # "empty" \/ \E g \in handlers'[k] : g \notin Command
    BY <1>4, <1>5, <2>1 DEF EndInv, Owed, BuiltOrBuilding
  <2> QED
    BY <1>1, <2>2, <2>3, NobodyStops DEF EndInv, Owed
<1> QED
  BY <1>6, <1>7, <1>8, <1>9 DEF Owed

\* Handlers that count or build owe nothing, and disturb no other node
LEMMA QuietOwed ==
  ASSUME EndInv, NEW n \in Nodes, NEW h \in handlers[n], Quiet(n, h)
  PROVE  /\ KeysUnderWay' /\ AnswerOwed' /\ CommandCarriedOut'
         /\ \A k \in Nodes \ {n} : /\ leaves'[k] = leaves[k] /\ tree'[k] = tree[k]
                                   /\ alive'[k] = alive[k] /\ handlers'[k] = handlers[k]
<1>1. /\ h.pc \notin {"send", "answer"} /\ alive[n]
      /\ UNCHANGED <<net, sends, requests, exchangedPubKey, sentInitial>>
  BY QuietHandlers DEF EndInv, TreeInv
<1>2. h \notin Command /\ ~Owes(h)
  BY <1>1 DEF Command, Owes
<1>3. \A k \in Nodes \ {n} : /\ leaves'[k] = leaves[k] /\ tree'[k] = tree[k]
                             /\ alive'[k] = alive[k] /\ handlers'[k] = handlers[k]
  BY DEF Quiet, CountKeys, AppendLeaves, RangeLeaves, OverrunLeaves, BuildTree, Panic,
         Go, Swap, EndInv, TreeInv, TypeOK
<1>4. ~alive'[n] \/ \A g \in handlers[n] : g # h => g \in handlers'[n]
  <2>1. Panic(n) \/ \E new : Swap(n, h, new)
    BY DEF Quiet, CountKeys, AppendLeaves, RangeLeaves, OverrunLeaves, BuildTree, Go
  <2>2. CASE Panic(n)
    BY <2>2, HandlerPanics DEF EndInv, TreeInv
  <2>3. CASE \E new : Swap(n, h, new)
    BY <2>3, SwapSets DEF EndInv, TreeInv
  <2> QED
    BY <2>1, <2>2, <2>3
<1>5. KeysUnderWay'
  BY <1>1 DEF EndInv, Owed, KeysUnderWay
<1>6. AnswerOwed'
  <2> SUFFICES ASSUME NEW k \in Nodes \ {Requester}
               PROVE  /\ ~sentInitial[k]
                      /\ exchangedPubKey[k] # {k} =>
                           ~alive'[k] \/ sends[k] > 0 \/ \E g \in handlers'[k] : Owes(g)
    BY <1>1 DEF AnswerOwed, Owes
  <2>1. /\ ~sentInitial[k]
        /\ exchangedPubKey[k] # {k} =>
             ~alive[k] \/ sends[k] > 0 \/ \E g \in handlers[k] : Owes(g)
    BY DEF EndInv, Owed, AnswerOwed
  <2>2. CASE k = n
    BY <1>1, <1>2, <1>4, <2>1, <2>2
  <2>3. CASE k # n
    BY <1>3, <2>1, <2>3
  <2> QED
    BY <2>2, <2>3
<1>7. CommandCarriedOut'
  <2>1. sentInitial[Requester]
    BY <1>2 DEF EndInv, SendInv, RequesterIsFirst
  <2>2. sends[Requester] > 0
    BY <2>1 DEF EndInv, Owed, CommandCarriedOut
  <2> QED
    BY <1>1, <2>1, <2>2 DEF CommandCarriedOut
<1> QED
  BY <1>3, <1>5, <1>6, <1>7

\* What is left to show of a step at node n
LEMMA OneNodeOwes ==
  ASSUME EndInv, NEW n \in Nodes, NEW h \in handlers[n], Quiet(n, h),
         exchangedPubKey[n] = Nodes =>
           leaves'[n] # "empty" \/ \E g \in handlers'[n] : g \notin Command,
         leaves'[n] = "filling" => At(n, {"append"})' # {},
         leaves'[n] = "full" => At(n, {"range", "tree"})' # {} \/ tree'[n] = Nodes,
         leaves'[n] = "over" => At(n, {"append", "range"})' # {} \/ ~alive'[n],
         leaves'[n] = "torn" => Builders(n)' # {} \/ ~alive'[n] \/ tree'[n] # NoTree,
         ~alive'[n] => leaves'[n] \in {"over", "torn"}
  PROVE  Owed'
<1>1. \A k \in Nodes \ {n} : /\ leaves'[k] = leaves[k] /\ tree'[k] = tree[k]
                             /\ alive'[k] = alive[k] /\ handlers'[k] = handlers[k]
  BY QuietOwed
<1>2. \A k \in Nodes \ {n} :
        /\ Builders(k)' = Builders(k)
        /\ At(k, {"append"})' = At(k, {"append"})
        /\ At(k, {"append", "range"})' = At(k, {"append", "range"})
        /\ At(k, {"range", "tree"})' = At(k, {"range", "tree"})
  BY <1>1 DEF Builders, At
<1>3. exchangedPubKey' = exchangedPubKey
  BY QuietHandlers DEF EndInv, TreeInv
<1>4. BuiltOrBuilding'
  <2> SUFFICES ASSUME NEW k \in Nodes
               PROVE  /\ exchangedPubKey'[k] = Nodes =>
                           leaves'[k] # "empty" \/ \E g \in handlers'[k] : g \notin Command
                      /\ leaves'[k] = "filling" => At(k, {"append"})' # {}
                      /\ leaves'[k] = "full" => At(k, {"range", "tree"})' # {} \/ tree'[k] = Nodes
                      /\ leaves'[k] = "over" => At(k, {"append", "range"})' # {} \/ ~alive'[k]
                      /\ leaves'[k] = "torn" => Builders(k)' # {} \/ ~alive'[k] \/ tree'[k] # NoTree
                      /\ ~alive'[k] => leaves'[k] \in {"over", "torn"}
    BY DEF BuiltOrBuilding
  <2>1. CASE k = n
    BY <1>3, <2>1
  <2>2. CASE k # n
    BY <1>1, <1>2, <1>3, <2>2 DEF EndInv, Owed, BuiltOrBuilding
  <2> QED
    BY <2>1, <2>2
<1> QED
  BY <1>4, QuietOwed DEF Owed

\* What is known of node n before the step
LEMMA OwesBefore ==
  ASSUME EndInv, NEW n \in Nodes
  PROVE  /\ leaves[n] \in LeafList
         /\ exchangedPubKey[n] = Nodes =>
              leaves[n] # "empty" \/ \E h \in handlers[n] : h \notin Command
         /\ leaves[n] = "filling" => At(n, {"append"}) # {}
         /\ leaves[n] = "full" => At(n, {"range", "tree"}) # {} \/ tree[n] = Nodes
         /\ leaves[n] = "over" => At(n, {"append", "range"}) # {} \/ ~alive[n]
         /\ leaves[n] = "torn" => Builders(n) # {} \/ ~alive[n] \/ tree[n] # NoTree
BY DEF EndInv, TreeInv, TypeOK, Owed, BuiltOrBuilding

LEMMA CountOwed ==
  ASSUME EndInv, NEW n \in Nodes, NEW h \in handlers[n], CountKeys(n, h)
  PROVE  Owed'
<1>1. h.pc = "count" /\ alive[n] /\ UNCHANGED <<tree, alive>>
  BY DEF CountKeys
<1>2. Quiet(n, h)
  BY DEF Quiet
<1>3. CASE Go(n, h, "append") /\ leaves' = [leaves EXCEPT ![n] = Growing(@)]
  <2>1. TypeOK /\ h.pc # "send" /\ "append" \in HandlerPc
    BY <1>1 DEF EndInv, TreeInv, HandlerPc
  <2>2. PICK new \in Handler :
          /\ new.pc = "append" /\ Swap(n, h, {new})
          /\ handlers' \in [Nodes -> SUBSET (Handler \cup Command)]
          /\ \A k \in Nodes : \A g \in handlers'[k] :
               \/ g \in handlers[k] /\ (k = n => g # h)
               \/ k = n /\ g = new
    BY <1>3, <2>1, HandlerGoesOn
  <2>3. new \in handlers'[n]
    BY <2>1, <2>2, SwapSets
  <2>4. /\ At(n, {"append"})' # {} /\ At(n, {"append", "range"})' # {}
        /\ Builders(n)' # {}
    BY <2>2, <2>3 DEF At, Builders
  <2>5. leaves'[n] \in {"filling", "over", "torn"}
    BY <1>3, OwesBefore, ListGrows DEF LeafList, EndInv, TreeInv, TypeOK
  <2> QED
    BY <1>1, <1>2, <2>4, <2>5, OneNodeOwes
<1>4. CASE ~AllKeys(n) /\ Swap(n, h, {}) /\ UNCHANGED leaves
  <2>1. exchangedPubKey[n] # Nodes
    BY <1>4 DEF AllKeys, numOfNodes
  <2>2. \A g \in handlers[n] : g # h => g \in handlers'[n]
    BY <1>4, SwapSets DEF EndInv, TreeInv
  <2>3. /\ Builders(n) \subseteq Builders(n)'
        /\ At(n, {"append"}) \subseteq At(n, {"append"})'
        /\ At(n, {"append", "range"}) \subseteq At(n, {"append", "range"})'
        /\ At(n, {"range", "tree"}) \subseteq At(n, {"range", "tree"})'
    BY <1>1, <2>2 DEF Builders, At
  <2> QED
    BY <1>1, <1>2, <1>4, <2>1, <2>3, OwesBefore, OneNodeOwes
<1> QED
  BY <1>3, <1>4 DEF CountKeys

LEMMA AppendOwed ==
  ASSUME EndInv, NEW n \in Nodes, NEW h \in handlers[n], AppendLeaves(n, h)
  PROVE  Owed'
<1>1. /\ h.pc = "append" /\ alive[n] /\ Go(n, h, "range") /\ UNCHANGED <<tree, alive>>
      /\ leaves' = [leaves EXCEPT ![n] = IF @ = "filling" THEN "full" ELSE @]
  BY DEF AppendLeaves
<1>2. Quiet(n, h)
  BY DEF Quiet
<1>3. /\ TypeOK /\ h.pc # "send" /\ "range" \in HandlerPc
      /\ Go(n, h, "range")
  BY <1>1 DEF EndInv, TreeInv, HandlerPc
<1>4. PICK new \in Handler :
        /\ new.pc = "range" /\ Swap(n, h, {new})
        /\ handlers' \in [Nodes -> SUBSET (Handler \cup Command)]
        /\ \A k \in Nodes : \A g \in handlers'[k] :
             \/ g \in handlers[k] /\ (k = n => g # h)
             \/ k = n /\ g = new
  BY <1>3, HandlerGoesOn
<1>5. new \in handlers'[n]
  BY <1>3, <1>4, SwapSets
<1>6. /\ At(n, {"range", "tree"})' # {} /\ At(n, {"append", "range"})' # {}
      /\ Builders(n)' # {}
  BY <1>4, <1>5 DEF At, Builders
<1>7. h \in Builders(n)
  BY <1>1 DEF Builders, At
<1>8. leaves[n] # "empty"
  BY <1>7 DEF EndInv, TreeInv, LeavesFit
<1>9. leaves'[n] \in {"full", "over", "torn"}
  BY <1>1, <1>8, OwesBefore DEF LeafList, EndInv, TreeInv, TypeOK
<1> QED
  BY <1>1, <1>2, <1>6, <1>9, OneNodeOwes

LEMMA RangeOwed ==
  ASSUME EndInv, NEW n \in Nodes, NEW h \in handlers[n], RangeLeaves(n, h)
  PROVE  Owed'
<1>1. /\ h.pc = "range" /\ alive[n] /\ leaves[n] # "over" /\ Go(n, h, "tree")
      /\ UNCHANGED <<leaves, tree, alive>>
  BY DEF RangeLeaves
<1>2. Quiet(n, h)
  BY DEF Quiet
<1>3. /\ TypeOK /\ h.pc # "send" /\ "tree" \in HandlerPc
      /\ Go(n, h, "tree")
  BY <1>1 DEF EndInv, TreeInv, HandlerPc
<1>4. PICK new \in Handler :
        /\ new.pc = "tree" /\ Swap(n, h, {new})
        /\ handlers' \in [Nodes -> SUBSET (Handler \cup Command)]
        /\ \A k \in Nodes : \A g \in handlers'[k] :
             \/ g \in handlers[k] /\ (k = n => g # h)
             \/ k = n /\ g = new
  BY <1>3, HandlerGoesOn
<1>5. new \in handlers'[n]
  BY <1>3, <1>4, SwapSets
<1>6. At(n, {"range", "tree"})' # {} /\ Builders(n)' # {}
  BY <1>4, <1>5 DEF At, Builders
<1>7. h \in Builders(n)
  BY <1>1 DEF Builders, At
<1>8. leaves[n] \in {"full", "torn"}
  BY <1>1, <1>7, OwesBefore DEF LeafList, EndInv, TreeInv, LeavesFit
<1> QED
  BY <1>1, <1>2, <1>6, <1>8, OneNodeOwes

LEMMA OverrunOwed ==
  ASSUME EndInv, NEW n \in Nodes, NEW h \in handlers[n], OverrunLeaves(n, h)
  PROVE  Owed'
<1>1. leaves'[n] = leaves[n] /\ leaves[n] \in {"over", "torn"} /\ Panic(n)
  BY DEF OverrunLeaves
<1>2. ~alive'[n]
  BY <1>1, HandlerPanics DEF EndInv, TreeInv
<1>3. Quiet(n, h)
  BY DEF Quiet
<1> QED
  BY <1>1, <1>2, <1>3, OneNodeOwes

LEMMA BuildOwed ==
  ASSUME EndInv, NEW n \in Nodes, NEW h \in handlers[n], BuildTree(n, h)
  PROVE  Owed'
<1>1. h.pc = "tree" /\ alive[n] /\ UNCHANGED leaves
  BY DEF BuildTree
<1>2. Quiet(n, h)
  BY DEF Quiet
<1>3. h \in Builders(n)
  BY <1>1 DEF Builders, At
<1>4. exchangedPubKey[n] = Nodes
  BY <1>3 DEF EndInv, TreeInv, BuildsFromAll
<1>5. leaves[n] \in {"full", "over", "torn"}
  BY <1>1, <1>3, OwesBefore DEF LeafList, EndInv, TreeInv, LeavesFit
<1>6. CASE /\ \/ tree' = [tree EXCEPT ![n] = exchangedPubKey[n]]
              \/ leaves[n] = "torn" /\ tree' = [tree EXCEPT ![n] = {n}]
           /\ Swap(n, h, {}) /\ UNCHANGED alive
  <2>1. \A g \in handlers[n] : g # h => g \in handlers'[n]
    BY <1>6, SwapSets DEF EndInv, TreeInv
  <2>2. At(n, {"append", "range"}) \subseteq At(n, {"append", "range"})'
    BY <1>1, <2>1 DEF At
  <2>3. tree'[n] # NoTree /\ (leaves[n] # "torn" => tree'[n] = Nodes)
    BY <1>4, <1>6 DEF EndInv, TreeInv, TypeOK, NoTree
  <2> QED
    BY <1>1, <1>2, <1>5, <1>6, <2>2, <2>3, OwesBefore, OneNodeOwes
<1>7. CASE leaves[n] = "torn" /\ Panic(n)
  <2>1. ~alive'[n]
    BY <1>7, HandlerPanics DEF EndInv, TreeInv
  <2> QED
    BY <1>1, <1>2, <1>7, <2>1, OneNodeOwes
<1> QED
  BY <1>6, <1>7 DEF BuildTree

LEMMA EndInit == Nodes # {Requester} /\ Init => EndInv
<1> SUFFICES ASSUME Nodes # {Requester}, Init PROVE EndInv
  OBVIOUS
<1>1. \A n \in Nodes : /\ sends[n] = 0 /\ ~sentInitial[n] /\ exchangedPubKey[n] = {n}
                       /\ leaves[n] = "empty" /\ alive[n]
  BY DEF Init
<1>2. requests = 0
  BY DEF Init
<1>3. \A n \in Nodes : Nodes # {n}
  BY NetworkAssumption
<1>4. Owed
  BY <1>1, <1>2, <1>3, NetworkAssumption
     DEF Owed, KeysUnderWay, AnswerOwed, CommandCarriedOut, BuiltOrBuilding
<1> QED
  BY <1>4, TreeInit, SendInit DEF EndInv

LEMMA EndStep == EndInv /\ [Next]_vars => EndInv'
<1> SUFFICES ASSUME EndInv, [Next]_vars PROVE EndInv'
  OBVIOUS
<1>1. TreeInv' /\ SendInv'
  BY TreeStep, SendStep DEF EndInv, TreeInv
<1>2. CASE RequestDistribution
  BY <1>1, <1>2, RequestOwed DEF EndInv
<1>3. CASE \E n \in Nodes : NodeStep(n)
  BY <1>1, <1>3, SendInitialOwed, ReceiveOwed, AnswerKeyOwed, CountOwed, AppendOwed, RangeOwed,
     OverrunOwed, BuildOwed
     DEF NodeStep, EndInv
<1>4. CASE UNCHANGED vars
  <2>1. BuiltOrBuilding'
    BY <1>4 DEF vars, EndInv, Owed, BuiltOrBuilding, Builders, At
  <2>2. Owed'
    BY <1>4, <2>1 DEF vars, EndInv, Owed, KeysUnderWay, AnswerOwed, CommandCarriedOut, Owes
  <2> QED
    BY <1>1, <2>2 DEF EndInv
<1> QED
  BY <1>2, <1>3, <1>4 DEF Next

\* Who lives and is idle has received all keys that were sent, and built from them
LEMMA IdleMeansBuilt ==
  ASSUME EndInv
  PROVE  SettledWithTrees
<1> SUFFICES ASSUME Settled, \A n \in Nodes : ~alive[n] => sends[n] # 0
             PROVE  \A n \in Nodes : tree[n] = Nodes \/ Contested(n)
  BY DEF SettledWithTrees
<1>1. \A n \in Nodes : sends[n] \in Nat /\ n \in exchangedPubKey[n]
  BY DEF EndInv, TreeInv, TypeOK
<1>2. \A n \in Nodes : alive[n] => net[n] = {} /\ handlers[n] = {}
  BY DEF Settled, Idle
<1>3. sends[Requester] > 0
  BY <1>1, <1>2, NetworkAssumption DEF Settled, EndInv, Owed, CommandCarriedOut
<1>4. \A n \in Nodes : sends[n] > 0
  <2> SUFFICES ASSUME NEW n \in Nodes \ {Requester}, alive[n] PROVE sends[n] > 0
    BY <1>1, <1>3
  <2>1. Requester \in exchangedPubKey[n]
    BY <1>2, <1>3, NetworkAssumption DEF EndInv, Owed, KeysUnderWay
  <2>2. exchangedPubKey[n] # {n}
    BY <2>1
  <2> QED
    BY <1>2, <2>2 DEF EndInv, Owed, AnswerOwed
<1> SUFFICES ASSUME NEW n \in Nodes PROVE tree[n] = Nodes \/ Contested(n)
  OBVIOUS
<1>5. CASE ~alive[n]
  BY <1>5 DEF EndInv, Owed, BuiltOrBuilding, Contested
<1>6. CASE alive[n]
  <2>1. \A k \in Nodes : k \in exchangedPubKey[n]
    BY <1>2, <1>4, <1>6 DEF EndInv, Owed, KeysUnderWay
  <2>2. exchangedPubKey[n] = Nodes
    BY <2>1 DEF EndInv, TreeInv, TypeOK
  <2>3. /\ At(n, {"append"}) = {} /\ At(n, {"append", "range"}) = {}
        /\ At(n, {"range", "tree"}) = {} /\ Builders(n) = {}
    BY <1>2, <1>6 DEF At, Builders
  <2> QED
    BY <1>2, <1>6, <2>2, <2>3, OwesBefore DEF Contested, LeafList
<1> QED
  BY <1>5, <1>6

(***************************************************************************)
(* Once a command was given and the nodes that live have nothing left to   *)
(* do, every node has the tree of all keys, or two of its handlers         *)
(* appended the leaves: if one after the other it has panicked, perhaps    *)
(* before it had a tree, if together it has panicked or has some tree.  Or *)
(* a node panicked before it had sent its key.  No other interleaving of   *)
(* the unlocked steps leaves a key unsent or a tree unbuilt.               *)
(***************************************************************************)
THEOREM TreesInTheEnd ==
  ASSUME Nodes # {Requester}
  PROVE  Spec => []SettledWithTrees
BY EndInit, EndStep, IdleMeansBuilt, PTL DEF Spec

-----------------------------------------------------------------------------
(* Induction without an operator as parameter, and the functions it defines *)

\* Every set of naturals has a least element
LEMMA LeastElement ==
  ASSUME NEW T, T \subseteq Nat, T # {}
  PROVE  \E k \in T : \A j \in T : k <= j
<1> DEFINE R == OpToRel(<, Nat)
<1>1. \A j, k \in Nat : <<j, k>> \in R <=> j < k
  BY DEF OpToRel
<1>2. IsWellFoundedOn(R, Nat)
  BY NatLessThanWellFounded
<1> HIDE DEF R
<1>3. PICK k \in T : \A j \in T : ~ (<<j, k>> \in R)
  BY <1>2, WFMin
<1>4. \A j \in T : ~ (j < k)
  BY <1>1, <1>3
<1>5. \A j \in T : k <= j
  BY <1>4
<1> QED
  BY <1>5

\* Induction up to D, with a set in the place of a predicate
LEMMA UpTo ==
  ASSUME NEW D \in Nat, NEW G, 0 \in G, \A k \in 0 .. D - 1 : k \in G => k + 1 \in G
  PROVE  \A k \in 0 .. D : k \in G
<1> DEFINE T == {k \in 0 .. D : k \notin G}
<1>1. CASE T # {}
  <2>1. PICK k \in T : \A j \in T : k <= j
    <3> HIDE DEF T
    <3>1. T \subseteq Nat
      BY DEF T
    <3> QED
      BY <1>1, <3>1, LeastElement
  <2>2. k \in 0 .. D /\ k # 0
    OBVIOUS
  <2>3. k - 1 \in 0 .. D - 1 /\ k - 1 + 1 = k
    BY <2>2
  <2>4. k - 1 \notin T
    BY <2>1, <2>2
  <2> QED
    BY <2>3, <2>4
<1> QED
  BY <1>1

\* Repeated halving, as for the widths of the levels and the index of the loop
LEMMA Halving ==
  ASSUME NEW D \in Nat, NEW v \in Nat
  PROVE  \E f : f = [l \in 0 .. D |-> IF l = 0 THEN v ELSE f[l - 1] \div 2]
<1> DEFINE Upto(k, f) == f[0] = v /\ \A l \in 1 .. k : f[l] = f[l - 1] \div 2
           G == {k \in 0 .. D : \E f \in [0 .. D -> Nat] : Upto(k, f)}
<1>1. 0 \in G
  <2> DEFINE f == [l \in 0 .. D |-> v]
  <2>1. f \in [0 .. D -> Nat] /\ Upto(0, f) /\ 0 \in 0 .. D
    OBVIOUS
  <2> HIDE DEF f, Upto
  <2> QED
    BY <2>1
<1>2. ASSUME NEW k \in 0 .. D - 1, k \in G
      PROVE  k + 1 \in G
  <2>1. PICK f \in [0 .. D -> Nat] : Upto(k, f)
    BY <1>2
  <2> DEFINE g == [l \in 0 .. D |-> IF l = k + 1 THEN f[k] \div 2 ELSE f[l]]
  <2>2. k \in 0 .. D /\ k + 1 \in 0 .. D /\ f[k] \in Nat
    OBVIOUS
  <2>3. f[k] \div 2 \in Nat
    BY <2>2
  <2>4. g \in [0 .. D -> Nat]
    BY <2>3
  <2>5. g[0] = v
    BY <2>1
  <2>6. ASSUME NEW l \in 1 .. k + 1
        PROVE  g[l] = g[l - 1] \div 2
    <3>1. l \in 0 .. D /\ l - 1 \in 0 .. D /\ l - 1 # k + 1
      OBVIOUS
    <3>2. CASE l = k + 1
      BY <3>1, <3>2
    <3>3. CASE l # k + 1
      <4>1. l \in 1 .. k
        BY <3>3
      <4> QED
        BY <2>1, <3>1, <3>3, <4>1
    <3> QED
      BY <3>2, <3>3
  <2> HIDE DEF g
  <2> QED
    BY <2>2, <2>4, <2>5, <2>6
<1> HIDE DEF G
<1>3. D \in G
  BY <1>1, <1>2, UpTo
<1>4. PICK f \in [0 .. D -> Nat] : Upto(D, f)
  BY <1>3 DEF G
<1>5. f = [l \in 0 .. D |-> IF l = 0 THEN v ELSE f[l - 1] \div 2]
  BY <1>4
<1> QED
  BY <1>5

\* The widths are those of the loop that builds the levels
LEMMA Widths ==
  /\ Width[0] = Size /\ \A l \in 1 .. Depth : Width[l] = Width[l - 1] \div 2
  /\ \A l \in 0 .. Depth : Width[l] \in Nat
<1>1. Width = [l \in 0 .. Depth |-> IF l = 0 THEN Size ELSE Width[l - 1] \div 2]
  BY Halving, TreeAssumption DEF Width
<1>2. Width[0] = Size /\ \A l \in 1 .. Depth : Width[l] = Width[l - 1] \div 2
  BY <1>1, TreeAssumption
<1> DEFINE G == {l \in 0 .. Depth : Width[l] \in Nat}
<1>3. 0 \in G
  BY <1>2, TreeAssumption
<1>4. ASSUME NEW l \in 0 .. Depth - 1, l \in G
      PROVE  l + 1 \in G
  <2>1. l + 1 \in 1 .. Depth /\ l + 1 \in 0 .. Depth /\ (l + 1) - 1 = l /\ Width[l] \in Nat
    BY <1>4, TreeAssumption
  <2>2. Width[l + 1] = Width[l] \div 2
    BY <1>2, <2>1
  <2>3. \A k \in Nat : k \div 2 \in Nat
    OBVIOUS
  <2> QED
    BY <2>1, <2>2, <2>3
<1> HIDE DEF G
<1>5. \A l \in 0 .. Depth : l \in G
  BY <1>3, <1>4, UpTo, TreeAssumption
<1> QED
  BY <1>2, <1>5 DEF G

\* The hashes of a level are those of the pairs below it
Paired(prev, l) == [i \in 0 .. Width[l] - 1 |-> PairHash(prev[2 * i], prev[2 * i + 1])]

LEMMA LevelsAreBuilt ==
  ASSUME NEW keys
  PROVE  /\ Levels(keys)[0] = LeafHashes(keys)
         /\ \A l \in 1 .. Depth : Levels(keys)[l] = Paired(Levels(keys)[l - 1], l)
<1>0. Depth \in Nat
  BY TreeAssumption
<1> DEFINE Upto(k, f) == f[0] = LeafHashes(keys) /\ \A l \in 1 .. k : f[l] = Paired(f[l - 1], l)
           Whole(f) == f = [l \in 0 .. Depth |-> f[l]]
           G == {k \in 0 .. Depth : \E f : Whole(f) /\ Upto(k, f)}
<1>1. 0 \in G
  <2> DEFINE f == [l \in 0 .. Depth |-> LeafHashes(keys)]
  <2>1. Whole(f) /\ Upto(0, f) /\ 0 \in 0 .. Depth
    BY <1>0
  <2> HIDE DEF f, Upto, Whole
  <2> QED
    BY <2>1
<1>2. ASSUME NEW k \in 0 .. Depth - 1, k \in G
      PROVE  k + 1 \in G
  <2>1. PICK f : Whole(f) /\ Upto(k, f)
    BY <1>2
  <2> DEFINE g == [l \in 0 .. Depth |-> IF l = k + 1 THEN Paired(f[k], l) ELSE f[l]]
  <2>2. k + 1 \in 0 .. Depth
    BY <1>0
  <2>3. Whole(g) /\ g[0] = LeafHashes(keys)
    BY <1>0, <2>1
  <2>4. ASSUME NEW l \in 1 .. k + 1
        PROVE  g[l] = Paired(g[l - 1], l)
    <3>1. l \in 0 .. Depth /\ l - 1 \in 0 .. Depth /\ l - 1 # k + 1 /\ (l = k + 1 => l - 1 = k)
      BY <1>0
    <3>2. g[l - 1] = f[l - 1]
      BY <3>1
    <3>3. CASE l = k + 1
      BY <3>1, <3>2, <3>3
    <3>4. CASE l # k + 1
      <4>1. l \in 1 .. k
        BY <3>4
      <4>2. g[l] = f[l]
        BY <3>1, <3>4
      <4> QED
        BY <2>1, <3>2, <4>1, <4>2
    <3> QED
      BY <3>3, <3>4
  <2> HIDE DEF g
  <2> QED
    BY <2>2, <2>3, <2>4
<1> HIDE DEF G
<1>3. Depth \in G
  BY <1>0, <1>1, <1>2, UpTo
<1>4. PICK f : Whole(f) /\ Upto(Depth, f)
  BY <1>3 DEF G
<1> DEFINE Built(h) ==
      h = [l \in 0 .. Depth |->
             IF l = 0 THEN LeafHashes(keys)
             ELSE [i \in 0 .. Width[l] - 1 |-> PairHash(h[l - 1][2 * i], h[l - 1][2 * i + 1])]]
<1>5. Built(f)
  <2>1. \A l \in 0 .. Depth : l = 0 \/ l \in 1 .. Depth
    BY <1>0
  <2>2. \A l \in 1 .. Depth :
          f[l] = [i \in 0 .. Width[l] - 1 |-> PairHash(f[l - 1][2 * i], f[l - 1][2 * i + 1])]
    BY <1>4 DEF Paired
  <2>3. f[0] = LeafHashes(keys) /\ f = [l \in 0 .. Depth |-> f[l]]
    BY <1>4
  <2>4. \A l \in 0 .. Depth :
          f[l] = IF l = 0 THEN LeafHashes(keys)
                 ELSE [i \in 0 .. Width[l] - 1 |-> PairHash(f[l - 1][2 * i], f[l - 1][2 * i + 1])]
    BY <2>1, <2>2, <2>3
  <2> QED
    BY <2>3, <2>4
<1>6. Levels(keys) = CHOOSE h : Built(h)
  BY DEF Levels
<1>7. Built(Levels(keys))
  <2> HIDE DEF Built
  <2> QED
    BY <1>5, <1>6
<1> DEFINE h == Levels(keys)
<1>8. Built(h)
  BY <1>7
<1> HIDE DEF h
<1>9. h[0] = LeafHashes(keys)
  BY <1>0, <1>8
<1>10. \A l \in 1 .. Depth : h[l] = Paired(h[l - 1], l)
  <2> TAKE l \in 1 .. Depth
  <2>1. l \in 0 .. Depth /\ l # 0
    BY <1>0
  <2>2. h[l] = [i \in 0 .. Width[l] - 1 |-> PairHash(h[l - 1][2 * i], h[l - 1][2 * i + 1])]
    BY <1>8, <2>1
  <2> QED
    BY <2>2 DEF Paired
<1> QED
  BY <1>9, <1>10 DEF h

-----------------------------------------------------------------------------
(* The place of a key among the leaves *)

\* Keys have different places, below the number of keys
LEMMA Places ==
  ASSUME NEW n \in Nodes
  PROVE  /\ Place(Nodes, n) \in 0 .. Size - 1
         /\ \A m \in Nodes : Place(Nodes, m) = Place(Nodes, n) => m = n
<1> DEFINE Below(k) == {j \in Nodes : j < k}
<1>1. /\ IsFiniteSet(Nodes) /\ Nodes \subseteq Nat /\ Size \in Nat
      /\ Cardinality(Nodes) <= Size /\ Cardinality(Nodes) \in Nat
  BY NetworkAssumption, TreeAssumption, FS_CardinalityType DEF numOfNodes
<1>2. \A k \in Nodes : Below(k) \subseteq Nodes /\ k \notin Below(k)
  <2> TAKE k \in Nodes
  <2>1. k \in Nat
    BY <1>1
  <2> QED
    BY <2>1
<1>3. \A k, l \in Nodes : k < l => Below(k) \subseteq Below(l) /\ k \in Below(l)
  <2> TAKE k, l \in Nodes
  <2> HAVE k < l
  <2>1. \A j \in Nodes : j < k => j < l
    BY <1>1
  <2> QED
    BY <2>1
<1>p. \A k \in Nodes : Place(Nodes, k) = Cardinality(Below(k))
  BY DEF Place
<1> HIDE DEF Below
<1>4. \A k \in Nodes : /\ IsFiniteSet(Below(k)) /\ Cardinality(Below(k)) \in Nat
                       /\ Cardinality(Below(k)) < Cardinality(Nodes)
  <2> TAKE k \in Nodes
  <2>1. /\ IsFiniteSet(Below(k)) /\ Cardinality(Below(k)) <= Cardinality(Nodes)
        /\ Cardinality(Below(k)) # Cardinality(Nodes)
    BY <1>1, <1>2, FS_Subset
  <2> QED
    BY <1>1, <2>1, FS_CardinalityType
<1>5. \A k, l \in Nodes : k < l => Cardinality(Below(k)) # Cardinality(Below(l))
  <2> TAKE k, l \in Nodes
  <2> HAVE k < l
  <2>1. Below(k) \subseteq Below(l) /\ Below(k) # Below(l)
    BY <1>2, <1>3
  <2> QED
    BY <1>4, <2>1, FS_Subset
<1>6. \A m \in Nodes : Place(Nodes, m) = Place(Nodes, n) => m = n
  <2> TAKE m \in Nodes
  <2>1. m < n \/ n < m \/ m = n
    BY <1>1
  <2> QED
    BY <1>5, <1>p, <2>1
<1> QED
  BY <1>1, <1>4, <1>6, <1>p

LEMMA LeafOfKey ==
  ASSUME NEW n \in Nodes
  PROVE  /\ pubKeyLeafIndex(Nodes, n) \in 0 .. Size - 1
         /\ LeafHashes(Nodes)[pubKeyLeafIndex(Nodes, n)] = <<"leaf", n>>
<1> DEFINE p == Place(Nodes, n)
<1>1. p \in 0 .. Size - 1 /\ \A m \in Nodes : Place(Nodes, m) = p => m = n
  BY Places
<1>2. (CHOOSE m \in Nodes : Place(Nodes, m) = p) = n
  BY <1>1
<1>3. LeafHashes(Nodes)[p] = <<"leaf", n>>
  BY <1>1, <1>2 DEF LeafHashes
<1> QED
  BY <1>1, <1>3 DEF pubKeyLeafIndex

-----------------------------------------------------------------------------
(* Membership *)

\* Halves of an index in a level of even width
LEMMA HalfIndex ==
  ASSUME NEW w \in Nat, w % 2 = 0, NEW i \in 0 .. w - 1
  PROVE  /\ i \div 2 \in 0 .. (w \div 2) - 1
         /\ i % 2 = 0 => 2 * (i \div 2) = i
         /\ i % 2 # 0 => 2 * (i \div 2) + 1 = i
OBVIOUS

\* The index of the loop stays in its level
LEMMA IndexInLevel ==
  ASSUME NEW n \in Nodes
  PROVE  /\ PathIndex(Nodes, n)[0] = pubKeyLeafIndex(Nodes, n)
         /\ \A i \in 1 .. Depth : PathIndex(Nodes, n)[i] = PathIndex(Nodes, n)[i - 1] \div 2
         /\ \A i \in 0 .. Depth : PathIndex(Nodes, n)[i] \in 0 .. Width[i] - 1
<1> DEFINE v == pubKeyLeafIndex(Nodes, n)
           idx == PathIndex(Nodes, n)
<1>0. Depth \in Nat /\ Size \in Nat /\ v \in 0 .. Size - 1
  BY TreeAssumption, LeafOfKey
<1>1. idx = [i \in 0 .. Depth |-> IF i = 0 THEN v ELSE idx[i - 1] \div 2]
  <2>1. v \in Nat
    BY <1>0
  <2>2. \E f : f = [i \in 0 .. Depth |-> IF i = 0 THEN v ELSE f[i - 1] \div 2]
    <3> HIDE DEF v
    <3> QED
      BY <1>0, <2>1, Halving
  <2> QED
    BY <2>2 DEF PathIndex
<1> HIDE DEF idx, v
<1>2. idx[0] = v /\ \A i \in 1 .. Depth : idx[i] = idx[i - 1] \div 2
  BY <1>0, <1>1
<1> DEFINE G == {i \in 0 .. Depth : idx[i] \in 0 .. Width[i] - 1}
<1>3. 0 \in G
  BY <1>0, <1>2, Widths
<1>4. ASSUME NEW i \in 0 .. Depth - 1, i \in G
      PROVE  i + 1 \in G
  <2>1. /\ i \in 0 .. Depth /\ i + 1 \in 1 .. Depth /\ i + 1 \in 0 .. Depth /\ (i + 1) - 1 = i
        /\ idx[i] \in 0 .. Width[i] - 1
    BY <1>0, <1>4
  <2>2. Width[i] \in Nat /\ Width[i] % 2 = 0 /\ Width[i + 1] = Width[i] \div 2
    BY <2>1, Widths, TreeAssumption
  <2>3. idx[i + 1] = idx[i] \div 2
    BY <1>2, <2>1
  <2>4. idx[i] \div 2 \in 0 .. (Width[i] \div 2) - 1
    BY <2>1, <2>2, HalfIndex
  <2> QED
    BY <2>1, <2>2, <2>3, <2>4
<1> HIDE DEF G
<1>5. \A i \in 0 .. Depth : i \in G
  BY <1>0, <1>3, <1>4, UpTo
<1> QED
  BY <1>2, <1>5 DEF G, idx, v

\* One round of the circuit: from the hash of a level to the one above it
LEMMA ClimbsOneLevel ==
  ASSUME NEW n \in Nodes, NEW i \in 1 .. Depth
  PROVE  LET level == Levels(Nodes)
             idx == PathIndex(Nodes, n)
             below == level[i - 1][idx[i - 1]]
             sibling == PathNodes(Nodes, n)[i - 1]
         IN  level[i][idx[i]] = IF PathIndices(Nodes, n)[i - 1] = 0
                                THEN PairHash(below, sibling) ELSE PairHash(sibling, below)
<1> DEFINE level == Levels(Nodes)
           idx == PathIndex(Nodes, n)
           j == idx[i - 1]
<1>1. Depth \in Nat /\ i - 1 \in 0 .. Depth - 1 /\ i - 1 \in 0 .. Depth /\ i \in 0 .. Depth
  BY TreeAssumption
<1>2. /\ idx[i] = j \div 2 /\ j \in 0 .. Width[i - 1] - 1
      /\ Width[i - 1] \in Nat /\ Width[i - 1] % 2 = 0 /\ Width[i] = Width[i - 1] \div 2
  BY <1>1, IndexInLevel, Widths, TreeAssumption
<1>3. level[i] = Paired(level[i - 1], i)
  BY LevelsAreBuilt
<1>4. /\ PathNodes(Nodes, n)[i - 1] = level[i - 1][Sibling(j)]
      /\ PathIndices(Nodes, n)[i - 1] = j % 2
  BY <1>1 DEF PathNodes, PathIndices
<1> HIDE DEF level, idx, j
<1>5. /\ j \div 2 \in 0 .. Width[i] - 1
      /\ j % 2 = 0 => 2 * (j \div 2) = j
      /\ j % 2 # 0 => 2 * (j \div 2) + 1 = j
  BY <1>2, HalfIndex
<1>6. level[i][idx[i]] =
        PairHash(level[i - 1][2 * (j \div 2)], level[i - 1][2 * (j \div 2) + 1])
  BY <1>2, <1>3, <1>5 DEF Paired
<1>7. CASE j % 2 = 0
  <2>1. 2 * (j \div 2) = j /\ 2 * (j \div 2) + 1 = Sibling(j)
    BY <1>5, <1>7 DEF Sibling
  <2> QED
    BY <1>4, <1>6, <1>7, <2>1 DEF level, idx, j
<1>8. CASE j % 2 # 0
  <2>0. j \in Int
    BY <1>2
  <2>1. 2 * (j \div 2) + 1 = j /\ 2 * (j \div 2) = Sibling(j)
    BY <1>5, <1>8, <2>0 DEF Sibling
  <2> QED
    BY <1>4, <1>6, <1>8, <2>1 DEF level, idx, j
<1> QED
  BY <1>7, <1>8

\* The whole loop, from the leaf of a key to the root
LEMMA ClimbsToRoot ==
  ASSUME NEW n \in Nodes
  PROVE  Climb(<<"leaf", n>>, PathNodes(Nodes, n), PathIndices(Nodes, n))
           = pubMerkleTreeRoot(Nodes)
<1> DEFINE nodes == PathNodes(Nodes, n)
           bits == PathIndices(Nodes, n)
           reached == [i \in 0 .. Depth |-> Levels(Nodes)[i][PathIndex(Nodes, n)[i]]]
           Loop(c) == c = [i \in 0 .. Depth |->
                             IF i = 0 THEN <<"leaf", n>>
                             ELSE IF bits[i - 1] = 0 THEN PairHash(c[i - 1], nodes[i - 1])
                                                     ELSE PairHash(nodes[i - 1], c[i - 1])]
           node == CHOOSE c : Loop(c)
<1>0. Depth \in Nat
  BY TreeAssumption
<1>1. reached[0] = <<"leaf", n>>
  BY <1>0, LeafOfKey, IndexInLevel, LevelsAreBuilt
<1>2. \A i \in 1 .. Depth :
        reached[i] = IF bits[i - 1] = 0 THEN PairHash(reached[i - 1], nodes[i - 1])
                                        ELSE PairHash(nodes[i - 1], reached[i - 1])
  <2> TAKE i \in 1 .. Depth
  <2>1. i \in 0 .. Depth /\ i - 1 \in 0 .. Depth
    BY <1>0
  <2> QED
    BY <2>1, ClimbsOneLevel
<1>3. reached = [i \in 0 .. Depth |-> reached[i]]
  OBVIOUS
<1>4. reached[Depth] = pubMerkleTreeRoot(Nodes)
  <2>1. PathIndex(Nodes, n)[Depth] \in 0 .. Width[Depth] - 1 /\ Width[Depth] = 1
    BY <1>0, IndexInLevel, TreeAssumption
  <2>2. PathIndex(Nodes, n)[Depth] = 0
    BY <2>1
  <2> QED
    BY <1>0, <2>2 DEF pubMerkleTreeRoot
<1>5. Climb(<<"leaf", n>>, nodes, bits) = node[Depth]
  BY DEF Climb
<1> HIDE DEF reached, nodes, bits
<1>6. Loop(reached)
  <2>1. \A i \in 0 .. Depth : i = 0 \/ i \in 1 .. Depth
    BY <1>0
  <2> QED
    BY <1>1, <1>2, <1>3, <2>1
<1>7. Loop(node)
  <2> HIDE DEF Loop
  <2> QED
    BY <1>6
<1> HIDE DEF node
<1> DEFINE G == {i \in 0 .. Depth : node[i] = reached[i]}
<1>8. 0 \in G
  BY <1>0, <1>1, <1>7
<1>9. ASSUME NEW i \in 0 .. Depth - 1, i \in G
      PROVE  i + 1 \in G
  <2>1. i + 1 \in 1 .. Depth /\ i + 1 \in 0 .. Depth /\ (i + 1) - 1 = i /\ i + 1 # 0
    BY <1>0
  <2>2. node[i + 1] = IF bits[i] = 0 THEN PairHash(node[i], nodes[i])
                                     ELSE PairHash(nodes[i], node[i])
    BY <1>7, <2>1
  <2>3. reached[i + 1] = IF bits[i] = 0 THEN PairHash(reached[i], nodes[i])
                                        ELSE PairHash(nodes[i], reached[i])
    BY <1>2, <2>1
  <2> QED
    BY <1>9, <2>1, <2>2, <2>3
<1> HIDE DEF G
<1>10. Depth \in G
  BY <1>0, <1>8, <1>9, UpTo
<1> QED
  BY <1>4, <1>5, <1>10 DEF G, nodes, bits

(***************************************************************************)
(* For every number of nodes and every depth of the tree a node proves its *)
(* membership in the tree that each of the others has built.               *)
(***************************************************************************)
THEOREM MembershipProved == Spec => []PathLeadsToRoot
<1>1. TreeInv => PathLeadsToRoot
  <2> SUFFICES ASSUME TreeInv, NEW n \in Nodes, NEW m \in Nodes, HasTree(n), HasTree(m)
               PROVE  Climb(<<"leaf", n>>, PathNodes(tree[n], n), PathIndices(tree[n], n))
                        = pubMerkleTreeRoot(tree[m])
    BY DEF PathLeadsToRoot
  <2>1. tree[n] = Nodes /\ tree[m] = Nodes
    BY DEF TreeInv, TreeOfAll, HasTree
  <2> QED
    BY <2>1, ClimbsToRoot
<1> QED
  BY <1>1, TreeHolds, PTL

\* What the checks of a receiver come to
LEMMA ChecksOfRound ==
  ASSUME NEW n \in Nodes, NEW made, NEW now, NEW variant \in MinVariant .. MaxVariant
  PROVE  isCommitmentValid(generateCommitment(n, Nodes, made, variant), now) <=> made = now
<1> DEFINE w == Witness(n, Nodes, made, variant)
           c == generateCommitment(n, Nodes, made, variant)
<1>1. /\ w.publicKey = n /\ w.epochRound = made /\ w.message.epoch = made
      /\ w.message.protocol = PROTOCOL_VERSION /\ w.message.variant = variant
      /\ w.messageSummed = Sum(w.message, w.secret)
      /\ w.secretSignature = Sign(n, made) /\ w.signature = Sign(n, w.messageSummed)
  BY DEF Witness
<1>2. Climb(w.leaf, w.pathNodes, w.pathIndices) = w.root
  BY ClimbsToRoot, LeafOfKey DEF Witness
<1>3. c.public = Public(w) /\ c.proof.of = w
  BY DEF generateCommitment, Prove
<1> HIDE DEF w, c
<1>4. Define(w)
  BY <1>1, <1>2 DEF Define, Verify
<1>5. ProofVerifies(c.proof, c.public)
  BY <1>3, <1>4 DEF ProofVerifies
<1>6. Public(w)[4] = w.message /\ Public(w)[5] = w.epochRound
  BY DEF Public
<1>7. /\ decodePublicWitness(c.public).Message = w.message
      /\ decodePublicWitness(c.public).EpochRound = w.epochRound
  BY <1>3, <1>6 DEF decodePublicWitness
<1>8. VariantValid(variant)
  BY TreeAssumption DEF VariantValid
<1> QED
  BY <1>1, <1>5, <1>7, <1>8 DEF isCommitmentValid, c

(***************************************************************************)
(* Whatever round a commitment is for, the nodes in this round accept it   *)
(* and the nodes in another round do not.                                  *)
(***************************************************************************)
THEOREM AcceptedWhenDue == Spec => []AcceptedInItsRound
<1>1. TreeInv => AcceptedInItsRound
  <2> SUFFICES ASSUME TreeInv, NEW n \in Nodes, HasTree(n), NEW made \in EpochRounds,
                      NEW now \in EpochRounds, NEW variant \in MinVariant .. MaxVariant
               PROVE  isCommitmentValid(generateCommitment(n, tree[n], made, variant), now)
                        <=> made = now
    BY DEF AcceptedInItsRound
  <2>1. tree[n] = Nodes
    BY DEF TreeInv, TreeOfAll, HasTree
  <2> QED
    BY <2>1, ChecksOfRound
<1> QED
  BY <1>1, TreeHolds, PTL
=============================================================================
