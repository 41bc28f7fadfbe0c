----------------------------- MODULE KeyExchange -----------------------------
(***************************************************************************)
(* The distribution of the public keys: the command                        *)
(* REQUEST_PUBLIC_KEY_DISTRIBUTION and the PUB_KEY_EXCHANGE handler.  Each *)
(* node collects the keys of all nodes and then builds the Merkle tree its *)
(* ZKP commitments are proved against.                                     *)
(*                                                                         *)
(* A node's name stands for its public key.  Sorting and hashing depend on *)
(* the set of keys alone, so that set stands for the tree.  The tree is    *)
(* built without a mutex, from a shared list of leaves, in the phases two  *)
(* handlers can meet in: the appends to the list, the start of the loop    *)
(* over it, and the hashing.                                               *)
(***************************************************************************)
EXTENDS Integers, FiniteSets

CONSTANTS
  Nodes,        \* the nodes of the network
  Requester,    \* the node that is given the command
  MaxRequests   \* bound on commands

numOfNodes == Cardinality(Nodes)

ASSUME NetworkAssumption ==
  IsFiniteSet(Nodes) /\ Requester \in Nodes /\ MaxRequests \in Nat

NoTree == {}

VARIABLES
  net,               \* per node: keys broadcast and not delivered
  sends,             \* per node: how often it broadcast its key
  requests,          \* commands so far
  exchangedPubKey,   \* per node: the keys it knows, its own from the start
  sentInitial,       \* per node: exchangedPubKeySentInitialMessage
  handlers,          \* per node: handlers and commands in progress
  leaves,            \* per node: the state of pubKeysMerkleLeaves, see below
  tree,              \* per node: the keys in its Merkle tree
  alive              \* per node: FALSE after a panic

vars == <<net, sends, requests, exchangedPubKey, sentInitial, handlers, leaves, tree, alive>>

\* A broadcast is one message per receiver; sends number them
KeyMessage == [key : Nodes, id : Nat]

(***************************************************************************)
(* The list of leaves is empty, being filled by one handler, full with the *)
(* PUB_KEY_MERKLE_TREE_SIZE leaves of all keys, or over, with more leaves  *)
(* behind those.  It is torn once a second handler appends while the first *)
(* still fills it: leaves may be lost or doubled from then on.             *)
(***************************************************************************)
LeafList == {"empty", "filling", "full", "over", "torn"}

HandlerPc == {"answer", "count", "append", "range", "tree"}

Handler == [pc : HandlerPc, msg : KeyMessage, own : BOOLEAN]
Command == [pc : {"send"}]

TypeOK ==
  /\ net \in [Nodes -> SUBSET KeyMessage]
  /\ sends \in [Nodes -> Nat] /\ requests \in 0 .. MaxRequests
  /\ exchangedPubKey \in [Nodes -> SUBSET Nodes]
  /\ \A n \in Nodes : n \in exchangedPubKey[n]
  /\ sentInitial \in [Nodes -> BOOLEAN] /\ alive \in [Nodes -> BOOLEAN]
  /\ handlers \in [Nodes -> SUBSET (Handler \cup Command)]
  /\ leaves \in [Nodes -> LeafList]
  /\ tree \in [Nodes -> SUBSET Nodes]

Init ==
  /\ net = [n \in Nodes |-> {}]
  /\ sends = [n \in Nodes |-> 0]
  /\ requests = 0
  /\ exchangedPubKey = [n \in Nodes |-> {n}]
  /\ sentInitial = [n \in Nodes |-> FALSE]
  /\ handlers = [n \in Nodes |-> {}]
  /\ leaves = [n \in Nodes |-> "empty"]
  /\ tree = [n \in Nodes |-> NoTree]
  /\ alive = [n \in Nodes |-> TRUE]

\* A reader per peer; the command has a goroutine of its own
MayReceive(n) ==
  alive[n] /\ Cardinality(handlers[n] \ Command) < numOfNodes - 1

Swap(n, h, new) == handlers' = [handlers EXCEPT ![n] = (@ \ {h}) \cup new]
Go(n, h, pc) == Swap(n, h, {[h EXCEPT !.pc = pc]})

BroadcastKey(n, received) ==
  /\ net' = [k \in Nodes |-> IF k = n THEN received
                             ELSE net[k] \cup {[key |-> n, id |-> sends[n]]}]
  /\ sends' = [sends EXCEPT ![n] = @ + 1]

-----------------------------------------------------------------------------

\* "Public key distribution already started"
AlreadyStarted(n) == exchangedPubKey[n] # {n}

\* The command: the length is read without the mutex, then the key is sent
RequestDistribution ==
  /\ requests < MaxRequests /\ alive[Requester]
  /\ handlers[Requester] \cap Command = {}
  /\ requests' = requests + 1
  /\ IF AlreadyStarted(Requester) THEN UNCHANGED handlers
     ELSE handlers' = [handlers EXCEPT ![Requester] = @ \cup {[pc |-> "send"]}]
  /\ UNCHANGED <<net, sends, exchangedPubKey, sentInitial, leaves, tree, alive>>

SendInitial(n, h) ==
  /\ alive[n] /\ h.pc = "send"
  /\ sentInitial' = [sentInitial EXCEPT ![n] = TRUE]
  /\ BroadcastKey(n, net[n])
  /\ Swap(n, h, {})
  /\ UNCHANGED <<requests, exchangedPubKey, leaves, tree, alive>>

\* Mutant: the first key received replaces the node's own
Known_Replaced(n, key) == IF exchangedPubKey[n] = {n} THEN {key} ELSE exchangedPubKey[n] \cup {key}

Known(n, key) == exchangedPubKey[n] \cup {key}

\* Under exchangedPubKeyMutex: remember the key; the first one will be answered
ReceiveKey(n, m) ==
  /\ MayReceive(n)
  /\ net' = [net EXCEPT ![n] = @ \ {m}]
  /\ exchangedPubKey' = [exchangedPubKey EXCEPT ![n] = Known(n, m.key)]
  /\ handlers' = [handlers EXCEPT ![n] = @ \cup
        {[pc |-> "answer", msg |-> m, own |-> exchangedPubKey[n] = {n}]}]
  /\ UNCHANGED <<sends, requests, sentInitial, leaves, tree, alive>>

\* Mutants: every key is answered; the sender of the first key answers, nobody else
Answers_Every(n, h) == ~sentInitial[n]

Answers(n, h) == h.own /\ ~sentInitial[n]

\* sendOwnPubKey is not read again
AnswerKey(n, h) ==
  /\ alive[n] /\ h.pc = "answer"
  /\ IF Answers(n, h) THEN BroadcastKey(n, net[n]) ELSE UNCHANGED <<net, sends>>
  /\ Swap(n, h, {[h EXCEPT !.pc = "count", !.own = FALSE]})
  /\ UNCHANGED <<requests, exchangedPubKey, sentInitial, leaves, tree, alive>>

\* Mutant: the own key is not counted
AllKeys_Others(n) == Cardinality(exchangedPubKey[n]) = numOfNodes - 1

AllKeys(n) == Cardinality(exchangedPubKey[n]) = numOfNodes

(***************************************************************************)
(* What the first of a handler's appends makes of the list.  The list is   *)
(* never emptied.  Two handlers that append to a full list only race in    *)
(* making it longer still.                                                 *)
(***************************************************************************)
Growing(list) ==
  [empty |-> "filling", filling |-> "torn", full |-> "over", over |-> "over",
   torn |-> "torn"][list]

(***************************************************************************)
(* The number of keys is read without the mutex.  With all keys, which are *)
(* then sorted under it, the handler makes the first of its appends: the   *)
(* number only grows, so to read it earlier makes no difference.           *)
(***************************************************************************)
CountKeys(n, h) ==
  /\ alive[n] /\ h.pc = "count"
  /\ \/ /\ AllKeys(n) /\ Go(n, h, "append")
        /\ leaves' = [leaves EXCEPT ![n] = Growing(@)]
     \/ /\ ~AllKeys(n) /\ Swap(n, h, {}) /\ UNCHANGED leaves
  /\ UNCHANGED <<net, sends, requests, exchangedPubKey, sentInitial, tree, alive>>

\* The last of its appends
AppendLeaves(n, h) ==
  /\ alive[n] /\ h.pc = "append"
  /\ leaves' = [leaves EXCEPT ![n] = IF @ = "filling" THEN "full" ELSE @]
  /\ Go(n, h, "range")
  /\ UNCHANGED <<net, sends, requests, exchangedPubKey, sentInitial, tree, alive>>

\* Mutant: leafHashes grows with the leaves
RangeLeaves_Growing(n, h) ==
  /\ alive[n] /\ h.pc = "range"
  /\ Go(n, h, "tree")
  /\ UNCHANGED <<net, sends, requests, exchangedPubKey, sentInitial, leaves, tree, alive>>

\* The loop over the leaves takes their number when it starts
RangeLeaves(n, h) ==
  /\ alive[n] /\ h.pc = "range" /\ leaves[n] # "over"
  /\ Go(n, h, "tree")
  /\ UNCHANGED <<net, sends, requests, exchangedPubKey, sentInitial, leaves, tree, alive>>

Panic(n) ==
  /\ alive' = [alive EXCEPT ![n] = FALSE]
  /\ handlers' = [handlers EXCEPT ![n] = {}]
  /\ UNCHANGED tree

(***************************************************************************)
(* leafHashes has a fixed length: the loop over more leaves indexes out of *)
(* range, which ends the process whatever its other handlers have reached. *)
(* A torn list may be of any length.                                       *)
(***************************************************************************)
OverrunLeaves(n, h) ==
  /\ alive[n] /\ h.pc = "range" /\ leaves[n] \in {"over", "torn"}
  /\ Panic(n)
  /\ UNCHANGED <<net, sends, requests, exchangedPubKey, sentInitial, leaves>>

(***************************************************************************)
(* Hash the leaves, then the levels up to the root, and take the path.  A  *)
(* handler that overruns writes the same hashes again.  After a torn list  *)
(* the hashes and levels may be of two handlers: the right tree, another   *)
(* one, which {n} stands for, or a level is missing, which is a panic.     *)
(***************************************************************************)
BuildTree(n, h) ==
  /\ alive[n] /\ h.pc = "tree"
  /\ \/ /\ tree' = [tree EXCEPT ![n] = exchangedPubKey[n]]
        /\ Swap(n, h, {}) /\ UNCHANGED alive
     \/ /\ leaves[n] = "torn"
        /\ tree' = [tree EXCEPT ![n] = {n}]
        /\ Swap(n, h, {}) /\ UNCHANGED alive
     \/ leaves[n] = "torn" /\ Panic(n)
  /\ UNCHANGED <<net, sends, requests, exchangedPubKey, sentInitial, leaves>>

-----------------------------------------------------------------------------

NodeStep(n) ==
  \/ \E m \in net[n] : ReceiveKey(n, m)
  \/ \E h \in handlers[n] :
       \/ SendInitial(n, h)
       \/ AnswerKey(n, h)
       \/ CountKeys(n, h)
       \/ AppendLeaves(n, h)
       \/ RangeLeaves(n, h)
       \/ OverrunLeaves(n, h)
       \/ BuildTree(n, h)

Next == RequestDistribution \/ \E n \in Nodes : NodeStep(n)

Spec == Init /\ [][Next]_vars

\* Goroutines run, broadcasts arrive, and the operator gives the command
FairSpec == Spec /\ WF_vars(Next)

-----------------------------------------------------------------------------

\* The handlers of n at one of the steps in pcs
At(n, pcs) == {h \in handlers[n] : h.pc \in pcs}

(***************************************************************************)
(* Two nodes never prove commitments against different roots, unless two   *)
(* handlers of one of them appended to its leaves at the same time.  In    *)
(* every other order of the unlocked steps of two handlers at most one of  *)
(* them hashes a list of the right length, and it hashes all keys; the     *)
(* other can end the process, but not spoil the tree.                      *)
(***************************************************************************)
SameTree ==
  /\ \A n, m \in Nodes :
       (tree[n] # NoTree /\ tree[m] # NoTree /\ "torn" \notin {leaves[n], leaves[m]})
         => tree[n] = tree[m]
  /\ \A n \in Nodes : leaves[n] # "torn" =>
       \A h, g \in At(n, {"tree"}) : h = g /\ tree[n] = NoTree

(***************************************************************************)
(* However its handlers interleave, a node sends its key once for every    *)
(* command it was given, and once if it was given none: either the command *)
(* or the first key it receives makes it send, never both.                 *)
(***************************************************************************)
KeySentOnce ==
  \A n \in Nodes : sends[n] <= IF n = Requester THEN requests ELSE 1

\* Two handlers of n appended leaves: n ended, or may have a tree of torn leaves
Contested(n) ==
  \/ leaves[n] = "over" /\ ~alive[n]
  \/ leaves[n] = "torn" /\ (~alive[n] \/ tree[n] # NoTree)


=============================================================================
