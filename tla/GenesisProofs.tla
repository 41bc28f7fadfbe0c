---------------------------- MODULE GenesisProofs ----------------------------
(***************************************************************************)
(* Theorems about Genesis, for every number of nodes and of requests, and  *)
(* whenever nodes become ready, end or lose each other.                    *)
(***************************************************************************)
EXTENDS Genesis, TLAPS, FiniteSetTheorems, SequenceTheorems

Retrieves(c) == c.type = "RETRIEVE_GENESIS_BLOCK"
Starts(c) == c.type = "START_BLOCKCHAIN"

\* There is one genesis block, on its way to a node or appended by it, and the state
\* says which
OneBlock ==
  /\ Len(blocks) <= 1
  /\ \A n \in Nodes :
       /\ blockchain[n] = <<>> \/ blockchain[n] = blocks
       /\ state[n] \in {"", "AWAITING_GENESIS_BLOCK"} => blockchain[n] = <<>>
       /\ state[n] = "AWAITING_BLOCKCHAIN_START" => blockchain[n] # <<>>
       /\ \A i \in DOMAIN commands[n] :
            Retrieves(commands[n][i]) => blocks = <<commands[n][i].genesisBlock>>

BlockInv == TypeOK /\ requests.start <= requests.made /\ OneBlock

-----------------------------------------------------------------------------

Everywhere == \A n \in Nodes : blockchain[n] # <<>>

\* Before all nodes are up only stops were published
QuietBefore ==
  ~Initialised => /\ \A n \in Nodes : \A i \in DOMAIN commands[n] :
                       commands[n][i].type = "STOP_BLOCKCHAIN"
                  /\ underway = {} /\ blockchainData = NoKeys /\ blocks = <<>>

\* A block that was built has reached a node or is on its way
BlockReaches ==
  blocks # <<>> => \A n \in Nodes : \/ blockchain[n] # <<>>
                                    \/ \E i \in DOMAIN commands[n] : Retrieves(commands[n][i])

\* A start comes after the block of every node, or before the block of the node it is for
StartAfterBlock ==
  \A n \in Nodes : \A i \in DOMAIN commands[n] : Starts(commands[n][i]) =>
    \/ Everywhere
    \/ blockchain[n] = <<>> /\ \A j \in 1 .. i - 1 : ~Retrieves(commands[n][j])

\* Nobody was started, or will be by a message, before all have the block
StartedEverywhere ==
  (\E n \in Nodes : started[n]) \/ (\E m \in underway : m.type = "BCHAIN_INIT_COMMITMENT")
    => Everywhere

(***************************************************************************)
(* NobodyStartsBare is not inductive: the messages that start the others   *)
(* are sent when one node has its block.  The commands, in order per node, *)
(* link the two: a start was published when no block was on its way, to    *)
(* any node.                                                               *)
(***************************************************************************)
Bare == QuietBefore /\ BlockReaches /\ StartAfterBlock /\ StartedEverywhere

BareInv == BlockInv /\ (~hasty => Bare)

-----------------------------------------------------------------------------

Asks(m) == m.type = "GENESIS_BLOCK_BUILD"

\* A node is asked, or asks, once; its key is on its way, or was received
KeyOnce ==
  /\ \A m \in underway : Asks(m) => m.id < builds
  /\ \A n \in Nodes :
       /\ blockchainData[n] + nodesPublicKeys[n] <= builds
       /\ (\E m \in underway : Asks(m) /\ m.to = n) => blockchainData[n] + nodesPublicKeys[n] = 0

\* The block is built when all keys are there, one of each node
BuiltOfAll ==
  blocks # <<>> =>
    /\ \A n \in Nodes : nodesPublicKeys[n] = 1
    /\ blocks = <<[p \in Nodes |-> 1]>>

\* With the block comes one start: it waits for a second, is a command, or was carried out
OneStart ==
  /\ timeouts <= 1 /\ inits <= 1
  /\ blocks = <<>> => timeouts = 0
  /\ timeouts = 1 \/ blocks = <<>> => inits = 0
  /\ \A n \in Nodes : \A i \in DOMAIN commands[n] : Starts(commands[n][i]) =>
       /\ timeouts = 0 /\ inits = 0 /\ blocks # <<>>
       /\ \A m \in Nodes : \A j \in DOMAIN commands[m] :
            Starts(commands[m][j]) => m = n /\ j = i

OnceInv ==
  /\ BlockInv
  /\ builds <= 1 => KeyOnce /\ BuiltOfAll
  /\ builds <= 1 /\ requests.start = 0 => OneStart

-----------------------------------------------------------------------------
(* Queues of commands *)

\* The queues that the steps below publish to: the old commands stay where they are
Published(c) ==
  /\ commands' \in [Nodes -> Seq(Commands)]
  /\ \A k \in Nodes : \A i \in DOMAIN commands[k] :
       i \in DOMAIN commands'[k] /\ commands'[k][i] = commands[k][i]
  /\ \A k \in Nodes : \A i \in DOMAIN commands'[k] :
       \/ i \in DOMAIN commands[k] /\ commands'[k][i] = commands[k][i]
       \/ i = Len(commands[k]) + 1 /\ commands'[k][i] = c

LEMMA Appended ==
  ASSUME NEW q \in Seq(Commands), NEW c \in Commands
  PROVE  /\ Append(q, c) \in Seq(Commands)
         /\ \A i \in DOMAIN q : i \in DOMAIN Append(q, c) /\ Append(q, c)[i] = q[i]
         /\ \A i \in DOMAIN Append(q, c) :
              (i \in DOMAIN q /\ Append(q, c)[i] = q[i]) \/ (i = Len(q) + 1 /\ Append(q, c)[i] = c)
         /\ Len(q) + 1 \in DOMAIN Append(q, c) /\ Append(q, c)[Len(q) + 1] = c
<1> DEFINE r == Append(q, c)
<1>1. /\ r \in Seq(Commands) /\ Len(r) = Len(q) + 1 /\ r[Len(q) + 1] = c
      /\ \A i \in 1 .. Len(q) : r[i] = q[i]
  BY AppendProperties
<1>2. Len(q) \in Nat /\ DOMAIN q = 1 .. Len(q) /\ DOMAIN r = 1 .. Len(q) + 1
  BY <1>1
<1> HIDE DEF r
<1>3. \A i \in DOMAIN r : (i \in DOMAIN q /\ r[i] = q[i]) \/ (i = Len(q) + 1 /\ r[i] = c)
  BY <1>1, <1>2
<1>4. /\ \A i \in DOMAIN q : i \in DOMAIN r /\ r[i] = q[i]
      /\ Len(q) + 1 \in DOMAIN r
  BY <1>1, <1>2
<1> QED
  BY <1>1, <1>3, <1>4 DEF r

LEMMA ToOne ==
  ASSUME TypeOK, NEW n \in Nodes, NEW c \in Commands, PublishTo(n, c)
  PROVE  /\ Published(c)
         /\ \A k \in Nodes \ {n} : commands'[k] = commands[k]
<1>1. commands \in [Nodes -> Seq(Commands)] /\ commands' = [commands EXCEPT ![n] = Append(@, c)]
  BY DEF TypeOK, PublishTo
<1>2. commands' \in [Nodes -> Seq(Commands)]
  BY <1>1, Appended
<1>3. \A k \in Nodes : commands'[k] = IF k = n THEN Append(commands[n], c) ELSE commands[k]
  BY <1>1
<1> QED
  BY <1>1, <1>2, <1>3, Appended DEF Published

LEMMA ToAll ==
  ASSUME TypeOK, NEW c \in Commands, PublishToAll(c)
  PROVE  /\ Published(c)
         /\ \A k \in Nodes : \E i \in DOMAIN commands'[k] : commands'[k][i] = c
<1>1. commands \in [Nodes -> Seq(Commands)]
  BY DEF TypeOK
<1>2. commands' = [k \in Nodes |-> Append(commands[k], c)]
  BY DEF PublishToAll
<1>3. commands' \in [Nodes -> Seq(Commands)]
  BY <1>1, <1>2, Appended
<1>4. \A k \in Nodes : commands'[k] = Append(commands[k], c)
  BY <1>2
<1>5. \A k \in Nodes : \E i \in DOMAIN commands'[k] : commands'[k][i] = c
  BY <1>1, <1>4, Appended
<1>6. \A k \in Nodes : \A i \in DOMAIN commands[k] :
        i \in DOMAIN commands'[k] /\ commands'[k][i] = commands[k][i]
  BY <1>1, <1>4, Appended
<1>7. \A k \in Nodes : \A i \in DOMAIN commands'[k] :
        \/ i \in DOMAIN commands[k] /\ commands'[k][i] = commands[k][i]
        \/ i = Len(commands[k]) + 1 /\ commands'[k][i] = c
  BY <1>1, <1>4, Appended
<1> QED
  BY <1>3, <1>5, <1>6, <1>7 DEF Published

\* A node that consumes a command has one less, the others keep theirs
LEMMA Consumed ==
  ASSUME TypeOK, NEW n \in Nodes, NEW type, Consume(n, type)
  PROVE  /\ commands' \in [Nodes -> Seq(Commands)]
         /\ \A k \in Nodes \ {n} : commands'[k] = commands[k]
         /\ 1 \in DOMAIN commands[n] /\ commands[n][1] = Head(commands[n])
         /\ Head(commands[n]) \in Commands /\ Head(commands[n]).type = type
         /\ \A i \in DOMAIN commands'[n] :
              i + 1 \in DOMAIN commands[n] /\ commands'[n][i] = commands[n][i + 1]
         /\ \A i \in DOMAIN commands[n] : i # 1 =>
              i - 1 \in DOMAIN commands'[n] /\ commands'[n][i - 1] = commands[n][i]
<1>1. /\ commands[n] # <<>> /\ Head(commands[n]).type = type
      /\ commands' = [commands EXCEPT ![n] = Tail(@)]
  BY DEF Consume
<1>2. commands \in [Nodes -> Seq(Commands)]
  BY DEF TypeOK
<1> DEFINE q == commands[n]
<1>3. q \in Seq(Commands) /\ q # <<>> /\ Len(q) \in Nat /\ DOMAIN q = 1 .. Len(q)
  BY <1>1, <1>2
<1>4. /\ Head(q) \in Commands /\ Tail(q) \in Seq(Commands) /\ Len(Tail(q)) = Len(q) - 1
      /\ \A i \in 1 .. Len(Tail(q)) : Tail(q)[i] = q[i + 1]
  BY <1>3, HeadTailProperties
<1>5. 1 \in DOMAIN q /\ q[1] = Head(q)
  BY <1>3
<1>6. DOMAIN Tail(q) = 1 .. Len(q) - 1
  BY <1>3, <1>4
<1>7. commands'[n] = Tail(q)
  BY <1>1, <1>2
<1>8. \A i \in DOMAIN commands'[n] : i + 1 \in DOMAIN q /\ commands'[n][i] = q[i + 1]
  BY <1>3, <1>4, <1>6, <1>7
<1>9. \A i \in DOMAIN q : i # 1 => i - 1 \in DOMAIN commands'[n] /\ commands'[n][i - 1] = q[i]
  BY <1>3, <1>4, <1>6, <1>7
<1> QED
  BY <1>1, <1>2, <1>4, <1>5, <1>8, <1>9

\* Commands and messages
LEMMA CommandTypes ==
  /\ \A t \in {"EXECUTE_GENESIS_BLOCK_BUILD", "START_BLOCKCHAIN", "STOP_BLOCKCHAIN"} :
       Command(t) \in Commands /\ Command(t).type = t
  /\ \A b \in Keys : /\ Retrieve(b) \in Commands /\ Retrieve(b).genesisBlock = b
                     /\ Retrieves(Retrieve(b)) /\ ~Starts(Retrieve(b))
  /\ \A c \in Commands : Retrieves(c) => c.genesisBlock \in Keys
BY DEF Commands, Command, Retrieve, Retrieves, Starts

LEMMA FloodTypes ==
  ASSUME NEW n \in Nodes, NEW t \in {"GENESIS_BLOCK_BUILD", "BCHAIN_INIT_COMMITMENT"}, NEW id \in Nat
  PROVE  /\ Flood(n, t, id) \subseteq
              [to : Nodes, type : {"GENESIS_BLOCK_BUILD", "BCHAIN_INIT_COMMITMENT"}, id : Nat]
         /\ \A m \in Flood(n, t, id) : m.to \in Nodes \ {n} /\ m.type = t /\ m.id = id
BY DEF Flood

\* The keys of node n are counted up, or down
LEMMA KeySent ==
  ASSUME TypeOK, NEW n \in Nodes, SendPublicKey(n) \/ UNCHANGED blockchainData
  PROVE  /\ blockchainData' \in Keys
         /\ \A k \in Nodes \ {n} : blockchainData'[k] = blockchainData[k]
         /\ SendPublicKey(n) => blockchainData'[n] = blockchainData[n] + 1
<1>1. blockchainData \in [Nodes -> Nat]
  BY DEF TypeOK, Keys
<1>2. SendPublicKey(n) =>
        \A k \in Nodes : blockchainData'[k] = IF k = n THEN blockchainData[n] + 1 ELSE blockchainData[k]
  BY <1>1 DEF SendPublicKey
<1>3. blockchainData' \in [Nodes -> Nat]
  BY <1>1 DEF SendPublicKey
<1> QED
  BY <1>1, <1>2, <1>3 DEF Keys

-----------------------------------------------------------------------------
(* One block *)

LEMMA BlockInit == Init => BlockInv
<1> SUFFICES ASSUME Init PROVE BlockInv
  OBVIOUS
<1>1. state = [n \in Nodes |-> ""] /\ started = [n \in Nodes |-> FALSE]
  BY DEF Init
<1>10. blockchain = [n \in Nodes |-> <<>>]
  BY DEF Init
<1>11. commands = [n \in Nodes |-> <<>>]
  BY DEF Init
<1>12. blocks = <<>>
  BY DEF Init
<1>13. <<>> \in Seq(Keys) /\ <<>> \in Seq(Commands)
  OBVIOUS
<1>2. /\ underway = {} /\ builds = 0 /\ inits = 0 /\ timeouts = 0
      /\ blockchainData = NoKeys /\ nodesPublicKeys = NoKeys
      /\ sendStartBlockchainTogether \in BOOLEAN /\ hasty \in BOOLEAN
  BY DEF Init
<1>3. requests = [made |-> 0, start |-> 0]
  BY DEF Init
<1>4. requests.start <= requests.made /\ requests \in [made : 0 .. MaxRequests, start : 0 .. MaxRequests]
  BY <1>3, NodesAssumption
<1>5. /\ state \in [Nodes -> {"", "AWAITING_GENESIS_BLOCK", "AWAITING_BLOCKCHAIN_START", "gone"}]
      /\ started \in [Nodes -> BOOLEAN]
  BY <1>1
<1>9. blockchain \in [Nodes -> Seq(Keys)] /\ commands \in [Nodes -> Seq(Commands)] /\ blocks \in Seq(Keys)
  BY <1>10, <1>11, <1>12, <1>13
<1>6. NoKeys \in Keys
  BY DEF NoKeys, Keys
<1>7. TypeOK
  BY <1>2, <1>4, <1>5, <1>6, <1>9 DEF TypeOK
<1>8. OneBlock
  <2>1. Len(blocks) <= 1
    BY <1>12
  <2>2. \A n \in Nodes : blockchain[n] = <<>> /\ state[n] = ""
    BY <1>1, <1>10
  <2>3. \A n \in Nodes : DOMAIN commands[n] = {}
    BY <1>11
  <2> QED
    BY <2>1, <2>2, <2>3 DEF OneBlock
<1> QED
  BY <1>4, <1>7, <1>8 DEF BlockInv

\* A step that leaves the blocks alone keeps one block, whatever else it publishes
LEMMA PublishKeepsBlock ==
  ASSUME BlockInv, NEW c, ~Retrieves(c), Published(c), UNCHANGED <<state, blockchain, blocks>>
  PROVE  OneBlock'
<1>1. \A n \in Nodes : \A i \in DOMAIN commands'[n] : Retrieves(commands'[n][i]) =>
        i \in DOMAIN commands[n] /\ commands'[n][i] = commands[n][i]
  BY DEF Published
<1>2. ASSUME NEW n \in Nodes, NEW i \in DOMAIN commands'[n], Retrieves(commands'[n][i])
      PROVE  blocks' = <<commands'[n][i].genesisBlock>>
  <2>1. i \in DOMAIN commands[n] /\ commands'[n][i] = commands[n][i] /\ blocks' = blocks
    BY <1>1, <1>2
  <2>2. Retrieves(commands[n][i])
    BY <2>1, <1>2
  <2> QED
    BY <2>1, <2>2 DEF BlockInv, OneBlock
<1>3. \A n \in Nodes : \A i \in DOMAIN commands'[n] :
        commands'[n][i].type = "RETRIEVE_GENESIS_BLOCK" => blocks' = <<commands'[n][i].genesisBlock>>
  BY <1>2 DEF Retrieves
<1> QED
  BY <1>3 DEF BlockInv, OneBlock, Retrieves

LEMMA ConsumeKeepsBlock ==
  ASSUME BlockInv, NEW n \in Nodes, NEW type, Consume(n, type), UNCHANGED <<blockchain, blocks>>,
         \/ UNCHANGED state
         \/ state' = [state EXCEPT ![n] = "gone"]
  PROVE  OneBlock'
<1>1. \A k \in Nodes : \A i \in DOMAIN commands'[k] : \E j \in DOMAIN commands[k] :
        commands'[k][i] = commands[k][j]
  BY Consumed DEF BlockInv
<1>2. \A k \in Nodes : state'[k] = state[k] \/ state'[k] = "gone"
  BY DEF BlockInv, TypeOK
<1>3. \A k \in Nodes : \A i \in DOMAIN commands'[k] :
        commands'[k][i].type = "RETRIEVE_GENESIS_BLOCK" => blocks' = <<commands'[k][i].genesisBlock>>
  <2> SUFFICES ASSUME NEW k \in Nodes, NEW i \in DOMAIN commands'[k],
                      commands'[k][i].type = "RETRIEVE_GENESIS_BLOCK"
               PROVE  blocks' = <<commands'[k][i].genesisBlock>>
    OBVIOUS
  <2>1. PICK j \in DOMAIN commands[k] : commands'[k][i] = commands[k][j]
    BY <1>1
  <2>2. blocks = <<commands[k][j].genesisBlock>>
    BY <2>1 DEF BlockInv, OneBlock, Retrieves
  <2> QED
    BY <2>1, <2>2
<1>4. \A k \in Nodes : /\ state'[k] \in {"", "AWAITING_GENESIS_BLOCK"} => blockchain[k] = <<>>
                       /\ state'[k] = "AWAITING_BLOCKCHAIN_START" => blockchain[k] # <<>>
  BY <1>2 DEF BlockInv, OneBlock
<1> QED
  BY <1>3, <1>4 DEF BlockInv, OneBlock, Retrieves

LEMMA RequestBlock ==
  ASSUME BlockInv, Operator
  PROVE  BlockInv'
<1>1. PICK start \in {0, 1} : Request(start)
  BY DEF Operator, RequestGenesisBlockData, generateAndStartBlockchain, RequestStartBlockchain,
         stopBlockchain
<1>2. /\ requests' \in [made : 0 .. MaxRequests, start : 0 .. MaxRequests]
      /\ requests'.start <= requests'.made
      /\ UNCHANGED <<state, blockchain, started, underway, builds, inits, blockchainData>>
  <2>1. /\ requests.made < MaxRequests
        /\ requests' = [made |-> requests.made + 1, start |-> requests.start + start]
    BY <1>1 DEF Request
  <2>2. /\ MaxRequests \in Nat /\ requests.made \in 0 .. MaxRequests
        /\ requests.start \in 0 .. MaxRequests /\ requests.start <= requests.made
    BY NodesAssumption DEF BlockInv, TypeOK
  <2>3. /\ requests.made + 1 \in 0 .. MaxRequests /\ requests.start + start \in 0 .. MaxRequests
        /\ requests.start + start <= requests.made + 1
    BY <2>1, <2>2
  <2>4. UNCHANGED <<state, blockchain, started, underway, builds, inits, blockchainData>>
    BY <1>1 DEF Request, nodeVars, floodVars
  <2> QED
    BY <2>1, <2>3, <2>4
<1>3. /\ UNCHANGED <<nodesPublicKeys, blocks, timeouts>>
      /\ sendStartBlockchainTogether' \in BOOLEAN /\ hasty' \in BOOLEAN
  BY DEF Operator, RequestGenesisBlockData, generateAndStartBlockchain, RequestStartBlockchain,
         stopBlockchain, retrieveGenesisBlockData, sendStartBlockchainRequest, processorVars,
         BlockInv, TypeOK
<1>4. \E t \in {"EXECUTE_GENESIS_BLOCK_BUILD", "START_BLOCKCHAIN", "STOP_BLOCKCHAIN"} :
        PublishToAll(Command(t)) \/ \E n \in Nodes : PublishTo(n, Command(t))
  BY NodesAssumption
     DEF Operator, RequestGenesisBlockData, generateAndStartBlockchain, RequestStartBlockchain,
         stopBlockchain, retrieveGenesisBlockData, sendStartBlockchainRequest
<1>5. \E t \in {"EXECUTE_GENESIS_BLOCK_BUILD", "START_BLOCKCHAIN", "STOP_BLOCKCHAIN"} :
        Published(Command(t)) /\ ~Retrieves(Command(t))
  BY <1>4, ToOne, ToAll, CommandTypes DEF BlockInv, Retrieves
<1>6. TypeOK'
  BY <1>2, <1>3, <1>5 DEF BlockInv, TypeOK, Published
<1>7. OneBlock'
  BY <1>2, <1>3, <1>5, PublishKeepsBlock
<1> QED
  BY <1>2, <1>6, <1>7 DEF BlockInv

LEMMA TimeoutBlock ==
  ASSUME BlockInv, Timeout
  PROVE  BlockInv'
<1>1. /\ timeouts > 0 /\ timeouts' = timeouts - 1 /\ hasty' \in BOOLEAN
      /\ PublishTo(FirstNode, Command("START_BLOCKCHAIN"))
      /\ UNCHANGED <<state, blockchain, started, underway, builds, inits, blockchainData,
                     nodesPublicKeys, blocks, sendStartBlockchainTogether, requests>>
  BY DEF Timeout, sendStartBlockchainRequest, nodeVars, floodVars, BlockInv, TypeOK
<1>2. Published(Command("START_BLOCKCHAIN")) /\ ~Retrieves(Command("START_BLOCKCHAIN"))
  BY <1>1, ToOne, CommandTypes, NodesAssumption DEF BlockInv, Retrieves
<1>3. timeouts' \in Nat
  <2>1. timeouts \in Nat
    BY DEF BlockInv, TypeOK
  <2> QED
    BY <1>1, <2>1
<1>4. TypeOK'
  BY <1>1, <1>2, <1>3 DEF BlockInv, TypeOK, Published
<1>5. OneBlock'
  BY <1>1, <1>2, PublishKeepsBlock
<1> QED
  BY <1>1, <1>4, <1>5 DEF BlockInv

LEMMA ConsumeBlock ==
  ASSUME BlockInv, NEW n \in Nodes,
         ExecuteGenesisBlockBuild(n) \/ StartBlockchain(n) \/ StopBlockchain(n)
  PROVE  BlockInv'
<1>1. /\ \E type : Consume(n, type)
      /\ UNCHANGED <<blockchain, nodesPublicKeys, blocks, sendStartBlockchainTogether, timeouts,
                     requests, hasty>>
      /\ UNCHANGED state \/ state' = [state EXCEPT ![n] = "gone"]
  BY DEF ExecuteGenesisBlockBuild, StartBlockchain, StopBlockchain, Consume, processorVars, nodeVars,
         floodVars
<1>2. state' \in [Nodes -> {"", "AWAITING_GENESIS_BLOCK", "AWAITING_BLOCKCHAIN_START", "gone"}]
  BY <1>1 DEF BlockInv, TypeOK
<1>3. started' \in [Nodes -> BOOLEAN]
  BY DEF ExecuteGenesisBlockBuild, StartBlockchain, StopBlockchain, nodeVars, BlockInv, TypeOK
<1>4. /\ underway' \subseteq
           [to : Nodes, type : {"GENESIS_BLOCK_BUILD", "BCHAIN_INIT_COMMITMENT"}, id : Nat]
      /\ builds' \in Nat /\ inits' \in Nat
  <2>1. /\ underway \subseteq
             [to : Nodes, type : {"GENESIS_BLOCK_BUILD", "BCHAIN_INIT_COMMITMENT"}, id : Nat]
        /\ builds \in Nat /\ inits \in Nat
    BY DEF BlockInv, TypeOK
  <2>2. \/ UNCHANGED floodVars
        \/ /\ builds' = builds + 1 /\ inits' = inits
           /\ underway' = underway \cup Flood(n, "GENESIS_BLOCK_BUILD", builds)
        \/ /\ inits' = inits + 1 /\ builds' = builds
           /\ underway' = underway \cup Flood(n, "BCHAIN_INIT_COMMITMENT", inits)
    BY DEF ExecuteGenesisBlockBuild, StartBlockchain, StopBlockchain, floodVars
  <2>3. CASE UNCHANGED floodVars
    BY <2>1, <2>3 DEF floodVars
  <2>4. CASE /\ builds' = builds + 1 /\ inits' = inits
             /\ underway' = underway \cup Flood(n, "GENESIS_BLOCK_BUILD", builds)
    <3>1. Flood(n, "GENESIS_BLOCK_BUILD", builds) \subseteq
            [to : Nodes, type : {"GENESIS_BLOCK_BUILD", "BCHAIN_INIT_COMMITMENT"}, id : Nat]
      BY <2>1, FloodTypes
    <3> QED
      BY <2>1, <2>4, <3>1
  <2>5. CASE /\ inits' = inits + 1 /\ builds' = builds
             /\ underway' = underway \cup Flood(n, "BCHAIN_INIT_COMMITMENT", inits)
    <3>1. Flood(n, "BCHAIN_INIT_COMMITMENT", inits) \subseteq
            [to : Nodes, type : {"GENESIS_BLOCK_BUILD", "BCHAIN_INIT_COMMITMENT"}, id : Nat]
      BY <2>1, FloodTypes
    <3> QED
      BY <2>1, <2>5, <3>1
  <2> QED
    BY <2>2, <2>3, <2>4, <2>5
<1>5. blockchainData' \in Keys
  <2>1. SendPublicKey(n) \/ UNCHANGED blockchainData
    BY DEF ExecuteGenesisBlockBuild, StartBlockchain, StopBlockchain
  <2> QED
    BY <2>1, KeySent DEF BlockInv
<1>6. commands' \in [Nodes -> Seq(Commands)]
  BY <1>1, Consumed DEF BlockInv
<1>7. TypeOK'
  BY <1>1, <1>2, <1>3, <1>4, <1>5, <1>6 DEF BlockInv, TypeOK
<1>8. OneBlock'
  BY <1>1, ConsumeKeepsBlock
<1> QED
  BY <1>1, <1>7, <1>8 DEF BlockInv

LEMMA AppendedAlone == \A b : Append(<<>>, b) = <<b>>
<1> SUFFICES ASSUME NEW b PROVE Append(<<>>, b) = <<b>>
  OBVIOUS
<1> DEFINE q == <<>>
<1>1. q \in Seq({b}) /\ Len(q) = 0
  OBVIOUS
<1>2. /\ Append(q, b) \in Seq({b}) /\ Len(Append(q, b)) = 1 /\ Append(q, b)[1] = b
  BY <1>1, AppendProperties
<1>3. <<b>> \in Seq({b}) /\ Len(<<b>>) = 1 /\ <<b>>[1] = b
  OBVIOUS
<1> QED
  BY <1>2, <1>3, SeqEqual

LEMMA InitialiseBlock ==
  ASSUME BlockInv, NEW n \in Nodes, InitialiseVariables(n) \/ LosePeer(n)
  PROVE  BlockInv'
<1>1. /\ UNCHANGED <<blockchain, started, commands, floodVars, blockchainData, processorVars,
                     requests, hasty>>
      /\ \/ state[n] = "" /\ state' = [state EXCEPT ![n] = "AWAITING_GENESIS_BLOCK"]
         \/ state' = [state EXCEPT ![n] = "gone"]
  BY DEF InitialiseVariables, LosePeer
<1>2. UNCHANGED <<underway, builds, inits, nodesPublicKeys, blocks, sendStartBlockchainTogether,
                  timeouts>>
  BY <1>1 DEF floodVars, processorVars
<1>3. TypeOK'
  BY <1>1, <1>2 DEF BlockInv, TypeOK
<1>4. \A k \in Nodes : /\ state'[k] \in {"", "AWAITING_GENESIS_BLOCK"} => blockchain[k] = <<>>
                       /\ state'[k] = "AWAITING_BLOCKCHAIN_START" => blockchain[k] # <<>>
  BY <1>1 DEF BlockInv, TypeOK, OneBlock
<1>5. OneBlock'
  BY <1>1, <1>2, <1>4 DEF BlockInv, OneBlock, Retrieves
<1> QED
  BY <1>1, <1>3, <1>5 DEF BlockInv

LEMMA RetrieveBlock ==
  ASSUME BlockInv, NEW n \in Nodes, RetrieveGenesisBlock(n)
  PROVE  BlockInv'
<1> DEFINE g == Head(commands[n]).genesisBlock
<1>1. /\ Consume(n, "RETRIEVE_GENESIS_BLOCK")
      /\ UNCHANGED <<started, underway, builds, inits, blockchainData, nodesPublicKeys, blocks,
                     sendStartBlockchainTogether, timeouts, requests, hasty>>
  BY DEF RetrieveGenesisBlock, Consume, floodVars, processorVars
<1>2. /\ commands' \in [Nodes -> Seq(Commands)]
      /\ \A k \in Nodes : \A i \in DOMAIN commands'[k] : \E j \in DOMAIN commands[k] :
           commands'[k][i] = commands[k][j]
      /\ g \in Keys /\ blocks = <<g>>
  <2>1. /\ commands' \in [Nodes -> Seq(Commands)]
        /\ \A k \in Nodes : \A i \in DOMAIN commands'[k] : \E j \in DOMAIN commands[k] :
             commands'[k][i] = commands[k][j]
        /\ 1 \in DOMAIN commands[n] /\ commands[n][1] = Head(commands[n])
        /\ Head(commands[n]) \in Commands /\ Retrieves(Head(commands[n]))
    BY <1>1, Consumed DEF BlockInv, Retrieves
  <2>2. g \in Keys
    BY <2>1, CommandTypes
  <2>3. Retrieves(commands[n][1])
    BY <2>1
  <2>4. blocks = <<commands[n][1].genesisBlock>>
    BY <2>1, <2>3 DEF BlockInv, OneBlock
  <2> QED
    BY <2>1, <2>2, <2>4
<1> HIDE DEF g
<1> DEFINE States == {"", "AWAITING_GENESIS_BLOCK", "AWAITING_BLOCKCHAIN_START", "gone"}
           AppendedOrNot ==
             /\ state' \in [Nodes -> States] /\ blockchain' \in [Nodes -> Seq(Keys)]
             /\ \A k \in Nodes :
                  /\ blockchain'[k] = <<>> \/ blockchain'[k] = blocks
                  /\ state'[k] \in {"", "AWAITING_GENESIS_BLOCK"} => blockchain'[k] = <<>>
                  /\ state'[k] = "AWAITING_BLOCKCHAIN_START" => blockchain'[k] # <<>>
<1>3. ASSUME AcceptsGenesisBlock(n) PROVE AppendedOrNot
  <2>1. /\ blockchain' = [blockchain EXCEPT ![n] = Append(@, g)]
        /\ state' = [state EXCEPT ![n] = "AWAITING_BLOCKCHAIN_START"]
    BY <1>3 DEF RetrieveGenesisBlock, g
  <2>2. /\ state \in [Nodes -> {"", "AWAITING_GENESIS_BLOCK", "AWAITING_BLOCKCHAIN_START", "gone"}]
        /\ blockchain \in [Nodes -> Seq(Keys)]
    BY DEF BlockInv, TypeOK
  <2>3. blockchain[n] = <<>>
    BY <1>3 DEF AcceptsGenesisBlock, BlockInv, OneBlock
  <2>4. blockchain'[n] = blocks /\ \A k \in Nodes \ {n} : blockchain'[k] = blockchain[k]
    BY <2>1, <2>2, <2>3, <1>2, AppendedAlone
  <2>5. /\ state' \in [Nodes -> {"", "AWAITING_GENESIS_BLOCK", "AWAITING_BLOCKCHAIN_START", "gone"}]
        /\ state'[n] = "AWAITING_BLOCKCHAIN_START" /\ \A k \in Nodes \ {n} : state'[k] = state[k]
    BY <2>1, <2>2
  <2>6. blocks \in Seq(Keys) /\ blocks # <<>>
    BY <1>2 DEF BlockInv, TypeOK
  <2>7. blockchain' \in [Nodes -> Seq(Keys)]
    <3>1. Append(blockchain[n], g) \in Seq(Keys)
      BY <2>2, <1>2, AppendProperties
    <3> QED
      BY <2>1, <2>2, <3>1
  <2>8. \A k \in Nodes :
          /\ blockchain[k] = <<>> \/ blockchain[k] = blocks
          /\ state[k] \in {"", "AWAITING_GENESIS_BLOCK"} => blockchain[k] = <<>>
          /\ state[k] = "AWAITING_BLOCKCHAIN_START" => blockchain[k] # <<>>
    BY DEF BlockInv, OneBlock
  <2> QED
    BY <2>4, <2>5, <2>6, <2>7, <2>8
<1>4. ASSUME ~AcceptsGenesisBlock(n) PROVE AppendedOrNot
  <2>1. UNCHANGED <<blockchain, state>>
    BY <1>4 DEF RetrieveGenesisBlock
  <2> QED
    BY <2>1 DEF BlockInv, TypeOK, OneBlock
<1>5. AppendedOrNot
  BY <1>3, <1>4
<1>6. TypeOK'
  BY <1>1, <1>2, <1>5 DEF BlockInv, TypeOK
<1>7. \A k \in Nodes : \A i \in DOMAIN commands'[k] :
        Retrieves(commands'[k][i]) => blocks' = <<commands'[k][i].genesisBlock>>
  <2> SUFFICES ASSUME NEW k \in Nodes, NEW i \in DOMAIN commands'[k], Retrieves(commands'[k][i])
               PROVE  blocks' = <<commands'[k][i].genesisBlock>>
    OBVIOUS
  <2>1. PICK j \in DOMAIN commands[k] : commands'[k][i] = commands[k][j]
    BY <1>2
  <2>2. Retrieves(commands[k][j])
    BY <2>1
  <2>3. blocks = <<commands[k][j].genesisBlock>>
    BY <2>2 DEF BlockInv, OneBlock
  <2> QED
    BY <2>1, <2>3, <1>1
<1>8. OneBlock'
  BY <1>1, <1>5, <1>7 DEF BlockInv, OneBlock, Retrieves
<1> QED
  BY <1>1, <1>6, <1>8 DEF BlockInv

LEMMA ReceiveBlock ==
  ASSUME BlockInv, NEW n \in Nodes, NEW m, ReceiveGenesisBlockBuild(n, m) \/ ReceiveInitCommitment(n, m)
  PROVE  BlockInv'
<1>1. /\ m \in underway /\ underway' = underway \ {m}
      /\ state' = [state EXCEPT ![n] = IF @ = "" THEN "gone" ELSE @]
      /\ UNCHANGED <<blockchain, commands, builds, inits, nodesPublicKeys, blocks,
                     sendStartBlockchainTogether, timeouts, requests, hasty>>
      /\ SendPublicKey(n) \/ UNCHANGED blockchainData
      /\ UNCHANGED started \/ started' = [started EXCEPT ![n] = TRUE]
  BY DEF ReceiveGenesisBlockBuild, ReceiveInitCommitment, Receive, processorVars
<1>2. /\ state' \in [Nodes -> {"", "AWAITING_GENESIS_BLOCK", "AWAITING_BLOCKCHAIN_START", "gone"}]
      /\ \A k \in Nodes : state'[k] = state[k] \/ state'[k] = "gone"
  BY <1>1 DEF BlockInv, TypeOK
<1>3. blockchainData' \in Keys
  BY <1>1, KeySent DEF BlockInv
<1>4. started' \in [Nodes -> BOOLEAN]
  BY <1>1 DEF BlockInv, TypeOK
<1>5. TypeOK'
  BY <1>1, <1>2, <1>3, <1>4 DEF BlockInv, TypeOK
<1>6. OneBlock'
  BY <1>1, <1>2 DEF BlockInv, OneBlock, Retrieves
<1> QED
  BY <1>1, <1>5, <1>6 DEF BlockInv

\* The block that is sent is the first that was built
LEMMA Built ==
  ASSUME BlockInv, NEW keys \in Keys
  PROVE  /\ BuiltOnce(keys) \in Seq(Keys) /\ BuiltOnce(keys) # <<>> /\ Len(BuiltOnce(keys)) = 1
         /\ BuiltOnce(keys)[1] \in Keys
         /\ BuiltOnce(keys) = <<BuiltOnce(keys)[1]>>
         /\ blocks # <<>> => BuiltOnce(keys) = blocks
<1> DEFINE b == BuiltOnce(keys)
<1>1. blocks \in Seq(Keys) /\ Len(blocks) <= 1
  BY DEF BlockInv, TypeOK, OneBlock
<1>2. b \in Seq(Keys) /\ b # <<>> /\ Len(b) = 1 /\ (blocks # <<>> => b = blocks)
  <2>1. CASE blocks = <<>>
    <3>1. b = <<keys>>
      BY <2>1 DEF BuiltOnce
    <3> QED
      BY <2>1, <3>1
  <2>2. CASE blocks # <<>>
    <3>1. b = blocks
      BY <2>2 DEF BuiltOnce
    <3>2. Len(blocks) # 0
      BY <1>1, <2>2
    <3>3. Len(blocks) \in Nat
      BY <1>1
    <3>4. Len(blocks) = 1
      <4>1. \A k \in Nat : k <= 1 /\ k # 0 => k = 1
        OBVIOUS
      <4> QED
        BY <1>1, <3>2, <3>3, <4>1
    <3> QED
      BY <1>1, <2>2, <3>1, <3>4
  <2> QED
    BY <2>1, <2>2
<1> HIDE DEF b
<1>3. b[1] \in Keys
  BY <1>2
<1>4. b = <<b[1]>>
  BY <1>2, <1>3, SeqEqual
<1> QED
  BY <1>2, <1>3, <1>4 DEF b

LEMMA BuildBlock ==
  ASSUME BlockInv, NEW n \in Nodes, processGenesisBlockBuildMessage(n)
  PROVE  BlockInv'
<1>1. /\ blockchainData[n] > 0
      /\ blockchainData' = [blockchainData EXCEPT ![n] = @ - 1]
      /\ nodesPublicKeys' = [nodesPublicKeys EXCEPT ![n] = @ + 1]
      /\ UNCHANGED <<state, blockchain, started, underway, builds, inits, sendStartBlockchainTogether,
                     requests, hasty>>
  BY DEF processGenesisBlockBuildMessage, nodeVars, floodVars
<1>2. blockchainData \in [Nodes -> Nat] /\ nodesPublicKeys \in [Nodes -> Nat] /\ timeouts \in Nat
  BY DEF BlockInv, TypeOK, Keys
<1>3. blockchainData' \in Keys /\ nodesPublicKeys' \in Keys
  BY <1>1, <1>2 DEF Keys
<1>4. CASE UNCHANGED <<blocks, commands, timeouts>>
  <2>1. TypeOK'
    BY <1>1, <1>3, <1>4 DEF BlockInv, TypeOK
  <2>2. OneBlock'
    BY <1>1, <1>4 DEF BlockInv, OneBlock, Retrieves
  <2> QED
    BY <1>1, <2>1, <2>2 DEF BlockInv
<1>5. CASE sendGenesisBlock(nodesPublicKeys')
  <2> DEFINE b == BuiltOnce(nodesPublicKeys')
  <2>1. blocks' = b /\ PublishToAll(Retrieve(b[1])) /\ timeouts' \in Nat
    BY <1>2, <1>5 DEF sendGenesisBlock
  <2>2. /\ b \in Seq(Keys) /\ b # <<>> /\ Len(b) = 1 /\ b[1] \in Keys /\ b = <<b[1]>>
        /\ blocks # <<>> => b = blocks
    BY <1>3, Built
  <2> HIDE DEF b
  <2>3. Retrieve(b[1]) \in Commands /\ Retrieve(b[1]).genesisBlock = b[1]
    BY <2>2, CommandTypes
  <2>4. Published(Retrieve(b[1]))
    BY <2>1, <2>3, ToAll DEF BlockInv
  <2>5. TypeOK'
    BY <1>1, <1>3, <2>1, <2>2, <2>4 DEF BlockInv, TypeOK, Published
  <2>6. \A k \in Nodes : \A i \in DOMAIN commands'[k] :
          Retrieves(commands'[k][i]) => blocks' = <<commands'[k][i].genesisBlock>>
    <3> SUFFICES ASSUME NEW k \in Nodes, NEW i \in DOMAIN commands'[k], Retrieves(commands'[k][i])
                 PROVE  blocks' = <<commands'[k][i].genesisBlock>>
      OBVIOUS
    <3>1. CASE commands'[k][i] = Retrieve(b[1])
      BY <2>1, <2>2, <2>3, <3>1
    <3>2. CASE i \in DOMAIN commands[k] /\ commands'[k][i] = commands[k][i]
      <4>1. Retrieves(commands[k][i])
        BY <3>2
      <4>2. blocks = <<commands[k][i].genesisBlock>>
        BY <3>2, <4>1 DEF BlockInv, OneBlock
      <4>3. blocks # <<>>
        BY <4>2
      <4> QED
        BY <2>1, <2>2, <3>2, <4>2, <4>3
    <3> QED
      BY <2>4, <3>1, <3>2 DEF Published
  <2>7. \A k \in Nodes : /\ blockchain'[k] = <<>> \/ blockchain'[k] = blocks'
                         /\ state'[k] \in {"", "AWAITING_GENESIS_BLOCK"} => blockchain'[k] = <<>>
                         /\ state'[k] = "AWAITING_BLOCKCHAIN_START" => blockchain'[k] # <<>>
    BY <1>1, <2>1, <2>2 DEF BlockInv, OneBlock
  <2>8. OneBlock'
    <3>1. Len(blocks') <= 1
      BY <2>1, <2>2
    <3> QED
      BY <2>6, <2>7, <3>1 DEF OneBlock, Retrieves
  <2> QED
    BY <1>1, <2>5, <2>8 DEF BlockInv
<1> QED
  BY <1>4, <1>5 DEF processGenesisBlockBuildMessage

LEMMA BlockStep == BlockInv /\ [Next]_vars => BlockInv'
<1> SUFFICES ASSUME BlockInv, [Next]_vars PROVE BlockInv'
  OBVIOUS
<1>1. CASE Next
  BY <1>1, RequestBlock, TimeoutBlock, BuildBlock, InitialiseBlock, ConsumeBlock, RetrieveBlock,
     ReceiveBlock
     DEF Next, DataProcessor, NodeStep
<1>2. CASE UNCHANGED vars
  BY <1>2 DEF BlockInv, TypeOK, OneBlock, vars, nodeVars, floodVars, processorVars, Retrieves
<1> QED
  BY <1>1, <1>2

LEMMA BlockAlways == Spec => []BlockInv
BY BlockInit, BlockStep, PTL DEF Spec

(***************************************************************************)
(* Type correctness: queues hold commands of the data processor, and the   *)
(* bound on the requests is kept.                                          *)
(***************************************************************************)
THEOREM TypeCorrect == Spec => []TypeOK
<1>1. BlockInv => TypeOK
  BY DEF BlockInv
<1> QED
  BY <1>1, BlockAlways, PTL

(***************************************************************************)
(* However often the operator asks for the genesis block, and whenever     *)
(* nodes become ready, fail or end: nobody appends two, or another one.    *)
(***************************************************************************)
THEOREM OneGenesis == Spec => []SameGenesis
<1>1. BlockInv => SameGenesis
  <2>1. ASSUME BlockInv, NEW n \in Nodes, NEW m \in Nodes
        PROVE  /\ Len(blockchain[n]) <= 1
               /\ blockchain[n] # <<>> /\ blockchain[m] # <<>> => blockchain[n] = blockchain[m]
    <3>1. /\ Len(blocks) <= 1
          /\ blockchain[n] = <<>> \/ blockchain[n] = blocks
          /\ blockchain[m] = <<>> \/ blockchain[m] = blocks
      BY <2>1 DEF BlockInv, OneBlock
    <3>2. Len(<<>>) <= 1
      OBVIOUS
    <3> QED
      BY <3>1, <3>2
  <2> QED
    BY <2>1 DEF SameGenesis
<1> QED
  BY <1>1, BlockAlways, PTL

-----------------------------------------------------------------------------
(* Nobody starts bare *)

\* No step takes a node back before the end of runP2p
LEMMA InitialisedStays ==
  ASSUME BlockInv, Initialised, [Next]_vars
  PROVE  Initialised'
<1>1. state \in [Nodes -> {"", "AWAITING_GENESIS_BLOCK", "AWAITING_BLOCKCHAIN_START", "gone"}]
  BY DEF BlockInv, TypeOK
<1>2. \/ UNCHANGED state
      \/ \E n \in Nodes : \E s \in {"AWAITING_GENESIS_BLOCK", "AWAITING_BLOCKCHAIN_START", "gone"} :
           state' = [state EXCEPT ![n] = s]
  <2>1. CASE Operator \/ DataProcessor \/ UNCHANGED vars
    BY <2>1 DEF Operator, RequestGenesisBlockData, generateAndStartBlockchain, RequestStartBlockchain,
         stopBlockchain, Request, DataProcessor, Timeout, processGenesisBlockBuildMessage, vars, nodeVars
  <2>2. CASE \E n \in Nodes : NodeStep(n) \/ LosePeer(n)
    <3> PICK n \in Nodes : NodeStep(n) \/ LosePeer(n)
      BY <2>2
    <3>1. CASE \E m \in underway : ReceiveGenesisBlockBuild(n, m) \/ ReceiveInitCommitment(n, m)
      <4>1. state' = [state EXCEPT ![n] = IF @ = "" THEN "gone" ELSE @]
        BY <3>1 DEF ReceiveGenesisBlockBuild, ReceiveInitCommitment, Receive
      <4>2. state[n] # ""
        BY DEF Initialised
      <4>3. \A k \in Nodes : state'[k] = state[k]
        BY <1>1, <4>1, <4>2
      <4> QED
        BY <1>1, <4>1, <4>3
    <3>2. CASE InitialiseVariables(n) \/ LosePeer(n) \/ StopBlockchain(n) \/ RetrieveGenesisBlock(n)
      BY <3>2 DEF InitialiseVariables, LosePeer, StopBlockchain, RetrieveGenesisBlock
    <3>3. CASE ExecuteGenesisBlockBuild(n) \/ StartBlockchain(n)
      BY <3>3 DEF ExecuteGenesisBlockBuild, StartBlockchain, nodeVars
    <3> QED
      BY <3>1, <3>2, <3>3 DEF NodeStep
  <2> QED
    BY <2>1, <2>2 DEF Next
<1>3. \A k \in Nodes : state'[k] # ""
  BY <1>1, <1>2 DEF Initialised
<1> QED
  BY <1>3 DEF Initialised

\* What is published behind the commands of a node does not come between a block and a start
LEMMA PublishBare ==
  ASSUME BlockInv, StartAfterBlock, NEW c, Published(c), ~Starts(c), UNCHANGED blockchain
  PROVE  StartAfterBlock'
<1> SUFFICES ASSUME NEW n \in Nodes, NEW i \in DOMAIN commands'[n], Starts(commands'[n][i]),
                    ~Everywhere
             PROVE  /\ blockchain[n] = <<>>
                    /\ \A j \in 1 .. i - 1 : ~Retrieves(commands'[n][j])
  BY DEF StartAfterBlock, Everywhere, Starts, Retrieves
<1>1. i \in DOMAIN commands[n] /\ commands'[n][i] = commands[n][i]
  BY DEF Published
<1>2. Starts(commands[n][i])
  BY <1>1
<1>3. blockchain[n] = <<>> /\ \A j \in 1 .. i - 1 : ~Retrieves(commands[n][j])
  BY <1>1, <1>2 DEF StartAfterBlock
<1>4. commands[n] \in Seq(Commands)
  BY DEF BlockInv, TypeOK
<1>5. \A j \in 1 .. i - 1 : j \in DOMAIN commands[n]
  BY <1>1, <1>4
<1>6. \A j \in 1 .. i - 1 : commands'[n][j] = commands[n][j]
  BY <1>5 DEF Published
<1> QED
  BY <1>3, <1>6

LEMMA PublishReaches ==
  ASSUME BlockReaches, NEW c, Published(c), UNCHANGED <<blockchain, blocks>>
  PROVE  BlockReaches'
BY DEF BlockReaches, Published, Retrieves

\* A command that is consumed and is no block does not change which blocks are on their way
LEMMA ConsumeBare ==
  ASSUME BlockInv, BlockReaches, StartAfterBlock, NEW n \in Nodes, NEW type, Consume(n, type),
         type # "RETRIEVE_GENESIS_BLOCK", UNCHANGED <<blockchain, blocks>>
  PROVE  BlockReaches' /\ StartAfterBlock'
<1>1. /\ \A k \in Nodes \ {n} : commands'[k] = commands[k]
      /\ commands[n][1].type = type
      /\ \A i \in DOMAIN commands'[n] :
           i + 1 \in DOMAIN commands[n] /\ commands'[n][i] = commands[n][i + 1]
      /\ \A i \in DOMAIN commands[n] : i # 1 =>
           i - 1 \in DOMAIN commands'[n] /\ commands'[n][i - 1] = commands[n][i]
      /\ commands' \in [Nodes -> Seq(Commands)]
  BY Consumed DEF BlockInv
<1>2. BlockReaches'
  <2> SUFFICES ASSUME NEW k \in Nodes, blocks # <<>>, blockchain[k] = <<>>
               PROVE  \E i \in DOMAIN commands'[k] : commands'[k][i].type = "RETRIEVE_GENESIS_BLOCK"
    BY DEF BlockReaches, Retrieves
  <2>1. PICK i \in DOMAIN commands[k] : commands[k][i].type = "RETRIEVE_GENESIS_BLOCK"
    BY DEF BlockReaches, Retrieves
  <2>2. CASE k = n
    BY <1>1, <2>1, <2>2
  <2>3. CASE k # n
    BY <1>1, <2>1, <2>3
  <2> QED
    BY <2>2, <2>3
<1>3. StartAfterBlock'
  <2> SUFFICES ASSUME NEW k \in Nodes, NEW i \in DOMAIN commands'[k], Starts(commands'[k][i]),
                      ~Everywhere
               PROVE  /\ blockchain[k] = <<>>
                      /\ \A j \in 1 .. i - 1 : ~Retrieves(commands'[k][j])
    BY DEF StartAfterBlock, Everywhere, Starts, Retrieves
  <2>1. CASE k = n
    <3>1. i \in Nat /\ DOMAIN commands'[n] = 1 .. Len(commands'[n])
      BY <1>1, <2>1
    <3>2. i + 1 \in DOMAIN commands[n] /\ Starts(commands[n][i + 1])
      BY <1>1, <2>1
    <3>3. blockchain[n] = <<>> /\ \A j \in 1 .. (i + 1) - 1 : ~Retrieves(commands[n][j])
      BY <3>2 DEF StartAfterBlock
    <3>4. \A j \in 1 .. i - 1 : /\ j + 1 \in 1 .. (i + 1) - 1 /\ j \in DOMAIN commands'[n]
      BY <3>1, <2>1
    <3>5. \A j \in 1 .. i - 1 : commands'[n][j] = commands[n][j + 1]
      BY <1>1, <3>4
    <3> QED
      BY <2>1, <3>3, <3>4, <3>5
  <2>2. CASE k # n
    BY <1>1, <2>2 DEF StartAfterBlock
  <2> QED
    BY <2>1, <2>2
<1> QED
  BY <1>2, <1>3

\* Steps of which only the state of a node is seen
LEMMA QuietBare ==
  ASSUME Bare, ~Initialised' => ~Initialised,
         UNCHANGED <<blockchain, started, commands, underway, blockchainData, blocks>>
  PROVE  Bare'
BY DEF Bare, QuietBefore, BlockReaches, StartAfterBlock, StartedEverywhere, Everywhere, Starts, Retrieves

LEMMA InitialiseBare ==
  ASSUME BlockInv, Bare, NEW n \in Nodes, InitialiseVariables(n) \/ LosePeer(n)
  PROVE  Bare'
<1>1. /\ UNCHANGED <<blockchain, started, commands, underway, blockchainData, blocks>>
      /\ \E s \in {"AWAITING_GENESIS_BLOCK", "gone"} : state' = [state EXCEPT ![n] = s]
  BY DEF InitialiseVariables, LosePeer, floodVars, processorVars
<1>2. ~Initialised' => ~Initialised
  BY <1>1 DEF Initialised, BlockInv, TypeOK
<1> QED
  BY <1>1, <1>2, QuietBare

LEMMA StopBare ==
  ASSUME BlockInv, Bare, stopBlockchain
  PROVE  Bare'
<1> DEFINE c == Command("STOP_BLOCKCHAIN")
<1>1. /\ UNCHANGED <<state, blockchain, started, underway, blockchainData, blocks>>
      /\ PublishToAll(c)
  BY DEF stopBlockchain, Request, nodeVars, floodVars, processorVars
<1>2. c \in Commands /\ ~Retrieves(c) /\ ~Starts(c) /\ c.type = "STOP_BLOCKCHAIN"
  BY CommandTypes DEF Retrieves, Starts
<1>3. Published(c)
  BY <1>1, <1>2, ToAll DEF BlockInv
<1> HIDE DEF c
<1>4. QuietBefore'
  <2> SUFFICES ASSUME ~Initialised
               PROVE  /\ \A n \in Nodes : \A i \in DOMAIN commands'[n] :
                           commands'[n][i].type = "STOP_BLOCKCHAIN"
                      /\ underway = {} /\ blockchainData = NoKeys /\ blocks = <<>>
    BY <1>1 DEF QuietBefore, Initialised, NoKeys
  <2> QED
    BY <1>2, <1>3 DEF Bare, QuietBefore, Published
<1>5. BlockReaches' /\ StartAfterBlock'
  BY <1>1, <1>2, <1>3, PublishBare, PublishReaches DEF Bare
<1>6. StartedEverywhere'
  BY <1>1 DEF Bare, StartedEverywhere, Everywhere
<1> QED
  BY <1>4, <1>5, <1>6 DEF Bare

LEMMA AskBare ==
  ASSUME BlockInv, Bare, RequestGenesisBlockData \/ generateAndStartBlockchain, ~hasty'
  PROVE  Bare'
<1> DEFINE c == Command("EXECUTE_GENESIS_BLOCK_BUILD")
<1>1. /\ UNCHANGED <<state, blockchain, started, underway, blockchainData, blocks>>
      /\ Initialised /\ \E n \in Nodes : PublishTo(n, c)
  BY DEF RequestGenesisBlockData, generateAndStartBlockchain, retrieveGenesisBlockData, Request,
         nodeVars, floodVars, processorVars
<1>2. c \in Commands /\ ~Starts(c)
  BY CommandTypes DEF Starts
<1>3. Published(c)
  BY <1>1, <1>2, ToOne DEF BlockInv
<1> HIDE DEF c
<1>4. QuietBefore'
  BY <1>1 DEF QuietBefore, Initialised
<1>5. BlockReaches' /\ StartAfterBlock'
  BY <1>1, <1>2, <1>3, PublishBare, PublishReaches DEF Bare
<1>6. StartedEverywhere'
  BY <1>1 DEF Bare, StartedEverywhere, Everywhere
<1> QED
  BY <1>4, <1>5, <1>6 DEF Bare

LEMMA StartRequestBare ==
  ASSUME BlockInv, Bare, sendStartBlockchainRequest, ~hasty',
         UNCHANGED <<state, blockchain, started, underway, blockchainData, blocks>>
  PROVE  Bare'
<1> DEFINE c == Command("START_BLOCKCHAIN")
<1>1. Initialised /\ ~RetrievesPending /\ PublishTo(FirstNode, c)
  BY DEF sendStartBlockchainRequest
<1>2. c \in Commands
  BY CommandTypes
<1>3. Published(c) /\ \A k \in Nodes \ {FirstNode} : commands'[k] = commands[k]
  BY <1>1, <1>2, ToOne, NodesAssumption DEF BlockInv
<1>4. commands[FirstNode] \in Seq(Commands)
  BY NodesAssumption DEF BlockInv, TypeOK
<1> HIDE DEF c
<1>5. QuietBefore'
  BY <1>1 DEF QuietBefore, Initialised
<1>6. BlockReaches'
  BY <1>3, PublishReaches DEF Bare
<1>7. Everywhere \/ blockchain[FirstNode] = <<>>
  BY <1>1, NodesAssumption
     DEF Bare, BlockReaches, RetrievesPending, Retrieves, Everywhere, BlockInv, OneBlock
<1>8. \A j \in DOMAIN commands[FirstNode] : ~Retrieves(commands[FirstNode][j])
  BY <1>1, NodesAssumption DEF RetrievesPending, Retrieves
<1>9. StartAfterBlock'
  <2> SUFFICES ASSUME NEW n \in Nodes, NEW i \in DOMAIN commands'[n], Starts(commands'[n][i]),
                      ~Everywhere
               PROVE  /\ blockchain[n] = <<>>
                      /\ \A j \in 1 .. i - 1 : ~Retrieves(commands'[n][j])
    BY DEF StartAfterBlock, Everywhere, Starts, Retrieves
  <2>1. CASE n = FirstNode
    <3>1. \A j \in DOMAIN commands[n] : commands'[n][j] = commands[n][j]
      BY <1>3 DEF Published
    <3>2. i \in DOMAIN commands[n] \/ i = Len(commands[n]) + 1
      BY <1>3 DEF Published
    <3>3. \A j \in 1 .. i - 1 : j \in DOMAIN commands[n]
      BY <2>1, <3>2, <1>4
    <3> QED
      BY <2>1, <3>1, <3>3, <1>7, <1>8
  <2>2. CASE n # FirstNode
    BY <1>3, <2>2 DEF Bare, StartAfterBlock
  <2> QED
    BY <2>1, <2>2
<1>10. StartedEverywhere'
  BY DEF Bare, StartedEverywhere, Everywhere
<1> QED
  BY <1>5, <1>6, <1>9, <1>10 DEF Bare

\* Only a stop is handled before all are up
LEMMA ConsumeQuiet ==
  ASSUME TypeOK, QuietBefore, NEW n \in Nodes, NEW type, Consume(n, type), type # "STOP_BLOCKCHAIN"
  PROVE  Initialised
BY Consumed DEF QuietBefore

LEMMA ExecuteBare ==
  ASSUME BlockInv, Bare, NEW n \in Nodes, ExecuteGenesisBlockBuild(n)
  PROVE  Bare'
<1>1. /\ Consume(n, "EXECUTE_GENESIS_BLOCK_BUILD")
      /\ UNCHANGED <<state, blockchain, started, blocks>>
      /\ \A m \in underway' : m \in underway \/ m.type = "GENESIS_BLOCK_BUILD"
  BY DEF ExecuteGenesisBlockBuild, Consume, nodeVars, processorVars, Flood
<1>2. Initialised
  BY <1>1, ConsumeQuiet DEF Bare, BlockInv
<1>3. QuietBefore'
  BY <1>1, <1>2 DEF QuietBefore, Initialised
<1>4. BlockReaches' /\ StartAfterBlock'
  BY <1>1, ConsumeBare DEF Bare
<1>5. StartedEverywhere'
  BY <1>1 DEF Bare, StartedEverywhere, Everywhere
<1> QED
  BY <1>3, <1>4, <1>5 DEF Bare

LEMMA StartBare ==
  ASSUME BlockInv, Bare, NEW n \in Nodes, StartBlockchain(n)
  PROVE  Bare'
<1>1. Consume(n, "START_BLOCKCHAIN") /\ UNCHANGED <<state, blockchain, blocks>>
  BY DEF StartBlockchain, Consume, processorVars
<1>2. Initialised
  BY <1>1, ConsumeQuiet DEF Bare, BlockInv
<1>3. QuietBefore'
  BY <1>1, <1>2 DEF QuietBefore, Initialised
<1>4. BlockReaches' /\ StartAfterBlock'
  BY <1>1, ConsumeBare DEF Bare
<1>5. CASE state[n] = "AWAITING_BLOCKCHAIN_START"
  <2>1. 1 \in DOMAIN commands[n] /\ Starts(commands[n][1])
    BY <1>1, Consumed DEF BlockInv, Starts
  <2>2. blockchain[n] # <<>>
    BY <1>5 DEF BlockInv, OneBlock
  <2>3. Everywhere
    BY <2>1, <2>2 DEF Bare, StartAfterBlock
  <2> QED
    BY <1>1, <1>3, <1>4, <2>3 DEF Bare, StartedEverywhere, Everywhere
<1>6. CASE state[n] # "AWAITING_BLOCKCHAIN_START"
  <2>1. UNCHANGED <<underway, started>>
    BY <1>6 DEF StartBlockchain
  <2> QED
    BY <1>1, <1>3, <1>4, <2>1 DEF Bare, StartedEverywhere, Everywhere
<1> QED
  BY <1>5, <1>6

LEMMA StopNodeBare ==
  ASSUME BlockInv, Bare, NEW n \in Nodes, StopBlockchain(n)
  PROVE  Bare'
<1>1. /\ Consume(n, "STOP_BLOCKCHAIN")
      /\ UNCHANGED <<blockchain, started, underway, blockchainData, blocks>>
      /\ UNCHANGED state \/ state' = [state EXCEPT ![n] = "gone"]
  BY DEF StopBlockchain, Consume, floodVars, processorVars
<1>2. ~Initialised' => ~Initialised
  BY <1>1 DEF Initialised, BlockInv, TypeOK
<1>3. \A k \in Nodes : \A i \in DOMAIN commands'[k] : \E j \in DOMAIN commands[k] :
        commands'[k][i] = commands[k][j]
  BY <1>1, Consumed DEF BlockInv
<1>4. QuietBefore'
  <2> SUFFICES ASSUME ~Initialised
               PROVE  /\ \A k \in Nodes : \A i \in DOMAIN commands'[k] :
                           commands'[k][i].type = "STOP_BLOCKCHAIN"
                      /\ underway = {} /\ blockchainData = NoKeys /\ blocks = <<>>
    BY <1>1, <1>2 DEF QuietBefore, NoKeys
  <2> QED
    BY <1>3 DEF Bare, QuietBefore
<1>5. BlockReaches' /\ StartAfterBlock'
  BY <1>1, ConsumeBare DEF Bare
<1>6. StartedEverywhere'
  BY <1>1 DEF Bare, StartedEverywhere, Everywhere
<1> QED
  BY <1>4, <1>5, <1>6 DEF Bare

LEMMA RetrieveBare ==
  ASSUME BlockInv, Bare, NEW n \in Nodes, RetrieveGenesisBlock(n), BlockInv', Initialised => Initialised'
  PROVE  Bare'
<1>1. /\ Consume(n, "RETRIEVE_GENESIS_BLOCK") /\ UNCHANGED <<started, underway, blocks>>
  BY DEF RetrieveGenesisBlock, Consume, floodVars, processorVars
<1>2. Initialised
  BY <1>1, ConsumeQuiet DEF Bare, BlockInv
<1>3. QuietBefore'
  BY <1>2 DEF QuietBefore
<1>4. /\ \A k \in Nodes \ {n} : commands'[k] = commands[k]
      /\ commands[n][1].type = "RETRIEVE_GENESIS_BLOCK" /\ 1 \in DOMAIN commands[n]
      /\ \A i \in DOMAIN commands'[n] :
           i + 1 \in DOMAIN commands[n] /\ commands'[n][i] = commands[n][i + 1]
      /\ commands' \in [Nodes -> Seq(Commands)]
  BY <1>1, Consumed DEF BlockInv
<1>5. blockchain'[n] # <<>> /\ \A k \in Nodes \ {n} : blockchain'[k] = blockchain[k]
  <2>1. /\ state \in [Nodes -> {"", "AWAITING_GENESIS_BLOCK", "AWAITING_BLOCKCHAIN_START", "gone"}]
        /\ blockchain \in [Nodes -> Seq(Keys)]
        /\ state[n] # "" /\ state[n] # "gone"
    BY <1>1, <1>2 DEF BlockInv, TypeOK, Initialised, Consume, Up
  <2>2. CASE AcceptsGenesisBlock(n)
    <3>1. /\ blockchain' = [blockchain EXCEPT ![n] = Append(@, Head(commands[n]).genesisBlock)]
          /\ state' = [state EXCEPT ![n] = "AWAITING_BLOCKCHAIN_START"]
      BY <2>2 DEF RetrieveGenesisBlock
    <3>2. state'[n] = "AWAITING_BLOCKCHAIN_START"
      BY <2>1, <3>1
    <3>3. blockchain'[n] # <<>>
      BY <3>2 DEF BlockInv, OneBlock
    <3> QED
      BY <2>1, <3>1, <3>3
  <2>3. CASE ~AcceptsGenesisBlock(n)
    <3>1. UNCHANGED blockchain /\ state[n] = "AWAITING_BLOCKCHAIN_START"
      BY <2>1, <2>3 DEF RetrieveGenesisBlock, AcceptsGenesisBlock
    <3> QED
      BY <3>1 DEF BlockInv, OneBlock
  <2> QED
    BY <2>2, <2>3
<1>6. Everywhere => \A k \in Nodes : blockchain'[k] # <<>>
  BY <1>5 DEF Everywhere
<1>7. BlockReaches'
  BY <1>1, <1>4, <1>5 DEF Bare, BlockReaches, Retrieves
<1>8. StartAfterBlock'
  <2> SUFFICES ASSUME NEW k \in Nodes, NEW i \in DOMAIN commands'[k], Starts(commands'[k][i]),
                      ~Everywhere
               PROVE  /\ blockchain'[k] = <<>>
                      /\ \A j \in 1 .. i - 1 : ~Retrieves(commands'[k][j])
    BY <1>6 DEF StartAfterBlock, Everywhere, Starts, Retrieves
  <2>1. CASE k = n
    <3>1. i \in Nat /\ i >= 1 /\ i + 1 \in DOMAIN commands[n] /\ Starts(commands[n][i + 1])
      BY <1>4, <2>1
    <3>2. 1 \in 1 .. (i + 1) - 1 /\ Retrieves(commands[n][1])
      BY <1>4, <3>1 DEF Retrieves
    <3> QED
      BY <3>1, <3>2 DEF Bare, StartAfterBlock
  <2>2. CASE k # n
    BY <1>4, <1>5, <2>2 DEF Bare, StartAfterBlock
  <2> QED
    BY <2>1, <2>2
<1>9. StartedEverywhere'
  BY <1>1, <1>6 DEF Bare, StartedEverywhere, Everywhere
<1> QED
  BY <1>3, <1>7, <1>8, <1>9 DEF Bare

LEMMA ReceiveBare ==
  ASSUME BlockInv, Bare, NEW n \in Nodes, NEW m, Initialised => Initialised',
         ReceiveGenesisBlockBuild(n, m) \/ ReceiveInitCommitment(n, m)
  PROVE  Bare'
<1>1. /\ m \in underway /\ underway' = underway \ {m}
      /\ UNCHANGED <<blockchain, commands, blocks>>
      /\ \/ UNCHANGED started
         \/ m.type = "BCHAIN_INIT_COMMITMENT"
  BY DEF ReceiveGenesisBlockBuild, ReceiveInitCommitment, Receive, processorVars
<1>2. QuietBefore'
  BY <1>1 DEF Bare, QuietBefore
<1>3. BlockReaches' /\ StartAfterBlock'
  BY <1>1 DEF Bare, BlockReaches, StartAfterBlock, Everywhere, Starts, Retrieves
<1>4. StartedEverywhere'
  BY <1>1 DEF Bare, StartedEverywhere, Everywhere
<1> QED
  BY <1>2, <1>3, <1>4 DEF Bare

LEMMA BuildBare ==
  ASSUME BlockInv, Bare, NEW n \in Nodes, processGenesisBlockBuildMessage(n)
  PROVE  Bare'
<1>1. /\ blockchainData[n] > 0
      /\ nodesPublicKeys' = [nodesPublicKeys EXCEPT ![n] = @ + 1]
      /\ UNCHANGED <<state, blockchain, started, underway>>
  BY DEF processGenesisBlockBuildMessage, nodeVars, floodVars
<1>2. Initialised
  BY <1>1 DEF Bare, QuietBefore, NoKeys
<1>3. QuietBefore'
  BY <1>1, <1>2 DEF QuietBefore, Initialised
<1>4. StartedEverywhere'
  BY <1>1 DEF Bare, StartedEverywhere, Everywhere
<1>5. CASE UNCHANGED <<blocks, commands, timeouts>>
  <2>1. BlockReaches' /\ StartAfterBlock'
    BY <1>1, <1>5 DEF Bare, BlockReaches, StartAfterBlock, Everywhere, Starts, Retrieves
  <2> QED
    BY <1>3, <1>4, <2>1 DEF Bare
<1>6. CASE sendGenesisBlock(nodesPublicKeys')
  <2> DEFINE c == Retrieve(BuiltOnce(nodesPublicKeys')[1])
  <2>1. nodesPublicKeys' \in Keys
    <3>1. nodesPublicKeys \in [Nodes -> Nat]
      BY DEF BlockInv, TypeOK, Keys
    <3> QED
      BY <1>1, <3>1 DEF Keys
  <2>2. c \in Commands /\ Retrieves(c) /\ ~Starts(c)
    BY <2>1, Built, CommandTypes
  <2>3. PublishToAll(c)
    BY <1>6 DEF sendGenesisBlock
  <2> HIDE DEF c
  <2>4. Published(c) /\ \A k \in Nodes : \E i \in DOMAIN commands'[k] : commands'[k][i] = c
    BY <2>2, <2>3, ToAll DEF BlockInv
  <2>5. BlockReaches'
    BY <2>2, <2>4 DEF BlockReaches, Retrieves
  <2>6. StartAfterBlock'
    BY <1>1, <2>2, <2>4, PublishBare DEF Bare
  <2> QED
    BY <1>3, <1>4, <2>5, <2>6 DEF Bare
<1> QED
  BY <1>5, <1>6 DEF processGenesisBlockBuildMessage

LEMMA BareInit == Init => BareInv
<1> SUFFICES ASSUME Init PROVE BareInv
  OBVIOUS
<1>1. /\ \A n \in Nodes : DOMAIN commands[n] = {}
      /\ underway = {} /\ blockchainData = NoKeys /\ blocks = <<>>
      /\ \A n \in Nodes : started[n] = FALSE
  <2>1. commands = [n \in Nodes |-> <<>>] /\ started = [n \in Nodes |-> FALSE]
    BY DEF Init
  <2>2. \A n \in Nodes : commands[n] = <<>> /\ started[n] = FALSE
    BY <2>1
  <2>3. \A n \in Nodes : DOMAIN commands[n] = {}
    BY <2>2
  <2>4. underway = {} /\ blockchainData = NoKeys /\ blocks = <<>>
    BY DEF Init
  <2> QED
    BY <2>2, <2>3, <2>4
<1>2. Bare
  BY <1>1 DEF Bare, QuietBefore, BlockReaches, StartAfterBlock, StartedEverywhere
<1> QED
  BY <1>2, BlockInit DEF BareInv

LEMMA BareStep == BareInv /\ [Next]_vars => BareInv'
<1> SUFFICES ASSUME BareInv, [Next]_vars, ~hasty' PROVE Bare'
  BY BlockStep DEF BareInv
<1>1. ~hasty
  <2>1. hasty \in BOOLEAN
    BY DEF BareInv, BlockInv, TypeOK
  <2>2. \/ UNCHANGED hasty
        \/ hasty' = (hasty \/ ~Initialised)
        \/ hasty' = (hasty \/ ~Initialised \/ RetrievesPending)
    BY DEF Next, Operator, RequestGenesisBlockData, generateAndStartBlockchain, RequestStartBlockchain,
         stopBlockchain, retrieveGenesisBlockData, sendStartBlockchainRequest, DataProcessor, Timeout,
         processGenesisBlockBuildMessage, NodeStep, InitialiseVariables, ExecuteGenesisBlockBuild,
         RetrieveGenesisBlock, StartBlockchain, StopBlockchain, ReceiveGenesisBlockBuild,
         ReceiveInitCommitment, Receive, Consume, LosePeer, vars
  <2> QED
    BY <2>1, <2>2
<1>2. BlockInv /\ Bare /\ BlockInv' /\ (Initialised => Initialised')
  BY <1>1, BlockStep, InitialisedStays DEF BareInv
<1>3. CASE Operator
  <2>1. CASE RequestStartBlockchain
    BY <1>2, <2>1, StartRequestBare DEF RequestStartBlockchain, Request, nodeVars, floodVars, processorVars
  <2> QED
    BY <1>2, <1>3, <2>1, AskBare, StopBare DEF Operator
<1>4. CASE Timeout
  BY <1>2, <1>4, StartRequestBare DEF Timeout, nodeVars, floodVars
<1>5. CASE \E n \in Nodes : processGenesisBlockBuildMessage(n)
  BY <1>2, <1>5, BuildBare
<1>6. CASE \E n \in Nodes : NodeStep(n) \/ LosePeer(n)
  BY <1>2, <1>6, InitialiseBare, ExecuteBare, RetrieveBare, StartBare, StopNodeBare, ReceiveBare
     DEF NodeStep
<1>7. CASE UNCHANGED vars
  BY <1>2, <1>7, QuietBare DEF vars, nodeVars, floodVars, processorVars
<1> QED
  BY <1>3, <1>4, <1>5, <1>6, <1>7 DEF Next, DataProcessor

(***************************************************************************)
(* A node that generates commitments has the genesis block, unless a step  *)
(* was taken before the last one had its effect: from the order of each    *)
(* node's commands, without a look at the block when the start is handled. *)
(***************************************************************************)
THEOREM NobodyBare == Spec => []NobodyStartsBare
<1>1. BareInv => NobodyStartsBare
  BY DEF BareInv, Bare, StartedEverywhere, Everywhere, NobodyStartsBare
<1> QED
  BY <1>1, BareInit, BareStep, PTL DEF Spec

-----------------------------------------------------------------------------
(* Asked once, done once *)

\* As many keys as there are nodes, and no two of a node: one of each
LEMMA AllCounted ==
  ASSUME NEW keys \in Keys, \A n \in Nodes : keys[n] <= 1, Enough(keys)
  PROVE  keys = [p \in Nodes |-> 1]
<1> DEFINE S == {n \in Nodes : keys[n] = 1}
           T == keyList(keys)
           f == [n \in S |-> <<n, 1>>]
<1>1. keys \in [Nodes -> Nat]
  BY DEF Keys
<1>2. \A t \in T : \E n \in Nodes : n \in S /\ t = <<n, 1>>
  <2> SUFFICES ASSUME NEW t \in T PROVE \E n \in Nodes : n \in S /\ t = <<n, 1>>
    OBVIOUS
  <2>1. PICK n \in Nodes : t \in {n} \X (1 .. keys[n])
    BY DEF keyList
  <2>2. PICK i \in 1 .. keys[n] : t = <<n, i>>
    BY <2>1
  <2>3. i = 1 /\ keys[n] = 1
    BY <1>1, <2>2
  <2> QED
    BY <2>2, <2>3
<1>3. \A n \in S : <<n, 1>> \in T
  BY DEF keyList
<1> HIDE DEF S, T
<1>4. f \in [S -> T] /\ \A t \in T : \E n \in S : f[n] = t
  BY <1>2, <1>3
<1>5. f \in Surjection(S, T)
  BY <1>4 DEF Surjection
<1>6. IsFiniteSet(S) /\ Cardinality(S) <= Cardinality(Nodes) /\ (Cardinality(Nodes) = Cardinality(S) => S = Nodes)
  BY NodesAssumption, FS_Subset DEF S
<1>7. Cardinality(T) <= Cardinality(S)
  BY <1>5, <1>6, FS_Surjection
<1>8. Cardinality(Nodes) <= Cardinality(T)
  BY DEF Enough, T
<1>9. Cardinality(S) \in Nat /\ Cardinality(T) \in Nat /\ Cardinality(Nodes) \in Nat
  BY <1>5, <1>6, NodesAssumption, FS_Surjection, FS_CardinalityType
<1>10. Cardinality(S) = Cardinality(Nodes)
  BY <1>6, <1>7, <1>8, <1>9
<1>11. \A n \in Nodes : keys[n] = 1
  BY <1>6, <1>10 DEF S
<1> QED
  BY <1>1, <1>11

\* Nothing changes for the keys
LEMMA KeysUnseen ==
  ASSUME KeyOnce, BuiltOfAll, \A m \in underway' : Asks(m) => m \in underway,
         UNCHANGED <<builds, blockchainData, nodesPublicKeys, blocks>>
  PROVE  KeyOnce' /\ BuiltOfAll'
BY DEF KeyOnce, BuiltOfAll, Asks

LEMMA ExecuteOnce ==
  ASSUME BlockInv, KeyOnce, BuiltOfAll, NEW n \in Nodes, ExecuteGenesisBlockBuild(n), builds' <= 1
  PROVE  KeyOnce' /\ BuiltOfAll'
<1>1. UNCHANGED <<nodesPublicKeys, blocks>>
  BY DEF ExecuteGenesisBlockBuild, Consume, processorVars
<1>2. CASE UNCHANGED <<builds, underway, blockchainData>>
  BY <1>1, <1>2, KeysUnseen
<1>3. CASE state[n] = "AWAITING_GENESIS_BLOCK"
  <2>1. /\ builds' = builds + 1
        /\ underway' = underway \cup Flood(n, "GENESIS_BLOCK_BUILD", builds)
        /\ SendPublicKey(n)
    BY <1>3 DEF ExecuteGenesisBlockBuild
  <2>2. builds \in Nat /\ underway \subseteq
          [to : Nodes, type : {"GENESIS_BLOCK_BUILD", "BCHAIN_INIT_COMMITMENT"}, id : Nat]
        /\ blockchainData \in [Nodes -> Nat] /\ nodesPublicKeys \in [Nodes -> Nat]
    BY DEF BlockInv, TypeOK, Keys
  <2>3. builds = 0 /\ builds' = 1
    BY <2>1, <2>2
  <2>4. \A k \in Nodes : blockchainData[k] = 0 /\ nodesPublicKeys[k] = 0
    <3>1. \A k \in Nodes : blockchainData[k] + nodesPublicKeys[k] <= 0
      BY <2>3 DEF KeyOnce
    <3>2. \A a, b \in Nat : a + b <= 0 => a = 0 /\ b = 0
      OBVIOUS
    <3> QED
      BY <2>2, <3>1, <3>2
  <2>5. \A m \in underway : ~Asks(m)
    <3>1. \A m \in underway : m.id \in Nat
      BY <2>2
    <3> QED
      BY <2>3, <3>1 DEF KeyOnce
  <2>6. \A m \in underway' : Asks(m) => m.id = 0 /\ m.to # n
    BY <2>1, <2>2, <2>3, <2>5, FloodTypes
  <2>7. blockchainData'[n] = 1 /\ \A k \in Nodes \ {n} : blockchainData'[k] = 0
    BY <2>1, <2>4, KeySent DEF BlockInv
  <2>8. KeyOnce'
    <3>1. \A m \in underway' : Asks(m) => m.id < builds'
      BY <2>3, <2>6
    <3>2. \A k \in Nodes : blockchainData'[k] + nodesPublicKeys'[k] <= builds'
      BY <1>1, <2>3, <2>4, <2>7
    <3>3. \A k \in Nodes : (\E m \in underway' : Asks(m) /\ m.to = k)
            => blockchainData'[k] + nodesPublicKeys'[k] = 0
      BY <1>1, <2>4, <2>6, <2>7
    <3> QED
      BY <3>1, <3>2, <3>3 DEF KeyOnce, Asks
  <2>9. BuiltOfAll'
    BY <1>1, <2>4, NodesAssumption DEF BuiltOfAll
  <2> QED
    BY <2>8, <2>9
<1> QED
  BY <1>2, <1>3 DEF ExecuteGenesisBlockBuild

LEMMA ReceiveOnce ==
  ASSUME BlockInv, KeyOnce, BuiltOfAll, NEW n \in Nodes, NEW m, ReceiveGenesisBlockBuild(n, m), builds <= 1
  PROVE  KeyOnce' /\ BuiltOfAll'
<1>1. /\ Asks(m) /\ m.to = n /\ m \in underway /\ underway' = underway \ {m}
      /\ UNCHANGED <<builds, nodesPublicKeys, blocks>>
      /\ SendPublicKey(n) \/ UNCHANGED blockchainData
  BY DEF ReceiveGenesisBlockBuild, Receive, Asks, processorVars
<1>2. CASE UNCHANGED blockchainData
  BY <1>1, <1>2, KeysUnseen
<1>3. CASE SendPublicKey(n)
  <2>1. builds \in Nat /\ underway \subseteq
          [to : Nodes, type : {"GENESIS_BLOCK_BUILD", "BCHAIN_INIT_COMMITMENT"}, id : Nat]
        /\ blockchainData \in [Nodes -> Nat] /\ nodesPublicKeys \in [Nodes -> Nat]
    BY DEF BlockInv, TypeOK, Keys
  <2>2. \A k \in underway : Asks(k) => k.id = 0
    <3>1. \A k \in underway : k.id \in Nat
      BY <2>1
    <3>2. \A k \in underway : Asks(k) => k.id < builds
      BY DEF KeyOnce
    <3> QED
      BY <2>1, <3>1, <3>2
  <2>3. \A k \in underway : Asks(k) /\ k.to = n => k = m
    <3> SUFFICES ASSUME NEW k \in underway, Asks(k), k.to = n PROVE k = m
      OBVIOUS
    <3>1. k.id = 0 /\ m.id = 0 /\ k.type = "GENESIS_BLOCK_BUILD" /\ m.type = "GENESIS_BLOCK_BUILD"
          /\ m.to = n
      BY <1>1, <2>2 DEF Asks
    <3> QED
      BY <1>1, <2>1, <3>1
  <2>4. builds = 1
    <3>1. m.id < builds /\ m.id = 0
      BY <1>1, <2>2 DEF KeyOnce
    <3> QED
      BY <2>1, <3>1
  <2>5. blockchainData[n] = 0 /\ nodesPublicKeys[n] = 0
    <3>1. blockchainData[n] + nodesPublicKeys[n] = 0
      BY <1>1 DEF KeyOnce
    <3> QED
      BY <2>1, <3>1
  <2>6. blockchainData'[n] = 1 /\ \A k \in Nodes \ {n} : blockchainData'[k] = blockchainData[k]
    BY <1>3, <2>5, KeySent DEF BlockInv
  <2>7. \A k \in underway' : k \in underway /\ ~(Asks(k) /\ k.to = n)
    BY <1>1, <2>3
  <2>8. KeyOnce'
    <3>1. \A k \in underway' : Asks(k) => k.id < builds'
      BY <1>1, <2>7 DEF KeyOnce
    <3>2. \A k \in Nodes : blockchainData'[k] + nodesPublicKeys'[k] <= builds'
      BY <1>1, <2>4, <2>5, <2>6 DEF KeyOnce
    <3>3. \A k \in Nodes : (\E a \in underway' : Asks(a) /\ a.to = k)
            => blockchainData'[k] + nodesPublicKeys'[k] = 0
      BY <1>1, <2>6, <2>7 DEF KeyOnce
    <3> QED
      BY <3>1, <3>2, <3>3 DEF KeyOnce, Asks
  <2> QED
    BY <1>1, <2>8 DEF BuiltOfAll
<1> QED
  BY <1>1, <1>2, <1>3

\* The block is not there when a key arrives, and is built when it is the last
LEMMA BuildOnce ==
  ASSUME BlockInv, KeyOnce, BuiltOfAll, NEW n \in Nodes, processGenesisBlockBuildMessage(n), builds <= 1
  PROVE  KeyOnce' /\ BuiltOfAll' /\ blocks = <<>>
<1>1. /\ blockchainData[n] > 0
      /\ blockchainData' = [blockchainData EXCEPT ![n] = @ - 1]
      /\ nodesPublicKeys' = [nodesPublicKeys EXCEPT ![n] = @ + 1]
      /\ UNCHANGED <<underway, builds>>
  BY DEF processGenesisBlockBuildMessage, floodVars
<1>2. builds \in Nat /\ blockchainData \in [Nodes -> Nat] /\ nodesPublicKeys \in [Nodes -> Nat]
  BY DEF BlockInv, TypeOK, Keys
<1>3. \A k \in Nodes : blockchainData[k] + nodesPublicKeys[k] <= builds
  BY DEF KeyOnce
<1>4. blockchainData[n] = 1 /\ nodesPublicKeys[n] = 0
  <2>1. blockchainData[n] + nodesPublicKeys[n] <= builds
    BY <1>3
  <2>2. blockchainData[n] \in Nat /\ nodesPublicKeys[n] \in Nat
    BY <1>2
  <2> QED
    BY <1>1, <1>2, <2>1, <2>2
<1>5. /\ blockchainData'[n] = 0 /\ nodesPublicKeys'[n] = 1
      /\ \A k \in Nodes \ {n} : /\ blockchainData'[k] = blockchainData[k]
                                /\ nodesPublicKeys'[k] = nodesPublicKeys[k]
      /\ nodesPublicKeys' \in Keys
  BY <1>1, <1>2, <1>4 DEF Keys
<1>6. \A k \in Nodes : blockchainData'[k] + nodesPublicKeys'[k] = blockchainData[k] + nodesPublicKeys[k]
  BY <1>2, <1>4, <1>5
<1>7. KeyOnce'
  BY <1>1, <1>6 DEF KeyOnce, Asks
<1>8. blocks = <<>>
  BY <1>4 DEF BuiltOfAll
<1>9. BuiltOfAll'
  <2>1. CASE UNCHANGED <<blocks, commands, timeouts>>
    BY <1>8, <2>1 DEF BuiltOfAll
  <2>2. CASE Enough(nodesPublicKeys') /\ sendGenesisBlock(nodesPublicKeys')
    <3>1. \A k \in Nodes : nodesPublicKeys'[k] <= 1
      <4> SUFFICES ASSUME NEW k \in Nodes, k # n PROVE nodesPublicKeys[k] <= 1
        BY <1>5
      <4>1. blockchainData[k] + nodesPublicKeys[k] <= builds
        BY <1>3
      <4>2. blockchainData[k] \in Nat /\ nodesPublicKeys[k] \in Nat
        BY <1>2
      <4> QED
        BY <1>2, <4>1, <4>2
    <3>2. nodesPublicKeys' = [p \in Nodes |-> 1]
      BY <1>5, <2>2, <3>1, AllCounted
    <3>3. blocks' = <<nodesPublicKeys'>>
      BY <1>8, <2>2 DEF sendGenesisBlock, BuiltOnce
    <3> QED
      BY <3>2, <3>3 DEF BuiltOfAll
  <2> QED
    BY <2>1, <2>2 DEF processGenesisBlockBuildMessage
<1> QED
  BY <1>7, <1>8, <1>9

\* What is published, or consumed, and is no start
LEMMA PublishOneStart ==
  ASSUME OneStart, NEW c, Published(c), ~Starts(c), UNCHANGED <<blocks, timeouts, inits>>
  PROVE  OneStart'
<1>1. \A k \in Nodes : \A i \in DOMAIN commands'[k] : commands'[k][i].type = "START_BLOCKCHAIN" =>
        i \in DOMAIN commands[k] /\ Starts(commands[k][i])
  BY DEF Published, Starts
<1> QED
  BY <1>1 DEF OneStart, Starts

LEMMA ConsumeOneStart ==
  ASSUME BlockInv, OneStart, NEW n \in Nodes, NEW type, Consume(n, type), UNCHANGED <<blocks, inits>>
  PROVE  OneStart'
<1>1. timeouts' = timeouts
  BY DEF Consume, processorVars
<1>2. /\ \A k \in Nodes \ {n} : commands'[k] = commands[k]
      /\ \A i \in DOMAIN commands'[n] :
           i + 1 \in DOMAIN commands[n] /\ commands'[n][i] = commands[n][i + 1]
      /\ DOMAIN commands'[n] \subseteq Nat
  BY Consumed DEF BlockInv
<1>3. ASSUME NEW k \in Nodes, NEW i \in DOMAIN commands'[k],
             commands'[k][i].type = "START_BLOCKCHAIN"
      PROVE  timeouts = 0 /\ inits = 0 /\ blocks # <<>>
  <2>1. \E j \in DOMAIN commands[k] : Starts(commands[k][j])
    BY <1>2, <1>3 DEF Starts
  <2> QED
    BY <2>1 DEF OneStart
<1>4. ASSUME NEW k \in Nodes, NEW i \in DOMAIN commands'[k], commands'[k][i].type = "START_BLOCKCHAIN",
             NEW m \in Nodes, NEW j \in DOMAIN commands'[m], commands'[m][j].type = "START_BLOCKCHAIN"
      PROVE  m = k /\ j = i
  <2> DEFINE at(p, q) == IF p = n THEN q + 1 ELSE q
  <2>1. /\ at(k, i) \in DOMAIN commands[k] /\ Starts(commands[k][at(k, i)])
        /\ at(m, j) \in DOMAIN commands[m] /\ Starts(commands[m][at(m, j)])
    BY <1>2, <1>4 DEF Starts
  <2>2. m = k /\ at(m, j) = at(k, i)
    BY <2>1 DEF OneStart
  <2>3. CASE k = n
    BY <1>2, <2>2, <2>3
  <2>4. CASE k # n
    BY <2>2, <2>4
  <2> QED
    BY <2>3, <2>4
<1> QED
  BY <1>1, <1>3, <1>4 DEF OneStart, Starts

LEMMA StartOneStart ==
  ASSUME BlockInv, OneStart, NEW n \in Nodes, StartBlockchain(n), UNCHANGED blocks
  PROVE  OneStart'
<1>1. Consume(n, "START_BLOCKCHAIN")
  BY DEF StartBlockchain
<1>2. CASE UNCHANGED inits
  BY <1>1, <1>2, ConsumeOneStart
<1>3. CASE inits' = inits + 1
  <2>1. /\ 1 \in DOMAIN commands[n] /\ Starts(commands[n][1])
        /\ \A k \in Nodes \ {n} : commands'[k] = commands[k]
        /\ \A i \in DOMAIN commands'[n] :
             i + 1 \in DOMAIN commands[n] /\ commands'[n][i] = commands[n][i + 1]
        /\ DOMAIN commands'[n] \subseteq Nat \ {0}
    BY <1>1, Consumed DEF BlockInv, Starts
  <2>2. timeouts = 0 /\ inits = 0 /\ blocks # <<>>
    BY <2>1 DEF OneStart
  <2>3. timeouts' = 0 /\ inits' = 1
    BY <1>1, <1>3, <2>2 DEF Consume, processorVars
  <2>4. \A k \in Nodes : \A j \in DOMAIN commands[k] : Starts(commands[k][j]) => k = n /\ j = 1
    BY <2>1 DEF OneStart
  <2>5. \A k \in Nodes : \A i \in DOMAIN commands'[k] : commands'[k][i].type # "START_BLOCKCHAIN"
    <3> SUFFICES ASSUME NEW k \in Nodes, NEW i \in DOMAIN commands'[k],
                        commands'[k][i].type = "START_BLOCKCHAIN"
                 PROVE  FALSE
      OBVIOUS
    <3>1. CASE k = n
      <4>1. i + 1 = 1
        BY <2>1, <2>4, <3>1 DEF Starts
      <4> QED
        BY <2>1, <3>1, <4>1
    <3>2. CASE k # n
      BY <2>1, <2>4, <3>2 DEF Starts
    <3> QED
      BY <3>1, <3>2
  <2> QED
    BY <2>2, <2>3, <2>5 DEF OneStart, Starts
<1> QED
  BY <1>2, <1>3 DEF StartBlockchain

LEMMA TimeoutOneStart ==
  ASSUME BlockInv, OneStart, Timeout
  PROVE  OneStart'
<1> DEFINE c == Command("START_BLOCKCHAIN")
<1>1. /\ timeouts > 0 /\ timeouts' = timeouts - 1 /\ PublishTo(FirstNode, c)
      /\ UNCHANGED <<blocks, inits>>
  BY DEF Timeout, sendStartBlockchainRequest, floodVars
<1>2. timeouts = 1 /\ timeouts' = 0 /\ inits = 0 /\ blocks # <<>>
  <2>1. timeouts \in Nat /\ timeouts <= 1
    BY DEF BlockInv, TypeOK, OneStart
  <2>2. timeouts = 1
    BY <1>1, <2>1
  <2> QED
    BY <1>1, <2>2 DEF OneStart
<1>3. Published(c) /\ \A k \in Nodes \ {FirstNode} : commands'[k] = commands[k]
  BY <1>1, ToOne, CommandTypes, NodesAssumption DEF BlockInv
<1> HIDE DEF c
<1>4. \A k \in Nodes : \A i \in DOMAIN commands[k] : ~Starts(commands[k][i])
  BY <1>2 DEF OneStart
<1>5. \A k \in Nodes : \A i \in DOMAIN commands'[k] : commands'[k][i].type = "START_BLOCKCHAIN" =>
        k = FirstNode /\ i = Len(commands[FirstNode]) + 1
  BY <1>3, <1>4 DEF Published, Starts
<1> QED
  BY <1>1, <1>2, <1>5 DEF OneStart, Starts

LEMMA BuildOneStart ==
  ASSUME BlockInv, OneStart, NEW n \in Nodes, processGenesisBlockBuildMessage(n), blocks = <<>>
  PROVE  OneStart'
<1>1. /\ nodesPublicKeys' = [nodesPublicKeys EXCEPT ![n] = @ + 1] /\ UNCHANGED inits
  BY DEF processGenesisBlockBuildMessage, floodVars
<1>2. timeouts = 0 /\ inits = 0
  BY DEF OneStart
<1>3. \A k \in Nodes : \A i \in DOMAIN commands[k] : ~Starts(commands[k][i])
  BY DEF OneStart
<1>4. CASE UNCHANGED <<blocks, commands, timeouts>>
  BY <1>1, <1>4 DEF OneStart, Starts
<1>5. CASE sendGenesisBlock(nodesPublicKeys')
  <2> DEFINE b == BuiltOnce(nodesPublicKeys')
  <2>1. nodesPublicKeys' \in Keys
    <3>1. nodesPublicKeys \in [Nodes -> Nat]
      BY DEF BlockInv, TypeOK, Keys
    <3> QED
      BY <1>1, <3>1 DEF Keys
  <2>2. Retrieve(b[1]) \in Commands /\ ~Starts(Retrieve(b[1])) /\ b # <<>>
    BY <2>1, Built, CommandTypes
  <2>3. PublishToAll(Retrieve(b[1])) /\ blocks' = b /\ timeouts' <= 1
    BY <1>2, <1>5 DEF sendGenesisBlock
  <2> HIDE DEF b
  <2>4. Published(Retrieve(b[1]))
    BY <2>2, <2>3, ToAll DEF BlockInv
  <2>5. \A k \in Nodes : \A i \in DOMAIN commands'[k] : commands'[k][i].type # "START_BLOCKCHAIN"
    BY <1>3, <2>2, <2>4 DEF Published, Starts
  <2> QED
    BY <1>1, <1>2, <2>2, <2>3, <2>5 DEF OneStart, Starts
<1> QED
  BY <1>4, <1>5 DEF processGenesisBlockBuildMessage

LEMMA StartsUnseen ==
  ASSUME OneStart, UNCHANGED <<commands, blocks, timeouts, inits>>
  PROVE  OneStart'
BY DEF OneStart, Starts

LEMMA OnceInit == Init => OnceInv
<1> SUFFICES ASSUME Init PROVE OnceInv
  OBVIOUS
<1>1. /\ underway = {} /\ builds = 0 /\ inits = 0 /\ timeouts = 0 /\ blocks = <<>>
      /\ blockchainData = NoKeys /\ nodesPublicKeys = NoKeys
  BY DEF Init
<1>2. \A n \in Nodes : DOMAIN commands[n] = {}
  <2>1. commands = [n \in Nodes |-> <<>>]
    BY DEF Init
  <2>2. \A n \in Nodes : commands[n] = <<>>
    BY <2>1
  <2> QED
    BY <2>2
<1>3. \A n \in Nodes : blockchainData[n] = 0 /\ nodesPublicKeys[n] = 0
  BY <1>1 DEF NoKeys
<1>4. KeyOnce /\ BuiltOfAll
  BY <1>1, <1>3 DEF KeyOnce, BuiltOfAll
<1>5. OneStart
  BY <1>1, <1>2 DEF OneStart
<1> QED
  BY <1>4, <1>5, BlockInit DEF OnceInv

LEMMA OnceStep == OnceInv /\ [Next]_vars => OnceInv'
<1> SUFFICES ASSUME OnceInv, [Next]_vars,
                    builds' <= 1
             PROVE  /\ KeyOnce' /\ BuiltOfAll'
                    /\ requests'.start = 0 => OneStart'
  BY BlockStep DEF OnceInv
<1>1. BlockInv /\ builds \in Nat /\ requests \in [made : 0 .. MaxRequests, start : 0 .. MaxRequests]
  BY DEF OnceInv, BlockInv, TypeOK
<1>2. CASE UNCHANGED builds
  <2>1. KeyOnce /\ BuiltOfAll
    BY <1>2 DEF OnceInv
  <2>2. CASE Operator
    <3>1. /\ UNCHANGED <<underway, inits, blockchainData, nodesPublicKeys, blocks, timeouts>>
          /\ \E start \in {0, 1} :
               requests' = [made |-> requests.made + 1, start |-> requests.start + start]
      BY <2>2 DEF Operator, RequestGenesisBlockData, generateAndStartBlockchain,
           RequestStartBlockchain, stopBlockchain, Request, processorVars, floodVars
    <3>2. KeyOnce' /\ BuiltOfAll'
      BY <1>2, <2>1, <3>1, KeysUnseen
    <3>3. ASSUME requests'.start = 0 PROVE OneStart'
      <4>1. requests.start = 0
        <5>1. PICK start \in {0, 1} :
                requests' = [made |-> requests.made + 1, start |-> requests.start + start]
          BY <3>1
        <5>2. requests.start + start = 0 /\ requests.start \in 0 .. MaxRequests
          BY <1>1, <3>3, <5>1
        <5> QED
          BY <5>2, NodesAssumption
      <4>2. OneStart
        BY <1>2, <4>1 DEF OnceInv
      <4>3. ~RequestStartBlockchain
        <5>1. RequestStartBlockchain => requests'.start = requests.start + 1
          BY DEF RequestStartBlockchain, Request
        <5> QED
          BY <3>3, <4>1, <5>1
      <4>4. \E t \in {"EXECUTE_GENESIS_BLOCK_BUILD", "STOP_BLOCKCHAIN"} :
              PublishToAll(Command(t)) \/ \E n \in Nodes : PublishTo(n, Command(t))
        BY <2>2, <4>3 DEF Operator, RequestGenesisBlockData, generateAndStartBlockchain,
             stopBlockchain, retrieveGenesisBlockData
      <4>5. \E t \in {"EXECUTE_GENESIS_BLOCK_BUILD", "STOP_BLOCKCHAIN"} :
              Published(Command(t)) /\ ~Starts(Command(t))
        BY <1>1, <4>4, ToOne, ToAll, CommandTypes DEF BlockInv, Starts
      <4> QED
        BY <3>1, <4>2, <4>5, PublishOneStart
    <3> QED
      BY <3>2, <3>3
  <2>3. ASSUME ~Operator, requests'.start = 0 PROVE OneStart
    <3>1. UNCHANGED requests
      BY <2>3 DEF Next, DataProcessor, Timeout, processGenesisBlockBuildMessage, NodeStep,
           InitialiseVariables, ExecuteGenesisBlockBuild, RetrieveGenesisBlock, StartBlockchain,
           StopBlockchain, ReceiveGenesisBlockBuild, ReceiveInitCommitment, Receive, Consume, LosePeer,
           vars
    <3> QED
      BY <1>2, <2>3, <3>1 DEF OnceInv
  <2>4. CASE ~Operator /\ Timeout
    <3>1. KeyOnce' /\ BuiltOfAll'
      BY <2>1, <2>4, KeysUnseen DEF Timeout, floodVars
    <3> QED
      BY <1>1, <2>3, <2>4, <3>1, TimeoutOneStart
  <2>5. CASE ~Operator /\ \E n \in Nodes : processGenesisBlockBuildMessage(n)
    BY <1>1, <1>2, <2>1, <2>3, <2>5, BuildOnce, BuildOneStart
  <2>6. ASSUME ~Operator, NEW n \in Nodes, NodeStep(n) \/ LosePeer(n)
        PROVE  KeyOnce' /\ BuiltOfAll' /\ (requests'.start = 0 => OneStart')
    <3>1. CASE InitialiseVariables(n) \/ LosePeer(n)
      BY <1>2, <2>1, <2>3, <2>6, <3>1, KeysUnseen, StartsUnseen
         DEF InitialiseVariables, LosePeer, floodVars, processorVars
    <3>2. CASE ExecuteGenesisBlockBuild(n)
      <4>1. Consume(n, "EXECUTE_GENESIS_BLOCK_BUILD") /\ UNCHANGED <<blocks, inits>>
        BY <3>2 DEF ExecuteGenesisBlockBuild, Consume, processorVars
      <4> QED
        BY <1>1, <2>1, <2>3, <2>6, <3>2, <4>1, ExecuteOnce, ConsumeOneStart
    <3>3. CASE RetrieveGenesisBlock(n) \/ StopBlockchain(n)
      <4>1. /\ \E type : Consume(n, type)
            /\ UNCHANGED <<underway, blockchainData, nodesPublicKeys, blocks, inits>>
        BY <3>3 DEF RetrieveGenesisBlock, StopBlockchain, Consume, floodVars, processorVars
      <4> QED
        BY <1>1, <1>2, <2>1, <2>3, <2>6, <4>1, KeysUnseen, ConsumeOneStart
    <3>4. CASE StartBlockchain(n)
      <4>1. /\ UNCHANGED <<blockchainData, nodesPublicKeys, blocks>>
            /\ \A m \in underway' : Asks(m) => m \in underway
        BY <3>4 DEF StartBlockchain, Consume, processorVars, Asks, Flood
      <4> QED
        BY <1>1, <1>2, <2>1, <2>3, <2>6, <3>4, <4>1, KeysUnseen, StartOneStart
    <3>5. ASSUME NEW m \in underway, ReceiveGenesisBlockBuild(n, m) \/ ReceiveInitCommitment(n, m)
          PROVE  KeyOnce' /\ BuiltOfAll' /\ (requests'.start = 0 => OneStart')
      <4>1. /\ UNCHANGED <<commands, nodesPublicKeys, blocks, timeouts, inits>>
            /\ underway' = underway \ {m}
        BY <3>5 DEF ReceiveGenesisBlockBuild, ReceiveInitCommitment, Receive, processorVars
      <4>2. KeyOnce' /\ BuiltOfAll'
        <5>1. CASE ReceiveGenesisBlockBuild(n, m)
          BY <1>1, <1>2, <2>1, <5>1, ReceiveOnce
        <5>2. CASE ReceiveInitCommitment(n, m)
          BY <1>2, <2>1, <4>1, <5>2, KeysUnseen DEF ReceiveInitCommitment
        <5> QED
          BY <3>5, <5>1, <5>2
      <4> QED
        BY <2>3, <2>6, <4>1, <4>2, StartsUnseen
    <3> QED
      BY <2>6, <3>1, <3>2, <3>3, <3>4, <3>5 DEF NodeStep
  <2>7. CASE ~Operator /\ UNCHANGED vars
    BY <2>1, <2>3, <2>7, KeysUnseen, StartsUnseen DEF vars, floodVars, processorVars
  <2> QED
    BY <2>2, <2>4, <2>5, <2>6, <2>7 DEF Next, DataProcessor
<1>3. CASE ~UNCHANGED builds
  <2>1. PICK n \in Nodes : ExecuteGenesisBlockBuild(n)
    BY <1>3 DEF Next, Operator, RequestGenesisBlockData, generateAndStartBlockchain,
         RequestStartBlockchain, stopBlockchain, Request, DataProcessor, Timeout,
         processGenesisBlockBuildMessage, NodeStep, InitialiseVariables, RetrieveGenesisBlock,
         StartBlockchain, StopBlockchain, ReceiveGenesisBlockBuild, ReceiveInitCommitment, Receive,
         LosePeer, vars, floodVars
  <2>2. /\ Consume(n, "EXECUTE_GENESIS_BLOCK_BUILD") /\ UNCHANGED <<blocks, inits, requests>>
        /\ builds' = builds + 1
    BY <1>3, <2>1 DEF ExecuteGenesisBlockBuild, Consume, processorVars
  <2>3. builds <= 1
    BY <1>1, <2>2
  <2> QED
    BY <1>1, <2>1, <2>2, <2>3, ExecuteOnce, ConsumeOneStart DEF OnceInv
<1> QED
  BY <1>2, <1>3

(***************************************************************************)
(* Asked for once, the genesis block gives every node its coins once; and  *)
(* without a request of its own the blockchain is started at most once:    *)
(* the keys are counted, and one that is missing keeps the block back.     *)
(***************************************************************************)
THEOREM AskedOnce == Spec => []AskedOnceDoneOnce
<1>1. ASSUME OnceInv PROVE AskedOnceDoneOnce
  <2>1. ASSUME builds <= 1, NEW n \in Nodes, NEW i \in DOMAIN blockchain[n]
        PROVE  blockchain[n][i] = [p \in Nodes |-> 1]
    <3>1. blockchain[n] # <<>>
      BY <2>1
    <3>2. blockchain[n] = blocks
      BY <1>1, <3>1 DEF OnceInv, BlockInv, OneBlock
    <3>3. blockchain[n] = <<[p \in Nodes |-> 1]>>
      BY <1>1, <2>1, <3>1, <3>2 DEF OnceInv, BuiltOfAll
    <3> QED
      BY <2>1, <3>3
  <2>2. builds <= 1 /\ requests.start = 0 => inits <= 1
    BY <1>1 DEF OnceInv, OneStart
  <2> QED
    BY <2>1, <2>2 DEF AskedOnceDoneOnce
<1> QED
  BY <1>1, OnceInit, OnceStep, PTL DEF Spec

-----------------------------------------------------------------------------
(* Generate and start *)

\* Nothing came too early and no process has ended
GoesWell == ~hasty /\ \A n \in Nodes : Up(n)

Has(n, type) == \E i \in DOMAIN commands[n] : commands[n][i].type = type

\* The key of a node was received, is on its way, or the node will be asked for it
KeyToCome(n) ==
  \/ nodesPublicKeys[n] > 0 \/ blockchainData[n] > 0
  \/ \E m \in underway : Asks(m) /\ m.to = n

AskedFor ==
  \/ \E n \in Nodes : Has(n, "EXECUTE_GENESIS_BLOCK_BUILD")
  \/ \A n \in Nodes : KeyToCome(n)

NotEnoughYet == blocks = <<>> => ~Enough(nodesPublicKeys)

AskedInv ==
  GoesWell /\ sendStartBlockchainTogether /\ blocks = <<>> => Initialised /\ AskedFor

StartsOrWill(n) ==
  started[n] \/ \E m \in underway : m.type = "BCHAIN_INIT_COMMITMENT" /\ m.to = n

\* The start waits for its second, is a command behind the blocks of all nodes, or was
\* carried out and broadcast
StartToCome ==
  \/ timeouts > 0
  \/ Everywhere /\ Has(FirstNode, "START_BLOCKCHAIN")
  \/ Everywhere /\ \A n \in Nodes : StartsOrWill(n)

\* "Generate and start" was requested before the block was built, and is under way since
Promised == IF blocks = <<>> THEN sendStartBlockchainTogether ELSE StartToCome

NothingLeft ==
  /\ timeouts = 0 /\ underway = {} /\ blockchainData = NoKeys
  /\ \A n \in Nodes : commands[n] = <<>>

\* The two halves of GenerateAndStartWorks
PromiseKept == GoesWell' /\ Promised => Promised'
RunsAtTheEnd == GoesWell /\ Promised /\ NothingLeft => Running

PromiseInv == BareInv /\ NotEnoughYet /\ AskedInv

\* One key of each node is enough
LEMMA OneEachIsEnough ==
  ASSUME NEW keys \in Keys, \A n \in Nodes : keys[n] > 0
  PROVE  Enough(keys)
<1> DEFINE T == keyList(keys)
           g == [n \in Nodes |-> {n} \X (1 .. keys[n])]
           R == {g[n] : n \in Nodes}
           f == [n \in Nodes |-> <<n, 1>>]
<1>1. keys \in [Nodes -> Nat] /\ IsFiniteSet(Nodes)
  BY NodesAssumption DEF Keys
<1>2. g \in Surjection(Nodes, R)
  BY DEF Surjection
<1>3. IsFiniteSet(R)
  BY <1>1, <1>2, FS_Surjection
<1>4. \A S \in R : IsFiniteSet(S)
  <2> SUFFICES ASSUME NEW n \in Nodes PROVE IsFiniteSet({n} \X (1 .. keys[n]))
    OBVIOUS
  <2>1. IsFiniteSet({n})
    BY FS_Singleton
  <2>2. IsFiniteSet(1 .. keys[n])
    BY <1>1, FS_Interval
  <2> QED
    BY <2>1, <2>2, FS_Product
<1>5. T = UNION R
  BY DEF keyList
<1>6. IsFiniteSet(T)
  BY <1>3, <1>4, <1>5, FS_UNION
<1>7. f \in Injection(Nodes, T)
  <2>1. \A n \in Nodes : 1 \in 1 .. keys[n]
    BY <1>1
  <2>2. \A n \in Nodes : <<n, 1>> \in T
    BY <2>1 DEF keyList
  <2>3. f \in [Nodes -> T]
    BY <2>2
  <2>4. \A n, m \in Nodes : f[n] = f[m] => n = m
    OBVIOUS
  <2> HIDE DEF f, T
  <2>5. IsInjective(f)
    BY <2>3, <2>4 DEF IsInjective
  <2> QED
    BY <2>3, <2>5 DEF Injection
<1>8. Cardinality(Nodes) <= Cardinality(T)
  BY <1>6, <1>7, FS_Injection
<1>9. Cardinality(Nodes) \in Nat /\ Cardinality(T) \in Nat
  BY <1>1, <1>6, FS_CardinalityType
<1> QED
  BY <1>8, <1>9 DEF Enough, T

LEMMA NoneIsNotEnough == ~Enough(NoKeys)
<1>1. keyList(NoKeys) = {}
  BY DEF keyList, NoKeys
<1>2. Cardinality(keyList(NoKeys)) = 0
  BY <1>1, FS_EmptySet
<1>3. Cardinality(Nodes) \in Nat /\ Cardinality(Nodes) # 0
  BY NodesAssumption, FS_CardinalityType, FS_EmptySet
<1> QED
  BY <1>2, <1>3 DEF Enough

LEMMA PromiseInit == Init => PromiseInv
<1> SUFFICES ASSUME Init PROVE PromiseInv
  OBVIOUS
<1>1. nodesPublicKeys = NoKeys /\ sendStartBlockchainTogether = FALSE
  BY DEF Init
<1> QED
  BY <1>1, BareInit, NoneIsNotEnough DEF PromiseInv, NotEnoughYet, AskedInv

\* Too early once, too early for ever
LEMMA HastyStays ==
  ASSUME TypeOK, [Next]_vars, ~hasty'
  PROVE  ~hasty
<1>1. hasty \in BOOLEAN
  BY DEF TypeOK
<1>2. \/ UNCHANGED hasty
      \/ hasty' = (hasty \/ ~Initialised)
      \/ hasty' = (hasty \/ ~Initialised \/ RetrievesPending)
  BY DEF Next, Operator, RequestGenesisBlockData, generateAndStartBlockchain, RequestStartBlockchain,
       stopBlockchain, retrieveGenesisBlockData, sendStartBlockchainRequest, DataProcessor, Timeout,
       processGenesisBlockBuildMessage, NodeStep, InitialiseVariables, ExecuteGenesisBlockBuild,
       RetrieveGenesisBlock, StartBlockchain, StopBlockchain, ReceiveGenesisBlockBuild,
       ReceiveInitCommitment, Receive, Consume, LosePeer, vars
<1> QED
  BY <1>1, <1>2

LEMMA GoneStays ==
  ASSUME TypeOK, [Next]_vars, NEW n \in Nodes, Up(n)'
  PROVE  Up(n)
<1>1. DOMAIN state = Nodes
  BY DEF TypeOK
<1>2. CASE Operator \/ DataProcessor \/ UNCHANGED vars
  BY <1>2 DEF Operator, RequestGenesisBlockData, generateAndStartBlockchain, RequestStartBlockchain,
       stopBlockchain, Request, DataProcessor, Timeout, processGenesisBlockBuildMessage, vars, nodeVars, Up
<1>3. CASE \E k \in Nodes : NodeStep(k) \/ LosePeer(k)
  <2> PICK k \in Nodes : NodeStep(k) \/ LosePeer(k)
    BY <1>3
  <2>1. UNCHANGED state \/ (Up(k) /\ \E s : state' = [state EXCEPT ![k] = s])
    BY DEF NodeStep, InitialiseVariables, ExecuteGenesisBlockBuild, RetrieveGenesisBlock, StartBlockchain,
         StopBlockchain, ReceiveGenesisBlockBuild, ReceiveInitCommitment, Receive, Consume, LosePeer, Up,
         nodeVars
  <2> QED
    BY <1>1, <2>1 DEF Up
<1> QED
  BY <1>2, <1>3 DEF Next

LEMMA GoesWellBefore ==
  ASSUME TypeOK, [Next]_vars, GoesWell'
  PROVE  GoesWell
BY HastyStays, GoneStays DEF GoesWell

\* Steps that take no request to build and no start away, and no message but for its effect
LEMMA PromiseFrame ==
  ASSUME PromiseInv, GoesWell, Initialised => Initialised',
         UNCHANGED <<blocks, nodesPublicKeys, sendStartBlockchainTogether>>,
         timeouts > 0 => timeouts' > 0,
         Everywhere => Everywhere',
         blocks = <<>> => \A n \in Nodes : Has(n, "EXECUTE_GENESIS_BLOCK_BUILD")
                                             => Has(n, "EXECUTE_GENESIS_BLOCK_BUILD")',
         Everywhere /\ Has(FirstNode, "START_BLOCKCHAIN") => Has(FirstNode, "START_BLOCKCHAIN")',
         \A n \in Nodes : blockchainData[n] > 0 => blockchainData'[n] > 0,
         \A n \in Nodes : started[n] => started'[n],
         \A m \in underway : \/ m \in underway'
                             \/ Asks(m) /\ blockchainData'[m.to] > 0
                             \/ m.type = "BCHAIN_INIT_COMMITMENT" /\ started'[m.to]
  PROVE  NotEnoughYet' /\ AskedInv' /\ (Promised => Promised')
<1>1. NotEnoughYet'
  BY DEF PromiseInv, NotEnoughYet, Enough, keyList
<1>2. ASSUME NEW n \in Nodes, KeyToCome(n) PROVE KeyToCome(n)'
  <2>1. CASE nodesPublicKeys[n] > 0 \/ blockchainData[n] > 0
    BY <2>1 DEF KeyToCome
  <2>2. ASSUME NEW m \in underway, Asks(m), m.to = n PROVE KeyToCome(n)'
    <3>1. m.type # "BCHAIN_INIT_COMMITMENT"
      BY <2>2 DEF Asks
    <3> QED
      BY <2>2, <3>1 DEF KeyToCome, Asks
  <2> QED
    BY <1>2, <2>1, <2>2 DEF KeyToCome
<1>3. ASSUME NEW n \in Nodes, StartsOrWill(n) PROVE StartsOrWill(n)'
  <2>1. ASSUME NEW m \in underway, m.type = "BCHAIN_INIT_COMMITMENT", m.to = n PROVE StartsOrWill(n)'
    <3>1. ~Asks(m)
      BY <2>1 DEF Asks
    <3> QED
      BY <2>1, <3>1 DEF StartsOrWill
  <2> QED
    BY <1>3, <2>1 DEF StartsOrWill
<1>4. blocks = <<>> /\ AskedFor => AskedFor'
  BY <1>2 DEF AskedFor
<1>5. AskedInv'
  BY <1>4 DEF PromiseInv, AskedInv
<1>6. StartToCome => StartToCome'
  BY <1>3 DEF StartToCome
<1> QED
  BY <1>1, <1>5, <1>6 DEF Promised

\* What is published keeps the commands
LEMMA PublishedHas ==
  ASSUME NEW c, Published(c)
  PROVE  \A n \in Nodes : \A t : Has(n, t) => Has(n, t)'
BY DEF Published, Has

LEMMA ConsumedHas ==
  ASSUME TypeOK, NEW n \in Nodes, NEW type, Consume(n, type)
  PROVE  /\ \A k \in Nodes : \A t : Has(k, t) /\ (k # n \/ t # type) => Has(k, t)'
         /\ Has(n, type)
<1>1. /\ \A k \in Nodes \ {n} : commands'[k] = commands[k]
      /\ 1 \in DOMAIN commands[n] /\ commands[n][1].type = type
      /\ \A i \in DOMAIN commands[n] : i # 1 =>
           i - 1 \in DOMAIN commands'[n] /\ commands'[n][i - 1] = commands[n][i]
  BY Consumed
<1>2. ASSUME NEW k \in Nodes, NEW t, Has(k, t), k # n \/ t # type PROVE Has(k, t)'
  <2>1. CASE k # n
    BY <1>1, <1>2, <2>1 DEF Has
  <2>2. CASE k = n
    <3>1. PICK i \in DOMAIN commands[n] : commands[n][i].type = t
      BY <1>2, <2>2 DEF Has
    <3>2. i # 1
      BY <1>1, <1>2, <2>2, <3>1
    <3> QED
      BY <1>1, <2>2, <3>1, <3>2 DEF Has
  <2> QED
    BY <2>1, <2>2
<1>3. Has(n, type)
  BY <1>1 DEF Has
<1> QED
  BY <1>2, <1>3

\* Nobody has the block of a data processor that has built none
LEMMA EverywhereBuilt ==
  ASSUME BlockInv
  PROVE  Everywhere => blocks # <<>>
BY NodesAssumption DEF BlockInv, OneBlock, Everywhere

LEMMA AskPromise ==
  ASSUME PromiseInv, GoesWell, GoesWell', RequestGenesisBlockData \/ generateAndStartBlockchain
  PROVE  NotEnoughYet' /\ AskedInv' /\ (Promised => Promised')
<1> DEFINE c == Command("EXECUTE_GENESIS_BLOCK_BUILD")
<1>1. /\ UNCHANGED <<state, blockchain, started, underway, blockchainData, nodesPublicKeys, blocks, timeouts>>
      /\ sendStartBlockchainTogether => sendStartBlockchainTogether'
      /\ hasty' = (hasty \/ ~Initialised)
  BY DEF RequestGenesisBlockData, generateAndStartBlockchain, retrieveGenesisBlockData, Request,
         nodeVars, floodVars, processorVars
<1>2. PICK n \in Nodes : PublishTo(n, c)
  BY DEF RequestGenesisBlockData, generateAndStartBlockchain, retrieveGenesisBlockData
<1>3. c \in Commands /\ c.type = "EXECUTE_GENESIS_BLOCK_BUILD"
  BY CommandTypes
<1>4. Published(c)
  BY <1>2, <1>3, ToOne DEF PromiseInv, BareInv, BlockInv
<1>5. Has(n, "EXECUTE_GENESIS_BLOCK_BUILD")'
  <2>1. commands \in [Nodes -> Seq(Commands)]
    BY DEF PromiseInv, BareInv, BlockInv, TypeOK
  <2>2. commands'[n] = Append(commands[n], c) /\ commands[n] \in Seq(Commands)
    BY <1>2, <2>1 DEF PublishTo
  <2>3. Len(commands[n]) + 1 \in DOMAIN commands'[n] /\ commands'[n][Len(commands[n]) + 1] = c
    BY <1>3, <2>2, Appended
  <2> QED
    BY <1>3, <2>3 DEF Has
<1> HIDE DEF c
<1>6. Initialised'
  BY <1>1 DEF GoesWell, Initialised
<1>7. NotEnoughYet'
  BY <1>1 DEF PromiseInv, NotEnoughYet
<1>8. AskedInv'
  BY <1>5, <1>6 DEF AskedInv, AskedFor
<1>9. Promised => Promised'
  BY <1>1, <1>4, PublishedHas, NodesAssumption DEF Promised, StartToCome, Everywhere, StartsOrWill
<1> QED
  BY <1>7, <1>8, <1>9

LEMMA StartRequestPromise ==
  ASSUME PromiseInv, GoesWell, RequestStartBlockchain \/ stopBlockchain
  PROVE  NotEnoughYet' /\ AskedInv' /\ (Promised => Promised')
<1>1. UNCHANGED <<state, blockchain, started, underway, blockchainData, nodesPublicKeys, blocks, timeouts,
                  sendStartBlockchainTogether>>
  BY DEF RequestStartBlockchain, stopBlockchain, Request, nodeVars, floodVars, processorVars
<1>2. \E c \in Commands : Published(c)
  BY CommandTypes, ToOne, ToAll, NodesAssumption
     DEF RequestStartBlockchain, sendStartBlockchainRequest, stopBlockchain, PromiseInv, BareInv, BlockInv
<1>3. \A n \in Nodes : \A t : Has(n, t) => Has(n, t)'
  BY <1>2, PublishedHas
<1> QED
  BY <1>1, <1>3, PromiseFrame, NodesAssumption DEF Initialised, Everywhere

LEMMA TimeoutPromise ==
  ASSUME PromiseInv, GoesWell, GoesWell', Timeout
  PROVE  NotEnoughYet' /\ AskedInv' /\ (Promised => Promised')
<1> DEFINE c == Command("START_BLOCKCHAIN")
<1>1. /\ UNCHANGED <<state, blockchain, started, underway, blockchainData, nodesPublicKeys, blocks,
                     sendStartBlockchainTogether>>
      /\ PublishTo(FirstNode, c) /\ hasty' = (hasty \/ ~Initialised \/ RetrievesPending)
  BY DEF Timeout, sendStartBlockchainRequest, nodeVars, floodVars
<1>2. c \in Commands /\ c.type = "START_BLOCKCHAIN"
  BY CommandTypes
<1>3. Published(c)
  BY <1>1, <1>2, ToOne, NodesAssumption DEF PromiseInv, BareInv, BlockInv
<1>4. Has(FirstNode, "START_BLOCKCHAIN")'
  <2>1. commands \in [Nodes -> Seq(Commands)]
    BY DEF PromiseInv, BareInv, BlockInv, TypeOK
  <2>2. commands'[FirstNode] = Append(commands[FirstNode], c) /\ commands[FirstNode] \in Seq(Commands)
    BY <1>1, <2>1, NodesAssumption DEF PublishTo
  <2>3. /\ Len(commands[FirstNode]) + 1 \in DOMAIN commands'[FirstNode]
        /\ commands'[FirstNode][Len(commands[FirstNode]) + 1] = c
    BY <1>2, <2>2, Appended
  <2> QED
    BY <1>2, <2>3 DEF Has
<1> HIDE DEF c
<1>5. NotEnoughYet'
  BY <1>1 DEF PromiseInv, NotEnoughYet
<1>6. AskedInv'
  <2>1. AskedFor => AskedFor'
    BY <1>1, <1>3, PublishedHas DEF AskedFor, KeyToCome
  <2> QED
    BY <1>1, <2>1 DEF PromiseInv, AskedInv, Initialised
<1>7. blocks # <<>> => Everywhere'
  <2>1. Bare /\ ~RetrievesPending
    BY <1>1 DEF PromiseInv, BareInv, GoesWell
  <2> QED
    BY <1>1, <2>1 DEF Bare, BlockReaches, RetrievesPending, Retrieves, Everywhere
<1>8. Promised => Promised'
  BY <1>1, <1>4, <1>7 DEF Promised, StartToCome
<1> QED
  BY <1>5, <1>6, <1>8

LEMMA QuietPromise ==
  ASSUME PromiseInv, GoesWell, NEW n \in Nodes,
         InitialiseVariables(n) \/ LosePeer(n) \/ StopBlockchain(n), Initialised => Initialised'
  PROVE  NotEnoughYet' /\ AskedInv' /\ (Promised => Promised')
<1>1. /\ UNCHANGED <<blockchain, started, underway, blockchainData, nodesPublicKeys, blocks, timeouts,
                     sendStartBlockchainTogether>>
      /\ UNCHANGED commands \/ Consume(n, "STOP_BLOCKCHAIN")
  BY DEF InitialiseVariables, LosePeer, StopBlockchain, Consume, floodVars, processorVars
<1>2. \A k \in Nodes : \A t : Has(k, t) /\ t # "STOP_BLOCKCHAIN" => Has(k, t)'
  <2>1. CASE UNCHANGED commands
    BY <2>1 DEF Has
  <2>2. CASE Consume(n, "STOP_BLOCKCHAIN")
    BY <2>2, ConsumedHas DEF PromiseInv, BareInv, BlockInv
  <2> QED
    BY <1>1, <2>1, <2>2
<1> QED
  BY <1>1, <1>2, PromiseFrame, NodesAssumption DEF Everywhere

LEMMA RetrievePromise ==
  ASSUME PromiseInv, GoesWell, NEW n \in Nodes, RetrieveGenesisBlock(n), Initialised => Initialised'
  PROVE  NotEnoughYet' /\ AskedInv' /\ (Promised => Promised')
<1>1. /\ UNCHANGED <<started, underway, blockchainData, nodesPublicKeys, blocks, timeouts,
                     sendStartBlockchainTogether>>
      /\ Consume(n, "RETRIEVE_GENESIS_BLOCK")
  BY DEF RetrieveGenesisBlock, Consume, floodVars, processorVars
<1>2. \A k \in Nodes : \A t : Has(k, t) /\ t # "RETRIEVE_GENESIS_BLOCK" => Has(k, t)'
  BY <1>1, ConsumedHas DEF PromiseInv, BareInv, BlockInv
<1>3. Everywhere => Everywhere'
  <2> SUFFICES ASSUME NEW k \in Nodes, blockchain[k] # <<>> PROVE blockchain'[k] # <<>>
    BY DEF Everywhere
  <2>1. blockchain \in [Nodes -> Seq(Keys)] /\ Head(commands[n]) \in Commands
    BY <1>1, Consumed DEF PromiseInv, BareInv, BlockInv, TypeOK
  <2>2. Retrieves(Head(commands[n]))
    BY <1>1, Consumed DEF PromiseInv, BareInv, BlockInv, Retrieves
  <2>3. Head(commands[n]).genesisBlock \in Keys
    BY <2>1, <2>2, CommandTypes
  <2>4. Append(blockchain[n], Head(commands[n]).genesisBlock) # <<>>
    BY <2>1, <2>3, AppendProperties
  <2> QED
    BY <2>1, <2>4 DEF RetrieveGenesisBlock
<1> QED
  BY <1>1, <1>2, <1>3, PromiseFrame, NodesAssumption

LEMMA ReceivePromise ==
  ASSUME PromiseInv, GoesWell, GoesWell', NEW n \in Nodes, NEW m \in underway,
         ReceiveGenesisBlockBuild(n, m) \/ ReceiveInitCommitment(n, m), Initialised => Initialised'
  PROVE  NotEnoughYet' /\ AskedInv' /\ (Promised => Promised')
<1>1. /\ UNCHANGED <<blockchain, commands, nodesPublicKeys, blocks, timeouts, sendStartBlockchainTogether>>
      /\ underway' = underway \ {m} /\ m.to = n
  BY DEF ReceiveGenesisBlockBuild, ReceiveInitCommitment, Receive, processorVars
<1>2. state[n] # ""
  BY DEF PromiseInv, BareInv, Bare, QuietBefore, GoesWell, Initialised
<1>3. blockchainData \in [Nodes -> Nat] /\ started \in [Nodes -> BOOLEAN]
  BY DEF PromiseInv, BareInv, BlockInv, TypeOK, Keys
<1>4. \/ Asks(m) /\ SendPublicKey(n) /\ UNCHANGED started
      \/ m.type = "BCHAIN_INIT_COMMITMENT" /\ UNCHANGED blockchainData /\ started' = [started EXCEPT ![n] = TRUE]
  BY <1>2 DEF ReceiveGenesisBlockBuild, ReceiveInitCommitment, Asks
<1>5. /\ \A k \in Nodes : blockchainData[k] > 0 => blockchainData'[k] > 0
      /\ \A k \in Nodes : started[k] => started'[k]
      /\ \/ Asks(m) /\ blockchainData'[n] > 0
         \/ m.type = "BCHAIN_INIT_COMMITMENT" /\ started'[n]
  <2>1. CASE Asks(m) /\ SendPublicKey(n) /\ UNCHANGED started
    <3>1. \A k \in Nodes : blockchainData'[k] = IF k = n THEN blockchainData[n] + 1 ELSE blockchainData[k]
      BY <1>3, <2>1 DEF SendPublicKey
    <3> QED
      BY <1>3, <2>1, <3>1
  <2>2. CASE /\ m.type = "BCHAIN_INIT_COMMITMENT" /\ UNCHANGED blockchainData
             /\ started' = [started EXCEPT ![n] = TRUE]
    BY <1>3, <2>2
  <2> QED
    BY <1>4, <2>1, <2>2
<1>6. \A x \in underway : \/ x \in underway'
                          \/ Asks(x) /\ blockchainData'[x.to] > 0
                          \/ x.type = "BCHAIN_INIT_COMMITMENT" /\ started'[x.to]
  BY <1>1, <1>5
<1> QED
  BY <1>1, <1>5, <1>6, PromiseFrame DEF Everywhere, Has

LEMMA ExecutePromise ==
  ASSUME PromiseInv, GoesWell, GoesWell', NEW n \in Nodes, ExecuteGenesisBlockBuild(n)
  PROVE  NotEnoughYet' /\ AskedInv' /\ (Promised => Promised')
<1>1. /\ UNCHANGED <<state, blockchain, started, nodesPublicKeys, blocks, timeouts,
                     sendStartBlockchainTogether, hasty>>
      /\ Consume(n, "EXECUTE_GENESIS_BLOCK_BUILD") /\ underway \subseteq underway'
  BY DEF ExecuteGenesisBlockBuild, Consume, nodeVars, processorVars
<1>2. /\ \A k \in Nodes : \A t : Has(k, t) /\ t # "EXECUTE_GENESIS_BLOCK_BUILD" => Has(k, t)'
      /\ blockchainData \in [Nodes -> Nat]
  BY <1>1, ConsumedHas DEF PromiseInv, BareInv, BlockInv, TypeOK, Keys
<1>3. CASE blocks # <<>>
  <2>1. \A k \in Nodes : blockchainData[k] > 0 => blockchainData'[k] > 0
    BY <1>2 DEF ExecuteGenesisBlockBuild, SendPublicKey
  <2> QED
    BY <1>1, <1>2, <1>3, <2>1, PromiseFrame, NodesAssumption DEF Initialised, Everywhere
<1>4. CASE blocks = <<>>
  <2>1. Initialised
    BY <1>1, ConsumeQuiet DEF PromiseInv, BareInv, Bare, BlockInv, GoesWell
  <2>2. state[n] = "AWAITING_GENESIS_BLOCK"
    <3>1. state[n] \in {"", "AWAITING_GENESIS_BLOCK", "AWAITING_BLOCKCHAIN_START", "gone"}
      BY DEF PromiseInv, BareInv, BlockInv, TypeOK
    <3>2. state[n] # "AWAITING_BLOCKCHAIN_START"
      BY <1>4 DEF PromiseInv, BareInv, BlockInv, OneBlock
    <3> QED
      BY <2>1, <3>1, <3>2 DEF GoesWell, Up, Initialised
  <2>3. underway' = underway \cup Flood(n, "GENESIS_BLOCK_BUILD", builds) /\ SendPublicKey(n)
    BY <2>2 DEF ExecuteGenesisBlockBuild
  <2>4. \A k \in Nodes : KeyToCome(k)'
    <3>1. blockchainData'[n] > 0
      BY <1>2, <2>3 DEF SendPublicKey
    <3>2. ASSUME NEW k \in Nodes \ {n} PROVE \E m \in underway' : m.type = "GENESIS_BLOCK_BUILD" /\ m.to = k
      <4> DEFINE m == [to |-> k, type |-> "GENESIS_BLOCK_BUILD", id |-> builds]
      <4>1. m \in underway'
        BY <2>3 DEF Flood
      <4> QED
        BY <4>1
    <3> QED
      BY <3>1, <3>2 DEF KeyToCome, Asks
  <2>5. AskedInv'
    BY <1>1, <2>1, <2>4 DEF AskedInv, AskedFor, Initialised
  <2>6. NotEnoughYet' /\ (Promised => Promised')
    BY <1>1, <1>4 DEF PromiseInv, NotEnoughYet, Promised
  <2> QED
    BY <2>5, <2>6
<1> QED
  BY <1>3, <1>4

LEMMA StartPromise ==
  ASSUME PromiseInv, GoesWell, GoesWell', NEW n \in Nodes, StartBlockchain(n)
  PROVE  NotEnoughYet' /\ AskedInv' /\ (Promised => Promised')
<1>1. /\ UNCHANGED <<state, blockchain, nodesPublicKeys, blocks, timeouts, blockchainData,
                     sendStartBlockchainTogether>>
      /\ Consume(n, "START_BLOCKCHAIN") /\ underway \subseteq underway'
  BY DEF StartBlockchain, Consume, processorVars
<1>2. /\ \A k \in Nodes : \A t : Has(k, t) /\ (k # n \/ t # "START_BLOCKCHAIN") => Has(k, t)'
      /\ started \in [Nodes -> BOOLEAN]
  BY <1>1, ConsumedHas DEF PromiseInv, BareInv, BlockInv, TypeOK
<1>3. \A k \in Nodes : started[k] => started'[k]
  BY <1>2 DEF StartBlockchain
<1>4. CASE Everywhere
  <2>1. blocks # <<>>
    BY <1>4, EverywhereBuilt DEF PromiseInv, BareInv
  <2>2. state[n] = "AWAITING_BLOCKCHAIN_START"
    <3>1. state[n] \in {"", "AWAITING_GENESIS_BLOCK", "AWAITING_BLOCKCHAIN_START", "gone"}
      BY DEF PromiseInv, BareInv, BlockInv, TypeOK
    <3>2. state[n] \notin {"", "AWAITING_GENESIS_BLOCK"}
      BY <1>4 DEF PromiseInv, BareInv, BlockInv, OneBlock, Everywhere
    <3> QED
      BY <3>1, <3>2 DEF GoesWell, Up
  <2>3. /\ underway' = underway \cup Flood(n, "BCHAIN_INIT_COMMITMENT", inits)
        /\ started' = [started EXCEPT ![n] = TRUE]
    BY <2>2 DEF StartBlockchain
  <2>4. \A k \in Nodes : StartsOrWill(k)'
    <3>1. started'[n]
      BY <1>2, <2>3
    <3>2. ASSUME NEW k \in Nodes \ {n}
          PROVE  \E m \in underway' : m.type = "BCHAIN_INIT_COMMITMENT" /\ m.to = k
      <4> DEFINE m == [to |-> k, type |-> "BCHAIN_INIT_COMMITMENT", id |-> inits]
      <4>1. m \in underway'
        BY <2>3 DEF Flood
      <4> QED
        BY <4>1
    <3> QED
      BY <3>1, <3>2 DEF StartsOrWill
  <2> QED
    BY <1>1, <1>4, <2>1, <2>4 DEF NotEnoughYet, AskedInv, Promised, StartToCome, Everywhere
<1>5. CASE ~Everywhere
  BY <1>1, <1>2, <1>3, <1>5, PromiseFrame DEF Initialised, Everywhere
<1> QED
  BY <1>4, <1>5

LEMMA BuildPromise ==
  ASSUME PromiseInv, GoesWell, NEW n \in Nodes, processGenesisBlockBuildMessage(n)
  PROVE  NotEnoughYet' /\ AskedInv' /\ (Promised => Promised')
<1>1. /\ blockchainData[n] > 0
      /\ blockchainData' = [blockchainData EXCEPT ![n] = @ - 1]
      /\ nodesPublicKeys' = [nodesPublicKeys EXCEPT ![n] = @ + 1]
      /\ UNCHANGED <<state, blockchain, started, underway, sendStartBlockchainTogether>>
  BY DEF processGenesisBlockBuildMessage, nodeVars, floodVars
<1>2. blockchainData \in [Nodes -> Nat] /\ nodesPublicKeys \in [Nodes -> Nat] /\ timeouts \in Nat
  BY DEF PromiseInv, BareInv, BlockInv, TypeOK, Keys
<1>3. nodesPublicKeys' \in Keys
  BY <1>1, <1>2 DEF Keys
<1>4. CASE Enough(nodesPublicKeys')
  <2>1. sendGenesisBlock(nodesPublicKeys')
    BY <1>4 DEF processGenesisBlockBuildMessage
  <2>2. blocks' # <<>> /\ (blocks # <<>> => blocks' = blocks)
    BY <1>3, <2>1, Built DEF sendGenesisBlock, PromiseInv, BareInv
  <2>3. \E c \in Commands : Published(c)
    <3>1. Retrieve(BuiltOnce(nodesPublicKeys')[1]) \in Commands
      BY <1>3, Built, CommandTypes DEF PromiseInv, BareInv
    <3> QED
      BY <2>1, <3>1, ToAll DEF sendGenesisBlock, PromiseInv, BareInv, BlockInv
  <2>4. \A k \in Nodes : \A t : Has(k, t) => Has(k, t)'
    BY <2>3, PublishedHas
  <2>5. timeouts' = IF sendStartBlockchainTogether THEN timeouts + 1 ELSE timeouts
    BY <2>1 DEF sendGenesisBlock
  <2>6. ASSUME Promised PROVE StartToCome'
    <3>1. CASE blocks = <<>>
      BY <1>2, <2>5, <2>6, <3>1 DEF Promised, StartToCome
    <3>2. CASE blocks # <<>>
      <4>1. timeouts > 0 => timeouts' > 0
        BY <1>2, <2>5
      <4> QED
        BY <1>1, <2>4, <2>6, <3>2, <4>1, NodesAssumption
           DEF Promised, StartToCome, Everywhere, StartsOrWill
    <3> QED
      BY <3>1, <3>2
  <2> QED
    BY <2>2, <2>6 DEF NotEnoughYet, AskedInv, Promised
<1>5. CASE ~Enough(nodesPublicKeys')
  <2>1. UNCHANGED <<blocks, commands, timeouts>> /\ UNCHANGED hasty
    BY <1>5 DEF processGenesisBlockBuildMessage
  <2>2. \A k \in Nodes : KeyToCome(k) => KeyToCome(k)'
    <3>1. \A k \in Nodes : /\ nodesPublicKeys'[k] = IF k = n THEN nodesPublicKeys[n] + 1 ELSE nodesPublicKeys[k]
                           /\ k # n => blockchainData'[k] = blockchainData[k]
      BY <1>1, <1>2
    <3>2. nodesPublicKeys'[n] > 0
      BY <1>2, <3>1
    <3> QED
      BY <1>1, <1>2, <3>1, <3>2 DEF KeyToCome
  <2>3. AskedFor => AskedFor'
    BY <2>1, <2>2 DEF AskedFor, Has
  <2>4. NotEnoughYet' /\ AskedInv'
    BY <1>1, <1>5, <2>1, <2>3 DEF PromiseInv, NotEnoughYet, AskedInv, GoesWell, Up, Initialised
  <2>5. Promised => Promised'
    BY <1>1, <2>1 DEF Promised, StartToCome, Everywhere, Has, StartsOrWill
  <2> QED
    BY <2>4, <2>5
<1> QED
  BY <1>4, <1>5

LEMMA GoodStep ==
  ASSUME PromiseInv, [Next]_vars, GoesWell'
  PROVE  NotEnoughYet' /\ AskedInv' /\ (Promised => Promised')
<1>1. GoesWell /\ (Initialised => Initialised')
  BY GoesWellBefore, InitialisedStays DEF PromiseInv, BareInv, BlockInv
<1>2. CASE Operator
  BY <1>1, <1>2, AskPromise, StartRequestPromise DEF Operator
<1>3. CASE DataProcessor
  BY <1>1, <1>3, TimeoutPromise, BuildPromise DEF DataProcessor
<1>4. CASE \E n \in Nodes : NodeStep(n) \/ LosePeer(n)
  BY <1>1, <1>4, QuietPromise, RetrievePromise, ReceivePromise, ExecutePromise, StartPromise DEF NodeStep
<1>5. CASE UNCHANGED vars
  BY <1>1, <1>5, PromiseFrame DEF vars, nodeVars, floodVars, processorVars, Has, Everywhere
<1> QED
  BY <1>2, <1>3, <1>4, <1>5 DEF Next

\* The data processor counts alike when something went wrong
LEMMA NotEnoughStep ==
  ASSUME BlockInv, NotEnoughYet, [Next]_vars
  PROVE  NotEnoughYet'
<1>1. CASE UNCHANGED <<blocks, nodesPublicKeys>>
  BY <1>1 DEF NotEnoughYet
<1>2. CASE \E n \in Nodes : processGenesisBlockBuildMessage(n)
  <2> PICK n \in Nodes : processGenesisBlockBuildMessage(n)
    BY <1>2
  <2>1. nodesPublicKeys' = [nodesPublicKeys EXCEPT ![n] = @ + 1]
    BY DEF processGenesisBlockBuildMessage
  <2>2. nodesPublicKeys' \in Keys
    <3>1. nodesPublicKeys \in [Nodes -> Nat]
      BY DEF BlockInv, TypeOK, Keys
    <3>2. nodesPublicKeys[n] + 1 \in Nat
      BY <3>1
    <3> QED
      BY <2>1, <3>1, <3>2 DEF Keys
  <2>3. Enough(nodesPublicKeys') => blocks' # <<>>
    BY <2>2, Built DEF processGenesisBlockBuildMessage, sendGenesisBlock
  <2> QED
    BY <2>3 DEF NotEnoughYet
<1> QED
  BY <1>1, <1>2 DEF Next, Operator, RequestGenesisBlockData, generateAndStartBlockchain, RequestStartBlockchain,
       stopBlockchain, DataProcessor, Timeout, NodeStep, InitialiseVariables, ExecuteGenesisBlockBuild,
       RetrieveGenesisBlock, StartBlockchain, StopBlockchain, ReceiveGenesisBlockBuild,
       ReceiveInitCommitment, Receive, Consume, LosePeer, vars, processorVars

LEMMA PromiseStep == PromiseInv /\ [Next]_vars => PromiseInv' /\ PromiseKept
<1> SUFFICES ASSUME PromiseInv, [Next]_vars PROVE PromiseInv' /\ PromiseKept
  OBVIOUS
<1>1. BareInv' /\ NotEnoughYet'
  BY BareStep, NotEnoughStep DEF PromiseInv, BareInv
<1>2. AskedInv'
  BY GoodStep DEF AskedInv
<1>3. PromiseKept
  BY GoodStep DEF PromiseKept
<1> QED
  BY <1>1, <1>2, <1>3 DEF PromiseInv

LEMMA EndsRunning ==
  ASSUME PromiseInv
  PROVE  RunsAtTheEnd
<1> SUFFICES ASSUME GoesWell, Promised, NothingLeft PROVE Running
  BY DEF RunsAtTheEnd
<1>1. \A n \in Nodes : DOMAIN commands[n] = {}
  BY DEF NothingLeft
<1>2. \A n \in Nodes : \A t : ~Has(n, t)
  BY <1>1 DEF Has
<1>3. CASE blocks = <<>>
  <2>1. AskedFor
    BY <1>3 DEF PromiseInv, AskedInv, Promised
  <2>2. \A n \in Nodes : nodesPublicKeys[n] > 0
    BY <1>2, <2>1 DEF AskedFor, KeyToCome, NothingLeft, NoKeys
  <2>3. nodesPublicKeys \in Keys
    BY DEF PromiseInv, BareInv, BlockInv, TypeOK
  <2> QED
    BY <1>3, <2>2, <2>3, OneEachIsEnough DEF PromiseInv, NotEnoughYet
<1>4. CASE blocks # <<>>
  BY <1>2, <1>4, NodesAssumption DEF Promised, StartToCome, NothingLeft, StartsOrWill, Running, Everywhere
<1> QED
  BY <1>3, <1>4

(***************************************************************************)
(* The safety part of GenerateAndStartWorks, for every number of nodes and *)
(* of requests: once asked for before the block was built, generate and    *)
(* start stays under way - as a request, as keys, as the delayed start, as *)
(* its command or its messages - whatever else the operator asks for, and  *)
(* when nothing is left to do all nodes run with the block.                *)
(***************************************************************************)
THEOREM GenerateAndStart == Spec => [][PromiseKept]_vars /\ []RunsAtTheEnd
<1>1. Spec => []PromiseInv
  BY PromiseInit, PromiseStep, PTL DEF Spec
<1> QED
  BY <1>1, PromiseStep, EndsRunning, PTL DEF Spec

=============================================================================
