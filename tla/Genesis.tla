------------------------------- MODULE Genesis -------------------------------
(***************************************************************************)
(* The life of the nodes from runP2p to the first commitments, as the      *)
(* operator drives it: the REST requests of the data processor, the        *)
(* commands it publishes to the nodes (processQueueCommandMessage), the    *)
(* messages the nodes broadcast and those they publish back.               *)
(*                                                                         *)
(* Commands to a node arrive in order and are handled one at a time.  What *)
(* a node broadcasts reaches every other node once, in any order.  The     *)
(* data processor has one thread; the keys it receives arrive in any order *)
(* and are counted per node, in its queue and in the genesis block.        *)
(*                                                                         *)
(* Outside this module: the distribution of keys (KeyExchange), packs of   *)
(* transactions (Dag), the report of a block to the data processor and     *)
(* everything after the first commitments.                                 *)
(***************************************************************************)
EXTENDS Integers, Sequences, FiniteSets

CONSTANTS
  Nodes,       \* the nodes, in the configuration of the data processor too
  FirstNode,   \* nodes[0] there
  MaxRequests  \* bound: requests of the operator

ASSUME NodesAssumption ==
  IsFiniteSet(Nodes) /\ FirstNode \in Nodes /\ MaxRequests \in Nat

VARIABLES
  state,                       \* per node: State, or "gone" when its process has ended
  blockchain,                  \* per node: the genesis blocks it appended
  started,                     \* per node: it generates the commitments of round 0
  commands,                    \* per node: its queue of commands
  underway,                    \* broadcast messages that did not reach a node yet
  builds,                      \* how often GENESIS_BLOCK_BUILD was broadcast
  inits,                       \* how often BCHAIN_INIT_COMMITMENT was broadcast
  blockchainData,              \* per node: its keys in the queue of the data processor
  nodesPublicKeys,             \* per node: its keys that the data processor has received
  blocks,                      \* the genesis blocks it has built
  sendStartBlockchainTogether, \* "generate and start" was requested
  timeouts,                    \* calls of setTimeout that are pending
  requests,                    \* requests so far, and how many of them were to start
  hasty                        \* (history) a step was taken before the last one had its effect

nodeVars == <<state, blockchain, started>>
floodVars == <<underway, builds, inits>>
processorVars ==
  <<nodesPublicKeys, blocks, sendStartBlockchainTogether, timeouts>>
vars == <<nodeVars, commands, floodVars, blockchainData, processorVars, requests, hasty>>

Keys == [Nodes -> Nat]   \* a genesis block gives coins to a number of keys of each node
NoKeys == [n \in Nodes |-> 0]

Command(type) == [type |-> type]
Retrieve(block) == [type |-> "RETRIEVE_GENESIS_BLOCK", genesisBlock |-> block]
Commands ==
  [type : {"EXECUTE_GENESIS_BLOCK_BUILD", "START_BLOCKCHAIN", "STOP_BLOCKCHAIN"}] \cup
  [type : {"RETRIEVE_GENESIS_BLOCK"}, genesisBlock : Keys]

TypeOK ==
  /\ state \in [Nodes -> {"", "AWAITING_GENESIS_BLOCK", "AWAITING_BLOCKCHAIN_START", "gone"}]
  /\ blockchain \in [Nodes -> Seq(Keys)]
  /\ started \in [Nodes -> BOOLEAN]
  /\ commands \in [Nodes -> Seq(Commands)]
  /\ underway \subseteq
       [to : Nodes, type : {"GENESIS_BLOCK_BUILD", "BCHAIN_INIT_COMMITMENT"}, id : Nat]
  /\ builds \in Nat /\ inits \in Nat
  /\ blockchainData \in Keys /\ nodesPublicKeys \in Keys
  /\ blocks \in Seq(Keys)
  /\ sendStartBlockchainTogether \in BOOLEAN
  /\ timeouts \in Nat
  /\ requests \in [made : 0 .. MaxRequests, start : 0 .. MaxRequests]
  /\ hasty \in BOOLEAN

Init ==
  /\ state = [n \in Nodes |-> ""]
  /\ blockchain = [n \in Nodes |-> <<>>]
  /\ started = [n \in Nodes |-> FALSE]
  /\ commands = [n \in Nodes |-> <<>>]
  /\ underway = {} /\ builds = 0 /\ inits = 0
  /\ blockchainData = NoKeys /\ nodesPublicKeys = NoKeys
  /\ blocks = <<>>
  /\ sendStartBlockchainTogether = FALSE /\ timeouts = 0
  /\ requests = [made |-> 0, start |-> 0]
  /\ hasty = FALSE

-----------------------------------------------------------------------------

Up(n) == state[n] # "gone"

\* publishMessage: to one node, or to all of them
PublishTo(n, c) == commands' = [commands EXCEPT ![n] = Append(@, c)]
PublishToAll(c) == commands' = [n \in Nodes |-> Append(commands[n], c)]

\* What a node broadcasts: one message to every other node
Flood(n, type, id) == [to : Nodes \ {n}, type : {type}, id : {id}]

RetrievesPending == \E n \in Nodes : \E i \in DOMAIN commands[n] :
                      commands[n][i].type = "RETRIEVE_GENESIS_BLOCK"
Initialised == \A n \in Nodes : state[n] # ""

\* The end of runP2p
InitialiseVariables(n) ==
  /\ state[n] = ""
  /\ state' = [state EXCEPT ![n] = "AWAITING_GENESIS_BLOCK"]
  /\ UNCHANGED <<blockchain, started, commands, floodVars, blockchainData, processorVars,
                 requests, hasty>>

(***************************************************************************)
(* Requests of the operator.                                               *)
(***************************************************************************)
Request(start) ==
  /\ requests.made < MaxRequests
  /\ requests' = [made |-> requests.made + 1, start |-> requests.start + start]
  /\ UNCHANGED <<nodeVars, floodVars, blockchainData>>

\* A random node is asked to ask the others
retrieveGenesisBlockData ==
  /\ \E n \in Nodes : PublishTo(n, Command("EXECUTE_GENESIS_BLOCK_BUILD"))
  /\ hasty' = (hasty \/ ~Initialised)

RequestGenesisBlockData ==
  /\ Request(0)
  /\ retrieveGenesisBlockData
  /\ UNCHANGED processorVars

generateAndStartBlockchain ==
  /\ Request(0)
  /\ sendStartBlockchainTogether' = TRUE
  /\ retrieveGenesisBlockData
  /\ UNCHANGED <<nodesPublicKeys, blocks, timeouts>>

sendStartBlockchainRequest ==
  /\ PublishTo(FirstNode, Command("START_BLOCKCHAIN"))
  /\ hasty' = (hasty \/ ~Initialised \/ RetrievesPending)

RequestStartBlockchain ==
  /\ Request(1)
  /\ sendStartBlockchainRequest
  /\ UNCHANGED processorVars

stopBlockchain ==
  /\ Request(0)
  /\ PublishToAll(Command("STOP_BLOCKCHAIN"))
  /\ UNCHANGED <<processorVars, hasty>>

-----------------------------------------------------------------------------
(***************************************************************************)
(* Node n handles a command: one action per type, and what it does in      *)
(* another state.                                                          *)
(***************************************************************************)
Consume(n, type) ==
  /\ Up(n) /\ commands[n] # <<>> /\ Head(commands[n]).type = type
  /\ commands' = [commands EXCEPT ![n] = Tail(@)]
  /\ UNCHANGED <<processorVars, requests, hasty>>

SendPublicKey(n) == blockchainData' = [blockchainData EXCEPT ![n] = @ + 1]

ExecuteGenesisBlockBuild(n) ==
  /\ Consume(n, "EXECUTE_GENESIS_BLOCK_BUILD")
  /\ IF state[n] = "AWAITING_GENESIS_BLOCK"
     THEN /\ builds' = builds + 1
          /\ underway' = underway \cup Flood(n, "GENESIS_BLOCK_BUILD", builds)
          /\ SendPublicKey(n)
     ELSE UNCHANGED <<builds, underway, blockchainData>>
  /\ UNCHANGED <<nodeVars, inits>>

\* Mutant: the state is not looked at
AcceptsGenesisBlock_Always(n) == TRUE

AcceptsGenesisBlock(n) == state[n] = "AWAITING_GENESIS_BLOCK"

\* processGenesisBlock
RetrieveGenesisBlock(n) ==
  /\ Consume(n, "RETRIEVE_GENESIS_BLOCK")
  /\ IF AcceptsGenesisBlock(n)
     THEN /\ blockchain' = [blockchain EXCEPT ![n] = Append(@, Head(commands[n]).genesisBlock)]
          /\ state' = [state EXCEPT ![n] = "AWAITING_BLOCKCHAIN_START"]
     ELSE UNCHANGED <<blockchain, state>>
  /\ UNCHANGED <<started, floodVars, blockchainData>>

StartBlockchain(n) ==
  /\ Consume(n, "START_BLOCKCHAIN")
  /\ IF state[n] = "AWAITING_BLOCKCHAIN_START"
     THEN /\ inits' = inits + 1
          /\ underway' = underway \cup Flood(n, "BCHAIN_INIT_COMMITMENT", inits)
          /\ started' = [started EXCEPT ![n] = TRUE]
     ELSE UNCHANGED <<inits, underway, started>>
  /\ UNCHANGED <<state, blockchain, builds, blockchainData>>

\* stopNode; a node that awaits the genesis block only reports the command
StopBlockchain(n) ==
  /\ Consume(n, "STOP_BLOCKCHAIN")
  /\ state' = IF state[n] = "AWAITING_GENESIS_BLOCK" THEN state
              ELSE [state EXCEPT ![n] = "gone"]
  /\ UNCHANGED <<blockchain, started, floodVars, blockchainData>>

(***************************************************************************)
(* Node n reads a message.  Before the end of runP2p there is no generator *)
(* for the jitter of the goroutines that forward it: the process panics,   *)
(* with the message processed or not.                                      *)
(***************************************************************************)
Receive(n, m) ==
  /\ Up(n) /\ m \in underway /\ m.to = n
  /\ underway' = underway \ {m}
  /\ state' = [state EXCEPT ![n] = IF @ = "" THEN "gone" ELSE @]
  /\ UNCHANGED <<blockchain, commands, builds, inits, processorVars, requests, hasty>>

ReceiveGenesisBlockBuild(n, m) ==
  /\ m.type = "GENESIS_BLOCK_BUILD"
  /\ Receive(n, m)
  /\ \/ SendPublicKey(n)
     \/ state[n] = "" /\ UNCHANGED blockchainData
  /\ UNCHANGED started

\* epochRoundsGenerated: round 0 is generated once
ReceiveInitCommitment(n, m) ==
  /\ m.type = "BCHAIN_INIT_COMMITMENT"
  /\ Receive(n, m)
  /\ started' = [started EXCEPT ![n] = TRUE]
  /\ UNCHANGED blockchainData

\* A stream of a process that has ended cannot be written: logFatal
LosePeer(n) ==
  /\ Up(n) /\ \E p \in Nodes : ~Up(p)
  /\ state' = [state EXCEPT ![n] = "gone"]
  /\ UNCHANGED <<blockchain, started, commands, floodVars, blockchainData, processorVars,
                 requests, hasty>>

-----------------------------------------------------------------------------
\* The keys in the list, two of one node told apart
keyList(keys) == UNION {{n} \X (1 .. keys[n]) : n \in Nodes}

\* Mutant: the node that was asked is not counted
Enough_WithoutAsked(keys) == Cardinality(keyList(keys)) >= Cardinality(Nodes) - 1

\* Mutant: one key more than there are nodes is waited for
Enough_More(keys) == Cardinality(keyList(keys)) > Cardinality(Nodes)

\* Keys are counted, whoever sent them
Enough(keys) == Cardinality(keyList(keys)) >= Cardinality(Nodes)

\* The block is built from the keys there are, once
BuiltOnce(keys) == IF blocks = <<>> THEN <<keys>> ELSE blocks

\* Mutant: the blockchain is started without the second of delay
sendGenesisBlock_AtOnce(keys) ==
  /\ blocks' = BuiltOnce(keys)
  /\ commands' = [n \in Nodes |->
       commands[n] \o <<Retrieve(BuiltOnce(keys)[1])>> \o
       (IF sendStartBlockchainTogether /\ n = FirstNode
        THEN <<Command("START_BLOCKCHAIN")>> ELSE <<>>)]
  /\ UNCHANGED timeouts

\* Mutant: the command carries no block, as the others
sendGenesisBlock_Null(keys) ==
  /\ blocks' = BuiltOnce(keys)
  /\ PublishToAll(Command("RETRIEVE_GENESIS_BLOCK"))
  /\ timeouts' = IF sendStartBlockchainTogether THEN timeouts + 1 ELSE timeouts

sendGenesisBlock(keys) ==
  /\ blocks' = BuiltOnce(keys)
  /\ PublishToAll(Retrieve(BuiltOnce(keys)[1]))
  /\ timeouts' = IF sendStartBlockchainTogether THEN timeouts + 1 ELSE timeouts

\* The data processor receives the key of node n; appendPublicKeyToNode
processGenesisBlockBuildMessage(n) ==
  /\ blockchainData[n] > 0
  /\ blockchainData' = [blockchainData EXCEPT ![n] = @ - 1]
  /\ nodesPublicKeys' = [nodesPublicKeys EXCEPT ![n] = @ + 1]
  /\ IF Enough(nodesPublicKeys') THEN sendGenesisBlock(nodesPublicKeys')
                                 ELSE UNCHANGED <<blocks, commands, timeouts>>
  /\ UNCHANGED <<nodeVars, floodVars, sendStartBlockchainTogether, requests, hasty>>

\* The callback of setTimeout
Timeout ==
  /\ timeouts > 0
  /\ timeouts' = timeouts - 1
  /\ sendStartBlockchainRequest
  /\ UNCHANGED <<nodeVars, floodVars, blockchainData, nodesPublicKeys, blocks,
                 sendStartBlockchainTogether, requests>>

-----------------------------------------------------------------------------

Operator ==
  \/ RequestGenesisBlockData
  \/ generateAndStartBlockchain
  \/ RequestStartBlockchain
  \/ stopBlockchain

NodeStep(n) ==
  \/ InitialiseVariables(n)
  \/ ExecuteGenesisBlockBuild(n)
  \/ RetrieveGenesisBlock(n)
  \/ StartBlockchain(n)
  \/ StopBlockchain(n)
  \/ \E m \in underway : ReceiveGenesisBlockBuild(n, m) \/ ReceiveInitCommitment(n, m)

DataProcessor == Timeout \/ \E n \in Nodes : processGenesisBlockBuildMessage(n)

Next == Operator \/ DataProcessor \/ \E n \in Nodes : NodeStep(n) \/ LosePeer(n)

Spec == Init /\ [][Next]_vars

\* The operator need not ask for anything; processes run and queues deliver until
\* nothing is left of what the requests, a bounded number, have caused
FairSpec == Spec /\ WF_vars(DataProcessor \/ \E n \in Nodes : NodeStep(n))

-----------------------------------------------------------------------------

(***************************************************************************)
(* However often the genesis block is asked for, and whenever nodes become *)
(* ready: a node appends at most one genesis block, and all nodes the same.*)
(***************************************************************************)
SameGenesis ==
  \A n, m \in Nodes :
    /\ Len(blockchain[n]) <= 1
    /\ blockchain[n] # <<>> /\ blockchain[m] # <<>> => blockchain[n] = blockchain[m]

(***************************************************************************)
(* Keys are counted, not compared, and one that arrives when the block is  *)
(* built sends it, and the request to start, again.  Asked for once, the   *)
(* block still gives every node its coins exactly once, and unless the     *)
(* operator starts the blockchain as well it is started at most once.      *)
(***************************************************************************)
AskedOnceDoneOnce ==
  builds <= 1 =>
    /\ \A n \in Nodes : \A i \in DOMAIN blockchain[n] :
         blockchain[n][i] = [p \in Nodes |-> 1]
    /\ requests.start = 0 => inits <= 1

(***************************************************************************)
(* A node that is told to generate commitments does not look whether it    *)
(* has the genesis block.  It has, because the start waits for a second:   *)
(* unless that was too short, or the operator did not wait as long.        *)
(***************************************************************************)
NobodyStartsBare ==
  ~hasty => \A n \in Nodes : started[n] => blockchain[n] # <<>>

Running == \A n \in Nodes : started[n] /\ blockchain[n] # <<>>

(***************************************************************************)
(* "Generate and start", asked for before the block was built, gets every  *)
(* node the genesis block and started, unless it was too early for a node  *)
(* or a node ended.                                                        *)
(***************************************************************************)
GenerateAndStartWorks ==
  sendStartBlockchainTogether /\ blocks = <<>>
    ~> Running \/ hasty \/ \E n \in Nodes : ~Up(n)

=============================================================================
