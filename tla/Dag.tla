--------------------------------- MODULE Dag ---------------------------------
(***************************************************************************)
(* The DAG of blocks: dag.go, the block slots of blockGenerationSchedule,  *)
(* createBlock, processBlock and the mempool.                              *)
(*                                                                         *)
(* Once per slot every node decides for each of DAG_PARALLEL_LEN rows what *)
(* happens to the branch there (SKIP, SPLIT, MERGE, CONTINUE), and creates *)
(* the blocks of the rows it leads.  A block of depth d in row r takes the *)
(* transactions whose hash begins with the d bits of r.                    *)
(*                                                                         *)
(* A block is named by its column and row; who leads a row is decided by   *)
(* CommitmentEpoch, and a block whose commitment is in the running bucket  *)
(* passes all checks of processBlock.                                      *)
(***************************************************************************)
EXTENDS Integers, Sequences, FiniteSets, FiniteSetsExt

CONSTANTS
  Nodes,         \* the nodes of the network
  Leader(_,_),   \* Leader(col, row): the node that leads a row of a column
  ParallelLen,   \* DAG_PARALLEL_LEN
  dagMaxDepth,   \* logBase2(DAG_PARALLEL_LEN)
  TxPerBlock,    \* PROCESSED_TX_PER_BLOCK
  MinTxToSplit,  \* MIN_TX_TO_SPLIT
  MinTxToMerge,  \* MIN_TX_TO_MERGE
  GenesisTxs,    \* number of transactions of the genesis block
  Packs,         \* the transaction packs the operator sends
  MaxLate,       \* bound on the slots a block is late: 0 when it arrives before the next
  PacksInTime,   \* TRUE: a pack arrives everywhere between two slots; FALSE: MaxLate bounds it
  Preemptive,    \* FALSE: a block's handling is not interrupted between its mutexes
  LastPack,      \* bound on the column after which packs are sent
  MaxCol         \* bound on columns

Rows == 0 .. ParallelLen - 1
Cols == 1 .. MaxCol

\* DAG_PARALLEL_LEN / (1 << depth): the rows of a branch of this depth
Span[depth \in 0 .. dagMaxDepth + 1] == IF depth = 0 THEN ParallelLen ELSE Span[depth - 1] \div 2

hashHexLen == 16

\* A transaction is its HashMask and a number that tells it from others
Txs == UNION Packs

ASSUME DagAssumption ==
  /\ IsFiniteSet(Nodes)
  /\ ParallelLen \in Nat /\ dagMaxDepth \in Nat
  /\ \A depth \in 1 .. dagMaxDepth : Span[depth - 1] % 2 = 0
  /\ Span[dagMaxDepth] = 1
  /\ TxPerBlock \in Nat \ {0} /\ MinTxToSplit \in Nat \ {0} /\ MinTxToMerge \in Nat \ {0}
  /\ GenesisTxs \in Nat \ {0} /\ LastPack \in Nat /\ MaxCol \in Nat
  /\ MaxLate \in Nat /\ PacksInTime \in BOOLEAN /\ Preemptive \in BOOLEAN
  /\ Packs \subseteq SUBSET ((0 .. 2 ^ hashHexLen - 1) \X Nat)
  /\ \A c \in Cols, r \in Rows : Leader(c, r) \in Nodes

VARIABLES
  sent,        \* packs sent by the data processor
  packs,       \* per node: packs in its command queue
  net,         \* per node: blocks broadcast and not delivered
  blockchain,  \* per node: blocks in order of arrival
  mempool,     \* per node
  absRound,    \* per node: slots begun
  plan,        \* per node: blocks to create in the current slot
  included,    \* per node: transactions selected for the next of them, if they are
  appended     \* per node: blocks in the blockchain whose transactions are not yet removed

vars == <<sent, packs, net, blockchain, mempool, absRound, plan, included, appended>>

None == <<>>
Position == (0 .. MaxCol) \X Rows

Block == [col : 0 .. MaxCol, row : Rows, depth : 0 .. dagMaxDepth, txs : SUBSET Txs,
          parent : Position \cup {None}, second : Position \cup {None}]

Genesis == [col |-> 0, row |-> 0, depth |-> 0, txs |-> {}, parent |-> None, second |-> None]

\* A block of which the transactions are still to be chosen
Planned == {b \in Block : b.txs = {}}

TypeOK ==
  /\ sent \subseteq Packs
  /\ packs \in [Nodes -> SUBSET Packs]
  /\ net \in [Nodes -> SUBSET Block]
  /\ blockchain \in [Nodes -> Seq(Block)]
  /\ mempool \in [Nodes -> SUBSET Txs]
  /\ absRound \in [Nodes -> 0 .. MaxCol]
  /\ plan \in [Nodes -> SUBSET Planned]
  /\ included \in [Nodes -> {<<>>} \cup {<<txs>> : txs \in SUBSET Txs}]
  /\ appended \in [Nodes -> SUBSET Block]

Init ==
  /\ sent = {}
  /\ packs = [n \in Nodes |-> {}]
  /\ net = [n \in Nodes |-> {}]
  /\ blockchain = [n \in Nodes |-> <<Genesis>>]
  /\ mempool = [n \in Nodes |-> {}]
  /\ absRound = [n \in Nodes |-> 0]
  /\ plan = [n \in Nodes |-> {}]
  /\ included = [n \in Nodes |-> <<>>]
  /\ appended = [n \in Nodes |-> {}]

-----------------------------------------------------------------------------
(* dag.go *)

\* Mutant: the branch is told by the last bits of the index
doesTxBelongToIndex_LastBits(hashMask, depth, index) ==
  (hashMask \div 2 ^ (hashHexLen - dagMaxDepth)) % 2 ^ depth = index % 2 ^ depth

\* mask >> (hashHexLen - i - 1) and HashMask >> (hashHexLen - i - 1) are equal;
\* the shift by hashHexLen - 3 is the one of the code, whatever dagMaxDepth is
doesTxBelongToIndex(hashMask, depth, index) ==
  IF depth = 0 THEN index = 0
  ELSE LET mask == index * 2 ^ (hashHexLen - 2 - 1)
       IN  \A i \in 0 .. depth - 1 :
             mask \div 2 ^ (hashHexLen - i - 1) = hashMask \div 2 ^ (hashHexLen - i - 1)

\* Mutant: the halves of a branch are taken for those of its parent
getSplitSecondIndex_Unshifted(index, depth) ==
  index + Span[(IF depth = 0 THEN dagMaxDepth ELSE depth) + 1]

getSplitSecondIndex(index, depth) ==
  index + Span[(IF depth = 0 THEN dagMaxDepth ELSE depth - 1) + 1]

\* The smallest depth at which a branch in the row is the first of two halves
FirstHalfDepth(index) ==
  CASE index = 0                             -> 1
    [] index # 0 /\ index % 32 = 0           -> dagMaxDepth - 4
    [] index % 32 # 0 /\ index % 16 = 0      -> dagMaxDepth - 3
    [] index % 16 # 0 /\ index % 8 = 0       -> dagMaxDepth - 2
    [] index % 8 # 0 /\ index % 4 = 0        -> dagMaxDepth - 1
    [] index % 4 # 0                         -> dagMaxDepth

\* Mutant: every branch in an even row is the first of two halves
getMergeSecondIndex_AnyDepth(index, depth) ==
  IF depth = 0 \/ index % 2 # 0 THEN -1 ELSE getSplitSecondIndex(index, depth)

getMergeSecondIndex(index, depth) ==
  IF depth = 0 \/ index % 2 # 0 \/ depth < FirstHalfDepth(index)
  THEN -1 ELSE getSplitSecondIndex(index, depth)

\* len(Transactions): the reward transaction is included
TxCount(b) == IF b.col = 0 THEN GenesisTxs ELSE Cardinality(b.txs) + 1

\* The backward search of decideAction: it ends at a block of a lower column
Found(chain, col, row) ==
  {chain[i] : i \in {j \in DOMAIN chain :
     /\ chain[j].col = col /\ chain[j].row = row
     /\ \A k \in j + 1 .. Len(chain) : chain[k].col >= col}}

\* Mutant: the greatest depth is no limit
Splittable_AnyDepth(b) == TxCount(b) >= MinTxToSplit

Splittable(b) == TxCount(b) >= MinTxToSplit /\ b.depth < dagMaxDepth

\* Mutant: a branch merges with one that has split further
Mergeable_AnyDepth(b, c) == TxCount(b) + TxCount(c) <= MinTxToMerge

Mergeable(b, c) == b.depth = c.depth /\ TxCount(b) + TxCount(c) <= MinTxToMerge

Skip == [action |-> "SKIP", parent |-> None, second |-> None]

decideAction(chain, row, col) ==
  LET parents == Found(chain, col - 1, row)
      Partners(p) ==
        {c \in Found(chain, col - 1, getMergeSecondIndex(p.row, p.depth)) : Mergeable(p, c)}
      Decided(p) ==
        CASE Splittable(p) -> [action |-> "SPLIT", parent |-> p, second |-> None]
          [] ~Splittable(p) /\ Partners(p) # {} ->
               [action |-> "MERGE", parent |-> p, second |-> CHOOSE c \in Partners(p) : TRUE]
          [] ~Splittable(p) /\ Partners(p) = {} ->
               [action |-> "CONTINUE", parent |-> p, second |-> None]
  IN  IF parents = {} THEN Skip ELSE Decided(CHOOSE p \in parents : TRUE)

-----------------------------------------------------------------------------
(* blockGenerationSchedule *)

(***************************************************************************)
(* The loop over epochActions goes through the rows in order and changes   *)
(* the action of a later row: a merge skips the row it closes, a split     *)
(* marks the row it opens.  A row whose action was changed before the loop *)
(* came to it changes nothing itself.                                      *)
(***************************************************************************)
Target(row, a) ==
  IF a.action = "MERGE" THEN a.second.row ELSE getSplitSecondIndex(row, a.parent.depth + 1)

\* The rows that split or merge when the loop comes to them
Effective(decided) ==
  LET candidates == {row \in Rows : decided[row].action \in {"SPLIT", "MERGE"}}
      Hit(row, E) == \E r \in E : r < row /\ Target(r, decided[r]) = row
  IN  CHOOSE E \in SUBSET candidates : \A row \in candidates : row \in E <=> ~Hit(row, E)

\* The action of a row after the loop, given the rows that changed it
Overwritten(action, by) ==
  LET last == by[Max(DOMAIN by)]
  IN  CASE DOMAIN by = {} -> action
        [] DOMAIN by # {} /\ last.action = "MERGE" -> [action EXCEPT !.action = "SKIP"]
        [] DOMAIN by # {} /\ last.action = "SPLIT" ->
             [action EXCEPT !.action = "SPLIT_SND", !.parent = last.parent]

epochActions(decided, effective) ==
  LET Hits(row) == {r \in effective : Target(r, decided[r]) = row}
  IN  [row \in Rows |-> Overwritten(decided[row], [r \in Hits(row) |-> decided[r]])]

At(b) == IF b = None THEN None ELSE <<b.col, b.row>>

Depth(a) ==
  CASE a.action = "CONTINUE"              -> a.parent.depth
    [] a.action \in {"SPLIT", "SPLIT_SND"} -> a.parent.depth + 1
    [] a.action = "MERGE"                 -> a.parent.depth - 1

\* The blocks node n has to create in a column
Assigned(n, col, actions) ==
  LET NewBlock(row) ==
        [col |-> col, row |-> row, depth |-> Depth(actions[row]), txs |-> {},
         parent |-> At(actions[row].parent), second |-> At(actions[row].second)]
      Mine(row) == actions[row].action # "SKIP" /\ Leader(col, row) = n
  IN  {NewBlock(row) : row \in {r \in Rows : Mine(r)}}

\* They are created in the order of the rows
NextBlock(n) == CHOOSE b \in plan[n] : \A c \in plan[n] : b.row <= c.row

\* Every node has taken the same slots and has all blocks of them
BetweenSlots ==
  \A n, m \in Nodes :
    absRound[n] = absRound[m] /\ plan[n] = {} /\ net[n] = {} /\ appended[n] = {}

\* Something else may begin
MayBegin == Preemptive \/ \A n \in Nodes : included[n] = <<>> /\ appended[n] = {}

\* The block that node n is creating, once it is in its blockchain
Created(n) == {b \in appended[n] : Leader(b.col, b.row) = n}

(***************************************************************************)
(* The nodes' clocks agree well enough (TimeSync), and creating blocks     *)
(* takes little of a slot: no node begins a slot while another one is in   *)
(* an earlier one.  Blocks and packs may still be on their way, a pack     *)
(* MaxLate slots beyond the one after LastPack.                            *)
(***************************************************************************)
SlotBegins(n) ==
  /\ absRound[n] < MaxCol
  /\ \A m \in Nodes : \/ (absRound[m] = absRound[n] /\ plan[m] = {} /\ Created(m) = {})
                       \/ absRound[m] = absRound[n] + 1
  /\ \A m \in Nodes : \A b \in net[m] \cup appended[m] : b.col > absRound[n] - MaxLate
  /\ \A m \in Nodes : packs[m] = {} \/ (~PacksInTime /\ absRound[n] <= LastPack + MaxLate)

\* absRound is counted here, not at the end of the slot: nothing reads it in between
DecideActions(n) ==
  /\ SlotBegins(n)
  /\ absRound' = [absRound EXCEPT ![n] = @ + 1]
  /\ \E decided \in {[row \in Rows |-> decideAction(blockchain[n], row, absRound[n] + 1)]} :
       LET actions == epochActions(decided, Effective(decided))
       IN  plan' = [plan EXCEPT ![n] = Assigned(n, absRound[n] + 1, actions)]
  /\ UNCHANGED <<sent, packs, net, blockchain, mempool, included, appended>>

\* What the loop over the mempool finds, under mempoolMutex
SelectTransactions(n) ==
  /\ plan[n] # {} /\ included[n] = <<>> /\ Created(n) = {}
  /\ LET b == NextBlock(n)
     IN  included' = [included EXCEPT ![n] =
           <<{tx \in mempool[n] : doesTxBelongToIndex(tx[1], b.depth, b.row)}>>]
  /\ UNCHANGED <<sent, packs, net, blockchain, mempool, absRound, plan, appended>>

\* As many of them as fit, in the order of a Go map: any
Limited(txs) ==
  LET count == IF Cardinality(txs) > TxPerBlock THEN TxPerBlock ELSE Cardinality(txs)
  IN  {some \in SUBSET txs : Cardinality(some) = count}

\* Mutant: only the creator of a block removes its transactions
Remaining_Received(n, b) == IF Leader(b.col, b.row) = n THEN mempool[n] \ b.txs ELSE mempool[n]

\* The mempool once a block is in the blockchain
Remaining(n, b) == mempool[n] \ b.txs

\* Under blockchainMutex
AppendBlock(n, b) ==
  /\ blockchain' = [blockchain EXCEPT ![n] = Append(@, b)]
  /\ appended' = [appended EXCEPT ![n] = @ \cup {b}]

\* Under mempoolMutex
RemoveTransactions(n, b) ==
  /\ b \in appended[n]
  /\ appended' = [appended EXCEPT ![n] = @ \ {b}]
  /\ mempool' = [mempool EXCEPT ![n] = Remaining(n, b)]

CreateBlock(n) ==
  /\ included[n] # <<>>
  /\ \E txs \in Limited(included[n][1]) : AppendBlock(n, [NextBlock(n) EXCEPT !.txs = txs])
  /\ plan' = [plan EXCEPT ![n] = @ \ {NextBlock(n)}]
  /\ included' = [included EXCEPT ![n] = <<>>]
  /\ UNCHANGED <<sent, packs, net, mempool, absRound>>

\* The end of createBlock, and the message to the others
BroadcastBlock(n, b) ==
  /\ b \in Created(n)
  /\ RemoveTransactions(n, b)
  /\ net' = [m \in Nodes |-> IF m = n THEN net[m] ELSE net[m] \cup {b}]
  /\ UNCHANGED <<sent, packs, blockchain, absRound, plan, included>>

-----------------------------------------------------------------------------
(* Blocks and transactions of others *)

\* processBlock: a missing parent is logged and does not matter
ReceiveBlock(n, b) ==
  /\ b \in net[n]
  /\ AppendBlock(n, b)
  /\ net' = [net EXCEPT ![n] = @ \ {b}]
  /\ UNCHANGED <<sent, packs, mempool, absRound, plan, included>>

EndReceiveBlock(n, b) ==
  /\ b \notin Created(n)
  /\ RemoveTransactions(n, b)
  /\ UNCHANGED <<sent, packs, net, blockchain, absRound, plan, included>>

\* The operator's transactions go into the command queue of every node
SendTransactionPack(pack) ==
  /\ pack \notin sent
  /\ \E n \in Nodes : absRound[n] <= LastPack
  /\ PacksInTime => BetweenSlots
  /\ sent' = sent \cup {pack}
  /\ packs' = [n \in Nodes |-> packs[n] \cup {pack}]
  /\ UNCHANGED <<net, blockchain, mempool, absRound, plan, included, appended>>

\* GATHER_TRANSACTION_PACK
GatherTransactionPack(n, pack) ==
  /\ pack \in packs[n]
  /\ packs' = [packs EXCEPT ![n] = @ \ {pack}]
  /\ mempool' = [mempool EXCEPT ![n] = @ \cup pack]
  /\ UNCHANGED <<sent, net, blockchain, absRound, plan, included, appended>>

-----------------------------------------------------------------------------

\* A goroutine goes on from one mutex to the next
Continue(n) ==
  \/ CreateBlock(n)
  \/ \E b \in appended[n] : BroadcastBlock(n, b) \/ EndReceiveBlock(n, b)

Begin(n) ==
  \/ DecideActions(n)
  \/ SelectTransactions(n)
  \/ \E b \in net[n] : ReceiveBlock(n, b)
  \/ \E pack \in packs[n] : GatherTransactionPack(n, pack)

Next ==
  \/ \E n \in Nodes : Continue(n)
  \/ MayBegin /\ \E n \in Nodes : Begin(n)
  \/ MayBegin /\ \E pack \in Packs : SendTransactionPack(pack)

Spec == Init /\ [][Next]_vars

-----------------------------------------------------------------------------

BlocksOf(n) == {blockchain[n][i] : i \in DOMAIN blockchain[n]}

\* One hash mask of every branch of greatest depth
Branches == {r * 2 ^ (hashHexLen - dagMaxDepth) : r \in Rows}

(***************************************************************************)
(* In a network that is in time the blocks of a column share out the       *)
(* transactions: whatever the branches did, each transaction belongs to    *)
(* exactly one of them.                                                    *)
(***************************************************************************)
BranchesPartition ==
  BetweenSlots =>
    \A n \in Nodes : \A mask \in Branches :
      Cardinality({b \in BlocksOf(n) :
        b.col = absRound[n] /\ doesTxBelongToIndex(mask, b.depth, b.row)}) = 1

(***************************************************************************)
(* In a network that is in time no transaction is in two blocks of the     *)
(* DAG, and none that is in a block comes back to a mempool.               *)
(***************************************************************************)
TxOnce ==
  \A n \in Nodes : \A b, c \in BlocksOf(n) : b.txs \cap c.txs # {} => b = c

(***************************************************************************)
(* Under every schedule of deliveries a block of depth d lies in a row     *)
(* that is a multiple of DAG_PARALLEL_LEN / 2^d: the rows computed for     *)
(* splits and merges stay inside the DAG.                                  *)
(***************************************************************************)
RowsAligned ==
  \A n \in Nodes : \A b \in BlocksOf(n) : b.row % Span[b.depth] = 0

Branch(b) == {mask \in Branches : doesTxBelongToIndex(mask, b.depth, b.row)}

\* The branches of a block's parents
Covered(blocks, b) ==
  UNION {Branch(p) : p \in {q \in blocks : At(q) \in {b.parent, b.second}}}

(***************************************************************************)
(* Under every schedule of deliveries the parents of a block cover its     *)
(* branch: whatever a leader missed when it decided to continue, split or  *)
(* merge, no part of the hash range it serves is one that no block before  *)
(* it served.  When blocks are late other branches of the column before    *)
(* may overlap it as well; they need not be among its ancestors.           *)
(***************************************************************************)
ParentsCover ==
  LET blocks == UNION {BlocksOf(n) : n \in Nodes}
  IN  \A b \in blocks : b.col > 0 => Branch(b) \subseteq Covered(blocks, b)

(***************************************************************************)
(* In a network that is in time every transaction is in a block by column  *)
(* MaxCol, when the packs are sent by column LastPack, although branches   *)
(* split and merge meanwhile: none is left in a part of the hash range     *)
(* that no branch serves.                                                  *)
(***************************************************************************)
EveryTxIncluded ==
  BetweenSlots /\ (\A n \in Nodes : absRound[n] = MaxCol) =>
    \A n \in Nodes : \A tx \in UNION sent \ UNION packs[n] :
      \E b \in BlocksOf(n) : tx \in b.txs

=============================================================================
