-------------------------------- MODULE MCDag --------------------------------
(***************************************************************************)
(* Model-checking instance of Dag: leaders and transactions.  The class of *)
(* a transaction is the first three bits of its hash.                      *)
(***************************************************************************)
EXTENDS Dag

CONSTANTS n1, n2

\* Each half has a leader of its own
Halves(col, row) == IF row < 4 THEN n1 ELSE n2

\* Each node leads rows on both sides of every merge
Alternating(col, row) == IF (row \div 4 + row \div 2 + row + col) % 2 = 0 THEN n1 ELSE n2

Tx(class, k) == <<class * 2 ^ (hashHexLen - 3), k>>

\* One part of the DAG grows to its full depth while another stays shallow
DeepPacks == {{Tx(0, 1), Tx(0, 2), Tx(1, 1)}, {Tx(4, 1)}}

\* A transaction in each half of the hash range
OnePack == {{Tx(0, 1), Tx(5, 1)}}

(***************************************************************************)
(* The order of a chain matters only for the blocks that later searches of *)
(* decideAction can meet.  Which ones these are is known from them and     *)
(* from the blocks to come, so that states that differ in nothing else     *)
(* behave alike.                                                           *)
(***************************************************************************)
Visible(n) ==
  {blockchain[n][i] : i \in {j \in DOMAIN blockchain[n] :
     /\ blockchain[n][j].col >= absRound[n]
     /\ \A k \in j + 1 .. Len(blockchain[n]) : blockchain[n][k].col >= blockchain[n][j].col}}

UpToOrder ==
  <<sent, packs, net, [n \in Nodes |-> <<BlocksOf(n), Visible(n)>>], mempool, absRound, plan,
    included, appended>>
=============================================================================
