--------------------------- MODULE CommitmentProof ---------------------------
(***************************************************************************)
(* What the distributed keys are for (zkp.go): a node commits to a round   *)
(* with a zero-knowledge proof that it holds the private key of one of     *)
(* them, given by a path in the Merkle tree that its PUB_KEY_EXCHANGE      *)
(* handler built; the others check the proof with isCommitmentValid.       *)
(*                                                                         *)
(* Hashes and signatures are the terms of what they are computed from, a   *)
(* formatted number is the number (ten digits hold an uint32, five the     *)
(* variants that init.py accepts), base64 is read as it was written.       *)
(***************************************************************************)
EXTENDS KeyExchange

CONSTANTS
  Size,        \* PUB_KEY_MERKLE_TREE_SIZE
  Depth,       \* PUB_KEY_MERKLE_TREE_DEPTH
  EpochRounds, \* rounds that commitments are made for
  MinVariant,  \* MIN_COMMITMENT_VAR
  MaxVariant   \* MAX_COMMITMENT_VAR

\* The number of hashes in a level: half of those below it
Width[l \in 0 .. Depth] == IF l = 0 THEN Size ELSE Width[l - 1] \div 2

\* 512 leaves are halved nine times, down to the root
ASSUME TreeAssumption ==
  /\ Size \in Nat /\ Depth \in Nat
  /\ \A l \in 1 .. Depth : Width[l - 1] % 2 = 0
  /\ Width[Depth] = 1
  /\ Nodes \subseteq Nat \ {0} /\ numOfNodes <= Size
  /\ EpochRounds \subseteq Nat /\ MinVariant \in Nat /\ MaxVariant \in Nat

-----------------------------------------------------------------------------
(***************************************************************************)
(* The Merkle tree over a set of keys.                                     *)
(***************************************************************************)
PairHash(left, right) == <<left, right>>

\* The place of a key among the sorted ones
Place(keys, n) == Cardinality({k \in keys : k < n})

\* The keys in order, then "0"
LeafHashes(keys) ==
  [i \in 0 .. Size - 1 |->
     <<"leaf", IF \E n \in keys : Place(keys, n) = i
               THEN CHOOSE n \in keys : Place(keys, n) = i ELSE 0>>]

Levels(keys) ==
  LET level[l \in 0 .. Depth] ==
        IF l = 0 THEN LeafHashes(keys)
        ELSE [i \in 0 .. Width[l] - 1 |->
                PairHash(level[l - 1][2 * i], level[l - 1][2 * i + 1])]
  IN  level

pubMerkleTreeRoot(keys) == Levels(keys)[Depth][0]

pubKeyLeafIndex(keys, n) ==
  CHOOSE i \in 0 .. Size - 1 : LeafHashes(keys)[i] = <<"leaf", n>>

\* idx ^ 1
Sibling(i) == IF i % 2 = 0 THEN i + 1 ELSE i - 1

\* idx in the rounds of the loop: idx >>= 1
PathIndex(keys, n) ==
  LET idx[i \in 0 .. Depth] == IF i = 0 THEN pubKeyLeafIndex(keys, n) ELSE idx[i - 1] \div 2
  IN  idx

PathNodes(keys, n) ==
  [i \in 0 .. Depth - 1 |-> Levels(keys)[i][Sibling(PathIndex(keys, n)[i])]]

\* Mutant: the bit of the leaf is taken at every level
PathIndices_Unshifted(keys, n) == [i \in 0 .. Depth - 1 |-> pubKeyLeafIndex(keys, n) % 2]

PathIndices(keys, n) == [i \in 0 .. Depth - 1 |-> PathIndex(keys, n)[i] % 2]

\* The loop of the circuit
Climb(leaf, pathNodes, pathIndices) ==
  LET currentNode[i \in 0 .. Depth] ==
        IF i = 0 THEN leaf
        ELSE IF pathIndices[i - 1] = 0 THEN PairHash(currentNode[i - 1], pathNodes[i - 1])
                                       ELSE PairHash(pathNodes[i - 1], currentNode[i - 1])
  IN  currentNode[Depth]

-----------------------------------------------------------------------------
(***************************************************************************)
(* A commitment of node n.  prepareEdDSA signs the round alone, which      *)
(* makes the secret, and the message together with the secret.             *)
(***************************************************************************)
PROTOCOL_VERSION == "1"

Sign(n, data) == <<"signature", n, data>>
Verify(n, data, signature) == signature = Sign(n, data)
SecretOf(signature) == <<"secret", signature>>
Sum(message, secret) == <<"sum", message, secret>>

\* The assignment of the circuit, given the keys in the tree of n
Witness(n, keys, epoch, variant) ==
  LET message == [protocol |-> PROTOCOL_VERSION, epoch |-> epoch, variant |-> variant]
      sigSecret == Sign(n, epoch)
      messageSummed == Sum(message, SecretOf(sigSecret))
  IN  [publicKey |-> n, message |-> message, epochRound |-> epoch,
       secret |-> SecretOf(sigSecret), secretSignature |-> sigSecret,
       messageSummed |-> messageSummed, signature |-> Sign(n, messageSummed),
       leaf |-> LeafHashes(keys)[pubKeyLeafIndex(keys, n)],
       pathNodes |-> PathNodes(keys, n), pathIndices |-> PathIndices(keys, n),
       root |-> pubMerkleTreeRoot(keys)]

\* The constraints of the circuit
Define(w) ==
  /\ w.messageSummed = Sum(w.message, w.secret)
  /\ Verify(w.publicKey, w.epochRound, w.secretSignature)
  /\ Verify(w.publicKey, w.messageSummed, w.signature)
  /\ Climb(w.leaf, w.pathNodes, w.pathIndices) = w.root

\* The variables marked public, in the order of EddsaCircuit
Public(w) ==
  <<<<"R.X", w.signature>>, <<"R.Y", w.signature>>, <<"S", w.signature>>,
    w.message, w.epochRound, w.root>>

\* groth16: a proof is one of a witness that meets the constraints
Prove(w) == [of |-> w]
ProofVerifies(proof, public) == Define(proof.of) /\ Public(proof.of) = public

\* A node that cannot prove its commitment ends with logFatal
generateCommitment(n, keys, epoch, variant) ==
  LET w == Witness(n, keys, epoch, variant) IN [public |-> Public(w), proof |-> Prove(w)]

\* The parts are found by their place
decodePublicWitness(public) ==
  [MessageSigRX |-> public[1], MessageSigRY |-> public[2], MessageSigS |-> public[3],
   Message |-> public[4], EpochRound |-> public[5]]

\* Mutant: the largest variant is refused
VariantValid_Below(variant) == MinVariant <= variant /\ variant < MaxVariant

VariantValid(variant) == MinVariant <= variant /\ variant <= MaxVariant

\* The checks of a node in round epoch; the root is not among them
isCommitmentValid(commitment, epoch) ==
  LET decoded == decodePublicWitness(commitment.public)
  IN  /\ decoded.Message.protocol = PROTOCOL_VERSION
      /\ decoded.Message.epoch = epoch
      /\ decoded.EpochRound = epoch
      /\ VariantValid(decoded.Message.variant)
      /\ ProofVerifies(commitment.proof, commitment.public)

-----------------------------------------------------------------------------

\* The node has a tree, and its leaves were not appended by two handlers at once
HasTree(n) == tree[n] # NoTree /\ leaves[n] # "torn"

(***************************************************************************)
(* The path that a node computed next to its tree climbs to the root of    *)
(* every such tree: a node that proves its membership does it in the tree  *)
(* of the others, wherever its key was sorted and however far the leaves   *)
(* are padded.                                                             *)
(***************************************************************************)
PathLeadsToRoot ==
  \A n, m \in Nodes : HasTree(n) /\ HasTree(m) =>
    Climb(<<"leaf", n>>, PathNodes(tree[n], n), PathIndices(tree[n], n))
      = pubMerkleTreeRoot(tree[m])

(***************************************************************************)
(* What a node with such a tree generates, for whatever round and variant, *)
(* is accepted by the nodes that are in this round, and by no node in      *)
(* another one.                                                            *)
(***************************************************************************)
AcceptedInItsRound ==
  \A n \in Nodes : HasTree(n) =>
    \A made, now \in EpochRounds, variant \in MinVariant .. MaxVariant :
      isCommitmentValid(generateCommitment(n, tree[n], made, variant), now) <=> made = now

=============================================================================
