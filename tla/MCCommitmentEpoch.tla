------------------------- MODULE MCCommitmentEpoch -------------------------
(***************************************************************************)
(* Constants of CommitmentEpoch for TLC.  Nodes are numbered from 1, which *)
(* gives commitments an order; sorting keeps it, and two other fixed       *)
(* orders of the same set stand for the shuffles of the two seeds.         *)
(***************************************************************************)
EXTENDS CommitmentEpoch, SequencesExt

\* All commitments in lexical order, by the digits of their position
AllSorted ==
  [k \in 1 .. Cardinality(Commitments) |->
     << ((k - 1) \div (MaxCopies * MaxVar * MaxRound)) + 1,
        ((k - 1) \div (MaxCopies * MaxVar)) % MaxRound,
        (((k - 1) \div MaxCopies) % MaxVar) + 1,
        ((k - 1) % MaxCopies) + 1 >>]

Sorted(S) == SelectSeq(AllSorted, LAMBDA c : c \in S)

MCArrange(seed, S) ==
  CASE seed = "sorted"  -> Sorted(S)
    [] seed = "genesis" -> Reverse(Sorted(S))
    [] seed = "key"     -> IF S = {} THEN <<>> ELSE Tail(Sorted(S)) \o <<Head(Sorted(S))>>

(***************************************************************************)
(* A later starting state, for three nodes and one variant: the            *)
(* commitments of round 0 have arrived everywhere.  Node 1 generated its   *)
(* own last, so that it shuffled and hashed the bucket then; the others    *)
(* only sorted theirs, and node 3 has not yet compared the round of one    *)
(* that it got.                                                            *)
(***************************************************************************)
CollectedStage(n) ==
  LET bucket == Sorted(Expected(0))
      stage == [EmptyStage EXCEPT !.sub = {c \in Expected(0) : c[1] = n},
                                  !.bucket = bucket, !.map = Range(bucket)]
  IN  IF n = 1 THEN Shuffled(stage, FALSE) ELSE stage

CollectedInit ==
  /\ net = [n \in Nodes |-> {}]
  /\ starts = MaxStarts
  /\ sentChecks = 0
  /\ alive = [n \in Nodes |-> TRUE]
  /\ commitmentGenEpochRound = [n \in Nodes |-> 0]
  /\ commitmentRoundMutex = [n \in Nodes |-> FALSE]
  /\ epochRoundsGenerated = [n \in Nodes |-> <<0>>]
  /\ bucketHashesCheck = [n \in Nodes |-> <<>>]
  /\ dev = [n \in Nodes |-> CollectedStage(n)]
  /\ rdy = [n \in Nodes |-> EmptyStage]
  /\ run = [n \in Nodes |-> EmptyStage]
  /\ rdyEpochRound = [n \in Nodes |-> 0]
  /\ runEpochRound = [n \in Nodes |-> 0]
  /\ handlers = [n \in Nodes |-> IF n = 3
       THEN {[thread |-> "stream", pc |-> "round", round |-> 0, c |-> <<1, 0, 1, 1>>]}
       ELSE {}]
  /\ passes = [n \in Nodes |-> {}]
  /\ generators = [n \in Nodes |-> {[pc |-> "info", round |-> 0, copy |-> 1, i |-> 1]}]
  /\ announcing = [n \in Nodes |-> {}]
  /\ sched = [n \in Nodes |-> "idle"]
  /\ slot = [n \in Nodes |-> 0]
  /\ absRound = [n \in Nodes |-> 0]
  /\ leads = {}
  /\ due = {}

CollectedSpec == CollectedInit /\ [][Next]_vars
=============================================================================
