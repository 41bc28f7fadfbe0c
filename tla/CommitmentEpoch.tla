--------------------------- MODULE CommitmentEpoch ---------------------------
(***************************************************************************)
(* The secret leader election of node-implementation/p2p_communication.go. *)
(*                                                                         *)
(* Every node generates MAX_COMMITMENT_VAR hidden commitments per epoch    *)
(* round and broadcasts them; every node collects all of them in a bucket, *)
(* shuffles the bucket with a seed all nodes share, compares the hash of   *)
(* the result with the other nodes (BUCKET_CHECK) and passes the bucket    *)
(* from the epoch-dev to the epoch-ready to the epoch-running variables.   *)
(* A node leads block slot i of the running epoch when position i of the   *)
(* running bucket holds one of its own commitments.                        *)
(*                                                                         *)
(* A step of this specification is what one goroutine does between two     *)
(* points where another one can get in: a mutex, a sleep, the slow ZKP     *)
(* verification, the end of a handler.  A node reads its peers' streams in *)
(* as many goroutines as it has peers; a sleeping handler keeps its stream *)
(* busy.  Messages are delivered in any order and at most once (gossip).   *)
(*                                                                         *)
(* Data abstractions: a commitment is the tuple <<author, epoch round,     *)
(* variant, copy>>, a bucket hash is the hashed sequence itself.           *)
(***************************************************************************)
EXTENDS Integers, Sequences, FiniteSets, Functions

CONSTANTS
  Nodes,        \* the nodes of the network, numOfNodes of them
  Starter,      \* the node that is given the START_BLOCKCHAIN command
  MaxVar,       \* MAX_COMMITMENT_VAR, with MIN_COMMITMENT_VAR = 1
  ParallelLen,  \* DAG_PARALLEL_LEN
  EpochRounds,  \* EPOCH_SIZE_ROUNDS, EPOCH_SIZE = ParallelLen * EpochRounds
  Preemptive,   \* FALSE: a goroutine runs to its next sleep without interruption
  Timely,       \* TRUE: the sleeps outlast message delays and handlers
  Arrange(_,_), \* Arrange(seed, S): S sorted, or sorted and then shuffled
  MaxStarts,    \* bound on START_BLOCKCHAIN commands
  MaxRound,     \* bound on epoch rounds: the last one is not generated for
  MaxCopies,    \* bound on generations of one round by one node
  MaxChecks,    \* bound on BUCKET_CHECK broadcasts
  MaxTicks      \* bound on block slots of one node

N == Cardinality(Nodes)

\* Length of a complete bucket
Capacity == MaxVar * N

Rounds == 0 .. MaxRound

Commitments == Nodes \X (0 .. MaxRound - 1) \X (1 .. MaxVar) \X (1 .. MaxCopies)

NoCommitment == <<>>

\* "sorted": sort.Strings; "genesis", "key": sorted, then shuffled with the
\* seed of the genesis block or of RANDOM_SHUFFLE_HEX
Seeds == {"sorted", "genesis", "key"}

ASSUME NodesAssumption == IsFiniteSet(Nodes) /\ Starter \in Nodes /\ N \in Nat \ {0}

ASSUME BoundsAssumption ==
  /\ MaxVar \in Nat \ {0} /\ ParallelLen \in Nat \ {0} /\ EpochRounds \in Nat \ {0}
  /\ MaxRound \in Nat /\ MaxCopies \in Nat /\ MaxChecks \in Nat /\ MaxTicks \in Nat
  /\ MaxStarts \in Nat /\ Timely \in BOOLEAN /\ Preemptive \in BOOLEAN

\* Sorting and shuffling depend on the elements and the seed only
ASSUME ArrangeAssumption ==
  \A seed \in Seeds, S \in SUBSET Commitments :
    /\ Arrange(seed, S) \in Seq(S)
    /\ Len(Arrange(seed, S)) = Cardinality(S)
    /\ Range(Arrange(seed, S)) = S

VARIABLES
  net,                     \* per node: messages broadcast but not yet delivered
  starts,                  \* START_BLOCKCHAIN commands so far
  sentChecks,              \* BUCKET_CHECK broadcasts so far
  alive,                   \* per node: FALSE after a fatal error
  commitmentGenEpochRound, \* per node
  commitmentRoundMutex,    \* per node: TRUE when a handler returned with it locked
  epochRoundsGenerated,    \* per node
  bucketHashesCheck,       \* per node
  dev, rdy, run,           \* per node: epoch-dev, epoch-ready, epoch-running variables
  rdyEpochRound, runEpochRound,
  handlers,                \* per node: COMMITMENT and INIT_COMMITMENT handlers in progress
  passes,                  \* per node: BUCKET_CHECK handlers that got the last hash
  generators,              \* per node: commitment generating goroutines
  announcing,              \* per node: INIT_BUCKET_INFO handlers asleep before BUCKET_CHECK
  sched, slot, absRound,   \* per node: blockGenerationSchedule
  leads,                   \* history: who led which block slot with which commitment
  due                      \* sleeps that are over (when Timely)

networkVars  == <<net, starts, sentChecks>>
roundVars    == <<commitmentGenEpochRound, commitmentRoundMutex>>
stageVars    == <<rdy, run, rdyEpochRound, runEpochRound>>
threadVars   == <<handlers, passes, generators, announcing>>
scheduleVars == <<sched, slot, absRound, leads>>

vars == <<networkVars, alive, roundVars, epochRoundsGenerated, bucketHashesCheck,
          dev, stageVars, threadVars, scheduleVars, due>>

-----------------------------------------------------------------------------
(* Values *)

\* bucketHash = "" and the hash of a bucket
NoHash == <<>>
Hash(bucket) == <<bucket>>
Hashes == {h \in Seq(Seq(Commitments)) : Len(h) <= 1}

Stage == [sub : SUBSET Commitments, bucket : Seq(Commitments), map : SUBSET Commitments,
          hash : Hashes, pos : SUBSET Nat]

EmptyStage == [sub |-> {}, bucket |-> <<>>, map |-> {}, hash |-> NoHash, pos |-> {}]

InitMessage == [type : {"init"}, round : Rounds, id : Nat]
CommitmentMessage == [type : {"commitment"}, round : Rounds, c : Commitments]
CheckMessage == [type : {"check"}, round : Rounds, src : Nodes, id : Nat,
                 hash : Hashes, len : Nat]
Messages == InitMessage \cup CommitmentMessage \cup CheckMessage

Threads == {"stream", "command", "scheduler"}

\* An INIT_COMMITMENT handler has no commitment
Handler ==
  [thread : Threads, pc : {"insert", "round"}, round : Rounds, c : Commitments]
    \cup [thread : Threads, pc : {"once", "mark"}, round : Rounds,
          c : Commitments \cup {NoCommitment}]

\* "pause" and "next" are sleeps of four seconds
Pass == [pc : {"running", "pause", "copy", "rest", "bump", "clear", "reset", "next"},
         round : Rounds]

\* "info" is the sleep of four seconds before INIT_BUCKET_INFO
Generator == [pc : {"produce", "store", "info"}, round : 0 .. MaxRound - 1,
              copy : 1 .. MaxCopies, i : 1 .. MaxVar]

Announcement == [pc : {"announce"}, round : Rounds, hash : Hashes, len : Nat]

\* The two sleeps of the block schedule: until the next slot, after the last slot
SlotSleep == [pc |-> "slot"]
EndSleep == [pc |-> "end"]

Lead == [col : Nat, row : Nat, node : Nodes, c : Commitments]

-----------------------------------------------------------------------------
(* Scheduling *)

\* The peers whose streams node n reads, one goroutine each
Streams == N - 1

StreamFree(n) ==
  Cardinality({h \in handlers[n] : h.thread = "stream"}) + Cardinality(passes[n]) < Streams

Asleep == {"pause", "next"}

\* Work in progress between two sleeps
Working ==
  \E n \in Nodes : /\ alive[n]
                   /\ \/ handlers[n] # {}
                      \/ \E p \in passes[n] : p.pc \notin Asleep
                      \/ \E g \in generators[n] : g.pc = "store"

MayBegin == Preemptive \/ ~Working

\* The sleeping goroutines, the block schedule apart
Sleepers ==
  UNION {  ({n} \X {p \in passes[n] : p.pc \in Asleep})
      \cup ({n} \X {g \in generators[n] : g.pc = "info"})
      \cup ({n} \X announcing[n])
      \cup (IF sched[n] = "end" THEN {<<n, EndSleep>>} ELSE {})
         : n \in {m \in Nodes : alive[m]} }

SlotSleepers == {<<n, SlotSleep>> : n \in {m \in Nodes : alive[m] /\ sched[m] = "slot"}}

\* A sleep ends at some time, or, in a timely network, once the clock says so
MayWake(s) == MayBegin /\ (Timely => s \in due)

Wake(s) == due' = due \ {s}

\* In a timely network a message takes longer than the clocks of two nodes differ
MayDeliver(n) ==
  /\ alive[n] /\ MayBegin /\ StreamFree(n)
  /\ Timely => \A s \in due : s[2] \notin {SlotSleep, EndSleep}

MayStartSchedule(n) ==
  /\ alive[n] /\ sched[n] = "idle"
  /\ \A m \in Nodes \ {n} : commitmentGenEpochRound[m] >= 2

Quiet ==
  /\ ~Working
  /\ due = {}
  /\ \A n \in Nodes : alive[n] => /\ net[n] = {} \/ ~StreamFree(n)
                                  /\ \A g \in generators[n] : g.pc = "info"
                                  /\ ~MayStartSchedule(n)

(***************************************************************************)
(* The clock of a timely network: once everything awake is done, the four  *)
(* second sleeps that have begun end; when nobody sleeps, the next block   *)
(* slot begins everywhere.                                                 *)
(***************************************************************************)
AdvanceClock ==
  /\ Timely /\ Quiet
  /\ Sleepers # {} \/ SlotSleepers # {}
  /\ due' = IF Sleepers # {} THEN Sleepers ELSE SlotSleepers
  /\ UNCHANGED <<networkVars, alive, roundVars, epochRoundsGenerated, bucketHashesCheck,
                 dev, stageVars, threadVars, scheduleVars>>

-----------------------------------------------------------------------------
(* Network *)

Deliver(n, m) == net' = [net EXCEPT ![n] = @ \ {m}]

Broadcast(n, m) ==
  net' = [k \in Nodes |-> IF k = n THEN net[k] ELSE net[k] \cup {m}]

\* A delivery whose handler broadcasts at once
DeliverAndBroadcast(n, m, answer) ==
  net' = [k \in Nodes |-> IF k = n THEN net[k] \ {m} ELSE net[k] \cup {answer}]

Check(n, round, hash, len) ==
  [type |-> "check", round |-> round, src |-> n, id |-> sentChecks, hash |-> hash, len |-> len]

CountCheck == sentChecks < MaxChecks /\ sentChecks' = sentChecks + 1

-----------------------------------------------------------------------------
(* Bucket *)

initializeBucketSort(bucket) == Arrange("sorted", Range(bucket))

randomBucketShuffle(bucket, fromInit) ==
  CASE fromInit                             -> Arrange("genesis", Range(bucket))
    [] ~fromInit /\ Len(bucket) = Capacity  -> Arrange("key", Range(bucket))
    [] ~fromInit /\ Len(bucket) # Capacity  -> bucket

identifyCommitmentPositions(stage) ==
  [stage EXCEPT !.hash = Hash(stage.bucket),
                !.pos  = {i \in DOMAIN stage.bucket : stage.bucket[i] \in stage.sub}]

\* randomBucketShuffle followed by identifyCommitmentPositions
Shuffled(stage, fromInit) ==
  identifyCommitmentPositions([stage EXCEPT !.bucket = randomBucketShuffle(@, fromInit)])

\* Mutant: the commitment map is filled by the generator only
Inserted_Unmapped(stage, c) == [stage EXCEPT !.bucket = Append(@, c)]

\* A commitment of another node joins the bucket
Inserted(stage, c) ==
  LET bucket == Append(stage.bucket, c)
  IN  [stage EXCEPT !.map = @ \cup {c},
                    !.bucket = IF Len(bucket) = Capacity THEN initializeBucketSort(bucket)
                                                         ELSE bucket]

\* A commitment of the node itself joins the bucket
Stored(stage, c) ==
  LET with == [stage EXCEPT !.map = @ \cup {c}, !.bucket = Append(@, c)]
  IN  IF Len(with.bucket) = Capacity THEN Shuffled(with, FALSE) ELSE with

-----------------------------------------------------------------------------
(* COMMITMENT and INIT_COMMITMENT *)

Init ==
  /\ net = [n \in Nodes |-> {}]
  /\ starts = 0
  /\ sentChecks = 0
  /\ alive = [n \in Nodes |-> TRUE]
  /\ commitmentGenEpochRound = [n \in Nodes |-> 0]
  /\ commitmentRoundMutex = [n \in Nodes |-> FALSE]
  /\ epochRoundsGenerated = [n \in Nodes |-> <<>>]
  /\ bucketHashesCheck = [n \in Nodes |-> <<>>]
  /\ dev = [n \in Nodes |-> EmptyStage]
  /\ rdy = [n \in Nodes |-> EmptyStage]
  /\ run = [n \in Nodes |-> EmptyStage]
  /\ rdyEpochRound = [n \in Nodes |-> 0]
  /\ runEpochRound = [n \in Nodes |-> 0]
  /\ handlers = [n \in Nodes |-> {}]
  /\ passes = [n \in Nodes |-> {}]
  /\ generators = [n \in Nodes |-> {}]
  /\ announcing = [n \in Nodes |-> {}]
  /\ sched = [n \in Nodes |-> "idle"]
  /\ slot = [n \in Nodes |-> 0]
  /\ absRound = [n \in Nodes |-> 0]
  /\ leads = {}
  /\ due = {}

\* An INIT_COMMITMENT handler starts with the generation check
InitHandler(thread, round) ==
  [thread |-> thread, pc |-> "once", round |-> round, c |-> NoCommitment]

Drop(threads, n, t) == [threads EXCEPT ![n] = @ \ {t}]
Swap(threads, n, t, u) == [threads EXCEPT ![n] = (@ \ {t}) \cup {u}]
Go(threads, n, t, pc) == Swap(threads, n, t, [t EXCEPT !.pc = pc])

\* The START_BLOCKCHAIN command; its state guard holds ever after the genesis block
StartBlockchain ==
  /\ starts < MaxStarts /\ alive[Starter] /\ MayBegin
  /\ \A h \in handlers[Starter] : h.thread # "command"
  /\ starts' = starts + 1
  /\ Broadcast(Starter, [type |-> "init", round |-> 0, id |-> starts])
  /\ handlers' = [handlers EXCEPT ![Starter] = @ \cup {InitHandler("command", 0)}]
  /\ UNCHANGED <<sentChecks, alive, roundVars, epochRoundsGenerated, bucketHashesCheck, dev,
                 stageVars, passes, generators, announcing, scheduleVars, due>>

ReceiveInit(n, m) ==
  /\ MayDeliver(n) /\ m.type = "init"
  /\ Deliver(n, m)
  /\ handlers' = [handlers EXCEPT ![n] = @ \cup {InitHandler("stream", m.round)}]
  /\ UNCHANGED <<starts, sentChecks, alive, roundVars, epochRoundsGenerated, bucketHashesCheck,
                 dev, stageVars, passes, generators, announcing, scheduleVars, due>>

\* isCommitmentValid: the proof is of the round the receiver is generating for
isCommitmentValid(n, c) == c[2] = commitmentGenEpochRound[n]

ReceiveCommitment(n, m) ==
  /\ MayDeliver(n) /\ m.type = "commitment"
  /\ Deliver(n, m)
  /\ handlers' = IF isCommitmentValid(n, m.c)
                 THEN [handlers EXCEPT ![n] = @ \cup {[thread |-> "stream", pc |-> "insert",
                                                       round |-> m.round, c |-> m.c]}]
                 ELSE handlers
  /\ UNCHANGED <<starts, sentChecks, alive, roundVars, epochRoundsGenerated, bucketHashesCheck,
                 dev, stageVars, passes, generators, announcing, scheduleVars, due>>

InsertCommitment(n, h) ==
  /\ alive[n] /\ h.pc = "insert"
  /\ IF h.c \in Range(dev[n].bucket)
     THEN handlers' = Drop(handlers, n, h) /\ UNCHANGED dev
     ELSE /\ handlers' = Go(handlers, n, h, "round")
          /\ dev' = [dev EXCEPT ![n] = Inserted(@, h.c)]
  /\ UNCHANGED <<networkVars, alive, roundVars, epochRoundsGenerated, bucketHashesCheck,
                 stageVars, passes, generators, announcing, scheduleVars, due>>

\* Lines 300-305: on a mismatch the handler returns without unlocking
CheckRound(n, h) ==
  /\ alive[n] /\ h.pc = "round" /\ ~commitmentRoundMutex[n]
  /\ IF h.round # commitmentGenEpochRound[n]
     THEN /\ commitmentRoundMutex' = [commitmentRoundMutex EXCEPT ![n] = TRUE]
          /\ handlers' = Drop(handlers, n, h)
     ELSE /\ handlers' = Go(handlers, n, h, "once")
          /\ UNCHANGED commitmentRoundMutex
  /\ UNCHANGED <<networkVars, alive, commitmentGenEpochRound, epochRoundsGenerated,
                 bucketHashesCheck, dev, stageVars, passes, generators, announcing,
                 scheduleVars, due>>

CheckGenerated(n, h) ==
  /\ alive[n] /\ h.pc = "once"
  /\ handlers' = IF h.round \in Range(epochRoundsGenerated[n])
                 THEN Drop(handlers, n, h)
                 ELSE Go(handlers, n, h, "mark")
  /\ UNCHANGED <<networkVars, alive, roundVars, epochRoundsGenerated, bucketHashesCheck, dev,
                 stageVars, passes, generators, announcing, scheduleVars, due>>

Generations(n, round) ==
  Cardinality({i \in DOMAIN epochRoundsGenerated[n] : epochRoundsGenerated[n][i] = round})

MarkGenerated(n, h) ==
  /\ alive[n] /\ h.pc = "mark"
  /\ h.round < MaxRound /\ Generations(n, h.round) < MaxCopies
  /\ epochRoundsGenerated' = [epochRoundsGenerated EXCEPT ![n] = Append(@, h.round)]
  /\ generators' = [generators EXCEPT ![n] = @ \cup
                      {[pc |-> "produce", round |-> h.round,
                        copy |-> Generations(n, h.round) + 1, i |-> 1]}]
  /\ handlers' = Drop(handlers, n, h)
  /\ UNCHANGED <<networkVars, alive, roundVars, bucketHashesCheck, dev, stageVars, passes,
                 announcing, scheduleVars, due>>

\* The commitment that generator g of node n makes next
NextCommitment(n, g) == <<n, g.round, g.i, g.copy>>

\* A generated commitment is first remembered with its secret ...
ProduceCommitment(n, g) ==
  /\ alive[n] /\ g.pc = "produce" /\ MayBegin
  /\ dev' = [dev EXCEPT ![n].sub = @ \cup {NextCommitment(n, g)}]
  /\ generators' = Go(generators, n, g, "store")
  /\ UNCHANGED <<networkVars, alive, roundVars, epochRoundsGenerated, bucketHashesCheck,
                 stageVars, handlers, passes, announcing, scheduleVars, due>>

\* Mutant: one variant too many
MoreVariants_OffByOne(i) == i <= MaxVar

MoreVariants(i) == i < MaxVar

\* len(blockchain) == 1: true before the first slot, afterwards until a block arrives
OnlyGenesis ==
  IF \A n \in Nodes : absRound[n] = 0 THEN {TRUE}
  ELSE IF Timely THEN {FALSE} ELSE BOOLEAN

\* ... and then put into the bucket and broadcast; the last one is followed by a sleep
StoreCommitment(n, g) ==
  /\ alive[n] /\ g.pc = "store"
  /\ dev' = [dev EXCEPT ![n] = Stored(@, NextCommitment(n, g))]
  /\ Broadcast(n, [type |-> "commitment", round |-> g.round, c |-> NextCommitment(n, g)])
  /\ \/ /\ MoreVariants(g.i)
        /\ generators' = Swap(generators, n, g, [g EXCEPT !.pc = "produce", !.i = @ + 1])
     \/ /\ ~MoreVariants(g.i) /\ TRUE \in OnlyGenesis
        /\ generators' = Go(generators, n, g, "info")
     \/ /\ ~MoreVariants(g.i) /\ FALSE \in OnlyGenesis
        /\ generators' = Drop(generators, n, g)
  /\ UNCHANGED <<starts, sentChecks, alive, roundVars, epochRoundsGenerated, bucketHashesCheck,
                 stageVars, handlers, passes, announcing, scheduleVars, due>>

-----------------------------------------------------------------------------
(* INIT_BUCKET_INFO *)

\* bucketInfoStarted is set while an announcement sleeps
bucketInfoStarted(n) == announcing[n] # {}

\* After four seconds the generator sorts the bucket; in the first two rounds
\* it also shuffles it by the genesis block and prepares its BUCKET_CHECK
InitBucketInfo(n, g) ==
  /\ alive[n] /\ g.pc = "info" /\ MayWake(<<n, g>>) /\ Wake(<<n, g>>)
  /\ generators' = Drop(generators, n, g)
  /\ IF commitmentGenEpochRound[n] < 2
     THEN /\ dev' = [dev EXCEPT ![n] = Shuffled(@, TRUE)]
          /\ announcing' = IF bucketInfoStarted(n) THEN announcing ELSE
               [announcing EXCEPT ![n] = @ \cup
                  {[pc |-> "announce", round |-> commitmentGenEpochRound[n],
                    hash |-> dev'[n].hash, len |-> Len(dev'[n].bucket)]}]
     ELSE /\ dev' = [dev EXCEPT ![n].bucket = initializeBucketSort(@)]
          /\ UNCHANGED announcing
  /\ UNCHANGED <<networkVars, alive, roundVars, epochRoundsGenerated, bucketHashesCheck,
                 stageVars, handlers, passes, scheduleVars>>

\* Another four seconds later the prepared BUCKET_CHECK is broadcast
AnnounceBucket(n, a) ==
  /\ alive[n] /\ MayWake(<<n, a>>) /\ Wake(<<n, a>>)
  /\ CountCheck
  /\ Broadcast(n, Check(n, a.round, a.hash, a.len))
  /\ announcing' = Drop(announcing, n, a)
  /\ UNCHANGED <<starts, alive, roundVars, epochRoundsGenerated, bucketHashesCheck, dev,
                 stageVars, handlers, passes, generators, scheduleVars>>

-----------------------------------------------------------------------------
(* BUCKET_CHECK *)

\* Only a hash of the receiver's own round is compared
HashRefused(n, m) == m.round = commitmentGenEpochRound[n] /\ m.hash # dev[n].hash

LengthRefused(n, m) == m.len # Len(dev[n].bucket)

\* "second try": shuffle again and broadcast the own hash again
RetryBucketCheck(n, m) ==
  /\ MayDeliver(n) /\ m.type = "check" /\ HashRefused(n, m)
  /\ dev' = [dev EXCEPT ![n] = Shuffled(@, FALSE)]
  /\ CountCheck
  /\ DeliverAndBroadcast(n, m, Check(n, commitmentGenEpochRound[n], dev'[n].hash,
                                     Len(dev'[n].bucket)))
  /\ UNCHANGED <<starts, alive, roundVars, epochRoundsGenerated, bucketHashesCheck,
                 stageVars, threadVars, scheduleVars, due>>

DropBucketCheck(n, m) ==
  /\ MayDeliver(n) /\ m.type = "check" /\ ~HashRefused(n, m) /\ LengthRefused(n, m)
  /\ Deliver(n, m)
  /\ UNCHANGED <<starts, sentChecks, alive, roundVars, epochRoundsGenerated, bucketHashesCheck,
                 dev, stageVars, threadVars, scheduleVars, due>>

\* bucketHashesCheck with the received hash
Collected(n, m) == Append(bucketHashesCheck[n], m.hash)

\* Mutant: a late hash completes the list again
Complete_AtLeast(hashes) == Len(hashes) >= N - 1

\* The handler that makes the list complete passes the epoch on
Complete(hashes) == Len(hashes) = N - 1

Matched(n, hashes) == Cardinality({i \in DOMAIN hashes : hashes[i] = dev[n].hash})

\* fracMatched < 0.5
Minority(n, hashes) == 2 * Matched(n, hashes) < N - 1

AcceptBucketCheck(n, m) ==
  /\ MayDeliver(n) /\ m.type = "check" /\ ~HashRefused(n, m) /\ ~LengthRefused(n, m)
  /\ Deliver(n, m)
  /\ bucketHashesCheck' = [bucketHashesCheck EXCEPT ![n] = Collected(n, m)]

CountBucketCheck(n, m) ==
  /\ AcceptBucketCheck(n, m) /\ ~Complete(Collected(n, m))
  /\ UNCHANGED <<starts, sentChecks, alive, roundVars, epochRoundsGenerated, dev, stageVars,
                 threadVars, scheduleVars, due>>

\* Mutant: the ready epoch is overwritten before it runs
FirstPassStep_Skipped(round) == "copy"

\* Round 0 is passed to epoch-ready at once, later rounds first free epoch-ready
FirstPassStep(round) == IF round = 0 THEN "copy" ELSE "running"

BeginPass(n) ==
  passes' = [passes EXCEPT ![n] = @ \cup
               {[pc |-> FirstPassStep(commitmentGenEpochRound[n]),
                 round |-> commitmentGenEpochRound[n]]}]

CompleteBucketCheck(n, m) ==
  /\ AcceptBucketCheck(n, m) /\ Complete(Collected(n, m)) /\ ~Minority(n, Collected(n, m))
  /\ BeginPass(n)
  /\ UNCHANGED <<starts, sentChecks, alive, roundVars, epochRoundsGenerated, dev, stageVars,
                 handlers, generators, announcing, scheduleVars, due>>

\* Another goroutine that may take bucketHashesCheckMutex between two Unlocks
Contended(n, m) == sched[n] # "idle" \/ \E k \in net[n] \ {m} : k.type = "check" /\ Streams > 1

(***************************************************************************)
(* Lines 520-525: with fewer than half of the hashes equal to its own the  *)
(* handler unlocks bucketHashesCheckMutex twice.  The Go runtime stops the *)
(* process, unless another goroutine locked the mutex in between.          *)
(***************************************************************************)
FailBucketCheck(n, m) ==
  /\ AcceptBucketCheck(n, m) /\ Complete(Collected(n, m)) /\ Minority(n, Collected(n, m))
  /\ \/ alive' = [alive EXCEPT ![n] = FALSE] /\ UNCHANGED passes
     \/ Contended(n, m) /\ BeginPass(n) /\ UNCHANGED alive
  /\ UNCHANGED <<starts, sentChecks, roundVars, epochRoundsGenerated, dev, stageVars,
                 handlers, generators, announcing, scheduleVars, due>>

-----------------------------------------------------------------------------
(* Passing an epoch on: passToEpochRunning and passToEpochReady *)

\* maps.Copy adds to the running map and never removes
PassToEpochRunning(n, p) ==
  /\ alive[n] /\ p.pc = "running"
  /\ run' = [run EXCEPT ![n] = [rdy[n] EXCEPT !.map = run[n].map \cup @]]
  /\ runEpochRound' = [runEpochRound EXCEPT ![n] = rdyEpochRound[n]]
  /\ rdy' = [rdy EXCEPT ![n] = EmptyStage]
  /\ passes' = Go(passes, n, p, IF p.round = 1 THEN "pause" ELSE "copy")
  /\ UNCHANGED <<networkVars, alive, roundVars, epochRoundsGenerated, bucketHashesCheck, dev,
                 rdyEpochRound, handlers, generators, announcing, scheduleVars, due>>

\* The four seconds between the two passes of round 1
EndPause(n, p) ==
  /\ alive[n] /\ p.pc = "pause" /\ MayWake(<<n, p>>) /\ Wake(<<n, p>>)
  /\ passes' = Go(passes, n, p, "copy")
  /\ UNCHANGED <<networkVars, alive, roundVars, epochRoundsGenerated, bucketHashesCheck, dev,
                 stageVars, handlers, generators, announcing, scheduleVars>>

\* The snapshot is taken without a mutex: the bucket first ...
CopyBucket(n, p) ==
  /\ alive[n] /\ p.pc = "copy"
  /\ rdy' = [rdy EXCEPT ![n] = [@ EXCEPT !.sub = dev[n].sub, !.bucket = dev[n].bucket]]
  /\ passes' = Go(passes, n, p, "rest")
  /\ UNCHANGED <<networkVars, alive, roundVars, epochRoundsGenerated, bucketHashesCheck, dev,
                 run, rdyEpochRound, runEpochRound, handlers, generators, announcing,
                 scheduleVars, due>>

\* ... then positions, map, hash and round
CopyRest(n, p) ==
  /\ alive[n] /\ p.pc = "rest"
  /\ rdy' = [rdy EXCEPT ![n] = [@ EXCEPT !.hash = dev[n].hash, !.pos = dev[n].pos,
                                         !.map = rdy[n].map \cup dev[n].map]]
  /\ rdyEpochRound' = [rdyEpochRound EXCEPT ![n] = commitmentGenEpochRound[n]]
  /\ passes' = Go(passes, n, p, "bump")
  /\ UNCHANGED <<networkVars, alive, roundVars, epochRoundsGenerated, bucketHashesCheck, dev,
                 run, runEpochRound, handlers, generators, announcing, scheduleVars, due>>

NextRound(n) ==
  /\ ~commitmentRoundMutex[n] /\ commitmentGenEpochRound[n] < MaxRound
  /\ commitmentGenEpochRound' = [commitmentGenEpochRound EXCEPT ![n] = @ + 1]

BumpRound(n, p) ==
  /\ alive[n] /\ p.pc = "bump"
  /\ NextRound(n)
  /\ passes' = Go(passes, n, p, "clear")
  /\ UNCHANGED <<networkVars, alive, commitmentRoundMutex, epochRoundsGenerated,
                 bucketHashesCheck, dev, stageVars, handlers, generators, announcing,
                 scheduleVars, due>>

\* Mutant: the hashes of the round that has passed stay in the list
ClearChecks_Forgotten(n, p) ==
  /\ alive[n] /\ p.pc = "clear"
  /\ passes' = Go(passes, n, p, "reset")
  /\ UNCHANGED <<networkVars, alive, roundVars, epochRoundsGenerated, bucketHashesCheck, dev,
                 stageVars, handlers, generators, announcing, scheduleVars, due>>

ClearChecks(n, p) ==
  /\ alive[n] /\ p.pc = "clear"
  /\ bucketHashesCheck' = [bucketHashesCheck EXCEPT ![n] = <<>>]
  /\ passes' = Go(passes, n, p, "reset")
  /\ UNCHANGED <<networkVars, alive, roundVars, epochRoundsGenerated, dev, stageVars,
                 handlers, generators, announcing, scheduleVars, due>>

\* Mutant: the bucket keeps the commitments of the round that has passed
Emptied_Bucket(stage) == [EmptyStage EXCEPT !.bucket = stage.bucket]

Emptied(stage) == EmptyStage

\* Afterwards round 0 sleeps, round 1 announces its time to synchronise (TimeSync)
ResetDev(n, p) ==
  /\ alive[n] /\ p.pc = "reset"
  /\ dev' = [dev EXCEPT ![n] = Emptied(@)]
  /\ passes' = IF p.round = 0 THEN Go(passes, n, p, "next") ELSE Drop(passes, n, p)
  /\ UNCHANGED <<networkVars, alive, roundVars, epochRoundsGenerated, bucketHashesCheck,
                 stageVars, handlers, generators, announcing, scheduleVars, due>>

\* Four seconds after round 0 has passed its handler starts the next round itself
StartNextRound(n, p) ==
  /\ alive[n] /\ p.pc = "next" /\ MayWake(<<n, p>>) /\ Wake(<<n, p>>)
  /\ passes' = Drop(passes, n, p)
  /\ handlers' = [handlers EXCEPT ![n] = @ \cup
                    {InitHandler("stream", commitmentGenEpochRound[n])}]
  /\ UNCHANGED <<networkVars, alive, roundVars, epochRoundsGenerated, bucketHashesCheck, dev,
                 stageVars, generators, announcing, scheduleVars>>

-----------------------------------------------------------------------------
(* blockGenerationSchedule *)

\* SYNC_TIME: every other node announces a time when it has passed round 1
StartSchedule(n) ==
  /\ MayStartSchedule(n)
  /\ sched' = [sched EXCEPT ![n] = "slot"]
  /\ UNCHANGED <<networkVars, alive, roundVars, epochRoundsGenerated, bucketHashesCheck, dev,
                 stageVars, threadVars, slot, absRound, leads, due>>

\* Mutants: slots are counted one by one; positions are counted from 0
Index_Unscaled(n, row) == slot[n] + row + 1
Index_FromZero(n, row) == ParallelLen * slot[n] + row

\* Bucket positions, counted from 1, of the parallel rows of a slot
Index(n, row) == ParallelLen * slot[n] + row + 1

\* A position outside the bucket would be a panic; a timely network has none (BlocksRecognised)
LedRows(n) ==
  {row \in 0 .. ParallelLen - 1 : Index(n, row) \in run[n].pos \cap DOMAIN run[n].bucket}

\* The rows a node leads in its current slot and the commitments it reveals there
Led(n) ==
  {[col |-> absRound[n] + 1, row |-> row, node |-> n, c |-> run[n].bucket[Index(n, row)]]
     : row \in LedRows(n)}

\* slot % EPOCH_SIZE == 2 * DAG_PARALLEL_LEN after the slot was counted
MidEpoch(next) == next % EpochRounds = 2

EpochOver(next) == next % EpochRounds = 0

GenerateBlocks(n) ==
  /\ alive[n] /\ sched[n] = "slot" /\ MayWake(<<n, SlotSleep>>) /\ Wake(<<n, SlotSleep>>)
  /\ \A h \in handlers[n] : h.thread # "scheduler"
  /\ absRound[n] < MaxTicks
  /\ leads' = leads \cup Led(n)
  /\ absRound' = [absRound EXCEPT ![n] = @ + 1]
  /\ LET next == slot[n] + 1
     IN  /\ slot' = [slot EXCEPT ![n] = next]
         /\ handlers' = IF MidEpoch(next)
                        THEN [handlers EXCEPT ![n] = @ \cup
                                {InitHandler("scheduler", commitmentGenEpochRound[n])}]
                        ELSE handlers
         /\ sched' = IF EpochOver(next) THEN [sched EXCEPT ![n] = "end"] ELSE sched
  /\ UNCHANGED <<networkVars, alive, roundVars, epochRoundsGenerated, bucketHashesCheck, dev,
                 stageVars, passes, generators, announcing>>

\* A second after the last slot: shuffle, and broadcast the hash unless
\* an INIT_BUCKET_INFO announcement is under way
EndEpoch(n) ==
  /\ alive[n] /\ sched[n] = "end" /\ MayWake(<<n, EndSleep>>) /\ Wake(<<n, EndSleep>>)
  /\ sched' = [sched EXCEPT ![n] = "slot"]
  /\ slot' = [slot EXCEPT ![n] = 0]
  /\ dev' = [dev EXCEPT ![n] = Shuffled(@, FALSE)]
  /\ IF bucketInfoStarted(n)
     THEN UNCHANGED <<net, sentChecks>>
     ELSE /\ CountCheck
          /\ Broadcast(n, Check(n, commitmentGenEpochRound[n], dev'[n].hash,
                                Len(dev'[n].bucket)))
  /\ UNCHANGED <<starts, alive, roundVars, epochRoundsGenerated, bucketHashesCheck, stageVars,
                 threadVars, absRound, leads>>

-----------------------------------------------------------------------------

Receive(n) ==
  \E m \in net[n] :
    \/ ReceiveInit(n, m)
    \/ ReceiveCommitment(n, m)
    \/ RetryBucketCheck(n, m)
    \/ DropBucketCheck(n, m)
    \/ CountBucketCheck(n, m)
    \/ CompleteBucketCheck(n, m)
    \/ FailBucketCheck(n, m)

Handle(n) ==
  \E h \in handlers[n] :
    \/ InsertCommitment(n, h)
    \/ CheckRound(n, h)
    \/ CheckGenerated(n, h)
    \/ MarkGenerated(n, h)

Generate(n) ==
  \/ \E g \in generators[n] :
       \/ ProduceCommitment(n, g)
       \/ StoreCommitment(n, g)
       \/ InitBucketInfo(n, g)
  \/ \E a \in announcing[n] : AnnounceBucket(n, a)

PassOn(n) ==
  \E p \in passes[n] :
    \/ PassToEpochRunning(n, p)
    \/ EndPause(n, p)
    \/ CopyBucket(n, p)
    \/ CopyRest(n, p)
    \/ BumpRound(n, p)
    \/ ClearChecks(n, p)
    \/ ResetDev(n, p)
    \/ StartNextRound(n, p)

Schedule(n) == StartSchedule(n) \/ GenerateBlocks(n) \/ EndEpoch(n)

NodeStep(n) == Receive(n) \/ Handle(n) \/ Generate(n) \/ PassOn(n) \/ Schedule(n)

Next == StartBlockchain \/ AdvanceClock \/ \E n \in Nodes : NodeStep(n)

Spec == Init /\ [][Next]_vars

(***************************************************************************)
(* Goroutines that can run do run, streams deliver (TCP), sleeps end, and  *)
(* the operator gives the command to start.                                *)
(***************************************************************************)
FairSpec == Spec /\ WF_vars(Next)

-----------------------------------------------------------------------------
(* Properties of every schedule *)

\* Every variable has its type
TypeOK ==
  /\ net \in [Nodes -> SUBSET Messages]
  /\ starts \in Nat
  /\ sentChecks \in Nat
  /\ alive \in [Nodes -> BOOLEAN]
  /\ commitmentGenEpochRound \in [Nodes -> Rounds]
  /\ commitmentRoundMutex \in [Nodes -> BOOLEAN]
  /\ epochRoundsGenerated \in [Nodes -> Seq(Rounds)]
  /\ bucketHashesCheck \in [Nodes -> Seq(Hashes)]
  /\ dev \in [Nodes -> Stage] /\ rdy \in [Nodes -> Stage] /\ run \in [Nodes -> Stage]
  /\ rdyEpochRound \in [Nodes -> Rounds] /\ runEpochRound \in [Nodes -> Rounds]
  /\ handlers \in [Nodes -> SUBSET Handler]
  /\ passes \in [Nodes -> SUBSET Pass]
  /\ generators \in [Nodes -> SUBSET Generator]
  /\ announcing \in [Nodes -> SUBSET Announcement]
  /\ sched \in [Nodes -> {"idle", "slot", "end"}]
  /\ slot \in [Nodes -> Nat] /\ absRound \in [Nodes -> Nat]
  /\ leads \subseteq Lead
  /\ due \subseteq Nodes \X (Pass \cup Generator \cup Announcement \cup {SlotSleep, EndSleep})

\* The passes of node n that have not yet emptied bucketHashesCheck
Gathered(n) ==
  {p \in passes[n] : p.pc \in {"running", "pause", "copy", "rest", "bump", "clear"}}

(***************************************************************************)
(* However many BUCKET_CHECK messages arrive (retries, stale rounds), a    *)
(* node passes an epoch on at most once per list of hashes: two handlers   *)
(* are never inside passToEpochRunning and passToEpochReady together, and  *)
(* the list stays complete until the one that is there empties it.         *)
(***************************************************************************)
OnePassPerList ==
  \A n \in Nodes :
    /\ \A p, q \in Gathered(n) : p = q
    /\ Gathered(n) # {} => Len(bucketHashesCheck[n]) >= N - 1

(***************************************************************************)
(* The three stages never drift apart: between two passes the ready epoch  *)
(* is the round before the one being generated and the running epoch the   *)
(* round before that.                                                      *)
(***************************************************************************)
StagesInStep ==
  \A n \in Nodes :
    Gathered(n) = {} =>
      /\ commitmentGenEpochRound[n] >= 1 => rdyEpochRound[n] = commitmentGenEpochRound[n] - 1
      /\ commitmentGenEpochRound[n] >= 2 => runEpochRound[n] = commitmentGenEpochRound[n] - 2

-----------------------------------------------------------------------------
(* Properties of a timely network *)

Expected(round) == Nodes \X {round} \X (1 .. MaxVar) \X {1}

(***************************************************************************)
(* Nodes that run the same epoch run the same schedule, made of exactly    *)
(* the commitments of its round.                                           *)
(***************************************************************************)
ScheduleAgreed ==
  \A n, m \in Nodes :
    commitmentGenEpochRound[n] >= 2 /\ commitmentGenEpochRound[m] >= 2
      /\ runEpochRound[n] = runEpochRound[m] =>
        /\ run[n].bucket = run[m].bucket
        /\ Range(run[n].bucket) = Expected(runEpochRound[n])

\* The positions of a stage are those of the node's own commitments in its bucket
OwnPositions(stage) ==
  stage.pos = {i \in DOMAIN stage.bucket : stage.bucket[i] \in stage.sub}

(***************************************************************************)
(* The schedule reads runCommitmentsBucket at the node's own commitments,  *)
(* and BCHAIN_BLOCK looks for the commitment of a block in                 *)
(* runCommitmentsBucketMap.  Each commitment of the running bucket is      *)
(* there, and each one that a block has revealed is there on every node:   *)
(* none drops the block for having changed epochs too late, or before it   *)
(* arrived.                                                                *)
(***************************************************************************)
BlocksRecognised ==
  /\ \A n \in Nodes : OwnPositions(run[n]) /\ Range(run[n].bucket) \subseteq run[n].map
  /\ \A x \in leads, n \in Nodes : x.c \in run[n].map

(***************************************************************************)
(* No two nodes lead the same row of the same column, a leader reveals its *)
(* own commitment, and no commitment is revealed in two slots.             *)
(***************************************************************************)
OneLeaderOneSecret ==
  /\ \A x, y \in leads : (x.col = y.col /\ x.row = y.row) <=> x.c = y.c
  /\ \A x \in leads : x.node = x.c[1]

(***************************************************************************)
(* A column is led completely: once every node has taken slot k, each row  *)
(* of it whose position exists in the epoch has a leader.                  *)
(***************************************************************************)
EveryRowLed ==
  \A col \in 1 .. MaxTicks : (\A n \in Nodes : absRound[n] >= col) =>
    \A row \in 0 .. ParallelLen - 1 :
      ((col - 1) % EpochRounds) * ParallelLen + row < Capacity =>
        \E x \in leads : x.col = col /\ x.row = row

(***************************************************************************)
(* Every epoch that the bounds allow is generated, agreed on and run by    *)
(* every node.                                                             *)
(***************************************************************************)
EveryEpochRuns ==
  <>(\A n \in Nodes : commitmentGenEpochRound[n] = MaxRound /\ Gathered(n) = {})

-----------------------------------------------------------------------------
(* What a comment of the code promises and it does not keep *)

(***************************************************************************)
(* Lines 321-331: "Skip generation if commitment for this epoch round is   *)
(* already generated", "Mark commitment for this epoch round as            *)
(* generated".  A node generates its commitments once per round.           *)
(***************************************************************************)
GeneratedOnce == \A n \in Nodes, r \in Rounds : Generations(n, r) <= 1

=============================================================================
