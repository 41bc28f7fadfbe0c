----------------------- MODULE CommitmentEpochProofs -----------------------
(***************************************************************************)
(* Theorems about CommitmentEpoch, for every network, every bound and      *)
(* every shuffle.  TypeCorrect, PassedOnce and StagesStayInStep hold       *)
(* whether or not the network is timely.  The agreement on who leads is    *)
(* about timely networks: TimelyInv follows them from period to period.    *)
(***************************************************************************)
EXTENDS CommitmentEpoch, TLAPS, FiniteSetTheorems, FunctionTheorems, SequenceTheorems

\* What a bucket contains are commitments
LEMMA RangeType ==
  ASSUME NEW bucket \in Seq(Commitments)
  PROVE  Range(bucket) \in SUBSET Commitments
BY SMT DEF Range

\* Shuffling a bucket gives a bucket
LEMMA ShuffleType ==
  ASSUME NEW bucket \in Seq(Commitments), NEW fromInit \in BOOLEAN
  PROVE  randomBucketShuffle(bucket, fromInit) \in Seq(Commitments)
<1> DEFINE S == Range(bucket)
<1>1. S \in SUBSET Commitments
  BY RangeType
<1>2. \A seed \in Seeds : Arrange(seed, S) \in Seq(S)
  BY <1>1, ArrangeAssumption
<1>3. Seq(S) \subseteq Seq(Commitments)
  BY <1>1, SMT
<1>4. Arrange("genesis", Range(bucket)) \in Seq(Commitments)
      /\ Arrange("key", Range(bucket)) \in Seq(Commitments)
  BY <1>2, <1>3 DEF Seeds
<1> QED
  BY <1>4, Zenon DEF randomBucketShuffle

\* Sorting a bucket gives a bucket
LEMMA SortType ==
  ASSUME NEW bucket \in Seq(Commitments)
  PROVE  initializeBucketSort(bucket) \in Seq(Commitments)
<1> DEFINE S == Range(bucket)
<1>1. S \in SUBSET Commitments
  BY RangeType
<1>2. Arrange("sorted", S) \in Seq(S)
  BY <1>1, ArrangeAssumption DEF Seeds
<1>3. Seq(S) \subseteq Seq(Commitments)
  BY <1>1, SMT
<1> QED
  BY <1>2, <1>3 DEF initializeBucketSort

\* The hash of a bucket is a hash
LEMMA HashType ==
  ASSUME NEW bucket \in Seq(Commitments)
  PROVE  Hash(bucket) \in Hashes
BY SMT DEF Hash, Hashes

LEMMA NoHashType == NoHash \in Hashes
BY SMT DEF NoHash, Hashes

LEMMA EmptyStageType == EmptyStage \in Stage
BY NoHashType, SMT DEF EmptyStage, Stage

\* The parts of a stage
LEMMA StageParts ==
  ASSUME NEW stage \in Stage
  PROVE  /\ stage.sub \in SUBSET Commitments /\ stage.bucket \in Seq(Commitments)
         /\ stage.map \in SUBSET Commitments /\ stage.hash \in Hashes
         /\ stage.pos \in SUBSET Nat /\ Len(stage.bucket) \in Nat
BY SMT DEF Stage

\* Changing one part of a stage
LEMMA StageChange ==
  ASSUME NEW stage \in Stage, NEW bucket \in Seq(Commitments),
         NEW C \in SUBSET Commitments, NEW hash \in Hashes, NEW pos \in SUBSET Nat
  PROVE  /\ [stage EXCEPT !.bucket = bucket] \in Stage
         /\ [stage EXCEPT !.map = C] \in Stage
         /\ [stage EXCEPT !.sub = C] \in Stage
         /\ [stage EXCEPT !.hash = hash] \in Stage
         /\ [stage EXCEPT !.pos = pos] \in Stage
<1>1. [stage EXCEPT !.bucket = bucket] \in Stage
  BY DEF Stage
<1>2. [stage EXCEPT !.map = C] \in Stage
  BY DEF Stage
<1>3. [stage EXCEPT !.sub = C] \in Stage
  BY DEF Stage
<1>4. [stage EXCEPT !.hash = hash] \in Stage
  BY DEF Stage
<1>5. [stage EXCEPT !.pos = pos] \in Stage
  BY DEF Stage
<1> QED
  BY <1>1, <1>2, <1>3, <1>4, <1>5

\* Changing two parts of a stage
LEMMA StageChangeTwo ==
  ASSUME NEW stage \in Stage, NEW bucket \in Seq(Commitments),
         NEW C \in SUBSET Commitments, NEW hash \in Hashes, NEW pos \in SUBSET Nat
  PROVE  /\ [stage EXCEPT !.map = C, !.bucket = bucket] \in Stage
         /\ [stage EXCEPT !.sub = C, !.bucket = bucket] \in Stage
         /\ [stage EXCEPT !.hash = hash, !.pos = pos] \in Stage
<1>1. [[stage EXCEPT !.map = C] EXCEPT !.bucket = bucket] \in Stage
  BY StageChange
<1>2. [[stage EXCEPT !.sub = C] EXCEPT !.bucket = bucket] \in Stage
  BY StageChange
<1>3. [[stage EXCEPT !.hash = hash] EXCEPT !.pos = pos] \in Stage
  BY StageChange
<1>4. [stage EXCEPT !.map = C, !.bucket = bucket] \in Stage
  BY <1>1, Zenon
<1>5. [stage EXCEPT !.sub = C, !.bucket = bucket] \in Stage
  BY <1>2, Zenon
<1>6. [stage EXCEPT !.hash = hash, !.pos = pos] \in Stage
  BY <1>3, Zenon
<1> QED
  BY <1>4, <1>5, <1>6

\* Identifying the positions keeps the type of a stage
LEMMA IdentifiedType ==
  ASSUME NEW stage \in Stage
  PROVE  identifyCommitmentPositions(stage) \in Stage
<1> DEFINE hash == Hash(stage.bucket)
           pos == {i \in DOMAIN stage.bucket : stage.bucket[i] \in stage.sub}
<1>1. hash \in Hashes
  BY StageParts, HashType
<1>2. pos \in SUBSET Nat
  BY StageParts, SMT
<1>3. [stage EXCEPT !.hash = hash, !.pos = pos] \in Stage
  <2> HIDE DEF hash, pos
  <2>1. stage.bucket \in Seq(Commitments) /\ stage.sub \in SUBSET Commitments
    BY StageParts
  <2> QED
    BY <1>1, <1>2, <2>1, StageChangeTwo, Zenon
<1> QED
  BY <1>3, Zenon DEF identifyCommitmentPositions

LEMMA ShuffledType ==
  ASSUME NEW stage \in Stage, NEW fromInit \in BOOLEAN
  PROVE  Shuffled(stage, fromInit) \in Stage
<1> DEFINE bucket == randomBucketShuffle(stage.bucket, fromInit)
<1>1. bucket \in Seq(Commitments)
  BY StageParts, ShuffleType
<1>2. [stage EXCEPT !.bucket = bucket] \in Stage
  <2> HIDE DEF bucket
  <2> QED
    BY <1>1 DEF Stage
<1> QED
  BY <1>2, IdentifiedType, Zenon DEF Shuffled

LEMMA InsertedType ==
  ASSUME NEW stage \in Stage, NEW c \in Commitments
  PROVE  Inserted(stage, c) \in Stage
<1> DEFINE bucket == Append(stage.bucket, c)
           next == IF Len(bucket) = Capacity THEN initializeBucketSort(bucket) ELSE bucket
           map == stage.map \cup {c}
<1>1. bucket \in Seq(Commitments)
  BY StageParts, SMT
<1>2. next \in Seq(Commitments)
  BY <1>1, SortType
<1>3. map \in SUBSET Commitments
  BY StageParts
<1>4. [stage EXCEPT !.map = map, !.bucket = next] \in Stage
  <2> HIDE DEF map, next
  <2> QED
    BY <1>2, <1>3, StageParts, StageChangeTwo, Zenon
<1> QED
  BY <1>4, Zenon DEF Inserted

LEMMA StoredType ==
  ASSUME NEW stage \in Stage, NEW c \in Commitments
  PROVE  Stored(stage, c) \in Stage
<1> DEFINE bucket == Append(stage.bucket, c)
           map == stage.map \cup {c}
           with == [stage EXCEPT !.map = map, !.bucket = bucket]
<1>1. bucket \in Seq(Commitments)
  BY StageParts, SMT
<1>2. map \in SUBSET Commitments
  BY StageParts
<1>3. with \in Stage
  <2> HIDE DEF map, bucket
  <2> QED
    BY <1>1, <1>2, StageParts, StageChangeTwo, Zenon DEF with
<1>4. Shuffled(with, FALSE) \in Stage
  <2> HIDE DEF with
  <2> QED
    BY <1>3, ShuffledType
<1> QED
  BY <1>3, <1>4, Zenon DEF Stored

-----------------------------------------------------------------------------
(* Type correctness *)

USE DEF networkVars, roundVars, stageVars, threadVars, scheduleVars

\* Moving a goroutine on keeps the sets of goroutines typed
LEMMA ThreadChange ==
  ASSUME NEW T, NEW threads \in [Nodes -> SUBSET T], NEW n \in Nodes, NEW t, NEW u \in T
  PROVE  /\ Drop(threads, n, t) \in [Nodes -> SUBSET T]
         /\ Swap(threads, n, t, u) \in [Nodes -> SUBSET T]
BY DEF Drop, Swap

\* So does starting one
LEMMA ThreadStart ==
  ASSUME NEW T, NEW threads \in [Nodes -> SUBSET T], NEW n \in Nodes, NEW u \in T
  PROVE  [threads EXCEPT ![n] = @ \cup {u}] \in [Nodes -> SUBSET T]
OBVIOUS

\* The network holds messages, whatever is sent or delivered
LEMMA NetChange ==
  ASSUME TypeOK, NEW n \in Nodes, NEW m, NEW answer \in Messages
  PROVE  /\ Deliver(n, m) => net' \in [Nodes -> SUBSET Messages]
         /\ Broadcast(n, answer) => net' \in [Nodes -> SUBSET Messages]
         /\ DeliverAndBroadcast(n, m, answer) => net' \in [Nodes -> SUBSET Messages]
<1> USE DEF TypeOK
<1>1. Deliver(n, m) => net' \in [Nodes -> SUBSET Messages]
  BY DEF Deliver
<1>2. Broadcast(n, answer) => net' \in [Nodes -> SUBSET Messages]
  BY DEF Broadcast
<1>3. DeliverAndBroadcast(n, m, answer) => net' \in [Nodes -> SUBSET Messages]
  BY DEF DeliverAndBroadcast
<1> QED
  BY <1>1, <1>2, <1>3

LEMMA CheckType ==
  ASSUME TypeOK, NEW n \in Nodes, NEW round \in Rounds, NEW hash \in Hashes, NEW len \in Nat
  PROVE  Check(n, round, hash, len) \in Messages
BY DEF TypeOK, Check, Messages, CheckMessage

LEMMA WakeType ==
  ASSUME TypeOK, NEW s, Wake(s)
  PROVE  due' \subseteq Nodes \X (Pass \cup Generator \cup Announcement \cup {SlotSleep, EndSleep})
BY DEF TypeOK, Wake

\* How often a round was generated is a number
LEMMA GenerationsType ==
  ASSUME TypeOK, NEW n \in Nodes, NEW round \in Rounds
  PROVE  Generations(n, round) \in Nat
<1> DEFINE s == epochRoundsGenerated[n]
           S == {i \in DOMAIN s : s[i] = round}
<1>1. s \in Seq(Rounds)
  BY DEF TypeOK
<1>2. S \subseteq 1 .. Len(s) /\ Len(s) \in Nat
  BY <1>1, SMT
<1>3. IsFiniteSet(1 .. Len(s))
  BY <1>2, FS_Interval
<1>4. IsFiniteSet(S)
  BY <1>2, <1>3, FS_Subset
<1> QED
  BY <1>4, FS_CardinalityType DEF Generations

LEMMA InitType == Init => TypeOK
<1> SUFFICES ASSUME Init PROVE TypeOK
  OBVIOUS
<1>1. 0 \in Rounds
  BY BoundsAssumption DEF Rounds
<1> QED
  BY <1>1, EmptyStageType DEF Init, TypeOK

LEMMA ReceiveType ==
  ASSUME TypeOK, NEW n \in Nodes, Receive(n)
  PROVE  TypeOK'
<1> PICK m \in net[n] : \/ ReceiveInit(n, m)
                        \/ ReceiveCommitment(n, m)
                        \/ RetryBucketCheck(n, m)
                        \/ DropBucketCheck(n, m)
                        \/ CountBucketCheck(n, m)
                        \/ CompleteBucketCheck(n, m)
                        \/ FailBucketCheck(n, m)
  BY DEF Receive
<1>m. m \in Messages
  BY DEF TypeOK
<1>net. Deliver(n, m) => net' \in [Nodes -> SUBSET Messages]
  BY DEF TypeOK, Deliver
<1>round. commitmentGenEpochRound[n] \in Rounds
  BY DEF TypeOK
<1>1. CASE ReceiveInit(n, m)
  <2>1. InitHandler("stream", m.round) \in Handler
    BY <1>1, <1>m DEF ReceiveInit, Messages, InitMessage, CommitmentMessage, CheckMessage,
                      InitHandler, Handler, Threads
  <2>2. handlers' \in [Nodes -> SUBSET Handler]
    BY <1>1, <2>1, ThreadStart DEF ReceiveInit, TypeOK
  <2> QED
    BY <1>1, <1>net, <2>2 DEF ReceiveInit, TypeOK
<1>2. CASE ReceiveCommitment(n, m)
  <2>1. m \in CommitmentMessage
    BY <1>2, <1>m DEF ReceiveCommitment, Messages, InitMessage, CommitmentMessage, CheckMessage
  <2>2. [thread |-> "stream", pc |-> "insert", round |-> m.round, c |-> m.c] \in Handler
    BY <2>1 DEF CommitmentMessage, Handler, Threads
  <2>3. handlers' \in [Nodes -> SUBSET Handler]
    BY <1>2, <2>2, ThreadStart DEF ReceiveCommitment, TypeOK
  <2> QED
    BY <1>2, <1>net, <2>3 DEF ReceiveCommitment, TypeOK
<1>3. CASE RetryBucketCheck(n, m)
  <2>1. Shuffled(dev[n], FALSE) \in Stage
    BY ShuffledType DEF TypeOK
  <2>2. dev' \in [Nodes -> Stage] /\ dev'[n] = Shuffled(dev[n], FALSE)
    BY <1>3, <2>1 DEF RetryBucketCheck, TypeOK
  <2>3. dev'[n].hash \in Hashes /\ Len(dev'[n].bucket) \in Nat
    BY <2>1, <2>2, StageParts
  <2>4. Check(n, commitmentGenEpochRound[n], dev'[n].hash, Len(dev'[n].bucket)) \in Messages
    BY <2>3, <1>round, CheckType
  <2>5. net' \in [Nodes -> SUBSET Messages]
    BY <1>3, <2>4, NetChange DEF RetryBucketCheck
  <2>6. sentChecks' \in Nat
    BY <1>3 DEF RetryBucketCheck, CountCheck, TypeOK
  <2> QED
    BY <1>3, <2>2, <2>5, <2>6 DEF RetryBucketCheck, TypeOK
<1>4. CASE DropBucketCheck(n, m)
  BY <1>4, <1>net DEF DropBucketCheck, TypeOK
<1>accept. ASSUME AcceptBucketCheck(n, m)
           PROVE  /\ net' \in [Nodes -> SUBSET Messages]
                  /\ bucketHashesCheck' \in [Nodes -> Seq(Hashes)]
  <2>1. m.hash \in Hashes
    BY <1>accept, <1>m DEF AcceptBucketCheck, Messages, InitMessage, CommitmentMessage, CheckMessage
  <2>2. Collected(n, m) \in Seq(Hashes)
    BY <2>1 DEF TypeOK, Collected
  <2> QED
    BY <1>accept, <1>net, <2>2 DEF AcceptBucketCheck, TypeOK
<1>begin. BeginPass(n) => passes' \in [Nodes -> SUBSET Pass]
  <2>1. [pc |-> FirstPassStep(commitmentGenEpochRound[n]),
         round |-> commitmentGenEpochRound[n]] \in Pass
    BY <1>round DEF FirstPassStep, Pass
  <2> QED
    BY <2>1, ThreadStart DEF BeginPass, TypeOK
<1>5. CASE CountBucketCheck(n, m)
  BY <1>5, <1>accept DEF CountBucketCheck, TypeOK
<1>6. CASE CompleteBucketCheck(n, m)
  BY <1>6, <1>accept, <1>begin DEF CompleteBucketCheck, TypeOK
<1>7. CASE FailBucketCheck(n, m)
  BY <1>7, <1>accept, <1>begin DEF FailBucketCheck, TypeOK
<1> QED
  BY <1>1, <1>2, <1>3, <1>4, <1>5, <1>6, <1>7

LEMMA HandleType ==
  ASSUME TypeOK, NEW n \in Nodes, Handle(n)
  PROVE  TypeOK'
<1> PICK h \in handlers[n] : \/ InsertCommitment(n, h)
                             \/ CheckRound(n, h)
                             \/ CheckGenerated(n, h)
                             \/ MarkGenerated(n, h)
  BY DEF Handle
<1>h. h \in Handler
  BY DEF TypeOK
<1>drop. Drop(handlers, n, h) \in [Nodes -> SUBSET Handler]
  BY <1>h, ThreadChange DEF TypeOK
<1>1. CASE InsertCommitment(n, h)
  <2>1. h.c \in Commitments /\ [h EXCEPT !.pc = "round"] \in Handler
    BY <1>h, <1>1 DEF InsertCommitment, Handler
  <2>2. Go(handlers, n, h, "round") \in [Nodes -> SUBSET Handler]
    BY <2>1, ThreadChange DEF Go, TypeOK
  <2>3. Inserted(dev[n], h.c) \in Stage
    BY <2>1, InsertedType DEF TypeOK
  <2> QED
    BY <1>1, <1>drop, <2>2, <2>3 DEF InsertCommitment, TypeOK
<1>2. CASE CheckRound(n, h)
  <2>1. [h EXCEPT !.pc = "once"] \in Handler
    BY <1>h, <1>2 DEF CheckRound, Handler
  <2>2. Go(handlers, n, h, "once") \in [Nodes -> SUBSET Handler]
    BY <2>1, ThreadChange DEF Go, TypeOK
  <2> QED
    BY <1>2, <1>drop, <2>2 DEF CheckRound, TypeOK
<1>3. CASE CheckGenerated(n, h)
  <2>1. [h EXCEPT !.pc = "mark"] \in Handler
    BY <1>h, <1>3 DEF CheckGenerated, Handler
  <2>2. Go(handlers, n, h, "mark") \in [Nodes -> SUBSET Handler]
    BY <2>1, ThreadChange DEF Go, TypeOK
  <2> QED
    BY <1>3, <1>drop, <2>2 DEF CheckGenerated, TypeOK
<1>4. CASE MarkGenerated(n, h)
  <2>1. h.round \in 0 .. MaxRound - 1 /\ h.round \in Rounds
    BY <1>h, <1>4, BoundsAssumption DEF MarkGenerated, Handler, Rounds
  <2>2. Generations(n, h.round) + 1 \in 1 .. MaxCopies
    BY <1>4, <2>1, GenerationsType, BoundsAssumption DEF MarkGenerated
  <2>3. [pc |-> "produce", round |-> h.round, copy |-> Generations(n, h.round) + 1, i |-> 1]
          \in Generator
    BY <2>1, <2>2, BoundsAssumption DEF Generator
  <2>4. generators' \in [Nodes -> SUBSET Generator]
    BY <1>4, <2>3, ThreadStart DEF MarkGenerated, TypeOK
  <2>5. epochRoundsGenerated' \in [Nodes -> Seq(Rounds)]
    BY <1>4, <2>1 DEF MarkGenerated, TypeOK
  <2> QED
    BY <1>4, <1>drop, <2>4, <2>5 DEF MarkGenerated, TypeOK
<1> QED
  BY <1>1, <1>2, <1>3, <1>4

LEMMA GenerateType ==
  ASSUME TypeOK, NEW n \in Nodes, Generate(n)
  PROVE  TypeOK'
<1>1. ASSUME NEW a \in announcing[n], AnnounceBucket(n, a)
      PROVE  TypeOK'
  <2>1. a \in Announcement
    BY DEF TypeOK
  <2>2. Check(n, a.round, a.hash, a.len) \in Messages
    BY <2>1, CheckType DEF Announcement
  <2>3. net' \in [Nodes -> SUBSET Messages]
    BY <1>1, <2>2, NetChange DEF AnnounceBucket
  <2>4. announcing' \in [Nodes -> SUBSET Announcement]
    BY <1>1, <2>1, ThreadChange DEF AnnounceBucket, TypeOK
  <2>5. due' \subseteq Nodes \X (Pass \cup Generator \cup Announcement \cup {SlotSleep, EndSleep})
    BY <1>1, WakeType DEF AnnounceBucket
  <2> QED
    BY <1>1, <2>3, <2>4, <2>5 DEF AnnounceBucket, CountCheck, TypeOK
<1>2. ASSUME NEW g \in generators[n],
             ProduceCommitment(n, g) \/ StoreCommitment(n, g) \/ InitBucketInfo(n, g)
      PROVE  TypeOK'
  <2>g. g \in Generator
    BY DEF TypeOK
  <2>c. NextCommitment(n, g) \in Commitments
    BY <2>g DEF NextCommitment, Commitments, Generator
  <2>go. /\ Drop(generators, n, g) \in [Nodes -> SUBSET Generator]
         /\ Go(generators, n, g, "store") \in [Nodes -> SUBSET Generator]
         /\ Go(generators, n, g, "info") \in [Nodes -> SUBSET Generator]
    <3>1. [g EXCEPT !.pc = "store"] \in Generator /\ [g EXCEPT !.pc = "info"] \in Generator
      BY <2>g DEF Generator
    <3> QED
      BY <3>1, ThreadChange DEF Go, TypeOK
  <2>1. CASE ProduceCommitment(n, g)
    <3>1. dev[n].sub \cup {NextCommitment(n, g)} \in SUBSET Commitments
      BY <2>c, StageParts DEF TypeOK
    <3>2. [dev[n] EXCEPT !.sub = dev[n].sub \cup {NextCommitment(n, g)}] \in Stage
      <4> DEFINE sub == dev[n].sub \cup {NextCommitment(n, g)}
      <4>1. dev[n] \in Stage
        BY DEF TypeOK
      <4> HIDE DEF sub
      <4>2. [dev[n] EXCEPT !.sub = sub] \in Stage
        BY <3>1, <4>1 DEF Stage, sub
      <4> QED
        BY <4>2 DEF sub
    <3>3. dev' \in [Nodes -> Stage]
      BY <2>1, <3>2 DEF ProduceCommitment, TypeOK
    <3> QED
      BY <2>1, <2>go, <3>3 DEF ProduceCommitment, TypeOK
  <2>2. CASE StoreCommitment(n, g)
    <3>1. Stored(dev[n], NextCommitment(n, g)) \in Stage
      BY <2>c, StoredType DEF TypeOK
    <3>2. [type |-> "commitment", round |-> g.round, c |-> NextCommitment(n, g)] \in Messages
      BY <2>c, <2>g, BoundsAssumption DEF Messages, CommitmentMessage, Generator, Rounds
    <3>3. net' \in [Nodes -> SUBSET Messages]
      BY <2>2, <3>2, NetChange DEF StoreCommitment
    <3>4. MoreVariants(g.i) => [g EXCEPT !.pc = "produce", !.i = g.i + 1] \in Generator
      <4>1. SUFFICES ASSUME MoreVariants(g.i)
                     PROVE  [g EXCEPT !.pc = "produce", !.i = g.i + 1] \in Generator
        OBVIOUS
      <4>2. [g EXCEPT !.pc = "produce"] \in Generator
        BY <2>g DEF Generator
      <4>3. g.i + 1 \in 1 .. MaxVar
        BY <2>g, <4>1, BoundsAssumption DEF Generator, MoreVariants
      <4>4. [[g EXCEPT !.pc = "produce"] EXCEPT !.i = g.i + 1] \in Generator
        BY <4>2, <4>3 DEF Generator
      <4> QED
        BY <4>4, Zenon
    <3>5. generators' \in [Nodes -> SUBSET Generator]
      <4>1. CASE MoreVariants(g.i)
                 /\ generators' = Swap(generators, n, g, [g EXCEPT !.pc = "produce", !.i = @ + 1])
        BY <4>1, <3>4, ThreadChange DEF TypeOK
      <4> QED
        BY <2>2, <2>go, <4>1 DEF StoreCommitment
    <3> QED
      BY <2>2, <3>1, <3>3, <3>5 DEF StoreCommitment, TypeOK
  <2>3. CASE InitBucketInfo(n, g)
    <3>1. due' \subseteq Nodes \X (Pass \cup Generator \cup Announcement \cup {SlotSleep, EndSleep})
      BY <2>3, WakeType DEF InitBucketInfo
    <3>u. /\ generators' = Drop(generators, n, g)
          /\ UNCHANGED <<networkVars, alive, roundVars, epochRoundsGenerated, bucketHashesCheck,
                         stageVars, handlers, passes, scheduleVars>>
      BY <2>3, Zenon DEF InitBucketInfo
    <3>2. CASE commitmentGenEpochRound[n] < 2
      <4>1. Shuffled(dev[n], TRUE) \in Stage
        BY ShuffledType DEF TypeOK
      <4>i. /\ dev' = [dev EXCEPT ![n] = Shuffled(dev[n], TRUE)]
            /\ \/ announcing' = announcing
               \/ announcing' = [announcing EXCEPT ![n] = @ \cup
                    {[pc |-> "announce", round |-> commitmentGenEpochRound[n],
                      hash |-> dev'[n].hash, len |-> Len(dev'[n].bucket)]}]
        BY <2>3, <3>2, Zenon DEF InitBucketInfo
      <4>2. dev' \in [Nodes -> Stage] /\ dev'[n] = Shuffled(dev[n], TRUE)
        BY <4>i, <4>1 DEF TypeOK
      <4>3. dev'[n].hash \in Hashes /\ Len(dev'[n].bucket) \in Nat
        BY <4>1, <4>2, StageParts
      <4>4. [pc |-> "announce", round |-> commitmentGenEpochRound[n], hash |-> dev'[n].hash,
             len |-> Len(dev'[n].bucket)] \in Announcement
        BY <4>3 DEF Announcement, TypeOK
      <4>5. announcing' \in [Nodes -> SUBSET Announcement]
        <5> DEFINE a == [pc |-> "announce", round |-> commitmentGenEpochRound[n],
                         hash |-> dev'[n].hash, len |-> Len(dev'[n].bucket)]
        <5>1. a \in Announcement
          BY <4>4
        <5>2. announcing' = announcing \/ announcing' = [announcing EXCEPT ![n] = @ \cup {a}]
          BY <4>i, Zenon
        <5>3. announcing \in [Nodes -> SUBSET Announcement]
          BY DEF TypeOK
        <5> HIDE DEF a
        <5>4. [announcing EXCEPT ![n] = @ \cup {a}] \in [Nodes -> SUBSET Announcement]
          BY <5>1, <5>3, ThreadStart
        <5> QED
          BY <5>2, <5>3, <5>4, Zenon
      <4> QED
        BY <3>u, <3>1, <2>go, <4>2, <4>5 DEF TypeOK
    <3>3. CASE ~(commitmentGenEpochRound[n] < 2)
      <4>1. initializeBucketSort(dev[n].bucket) \in Seq(Commitments)
        BY SortType, StageParts DEF TypeOK
      <4>2. [dev[n] EXCEPT !.bucket = initializeBucketSort(dev[n].bucket)] \in Stage
        <5> DEFINE bucket == initializeBucketSort(dev[n].bucket)
        <5>1. dev[n] \in Stage
          BY DEF TypeOK
        <5> HIDE DEF bucket
        <5>2. [dev[n] EXCEPT !.bucket = bucket] \in Stage
          BY <4>1, <5>1 DEF Stage, bucket
        <5> QED
          BY <5>2 DEF bucket
      <4>3. dev' \in [Nodes -> Stage]
        BY <2>3, <3>3, <4>2 DEF InitBucketInfo, TypeOK
      <4> QED
        BY <2>3, <3>1, <3>3, <2>go, <4>3 DEF InitBucketInfo, TypeOK
    <3> QED
      BY <3>2, <3>3
  <2> QED
    BY <1>2, <2>1, <2>2, <2>3
<1> QED
  BY <1>1, <1>2 DEF Generate

LEMMA PassOnType ==
  ASSUME TypeOK, NEW n \in Nodes, PassOn(n)
  PROVE  TypeOK'
<1> PICK p \in passes[n] : \/ PassToEpochRunning(n, p)
                           \/ EndPause(n, p)
                           \/ CopyBucket(n, p)
                           \/ CopyRest(n, p)
                           \/ BumpRound(n, p)
                           \/ ClearChecks(n, p)
                           \/ ResetDev(n, p)
                           \/ StartNextRound(n, p)
  BY DEF PassOn
<1>p. p \in Pass
  BY DEF TypeOK
<1>drop. Drop(passes, n, p) \in [Nodes -> SUBSET Pass]
  BY <1>p, ThreadChange DEF TypeOK
<1>go. ASSUME NEW pc \in {"pause", "copy", "rest", "bump", "clear", "reset", "next"}
       PROVE  Go(passes, n, p, pc) \in [Nodes -> SUBSET Pass]
  <2>1. [p EXCEPT !.pc = pc] \in Pass
    BY <1>p DEF Pass
  <2> QED
    BY <2>1, ThreadChange DEF Go, TypeOK
<1>stages. dev[n] \in Stage /\ rdy[n] \in Stage /\ run[n] \in Stage
  BY DEF TypeOK
<1>1. CASE PassToEpochRunning(n, p)
  <2> DEFINE map == run[n].map \cup rdy[n].map
  <2>1. map \in SUBSET Commitments
    BY <1>stages, StageParts
  <2>2. [rdy[n] EXCEPT !.map = map] \in Stage
    <3> HIDE DEF map
    <3> QED
      BY <1>stages, <2>1 DEF Stage
  <2>3. run' = [run EXCEPT ![n] = [rdy[n] EXCEPT !.map = map]]
    BY <1>1, Zenon DEF PassToEpochRunning
  <2>4. run' \in [Nodes -> Stage]
    BY <2>2, <2>3 DEF TypeOK
  <2>5. rdy' \in [Nodes -> Stage]
    BY <1>1, EmptyStageType DEF PassToEpochRunning, TypeOK
  <2>6. passes' \in [Nodes -> SUBSET Pass]
    BY <1>1, <1>go DEF PassToEpochRunning
  <2>7. runEpochRound' \in [Nodes -> Rounds]
    BY <1>1 DEF PassToEpochRunning, TypeOK
  <2> QED
    BY <1>1, <2>4, <2>5, <2>6, <2>7 DEF PassToEpochRunning, TypeOK
<1>2. CASE EndPause(n, p)
  <2>1. due' \subseteq Nodes \X (Pass \cup Generator \cup Announcement \cup {SlotSleep, EndSleep})
    BY <1>2, WakeType DEF EndPause
  <2> QED
    BY <1>2, <2>1, <1>go DEF EndPause, TypeOK
<1>3. CASE CopyBucket(n, p)
  <2>1. [[rdy[n] EXCEPT !.sub = dev[n].sub] EXCEPT !.bucket = dev[n].bucket] \in Stage
    <3>1. [rdy[n] EXCEPT !.sub = dev[n].sub] \in Stage
      BY <1>stages DEF Stage
    <3> QED
      BY <3>1, <1>stages DEF Stage
  <2>2. [rdy[n] EXCEPT !.sub = dev[n].sub, !.bucket = dev[n].bucket] \in Stage
    BY <2>1, Zenon
  <2>3. rdy' = [rdy EXCEPT ![n] = [rdy[n] EXCEPT !.sub = dev[n].sub, !.bucket = dev[n].bucket]]
    BY <1>3, Zenon DEF CopyBucket
  <2>4. rdy' \in [Nodes -> Stage]
    BY <2>2, <2>3 DEF TypeOK
  <2> QED
    BY <1>3, <2>4, <1>go DEF CopyBucket, TypeOK
<1>4. CASE CopyRest(n, p)
  <2> DEFINE map == rdy[n].map \cup dev[n].map
             stage == [rdy[n] EXCEPT !.hash = dev[n].hash, !.pos = dev[n].pos, !.map = map]
  <2>1. [rdy[n] EXCEPT !.hash = dev[n].hash] \in Stage
    BY <1>stages DEF Stage
  <2>2. [[rdy[n] EXCEPT !.hash = dev[n].hash] EXCEPT !.pos = dev[n].pos] \in Stage
    BY <2>1, <1>stages DEF Stage
  <2>3. map \in SUBSET Commitments
    BY <1>stages, StageParts
  <2>4. stage \in Stage
    <3> HIDE DEF map
    <3>1. [[[rdy[n] EXCEPT !.hash = dev[n].hash] EXCEPT !.pos = dev[n].pos]
             EXCEPT !.map = map] \in Stage
      BY <2>2, <2>3 DEF Stage
    <3> QED
      BY <3>1, Zenon DEF stage
  <2>5. rdy' = [rdy EXCEPT ![n] = stage]
    BY <1>4, Zenon DEF CopyRest
  <2>6. rdy' \in [Nodes -> Stage]
    <3> HIDE DEF stage
    <3> QED
      BY <2>4, <2>5 DEF TypeOK
  <2> QED
    BY <1>4, <2>6, <1>go DEF CopyRest, TypeOK
<1>5. CASE BumpRound(n, p)
  <2>1. commitmentGenEpochRound' \in [Nodes -> Rounds]
    BY <1>5, BoundsAssumption DEF BumpRound, NextRound, Rounds, TypeOK
  <2> QED
    BY <1>5, <2>1, <1>go DEF BumpRound, TypeOK
<1>6. CASE ClearChecks(n, p)
  BY <1>6, <1>go DEF ClearChecks, TypeOK
<1>7. CASE ResetDev(n, p)
  <2>1. dev' \in [Nodes -> Stage]
    BY <1>7, EmptyStageType DEF ResetDev, Emptied, TypeOK
  <2> QED
    BY <1>7, <2>1, <1>go, <1>drop DEF ResetDev, TypeOK
<1>8. CASE StartNextRound(n, p)
  <2>1. InitHandler("stream", commitmentGenEpochRound[n]) \in Handler
    BY DEF InitHandler, Handler, Threads, TypeOK
  <2>2. handlers' \in [Nodes -> SUBSET Handler]
    BY <1>8, <2>1, ThreadStart DEF StartNextRound, TypeOK
  <2>3. due' \subseteq Nodes \X (Pass \cup Generator \cup Announcement \cup {SlotSleep, EndSleep})
    BY <1>8, WakeType DEF StartNextRound
  <2> QED
    BY <1>8, <2>2, <2>3, <1>drop DEF StartNextRound, TypeOK
<1> QED
  BY <1>1, <1>2, <1>3, <1>4, <1>5, <1>6, <1>7, <1>8

LEMMA ScheduleType ==
  ASSUME TypeOK, NEW n \in Nodes, Schedule(n)
  PROVE  TypeOK'
<1>1. CASE StartSchedule(n)
  BY <1>1 DEF StartSchedule, TypeOK
<1>2. CASE GenerateBlocks(n)
  <2>1. due' \subseteq Nodes \X (Pass \cup Generator \cup Announcement \cup {SlotSleep, EndSleep})
    BY <1>2, WakeType DEF GenerateBlocks
  <2>2. Led(n) \subseteq Lead
    <3>1. SUFFICES ASSUME NEW row \in LedRows(n)
                   PROVE  [col |-> absRound[n] + 1, row |-> row, node |-> n,
                           c |-> run[n].bucket[Index(n, row)]] \in Lead
      BY DEF Led
    <3>2. row \in Nat /\ Index(n, row) \in DOMAIN run[n].bucket
      BY <3>1, BoundsAssumption DEF LedRows
    <3>3. run[n].bucket \in Seq(Commitments)
      BY StageParts DEF TypeOK
    <3>4. run[n].bucket[Index(n, row)] \in Commitments
      BY <3>2, <3>3
    <3>5. absRound[n] + 1 \in Nat
      BY DEF TypeOK
    <3> QED
      BY <3>2, <3>4, <3>5 DEF Lead
  <2>3. leads' \subseteq Lead
    BY <1>2, <2>2 DEF GenerateBlocks, TypeOK
  <2>4. slot' \in [Nodes -> Nat] /\ absRound' \in [Nodes -> Nat]
    BY <1>2 DEF GenerateBlocks, TypeOK
  <2>5. sched' \in [Nodes -> {"idle", "slot", "end"}]
    BY <1>2 DEF GenerateBlocks, TypeOK
  <2>6. handlers' \in [Nodes -> SUBSET Handler]
    <3>1. InitHandler("scheduler", commitmentGenEpochRound[n]) \in Handler
      BY DEF InitHandler, Handler, Threads, TypeOK
    <3>2. [handlers EXCEPT ![n] = @ \cup {InitHandler("scheduler", commitmentGenEpochRound[n])}]
            \in [Nodes -> SUBSET Handler]
      BY <3>1, ThreadStart DEF TypeOK
    <3>3. \/ handlers' = handlers
          \/ handlers' = [handlers EXCEPT ![n] = @ \cup
                            {InitHandler("scheduler", commitmentGenEpochRound[n])}]
      BY <1>2, Zenon DEF GenerateBlocks
    <3> QED
      BY <3>2, <3>3 DEF TypeOK
  <2>7. UNCHANGED <<networkVars, alive, roundVars, epochRoundsGenerated, bucketHashesCheck, dev,
                    stageVars, passes, generators, announcing>>
    BY <1>2, Zenon DEF GenerateBlocks
  <2> QED
    BY <2>1, <2>3, <2>4, <2>5, <2>6, <2>7 DEF TypeOK
<1>3. CASE EndEpoch(n)
  <2>1. due' \subseteq Nodes \X (Pass \cup Generator \cup Announcement \cup {SlotSleep, EndSleep})
    BY <1>3, WakeType DEF EndEpoch
  <2>2. Shuffled(dev[n], FALSE) \in Stage
    BY ShuffledType DEF TypeOK
  <2>3. dev' \in [Nodes -> Stage] /\ dev'[n] = Shuffled(dev[n], FALSE)
    BY <1>3, <2>2 DEF EndEpoch, TypeOK
  <2>4. dev'[n].hash \in Hashes /\ Len(dev'[n].bucket) \in Nat
    BY <2>2, <2>3, StageParts
  <2>5. Check(n, commitmentGenEpochRound[n], dev'[n].hash, Len(dev'[n].bucket)) \in Messages
    BY <2>4, CheckType DEF TypeOK
  <2>6. \/ UNCHANGED <<net, sentChecks>>
        \/ /\ CountCheck
           /\ Broadcast(n, Check(n, commitmentGenEpochRound[n], dev'[n].hash,
                                 Len(dev'[n].bucket)))
    BY <1>3, Zenon DEF EndEpoch
  <2>7. net' \in [Nodes -> SUBSET Messages] /\ sentChecks' \in Nat
    <3> DEFINE m == Check(n, commitmentGenEpochRound[n], dev'[n].hash, Len(dev'[n].bucket))
    <3>1. m \in Messages
      BY <2>5
    <3>2. UNCHANGED <<net, sentChecks>> \/ (CountCheck /\ Broadcast(n, m))
      BY <2>6
    <3> HIDE DEF m
    <3>3. Broadcast(n, m) => net' \in [Nodes -> SUBSET Messages]
      BY <3>1, NetChange
    <3>4. net' \in [Nodes -> SUBSET Messages]
      BY <3>2, <3>3 DEF TypeOK
    <3>5. sentChecks' \in Nat
      BY <3>2 DEF CountCheck, TypeOK
    <3> QED
      BY <3>4, <3>5
  <2>8. sched' \in [Nodes -> {"idle", "slot", "end"}] /\ slot' \in [Nodes -> Nat]
    BY <1>3 DEF EndEpoch, TypeOK
  <2>9. UNCHANGED <<starts, alive, roundVars, epochRoundsGenerated, bucketHashesCheck, stageVars,
                    threadVars, absRound, leads>>
    BY <1>3, Zenon DEF EndEpoch
  <2>10. dev' \in [Nodes -> Stage]
    BY <2>3
  <2> HIDE DEF Shuffled, Check
  <2> QED
    BY <2>1, <2>7, <2>8, <2>9, <2>10 DEF TypeOK
<1> QED
  BY <1>1, <1>2, <1>3 DEF Schedule

LEMMA StartType ==
  ASSUME TypeOK, StartBlockchain
  PROVE  TypeOK'
<1>1. [type |-> "init", round |-> 0, id |-> starts] \in Messages
  BY BoundsAssumption DEF Messages, InitMessage, Rounds, TypeOK
<1>2. InitHandler("command", 0) \in Handler
  BY BoundsAssumption DEF InitHandler, Handler, Threads, Rounds
<1>3. net' \in [Nodes -> SUBSET Messages]
  BY <1>1, NodesAssumption, NetChange DEF StartBlockchain
<1>4. handlers' \in [Nodes -> SUBSET Handler]
  BY <1>2, NodesAssumption, ThreadStart DEF StartBlockchain, TypeOK
<1> QED
  BY <1>3, <1>4 DEF StartBlockchain, TypeOK

LEMMA ClockType ==
  ASSUME TypeOK, AdvanceClock
  PROVE  TypeOK'
<1>1. Sleepers \subseteq Nodes \X (Pass \cup Generator \cup Announcement \cup {SlotSleep, EndSleep})
  BY DEF Sleepers, TypeOK
<1>2. SlotSleepers \subseteq Nodes \X (Pass \cup Generator \cup Announcement \cup {SlotSleep, EndSleep})
  BY DEF SlotSleepers
<1>3. due' = Sleepers \/ due' = SlotSleepers
  BY Zenon DEF AdvanceClock
<1>4. UNCHANGED <<networkVars, alive, roundVars, epochRoundsGenerated, bucketHashesCheck,
                  dev, stageVars, threadVars, scheduleVars>>
  BY Zenon DEF AdvanceClock
<1> QED
  BY <1>1, <1>2, <1>3, <1>4 DEF TypeOK

LEMMA TypeStep ==
  ASSUME TypeOK, [Next]_vars
  PROVE  TypeOK'
<1>1. CASE StartBlockchain
  BY <1>1, StartType
<1>2. CASE AdvanceClock
  BY <1>2, ClockType
<1>3. ASSUME NEW n \in Nodes, NodeStep(n)
      PROVE  TypeOK'
  BY <1>3, ReceiveType, HandleType, GenerateType, PassOnType, ScheduleType DEF NodeStep
<1>4. CASE UNCHANGED vars
  BY <1>4 DEF vars, TypeOK
<1> QED
  BY <1>1, <1>2, <1>3, <1>4 DEF Next

(***************************************************************************)
(* Whatever the network size, the interleaving and the timing, every       *)
(* variable of the leader election keeps its type.                         *)
(***************************************************************************)
THEOREM TypeCorrect == Spec => []TypeOK
<1>1. Init => TypeOK
  BY InitType
<1>2. TypeOK /\ [Next]_vars => TypeOK'
  BY TypeStep
<1> QED
  BY <1>1, <1>2, PTL DEF Spec

-----------------------------------------------------------------------------
(***************************************************************************)
(* Where a pass p of node n stands: which round the node generates for,    *)
(* and which rounds its ready and running epochs hold, between the steps   *)
(* of passToEpochRunning and passToEpochReady.                             *)
(***************************************************************************)
PassPlace(n, p) ==
  /\ p.pc \in {"running", "pause", "copy", "rest", "bump"} => p.round = commitmentGenEpochRound[n]
  /\ p.pc = "clear" => p.round + 1 = commitmentGenEpochRound[n]
  /\ p.pc = "running" =>
       /\ p.round >= 1
       /\ rdyEpochRound[n] = p.round - 1
       /\ p.round >= 2 => runEpochRound[n] = p.round - 2
  /\ p.pc = "pause" => p.round = 1
  /\ p.pc \in {"pause", "copy", "rest"} /\ p.round >= 1 =>
       rdyEpochRound[n] = p.round - 1 /\ runEpochRound[n] = p.round - 1
  /\ p.pc \in {"bump", "clear"} =>
       /\ rdyEpochRound[n] = p.round
       /\ p.round >= 1 => runEpochRound[n] = p.round - 1

\* Where the rounds stand while no pass is under way
RestPlace(n) ==
  /\ commitmentGenEpochRound[n] >= 1 => rdyEpochRound[n] = commitmentGenEpochRound[n] - 1
  /\ commitmentGenEpochRound[n] >= 2 => runEpochRound[n] = commitmentGenEpochRound[n] - 2

(***************************************************************************)
(* The inductive invariant of one node.  OnePassPerList alone is not       *)
(* inductive for StagesInStep: that the three rounds are in step again     *)
(* when a pass ends follows from where they stand at each of its steps.    *)
(***************************************************************************)
NodePassInv(n) ==
  /\ \A p, q \in Gathered(n) : p = q
  /\ Gathered(n) # {} => Len(bucketHashesCheck[n]) >= N - 1
  /\ \A p \in Gathered(n) : PassPlace(n, p)
  /\ Gathered(n) = {} => RestPlace(n)

PassInv == TypeOK /\ \A n \in Nodes : NodePassInv(n)

LEMMA PassInit == ASSUME Init PROVE \A n \in Nodes : NodePassInv(n)
BY DEF Init, NodePassInv, Gathered, RestPlace

\* A node whose pass and whose rounds a step leaves alone, and whose list it does not shorten
LEMMA NodeFrame ==
  ASSUME NEW k \in Nodes, TypeOK, TypeOK', NodePassInv(k),
         passes'[k] = passes[k],
         commitmentGenEpochRound'[k] = commitmentGenEpochRound[k],
         rdyEpochRound'[k] = rdyEpochRound[k],
         runEpochRound'[k] = runEpochRound[k],
         Len(bucketHashesCheck'[k]) >= Len(bucketHashesCheck[k])
  PROVE  NodePassInv(k)'
<1>1. Gathered(k)' = Gathered(k)
  BY DEF Gathered
<1>2. \A p : PassPlace(k, p)' <=> PassPlace(k, p)
  BY DEF PassPlace
<1>3. RestPlace(k)' <=> RestPlace(k)
  BY DEF RestPlace
<1>4. Len(bucketHashesCheck[k]) \in Nat /\ Len(bucketHashesCheck'[k]) \in Nat /\ N \in Nat
  BY NodesAssumption DEF TypeOK
<1> QED
  BY <1>1, <1>2, <1>3, <1>4 DEF NodePassInv

\* The steps that have nothing to do with passing an epoch on
LEMMA OtherSteps ==
  ASSUME PassInv, TypeOK',
         UNCHANGED <<passes, commitmentGenEpochRound, rdyEpochRound, runEpochRound,
                     bucketHashesCheck>>
  PROVE  \A k \in Nodes : NodePassInv(k)'
<1>1. TAKE k \in Nodes
<1>2. Len(bucketHashesCheck'[k]) >= Len(bucketHashesCheck[k])
  BY DEF PassInv, TypeOK
<1> QED
  BY <1>2, NodeFrame DEF PassInv

\* A pass moves on: it is the only one, and stays the only one or leaves the list
LEMMA PassMoves ==
  ASSUME TypeOK, NEW n \in Nodes, NodePassInv(n), NEW p \in Gathered(n),
         NEW pc \in {"running", "pause", "copy", "rest", "bump", "clear", "reset"},
         passes' = Go(passes, n, p, pc)
  PROVE  /\ Gathered(n) = {p}
         /\ pc # "reset" => Gathered(n)' = {[p EXCEPT !.pc = pc]}
         /\ pc = "reset" => Gathered(n)' = {}
         /\ \A k \in Nodes \ {n} : passes'[k] = passes[k]
<1>1. Gathered(n) = {p}
  BY DEF NodePassInv
<1>2. /\ passes'[n] = (passes[n] \ {p}) \cup {[p EXCEPT !.pc = pc]}
      /\ \A k \in Nodes \ {n} : passes'[k] = passes[k]
  BY DEF Go, Swap, TypeOK
<1>3. p \in Pass /\ [p EXCEPT !.pc = pc].pc = pc
  BY DEF Gathered, TypeOK, Pass
<1> DEFINE q == [p EXCEPT !.pc = pc]
<1>4. \A x \in passes[n] \ {p} :
        x.pc \notin {"running", "pause", "copy", "rest", "bump", "clear"}
  BY <1>1 DEF Gathered
<1> HIDE DEF q
<1>5. passes'[n] = (passes[n] \ {p}) \cup {q} /\ q.pc = pc
  BY <1>2, <1>3 DEF q
<1>6. pc # "reset" => Gathered(n)' = {q}
  BY <1>4, <1>5 DEF Gathered
<1>7. pc = "reset" => Gathered(n)' = {}
  BY <1>4, <1>5 DEF Gathered
<1> QED
  BY <1>1, <1>2, <1>6, <1>7 DEF q

\* A hash joins the list and no pass begins
LEMMA CountKeepsPass ==
  ASSUME PassInv, TypeOK', NEW n \in Nodes, NEW m \in net[n], AcceptBucketCheck(n, m),
         UNCHANGED <<passes, commitmentGenEpochRound, rdyEpochRound, runEpochRound>>
  PROVE  \A k \in Nodes : NodePassInv(k)'
<1>1. TAKE k \in Nodes
<1>2. m \in CheckMessage
  BY DEF PassInv, TypeOK, Messages, InitMessage, CommitmentMessage, AcceptBucketCheck
<1>3. m.hash \in Hashes
  BY <1>2 DEF CheckMessage
<1>4. bucketHashesCheck' = [bucketHashesCheck EXCEPT ![n] = Append(@, m.hash)]
  BY DEF AcceptBucketCheck, Collected
<1>5. Len(bucketHashesCheck'[k]) >= Len(bucketHashesCheck[k])
  BY <1>3, <1>4 DEF PassInv, TypeOK
<1> QED
  BY <1>5, NodeFrame DEF PassInv

\* The hash that makes the list complete arrives: no pass was under way, one begins
LEMMA CompleteBeginsPass ==
  ASSUME PassInv, TypeOK', NEW n \in Nodes, NEW m \in net[n], AcceptBucketCheck(n, m),
         Complete(Collected(n, m)), BeginPass(n),
         UNCHANGED <<commitmentGenEpochRound, rdyEpochRound, runEpochRound>>
  PROVE  \A k \in Nodes : NodePassInv(k)'
<1>1. TAKE k \in Nodes
<1>2. m \in CheckMessage
  BY DEF PassInv, TypeOK, Messages, InitMessage, CommitmentMessage, AcceptBucketCheck
<1>3. m.hash \in Hashes
  BY <1>2 DEF CheckMessage
<1>4. /\ bucketHashesCheck' = [bucketHashesCheck EXCEPT ![n] = Append(@, m.hash)]
      /\ Len(Append(bucketHashesCheck[n], m.hash)) = N - 1
  BY DEF AcceptBucketCheck, Collected, Complete
<1>5. /\ Len(bucketHashesCheck'[n]) = N - 1
      /\ Len(bucketHashesCheck[n]) < N - 1
      /\ k # n => bucketHashesCheck'[k] = bucketHashesCheck[k]
  BY <1>3, <1>4, NodesAssumption DEF PassInv, TypeOK
<1>6. Gathered(n) = {}
  <2>1. Gathered(n) # {} => Len(bucketHashesCheck[n]) >= N - 1
    BY DEF PassInv, NodePassInv
  <2>2. Len(bucketHashesCheck[n]) \in Nat /\ N \in Nat
    BY NodesAssumption DEF PassInv, TypeOK
  <2> QED
    BY <1>5, <2>1, <2>2
<1> PICK r : r = commitmentGenEpochRound[n]
  OBVIOUS
<1> PICK q : q = [pc |-> FirstPassStep(r), round |-> r]
  OBVIOUS
<1>7. /\ passes'[n] = passes[n] \cup {q}
      /\ k # n => passes'[k] = passes[k]
  BY DEF BeginPass, PassInv, TypeOK
<1>8. q.pc \in {"copy", "running"} /\ q.round = r /\ (q.pc = "copy" <=> r = 0)
  BY DEF FirstPassStep
<1>9. r \in Nat
  BY BoundsAssumption DEF PassInv, TypeOK, Rounds
<1>10. CASE k # n
  <2>1. Len(bucketHashesCheck'[k]) >= Len(bucketHashesCheck[k])
    BY <1>5, <1>10 DEF PassInv, TypeOK
  <2> QED
    BY <1>7, <1>10, <2>1, NodeFrame DEF PassInv
<1>11. CASE k = n
  <2>1. RestPlace(n)
    BY <1>6 DEF PassInv, NodePassInv
  <2>2. Gathered(n)' = {q}
    BY <1>6, <1>7, <1>8 DEF Gathered
  <2>3. PassPlace(n, q)'
    BY <2>1, <1>8, <1>9 DEF PassPlace, RestPlace
  <2>4. Len(bucketHashesCheck[n])' >= N - 1
    BY <1>5, NodesAssumption DEF PassInv, TypeOK
  <2> QED
    BY <1>11, <2>2, <2>3, <2>4, Zenon DEF NodePassInv
<1> QED
  BY <1>10, <1>11

\* A pass that moves on to pc, if that is where the rounds of its node have got to
LEMMA MovedPass ==
  ASSUME PassInv, TypeOK', NEW n \in Nodes, NEW p \in Gathered(n),
         NEW pc \in {"running", "pause", "copy", "rest", "bump", "clear"},
         passes' = Go(passes, n, p, pc),
         PassPlace(n, [p EXCEPT !.pc = pc])',
         UNCHANGED bucketHashesCheck,
         \A k \in Nodes \ {n} : /\ commitmentGenEpochRound'[k] = commitmentGenEpochRound[k]
                                /\ rdyEpochRound'[k] = rdyEpochRound[k]
                                /\ runEpochRound'[k] = runEpochRound[k]
  PROVE  \A k \in Nodes : NodePassInv(k)'
<1>1. TAKE k \in Nodes
<1> PICK q : q = [p EXCEPT !.pc = pc]
  OBVIOUS
<1>2. /\ Gathered(n) = {p}
      /\ Gathered(n)' = {q}
      /\ \A j \in Nodes \ {n} : passes'[j] = passes[j]
  BY PassMoves DEF PassInv
<1>3. CASE k # n
  <2>1. Len(bucketHashesCheck'[k]) >= Len(bucketHashesCheck[k])
    BY DEF PassInv, TypeOK
  <2> QED
    BY <1>2, <1>3, <2>1, NodeFrame DEF PassInv
<1>4. CASE k = n
  <2>1. PassPlace(n, q)'
    OBVIOUS
  <2>2. (Len(bucketHashesCheck[n]) >= N - 1)'
    BY <1>2 DEF PassInv, NodePassInv
  <2> QED
    BY <1>2, <1>4, <2>1, <2>2, Zenon DEF NodePassInv
<1> QED
  BY <1>3, <1>4

\* The steps of passToEpochRunning and passToEpochReady
LEMMA PassSteps ==
  ASSUME PassInv, TypeOK', NEW n \in Nodes, NEW p \in passes[n],
         \/ PassToEpochRunning(n, p) \/ EndPause(n, p) \/ CopyBucket(n, p)
         \/ CopyRest(n, p) \/ BumpRound(n, p) \/ ClearChecks(n, p)
         \/ ResetDev(n, p) \/ StartNextRound(n, p)
  PROVE  \A k \in Nodes : NodePassInv(k)'
<1> DEFINE at(pc) == [p EXCEPT !.pc = pc]
<1>0. /\ p \in Pass /\ NodePassInv(n)
      /\ commitmentGenEpochRound[n] \in Nat /\ p.round \in Nat
      /\ \A pc : at(pc).round = p.round /\ at(pc).pc = pc
  BY BoundsAssumption DEF PassInv, TypeOK, Pass, Rounds
<1>1. CASE PassToEpochRunning(n, p)
  <2>1. p \in Gathered(n)
    BY <1>1 DEF PassToEpochRunning, Gathered
  <2>2. PassPlace(n, p) /\ p.pc = "running"
    BY <1>0, <1>1, <2>1 DEF NodePassInv, PassToEpochRunning
  <2>3. /\ runEpochRound' = [runEpochRound EXCEPT ![n] = rdyEpochRound[n]]
        /\ UNCHANGED <<rdyEpochRound, commitmentGenEpochRound, bucketHashesCheck>>
        /\ passes' = Go(passes, n, p, IF p.round = 1 THEN "pause" ELSE "copy")
    BY <1>1 DEF PassToEpochRunning
  <2>4. runEpochRound'[n] = rdyEpochRound[n]
    BY <2>3 DEF PassInv, TypeOK
  <2>5. p.round = 1 => PassPlace(n, at("pause"))'
    BY <1>0, <2>2, <2>3, <2>4 DEF PassPlace
  <2>6. p.round # 1 => PassPlace(n, at("copy"))'
    BY <1>0, <2>2, <2>3, <2>4 DEF PassPlace
  <2> QED
    BY <2>1, <2>3, <2>5, <2>6, MovedPass DEF PassInv, TypeOK
<1>2. CASE EndPause(n, p)
  <2>1. p \in Gathered(n)
    BY <1>2 DEF EndPause, Gathered
  <2>2. PassPlace(n, p) /\ p.pc = "pause"
    BY <1>0, <1>2, <2>1 DEF NodePassInv, EndPause
  <2>3. /\ UNCHANGED <<rdyEpochRound, runEpochRound, commitmentGenEpochRound, bucketHashesCheck>>
        /\ passes' = Go(passes, n, p, "copy")
    BY <1>2 DEF EndPause
  <2>4. PassPlace(n, at("copy"))'
    BY <1>0, <2>2, <2>3 DEF PassPlace
  <2> QED
    BY <2>1, <2>3, <2>4, MovedPass
<1>3. CASE CopyBucket(n, p)
  <2>1. p \in Gathered(n)
    BY <1>3 DEF CopyBucket, Gathered
  <2>2. PassPlace(n, p) /\ p.pc = "copy"
    BY <1>0, <1>3, <2>1 DEF NodePassInv, CopyBucket
  <2>3. /\ UNCHANGED <<rdyEpochRound, runEpochRound, commitmentGenEpochRound, bucketHashesCheck>>
        /\ passes' = Go(passes, n, p, "rest")
    BY <1>3 DEF CopyBucket
  <2>4. PassPlace(n, at("rest"))'
    BY <1>0, <2>2, <2>3 DEF PassPlace
  <2> QED
    BY <2>1, <2>3, <2>4, MovedPass
<1>4. CASE CopyRest(n, p)
  <2>1. p \in Gathered(n)
    BY <1>4 DEF CopyRest, Gathered
  <2>2. PassPlace(n, p) /\ p.pc = "rest"
    BY <1>0, <1>4, <2>1 DEF NodePassInv, CopyRest
  <2>3. /\ rdyEpochRound' = [rdyEpochRound EXCEPT ![n] = commitmentGenEpochRound[n]]
        /\ UNCHANGED <<runEpochRound, commitmentGenEpochRound, bucketHashesCheck>>
        /\ passes' = Go(passes, n, p, "bump")
    BY <1>4 DEF CopyRest
  <2>4. rdyEpochRound'[n] = commitmentGenEpochRound[n]
    BY <2>3 DEF PassInv, TypeOK
  <2>5. PassPlace(n, at("bump"))'
    BY <1>0, <2>2, <2>3, <2>4 DEF PassPlace
  <2> QED
    BY <2>1, <2>3, <2>5, MovedPass DEF PassInv, TypeOK
<1>5. CASE BumpRound(n, p)
  <2>1. p \in Gathered(n)
    BY <1>5 DEF BumpRound, Gathered
  <2>2. PassPlace(n, p) /\ p.pc = "bump"
    BY <1>0, <1>5, <2>1 DEF NodePassInv, BumpRound
  <2>3. /\ commitmentGenEpochRound' = [commitmentGenEpochRound EXCEPT ![n] = @ + 1]
        /\ UNCHANGED <<rdyEpochRound, runEpochRound, bucketHashesCheck>>
        /\ passes' = Go(passes, n, p, "clear")
    BY <1>5 DEF BumpRound, NextRound
  <2>4. commitmentGenEpochRound'[n] = commitmentGenEpochRound[n] + 1
    BY <2>3 DEF PassInv, TypeOK
  <2>5. PassPlace(n, at("clear"))'
    BY <1>0, <2>2, <2>3, <2>4 DEF PassPlace
  <2> QED
    BY <2>1, <2>3, <2>5, MovedPass DEF PassInv, TypeOK
<1>6. CASE ClearChecks(n, p)
  <2>1. p \in Gathered(n) /\ PassPlace(n, p) /\ p.pc = "clear"
    BY <1>0, <1>6 DEF ClearChecks, Gathered, NodePassInv
  <2>2. /\ UNCHANGED <<rdyEpochRound, runEpochRound, commitmentGenEpochRound>>
        /\ passes' = Go(passes, n, p, "reset")
        /\ bucketHashesCheck' = [bucketHashesCheck EXCEPT ![n] = <<>>]
    BY <1>6 DEF ClearChecks
  <2>3. Gathered(n)' = {} /\ \A k \in Nodes \ {n} : passes'[k] = passes[k]
    BY <1>0, <2>1, <2>2, PassMoves DEF PassInv
  <2>4. RestPlace(n)'
    BY <1>0, <2>1, <2>2 DEF PassPlace, RestPlace
  <2>5. NodePassInv(n)'
    BY <2>3, <2>4 DEF NodePassInv
  <2>6. ASSUME NEW k \in Nodes, k # n PROVE NodePassInv(k)'
    <3>1. Len(bucketHashesCheck'[k]) >= Len(bucketHashesCheck[k])
      BY <2>2, <2>6 DEF PassInv, TypeOK
    <3> QED
      BY <2>2, <2>3, <2>6, <3>1, NodeFrame DEF PassInv
  <2> QED
    BY <2>5, <2>6
<1>7. CASE ResetDev(n, p) \/ StartNextRound(n, p)
  <2>1. /\ UNCHANGED <<rdyEpochRound, runEpochRound, commitmentGenEpochRound, bucketHashesCheck>>
        /\ p.pc \in {"reset", "next"}
        /\ passes' = Go(passes, n, p, "next") \/ passes' = Drop(passes, n, p)
    BY <1>7 DEF ResetDev, StartNextRound
  <2>2. ASSUME NEW k \in Nodes PROVE Gathered(k)' = Gathered(k)
    <3>1. \A x : x.pc \in {"reset", "next"} =>
            x.pc \notin {"running", "pause", "copy", "rest", "bump", "clear"}
      OBVIOUS
    <3> PICK q : q = [p EXCEPT !.pc = "next"]
      OBVIOUS
    <3>2. q.pc = "next"
      BY <1>0
    <3>3. passes'[k] = passes[k] \/ passes'[k] = (passes[k] \ {p}) \cup {q}
            \/ passes'[k] = passes[k] \ {p}
      BY <2>1 DEF Go, Swap, Drop, PassInv, TypeOK
    <3> QED
      BY <2>1, <3>1, <3>2, <3>3 DEF Gathered
  <2>3. TAKE k \in Nodes
  <2>4. /\ \A q : PassPlace(k, q)' <=> PassPlace(k, q)
        /\ RestPlace(k)' <=> RestPlace(k)
    BY <2>1 DEF PassPlace, RestPlace
  <2>5. NodePassInv(k)
    BY DEF PassInv
  <2> QED
    BY <2>1, <2>2, <2>4, <2>5, Zenon DEF NodePassInv
<1> QED
  BY <1>1, <1>2, <1>3, <1>4, <1>5, <1>6, <1>7

LEMMA ReceiveKeepsPass ==
  ASSUME PassInv, TypeOK', NEW n \in Nodes, Receive(n)
  PROVE  \A k \in Nodes : NodePassInv(k)'
<1>1. PICK m \in net[n] :
        \/ ReceiveInit(n, m) \/ ReceiveCommitment(n, m) \/ RetryBucketCheck(n, m)
        \/ DropBucketCheck(n, m) \/ CountBucketCheck(n, m)
        \/ CompleteBucketCheck(n, m) \/ FailBucketCheck(n, m)
  BY DEF Receive
<1>2. CASE \/ ReceiveInit(n, m) \/ ReceiveCommitment(n, m)
           \/ RetryBucketCheck(n, m) \/ DropBucketCheck(n, m)
  BY <1>2, OtherSteps
     DEF ReceiveInit, ReceiveCommitment, RetryBucketCheck, DropBucketCheck
<1>3. CASE CountBucketCheck(n, m)
  BY <1>3, CountKeepsPass DEF CountBucketCheck
<1>4. CASE CompleteBucketCheck(n, m)
  BY <1>4, CompleteBeginsPass DEF CompleteBucketCheck
<1>5. CASE FailBucketCheck(n, m)
  BY <1>5, CountKeepsPass, CompleteBeginsPass DEF FailBucketCheck
<1> QED
  BY <1>1, <1>2, <1>3, <1>4, <1>5

LEMMA PassStep ==
  ASSUME PassInv, [Next]_vars
  PROVE  PassInv'
<1>1. TypeOK'
  BY TypeStep DEF PassInv
<1>2. CASE StartBlockchain \/ AdvanceClock \/ UNCHANGED vars
  BY <1>1, <1>2, OtherSteps DEF StartBlockchain, AdvanceClock, vars, PassInv
<1>3. ASSUME NEW n \in Nodes, NodeStep(n) PROVE \A k \in Nodes : NodePassInv(k)'
  <2>1. CASE Receive(n)
    BY <1>1, <2>1, ReceiveKeepsPass
  <2>2. CASE Handle(n)
    BY <1>1, <2>2, OtherSteps
       DEF Handle, InsertCommitment, CheckRound, CheckGenerated, MarkGenerated
  <2>3. CASE Generate(n)
    BY <1>1, <2>3, OtherSteps
       DEF Generate, ProduceCommitment, StoreCommitment, InitBucketInfo, AnnounceBucket
  <2>4. CASE PassOn(n)
    BY <1>1, <2>4, PassSteps DEF PassOn
  <2>5. CASE Schedule(n)
    BY <1>1, <2>5, OtherSteps DEF Schedule, StartSchedule, GenerateBlocks, EndEpoch
  <2> QED
    BY <1>3, <2>1, <2>2, <2>3, <2>4, <2>5 DEF NodeStep
<1> QED
  BY <1>1, <1>2, <1>3 DEF Next, PassInv

LEMMA PassInvariant == Spec => []PassInv
<1>1. Init => PassInv
  BY InitType, PassInit DEF PassInv
<1>2. PassInv /\ [Next]_vars => PassInv'
  BY PassStep
<1> QED
  BY <1>1, <1>2, PTL DEF Spec

(***************************************************************************)
(* However many BUCKET_CHECK messages arrive and in whatever order, a node *)
(* passes an epoch on at most once per complete list of hashes.            *)
(***************************************************************************)
THEOREM PassedOnce == Spec => []OnePassPerList
<1>1. PassInv => OnePassPerList
  BY DEF PassInv, NodePassInv, OnePassPerList
<1> QED
  BY <1>1, PassInvariant, PTL

(***************************************************************************)
(* Between two passes the ready and the running epoch are the two rounds   *)
(* before the one being generated.                                         *)
(***************************************************************************)
THEOREM StagesStayInStep == Spec => []StagesInStep
<1>1. PassInv => StagesInStep
  BY DEF PassInv, NodePassInv, RestPlace, StagesInStep
<1> QED
  BY <1>1, PassInvariant, PTL


-----------------------------------------------------------------------------
(* A timely network: sleeps outlast messages, goroutines run until they sleep *)

TimelyNetwork == Timely /\ ~Preemptive /\ N >= 2 /\ EpochRounds >= 3
\* The commitments of a round that node n makes, and whether the bounds allow the round
Own(n, r) == {c \in Expected(r) : c[1] = n}
Real(r) == Expected(r) \subseteq Commitments

\* The order of the commitments of a round that every node arrives at
Order(r) == Arrange(IF r < 2 THEN "genesis" ELSE "key", Expected(r))

Final(n, r) ==
  [sub |-> Own(n, r), bucket |-> Order(r), map |-> Expected(r), hash |-> Hash(Order(r)),
   pos |-> {i \in DOMAIN Order(r) : Order(r)[i] \in Own(n, r)}]

\* All commitments of the round have been collected, in any order
Full(n, r) ==
  /\ dev[n].sub = Own(n, r) /\ dev[n].map = Expected(r)
  /\ Range(dev[n].bucket) = Expected(r) /\ Len(dev[n].bucket) = Capacity

Ready(n, q) ==
  IF q < 0 THEN rdy[n] = EmptyStage
  ELSE Real(q) /\ rdy[n] = Final(n, q) /\ rdyEpochRound[n] = q

Running(n, q) ==
  IF q < 0 THEN run[n] = EmptyStage
  ELSE /\ Real(q) /\ runEpochRound[n] = q
       /\ run[n].sub = Own(n, q) /\ run[n].bucket = Order(q) /\ run[n].pos = Final(n, q).pos
       /\ \A s \in 0 .. q : Expected(s) \subseteq run[n].map

\* A node that generates round r, outside of a pass
Behind(n, r) ==
  commitmentGenEpochRound[n] = r /\ Ready(n, r - 1) /\ Running(n, r - 2)

Generated(n) == Range(epochRoundsGenerated[n])

\* The sleeps of the rounds
Info(r) == [pc |-> "info", round |-> r, copy |-> 1, i |-> MaxVar]
Ann(r) == [pc |-> "announce", round |-> r, hash |-> Hash(Order(r)), len |-> Capacity]
NextPass == [pc |-> "next", round |-> 0]
PausePass == [pc |-> "pause", round |-> 1]

Unscheduled(n) == sched[n] = "idle" /\ slot[n] = 0 /\ absRound[n] = 0

\* The repeated START_BLOCKCHAIN commands that may be under way at any time
InitOnly(n) == \A m \in net[n] : m.type = "init" /\ m.round = 0
OnceOnly(n) == \A h \in handlers[n] : h.pc = "once" /\ h.round = 0

\* What node n has remembered and what it has broadcast of its round
Produced(n, r) ==
  {c \in Own(n, r) : r \in Generated(n)
     /\ \A g \in generators[n] : g.pc = "info" \/ c[3] < g.i \/ (g.pc = "store" /\ c[3] = g.i)}

Made(n, r) ==
  {c \in Own(n, r) : r \in Generated(n)
                       /\ \A g \in generators[n] : g.pc = "info" \/ c[3] < g.i}

AllMade(r) == {c \in Expected(r) : c \in Made(c[1], r)}

\* The commitments on their way to node n
Flying(n) == {m.c : m \in {k \in net[n] : k.type = "commitment"}}
Landing(n) == {h.c : h \in {k \in handlers[n] : k.pc = "insert"}}

Bucket(n) == Range(dev[n].bucket)

\* A node that is going to generate, or has
Must(n, r) ==
  \/ r = 0 /\ Bucket(n) # {}
  \/ r = 1 /\ passes[n] = {}
  \/ r >= 2 /\ slot[n] = 2

CollectNet(n, r) ==
  /\ \A m \in net[n] : \/ m.type = "init" /\ m.round = 0
                       \/ m.type = "commitment" /\ m.round = r
  /\ \A h \in handlers[n] : \/ h.pc \in {"insert", "round"} /\ h.round = r
                            \/ h.pc = "once" /\ h.round \in {0, r}
                            \/ h.pc = "mark" /\ h.round = r /\ r \notin Generated(n)

CollectGenerators(n, r) ==
  /\ \A g \in generators[n] : /\ r \in Generated(n) /\ g.round = r /\ g.copy = 1
                              /\ g.pc = "info" => r < 2 /\ g = Info(r)
  /\ \A g, k \in generators[n] : g = k
  /\ r < 2 /\ r \in Generated(n) => generators[n] # {}

CollectBucket(n, r) ==
  /\ dev[n].sub = Produced(n, r) /\ dev[n].map = Bucket(n)
  /\ Len(dev[n].bucket) = Cardinality(Bucket(n))
  /\ Bucket(n) \cup Flying(n) \cup Landing(n) = AllMade(r)
  /\ \A c \in Flying(n) : c \notin Bucket(n) \cup Landing(n)
  /\ \A c \in Landing(n) : c \notin Bucket(n)

CollectTime(n, r) ==
  IF r < 2 THEN Unscheduled(n)
  ELSE /\ sched[n] = "slot" /\ slot[n] \in {1, 2}
       /\ absRound[n] = (r - 2) * EpochRounds + slot[n]

CollectMust(n, r) ==
  Must(n, r) => \/ r \in Generated(n)
                \/ \E h \in handlers[n] : h.pc \in {"round", "once", "mark"} /\ h.round = r

CollectNode(n, r) ==
  /\ Behind(n, r) /\ announcing[n] = {} /\ bucketHashesCheck[n] = <<>>
  /\ passes[n] = {} \/ (r = 1 /\ passes[n] = {NextPass})
  /\ Generated(n) \in {0 .. r - 1, 0 .. r}
  /\ CollectNet(n, r) /\ CollectGenerators(n, r) /\ CollectBucket(n, r) /\ CollectTime(n, r)
  /\ CollectMust(n, r)

\* The commitments of round r are generated and collected
Collecting(r) ==
  /\ due = IF r < 2 THEN {n \in Nodes : passes[n] # {}} \X {NextPass}
                    ELSE {n \in Nodes : slot[n] = 1} \X {SlotSleep}
  /\ \A n \in Nodes : CollectNode(n, r)

\* The buckets of round 0 or 1 are arranged
Sorting(r) ==
  /\ r < 2
  /\ due = {n \in Nodes : generators[n] # {}} \X {Info(r)}
  /\ \A n \in Nodes :
       /\ Behind(n, r) /\ bucketHashesCheck[n] = <<>> /\ passes[n] = {}
       /\ Generated(n) = 0 .. r /\ Unscheduled(n) /\ InitOnly(n) /\ OnceOnly(n) /\ Full(n, r)
       /\ \/ generators[n] = {Info(r)} /\ announcing[n] = {}
          \/ generators[n] = {} /\ announcing[n] = {Ann(r)} /\ dev[n] = Final(n, r)

Announced(n, r) == IF r < 2 THEN announcing[n] = {} ELSE sched[n] # "end"

\* The peers whose BUCKET_CHECK node n has received
Heard(n, r) ==
  {k \in Nodes \ {n} : Announced(k, r) /\ \A m \in net[n] : m.type = "check" => m.src # k}

AgreeNet(n, r) ==
  /\ \A m \in net[n] :
       \/ m.type = "init" /\ m.round = 0
       \/ /\ m.type = "check" /\ m.src \in Nodes \ {n} /\ Announced(m.src, r)
          /\ m.round = r /\ m.hash = Hash(Order(r)) /\ m.len = Capacity
  /\ \A m, k \in net[n] : m.type = "check" /\ k.type = "check" /\ m.src = k.src => m = k

AgreeTime(n, r) ==
  IF r < 2 THEN announcing[n] \in {{}, {Ann(r)}} /\ Unscheduled(n)
  ELSE /\ announcing[n] = {} /\ absRound[n] = (r - 2) * EpochRounds + EpochRounds
       /\ \/ sched[n] = "end" /\ slot[n] = EpochRounds
          \/ sched[n] = "slot" /\ slot[n] = 0

Counting(n, r) ==
  /\ Behind(n, r) /\ passes[n] = {} /\ Full(n, r)
  /\ r < 2 \/ Announced(n, r) => dev[n] = Final(n, r)
  /\ Len(bucketHashesCheck[n]) = Cardinality(Heard(n, r))
  /\ \A i \in DOMAIN bucketHashesCheck[n] : bucketHashesCheck[n][i] = Hash(Order(r))
  /\ Heard(n, r) # Nodes \ {n}

PassAt(n, r, p) ==
  \/ /\ p.pc = "running" /\ r > 0
     /\ Behind(n, r)
  \/ /\ p.pc \in {"pause", "copy"} /\ (p.pc = "pause" => r = 1)
     /\ commitmentGenEpochRound[n] = r /\ rdy[n] = EmptyStage /\ Running(n, r - 1)
  \/ /\ p.pc = "rest"
     /\ commitmentGenEpochRound[n] = r /\ Running(n, r - 1)
     /\ rdy[n] = [EmptyStage EXCEPT !.sub = Own(n, r), !.bucket = Order(r)]
  \/ /\ p.pc = "bump"
     /\ commitmentGenEpochRound[n] = r /\ Ready(n, r) /\ Running(n, r - 1)
  \/ /\ p.pc \in {"clear", "reset"}
     /\ Behind(n, r + 1)
     /\ p.pc = "reset" => bucketHashesCheck[n] = <<>>

Passing(n, r, pcs) ==
  /\ dev[n] = Final(n, r) /\ Real(r)
  /\ \E p \in passes[n] : /\ passes[n] = {p} /\ p.round = r /\ p.pc \in pcs
                          /\ PassAt(n, r, p)

Passed(n, r) ==
  /\ Behind(n, r + 1) /\ dev[n] = EmptyStage /\ bucketHashesCheck[n] = <<>>
  /\ passes[n] = IF r = 0 THEN {NextPass} ELSE {}

AgreePasses(r) ==
  IF r = 1 THEN {"running", "pause"}
  ELSE {"running", "copy", "rest", "bump", "clear", "reset"}

AgreeSeat(n, r) ==
  \/ Counting(n, r)
  \/ /\ Heard(n, r) = Nodes \ {n} /\ (r < 2 \/ Announced(n, r))
     /\ Passing(n, r, AgreePasses(r)) \/ (r # 1 /\ Passed(n, r))

AgreeNode(n, r) ==
  /\ generators[n] = {} /\ Generated(n) = 0 .. r /\ OnceOnly(n)
  /\ AgreeNet(n, r) /\ AgreeTime(n, r) /\ AgreeSeat(n, r)

\* The hashes of the buckets of round r are compared, and the epochs passed on
Agreeing(r) ==
  /\ Real(r)
  /\ due = {n \in Nodes : ~Announced(n, r)} \X {IF r < 2 THEN Ann(r) ELSE EndSleep}
  /\ \A n \in Nodes : AgreeNode(n, r)

PausePasses == {"pause", "copy", "rest", "bump", "clear", "reset"}

PauseNode(n) ==
  /\ generators[n] = {} /\ announcing[n] = {} /\ Generated(n) = 0 .. 1
  /\ OnceOnly(n) /\ InitOnly(n)
  /\ sched[n] \in {"idle", "slot"} /\ slot[n] = 0 /\ absRound[n] = 0
  /\ Passing(n, 1, PausePasses) \/ Passed(n, 1)

\* The four seconds of round 1 are over
Pausing ==
  /\ due = {n \in Nodes : passes[n] = {PausePass}} \X {PausePass}
  /\ \A n \in Nodes : PauseNode(n)

SlotNode(n, r, k) ==
  /\ Behind(n, r) /\ generators[n] = {} /\ announcing[n] = {} /\ passes[n] = {}
  /\ bucketHashesCheck[n] = <<>> /\ InitOnly(n) /\ OnceOnly(n)
  /\ slot[n] \in {k, k + 1} /\ sched[n] = (IF slot[n] = EpochRounds THEN "end" ELSE "slot")
  /\ absRound[n] = (r - 2) * EpochRounds + slot[n]
  /\ IF k = 0 THEN dev[n] = EmptyStage /\ Generated(n) = 0 .. r - 1
              ELSE Full(n, r) /\ Generated(n) = 0 .. r

\* The slots of an epoch, but for the one in which round r is generated
Slots(r) ==
  /\ r >= 2
  /\ \E k \in 0 .. EpochRounds - 1 :
       /\ k # 1
       /\ due = {n \in Nodes : slot[n] = k} \X {SlotSleep}
       /\ \A n \in Nodes : SlotNode(n, r, k)

Period(r) == Collecting(r) \/ Sorting(r) \/ Agreeing(r) \/ Slots(r)

\* At most one goroutine is between two sleeps
Work(n) ==
  handlers[n] \cup {p \in passes[n] : p.pc \notin Asleep}
              \cup {g \in generators[n] : g.pc = "store"}

Solo == \A n, m \in Nodes : \A v \in Work(n), w \in Work(m) : n = m /\ v = w

Unharmed == \A n \in Nodes : alive[n] /\ ~commitmentRoundMutex[n]

\* The slots are counted from the first one on: epoch e, slot k
Turn(col, e, k) == col = e * EpochRounds + k + 1 /\ k \in 0 .. EpochRounds - 1 /\ e \in Nat

Place(k, row) == k * ParallelLen + row + 1

\* A lead is what the order of its epoch says
Rightful(x) ==
  /\ x.row \in 0 .. ParallelLen - 1 /\ x.node = x.c[1]
  /\ \E e, k \in Nat : /\ Turn(x.col, e, k) /\ Real(e)
                       /\ Place(k, x.row) \in DOMAIN Order(e)
                       /\ x.c = Order(e)[Place(k, x.row)]

\* Node n has led the rows of a column that are its own
Served(n, col) ==
  \A e, k \in Nat :
    Turn(col, e, k) =>
      /\ Real(e)
      /\ \A row \in 0 .. ParallelLen - 1 :
           Place(k, row) \in DOMAIN Order(e) /\ Order(e)[Place(k, row)][1] = n =>
             \E x \in leads : x.col = col /\ x.row = row

LeadsInv ==
  /\ \A x \in leads : Rightful(x) /\ \A n \in Nodes : x.c \in run[n].map
  /\ \A n \in Nodes : \A col \in 1 .. absRound[n] : Served(n, col)

TimelyInv ==
  TypeOK /\ Solo /\ Unharmed /\ LeadsInv /\ (Pausing \/ \E r \in Nat : Period(r))

-----------------------------------------------------------------------------
(* The commitments of a round and their order *)

LEMMA Parameters ==
  /\ MaxVar \in Nat \ {0} /\ ParallelLen \in Nat \ {0} /\ EpochRounds \in Nat \ {0}
  /\ N \in Nat \ {0} /\ Capacity \in Nat \ {0} /\ IsFiniteSet(Nodes)
BY NodesAssumption, BoundsAssumption DEF Capacity

\* The commitments of a round fill a bucket
LEMMA ExpectedCount ==
  ASSUME NEW r
  PROVE  IsFiniteSet(Expected(r)) /\ Cardinality(Expected(r)) = Capacity
<1> DEFINE V == 1 .. MaxVar
           f == [c \in Expected(r) |-> <<c[1], c[3]>>]
<1>1. IsFiniteSet(V) /\ Cardinality(V) = MaxVar
  BY Parameters, FS_Interval
<1>2. IsFiniteSet(Nodes \X V) /\ Cardinality(Nodes \X V) = N * MaxVar
  BY <1>1, Parameters, FS_Product DEF N
<1> HIDE DEF V
<1>3. Expected(r) = Nodes \X {r} \X V \X {1}
  BY DEF Expected, V
<1>4. f \in Bijection(Expected(r), Nodes \X V)
  <2>1. f \in [Expected(r) -> Nodes \X V]
    BY <1>3
  <2>2. \A c, d \in Expected(r) : f[c] = f[d] => c = d
    <3> TAKE c, d \in Expected(r)
    <3>1. c = <<c[1], r, c[3], 1>> /\ d = <<d[1], r, d[3], 1>>
      BY <1>3
    <3>2. f[c] = <<c[1], c[3]>> /\ f[d] = <<d[1], d[3]>>
      OBVIOUS
    <3> QED
      BY <3>1, <3>2
  <2>3. \A p \in Nodes \X V : \E c \in Expected(r) : f[c] = p
    <3> TAKE p \in Nodes \X V
    <3>1. <<p[1], r, p[2], 1>> \in Expected(r)
      BY <1>3
    <3>2. f[<<p[1], r, p[2], 1>>] = p
      BY <3>1
    <3> QED
      BY <3>1, <3>2
  <2> HIDE DEF f
  <2> QED
    BY <2>1, <2>2, <2>3, Fun_IsBij
<1> HIDE DEF f
<1>5. Cardinality(Expected(r)) = Cardinality(Nodes \X V) /\ IsFiniteSet(Expected(r))
  <2>1. ExistsBijection(Nodes \X V, Expected(r))
    BY <1>4, Fun_BijInverse DEF ExistsBijection
  <2> QED
    BY <1>2, <2>1, FS_Bijection
<1> QED
  BY <1>2, <1>5, Parameters DEF Capacity

\* A node makes commitments of every round, and who made one is told by the commitment
LEMMA ExpectedOwn ==
  ASSUME NEW r
  PROVE  /\ \A n \in Nodes : <<n, r, 1, 1>> \in Own(n, r)
         /\ \A n \in Nodes, i \in 1 .. MaxVar : <<n, r, i, 1>> \in Own(n, r)
         /\ \A c \in Expected(r) : /\ c[1] \in Nodes /\ c[2] = r /\ c[3] \in 1 .. MaxVar
                                   /\ c = <<c[1], r, c[3], 1>> /\ c \in Own(c[1], r)
         /\ \A n : Own(n, r) \subseteq Expected(r)
<1>1. 1 \in 1 .. MaxVar
  BY Parameters
<1>2. \A c \in Expected(r) : c[1] \in Nodes /\ c[2] = r /\ c[3] \in 1 .. MaxVar
                             /\ c = <<c[1], r, c[3], 1>>
  BY DEF Expected
<1>3. \A n \in Nodes, i \in 1 .. MaxVar : <<n, r, i, 1>> \in Own(n, r)
  BY DEF Own, Expected
<1> QED
  BY <1>1, <1>2, <1>3 DEF Own

\* Arranged, the commitments of a round are a bucket in which each is once
LEMMA OrderFacts ==
  ASSUME NEW r, Real(r)
  PROVE  /\ Order(r) \in Seq(Commitments) /\ Range(Order(r)) = Expected(r)
         /\ Len(Order(r)) = Capacity /\ DOMAIN Order(r) = 1 .. Capacity
         /\ \A i, j \in 1 .. Capacity : Order(r)[i] = Order(r)[j] => i = j
<1>1. /\ Order(r) \in Seq(Expected(r)) /\ Len(Order(r)) = Cardinality(Expected(r))
      /\ Range(Order(r)) = Expected(r)
  BY ArrangeAssumption DEF Order, Real, Seeds
<1>2. Len(Order(r)) = Capacity
  BY <1>1, ExpectedCount
<1>3. Order(r) \in Seq(Commitments) /\ DOMAIN Order(r) = 1 .. Capacity
  BY <1>1, <1>2 DEF Real
<1>4. Order(r) \in Surjection(1 .. Capacity, Expected(r))
  <2>1. Order(r) \in [1 .. Capacity -> Expected(r)]
    BY <1>1, <1>2
  <2>2. \A c \in Expected(r) : \E i \in 1 .. Capacity : Order(r)[i] = c
    BY <1>1, <1>3 DEF Range
  <2> QED
    BY <2>1, <2>2, Fun_IsSurj
<1>5. IsFiniteSet(1 .. Capacity) /\ Cardinality(1 .. Capacity) = Capacity
  BY Parameters, FS_Interval
<1>6. Order(r) \in Injection(1 .. Capacity, Expected(r))
  BY <1>4, <1>5, ExpectedCount, FS_SurjSameCardinalityImpliesInj
<1> QED
  BY <1>1, <1>2, <1>3, <1>6 DEF Injection, IsInjective

LEMMA OwnPlaces ==
  ASSUME NEW r, Real(r), NEW n
  PROVE  \A i \in DOMAIN Order(r) : Order(r)[i] \in Own(n, r) <=> Order(r)[i][1] = n
<1>1. \A i \in DOMAIN Order(r) : Order(r)[i] \in Expected(r)
  BY OrderFacts DEF Range
<1> QED
  BY <1>1 DEF Own

\* What the shuffle makes of a full bucket
LEMMA ShuffledFull ==
  ASSUME TypeOK, NEW n \in Nodes, NEW r \in Nat, Full(n, r)
  PROVE  Real(r) /\ Shuffled(dev[n], r < 2) = Final(n, r)
<1>1. dev[n] \in Stage
  BY DEF TypeOK
<1>2. Real(r)
  BY <1>1 DEF Full, Real, Stage
<1>3. randomBucketShuffle(dev[n].bucket, r < 2) = Order(r)
  BY DEF randomBucketShuffle, Full, Order
<1>4. dev[n] = [sub |-> dev[n].sub, bucket |-> dev[n].bucket, map |-> dev[n].map,
                hash |-> dev[n].hash, pos |-> dev[n].pos]
  BY <1>1 DEF Stage
<1>5. [dev[n] EXCEPT !.bucket = Order(r)]
        = [sub |-> Own(n, r), bucket |-> Order(r), map |-> Expected(r),
           hash |-> dev[n].hash, pos |-> dev[n].pos]
  BY <1>4 DEF Full
<1>6. Shuffled(dev[n], r < 2)
        = identifyCommitmentPositions([sub |-> Own(n, r), bucket |-> Order(r),
             map |-> Expected(r), hash |-> dev[n].hash, pos |-> dev[n].pos])
  BY <1>3, <1>5 DEF Shuffled
<1> QED
  BY <1>2, <1>6 DEF identifyCommitmentPositions, Final

LEMMA FinalFull ==
  ASSUME NEW n \in Nodes, NEW r \in Nat, Real(r), dev[n] = Final(n, r)
  PROVE  Full(n, r) /\ dev[n].hash = Hash(Order(r)) /\ Len(dev[n].bucket) = Capacity
BY OrderFacts DEF Final, Full

-----------------------------------------------------------------------------
(* One goroutine at a time *)

LEMMA FreeMeansNoWork ==
  ASSUME TimelyNetwork, Unharmed, MayBegin
  PROVE  \A k \in Nodes : /\ Work(k) = {} /\ handlers[k] = {}
                          /\ \A p \in passes[k] : p.pc \in Asleep
                          /\ \A g \in generators[k] : g.pc # "store"
<1>1. ~Working
  BY DEF MayBegin, TimelyNetwork
<1> QED
  BY <1>1 DEF Working, Work, Unharmed

LEMMA OneAtWork ==
  ASSUME Solo, NEW n \in Nodes, NEW w \in Work(n)
  PROVE  Work(n) = {w} /\ \A k \in Nodes \ {n} : Work(k) = {}
<1>1. \A v \in Work(n) : v = w
  BY DEF Solo
<1>2. \A k \in Nodes \ {n} : \A v \in Work(k) : FALSE
  BY DEF Solo
<1> QED
  BY <1>1, <1>2

\* What the goroutines at work are told apart by
LEMMA WorkKinds ==
  ASSUME TypeOK, NEW n \in Nodes
  PROVE  /\ \A h \in handlers[n] : h.pc \in {"insert", "round", "once", "mark"} /\ h \in Handler
         /\ \A p \in passes[n] : p \in Pass /\ p.pc \in
              {"running", "pause", "copy", "rest", "bump", "clear", "reset", "next"}
         /\ \A g \in generators[n] : g \in Generator /\ g.pc \in {"produce", "store", "info"}
<1>1. handlers[n] \subseteq Handler /\ passes[n] \subseteq Pass /\ generators[n] \subseteq Generator
  BY DEF TypeOK
<1>2. \A h \in Handler : h.pc \in {"insert", "round", "once", "mark"}
  BY DEF Handler
<1>3. \A p \in Pass : p.pc \in
        {"running", "pause", "copy", "rest", "bump", "clear", "reset", "next"}
  BY DEF Pass
<1>4. \A g \in Generator : g.pc \in {"produce", "store", "info"}
  BY DEF Generator
<1> QED
  BY <1>1, <1>2, <1>3, <1>4

LEMMA HandlerAlone ==
  ASSUME TypeOK, Solo, NEW n \in Nodes, NEW h \in handlers[n]
  PROVE  /\ Work(n) = {h} /\ handlers[n] = {h} /\ \A k \in Nodes \ {n} : handlers[k] = {}
         /\ \A k \in Nodes : \A p \in passes[k] : p.pc \in Asleep
         /\ \A k \in Nodes : \A g \in generators[k] : g.pc # "store"
<1>1. h \in Work(n) /\ h.pc \in {"insert", "round", "once", "mark"}
  BY WorkKinds DEF Work
<1>2. Work(n) = {h} /\ \A k \in Nodes \ {n} : Work(k) = {}
  BY <1>1, OneAtWork
<1>3. handlers[n] = {h} /\ \A k \in Nodes \ {n} : handlers[k] = {}
  BY <1>2 DEF Work
<1>4. \A k \in Nodes : \A p \in passes[k] : p.pc \notin Asleep => k = n /\ p = h
  BY <1>2 DEF Work
<1>5. \A k \in Nodes : \A g \in generators[k] : g.pc = "store" => k = n /\ g = h
  BY <1>2 DEF Work
<1>6. \A p \in passes[n] : p # h
  BY <1>1, WorkKinds
<1>7. \A g \in generators[n] : g.pc = "store" => g # h
  BY <1>1
<1> QED
  BY <1>2, <1>3, <1>4, <1>5, <1>6, <1>7

LEMMA PassAlone ==
  ASSUME TypeOK, Solo, NEW n \in Nodes, NEW p \in passes[n], p.pc \notin Asleep
  PROVE  /\ Work(n) = {p} /\ \A k \in Nodes : handlers[k] = {}
         /\ \A q \in passes[n] : q.pc \notin Asleep => q = p
         /\ \A k \in Nodes : \A g \in generators[k] : g.pc # "store"
<1>1. p \in Work(n)
  BY DEF Work
<1>2. Work(n) = {p} /\ \A k \in Nodes \ {n} : Work(k) = {}
  BY <1>1, OneAtWork
<1>3. p \notin handlers[n]
  BY WorkKinds
<1>4. \A k \in Nodes : \A g \in generators[k] : g.pc = "store" => k = n /\ g = p
  BY <1>2 DEF Work
<1>5. p.pc # "store"
  BY WorkKinds
<1> QED
  BY <1>2, <1>3, <1>4, <1>5 DEF Work

LEMMA StoreAlone ==
  ASSUME TypeOK, Solo, NEW n \in Nodes, NEW g \in generators[n], g.pc = "store"
  PROVE  /\ Work(n) = {g} /\ \A k \in Nodes : handlers[k] = {}
         /\ \A k \in Nodes : \A p \in passes[k] : p.pc \in Asleep
<1>1. g \in Work(n)
  BY DEF Work
<1>2. Work(n) = {g} /\ \A k \in Nodes \ {n} : Work(k) = {}
  BY <1>1, OneAtWork
<1>3. g \notin handlers[n]
  BY WorkKinds
<1>4. \A k \in Nodes : \A p \in passes[k] : p.pc \notin Asleep => k = n /\ p = g
  BY <1>2 DEF Work
<1>5. g \notin passes[n]
  BY WorkKinds
<1> QED
  BY <1>2, <1>3, <1>4, <1>5 DEF Work

LEMMA SoloKept ==
  ASSUME Solo, NEW n \in Nodes, NEW w, Work(n)' \subseteq {w},
         \A k \in Nodes \ {n} : Work(k)' = Work(k),
         (\A k \in Nodes : Work(k) = {}) \/ Work(n) # {}
  PROVE  Solo'
<1>1. \A k \in Nodes \ {n} : Work(k) = {}
  BY DEF Solo
<1> QED
  BY <1>1 DEF Solo

LEMMA SoloSame ==
  ASSUME Solo, \A k \in Nodes : Work(k)' \subseteq Work(k)
  PROVE  Solo'
BY DEF Solo

\* A handler begins
LEMMA SoloBegin ==
  ASSUME TypeOK, Solo, NEW n \in Nodes, NEW h, \A k \in Nodes : Work(k) = {},
         handlers' = [handlers EXCEPT ![n] = @ \cup {h}], UNCHANGED generators,
         \A k \in Nodes : passes'[k] \subseteq passes[k]
  PROVE  Solo'
<1>1. Work(n)' \subseteq {h} /\ \A k \in Nodes \ {n} : Work(k)' \subseteq Work(k)
  BY DEF Work, TypeOK
<1>2. \A k \in Nodes \ {n} : Work(k)' = Work(k)
  BY <1>1
<1> QED
  BY <1>1, <1>2, SoloKept

\* A handler ends, moves on or is followed by a generator that has not stored yet
LEMMA SoloHandler ==
  ASSUME TypeOK, Solo, NEW n \in Nodes, NEW h \in handlers[n], NEW S, NEW w, S \subseteq {w},
         handlers' = [handlers EXCEPT ![n] = (@ \ {h}) \cup S], UNCHANGED passes,
         \A k \in Nodes : \A g \in generators'[k] : g.pc = "store" => g \in generators[k]
  PROVE  Solo'
<1>1. /\ Work(n) = {h} /\ handlers[n] = {h}
      /\ \A k \in Nodes : \A p \in passes[k] : p.pc \in Asleep
      /\ \A k \in Nodes : \A g \in generators[k] : g.pc # "store"
  BY HandlerAlone
<1>2. handlers'[n] = S /\ \A k \in Nodes \ {n} : handlers'[k] = handlers[k]
  BY <1>1 DEF TypeOK
<1>3. \A k \in Nodes : \A g \in generators'[k] : g.pc # "store"
  BY <1>1
<1>4. Work(n)' \subseteq {w} /\ \A k \in Nodes \ {n} : Work(k)' = Work(k)
  BY <1>1, <1>2, <1>3 DEF Work
<1> QED
  BY <1>1, <1>4, SoloKept

\* A pass ends, moves on or falls asleep
LEMMA SoloPass ==
  ASSUME TypeOK, Solo, NEW n \in Nodes, NEW p \in passes[n], NEW S, NEW w, S \subseteq {w},
         (\A k \in Nodes : Work(k) = {}) \/ p.pc \notin Asleep,
         passes' = [passes EXCEPT ![n] = (@ \ {p}) \cup S], UNCHANGED <<handlers, generators>>
  PROVE  Solo'
<1>1. CASE p.pc \notin Asleep
  <2>1. /\ Work(n) = {p} /\ \A k \in Nodes : handlers[k] = {}
        /\ \A q \in passes[n] : q.pc \notin Asleep => q = p
        /\ \A k \in Nodes : \A g \in generators[k] : g.pc # "store"
    BY <1>1, PassAlone
  <2>2. passes'[n] = (passes[n] \ {p}) \cup S /\ \A k \in Nodes \ {n} : passes'[k] = passes[k]
    BY DEF TypeOK
  <2>3. Work(n)' \subseteq {w} /\ \A k \in Nodes \ {n} : Work(k)' = Work(k)
    BY <2>1, <2>2 DEF Work
  <2> QED
    BY <2>1, <2>3, SoloKept
<1>2. CASE \A k \in Nodes : Work(k) = {}
  <2>1. passes'[n] = (passes[n] \ {p}) \cup S /\ \A k \in Nodes \ {n} : passes'[k] = passes[k]
    BY DEF TypeOK
  <2>2. Work(n)' \subseteq {w} /\ \A k \in Nodes \ {n} : Work(k)' = Work(k)
    BY <1>2, <2>1 DEF Work
  <2> QED
    BY <1>2, <2>2, SoloKept
<1> QED
  BY <1>1, <1>2

\* A generator moves on
LEMMA SoloGenerator ==
  ASSUME TypeOK, Solo, NEW n \in Nodes, NEW g \in generators[n], NEW S, NEW w, S \subseteq {w},
         (\A k \in Nodes : Work(k) = {}) \/ g.pc = "store",
         generators' = [generators EXCEPT ![n] = (@ \ {g}) \cup S], UNCHANGED <<handlers, passes>>
  PROVE  Solo'
<1>1. generators'[n] = (generators[n] \ {g}) \cup S
      /\ \A k \in Nodes \ {n} : generators'[k] = generators[k]
  BY DEF TypeOK
<1>2. CASE g.pc = "store"
  <2>1. /\ Work(n) = {g} /\ handlers[n] = {}
        /\ \A p \in passes[n] : p.pc \in Asleep
    BY <1>2, StoreAlone
  <2>2. \A k \in generators[n] : k.pc = "store" => k = g
    BY <2>1 DEF Work
  <2>3. Work(n)' \subseteq S
    BY <1>1, <2>1, <2>2 DEF Work
  <2>4. Work(n)' \subseteq {w} /\ \A k \in Nodes \ {n} : Work(k)' = Work(k)
    BY <1>1, <2>3 DEF Work
  <2> QED
    BY <2>1, <2>4, SoloKept
<1>3. CASE \A k \in Nodes : Work(k) = {}
  <2>1. Work(n)' \subseteq {w} /\ \A k \in Nodes \ {n} : Work(k)' = Work(k)
    BY <1>1, <1>3 DEF Work
  <2> QED
    BY <1>3, <2>1, SoloKept
<1> QED
  BY <1>2, <1>3

LEMMA SoloStep ==
  ASSUME TimelyNetwork, TypeOK, Solo, Unharmed, Next
  PROVE  Solo'
<1>1. CASE StartBlockchain
  <2>1. \A k \in Nodes : Work(k) = {}
    BY <1>1, FreeMeansNoWork DEF StartBlockchain
  <2> QED
    BY <1>1, <2>1, SoloBegin, NodesAssumption DEF StartBlockchain
<1>2. CASE AdvanceClock
  BY <1>2, SoloSame DEF AdvanceClock, threadVars, Work
<1>3. ASSUME NEW n \in Nodes, NEW m \in net[n], ReceiveInit(n, m)
      PROVE  Solo'
  <2>1. \A k \in Nodes : Work(k) = {}
    BY <1>3, FreeMeansNoWork DEF ReceiveInit, MayDeliver
  <2> QED
    BY <1>3, <2>1, SoloBegin DEF ReceiveInit
<1>4. ASSUME NEW n \in Nodes, NEW m \in net[n], ReceiveCommitment(n, m)
      PROVE  Solo'
  <2>1. \A k \in Nodes : Work(k) = {}
    BY <1>4, FreeMeansNoWork DEF ReceiveCommitment, MayDeliver
  <2>2. CASE handlers' = handlers
    BY <1>4, <2>2, SoloSame DEF ReceiveCommitment, Work
  <2>3. CASE handlers' # handlers
    <3> DEFINE h == [thread |-> "stream", pc |-> "insert", round |-> m.round, c |-> m.c]
    <3>1. handlers' = [handlers EXCEPT ![n] = @ \cup {h}]
      BY <1>4, <2>3 DEF ReceiveCommitment
    <3> HIDE DEF h
    <3> QED
      BY <1>4, <2>1, <3>1, SoloBegin DEF ReceiveCommitment
  <2> QED
    BY <2>2, <2>3
<1>5. ASSUME NEW n \in Nodes, NEW m \in net[n],
             \/ RetryBucketCheck(n, m) \/ DropBucketCheck(n, m) \/ CountBucketCheck(n, m)
      PROVE  Solo'
  BY <1>5, SoloSame DEF RetryBucketCheck, DropBucketCheck, CountBucketCheck, threadVars, Work
<1>6. ASSUME NEW n \in Nodes, NEW m \in net[n],
             \/ CompleteBucketCheck(n, m) \/ FailBucketCheck(n, m)
      PROVE  Solo'
  <2>1. \A k \in Nodes : Work(k) = {}
    BY <1>6, FreeMeansNoWork DEF CompleteBucketCheck, FailBucketCheck, AcceptBucketCheck, MayDeliver
  <2>2. UNCHANGED <<handlers, generators>> /\ (UNCHANGED passes \/ BeginPass(n))
    BY <1>6 DEF CompleteBucketCheck, FailBucketCheck
  <2>3. PICK p : p = [pc |-> FirstPassStep(commitmentGenEpochRound[n]),
                      round |-> commitmentGenEpochRound[n]]
    OBVIOUS
  <2>4. UNCHANGED passes \/ passes' = [passes EXCEPT ![n] = @ \cup {p}]
    BY <2>2, <2>3 DEF BeginPass
  <2>5. Work(n)' \subseteq {p} /\ \A k \in Nodes \ {n} : Work(k)' = Work(k)
    BY <2>1, <2>2, <2>4 DEF Work, TypeOK
  <2> QED
    BY <2>1, <2>5, SoloKept
<1>7. ASSUME NEW n \in Nodes, Receive(n)
      PROVE  Solo'
  BY <1>3, <1>4, <1>5, <1>6, <1>7 DEF Receive
<1>8. ASSUME NEW n \in Nodes, Handle(n)
      PROVE  Solo'
  <2>1. PICK h \in handlers[n] :
          \/ InsertCommitment(n, h) \/ CheckRound(n, h) \/ CheckGenerated(n, h)
          \/ MarkGenerated(n, h)
    BY <1>8 DEF Handle
  <2>2. PICK S, w : S \subseteq {w} /\ handlers' = [handlers EXCEPT ![n] = (@ \ {h}) \cup S]
    <3>1. handlers' = [handlers EXCEPT ![n] = @ \ {h}]
            \/ \E w : handlers' = [handlers EXCEPT ![n] = (@ \ {h}) \cup {w}]
      BY <2>1 DEF InsertCommitment, CheckRound, CheckGenerated, MarkGenerated, Go, Swap, Drop
    <3>2. CASE handlers' = [handlers EXCEPT ![n] = @ \ {h}]
      <4>1. handlers' = [handlers EXCEPT ![n] = (@ \ {h}) \cup {}]
        BY <3>2
      <4> QED
        BY <4>1
    <3> QED
      BY <3>1, <3>2
  <2>3. UNCHANGED passes
    BY <2>1 DEF InsertCommitment, CheckRound, CheckGenerated, MarkGenerated
  <2>4. \A k \in Nodes : \A g \in generators'[k] : g.pc = "store" => g \in generators[k]
    <3>1. CASE MarkGenerated(n, h)
      <4>1. PICK g : /\ g = [pc |-> "produce", round |-> h.round,
                             copy |-> Generations(n, h.round) + 1, i |-> 1]
                     /\ generators' = [generators EXCEPT ![n] = @ \cup {g}]
        BY <3>1 DEF MarkGenerated
      <4>2. g.pc = "produce"
        BY <4>1
      <4> QED
        BY <4>1, <4>2 DEF TypeOK
    <3> QED
      BY <2>1, <3>1 DEF InsertCommitment, CheckRound, CheckGenerated
  <2> QED
    BY <2>2, <2>3, <2>4, SoloHandler
<1>9. ASSUME NEW n \in Nodes, Generate(n)
      PROVE  Solo'
  <2>1. CASE \E a \in announcing[n] : AnnounceBucket(n, a)
    BY <2>1, SoloSame DEF AnnounceBucket, Work
  <2>2. ASSUME NEW g \in generators[n],
               ProduceCommitment(n, g) \/ StoreCommitment(n, g) \/ InitBucketInfo(n, g)
        PROVE  Solo'
    <3>1. (\A k \in Nodes : Work(k) = {}) \/ g.pc = "store"
      BY <2>2, FreeMeansNoWork DEF ProduceCommitment, StoreCommitment, InitBucketInfo, MayWake
    <3>2. UNCHANGED <<handlers, passes>>
      BY <2>2 DEF ProduceCommitment, StoreCommitment, InitBucketInfo
    <3>3. PICK S, w : S \subseteq {w} /\ generators' = [generators EXCEPT ![n] = (@ \ {g}) \cup S]
      <4>1. generators' = [generators EXCEPT ![n] = @ \ {g}]
              \/ \E w : generators' = [generators EXCEPT ![n] = (@ \ {g}) \cup {w}]
        BY <2>2 DEF ProduceCommitment, StoreCommitment, InitBucketInfo, Go, Swap, Drop
      <4>2. CASE generators' = [generators EXCEPT ![n] = @ \ {g}]
        <5>1. generators' = [generators EXCEPT ![n] = (@ \ {g}) \cup {}]
          BY <4>2
        <5> QED
          BY <5>1
      <4> QED
        BY <4>1, <4>2
    <3> QED
      BY <3>1, <3>2, <3>3, SoloGenerator
  <2> QED
    BY <1>9, <2>1, <2>2 DEF Generate
<1>10. ASSUME NEW n \in Nodes, PassOn(n)
       PROVE  Solo'
  <2>1. PICK p \in passes[n] :
          \/ PassToEpochRunning(n, p) \/ EndPause(n, p) \/ CopyBucket(n, p)
          \/ CopyRest(n, p) \/ BumpRound(n, p) \/ ClearChecks(n, p)
          \/ ResetDev(n, p) \/ StartNextRound(n, p)
    BY <1>10 DEF PassOn
  <2>2. CASE StartNextRound(n, p)
    <3>1. \A k \in Nodes : Work(k) = {}
      BY <2>2, FreeMeansNoWork DEF StartNextRound, MayWake
    <3>2. \A k \in Nodes : passes'[k] \subseteq passes[k]
      BY <2>2 DEF StartNextRound, Drop, TypeOK
    <3> QED
      BY <2>2, <3>1, <3>2, SoloBegin DEF StartNextRound
  <2>3. CASE ~StartNextRound(n, p)
    <3>1. (\A k \in Nodes : Work(k) = {}) \/ p.pc \notin Asleep
      BY <2>1, <2>3, FreeMeansNoWork
         DEF PassToEpochRunning, EndPause, CopyBucket, CopyRest, BumpRound, ClearChecks,
             ResetDev, MayWake, Asleep
    <3>2. UNCHANGED <<handlers, generators>>
      BY <2>1, <2>3
         DEF PassToEpochRunning, EndPause, CopyBucket, CopyRest, BumpRound, ClearChecks, ResetDev
    <3>3. PICK S, w : S \subseteq {w} /\ passes' = [passes EXCEPT ![n] = (@ \ {p}) \cup S]
      <4>1. passes' = [passes EXCEPT ![n] = @ \ {p}]
              \/ \E w : passes' = [passes EXCEPT ![n] = (@ \ {p}) \cup {w}]
        BY <2>1, <2>3
           DEF PassToEpochRunning, EndPause, CopyBucket, CopyRest, BumpRound, ClearChecks,
               ResetDev, Go, Swap, Drop
      <4>2. CASE passes' = [passes EXCEPT ![n] = @ \ {p}]
        <5>1. passes' = [passes EXCEPT ![n] = (@ \ {p}) \cup {}]
          BY <4>2
        <5> QED
          BY <5>1
      <4> QED
        BY <4>1, <4>2
    <3> QED
      BY <3>1, <3>2, <3>3, SoloPass
  <2> QED
    BY <2>2, <2>3
<1>11. ASSUME NEW n \in Nodes, Schedule(n)
       PROVE  Solo'
  <2>1. CASE StartSchedule(n) \/ EndEpoch(n)
    BY <2>1, SoloSame DEF StartSchedule, EndEpoch, threadVars, Work
  <2>2. CASE GenerateBlocks(n)
    <3>1. \A k \in Nodes : Work(k) = {}
      BY <2>2, FreeMeansNoWork DEF GenerateBlocks, MayWake
    <3>2. UNCHANGED <<passes, generators>>
      BY <2>2 DEF GenerateBlocks
    <3>3. PICK h : h = InitHandler("scheduler", commitmentGenEpochRound[n])
      OBVIOUS
    <3>4. UNCHANGED handlers \/ handlers' = [handlers EXCEPT ![n] = @ \cup {h}]
      BY <2>2, <3>3 DEF GenerateBlocks
    <3>5. CASE UNCHANGED handlers
      BY <3>2, <3>5, SoloSame DEF Work
    <3>6. CASE handlers' = [handlers EXCEPT ![n] = @ \cup {h}]
      BY <3>1, <3>2, <3>6, SoloBegin
    <3> QED
      BY <3>4, <3>5, <3>6
  <2> QED
    BY <1>11, <2>1, <2>2 DEF Schedule
<1> QED
  BY <1>1, <1>2, <1>7, <1>8, <1>9, <1>10, <1>11 DEF Next, NodeStep

-----------------------------------------------------------------------------
(* What a step leaves alone *)

Still(k) ==
  UNCHANGED <<commitmentGenEpochRound[k], epochRoundsGenerated[k], bucketHashesCheck[k], dev[k],
              rdy[k], run[k], rdyEpochRound[k], runEpochRound[k], passes[k], generators[k],
              announcing[k], sched[k], slot[k], absRound[k]>>

LEMMA StagesKept ==
  ASSUME NEW k, UNCHANGED <<rdy[k], run[k], rdyEpochRound[k], runEpochRound[k]>>
  PROVE  /\ \A q : Ready(k, q)' <=> Ready(k, q)
         /\ \A q : Running(k, q)' <=> Running(k, q)
BY DEF Ready, Running

LEMMA BehindKept ==
  ASSUME NEW k, UNCHANGED <<commitmentGenEpochRound[k], rdy[k], run[k], rdyEpochRound[k],
                            runEpochRound[k]>>
  PROVE  \A r : Behind(k, r)' <=> Behind(k, r)
BY StagesKept DEF Behind

LEMMA FullKept ==
  ASSUME NEW k, UNCHANGED dev[k]
  PROVE  (\A r : Full(k, r)' <=> Full(k, r)) /\ Bucket(k)' = Bucket(k)
BY DEF Full, Bucket

LEMMA GeneratedKept ==
  ASSUME NEW k, UNCHANGED epochRoundsGenerated[k]
  PROVE  Generated(k)' = Generated(k)
BY DEF Generated

LEMMA MadeKept ==
  ASSUME NEW k, UNCHANGED <<epochRoundsGenerated[k], generators[k]>>
  PROVE  \A r : Made(k, r)' = Made(k, r) /\ Produced(k, r)' = Produced(k, r)
<1>1. Generated(k)' = Generated(k)
  BY GeneratedKept
<1> QED
  BY <1>1 DEF Made, Produced

LEMMA AllMadeKept ==
  ASSUME NEW r, \A k \in Nodes : Made(k, r)' = Made(k, r)
  PROVE  AllMade(r)' = AllMade(r)
BY ExpectedOwn DEF AllMade

\* What flies and what lands
LEMMA InFlight ==
  ASSUME NEW n
  PROVE  /\ \A c : c \in Flying(n) <=> \E m \in net[n] : m.type = "commitment" /\ m.c = c
         /\ \A c : c \in Landing(n) <=> \E h \in handlers[n] : h.pc = "insert" /\ h.c = c
BY DEF Flying, Landing

LEMMA InFlightNext ==
  ASSUME NEW n
  PROVE  /\ \A c : c \in Flying(n)' <=> \E m \in net'[n] : m.type = "commitment" /\ m.c = c
         /\ \A c : c \in Landing(n)' <=> \E h \in handlers'[n] : h.pc = "insert" /\ h.c = c
BY DEF Flying, Landing

\* A node that only loses or gains START_BLOCKCHAIN messages and their handlers
LEMMA CollectKept ==
  ASSUME NEW k \in Nodes, NEW r, CollectNode(k, r), Still(k), AllMade(r)' = AllMade(r),
         Flying(k)' = Flying(k), Landing(k)' = Landing(k), CollectNet(k, r)',
         \A h \in handlers[k] : h.pc \in {"round", "once", "mark"} /\ h.round = r
                                  => h \in handlers'[k]
  PROVE  CollectNode(k, r)'
<1>1. /\ Behind(k, r)' /\ Generated(k)' = Generated(k) /\ Bucket(k)' = Bucket(k)
      /\ Produced(k, r)' = Produced(k, r)
  BY BehindKept, GeneratedKept, FullKept, MadeKept DEF CollectNode, Still
<1>2. CollectGenerators(k, r)'
  BY <1>1 DEF CollectNode, CollectGenerators, Still
<1>3. CollectBucket(k, r)'
  BY <1>1 DEF CollectNode, CollectBucket, Still
<1>4. CollectTime(k, r)'
  BY DEF CollectNode, CollectTime, Unscheduled, Still
<1>5. CollectMust(k, r)'
  BY <1>1 DEF CollectNode, CollectMust, Must, Still
<1> QED
  BY <1>1, <1>2, <1>3, <1>4, <1>5 DEF CollectNode, Still

-----------------------------------------------------------------------------
(* The steps of START_BLOCKCHAIN, which change nothing once round 0 is generated *)

InitStep ==
  /\ UNCHANGED <<alive, roundVars, epochRoundsGenerated, bucketHashesCheck, dev, stageVars,
                 passes, generators, announcing, scheduleVars, due>>
  /\ \A k \in Nodes :
       /\ \A m \in net'[k] : m \in net[k] \/ (m.type = "init" /\ m.round = 0)
       /\ \A m \in net[k] : m \in net'[k] \/ m.type = "init"
       /\ \A h \in handlers'[k] : h \in handlers[k] \/ (h.pc = "once" /\ h.round = 0)
       /\ \A h \in handlers[k] : h \in handlers'[k] \/ (h.pc = "once" /\ h.round = 0)

LEMMA InitStepStill == ASSUME InitStep PROVE \A k \in Nodes : Still(k)
BY DEF InitStep, Still, roundVars, stageVars, scheduleVars

LEMMA StartIsInitStep ==
  ASSUME TypeOK, StartBlockchain
  PROVE  InitStep /\ \A k \in Nodes : handlers[k] \subseteq handlers'[k]
<1> DEFINE m0 == [type |-> "init", round |-> 0, id |-> starts]
           h0 == InitHandler("command", 0)
<1>1. m0.type = "init" /\ m0.round = 0 /\ h0.pc = "once" /\ h0.round = 0
  BY DEF InitHandler
<1>2. /\ net' = [k \in Nodes |-> IF k = Starter THEN net[k] ELSE net[k] \cup {m0}]
      /\ handlers' = [handlers EXCEPT ![Starter] = @ \cup {h0}]
  BY DEF StartBlockchain, Broadcast
<1> HIDE DEF m0, h0
<1>3. \A k \in Nodes : /\ net[k] \subseteq net'[k] /\ net'[k] \subseteq net[k] \cup {m0}
                       /\ handlers[k] \subseteq handlers'[k]
                       /\ handlers'[k] \subseteq handlers[k] \cup {h0}
  BY <1>2 DEF TypeOK
<1>4. UNCHANGED <<alive, roundVars, epochRoundsGenerated, bucketHashesCheck, dev, stageVars,
                  passes, generators, announcing, scheduleVars, due>>
  BY DEF StartBlockchain
<1> QED
  BY <1>1, <1>3, <1>4 DEF InitStep

LEMMA ReceiveIsInitStep ==
  ASSUME TypeOK, NEW n \in Nodes, NEW m \in net[n], ReceiveInit(n, m), m.round = 0
  PROVE  InitStep /\ \A k \in Nodes : handlers[k] \subseteq handlers'[k]
<1> DEFINE h0 == InitHandler("stream", m.round)
<1>1. m.type = "init" /\ h0.pc = "once" /\ h0.round = 0
  BY DEF InitHandler, ReceiveInit
<1>2. /\ net' = [net EXCEPT ![n] = @ \ {m}]
      /\ handlers' = [handlers EXCEPT ![n] = @ \cup {h0}]
  BY DEF ReceiveInit, Deliver
<1> HIDE DEF h0
<1>3. \A k \in Nodes : /\ net'[k] \subseteq net[k] /\ net[k] \subseteq net'[k] \cup {m}
                       /\ handlers[k] \subseteq handlers'[k]
                       /\ handlers'[k] \subseteq handlers[k] \cup {h0}
  BY <1>2 DEF TypeOK
<1>4. UNCHANGED <<alive, roundVars, epochRoundsGenerated, bucketHashesCheck, dev, stageVars,
                  passes, generators, announcing, scheduleVars, due>>
  BY DEF ReceiveInit
<1> QED
  BY <1>1, <1>3, <1>4 DEF InitStep

\* The handler of a command that is not the first finds its round generated
LEMMA OnceIsInitStep ==
  ASSUME TypeOK, NEW n \in Nodes, NEW h \in handlers[n], CheckGenerated(n, h),
         h.round = 0, 0 \in Generated(n)
  PROVE  InitStep
<1>1. h.pc = "once" /\ handlers' = Drop(handlers, n, h)
  BY DEF CheckGenerated, Generated
<1>2. \A k \in Nodes : handlers'[k] \subseteq handlers[k] /\ handlers[k] \subseteq handlers'[k] \cup {h}
  BY <1>1 DEF Drop, TypeOK
<1>3. UNCHANGED <<alive, roundVars, epochRoundsGenerated, bucketHashesCheck, dev, stageVars,
                  passes, generators, announcing, scheduleVars, due>> /\ net' = net
  BY DEF CheckGenerated, networkVars
<1> QED
  BY <1>1, <1>2, <1>3 DEF InitStep

LEMMA InitOnlyKept ==
  ASSUME InitStep, NEW k \in Nodes
  PROVE  /\ InitOnly(k) => InitOnly(k)'
         /\ OnceOnly(k) => OnceOnly(k)'
BY DEF InitStep, InitOnly, OnceOnly

LEMMA CollectInitStep ==
  ASSUME NEW r, Collecting(r), InitStep, \A k \in Nodes : handlers[k] \subseteq handlers'[k]
  PROVE  Collecting(r)'
<1>1. \A k \in Nodes : Still(k)
  BY InitStepStill
<1>2. AllMade(r)' = AllMade(r)
  BY <1>1, MadeKept, AllMadeKept DEF Still
<1>3. ASSUME NEW k \in Nodes PROVE CollectNode(k, r)'
  <2>1. /\ \A m \in net'[k] : m \in net[k] \/ (m.type = "init" /\ m.round = 0)
        /\ \A m \in net[k] : m \in net'[k] \/ m.type = "init"
        /\ \A h \in handlers'[k] : h \in handlers[k] \/ (h.pc = "once" /\ h.round = 0)
        /\ handlers[k] \subseteq handlers'[k]
    BY DEF InitStep
  <2>2. Flying(k)' = Flying(k)
    <3>1. \A c : c \in Flying(k)' <=> c \in Flying(k)
      BY <2>1, InFlight, InFlightNext
    <3> QED
      BY <3>1
  <2>3. Landing(k)' = Landing(k)
    <3>1. \A c : c \in Landing(k)' <=> c \in Landing(k)
      BY <2>1, InFlight, InFlightNext
    <3> QED
      BY <3>1
  <2>4. CollectNode(k, r) /\ CollectNet(k, r)
    BY DEF Collecting, CollectNode
  <2>5. Generated(k)' = Generated(k)
    BY <1>1, GeneratedKept DEF Still
  <2>6. CollectNet(k, r)'
    BY <2>1, <2>4, <2>5 DEF CollectNet
  <2> QED
    BY <1>1, <1>2, <2>1, <2>2, <2>3, <2>4, <2>6, CollectKept
<1>4. due' = due /\ passes' = passes /\ slot' = slot
  BY DEF InitStep, scheduleVars
<1> QED
  BY <1>3, <1>4 DEF Collecting

\* Nodes that a step of node n does not reach
LEMMA CollectOther ==
  ASSUME NEW k \in Nodes, NEW r, CollectNode(k, r), Still(k), AllMade(r)' = AllMade(r),
         net'[k] = net[k], handlers'[k] = handlers[k]
  PROVE  CollectNode(k, r)'
<1>1. Flying(k)' = Flying(k) /\ Landing(k)' = Landing(k)
  BY DEF Flying, Landing
<1>2. Generated(k)' = Generated(k)
  BY GeneratedKept DEF Still
<1>3. CollectNet(k, r)'
  BY <1>2 DEF CollectNode, CollectNet
<1> QED
  BY <1>1, <1>3, CollectKept

-----------------------------------------------------------------------------
(* Collecting the commitments of a round *)

\* A message is told by its commitment
LEMMA OneMessage ==
  ASSUME TypeOK, NEW r, NEW n \in Nodes, CollectNode(n, r)
  PROVE  \A m, k \in net[n] : m.type = "commitment" /\ k.type = "commitment" /\ m.c = k.c => m = k
<1>1. net[n] \subseteq Messages
  BY DEF TypeOK
<1>2. \A m \in Messages : m.type = "commitment" =>
        m = [type |-> "commitment", round |-> m.round, c |-> m.c]
  BY DEF Messages, InitMessage, CommitmentMessage, CheckMessage
<1>3. \A m \in net[n] : m.type = "commitment" => m.round = r
  BY DEF CollectNode, CollectNet
<1> QED
  BY <1>1, <1>2, <1>3

\* Work on the bucket of node n, with messages and handlers only
LEMMA CollectCarried ==
  ASSUME NEW n \in Nodes, NEW r, CollectNode(n, r),
         UNCHANGED <<commitmentGenEpochRound[n], epochRoundsGenerated[n], bucketHashesCheck[n],
                     rdy[n], run[n], rdyEpochRound[n], runEpochRound[n], passes[n],
                     generators[n], announcing[n], sched[n], slot[n], absRound[n]>>,
         CollectNet(n, r)', CollectBucket(n, r)', CollectMust(n, r)'
  PROVE  CollectNode(n, r)'
<1>1. Behind(n, r)' /\ Generated(n)' = Generated(n)
  BY BehindKept, GeneratedKept DEF CollectNode
<1>2. CollectGenerators(n, r)'
  BY <1>1 DEF CollectNode, CollectGenerators
<1>3. CollectTime(n, r)'
  BY DEF CollectNode, CollectTime, Unscheduled
<1> QED
  BY <1>1, <1>2, <1>3 DEF CollectNode

LEMMA CollectReceive ==
  ASSUME TimelyNetwork, TypeOK, Solo, Unharmed, NEW r \in Nat, Collecting(r),
         NEW n \in Nodes, NEW m \in net[n], ReceiveCommitment(n, m)
  PROVE  Collecting(r)'
<1> DEFINE h == [thread |-> "stream", pc |-> "insert", round |-> m.round, c |-> m.c]
<1>1. m.type = "commitment" /\ MayDeliver(n) /\ net' = [net EXCEPT ![n] = @ \ {m}]
  BY DEF ReceiveCommitment, Deliver
<1>2. CollectNode(n, r) /\ CollectBucket(n, r) /\ CollectNet(n, r) /\ m.round = r
  <2>1. CollectNode(n, r) /\ CollectBucket(n, r) /\ CollectNet(n, r)
    BY DEF Collecting, CollectNode
  <2> QED
    BY <1>1, <2>1 DEF CollectNet
<1>3. m.c \in Flying(n) /\ m.c \in AllMade(r)
  BY <1>1, <1>2, InFlight DEF CollectBucket
<1>4. m.c[2] = r /\ commitmentGenEpochRound[n] = r
  BY <1>2, <1>3, ExpectedOwn DEF AllMade, CollectNode, Behind
<1>5. handlers' = [handlers EXCEPT ![n] = @ \cup {h}]
  BY <1>4 DEF ReceiveCommitment, isCommitmentValid
<1>6. h.pc = "insert" /\ h.round = r /\ h.c = m.c
  BY <1>2
<1> HIDE DEF h
<1>7. \A k \in Nodes : Still(k)
  BY DEF ReceiveCommitment, Still, roundVars, stageVars, scheduleVars
<1>8. AllMade(r)' = AllMade(r)
  BY <1>7, MadeKept, AllMadeKept DEF Still
<1>9. ASSUME NEW k \in Nodes, k # n PROVE CollectNode(k, r)'
  <2>1. net'[k] = net[k] /\ handlers'[k] = handlers[k]
    BY <1>1, <1>5, <1>9 DEF TypeOK
  <2> QED
    BY <1>7, <1>8, <2>1, CollectOther DEF Collecting
<1>10. net'[n] = net[n] \ {m} /\ handlers'[n] = handlers[n] \cup {h}
  BY <1>1, <1>5 DEF TypeOK
<1>11. Flying(n)' = Flying(n) \ {m.c}
  <2>1. \A c : c \in Flying(n)' <=> c \in Flying(n) /\ c # m.c
    BY <1>1, <1>2, <1>10, InFlight, InFlightNext, OneMessage
  <2> QED
    BY <2>1
<1>12. Landing(n)' = Landing(n) \cup {m.c}
  <2>1. \A c : c \in Landing(n)' <=> c \in Landing(n) \/ c = m.c
    BY <1>6, <1>10, InFlight, InFlightNext
  <2> QED
    BY <2>1
<1>13. Generated(n)' = Generated(n) /\ Bucket(n)' = Bucket(n) /\ Produced(n, r)' = Produced(n, r)
       /\ dev'[n] = dev[n]
  BY <1>7, GeneratedKept, FullKept, MadeKept DEF Still
<1>14. CollectNet(n, r)'
  BY <1>2, <1>6, <1>10, <1>13 DEF CollectNet
<1>15. CollectBucket(n, r)'
  <2>1. (dev[n].sub = Produced(n, r) /\ dev[n].map = Bucket(n)
          /\ Len(dev[n].bucket) = Cardinality(Bucket(n)))'
    BY <1>2, <1>13 DEF CollectBucket
  <2>2. Bucket(n)' \cup Flying(n)' \cup Landing(n)' = AllMade(r)'
    BY <1>2, <1>3, <1>8, <1>11, <1>12, <1>13 DEF CollectBucket
  <2>3. \A c \in Flying(n)' : c \notin Bucket(n)' \cup Landing(n)'
    BY <1>2, <1>11, <1>12, <1>13 DEF CollectBucket
  <2>4. \A c \in Landing(n)' : c \notin Bucket(n)'
    BY <1>2, <1>3, <1>12, <1>13 DEF CollectBucket
  <2> QED
    BY <2>1, <2>2, <2>3, <2>4 DEF CollectBucket
<1>16. CollectMust(n, r)'
  <2>1. Must(n, r)' <=> Must(n, r)
    BY <1>7, <1>13 DEF Must, Still
  <2>2. CollectMust(n, r)
    BY <1>2 DEF CollectNode
  <2> QED
    BY <1>10, <1>13, <2>1, <2>2 DEF CollectMust
<1>17. CollectNode(n, r)'
  BY <1>2, <1>7, <1>14, <1>15, <1>16, CollectCarried DEF Still
<1>18. due' = due /\ passes' = passes /\ slot' = slot
  BY DEF ReceiveCommitment, scheduleVars
<1> QED
  BY <1>9, <1>17, <1>18 DEF Collecting

LEMMA SeqRangeFinite ==
  ASSUME NEW S, NEW s \in Seq(S)
  PROVE  IsFiniteSet(Range(s))
<1>1. Range(s) = {s[i] : i \in 1 .. Len(s)} /\ Len(s) \in Nat
  BY DEF Range
<1>2. IsFiniteSet(1 .. Len(s))
  BY <1>1, FS_Interval
<1>3. s \in Surjection(1 .. Len(s), Range(s))
  <2>1. s \in [1 .. Len(s) -> Range(s)]
    BY DEF Range
  <2> QED
    BY <1>1, <2>1, Fun_IsSurj
<1> QED
  BY <1>2, <1>3, FS_Surjection

\* A commitment joins a bucket that does not have it
LEMMA InsertedFacts ==
  ASSUME NEW stage \in Stage, NEW c \in Commitments, c \notin Range(stage.bucket),
         Len(stage.bucket) = Cardinality(Range(stage.bucket))
  PROVE  /\ Range(Inserted(stage, c).bucket) = Range(stage.bucket) \cup {c}
         /\ Len(Inserted(stage, c).bucket) = Cardinality(Range(Inserted(stage, c).bucket))
         /\ Inserted(stage, c).map = stage.map \cup {c} /\ Inserted(stage, c).sub = stage.sub
<1> DEFINE bucket == Append(stage.bucket, c)
           last == IF Len(bucket) = Capacity THEN initializeBucketSort(bucket) ELSE bucket
<1>1. stage.bucket \in Seq(Commitments) /\ stage.map \in SUBSET Commitments
  BY StageParts
<1>2. bucket \in Seq(Commitments) /\ Len(bucket) = Len(stage.bucket) + 1
  BY <1>1
<1>3. Range(bucket) = Range(stage.bucket) \cup {c}
  <2>1. /\ DOMAIN bucket = 1 .. Len(stage.bucket) + 1 /\ DOMAIN stage.bucket = 1 .. Len(stage.bucket)
        /\ bucket[Len(stage.bucket) + 1] = c
        /\ \A i \in DOMAIN stage.bucket : bucket[i] = stage.bucket[i]
    BY <1>1
  <2> HIDE DEF bucket
  <2>2. \A x \in Range(bucket) : x \in Range(stage.bucket) \cup {c}
    <3> SUFFICES ASSUME NEW i \in DOMAIN bucket PROVE bucket[i] \in Range(stage.bucket) \cup {c}
      BY DEF Range
    <3>1. i \in DOMAIN stage.bucket \/ i = Len(stage.bucket) + 1
      BY <1>1, <2>1
    <3> QED
      BY <2>1, <3>1 DEF Range
  <2>3. Range(stage.bucket) \subseteq Range(bucket)
    <3> SUFFICES ASSUME NEW i \in DOMAIN stage.bucket PROVE stage.bucket[i] \in Range(bucket)
      BY DEF Range
    <3>1. i \in DOMAIN bucket
      BY <1>1, <2>1
    <3> QED
      BY <2>1, <3>1 DEF Range
  <2>4. c \in Range(bucket)
    <3>1. Len(stage.bucket) + 1 \in DOMAIN bucket
      BY <1>1, <2>1
    <3> QED
      BY <2>1, <3>1 DEF Range
  <2> QED
    BY <2>2, <2>3, <2>4
<1>4. IsFiniteSet(Range(stage.bucket))
  BY <1>1, SeqRangeFinite
<1>5. Cardinality(Range(bucket)) = Cardinality(Range(stage.bucket)) + 1
  BY <1>3, <1>4, FS_AddElement
<1> HIDE DEF bucket
<1>6. Len(bucket) = Cardinality(Range(bucket))
  BY <1>2, <1>5
<1>7. Range(last) = Range(bucket) /\ Len(last) = Cardinality(Range(bucket))
  <2>1. Range(bucket) \in SUBSET Commitments
    BY <1>2, RangeType
  <2>2. /\ Range(Arrange("sorted", Range(bucket))) = Range(bucket)
        /\ Len(Arrange("sorted", Range(bucket))) = Cardinality(Range(bucket))
    BY <2>1, ArrangeAssumption DEF Seeds
  <2> QED
    BY <1>6, <2>2 DEF initializeBucketSort
<1>8. /\ Inserted(stage, c).bucket = last /\ Inserted(stage, c).map = stage.map \cup {c}
      /\ Inserted(stage, c).sub = stage.sub
  <2>1. Inserted(stage, c) = [stage EXCEPT !.map = @ \cup {c}, !.bucket = last]
    BY DEF Inserted, bucket
  <2> HIDE DEF last
  <2> QED
    BY <2>1 DEF Stage
<1> HIDE DEF last
<1> QED
  BY <1>3, <1>7, <1>8

LEMMA CollectInsert ==
  ASSUME TimelyNetwork, TypeOK, Solo, Unharmed, NEW r \in Nat, Collecting(r),
         NEW n \in Nodes, NEW h \in handlers[n], InsertCommitment(n, h)
  PROVE  Collecting(r)'
<1> DEFINE g == [h EXCEPT !.pc = "round"]
<1>1. h.pc = "insert" /\ net' = net
  BY DEF InsertCommitment, networkVars
<1>2. CollectNode(n, r) /\ CollectBucket(n, r) /\ CollectNet(n, r) /\ h.round = r
  <2>1. CollectNode(n, r) /\ CollectBucket(n, r) /\ CollectNet(n, r)
    BY DEF Collecting, CollectNode
  <2> QED
    BY <1>1, <2>1 DEF CollectNet
<1>3. handlers[n] = {h}
  BY HandlerAlone
<1>4. Landing(n) = {h.c}
  <2>1. \A c : c \in Landing(n) <=> c = h.c
    BY <1>1, <1>3, InFlight
  <2> QED
    BY <2>1
<1>5. h.c \notin Bucket(n) /\ h.c \in AllMade(r) /\ h.c \notin Flying(n)
  BY <1>2, <1>4 DEF CollectBucket
<1>6. /\ handlers' = [handlers EXCEPT ![n] = (@ \ {h}) \cup {g}]
      /\ dev' = [dev EXCEPT ![n] = Inserted(@, h.c)]
  BY <1>5 DEF InsertCommitment, Bucket, Go, Swap
<1>7. g.pc = "round" /\ g.round = r
  BY <1>1, <1>2, WorkKinds DEF Handler
<1> HIDE DEF g
<1>8. handlers'[n] = {g} /\ dev'[n] = Inserted(dev[n], h.c) /\ dev[n] \in Stage
  BY <1>3, <1>6 DEF TypeOK
<1>9. h.c \in Commitments
  BY <1>1, WorkKinds DEF Handler
<1>10. /\ Bucket(n)' = Bucket(n) \cup {h.c} /\ dev'[n].sub = dev[n].sub
       /\ dev'[n].map = dev[n].map \cup {h.c}
       /\ Len(dev'[n].bucket) = Cardinality(Bucket(n)')
  <2>1. h.c \notin Range(dev[n].bucket) /\ Len(dev[n].bucket) = Cardinality(Range(dev[n].bucket))
    BY <1>2, <1>5 DEF CollectBucket, Bucket
  <2>2. /\ Range(dev'[n].bucket) = Range(dev[n].bucket) \cup {h.c}
        /\ Len(dev'[n].bucket) = Cardinality(Range(dev'[n].bucket))
        /\ dev'[n].map = dev[n].map \cup {h.c} /\ dev'[n].sub = dev[n].sub
    <3>1. dev[n] \in Stage
      BY <1>8
    <3> HIDE DEF TypeOK
    <3>2. /\ Range(Inserted(dev[n], h.c).bucket) = Range(dev[n].bucket) \cup {h.c}
          /\ Len(Inserted(dev[n], h.c).bucket) = Cardinality(Range(Inserted(dev[n], h.c).bucket))
          /\ Inserted(dev[n], h.c).map = dev[n].map \cup {h.c}
          /\ Inserted(dev[n], h.c).sub = dev[n].sub
      BY <1>9, <2>1, <3>1, InsertedFacts
    <3> QED
      BY <1>8, <3>2
  <2> QED
    BY <2>2 DEF Bucket
<1>11. /\ \A k \in Nodes : UNCHANGED <<epochRoundsGenerated[k], generators[k]>>
       /\ \A k \in Nodes \ {n} : Still(k) /\ net'[k] = net[k] /\ handlers'[k] = handlers[k]
  <2>1. \A k \in Nodes \ {n} : dev'[k] = dev[k] /\ handlers'[k] = handlers[k]
    BY <1>6 DEF TypeOK
  <2> QED
    BY <1>1, <2>1 DEF InsertCommitment, Still, roundVars, stageVars, scheduleVars
<1>12. AllMade(r)' = AllMade(r) /\ Produced(n, r)' = Produced(n, r)
  BY <1>11, MadeKept, AllMadeKept
<1>13. Flying(n)' = Flying(n) /\ Landing(n)' = {}
  <2>1. \A c : c \notin Landing(n)'
    BY <1>7, <1>8, InFlightNext
  <2> QED
    BY <1>1, <2>1 DEF Flying
<1>14. CollectNet(n, r)'
  BY <1>1, <1>2, <1>7, <1>8 DEF CollectNet
<1>15. CollectBucket(n, r)'
  <2>1. (dev[n].sub = Produced(n, r) /\ dev[n].map = Bucket(n)
          /\ Len(dev[n].bucket) = Cardinality(Bucket(n)))'
    BY <1>2, <1>10, <1>12 DEF CollectBucket
  <2>2. Bucket(n)' \cup Flying(n)' \cup Landing(n)' = AllMade(r)'
    BY <1>2, <1>4, <1>10, <1>12, <1>13 DEF CollectBucket
  <2>3. \A c \in Flying(n)' : c \notin Bucket(n)' \cup Landing(n)'
    BY <1>2, <1>5, <1>10, <1>13 DEF CollectBucket
  <2> QED
    BY <1>13, <2>1, <2>2, <2>3 DEF CollectBucket
<1>16. CollectMust(n, r)'
  BY <1>7, <1>8 DEF CollectMust
<1>17. CollectNode(n, r)'
  BY <1>2, <1>14, <1>15, <1>16, CollectCarried
     DEF InsertCommitment, roundVars, stageVars, scheduleVars
<1>18. due' = due /\ passes' = passes /\ slot' = slot
  BY DEF InsertCommitment, scheduleVars
<1> QED
  BY <1>11, <1>12, <1>17, <1>18, CollectOther DEF Collecting

\* Handlers that leave the bucket alone
LEMMA CollectHandlers ==
  ASSUME TypeOK, NEW r, Collecting(r), NEW n \in Nodes, NEW S, UNCHANGED net,
         handlers' = [handlers EXCEPT ![n] = S], \A k \in Nodes : Still(k), due' = due,
         \A h \in handlers[n] \cup S : h.pc # "insert",
         CollectNet(n, r)', CollectMust(n, r)'
  PROVE  Collecting(r)'
<1>1. AllMade(r)' = AllMade(r)
  BY MadeKept, AllMadeKept DEF Still
<1>2. handlers'[n] = S /\ \A k \in Nodes \ {n} : handlers'[k] = handlers[k]
  BY DEF TypeOK
<1>3. \A k \in Nodes \ {n} : CollectNode(k, r)'
  BY <1>1, <1>2, CollectOther DEF Collecting
<1>4. Landing(n) = {} /\ Landing(n)' = {} /\ Flying(n)' = Flying(n)
  <2>1. \A c : c \notin Landing(n)' /\ c \notin Landing(n)
    BY <1>2, InFlight, InFlightNext
  <2> QED
    BY <2>1 DEF Flying
<1>5. CollectNode(n, r) /\ CollectBucket(n, r)
  BY DEF Collecting, CollectNode
<1>6. Bucket(n)' = Bucket(n) /\ Produced(n, r)' = Produced(n, r) /\ dev'[n] = dev[n]
  BY FullKept, MadeKept DEF Still
<1>7. CollectBucket(n, r)'
  BY <1>1, <1>4, <1>5, <1>6 DEF CollectBucket
<1>8. CollectNode(n, r)'
  BY <1>5, <1>7, CollectCarried DEF Still
<1>9. {k \in Nodes : passes[k] # {}}' = {k \in Nodes : passes[k] # {}}
      /\ {k \in Nodes : slot[k] = 1}' = {k \in Nodes : slot[k] = 1}
  BY DEF Still
<1> QED
  BY <1>3, <1>8, <1>9 DEF Collecting

\* No handler finds the round over: the mutex is unlocked each time
LEMMA CollectCheckRound ==
  ASSUME TimelyNetwork, TypeOK, Solo, Unharmed, NEW r \in Nat, Collecting(r),
         NEW n \in Nodes, NEW h \in handlers[n], CheckRound(n, h)
  PROVE  Collecting(r)' /\ Unharmed'
<1> DEFINE g == [h EXCEPT !.pc = "once"]
<1>1. CollectNode(n, r) /\ CollectNet(n, r) /\ h.pc = "round" /\ commitmentGenEpochRound[n] = r
  BY DEF Collecting, CollectNode, Behind, CheckRound
<1>2. h.round = r
  BY <1>1 DEF CollectNet
<1>3. handlers' = [handlers EXCEPT ![n] = (@ \ {h}) \cup {g}] /\ UNCHANGED commitmentRoundMutex
  BY <1>1, <1>2 DEF CheckRound, Go, Swap
<1>4. g.pc = "once" /\ g.round = r
  BY <1>1, <1>2, WorkKinds DEF Handler
<1> HIDE DEF g
<1>5. handlers[n] = {h} /\ handlers' = [handlers EXCEPT ![n] = {g}] /\ handlers'[n] = {g}
  <2>1. handlers[n] = {h}
    BY HandlerAlone
  <2> QED
    BY <1>3, <2>1 DEF TypeOK
<1>6. \A k \in Nodes : Still(k)
  BY <1>3 DEF CheckRound, Still, stageVars, scheduleVars
<1>7. net' = net /\ due' = due /\ alive' = alive
  BY DEF CheckRound, networkVars
<1>8. CollectNet(n, r)'
  BY <1>1, <1>4, <1>5, <1>7 DEF CollectNet
<1>9. CollectMust(n, r)'
  BY <1>4, <1>5 DEF CollectMust
<1>10. Collecting(r)'
  BY <1>1, <1>4, <1>5, <1>6, <1>7, <1>8, <1>9, CollectHandlers
<1> QED
  BY <1>3, <1>7, <1>10 DEF Unharmed

LEMMA CollectCheckGenerated ==
  ASSUME TimelyNetwork, TypeOK, Solo, Unharmed, NEW r \in Nat, Collecting(r),
         NEW n \in Nodes, NEW h \in handlers[n], CheckGenerated(n, h)
  PROVE  Collecting(r)'
<1> DEFINE g == [h EXCEPT !.pc = "mark"]
<1>1. CollectNode(n, r) /\ CollectNet(n, r) /\ CollectMust(n, r) /\ h.pc = "once"
  BY DEF Collecting, CollectNode, CheckGenerated
<1>2. h.round \in {0, r}
  BY <1>1 DEF CollectNet
<1>3. g.pc = "mark" /\ g.round = h.round
  BY <1>1, WorkKinds DEF Handler
<1>4. handlers' = IF h.round \in Generated(n) THEN [handlers EXCEPT ![n] = @ \ {h}]
                  ELSE [handlers EXCEPT ![n] = (@ \ {h}) \cup {g}]
  BY DEF CheckGenerated, Generated, Drop, Go, Swap
<1> HIDE DEF g
<1>5. \A k \in Nodes : Still(k)
  BY DEF CheckGenerated, Still, roundVars, stageVars, scheduleVars
<1>6. net' = net /\ due' = due
  BY DEF CheckGenerated, networkVars
<1>7. handlers[n] = {h}
  BY HandlerAlone
<1>8. Generated(n)' = Generated(n) /\ Bucket(n)' = Bucket(n)
  BY <1>5, GeneratedKept, FullKept DEF Still
<1>9. Must(n, r)' <=> Must(n, r)
  BY <1>5, <1>8 DEF Must, Still
<1>10. CASE h.round \in Generated(n)
  <2>1. handlers' = [handlers EXCEPT ![n] = {}] /\ handlers'[n] = {}
    BY <1>4, <1>7, <1>10 DEF TypeOK
  <2>2. CollectNet(n, r)'
    BY <1>1, <1>6, <2>1 DEF CollectNet
  <2>3. Must(n, r) => r \in Generated(n)
    BY <1>1, <1>7, <1>10 DEF CollectMust
  <2>4. CollectMust(n, r)'
    BY <1>8, <1>9, <2>3 DEF CollectMust
  <2> QED
    BY <1>1, <1>5, <1>6, <1>7, <2>1, <2>2, <2>4, CollectHandlers
<1>11. CASE h.round \notin Generated(n)
  <2>1. handlers' = [handlers EXCEPT ![n] = {g}] /\ handlers'[n] = {g}
    BY <1>4, <1>7, <1>11 DEF TypeOK
  <2>2. h.round = r
    <3>1. Generated(n) \in {0 .. r - 1, 0 .. r}
      BY <1>1 DEF CollectNode
    <3> QED
      BY <1>2, <1>11, <3>1
  <2>3. CollectNet(n, r)'
    BY <1>1, <1>3, <1>6, <1>8, <1>11, <2>1, <2>2 DEF CollectNet
  <2>4. CollectMust(n, r)'
    BY <1>3, <2>1, <2>2 DEF CollectMust
  <2> QED
    BY <1>1, <1>3, <1>5, <1>6, <1>7, <2>1, <2>3, <2>4, CollectHandlers
<1> QED
  BY <1>10, <1>11

LEMMA AppendRange ==
  ASSUME NEW T, NEW s \in Seq(T), NEW x \in T
  PROVE  Range(Append(s, x)) = Range(s) \cup {x}
<1> DEFINE t == Append(s, x)
<1>1. /\ DOMAIN t = 1 .. Len(s) + 1 /\ DOMAIN s = 1 .. Len(s) /\ Len(s) \in Nat
      /\ t[Len(s) + 1] = x /\ \A i \in DOMAIN s : t[i] = s[i]
  OBVIOUS
<1> HIDE DEF t
<1>2. \A i \in DOMAIN t : i \in DOMAIN s \/ i = Len(s) + 1
  BY <1>1
<1>3. (\A i \in DOMAIN s : i \in DOMAIN t) /\ Len(s) + 1 \in DOMAIN t
  BY <1>1
<1>4. Range(t) = Range(s) \cup {x}
  BY <1>1, <1>2, <1>3 DEF Range
<1> QED
  BY <1>4 DEF t

\* Work on the generators of node n
LEMMA GeneratorsCarried ==
  ASSUME NEW n \in Nodes, NEW r, CollectNode(n, r),
         UNCHANGED <<commitmentGenEpochRound[n], bucketHashesCheck[n], rdy[n], run[n],
                     rdyEpochRound[n], runEpochRound[n], passes[n], announcing[n], sched[n],
                     slot[n], absRound[n]>>,
         Generated(n)' \in {0 .. r - 1, 0 .. r},
         CollectNet(n, r)', CollectGenerators(n, r)', CollectBucket(n, r)', CollectMust(n, r)'
  PROVE  CollectNode(n, r)'
<1>1. Behind(n, r)'
  BY BehindKept DEF CollectNode
<1>2. CollectTime(n, r)'
  BY DEF CollectNode, CollectTime, Unscheduled
<1> QED
  BY <1>1, <1>2 DEF CollectNode

\* Marking the round begins the generation of all variants, none of which is made yet
LEMMA CollectMark ==
  ASSUME TimelyNetwork, TypeOK, Solo, Unharmed, NEW r \in Nat, Collecting(r),
         NEW n \in Nodes, NEW h \in handlers[n], MarkGenerated(n, h)
  PROVE  Collecting(r)'
<1> DEFINE g == [pc |-> "produce", round |-> h.round, copy |-> Generations(n, h.round) + 1, i |-> 1]
<1>1. /\ CollectNode(n, r) /\ CollectNet(n, r) /\ CollectBucket(n, r) /\ CollectGenerators(n, r)
      /\ h.pc = "mark"
  BY DEF Collecting, CollectNode, MarkGenerated
<1>2. h.round = r /\ r \notin Generated(n)
  BY <1>1 DEF CollectNet
<1>3. Generations(n, r) = 0
  <2>1. {i \in DOMAIN epochRoundsGenerated[n] : epochRoundsGenerated[n][i] = r} = {}
    BY <1>2 DEF Generated, Range
  <2> QED
    BY <2>1, FS_EmptySet DEF Generations
<1>4. generators[n] = {}
  BY <1>1, <1>2 DEF CollectGenerators
<1>5. /\ generators' = [generators EXCEPT ![n] = @ \cup {g}]
      /\ epochRoundsGenerated' = [epochRoundsGenerated EXCEPT ![n] = Append(@, r)]
      /\ handlers' = [handlers EXCEPT ![n] = @ \ {h}]
  BY <1>2 DEF MarkGenerated, Drop
<1>6. g.pc = "produce" /\ g.round = r /\ g.copy = 1 /\ g.i = 1
  BY <1>2, <1>3
<1> HIDE DEF g
<1>7. handlers[n] = {h}
  BY HandlerAlone
<1>8. generators'[n] = {g} /\ handlers'[n] = {}
  BY <1>4, <1>5, <1>7 DEF TypeOK
<1>9. Generated(n)' = Generated(n) \cup {r}
  <2>1. epochRoundsGenerated[n] \in Seq(Rounds) /\ r \in Rounds
    BY <1>1, <1>2, WorkKinds DEF TypeOK, Handler
  <2>2. epochRoundsGenerated'[n] = Append(epochRoundsGenerated[n], r)
    BY <1>5 DEF TypeOK
  <2> QED
    BY <2>1, <2>2, AppendRange DEF Generated
<1>10. Generated(n) = 0 .. r - 1 /\ Generated(n)' = 0 .. r
  <2>1. Generated(n) \in {0 .. r - 1, 0 .. r}
    BY <1>1 DEF CollectNode
  <2>2. Generated(n) = 0 .. r - 1
    BY <1>2, <2>1
  <2> QED
    BY <1>9, <2>2
<1>11. Made(n, r) = {} /\ Produced(n, r) = {}
  BY <1>2 DEF Made, Produced
<1>12. Made(n, r)' = {} /\ Produced(n, r)' = {}
  <2>1. \A c \in Own(n, r) : c[3] \in Nat \ {0}
    BY ExpectedOwn
  <2>2. \A c \in Own(n, r) : ~(c[3] < g.i) /\ ~(g.pc = "info") /\ ~(g.pc = "store")
    BY <1>6, <2>1
  <2>3. Made(n, r)' = {}
    BY <1>8, <2>2 DEF Made
  <2>4. Produced(n, r)' = {}
    BY <1>8, <2>2 DEF Produced
  <2> QED
    BY <2>3, <2>4
<1>13. /\ \A k \in Nodes \ {n} : Still(k) /\ net'[k] = net[k] /\ handlers'[k] = handlers[k]
       /\ net' = net /\ dev' = dev
  <2>1. \A k \in Nodes \ {n} : /\ generators'[k] = generators[k] /\ handlers'[k] = handlers[k]
                               /\ epochRoundsGenerated'[k] = epochRoundsGenerated[k]
    BY <1>5 DEF TypeOK
  <2> QED
    BY <2>1 DEF MarkGenerated, Still, networkVars, roundVars, stageVars, scheduleVars
<1>14. \A k \in Nodes : Made(k, r)' = Made(k, r)
  BY <1>11, <1>12, <1>13, MadeKept DEF Still
<1>15. AllMade(r)' = AllMade(r)
  BY <1>14, AllMadeKept
<1>16. Flying(n)' = Flying(n) /\ Landing(n)' = {} /\ Landing(n) = {} /\ Bucket(n)' = Bucket(n)
  <2>1. \A c : c \notin Landing(n)' /\ c \notin Landing(n)
    BY <1>1, <1>7, <1>8, InFlight, InFlightNext
  <2> QED
    BY <1>13, <2>1 DEF Flying, Bucket
<1>17. CollectBucket(n, r)'
  BY <1>1, <1>11, <1>12, <1>13, <1>15, <1>16 DEF CollectBucket
<1>18. CollectNet(n, r)'
  BY <1>1, <1>8, <1>13 DEF CollectNet
<1>19. CollectGenerators(n, r)'
  BY <1>6, <1>8, <1>9 DEF CollectGenerators
<1>20. CollectMust(n, r)'
  BY <1>9 DEF CollectMust
<1>21. CollectNode(n, r)'
  BY <1>1, <1>10, <1>17, <1>18, <1>19, <1>20, GeneratorsCarried
     DEF MarkGenerated, roundVars, stageVars, scheduleVars
<1>22. due' = due /\ passes' = passes /\ slot' = slot
  BY DEF MarkGenerated, scheduleVars
<1> QED
  BY <1>13, <1>15, <1>21, <1>22, CollectOther DEF Collecting

\* A variant is remembered with its secret before it is in the bucket
LEMMA CollectProduce ==
  ASSUME TimelyNetwork, TypeOK, Solo, Unharmed, NEW r \in Nat, Collecting(r),
         NEW n \in Nodes, NEW g \in generators[n], ProduceCommitment(n, g)
  PROVE  Collecting(r)'
<1> DEFINE c == <<n, r, g.i, 1>>
           next == [g EXCEPT !.pc = "store"]
<1>1. /\ CollectNode(n, r) /\ CollectNet(n, r) /\ CollectBucket(n, r) /\ CollectGenerators(n, r)
      /\ CollectMust(n, r) /\ g.pc = "produce" /\ MayBegin
  BY DEF Collecting, CollectNode, ProduceCommitment
<1>2. r \in Generated(n) /\ g.round = r /\ g.copy = 1 /\ generators[n] = {g}
  BY <1>1 DEF CollectGenerators
<1>3. g.i \in 1 .. MaxVar /\ next.pc = "store" /\ next.round = r /\ next.copy = 1 /\ next.i = g.i
  BY <1>2, WorkKinds DEF Generator
<1>4. /\ dev' = [dev EXCEPT ![n].sub = @ \cup {c}]
      /\ generators' = [generators EXCEPT ![n] = (@ \ {g}) \cup {next}]
  BY <1>2 DEF ProduceCommitment, NextCommitment, Go, Swap
<1>5. c \in Own(n, r)
  BY <1>3, ExpectedOwn
<1>6. c[3] = g.i
  OBVIOUS
<1>7. \A d \in Own(n, r) : d[3] \in Nat /\ (d[3] = g.i => d = c)
  <2>1. \A d \in Own(n, r) : d = <<d[1], r, d[3], 1>> /\ d[1] = n /\ d[3] \in 1 .. MaxVar
    BY ExpectedOwn DEF Own
  <2> QED
    BY <2>1
<1> HIDE DEF c, next
<1>8. /\ generators'[n] = {next} /\ dev'[n].sub = dev[n].sub \cup {c}
      /\ dev'[n].bucket = dev[n].bucket /\ dev'[n].map = dev[n].map
  BY <1>2, <1>4 DEF TypeOK, Stage
<1>9. Generated(n)' = Generated(n)
  BY GeneratedKept DEF ProduceCommitment
<1>10. Made(n, r)' = Made(n, r)
  BY <1>1, <1>2, <1>3, <1>8, <1>9 DEF Made
<1>11. Produced(n, r)' = Produced(n, r) \cup {c}
  <2>1. Produced(n, r) = {d \in Own(n, r) : d[3] < g.i}
    BY <1>1, <1>2 DEF Produced
  <2>2. Produced(n, r)' = {d \in Own(n, r) : d[3] < g.i \/ d[3] = g.i}
    BY <1>2, <1>3, <1>8, <1>9 DEF Produced
  <2> QED
    BY <1>5, <1>6, <1>7, <2>1, <2>2
<1>12. \A k \in Nodes \ {n} : Still(k)
  <2>1. \A k \in Nodes \ {n} : generators'[k] = generators[k] /\ dev'[k] = dev[k]
    BY <1>4 DEF TypeOK
  <2> QED
    BY <2>1 DEF ProduceCommitment, Still, roundVars, stageVars, scheduleVars
<1>13. net' = net /\ handlers' = handlers
  BY DEF ProduceCommitment, networkVars
<1>14. \A k \in Nodes : Made(k, r)' = Made(k, r)
  BY <1>10, <1>12, MadeKept DEF Still
<1>15. AllMade(r)' = AllMade(r)
  BY <1>14, AllMadeKept
<1>16. Flying(n)' = Flying(n) /\ Landing(n)' = Landing(n) /\ Bucket(n)' = Bucket(n)
  BY <1>8, <1>13 DEF Flying, Landing, Bucket
<1>17. CollectBucket(n, r)'
  BY <1>1, <1>8, <1>11, <1>15, <1>16 DEF CollectBucket
<1>18. CollectNet(n, r)'
  BY <1>1, <1>9, <1>13 DEF CollectNet
<1>19. CollectGenerators(n, r)'
  BY <1>2, <1>3, <1>8, <1>9 DEF CollectGenerators
<1>20. CollectMust(n, r)'
  BY <1>2, <1>9 DEF CollectMust
<1>21. Generated(n)' \in {0 .. r - 1, 0 .. r}
  BY <1>1, <1>9 DEF CollectNode
<1>22. CollectNode(n, r)'
  BY <1>1, <1>17, <1>18, <1>19, <1>20, <1>21, GeneratorsCarried
     DEF ProduceCommitment, roundVars, stageVars, scheduleVars
<1>23. due' = due /\ passes' = passes /\ slot' = slot
  BY DEF ProduceCommitment, scheduleVars
<1> QED
  BY <1>12, <1>13, <1>15, <1>22, <1>23, CollectOther DEF Collecting

\* A commitment of the node itself joins its bucket
LEMMA StoredFacts ==
  ASSUME NEW stage \in Stage, NEW c \in Commitments, c \notin Range(stage.bucket),
         Len(stage.bucket) = Cardinality(Range(stage.bucket))
  PROVE  /\ Range(Stored(stage, c).bucket) = Range(stage.bucket) \cup {c}
         /\ Len(Stored(stage, c).bucket) = Cardinality(Range(Stored(stage, c).bucket))
         /\ Stored(stage, c).map = stage.map \cup {c} /\ Stored(stage, c).sub = stage.sub
<1> DEFINE bucket == Append(stage.bucket, c)
           with == [stage EXCEPT !.map = @ \cup {c}, !.bucket = bucket]
           last == Arrange("key", Range(bucket))
<1>1. stage.bucket \in Seq(Commitments) /\ bucket \in Seq(Commitments)
      /\ Len(bucket) = Len(stage.bucket) + 1
  BY StageParts
<1>2. Range(bucket) = Range(stage.bucket) \cup {c} /\ IsFiniteSet(Range(stage.bucket))
  BY <1>1, AppendRange, SeqRangeFinite
<1>3. Len(bucket) = Cardinality(Range(bucket))
  <2>1. Cardinality(Range(stage.bucket) \cup {c}) = Cardinality(Range(stage.bucket)) + 1
    BY <1>2, FS_AddElement
  <2> QED
    BY <1>1, <1>2, <2>1
<1>4. Range(last) = Range(bucket) /\ Len(last) = Cardinality(Range(bucket))
  <2>1. Range(bucket) \in SUBSET Commitments
    BY <1>1, RangeType
  <2> QED
    BY <2>1, ArrangeAssumption DEF Seeds
<1>5. Stored(stage, c) = IF Len(with.bucket) = Capacity THEN Shuffled(with, FALSE) ELSE with
  BY DEF Stored
<1> HIDE DEF bucket, last
<1>6. with.bucket = bucket /\ with.map = stage.map \cup {c} /\ with.sub = stage.sub
      /\ with \in Stage
  <2> DEFINE map == stage.map \cup {c}
             half == [stage EXCEPT !.map = map]
  <2>1. map \in SUBSET Commitments
    BY StageParts
  <2> HIDE DEF map
  <2>2. half.map = map /\ half.sub = stage.sub /\ half \in Stage
    BY <2>1, StageChange DEF Stage
  <2>3. with = [half EXCEPT !.bucket = bucket]
    BY Zenon DEF map
  <2> HIDE DEF half, with
  <2>4. with.bucket = bucket /\ with.map = half.map /\ with.sub = half.sub /\ with \in Stage
    BY <1>1, <2>2, <2>3, StageChange DEF bucket, Stage
  <2> QED
    BY <2>2, <2>4 DEF map
<1> HIDE DEF with
<1>7. CASE Len(bucket) # Capacity
  BY <1>2, <1>3, <1>5, <1>6, <1>7
<1>8. CASE Len(bucket) = Capacity
  <2>1. randomBucketShuffle(with.bucket, FALSE) = last
    BY <1>6, <1>8 DEF randomBucketShuffle, last
  <2>2. /\ Shuffled(with, FALSE).bucket = last /\ Shuffled(with, FALSE).map = with.map
        /\ Shuffled(with, FALSE).sub = with.sub
    <3> DEFINE mixed == [with EXCEPT !.bucket = last]
    <3>1. Range(bucket) \in SUBSET Commitments
      BY <1>1, RangeType
    <3>2. last \in Seq(Commitments)
      <4>1. last \in Seq(Range(bucket))
        BY <3>1, ArrangeAssumption DEF last, Seeds
      <4> QED
        BY <3>1, <4>1
    <3>3. mixed \in Stage /\ mixed.bucket = last /\ mixed.map = with.map /\ mixed.sub = with.sub
      BY <1>6, <3>2 DEF Stage
    <3>4. Shuffled(with, FALSE) = identifyCommitmentPositions(mixed)
      BY <2>1 DEF Shuffled
    <3> HIDE DEF mixed
    <3>5. /\ identifyCommitmentPositions(mixed).bucket = mixed.bucket
          /\ identifyCommitmentPositions(mixed).map = mixed.map
          /\ identifyCommitmentPositions(mixed).sub = mixed.sub
      <4>1. mixed = [sub |-> mixed.sub, bucket |-> mixed.bucket, map |-> mixed.map,
                     hash |-> mixed.hash, pos |-> mixed.pos]
        BY <3>3 DEF Stage
      <4> QED
        BY <4>1 DEF identifyCommitmentPositions
    <3> QED
      BY <3>3, <3>4, <3>5
  <2> QED
    BY <1>2, <1>4, <1>5, <1>6, <1>8, <2>2
<1> QED
  BY <1>7, <1>8

\* In the first two rounds the chain is the genesis block alone, later it is not
LEMMA GenesisAlone ==
  ASSUME TimelyNetwork, NEW r \in Nat, Collecting(r)
  PROVE  (r < 2 => OnlyGenesis = {TRUE}) /\ (r >= 2 => OnlyGenesis = {FALSE})
<1>1. \A k \in Nodes : CollectTime(k, r)
  BY DEF Collecting, CollectNode
<1>2. CASE r < 2
  <2>1. \A k \in Nodes : absRound[k] = 0
    BY <1>1, <1>2 DEF CollectTime, Unscheduled
  <2>2. OnlyGenesis = {TRUE}
    BY <2>1, Zenon DEF OnlyGenesis
  <2>3. ~(r >= 2)
    BY <1>2
  <2> QED
    BY <2>2, <2>3, Zenon
<1>3. CASE r >= 2
  <2>1. slot[Starter] \in {1, 2} /\ absRound[Starter] = (r - 2) * EpochRounds + slot[Starter]
    BY <1>1, <1>3, NodesAssumption DEF CollectTime
  <2>2. (r - 2) * EpochRounds \in Nat
    BY <1>3, Parameters
  <2>3. absRound[Starter] # 0
    BY <2>1, <2>2
  <2>4. ~ \A k \in Nodes : absRound[k] = 0
    BY <2>3, NodesAssumption
  <2>5. OnlyGenesis = {FALSE}
    BY <2>4, Zenon DEF OnlyGenesis, TimelyNetwork
  <2>6. ~(r < 2)
    BY <1>3
  <2> QED
    BY <2>5, <2>6, Zenon
<1> QED
  BY <1>2, <1>3

\* The variant is put into the bucket and sent to everybody
LEMMA CollectStore ==
  ASSUME TimelyNetwork, TypeOK, Solo, Unharmed, NEW r \in Nat, Collecting(r),
         NEW n \in Nodes, NEW g \in generators[n], StoreCommitment(n, g)
  PROVE  Collecting(r)'
<1> DEFINE c == <<n, r, g.i, 1>>
           m == [type |-> "commitment", round |-> r, c |-> c]
<1>1. /\ CollectNode(n, r) /\ CollectNet(n, r) /\ CollectBucket(n, r) /\ CollectGenerators(n, r)
      /\ g.pc = "store"
  BY DEF Collecting, CollectNode, StoreCommitment
<1>2. r \in Generated(n) /\ g.round = r /\ g.copy = 1 /\ generators[n] = {g}
  BY <1>1 DEF CollectGenerators
<1>3. g.i \in 1 .. MaxVar /\ g \in Generator
  BY WorkKinds DEF Generator
<1>4. /\ dev' = [dev EXCEPT ![n] = Stored(@, c)]
      /\ net' = [k \in Nodes |-> IF k = n THEN net[k] ELSE net[k] \cup {m}]
      /\ handlers' = handlers
  BY <1>2 DEF StoreCommitment, NextCommitment, Broadcast
<1>5. c \in Own(n, r) /\ c \in Expected(r) /\ c[1] = n /\ c[3] = g.i
  BY <1>3, ExpectedOwn
<1>6. c \in Commitments
  <2>1. r \in 0 .. MaxRound - 1 /\ 1 \in 1 .. MaxCopies
    BY <1>2, <1>3 DEF Generator
  <2> QED
    BY <1>3, <2>1 DEF Commitments
<1>7. \A d \in Own(n, r) : d[3] \in 1 .. MaxVar /\ (d[3] = g.i => d = c)
  <2>1. \A d \in Own(n, r) : d = <<d[1], r, d[3], 1>> /\ d[1] = n /\ d[3] \in 1 .. MaxVar
    BY ExpectedOwn DEF Own
  <2> QED
    BY <2>1
<1>8. m.type = "commitment" /\ m.round = r /\ m.c = c
  OBVIOUS
<1> HIDE DEF c, m
<1>9. \A k \in Nodes : handlers[k] = {}
  BY <1>1, StoreAlone
<1>10. Made(n, r) = {d \in Own(n, r) : d[3] < g.i}
  BY <1>1, <1>2 DEF Made
<1>11. c \notin AllMade(r)
  BY <1>3, <1>5, <1>10 DEF AllMade
\* The generator afterwards
<1>12. PICK S : /\ generators' = [generators EXCEPT ![n] = (@ \ {g}) \cup S]
                /\ \/ /\ g.i < MaxVar /\ S = {[g EXCEPT !.pc = "produce", !.i = @ + 1]}
                   \/ /\ g.i = MaxVar /\ r < 2 /\ S = {[g EXCEPT !.pc = "info"]}
                   \/ /\ g.i = MaxVar /\ r >= 2 /\ S = {}
  <2>1. CASE MoreVariants(g.i)
    <3>1. generators' = Swap(generators, n, g, [g EXCEPT !.pc = "produce", !.i = @ + 1])
      BY <2>1 DEF StoreCommitment
    <3> QED
      BY <2>1, <3>1 DEF MoreVariants, Swap
  <2>2. CASE ~MoreVariants(g.i) /\ r < 2
    <3>1. OnlyGenesis = {TRUE}
      BY <2>2, GenesisAlone
    <3>2. generators' = Go(generators, n, g, "info")
      BY <2>2, <3>1 DEF StoreCommitment
    <3>3. g.i = MaxVar
      BY <1>3, <2>2, Parameters DEF MoreVariants
    <3> QED
      BY <2>2, <3>2, <3>3 DEF Go, Swap
  <2>3. CASE ~MoreVariants(g.i) /\ r >= 2
    <3>1. OnlyGenesis = {FALSE}
      BY <2>3, GenesisAlone
    <3>2. generators' = Drop(generators, n, g)
      BY <2>3, <3>1 DEF StoreCommitment
    <3>3. g.i = MaxVar
      BY <1>3, <2>3, Parameters DEF MoreVariants
    <3>4. generators' = [generators EXCEPT ![n] = (@ \ {g}) \cup {}]
      BY <3>2 DEF Drop
    <3> QED
      BY <2>3, <3>3, <3>4
  <2>4. r < 2 \/ r >= 2
    OBVIOUS
  <2> QED
    BY <2>1, <2>2, <2>3, <2>4, Zenon
<1>13. generators'[n] = S /\ \A k \in Nodes \ {n} : generators'[k] = generators[k]
  BY <1>2, <1>12 DEF TypeOK
<1>14. \/ g.i < MaxVar /\ \E x : S = {x} /\ x.pc = "produce" /\ x.i = g.i + 1 /\ x.round = r /\ x.copy = 1
       \/ g.i = MaxVar /\ r < 2 /\ S = {Info(r)}
       \/ g.i = MaxVar /\ r >= 2 /\ S = {}
  <2>1. [g EXCEPT !.pc = "info"] = [pc |-> "info", round |-> r, copy |-> 1, i |-> g.i]
    BY <1>2, <1>3 DEF Generator
  <2>2. LET x == [g EXCEPT !.pc = "produce", !.i = @ + 1]
        IN  x.pc = "produce" /\ x.i = g.i + 1 /\ x.round = r /\ x.copy = 1
    BY <1>2, <1>3 DEF Generator
  <2> QED
    BY <1>12, <2>1, <2>2 DEF Info
<1>15. Generated(n)' = Generated(n)
  BY GeneratedKept DEF StoreCommitment
<1>16. /\ Made(n, r)' = {d \in Own(n, r) : d[3] <= g.i}
       /\ Produced(n, r)' = {d \in Own(n, r) : d[3] <= g.i}
       /\ Produced(n, r) = {d \in Own(n, r) : d[3] <= g.i}
  <2>1. Produced(n, r) = {d \in Own(n, r) : d[3] <= g.i}
    BY <1>1, <1>2, <1>3, <1>7 DEF Produced
  <2>2. CASE g.i < MaxVar
    <3>1. PICK x : S = {x} /\ x.pc = "produce" /\ x.i = g.i + 1
      BY <1>3, <1>14, <2>2, Parameters
    <3>2. Made(n, r)' = {d \in Own(n, r) : d[3] < g.i + 1}
      BY <1>2, <1>13, <1>15, <3>1 DEF Made
    <3>3. Produced(n, r)' = {d \in Own(n, r) : d[3] < g.i + 1}
      BY <1>2, <1>13, <1>15, <3>1 DEF Produced
    <3>4. \A d \in Own(n, r) : d[3] < g.i + 1 <=> d[3] <= g.i
      BY <1>3, <1>7
    <3> QED
      BY <2>1, <3>2, <3>3, <3>4
  <2>3. CASE g.i = MaxVar
    <3>1. \A x \in S : x.pc = "info"
      BY <1>3, <1>14, <2>3 DEF Info
    <3>2. Made(n, r)' = Own(n, r) /\ Produced(n, r)' = Own(n, r)
      BY <1>2, <1>13, <1>15, <3>1 DEF Made, Produced
    <3>3. \A d \in Own(n, r) : d[3] <= g.i
      BY <1>7, <2>3, Parameters
    <3> QED
      BY <2>1, <3>2, <3>3
  <2> QED
    BY <1>3, <2>2, <2>3, Parameters
<1>17. Made(n, r)' = Made(n, r) \cup {c}
  BY <1>3, <1>5, <1>7, <1>10, <1>16
<1>18. \A k \in Nodes \ {n} : Still(k)
  <2>1. \A k \in Nodes \ {n} : dev'[k] = dev[k]
    BY <1>4 DEF TypeOK
  <2> QED
    BY <1>13, <2>1 DEF StoreCommitment, Still, roundVars, stageVars, scheduleVars
<1>19. AllMade(r)' = AllMade(r) \cup {c}
  <2>1. \A k \in Nodes \ {n} : Made(k, r)' = Made(k, r)
    BY <1>18, MadeKept DEF Still
  <2>2. \A d \in Expected(r) : d[1] \in Nodes
    BY ExpectedOwn
  <2>3. \A d \in Expected(r) : d \in AllMade(r)' <=> d \in AllMade(r) \/ d = c
    BY <1>5, <1>17, <2>1, <2>2 DEF AllMade
  <2> QED
    BY <1>5, <2>3 DEF AllMade
<1>20. c \notin Bucket(n) /\ \A k \in Nodes : c \notin Flying(k) /\ c \notin Bucket(k) /\ c \notin Landing(k)
  BY <1>11 DEF Collecting, CollectNode, CollectBucket
<1>21. /\ Bucket(n)' = Bucket(n) \cup {c} /\ dev'[n].sub = dev[n].sub
       /\ dev'[n].map = dev[n].map \cup {c} /\ Len(dev'[n].bucket) = Cardinality(Bucket(n)')
  <2>1. dev[n] \in Stage /\ dev'[n] = Stored(dev[n], c)
    BY <1>4 DEF TypeOK
  <2>2. c \notin Range(dev[n].bucket) /\ Len(dev[n].bucket) = Cardinality(Range(dev[n].bucket))
    BY <1>1, <1>20 DEF CollectBucket, Bucket
  <2> HIDE DEF TypeOK
  <2>3. /\ Range(Stored(dev[n], c).bucket) = Range(dev[n].bucket) \cup {c}
        /\ Len(Stored(dev[n], c).bucket) = Cardinality(Range(Stored(dev[n], c).bucket))
        /\ Stored(dev[n], c).map = dev[n].map \cup {c} /\ Stored(dev[n], c).sub = dev[n].sub
    BY <1>6, <2>1, <2>2, StoredFacts
  <2> QED
    BY <2>1, <2>3 DEF Bucket
<1>22. net'[n] = net[n] /\ \A k \in Nodes \ {n} : net'[k] = net[k] \cup {m}
  BY <1>4
<1>23. Flying(n)' = Flying(n) /\ \A k \in Nodes : Landing(k)' = Landing(k)
  BY <1>4, <1>22 DEF Flying, Landing
<1>24. CollectBucket(n, r)'
  <2>1. (dev[n].sub = Produced(n, r) /\ dev[n].map = Bucket(n)
          /\ Len(dev[n].bucket) = Cardinality(Bucket(n)))'
    BY <1>1, <1>16, <1>21 DEF CollectBucket
  <2>2. Bucket(n)' \cup Flying(n)' \cup Landing(n)' = AllMade(r)'
    BY <1>1, <1>19, <1>21, <1>23 DEF CollectBucket
  <2>3. /\ \A d \in Flying(n)' : d \notin Bucket(n)' \cup Landing(n)'
        /\ \A d \in Landing(n)' : d \notin Bucket(n)'
    BY <1>1, <1>20, <1>21, <1>23 DEF CollectBucket
  <2> QED
    BY <2>1, <2>2, <2>3 DEF CollectBucket
<1>25. CollectNet(n, r)'
  BY <1>1, <1>4, <1>15, <1>22 DEF CollectNet
<1>26. CollectGenerators(n, r)'
  <2>1. \A x, y \in S : x = y
    BY <1>14
  <2>2. \A x \in S : x.round = r /\ x.copy = 1 /\ (x.pc = "info" => r < 2 /\ x = Info(r))
    BY <1>14 DEF Info
  <2>3. r < 2 => S # {}
    BY <1>14
  <2> QED
    BY <1>2, <1>13, <1>15, <2>1, <2>2, <2>3 DEF CollectGenerators
<1>27. CollectMust(n, r)'
  BY <1>2, <1>15 DEF CollectMust
<1>28. Generated(n)' \in {0 .. r - 1, 0 .. r}
  BY <1>1, <1>15 DEF CollectNode
<1>29. CollectNode(n, r)'
  BY <1>1, <1>24, <1>25, <1>26, <1>27, <1>28, GeneratorsCarried
     DEF StoreCommitment, roundVars, stageVars, scheduleVars
<1>30. ASSUME NEW k \in Nodes, k # n PROVE CollectNode(k, r)'
  <2>1. CollectNode(k, r) /\ CollectBucket(k, r) /\ CollectNet(k, r) /\ CollectMust(k, r) /\ Still(k)
    BY <1>18, <1>30 DEF Collecting, CollectNode
  <2>2. net'[k] = net[k] \cup {m} /\ handlers'[k] = handlers[k]
    BY <1>4, <1>22, <1>30
  <2>3. Flying(k)' = Flying(k) \cup {c}
    <3>1. \A d : d \in Flying(k)' <=> d \in Flying(k) \/ d = c
      BY <1>8, <2>2, InFlight, InFlightNext
    <3> QED
      BY <3>1
  <2>4. /\ Generated(k)' = Generated(k) /\ Bucket(k)' = Bucket(k)
        /\ Produced(k, r)' = Produced(k, r) /\ dev'[k] = dev[k]
    BY <2>1, GeneratedKept, FullKept, MadeKept DEF Still
  <2>5. CollectNet(k, r)'
    BY <1>8, <2>1, <2>2, <2>4 DEF CollectNet
  <2>6. CollectBucket(k, r)'
    <3>1. Bucket(k)' \cup Flying(k)' \cup Landing(k)' = AllMade(r)'
      BY <1>19, <1>23, <2>1, <2>3, <2>4 DEF CollectBucket
    <3>2. /\ \A d \in Flying(k)' : d \notin Bucket(k)' \cup Landing(k)'
          /\ \A d \in Landing(k)' : d \notin Bucket(k)'
      BY <1>20, <1>23, <2>1, <2>3, <2>4 DEF CollectBucket
    <3>3. (dev[k].sub = Produced(k, r) /\ dev[k].map = Bucket(k)
            /\ Len(dev[k].bucket) = Cardinality(Bucket(k)))'
      BY <2>1, <2>4 DEF CollectBucket
    <3> QED
      BY <3>1, <3>2, <3>3 DEF CollectBucket
  <2>7. CollectMust(k, r)'
    <3>1. Must(k, r)' <=> Must(k, r)
      BY <2>1, <2>4 DEF Must, Still
    <3> QED
      BY <2>1, <2>2, <2>4, <3>1 DEF CollectMust
  <2> QED
    BY <2>1, <2>5, <2>6, <2>7, CollectCarried DEF Still
<1>31. due' = due /\ passes' = passes /\ slot' = slot
  BY DEF StoreCommitment, scheduleVars
<1> QED
  BY <1>29, <1>30, <1>31 DEF Collecting

-----------------------------------------------------------------------------
(* The clock *)

\* Nodes besides one
LEMMA OtherNodes ==
  ASSUME TimelyNetwork, NEW n \in Nodes
  PROVE  /\ IsFiniteSet(Nodes \ {n}) /\ Cardinality(Nodes \ {n}) = N - 1
         /\ Nodes \ {n} # {}
<1>1. IsFiniteSet(Nodes \ {n}) /\ Cardinality(Nodes \ {n}) = N - 1
  BY Parameters, FS_RemoveElement DEF N
<1>2. Cardinality(Nodes \ {n}) # 0
  BY <1>1, Parameters DEF TimelyNetwork
<1> QED
  BY <1>1, <1>2, FS_EmptySet

LEMMA QuietMeans ==
  ASSUME TimelyNetwork, Unharmed, Quiet
  PROVE  /\ due = {}
         /\ \A k \in Nodes : /\ handlers[k] = {} /\ ~MayStartSchedule(k)
                             /\ \A p \in passes[k] : p.pc \in Asleep
                             /\ \A g \in generators[k] : g.pc = "info"
                             /\ passes[k] = {} => net[k] = {}
<1>1. /\ due = {} /\ ~Working
      /\ \A k \in Nodes : /\ net[k] = {} \/ ~StreamFree(k)
                          /\ \A g \in generators[k] : g.pc = "info"
                          /\ ~MayStartSchedule(k)
  BY DEF Quiet, Unharmed
<1>2. \A k \in Nodes : handlers[k] = {} /\ \A p \in passes[k] : p.pc \in Asleep
  BY <1>1 DEF Working, Unharmed
<1>3. \A k \in Nodes : passes[k] = {} => StreamFree(k)
  <2> TAKE k \in Nodes
  <2> HAVE passes[k] = {}
  <2>1. {h \in handlers[k] : h.thread = "stream"} = {}
    BY <1>2
  <2>2. /\ Cardinality({h \in handlers[k] : h.thread = "stream"}) = 0
        /\ Cardinality(passes[k]) = 0
    BY <2>1, FS_EmptySet
  <2>3. 0 < N - 1
    BY Parameters DEF TimelyNetwork
  <2> QED
    BY <2>2, <2>3 DEF StreamFree, Streams
<1> QED
  BY <1>1, <1>2, <1>3

LEMMA SleeperMembers ==
  ASSUME Unharmed
  PROVE  /\ \A s : s \in Sleepers <=>
               \E k \in Nodes : \/ \E p \in passes[k] : p.pc \in Asleep /\ s = <<k, p>>
                                \/ \E g \in generators[k] : g.pc = "info" /\ s = <<k, g>>
                                \/ \E a \in announcing[k] : s = <<k, a>>
                                \/ sched[k] = "end" /\ s = <<k, EndSleep>>
         /\ \A s : s \in SlotSleepers <=> \E k \in Nodes : sched[k] = "slot" /\ s = <<k, SlotSleep>>
<1> DEFINE Of(k) == ({k} \X {p \in passes[k] : p.pc \in Asleep})
                      \cup ({k} \X {g \in generators[k] : g.pc = "info"})
                      \cup ({k} \X announcing[k])
                      \cup (IF sched[k] = "end" THEN {<<k, EndSleep>>} ELSE {})
<1>1. {m \in Nodes : alive[m]} = Nodes
  BY DEF Unharmed
<1>2. Sleepers = UNION {Of(k) : k \in Nodes}
  BY <1>1, Zenon DEF Sleepers
<1>3. \A k : \A s : s \in Of(k) <=>
               \/ \E p \in passes[k] : p.pc \in Asleep /\ s = <<k, p>>
               \/ \E g \in generators[k] : g.pc = "info" /\ s = <<k, g>>
               \/ \E a \in announcing[k] : s = <<k, a>>
               \/ sched[k] = "end" /\ s = <<k, EndSleep>>
  OBVIOUS
<1> HIDE DEF Of
<1>4. \A s : s \in Sleepers <=> \E k \in Nodes : s \in Of(k)
  BY <1>2
<1>5. \A s : s \in SlotSleepers <=> \E k \in Nodes : sched[k] = "slot" /\ s = <<k, SlotSleep>>
  BY <1>1 DEF SlotSleepers, Unharmed
<1> QED
  BY <1>3, <1>4, <1>5

LEMMA ClockStill ==
  ASSUME AdvanceClock
  PROVE  /\ \A k \in Nodes : Still(k)
         /\ UNCHANGED <<net, alive, commitmentRoundMutex, handlers, passes, generators,
                        announcing, sched, slot, absRound, leads, run, dev>>
         /\ due' = IF Sleepers # {} THEN Sleepers ELSE SlotSleepers
         /\ Sleepers # {} \/ SlotSleepers # {}
BY DEF AdvanceClock, Still, networkVars, roundVars, stageVars, threadVars, scheduleVars

\* The sleeps that end in a period are of one kind
LEMMA Awakened ==
  ASSUME TimelyNetwork, NEW n, NEW s, MayWake(<<n, s>>), NEW S, NEW t, due = S \X {t}
  PROVE  s = t /\ n \in S
BY DEF MayWake, TimelyNetwork

LEMMA WokenUp ==
  ASSUME NEW n, NEW S, NEW t, due = S \X {t}, Wake(<<n, t>>)
  PROVE  due' = (S \ {n}) \X {t}
BY DEF Wake

-----------------------------------------------------------------------------
(* The beginning and the end of collecting *)

\* The handler that passed round 0 starts round 1
LEMMA CollectStartNext ==
  ASSUME TimelyNetwork, TypeOK, Solo, Unharmed, NEW r \in Nat, Collecting(r),
         NEW n \in Nodes, NEW p \in passes[n], StartNextRound(n, p)
  PROVE  Collecting(r)'
<1> DEFINE h == InitHandler("stream", r)
<1>1. /\ CollectNode(n, r) /\ CollectNet(n, r) /\ CollectBucket(n, r) /\ CollectGenerators(n, r)
      /\ CollectTime(n, r) /\ CollectMust(n, r) /\ commitmentGenEpochRound[n] = r
  BY DEF Collecting, CollectNode, Behind
<1>2. r = 1 /\ passes[n] = {NextPass} /\ p = NextPass
  BY <1>1 DEF CollectNode
<1>3. due = {k \in Nodes : passes[k] # {}} \X {NextPass}
  BY <1>2 DEF Collecting
<1>4. due' = ({k \in Nodes : passes[k] # {}} \ {n}) \X {NextPass}
  <2>1. Wake(<<n, NextPass>>)
    BY <1>2 DEF StartNextRound
  <2> QED
    BY <1>3, <2>1, WokenUp
<1>5. /\ passes' = [passes EXCEPT ![n] = @ \ {p}]
      /\ handlers' = [handlers EXCEPT ![n] = @ \cup {h}]
      /\ MayBegin
  BY <1>1 DEF StartNextRound, Drop, MayWake
<1>6. h.pc = "once" /\ h.round = r
  BY DEF InitHandler
<1> HIDE DEF h
<1>7. handlers[n] = {}
  BY <1>5, FreeMeansNoWork
<1>8. /\ passes'[n] = {} /\ handlers'[n] = {h}
      /\ \A k \in Nodes \ {n} : passes'[k] = passes[k] /\ handlers'[k] = handlers[k]
  BY <1>2, <1>5, <1>7 DEF TypeOK
<1>9. {k \in Nodes : passes'[k] # {}} = {k \in Nodes : passes[k] # {}} \ {n}
  BY <1>8
<1>10. due' = {k \in Nodes : passes'[k] # {}} \X {NextPass}
  BY <1>4, <1>9
<1>11. /\ \A k \in Nodes \ {n} : Still(k)
       /\ \A k \in Nodes : UNCHANGED <<epochRoundsGenerated[k], generators[k]>>
       /\ net' = net
  BY <1>8 DEF StartNextRound, Still, networkVars, roundVars, stageVars, scheduleVars
<1>12. AllMade(r)' = AllMade(r) /\ Produced(n, r)' = Produced(n, r)
  BY <1>11, MadeKept, AllMadeKept
<1>13. \A k \in Nodes \ {n} : CollectNode(k, r)'
  BY <1>8, <1>11, <1>12, CollectOther DEF Collecting
<1>14. UNCHANGED <<commitmentGenEpochRound[n], epochRoundsGenerated[n], bucketHashesCheck[n],
                   rdy[n], run[n], rdyEpochRound[n], runEpochRound[n], generators[n],
                   announcing[n], sched[n], slot[n], absRound[n], dev[n]>>
  BY DEF StartNextRound, roundVars, stageVars, scheduleVars
<1>15. Flying(n)' = Flying(n) /\ Landing(n)' = {} /\ Landing(n) = {} /\ Bucket(n)' = Bucket(n)
  <2>1. \A c : c \notin Landing(n)' /\ c \notin Landing(n)
    BY <1>6, <1>7, <1>8, InFlight, InFlightNext
  <2> QED
    BY <1>11, <1>14, <2>1 DEF Flying, Bucket
<1>16. Behind(n, r)' /\ Generated(n)' = Generated(n)
  BY <1>14, BehindKept, GeneratedKept, <1>1 DEF CollectNode
<1>17. CollectNet(n, r)'
  BY <1>1, <1>6, <1>8, <1>11, <1>16 DEF CollectNet
<1>18. CollectGenerators(n, r)'
  BY <1>1, <1>14, <1>16 DEF CollectGenerators
<1>19. CollectBucket(n, r)'
  BY <1>1, <1>12, <1>14, <1>15 DEF CollectBucket
<1>20. CollectTime(n, r)' /\ CollectMust(n, r)'
  BY <1>1, <1>6, <1>8, <1>14 DEF CollectTime, Unscheduled, CollectMust
<1>21. CollectNode(n, r)'
  BY <1>1, <1>8, <1>14, <1>16, <1>17, <1>18, <1>19, <1>20 DEF CollectNode
<1> QED
  BY <1>2, <1>10, <1>13, <1>21 DEF Collecting

LEMMA NobodySleeps ==
  ASSUME NEW S, NEW t, S \X {t} = {}
  PROVE  S = {}
<1> SUFFICES ASSUME NEW x \in S PROVE FALSE
  OBVIOUS
<1>1. <<x, t>> \in S \X {t}
  OBVIOUS
<1> QED
  BY <1>1

\* What counting a slot changes
LEMMA BlocksMade ==
  ASSUME TimelyNetwork, TypeOK, NEW n \in Nodes, GenerateBlocks(n)
  PROVE  /\ slot' = [slot EXCEPT ![n] = @ + 1] /\ absRound' = [absRound EXCEPT ![n] = @ + 1]
         /\ handlers' = IF MidEpoch(slot[n] + 1)
                        THEN [handlers EXCEPT ![n] = @ \cup
                                {InitHandler("scheduler", commitmentGenEpochRound[n])}]
                        ELSE handlers
         /\ sched' = IF EpochOver(slot[n] + 1) THEN [sched EXCEPT ![n] = "end"] ELSE sched
         /\ MayBegin /\ sched[n] = "slot" /\ MayWake(<<n, SlotSleep>>) /\ Wake(<<n, SlotSleep>>)
         /\ UNCHANGED <<net, alive, commitmentGenEpochRound, commitmentRoundMutex,
                        epochRoundsGenerated, bucketHashesCheck, dev, rdy, run, rdyEpochRound,
                        runEpochRound, passes, generators, announcing>>
         /\ leads' = leads \cup Led(n)
<1>1. slot' = [slot EXCEPT ![n] = @ + 1] /\ absRound' = [absRound EXCEPT ![n] = @ + 1]
  BY DEF GenerateBlocks
<1> QED
  BY <1>1 DEF GenerateBlocks, networkVars, roundVars, stageVars, MayWake

\* Two slots after the epoch has begun the schedule starts the next round
LEMMA CollectBlocks ==
  ASSUME TimelyNetwork, TypeOK, Solo, Unharmed, NEW r \in Nat, Collecting(r),
         NEW n \in Nodes, GenerateBlocks(n)
  PROVE  Collecting(r)'
<1> DEFINE h == InitHandler("scheduler", r)
<1>1. /\ CollectNode(n, r) /\ CollectNet(n, r) /\ CollectBucket(n, r) /\ CollectGenerators(n, r)
      /\ CollectTime(n, r) /\ CollectMust(n, r) /\ commitmentGenEpochRound[n] = r
  BY DEF Collecting, CollectNode, Behind
<1>2. r >= 2
  <2>1. sched[n] = "slot"
    BY BlocksMade
  <2> QED
    BY <1>1, <2>1 DEF CollectTime, Unscheduled
<1>3. due = {k \in Nodes : slot[k] = 1} \X {SlotSleep}
  BY <1>2 DEF Collecting
<1>4. due' = ({k \in Nodes : slot[k] = 1} \ {n}) \X {SlotSleep} /\ slot[n] = 1
  <2>1. n \in {k \in Nodes : slot[k] = 1}
    BY <1>3, Awakened, BlocksMade
  <2> QED
    BY <1>3, <2>1, WokenUp, BlocksMade
<1>5. MidEpoch(slot[n] + 1) /\ ~EpochOver(slot[n] + 1)
  BY <1>4, Parameters DEF MidEpoch, EpochOver, TimelyNetwork
<1>6. /\ slot' = [slot EXCEPT ![n] = @ + 1] /\ absRound' = [absRound EXCEPT ![n] = @ + 1]
      /\ handlers' = [handlers EXCEPT ![n] = @ \cup {h}] /\ sched' = sched /\ MayBegin
  BY <1>1, <1>5, BlocksMade
<1>7. h.pc = "once" /\ h.round = r
  BY DEF InitHandler
<1> HIDE DEF h
<1>8. handlers[n] = {}
  BY <1>6, FreeMeansNoWork
<1>9. /\ slot'[n] = 2 /\ absRound'[n] = absRound[n] + 1 /\ handlers'[n] = {h}
      /\ \A k \in Nodes \ {n} : /\ slot'[k] = slot[k] /\ absRound'[k] = absRound[k]
                                /\ handlers'[k] = handlers[k]
  BY <1>4, <1>6, <1>8 DEF TypeOK
<1>10. due' = {k \in Nodes : slot'[k] = 1} \X {SlotSleep}
  <2>1. {k \in Nodes : slot'[k] = 1} = {k \in Nodes : slot[k] = 1} \ {n}
    BY <1>9
  <2> QED
    BY <1>4, <2>1
<1>11. /\ \A k \in Nodes \ {n} : Still(k)
       /\ \A k \in Nodes : UNCHANGED <<epochRoundsGenerated[k], generators[k]>>
       /\ net' = net
  BY <1>6, <1>9, BlocksMade DEF Still
<1>12. AllMade(r)' = AllMade(r) /\ Produced(n, r)' = Produced(n, r)
  BY <1>11, MadeKept, AllMadeKept
<1>13. \A k \in Nodes \ {n} : CollectNode(k, r)'
  BY <1>9, <1>11, <1>12, CollectOther DEF Collecting
<1>14. UNCHANGED <<commitmentGenEpochRound[n], epochRoundsGenerated[n], bucketHashesCheck[n],
                   rdy[n], run[n], rdyEpochRound[n], runEpochRound[n], generators[n],
                   announcing[n], sched[n], passes[n], dev[n]>>
  BY <1>6, BlocksMade
<1>15. Flying(n)' = Flying(n) /\ Landing(n)' = {} /\ Landing(n) = {} /\ Bucket(n)' = Bucket(n)
  <2>1. \A c : c \notin Landing(n)' /\ c \notin Landing(n)
    BY <1>7, <1>8, <1>9, InFlight, InFlightNext
  <2> QED
    BY <1>11, <1>14, <2>1 DEF Flying, Bucket
<1>16. Behind(n, r)' /\ Generated(n)' = Generated(n)
  BY <1>14, BehindKept, GeneratedKept, <1>1 DEF CollectNode
<1>17. CollectNet(n, r)'
  BY <1>1, <1>7, <1>9, <1>11, <1>16 DEF CollectNet
<1>18. CollectGenerators(n, r)'
  BY <1>1, <1>14, <1>16 DEF CollectGenerators
<1>19. CollectBucket(n, r)'
  BY <1>1, <1>12, <1>14, <1>15 DEF CollectBucket
<1>20. CollectTime(n, r)'
  <2>1. absRound[n] = (r - 2) * EpochRounds + 1 /\ sched[n] = "slot"
    BY <1>1, <1>2, <1>4 DEF CollectTime
  <2>2. (r - 2) * EpochRounds \in Nat
    BY <1>2, Parameters
  <2>3. absRound'[n] = (r - 2) * EpochRounds + 2
    BY <1>9, <2>1, <2>2
  <2> QED
    BY <1>2, <1>9, <1>14, <2>1, <2>3 DEF CollectTime
<1>21. CollectMust(n, r)'
  BY <1>7, <1>9 DEF CollectMust
<1>22. CollectNode(n, r)'
  BY <1>1, <1>14, <1>16, <1>17, <1>18, <1>19, <1>20, <1>21 DEF CollectNode
<1> QED
  BY <1>2, <1>10, <1>13, <1>22 DEF Collecting

\* A node that has made all its commitments
LEMMA AllOwn ==
  ASSUME NEW r, NEW n, r \in Generated(n), \A g \in generators[n] : g.pc = "info"
  PROVE  Made(n, r) = Own(n, r) /\ Produced(n, r) = Own(n, r)
BY DEF Made, Produced

\* Everything made has been collected once no message flies and no handler works
LEMMA CollectRest ==
  ASSUME TimelyNetwork, TypeOK, Unharmed, NEW r \in Nat, Collecting(r), Quiet
  PROVE  /\ due = {}
         /\ \A k \in Nodes : /\ handlers[k] = {} /\ net[k] = {} /\ passes[k] = {}
                             /\ \A g \in generators[k] : g.pc = "info"
                             /\ Bucket(k) = AllMade(r)
                             /\ Must(k, r) => r \in Generated(k)
<1>1. /\ due = {}
      /\ \A k \in Nodes : /\ handlers[k] = {}
                          /\ \A g \in generators[k] : g.pc = "info"
                          /\ passes[k] = {} => net[k] = {}
  BY QuietMeans
<1>2. \A k \in Nodes : CollectNode(k, r) /\ CollectBucket(k, r) /\ CollectMust(k, r)
  BY DEF Collecting, CollectNode
<1>3. \A k \in Nodes : passes[k] = {}
  <2> TAKE k \in Nodes
  <2>1. CASE r < 2
    <3>1. {j \in Nodes : passes[j] # {}} \X {NextPass} = {}
      BY <1>1, <2>1 DEF Collecting
    <3>2. {j \in Nodes : passes[j] # {}} = {}
      BY <3>1, NobodySleeps
    <3> QED
      BY <3>2
  <2>2. CASE r >= 2
    BY <1>2, <2>2 DEF CollectNode
  <2> QED
    BY <2>1, <2>2
<1>4. \A k \in Nodes : Flying(k) = {} /\ Landing(k) = {}
  <2> TAKE k \in Nodes
  <2>1. \A c : c \notin Flying(k) /\ c \notin Landing(k)
    BY <1>1, <1>3, InFlight
  <2> QED
    BY <2>1
<1>5. \A k \in Nodes : Bucket(k) = AllMade(r)
  BY <1>2, <1>4 DEF CollectBucket
<1>6. \A k \in Nodes : Must(k, r) => r \in Generated(k)
  BY <1>1, <1>2 DEF CollectMust
<1> QED
  BY <1>1, <1>3, <1>5, <1>6

\* When all nodes have made theirs, every bucket is complete
LEMMA CollectFull ==
  ASSUME TypeOK, NEW r \in Nat, Collecting(r),
         \A k \in Nodes : /\ r \in Generated(k) /\ Bucket(k) = AllMade(r)
                          /\ \A g \in generators[k] : g.pc = "info"
  PROVE  \A k \in Nodes : Full(k, r) /\ Generated(k) = 0 .. r
<1>1. \A k \in Nodes : Made(k, r) = Own(k, r) /\ Produced(k, r) = Own(k, r)
  BY AllOwn
<1>2. AllMade(r) = Expected(r)
  <2>1. \A c \in Expected(r) : c[1] \in Nodes /\ c \in Own(c[1], r)
    BY ExpectedOwn
  <2> QED
    BY <1>1, <2>1 DEF AllMade
<1>3. TAKE k \in Nodes
<1>4. CollectNode(k, r) /\ CollectBucket(k, r)
  BY DEF Collecting, CollectNode
<1>5. Generated(k) = 0 .. r
  <2>1. Generated(k) \in {0 .. r - 1, 0 .. r} /\ r \in Generated(k)
    BY <1>4 DEF CollectNode
  <2> QED
    BY <2>1
<1>6. Full(k, r)
  <2>1. Range(dev[k].bucket) = Expected(r)
    BY <1>2 DEF Bucket
  <2>2. Len(dev[k].bucket) = Capacity
    BY <1>2, <1>4, ExpectedCount DEF CollectBucket
  <2>3. dev[k].sub = Own(k, r) /\ dev[k].map = Expected(r)
    BY <1>1, <1>2, <1>4 DEF CollectBucket
  <2> QED
    BY <2>1, <2>2, <2>3 DEF Full
<1> QED
  BY <1>5, <1>6

\* The four seconds after the first rounds have been generated
LEMMA CollectSleep ==
  ASSUME TimelyNetwork, TypeOK, Solo, Unharmed, NEW r \in Nat, Collecting(r), r < 2, AdvanceClock
  PROVE  Sorting(r)'
<1>1. /\ due = {}
      /\ \A k \in Nodes : /\ handlers[k] = {} /\ net[k] = {} /\ passes[k] = {}
                          /\ \A g \in generators[k] : g.pc = "info"
                          /\ Bucket(k) = AllMade(r)
                          /\ Must(k, r) => r \in Generated(k)
  BY CollectRest DEF AdvanceClock
<1>2. \A k \in Nodes : /\ CollectNode(k, r) /\ CollectGenerators(k, r) /\ announcing[k] = {}
                       /\ Unscheduled(k)
  BY DEF Collecting, CollectNode, CollectTime
<1>3. \A k \in Nodes : sched[k] = "idle"
  BY <1>2 DEF Unscheduled
<1>4. \A s : s \in Sleepers <=> \E k \in Nodes : \E g \in generators[k] : s = <<k, g>>
  BY <1>1, <1>2, <1>3, SleeperMembers
<1>5. SlotSleepers = {}
  <2>1. \A s : s \notin SlotSleepers
    BY <1>3, SleeperMembers
  <2> QED
    BY <2>1
<1>6. PICK j \in Nodes : generators[j] # {}
  <2>1. Sleepers # {}
    BY <1>5, ClockStill
  <2> QED
    BY <1>4, <2>1
<1>7. r \in Generated(j)
  BY <1>2, <1>6 DEF CollectGenerators
<1>8. \A k \in Nodes : r \in Generated(k)
  <2>1. CASE r = 0
    <3>1. <<j, r, 1, 1>> \in Made(j, r)
      BY <1>1, <1>7, AllOwn, ExpectedOwn
    <3>2. <<j, r, 1, 1>> \in Expected(r) /\ <<j, r, 1, 1>>[1] = j
      BY ExpectedOwn
    <3>3. <<j, r, 1, 1>> \in AllMade(r)
      BY <3>1, <3>2 DEF AllMade
    <3> QED
      BY <1>1, <2>1, <3>3 DEF Must
  <2>2. CASE r = 1
    BY <1>1, <2>2 DEF Must
  <2> QED
    BY <2>1, <2>2
<1>9. \A k \in Nodes : Full(k, r) /\ Generated(k) = 0 .. r
  BY <1>1, <1>8, CollectFull
<1>10. \A k \in Nodes : generators[k] = {Info(r)}
  <2> TAKE k \in Nodes
  <2>1. generators[k] # {}
    BY <1>2, <1>8 DEF CollectGenerators
  <2>2. \A g \in generators[k] : g = Info(r)
    BY <1>1, <1>2 DEF CollectGenerators
  <2> QED
    BY <2>1, <2>2
<1>11. /\ \A k \in Nodes : Still(k)
       /\ UNCHANGED <<net, handlers, passes, generators, announcing, dev>>
       /\ due' = Sleepers
  BY <1>4, <1>6, ClockStill
<1>12. due' = {k \in Nodes : generators'[k] # {}} \X {Info(r)}
  <2>1. \A s : s \in Sleepers <=> s \in {k \in Nodes : generators'[k] # {}} \X {Info(r)}
    BY <1>4, <1>10, <1>11
  <2> QED
    BY <1>11, <2>1
<1>13. ASSUME NEW k \in Nodes
       PROVE  /\ Behind(k, r)' /\ bucketHashesCheck'[k] = <<>> /\ passes'[k] = {}
              /\ Generated(k)' = 0 .. r /\ Unscheduled(k)' /\ InitOnly(k)' /\ OnceOnly(k)'
              /\ Full(k, r)' /\ generators'[k] = {Info(r)} /\ announcing'[k] = {}
  <2>1. Still(k) /\ Behind(k, r) /\ bucketHashesCheck[k] = <<>>
    BY <1>2, <1>11 DEF CollectNode
  <2>2. Behind(k, r)' /\ Generated(k)' = Generated(k) /\ (Full(k, r)' <=> Full(k, r))
    BY <2>1, BehindKept, GeneratedKept, FullKept DEF Still
  <2>3. Unscheduled(k)'
    BY <1>2, <2>1 DEF Unscheduled, Still
  <2>4. InitOnly(k)' /\ OnceOnly(k)'
    BY <1>1, <1>11 DEF InitOnly, OnceOnly
  <2> QED
    BY <1>1, <1>2, <1>9, <1>10, <1>11, <2>1, <2>2, <2>3, <2>4 DEF Still
<1> QED
  BY <1>12, <1>13 DEF Sorting

\* The next slot begins when every node has the commitments of the round
LEMMA CollectSlot ==
  ASSUME TimelyNetwork, TypeOK, Solo, Unharmed, NEW r \in Nat, Collecting(r), r >= 2, AdvanceClock
  PROVE  Slots(r)'
<1>1. /\ due = {}
      /\ \A k \in Nodes : /\ handlers[k] = {} /\ net[k] = {} /\ passes[k] = {}
                          /\ \A g \in generators[k] : g.pc = "info"
                          /\ Bucket(k) = AllMade(r)
                          /\ Must(k, r) => r \in Generated(k)
  BY CollectRest DEF AdvanceClock
<1>2. \A k \in Nodes : /\ CollectNode(k, r) /\ CollectGenerators(k, r) /\ announcing[k] = {}
                       /\ CollectTime(k, r)
  BY DEF Collecting, CollectNode
<1>3. \A k \in Nodes : /\ sched[k] = "slot" /\ slot[k] \in {1, 2}
                       /\ absRound[k] = (r - 2) * EpochRounds + slot[k]
  BY <1>2 DEF CollectTime
<1>4. \A k \in Nodes : slot[k] = 2
  <2>1. {k \in Nodes : slot[k] = 1} \X {SlotSleep} = {}
    BY <1>1 DEF Collecting
  <2>2. {k \in Nodes : slot[k] = 1} = {}
    BY <2>1, NobodySleeps
  <2> QED
    BY <1>3, <2>2
<1>5. \A k \in Nodes : generators[k] = {}
  BY <1>1, <1>2 DEF CollectGenerators
<1>6. \A k \in Nodes : Full(k, r) /\ Generated(k) = 0 .. r
  BY <1>1, <1>4, CollectFull DEF Must
<1>7. Sleepers = {} /\ SlotSleepers = Nodes \X {SlotSleep}
  <2>1. \A s : s \notin Sleepers
    BY <1>1, <1>2, <1>3, <1>5, SleeperMembers
  <2>2. \A s : s \in SlotSleepers <=> s \in Nodes \X {SlotSleep}
    BY <1>3, SleeperMembers
  <2> QED
    BY <2>1, <2>2
<1>8. /\ \A k \in Nodes : Still(k)
      /\ UNCHANGED <<net, handlers, passes, generators, announcing, dev>>
      /\ due' = Nodes \X {SlotSleep}
  BY <1>7, ClockStill
<1>9. ASSUME NEW k \in Nodes
      PROVE  SlotNode(k, r, 2)' /\ slot'[k] = 2
  <2>1. Still(k) /\ Behind(k, r) /\ bucketHashesCheck[k] = <<>>
    BY <1>2, <1>8 DEF CollectNode
  <2>2. Behind(k, r)' /\ Generated(k)' = Generated(k) /\ (Full(k, r)' <=> Full(k, r))
    BY <2>1, BehindKept, GeneratedKept, FullKept DEF Still
  <2>3. InitOnly(k)' /\ OnceOnly(k)'
    BY <1>1, <1>8 DEF InitOnly, OnceOnly
  <2>4. 2 # EpochRounds /\ slot'[k] = 2 /\ slot[k] = 2 /\ sched'[k] = "slot"
    BY <1>3, <1>4, <2>1 DEF TimelyNetwork, Still
  <2>5. absRound'[k] = (r - 2) * EpochRounds + 2
    BY <1>3, <2>1, <2>4 DEF Still
  <2>6. /\ generators'[k] = {} /\ announcing'[k] = {} /\ passes'[k] = {}
        /\ bucketHashesCheck'[k] = <<>>
    BY <1>1, <1>2, <1>5, <1>8, <2>1 DEF Still
  <2> QED
    BY <1>6, <2>2, <2>3, <2>4, <2>5, <2>6 DEF SlotNode
<1>10. due' = {k \in Nodes : slot'[k] = 2} \X {SlotSleep}
  <2>1. {k \in Nodes : slot'[k] = 2} = Nodes
    BY <1>9
  <2> QED
    BY <1>8, <2>1
<1>11. 2 \in 0 .. EpochRounds - 1
  BY Parameters DEF TimelyNetwork
<1> QED
  BY <1>9, <1>10, <1>11 DEF Slots

\* Nothing else harms a node: a hash refused by most, a handler of a round that is over
LEMMA Harmless ==
  ASSUME Unharmed, Next,
         \A n \in Nodes : \A m \in net[n] : ~FailBucketCheck(n, m),
         \A n \in Nodes : \A h \in handlers[n] :
            CheckRound(n, h) => h.round = commitmentGenEpochRound[n]
  PROVE  Unharmed'
<1>1. SUFFICES alive' = alive /\ commitmentRoundMutex' = commitmentRoundMutex
  BY DEF Unharmed
<1>2. CASE StartBlockchain \/ AdvanceClock
  BY <1>2 DEF StartBlockchain, AdvanceClock, roundVars
<1>3. ASSUME NEW n \in Nodes, Receive(n)
      PROVE  alive' = alive /\ commitmentRoundMutex' = commitmentRoundMutex
  <2>1. PICK m \in net[n] :
          \/ ReceiveInit(n, m) \/ ReceiveCommitment(n, m) \/ RetryBucketCheck(n, m)
          \/ DropBucketCheck(n, m) \/ CountBucketCheck(n, m) \/ CompleteBucketCheck(n, m)
    BY <1>3 DEF Receive
  <2>2. CASE ReceiveInit(n, m) \/ ReceiveCommitment(n, m)
    BY <2>2 DEF ReceiveInit, ReceiveCommitment, roundVars
  <2>3. CASE RetryBucketCheck(n, m) \/ DropBucketCheck(n, m)
    BY <2>3 DEF RetryBucketCheck, DropBucketCheck, roundVars
  <2>4. CASE CountBucketCheck(n, m) \/ CompleteBucketCheck(n, m)
    BY <2>4 DEF CountBucketCheck, CompleteBucketCheck, roundVars
  <2> QED
    BY <2>1, <2>2, <2>3, <2>4
<1>4. ASSUME NEW n \in Nodes, Handle(n)
      PROVE  alive' = alive /\ commitmentRoundMutex' = commitmentRoundMutex
  <2>1. PICK h \in handlers[n] : \/ InsertCommitment(n, h) \/ CheckRound(n, h)
                                 \/ CheckGenerated(n, h) \/ MarkGenerated(n, h)
    BY <1>4 DEF Handle
  <2>2. CASE CheckRound(n, h)
    BY <2>2 DEF CheckRound
  <2>3. CASE InsertCommitment(n, h) \/ CheckGenerated(n, h) \/ MarkGenerated(n, h)
    BY <2>3 DEF InsertCommitment, CheckGenerated, MarkGenerated, roundVars
  <2> QED
    BY <2>1, <2>2, <2>3
<1>5. ASSUME NEW n \in Nodes, Generate(n)
      PROVE  alive' = alive /\ commitmentRoundMutex' = commitmentRoundMutex
  BY <1>5 DEF Generate, ProduceCommitment, StoreCommitment, InitBucketInfo, AnnounceBucket, roundVars
<1>6. ASSUME NEW n \in Nodes, PassOn(n)
      PROVE  alive' = alive /\ commitmentRoundMutex' = commitmentRoundMutex
  <2>1. PICK p \in passes[n] :
          \/ PassToEpochRunning(n, p) \/ EndPause(n, p) \/ CopyBucket(n, p) \/ CopyRest(n, p)
          \/ BumpRound(n, p) \/ ClearChecks(n, p) \/ ResetDev(n, p) \/ StartNextRound(n, p)
    BY <1>6 DEF PassOn
  <2> QED
    BY <2>1 DEF PassToEpochRunning, EndPause, CopyBucket, CopyRest, BumpRound, ClearChecks,
                ResetDev, StartNextRound, roundVars
<1>7. ASSUME NEW n \in Nodes, Schedule(n)
      PROVE  alive' = alive /\ commitmentRoundMutex' = commitmentRoundMutex
  BY <1>7 DEF Schedule, StartSchedule, GenerateBlocks, EndEpoch, roundVars
<1> QED
  BY <1>2, <1>3, <1>4, <1>5, <1>6, <1>7 DEF Next, NodeStep

\* The steps of a node, one by one
LEMMA Steps ==
  ASSUME NEW n \in Nodes, NodeStep(n)
  PROVE  \/ \E m \in net[n] : \/ ReceiveInit(n, m) \/ ReceiveCommitment(n, m)
                              \/ RetryBucketCheck(n, m) \/ DropBucketCheck(n, m)
                              \/ CountBucketCheck(n, m) \/ CompleteBucketCheck(n, m)
                              \/ FailBucketCheck(n, m)
         \/ \E h \in handlers[n] : \/ InsertCommitment(n, h) \/ CheckRound(n, h)
                                   \/ CheckGenerated(n, h) \/ MarkGenerated(n, h)
         \/ \E g \in generators[n] : \/ ProduceCommitment(n, g) \/ StoreCommitment(n, g)
                                     \/ InitBucketInfo(n, g)
         \/ \E a \in announcing[n] : AnnounceBucket(n, a)
         \/ \E p \in passes[n] : \/ PassToEpochRunning(n, p) \/ EndPause(n, p) \/ CopyBucket(n, p)
                                 \/ CopyRest(n, p) \/ BumpRound(n, p) \/ ClearChecks(n, p)
                                 \/ ResetDev(n, p) \/ StartNextRound(n, p)
         \/ StartSchedule(n) \/ GenerateBlocks(n) \/ EndEpoch(n)
BY DEF NodeStep, Receive, Handle, Generate, PassOn, Schedule

\* The message kinds that a step takes
LEMMA MessageKinds ==
  ASSUME NEW n, NEW m
  PROVE  /\ ReceiveInit(n, m) => m.type = "init"
         /\ ReceiveCommitment(n, m) => m.type = "commitment"
         /\ (\/ RetryBucketCheck(n, m) \/ DropBucketCheck(n, m) \/ CountBucketCheck(n, m)
             \/ CompleteBucketCheck(n, m) \/ FailBucketCheck(n, m)) => m.type = "check"
BY DEF ReceiveInit, ReceiveCommitment, RetryBucketCheck, DropBucketCheck, CountBucketCheck,
       CompleteBucketCheck, FailBucketCheck, AcceptBucketCheck

LEMMA CollectStep ==
  ASSUME TimelyNetwork, TypeOK, Solo, Unharmed, NEW r \in Nat, Collecting(r), Next
  PROVE  Unharmed' /\ (Collecting(r)' \/ Sorting(r)' \/ Slots(r)')
<1>1. \A n \in Nodes : /\ CollectNode(n, r) /\ CollectNet(n, r) /\ CollectTime(n, r)
                       /\ commitmentGenEpochRound[n] = r
  BY DEF Collecting, CollectNode, Behind
<1>2. \A n \in Nodes : \A m \in net[n] : m.type # "check" /\ (m.type = "init" => m.round = 0)
  BY <1>1 DEF CollectNet
<1>3. Unharmed'
  <2>1. \A n \in Nodes : \A m \in net[n] : ~FailBucketCheck(n, m)
    BY <1>2, MessageKinds
  <2>2. ASSUME NEW n \in Nodes, NEW h \in handlers[n], CheckRound(n, h)
        PROVE  h.round = commitmentGenEpochRound[n]
    <3>1. h.pc = "round"
      BY <2>2 DEF CheckRound
    <3> QED
      BY <1>1, <3>1 DEF CollectNet
  <2> QED
    BY <2>1, <2>2, Harmless
<1>4. CASE StartBlockchain
  BY <1>3, <1>4, StartIsInitStep, CollectInitStep
<1>5. CASE AdvanceClock
  <2>1. r < 2 \/ r >= 2
    OBVIOUS
  <2> QED
    BY <1>3, <1>5, <2>1, CollectSleep, CollectSlot
<1>6. ASSUME NEW n \in Nodes, NodeStep(n)
      PROVE  Collecting(r)'
  <2>1. ASSUME NEW m \in net[n], ReceiveInit(n, m) \/ ReceiveCommitment(n, m)
        PROVE  Collecting(r)'
    <3>1. CASE ReceiveInit(n, m)
      <4>1. m.round = 0
        BY <1>2, <3>1, MessageKinds
      <4> QED
        BY <3>1, <4>1, ReceiveIsInitStep, CollectInitStep
    <3>2. CASE ReceiveCommitment(n, m)
      BY <3>2, CollectReceive
    <3> QED
      BY <2>1, <3>1, <3>2
  <2>2. \A m \in net[n] :
          ~(\/ RetryBucketCheck(n, m) \/ DropBucketCheck(n, m) \/ CountBucketCheck(n, m)
            \/ CompleteBucketCheck(n, m) \/ FailBucketCheck(n, m))
    BY <1>2, MessageKinds
  <2>3. ASSUME NEW h \in handlers[n],
               \/ InsertCommitment(n, h) \/ CheckRound(n, h)
               \/ CheckGenerated(n, h) \/ MarkGenerated(n, h)
        PROVE  Collecting(r)'
    BY <2>3, CollectInsert, CollectCheckRound, CollectCheckGenerated, CollectMark
  <2>4. ASSUME NEW g \in generators[n],
               ProduceCommitment(n, g) \/ StoreCommitment(n, g)
        PROVE  Collecting(r)'
    BY <2>4, CollectProduce, CollectStore
  <2>5. \E S : due = S \X {NextPass} \/ due = S \X {SlotSleep}
    BY DEF Collecting
  <2>6. \A s : MayWake(<<n, s>>) => s = NextPass \/ s = SlotSleep
    BY <2>5, Awakened
  <2>7. \A g \in generators[n] : ~InitBucketInfo(n, g)
    <3>1. \A g : g.pc = "info" => g # NextPass /\ g # SlotSleep
      BY DEF NextPass, SlotSleep
    <3> QED
      BY <2>6, <3>1 DEF InitBucketInfo
  <2>8. announcing[n] = {}
    BY <1>1 DEF CollectNode
  <2>9. \A p \in passes[n] : p.pc = "next"
    BY <1>1 DEF CollectNode, NextPass
  <2>10. ASSUME NEW p \in passes[n],
                \/ PassToEpochRunning(n, p) \/ EndPause(n, p) \/ CopyBucket(n, p)
                \/ CopyRest(n, p) \/ BumpRound(n, p) \/ ClearChecks(n, p)
                \/ ResetDev(n, p) \/ StartNextRound(n, p)
         PROVE  Collecting(r)'
    <3>1. StartNextRound(n, p)
      BY <2>9, <2>10 DEF PassToEpochRunning, EndPause, CopyBucket, CopyRest, BumpRound,
                         ClearChecks, ResetDev
    <3> QED
      BY <3>1, CollectStartNext
  <2>11. ~StartSchedule(n)
    <3>1. CASE r < 2
      <4>1. PICK k \in Nodes \ {n} : TRUE
        BY OtherNodes
      <4>2. ~(commitmentGenEpochRound[k] >= 2)
        BY <1>1, <3>1
      <4> QED
        BY <4>2 DEF StartSchedule, MayStartSchedule
    <3>2. CASE r >= 2
      <4>1. sched[n] = "slot"
        BY <1>1, <3>2 DEF CollectTime
      <4> QED
        BY <4>1 DEF StartSchedule, MayStartSchedule
    <3> QED
      BY <3>1, <3>2
  <2>12. ~EndEpoch(n)
    BY <1>1 DEF EndEpoch, CollectTime, Unscheduled
  <2>13. GenerateBlocks(n) => Collecting(r)'
    BY CollectBlocks
  <2> QED
    BY <1>6, <2>1, <2>2, <2>3, <2>4, <2>7, <2>8, <2>10, <2>11, <2>12, <2>13, Steps
<1> QED
  BY <1>3, <1>4, <1>5, <1>6 DEF Next

-----------------------------------------------------------------------------
(* Arranging the buckets of the first two rounds *)

LEMMA SortInitStep ==
  ASSUME NEW r, Sorting(r), InitStep
  PROVE  Sorting(r)'
<1>1. \A k \in Nodes : Still(k)
  BY InitStepStill
<1>2. ASSUME NEW k \in Nodes
      PROVE  /\ Behind(k, r)' /\ bucketHashesCheck'[k] = <<>> /\ passes'[k] = {}
             /\ Generated(k)' = 0 .. r /\ Unscheduled(k)' /\ InitOnly(k)' /\ OnceOnly(k)'
             /\ Full(k, r)'
             /\ \/ generators'[k] = {Info(r)} /\ announcing'[k] = {}
                \/ generators'[k] = {} /\ announcing'[k] = {Ann(r)} /\ dev'[k] = Final(k, r)
  <2>1. Behind(k, r)' /\ Generated(k)' = Generated(k) /\ Full(k, r)'
    BY <1>1, BehindKept, GeneratedKept, FullKept DEF Still, Sorting
  <2>2. InitOnly(k)' /\ OnceOnly(k)'
    BY InitOnlyKept DEF Sorting
  <2>3. Unscheduled(k)'
    BY <1>1 DEF Sorting, Unscheduled, Still
  <2> QED
    BY <1>1, <2>1, <2>2, <2>3 DEF Sorting, Still
<1>3. due' = due /\ generators' = generators
  BY DEF InitStep
<1> QED
  BY <1>2, <1>3 DEF Sorting

\* INIT_BUCKET_INFO gives every node the same order
LEMMA SortBucket ==
  ASSUME TimelyNetwork, TypeOK, NEW r \in Nat, Sorting(r),
         NEW n \in Nodes, NEW g \in generators[n], InitBucketInfo(n, g)
  PROVE  Sorting(r)'
<1>1. /\ r < 2 /\ due = {k \in Nodes : generators[k] # {}} \X {Info(r)}
      /\ Behind(n, r) /\ bucketHashesCheck[n] = <<>> /\ passes[n] = {} /\ Generated(n) = 0 .. r
      /\ Unscheduled(n) /\ InitOnly(n) /\ OnceOnly(n) /\ Full(n, r)
      /\ generators[n] = {Info(r)} /\ announcing[n] = {} /\ g = Info(r)
  BY DEF Sorting
<1>2. due' = ({k \in Nodes : generators[k] # {}} \ {n}) \X {Info(r)}
  <2>1. Wake(<<n, Info(r)>>)
    BY <1>1 DEF InitBucketInfo
  <2> QED
    BY <1>1, <2>1, WokenUp
<1>3. Real(r) /\ Shuffled(dev[n], TRUE) = Final(n, r)
  <2>1. (r < 2) = TRUE
    BY <1>1
  <2>2. Real(r) /\ Shuffled(dev[n], r < 2) = Final(n, r)
    BY <1>1, ShuffledFull
  <2> QED
    BY <2>1, <2>2, Zenon
<1>4. commitmentGenEpochRound[n] = r
  BY <1>1 DEF Behind
<1>5. dev' = [dev EXCEPT ![n] = Final(n, r)]
  BY <1>1, <1>3, <1>4 DEF InitBucketInfo
<1>6. dev'[n] = Final(n, r) /\ \A k \in Nodes \ {n} : dev'[k] = dev[k]
  BY <1>5 DEF TypeOK
<1>7. announcing' = [announcing EXCEPT ![n] = @ \cup {Ann(r)}]
  <2>1. announcing' = [announcing EXCEPT ![n] = @ \cup
             {[pc |-> "announce", round |-> r, hash |-> dev'[n].hash, len |-> Len(dev'[n].bucket)]}]
    BY <1>1, <1>4 DEF InitBucketInfo, bucketInfoStarted
  <2>2. dev'[n].hash = Hash(Order(r)) /\ Len(dev'[n].bucket) = Capacity
    BY <1>3, <1>6, OrderFacts DEF Final
  <2> QED
    BY <2>1, <2>2 DEF Ann
<1>8. generators' = [generators EXCEPT ![n] = @ \ {g}]
  BY DEF InitBucketInfo, Drop
<1>9. /\ generators'[n] = {} /\ announcing'[n] = {Ann(r)}
      /\ \A k \in Nodes \ {n} : generators'[k] = generators[k] /\ announcing'[k] = announcing[k]
  BY <1>1, <1>7, <1>8 DEF TypeOK
<1>10. \A k \in Nodes : /\ UNCHANGED <<commitmentGenEpochRound[k], epochRoundsGenerated[k],
                              bucketHashesCheck[k], rdy[k], run[k], rdyEpochRound[k],
                              runEpochRound[k], passes[k], sched[k], slot[k], absRound[k]>>
                        /\ net' = net /\ handlers' = handlers
  BY DEF InitBucketInfo, networkVars, roundVars, stageVars, scheduleVars
<1>11. Full(n, r)'
  BY <1>3, <1>6, OrderFacts DEF Full, Final
<1>12. ASSUME NEW k \in Nodes
       PROVE  /\ Behind(k, r)' /\ bucketHashesCheck'[k] = <<>> /\ passes'[k] = {}
              /\ Generated(k)' = 0 .. r /\ Unscheduled(k)' /\ InitOnly(k)' /\ OnceOnly(k)'
  <2>1. Behind(k, r)' /\ Generated(k)' = 0 .. r
    BY <1>10, BehindKept, GeneratedKept DEF Sorting
  <2> QED
    BY <1>10, <2>1 DEF Sorting, Unscheduled, InitOnly, OnceOnly
<1>13. ASSUME NEW k \in Nodes
       PROVE  /\ Full(k, r)'
              /\ \/ generators'[k] = {Info(r)} /\ announcing'[k] = {}
                 \/ generators'[k] = {} /\ announcing'[k] = {Ann(r)} /\ dev'[k] = Final(k, r)
  <2>1. CASE k = n
    BY <1>6, <1>9, <1>11, <2>1
  <2>2. CASE k # n
    <3>1. Full(k, r)'
      BY <1>6, <2>2, FullKept DEF Sorting
    <3> QED
      BY <1>6, <1>9, <2>2, <3>1 DEF Sorting
  <2> QED
    BY <2>1, <2>2
<1>14. due' = {k \in Nodes : generators'[k] # {}} \X {Info(r)}
  <2>1. {k \in Nodes : generators'[k] # {}} = {k \in Nodes : generators[k] # {}} \ {n}
    BY <1>9
  <2> QED
    BY <1>2, <2>1
<1> QED
  BY <1>1, <1>12, <1>13, <1>14 DEF Sorting

\* Four seconds later the prepared BUCKET_CHECKs are sent
LEMMA SortClock ==
  ASSUME TimelyNetwork, TypeOK, Solo, Unharmed, NEW r \in Nat, Sorting(r), AdvanceClock
  PROVE  Agreeing(r)'
<1>1. /\ r < 2 /\ due = {k \in Nodes : generators[k] # {}} \X {Info(r)}
      /\ \A n \in Nodes :
           /\ Behind(n, r) /\ bucketHashesCheck[n] = <<>> /\ passes[n] = {}
           /\ Generated(n) = 0 .. r /\ Unscheduled(n) /\ InitOnly(n) /\ OnceOnly(n) /\ Full(n, r)
           /\ \/ generators[n] = {Info(r)} /\ announcing[n] = {}
              \/ generators[n] = {} /\ announcing[n] = {Ann(r)} /\ dev[n] = Final(n, r)
  BY DEF Sorting
<1>2. due = {} /\ \A k \in Nodes : handlers[k] = {} /\ net[k] = {}
  BY <1>1, QuietMeans DEF AdvanceClock
<1>3. \A k \in Nodes : generators[k] = {} /\ announcing[k] = {Ann(r)} /\ dev[k] = Final(k, r)
  <2>1. {k \in Nodes : generators[k] # {}} = {}
    BY <1>1, <1>2, NobodySleeps
  <2> QED
    BY <1>1, <2>1
<1>4. \A k \in Nodes : sched[k] = "idle"
  BY <1>1 DEF Unscheduled
<1>5. Sleepers = Nodes \X {Ann(r)} /\ Sleepers # {}
  <2>1. \A s : s \in Sleepers <=> s \in Nodes \X {Ann(r)}
    BY <1>1, <1>3, <1>4, SleeperMembers
  <2>2. <<Starter, Ann(r)>> \in Sleepers
    BY <2>1, NodesAssumption
  <2> QED
    BY <2>1, <2>2
<1>6. /\ \A k \in Nodes : Still(k)
      /\ UNCHANGED <<net, handlers, passes, generators, announcing, dev>>
      /\ due' = Nodes \X {Ann(r)}
  BY <1>5, ClockStill
<1>7. Real(r)
  BY <1>1, NodesAssumption, ShuffledFull
<1>8. \A k \in Nodes : ~Announced(k, r)'
  BY <1>1, <1>3, <1>6 DEF Announced
<1>9. \A k \in Nodes : Heard(k, r)' = {}
  BY <1>8 DEF Heard
<1>10. due' = {k \in Nodes : ~Announced(k, r)'} \X {Ann(r)}
  <2>1. {k \in Nodes : ~Announced(k, r)'} = Nodes
    BY <1>8
  <2> QED
    BY <1>6, <2>1
<1>11. ASSUME NEW k \in Nodes
       PROVE  AgreeNode(k, r)'
  <2>1. Still(k)
    BY <1>6
  <2>2. Behind(k, r)' /\ Generated(k)' = 0 .. r /\ Full(k, r)'
    BY <1>1, <2>1, BehindKept, GeneratedKept, FullKept DEF Still
  <2>3. OnceOnly(k)' /\ AgreeNet(k, r)'
    BY <1>2, <1>6 DEF OnceOnly, AgreeNet
  <2>4. AgreeTime(k, r)'
    BY <1>1, <1>3, <2>1 DEF AgreeTime, Unscheduled, Still
  <2>5. bucketHashesCheck'[k] = <<>> /\ passes'[k] = {} /\ dev'[k] = Final(k, r)
    BY <1>1, <1>3, <2>1 DEF Still
  <2>6. Cardinality(Heard(k, r)') = 0
    BY <1>9, FS_EmptySet
  <2>7. Heard(k, r)' # Nodes \ {k}
    BY <1>9, OtherNodes
  <2>8. Counting(k, r)'
    BY <1>1, <2>2, <2>5, <2>6, <2>7 DEF Counting
  <2> QED
    BY <1>3, <1>6, <2>2, <2>3, <2>4, <2>8 DEF AgreeSeat, AgreeNode
<1> QED
  BY <1>1, <1>7, <1>10, <1>11 DEF Agreeing

LEMMA SortStep ==
  ASSUME TimelyNetwork, TypeOK, Solo, Unharmed, NEW r \in Nat, Sorting(r), Next
  PROVE  Unharmed' /\ (Sorting(r)' \/ Agreeing(r)')
<1>1. /\ r < 2 /\ due = {k \in Nodes : generators[k] # {}} \X {Info(r)}
      /\ \A n \in Nodes :
           /\ Behind(n, r) /\ passes[n] = {} /\ Generated(n) = 0 .. r
           /\ Unscheduled(n) /\ InitOnly(n) /\ OnceOnly(n)
           /\ \A g \in generators[n] : g = Info(r)
           /\ \A a \in announcing[n] : a = Ann(r)
  BY DEF Sorting
<1>2. Unharmed'
  <2>1. \A n \in Nodes : \A m \in net[n] : ~FailBucketCheck(n, m)
    BY <1>1, MessageKinds DEF InitOnly
  <2>2. \A n \in Nodes : \A h \in handlers[n] : ~CheckRound(n, h)
    BY <1>1 DEF OnceOnly, CheckRound
  <2> QED
    BY <2>1, <2>2, Harmless
<1>3. CASE StartBlockchain
  BY <1>2, <1>3, StartIsInitStep, SortInitStep
<1>4. CASE AdvanceClock
  BY <1>2, <1>4, SortClock
<1>5. ASSUME NEW n \in Nodes, NodeStep(n)
      PROVE  Sorting(r)'
  <2>1. \A m \in net[n] : m.type = "init" /\ m.round = 0
    BY <1>1 DEF InitOnly
  <2>2. ASSUME NEW m \in net[n], ReceiveInit(n, m)
        PROVE  Sorting(r)'
    BY <2>1, <2>2, ReceiveIsInitStep, SortInitStep
  <2>3. \A m \in net[n] : /\ ~ReceiveCommitment(n, m) /\ ~RetryBucketCheck(n, m)
                          /\ ~DropBucketCheck(n, m) /\ ~CountBucketCheck(n, m)
                          /\ ~CompleteBucketCheck(n, m) /\ ~FailBucketCheck(n, m)
    BY <2>1, MessageKinds
  <2>4. \A h \in handlers[n] : h.pc = "once" /\ h.round = 0
    BY <1>1 DEF OnceOnly
  <2>5. 0 \in Generated(n)
    BY <1>1
  <2>6. ASSUME NEW h \in handlers[n], CheckGenerated(n, h)
        PROVE  Sorting(r)'
    BY <2>4, <2>5, <2>6, OnceIsInitStep, SortInitStep
  <2>7. \A h \in handlers[n] : /\ ~InsertCommitment(n, h) /\ ~CheckRound(n, h)
                               /\ ~MarkGenerated(n, h)
    BY <2>4 DEF InsertCommitment, CheckRound, MarkGenerated
  <2>8. \A g \in generators[n] : ~ProduceCommitment(n, g) /\ ~StoreCommitment(n, g)
    <3>1. \A g \in generators[n] : g.pc = "info"
      BY <1>1 DEF Info
    <3> QED
      BY <3>1 DEF ProduceCommitment, StoreCommitment
  <2>9. \A g \in generators[n] : InitBucketInfo(n, g) => Sorting(r)'
    BY SortBucket
  <2>10. \A s : MayWake(<<n, s>>) => s = Info(r)
    BY <1>1, Awakened
  <2>11. \A a \in announcing[n] : ~AnnounceBucket(n, a)
    BY <1>1, <2>10 DEF AnnounceBucket, Info, Ann
  <2>12. ~StartSchedule(n)
    <3>1. PICK k \in Nodes \ {n} : TRUE
      BY OtherNodes
    <3>2. ~(commitmentGenEpochRound[k] >= 2)
      BY <1>1, <3>1 DEF Behind
    <3> QED
      BY <3>2 DEF StartSchedule, MayStartSchedule
  <2>13. ~EndEpoch(n) /\ ~GenerateBlocks(n)
    BY <1>1 DEF EndEpoch, GenerateBlocks, Unscheduled
  <2>14. passes[n] = {}
    BY <1>1
  <2> QED
    BY <1>5, <2>2, <2>3, <2>6, <2>7, <2>8, <2>9, <2>11, <2>12, <2>13, <2>14, Steps
<1> QED
  BY <1>2, <1>3, <1>4, <1>5 DEF Next

-----------------------------------------------------------------------------
(* Passing an epoch on, undisturbed *)

LEMMA PassMove ==
  ASSUME TypeOK, NEW n \in Nodes, NEW p, passes[n] = {p}, NEW pc, passes' = Go(passes, n, p, pc)
  PROVE  \E q : /\ passes'[n] = {q} /\ q.pc = pc /\ q.round = p.round
                /\ q = [pc |-> pc, round |-> p.round]
<1> DEFINE q == [p EXCEPT !.pc = pc]
<1>1. passes' = [passes EXCEPT ![n] = (@ \ {p}) \cup {q}]
  BY DEF Go, Swap
<1>2. p \in Pass
  BY WorkKinds
<1>3. q.pc = pc /\ q.round = p.round /\ q = [pc |-> pc, round |-> p.round]
  BY <1>2 DEF Pass
<1> HIDE DEF q
<1>4. passes'[n] = {q}
  BY <1>1 DEF TypeOK
<1> QED
  BY <1>3, <1>4

\* What the steps of a pass leave alone
LEMMA PassFrame ==
  ASSUME TypeOK, NEW n \in Nodes, NEW p \in passes[n],
         \/ PassToEpochRunning(n, p) \/ EndPause(n, p) \/ CopyBucket(n, p)
         \/ CopyRest(n, p) \/ BumpRound(n, p) \/ ClearChecks(n, p) \/ ResetDev(n, p)
  PROVE  /\ \A k \in Nodes \ {n} : Still(k)
         /\ UNCHANGED <<net, handlers, generators, announcing, epochRoundsGenerated, sched, slot,
                        absRound, leads>>
         /\ due' = due \/ EndPause(n, p)
<1>1. UNCHANGED <<net, handlers, generators, announcing, epochRoundsGenerated, sched, slot,
                  absRound, leads>>
  BY DEF PassToEpochRunning, EndPause, CopyBucket, CopyRest, BumpRound, ClearChecks, ResetDev,
         networkVars, scheduleVars
<1>2. due' = due \/ EndPause(n, p)
  BY DEF PassToEpochRunning, CopyBucket, CopyRest, BumpRound, ClearChecks, ResetDev
<1>3. ASSUME NEW k \in Nodes \ {n}
      PROVE  /\ passes'[k] = passes[k] /\ dev'[k] = dev[k] /\ rdy'[k] = rdy[k] /\ run'[k] = run[k]
             /\ rdyEpochRound'[k] = rdyEpochRound[k] /\ runEpochRound'[k] = runEpochRound[k]
             /\ bucketHashesCheck'[k] = bucketHashesCheck[k]
             /\ commitmentGenEpochRound'[k] = commitmentGenEpochRound[k]
  <2>1. passes'[k] = passes[k]
    BY DEF PassToEpochRunning, EndPause, CopyBucket, CopyRest, BumpRound, ClearChecks, ResetDev,
           Go, Swap, Drop, TypeOK
  <2>2. CASE PassToEpochRunning(n, p)
    BY <2>1, <2>2 DEF PassToEpochRunning, roundVars, TypeOK
  <2>3. CASE EndPause(n, p)
    BY <2>1, <2>3 DEF EndPause, roundVars, stageVars
  <2>4. CASE CopyBucket(n, p)
    BY <2>1, <2>4 DEF CopyBucket, roundVars, TypeOK
  <2>5. CASE CopyRest(n, p)
    BY <2>1, <2>5 DEF CopyRest, roundVars, TypeOK
  <2>6. CASE BumpRound(n, p)
    BY <2>1, <2>6 DEF BumpRound, NextRound, stageVars, TypeOK
  <2>7. CASE ClearChecks(n, p)
    BY <2>1, <2>7 DEF ClearChecks, roundVars, stageVars, TypeOK
  <2>8. CASE ResetDev(n, p)
    BY <2>1, <2>8 DEF ResetDev, roundVars, stageVars, TypeOK
  <2> QED
    BY <2>2, <2>3, <2>4, <2>5, <2>6, <2>7, <2>8
<1> QED
  BY <1>1, <1>2, <1>3 DEF Still

\* The ready epoch starts to run
LEMMA PassRuns ==
  ASSUME TypeOK, NEW r \in Nat, NEW n \in Nodes, NEW p \in passes[n], NEW pcs,
         Passing(n, r, pcs), PassToEpochRunning(n, p)
  PROVE  Passing(n, r, {IF r = 1 THEN "pause" ELSE "copy"})'
<1>1. /\ passes[n] = {p} /\ p.round = r /\ p.pc = "running" /\ dev[n] = Final(n, r) /\ Real(r)
      /\ PassAt(n, r, p)
  BY DEF Passing, PassToEpochRunning
<1>2. r > 0 /\ Behind(n, r)
  BY <1>1 DEF PassAt
<1>3. /\ commitmentGenEpochRound[n] = r /\ Real(r - 1) /\ rdy[n] = Final(n, r - 1)
      /\ rdyEpochRound[n] = r - 1 /\ Running(n, r - 2)
  BY <1>2 DEF Behind, Ready
<1>4. /\ run' = [run EXCEPT ![n] = [rdy[n] EXCEPT !.map = run[n].map \cup @]]
      /\ runEpochRound' = [runEpochRound EXCEPT ![n] = rdyEpochRound[n]]
      /\ rdy' = [rdy EXCEPT ![n] = EmptyStage]
      /\ passes' = Go(passes, n, p, IF r = 1 THEN "pause" ELSE "copy")
      /\ dev' = dev /\ commitmentGenEpochRound' = commitmentGenEpochRound
  BY <1>1 DEF PassToEpochRunning, roundVars
<1>5. PICK q : /\ passes'[n] = {q} /\ q.pc = (IF r = 1 THEN "pause" ELSE "copy") /\ q.round = r
  BY <1>1, <1>4, PassMove
<1>6. /\ run'[n] = [Final(n, r - 1) EXCEPT !.map = run[n].map \cup @]
      /\ runEpochRound'[n] = r - 1 /\ rdy'[n] = EmptyStage
  BY <1>3, <1>4 DEF TypeOK
<1>7. /\ run'[n].sub = Own(n, r - 1) /\ run'[n].bucket = Order(r - 1)
      /\ run'[n].pos = Final(n, r - 1).pos /\ run'[n].map = run[n].map \cup Expected(r - 1)
  BY <1>6 DEF Final
<1>8. \A s \in 0 .. r - 1 : Expected(s) \subseteq run'[n].map
  <2> TAKE s \in 0 .. r - 1
  <2>1. CASE s = r - 1
    BY <1>7, <2>1
  <2>2. CASE s # r - 1
    <3>1. s \in 0 .. r - 2 /\ ~(r - 2 < 0)
      BY <2>2
    <3>2. Expected(s) \subseteq run[n].map
      BY <1>3, <3>1 DEF Running
    <3> QED
      BY <1>7, <3>2
  <2> QED
    BY <2>1, <2>2
<1>9. Running(n, r - 1)'
  <2>1. ~(r - 1 < 0)
    BY <1>2
  <2> QED
    BY <1>3, <1>6, <1>7, <1>8, <2>1 DEF Running
<1>10. commitmentGenEpochRound'[n] = r /\ dev'[n] = Final(n, r)
  BY <1>1, <1>3, <1>4
<1>11. PassAt(n, r, q)'
  BY <1>5, <1>6, <1>9, <1>10 DEF PassAt
<1> QED
  BY <1>1, <1>5, <1>10, <1>11 DEF Passing

\* The four seconds of round 1 end
LEMMA PassWakes ==
  ASSUME TypeOK, NEW r \in Nat, NEW n \in Nodes, NEW p \in passes[n], NEW pcs,
         Passing(n, r, pcs), EndPause(n, p)
  PROVE  Passing(n, r, {"copy"})'
<1>1. /\ passes[n] = {p} /\ p.round = r /\ p.pc = "pause" /\ dev[n] = Final(n, r) /\ Real(r)
      /\ PassAt(n, r, p)
  BY DEF Passing, EndPause
<1>2. /\ passes' = Go(passes, n, p, "copy") /\ dev' = dev
      /\ UNCHANGED <<commitmentGenEpochRound, rdy, run, rdyEpochRound, runEpochRound>>
  BY DEF EndPause, roundVars, stageVars
<1>3. PICK q : passes'[n] = {q} /\ q.pc = "copy" /\ q.round = r
  BY <1>1, <1>2, PassMove
<1>4. commitmentGenEpochRound[n] = r /\ rdy[n] = EmptyStage /\ Running(n, r - 1)
  BY <1>1 DEF PassAt
<1>5. Running(n, r - 1)'
  BY <1>2, <1>4, StagesKept
<1>6. PassAt(n, r, q)'
  BY <1>2, <1>3, <1>4, <1>5 DEF PassAt
<1> QED
  BY <1>1, <1>2, <1>3, <1>6 DEF Passing

\* The snapshot that becomes the ready epoch: the bucket, then the rest of it
LEMMA PassCopies ==
  ASSUME TypeOK, NEW r \in Nat, NEW n \in Nodes, NEW p \in passes[n], NEW pcs,
         Passing(n, r, pcs), CopyBucket(n, p)
  PROVE  Passing(n, r, {"rest"})'
<1>1. /\ passes[n] = {p} /\ p.round = r /\ p.pc = "copy" /\ dev[n] = Final(n, r) /\ Real(r)
      /\ PassAt(n, r, p)
  BY DEF Passing, CopyBucket
<1>2. /\ passes' = Go(passes, n, p, "rest") /\ dev' = dev
      /\ rdy' = [rdy EXCEPT ![n] = [@ EXCEPT !.sub = dev[n].sub, !.bucket = dev[n].bucket]]
      /\ UNCHANGED <<commitmentGenEpochRound, run, runEpochRound>>
  BY DEF CopyBucket, roundVars
<1>3. PICK q : passes'[n] = {q} /\ q.pc = "rest" /\ q.round = r
  BY <1>1, <1>2, PassMove
<1>4. commitmentGenEpochRound[n] = r /\ rdy[n] = EmptyStage /\ Running(n, r - 1)
  BY <1>1 DEF PassAt
<1>5. Running(n, r - 1)'
  BY <1>2, <1>4 DEF Running
<1>6. dev[n].sub = Own(n, r) /\ dev[n].bucket = Order(r)
  BY <1>1 DEF Final
<1>7. rdy'[n] = [EmptyStage EXCEPT !.sub = Own(n, r), !.bucket = Order(r)]
  <2>1. rdy'[n] = [rdy[n] EXCEPT !.sub = dev[n].sub, !.bucket = dev[n].bucket]
    BY <1>2 DEF TypeOK
  <2> QED
    BY <1>4, <1>6, <2>1
<1>8. PassAt(n, r, q)'
  BY <1>2, <1>3, <1>4, <1>5, <1>7 DEF PassAt
<1> QED
  BY <1>1, <1>2, <1>3, <1>8 DEF Passing

LEMMA PassCopiesRest ==
  ASSUME TypeOK, NEW r \in Nat, NEW n \in Nodes, NEW p \in passes[n], NEW pcs,
         Passing(n, r, pcs), CopyRest(n, p)
  PROVE  Passing(n, r, {"bump"})'
<1>1. /\ passes[n] = {p} /\ p.round = r /\ p.pc = "rest" /\ dev[n] = Final(n, r) /\ Real(r)
      /\ PassAt(n, r, p)
  BY DEF Passing, CopyRest
<1>2. /\ passes' = Go(passes, n, p, "bump") /\ dev' = dev
      /\ rdy' = [rdy EXCEPT ![n] = [@ EXCEPT !.hash = dev[n].hash, !.pos = dev[n].pos,
                                             !.map = rdy[n].map \cup dev[n].map]]
      /\ rdyEpochRound' = [rdyEpochRound EXCEPT ![n] = commitmentGenEpochRound[n]]
      /\ UNCHANGED <<commitmentGenEpochRound, run, runEpochRound>>
  BY DEF CopyRest, roundVars
<1>3. PICK q : passes'[n] = {q} /\ q.pc = "bump" /\ q.round = r
  BY <1>1, <1>2, PassMove
<1>4. /\ commitmentGenEpochRound[n] = r /\ Running(n, r - 1)
      /\ rdy[n] = [EmptyStage EXCEPT !.sub = Own(n, r), !.bucket = Order(r)]
  BY <1>1 DEF PassAt
<1>5. Running(n, r - 1)'
  BY <1>2, <1>4 DEF Running
<1>6. rdy[n] = [sub |-> Own(n, r), bucket |-> Order(r), map |-> {}, hash |-> NoHash, pos |-> {}]
  BY <1>4 DEF EmptyStage
<1>7. rdy'[n] = Final(n, r)
  <2>1. rdy'[n] = [rdy[n] EXCEPT !.hash = dev[n].hash, !.pos = dev[n].pos,
                                 !.map = rdy[n].map \cup dev[n].map]
    BY <1>2 DEF TypeOK
  <2>2. /\ dev[n].hash = Final(n, r).hash /\ dev[n].pos = Final(n, r).pos
        /\ rdy[n].map \cup dev[n].map = Final(n, r).map
    BY <1>1, <1>6 DEF Final
  <2>3. rdy'[n] = [sub |-> Own(n, r), bucket |-> Order(r), map |-> Final(n, r).map,
                   hash |-> Final(n, r).hash, pos |-> Final(n, r).pos]
    <3> DEFINE hash == Final(n, r).hash
               pos == Final(n, r).pos
               map == Final(n, r).map
               half == [sub |-> Own(n, r), bucket |-> Order(r), map |-> {}, hash |-> NoHash,
                        pos |-> {}]
    <3>1. rdy'[n] = [half EXCEPT !.hash = hash, !.pos = pos, !.map = map]
      BY <1>6, <2>1, <2>2
    <3> HIDE DEF hash, pos, map
    <3>2. [half EXCEPT !.hash = hash, !.pos = pos, !.map = map]
            = [sub |-> Own(n, r), bucket |-> Order(r), map |-> map, hash |-> hash, pos |-> pos]
      <4> DEFINE hashed == [sub |-> Own(n, r), bucket |-> Order(r), map |-> {}, hash |-> hash,
                            pos |-> {}]
                 placed == [sub |-> Own(n, r), bucket |-> Order(r), map |-> {}, hash |-> hash,
                            pos |-> pos]
      <4>1. [half EXCEPT !.hash = hash] = hashed
        OBVIOUS
      <4>2. [hashed EXCEPT !.pos = pos] = placed
        OBVIOUS
      <4>3. [placed EXCEPT !.map = map]
              = [sub |-> Own(n, r), bucket |-> Order(r), map |-> map, hash |-> hash, pos |-> pos]
        OBVIOUS
      <4>4. [half EXCEPT !.hash = hash, !.pos = pos, !.map = map]
              = [[[half EXCEPT !.hash = hash] EXCEPT !.pos = pos] EXCEPT !.map = map]
        BY Zenon
      <4> HIDE DEF half, hashed, placed
      <4> QED
        BY <4>1, <4>2, <4>3, <4>4, Zenon
    <3> QED
      BY <3>1, <3>2 DEF hash, pos, map
  <2> QED
    BY <2>3 DEF Final
<1>8. Ready(n, r)'
  <2>1. rdyEpochRound'[n] = r
    BY <1>2, <1>4 DEF TypeOK
  <2> QED
    BY <1>1, <1>7, <2>1 DEF Ready
<1>9. PassAt(n, r, q)'
  BY <1>2, <1>3, <1>4, <1>5, <1>8 DEF PassAt
<1> QED
  BY <1>1, <1>2, <1>3, <1>9 DEF Passing

LEMMA PassBumps ==
  ASSUME TypeOK, NEW r \in Nat, NEW n \in Nodes, NEW p \in passes[n], NEW pcs,
         Passing(n, r, pcs), BumpRound(n, p)
  PROVE  Passing(n, r, {"clear"})'
<1>1. /\ passes[n] = {p} /\ p.round = r /\ p.pc = "bump" /\ dev[n] = Final(n, r) /\ Real(r)
      /\ PassAt(n, r, p)
  BY DEF Passing, BumpRound
<1>2. /\ passes' = Go(passes, n, p, "clear") /\ dev' = dev
      /\ commitmentGenEpochRound' = [commitmentGenEpochRound EXCEPT ![n] = @ + 1]
      /\ UNCHANGED <<rdy, run, rdyEpochRound, runEpochRound>>
  BY DEF BumpRound, NextRound, stageVars
<1>3. PICK q : passes'[n] = {q} /\ q.pc = "clear" /\ q.round = r
  BY <1>1, <1>2, PassMove
<1>4. commitmentGenEpochRound[n] = r /\ Ready(n, r) /\ Running(n, r - 1)
  BY <1>1 DEF PassAt
<1>5. Ready(n, r)' /\ Running(n, r - 1)' /\ commitmentGenEpochRound'[n] = r + 1
  BY <1>2, <1>4, StagesKept DEF TypeOK
<1>6. Behind(n, r + 1)'
  <2>1. r + 1 - 1 = r /\ r + 1 - 2 = r - 1
    OBVIOUS
  <2> QED
    BY <1>5, <2>1 DEF Behind
<1>7. PassAt(n, r, q)'
  BY <1>3, <1>6 DEF PassAt
<1> QED
  BY <1>1, <1>2, <1>3, <1>7 DEF Passing

LEMMA PassClears ==
  ASSUME TypeOK, NEW r \in Nat, NEW n \in Nodes, NEW p \in passes[n], NEW pcs,
         Passing(n, r, pcs), ClearChecks(n, p)
  PROVE  Passing(n, r, {"reset"})'
<1>1. /\ passes[n] = {p} /\ p.round = r /\ p.pc = "clear" /\ dev[n] = Final(n, r) /\ Real(r)
      /\ PassAt(n, r, p)
  BY DEF Passing, ClearChecks
<1>2. /\ passes' = Go(passes, n, p, "reset") /\ dev' = dev
      /\ bucketHashesCheck' = [bucketHashesCheck EXCEPT ![n] = <<>>]
      /\ UNCHANGED <<commitmentGenEpochRound, rdy, run, rdyEpochRound, runEpochRound>>
  BY DEF ClearChecks, roundVars, stageVars
<1>3. PICK q : passes'[n] = {q} /\ q.pc = "reset" /\ q.round = r
  BY <1>1, <1>2, PassMove
<1>4. Behind(n, r + 1)
  BY <1>1 DEF PassAt
<1>5. Behind(n, r + 1)' /\ bucketHashesCheck'[n] = <<>>
  BY <1>2, <1>4, BehindKept DEF TypeOK
<1>6. PassAt(n, r, q)'
  BY <1>3, <1>5 DEF PassAt
<1> QED
  BY <1>1, <1>2, <1>3, <1>6 DEF Passing

LEMMA PassResets ==
  ASSUME TypeOK, NEW r \in Nat, NEW n \in Nodes, NEW p \in passes[n], NEW pcs,
         Passing(n, r, pcs), ResetDev(n, p)
  PROVE  Passed(n, r)'
<1>1. passes[n] = {p} /\ p.round = r /\ p.pc = "reset" /\ PassAt(n, r, p)
  BY DEF Passing, ResetDev
<1>2. /\ passes' = IF r = 0 THEN Go(passes, n, p, "next") ELSE Drop(passes, n, p)
      /\ dev' = [dev EXCEPT ![n] = EmptyStage]
      /\ UNCHANGED <<commitmentGenEpochRound, bucketHashesCheck, rdy, run, rdyEpochRound,
                     runEpochRound>>
  BY <1>1 DEF ResetDev, Emptied, roundVars, stageVars
<1>3. Behind(n, r + 1) /\ bucketHashesCheck[n] = <<>>
  BY <1>1 DEF PassAt
<1>4. Behind(n, r + 1)' /\ bucketHashesCheck'[n] = <<>> /\ dev'[n] = EmptyStage
  BY <1>2, <1>3, BehindKept DEF TypeOK
<1>5. passes'[n] = IF r = 0 THEN {NextPass} ELSE {}
  <2>1. CASE r = 0
    <3>1. PICK q : passes'[n] = {q} /\ q = [pc |-> "next", round |-> p.round]
      BY <1>1, <1>2, <2>1, PassMove
    <3> QED
      BY <1>1, <2>1, <3>1 DEF NextPass
  <2>2. CASE r # 0
    BY <1>1, <1>2, <2>2 DEF Drop, TypeOK
  <2> QED
    BY <2>1, <2>2
<1> QED
  BY <1>4, <1>5 DEF Passed

-----------------------------------------------------------------------------
(* Comparing the buckets *)

LEMMA PassingSame ==
  ASSUME NEW k \in Nodes,
         UNCHANGED <<commitmentGenEpochRound[k], bucketHashesCheck[k], dev[k], rdy[k], run[k],
                     rdyEpochRound[k], runEpochRound[k], passes[k]>>
  PROVE  \A r, pcs : /\ Passing(k, r, pcs) => Passing(k, r, pcs)'
                     /\ Passed(k, r) => Passed(k, r)'
<1>1. \A r : (Behind(k, r)' <=> Behind(k, r)) /\ (Ready(k, r)' <=> Ready(k, r))
             /\ (Running(k, r)' <=> Running(k, r))
  BY BehindKept, StagesKept
<1>2. /\ commitmentGenEpochRound'[k] = commitmentGenEpochRound[k] /\ rdy'[k] = rdy[k]
      /\ bucketHashesCheck'[k] = bucketHashesCheck[k] /\ passes'[k] = passes[k]
      /\ dev'[k] = dev[k]
  OBVIOUS
<1>3. \A r, p : PassAt(k, r, p)' <=> PassAt(k, r, p)
  BY <1>1, <1>2 DEF PassAt
<1>4. \A r, pcs : Passing(k, r, pcs) => Passing(k, r, pcs)'
  BY <1>2, <1>3 DEF Passing
<1>5. \A r : Passed(k, r) => Passed(k, r)'
  BY <1>1, <1>2 DEF Passed
<1> QED
  BY <1>4, <1>5

LEMMA PassingKept ==
  ASSUME NEW k \in Nodes, Still(k)
  PROVE  \A r, pcs : /\ Passing(k, r, pcs) => Passing(k, r, pcs)'
                     /\ Passed(k, r) => Passed(k, r)'
BY PassingSame DEF Still

\* A node whose own part is not touched
LEMMA AgreeKept ==
  ASSUME NEW k \in Nodes, NEW r, AgreeNode(k, r), Still(k), AgreeNet(k, r)', OnceOnly(k)',
         Heard(k, r)' = Heard(k, r)
  PROVE  AgreeNode(k, r)'
<1>1. /\ Behind(k, r)' <=> Behind(k, r) /\ Generated(k)' = Generated(k)
      /\ Full(k, r)' <=> Full(k, r)
  BY BehindKept, GeneratedKept, FullKept DEF Still
<1>2. /\ generators'[k] = generators[k] /\ announcing'[k] = announcing[k] /\ sched'[k] = sched[k]
      /\ slot'[k] = slot[k] /\ absRound'[k] = absRound[k] /\ passes'[k] = passes[k]
      /\ bucketHashesCheck'[k] = bucketHashesCheck[k] /\ dev'[k] = dev[k]
  BY DEF Still
<1>3. Announced(k, r)' <=> Announced(k, r)
  BY <1>2 DEF Announced
<1>4. AgreeTime(k, r)'
  BY <1>2 DEF AgreeNode, AgreeTime, Unscheduled
<1>5. AgreeSeat(k, r)'
  <2>1. CASE Counting(k, r)
    <3>1. Counting(k, r)'
      BY <1>1, <1>2, <1>3, <2>1, FullKept, BehindKept DEF Counting, Still
    <3> QED
      BY <3>1 DEF AgreeSeat
  <2>2. CASE ~Counting(k, r)
    BY <1>3, <2>2, PassingKept DEF AgreeNode, AgreeSeat
  <2> QED
    BY <2>1, <2>2
<1> QED
  BY <1>1, <1>2, <1>4, <1>5, GeneratedKept DEF AgreeNode, Still

LEMMA AgreeInitStep ==
  ASSUME NEW r, Agreeing(r), InitStep
  PROVE  Agreeing(r)'
<1>1. \A k \in Nodes : Still(k)
  BY InitStepStill
<1>2. \A k \in Nodes : Announced(k, r)' <=> Announced(k, r)
  BY <1>1 DEF Announced, Still
<1>3. ASSUME NEW k \in Nodes PROVE AgreeNode(k, r)'
  <2>1. AgreeNode(k, r) /\ AgreeNet(k, r) /\ OnceOnly(k)
    BY DEF Agreeing, AgreeNode
  <2>2. /\ \A m \in net'[k] : m \in net[k] \/ (m.type = "init" /\ m.round = 0)
        /\ \A m \in net[k] : m \in net'[k] \/ m.type = "init"
    BY DEF InitStep
  <2>3. \A m \in net[k] : m.type = "check" => m.src \in Nodes
    BY <2>1 DEF AgreeNet, Announced
  <2>4. Heard(k, r)' = Heard(k, r)
    <3>1. (\A m \in net'[k] : m.type = "check" => m \in net[k])
          /\ (\A m \in net[k] : m.type = "check" => m \in net'[k])
      BY <2>2
    <3> QED
      BY <1>2, <3>1 DEF Heard
  <2>5. \A j : Announced(j, r)' <=> Announced(j, r)
    BY DEF InitStep, Announced, scheduleVars
  <2>6. AgreeNet(k, r)'
    BY <2>1, <2>2, <2>5 DEF AgreeNet
  <2>7. OnceOnly(k)'
    BY <2>1, InitOnlyKept
  <2> QED
    BY <1>1, <2>1, <2>4, <2>6, <2>7, AgreeKept
<1>4. due' = due
  BY DEF InitStep
<1>5. {n \in Nodes : ~Announced(n, r)'} = {n \in Nodes : ~Announced(n, r)}
  BY <1>2
<1> QED
  BY <1>3, <1>4, <1>5 DEF Agreeing

\* Node n broadcasts the hash of its bucket
LEMMA AgreeSend ==
  ASSUME NEW r, Agreeing(r), NEW n \in Nodes, NEW x,
         x.type = "check" /\ x.src = n /\ x.round = r /\ x.hash = Hash(Order(r)) /\ x.len = Capacity,
         net'[n] = net[n], \A k \in Nodes \ {n} : net'[k] = net[k] \cup {x},
         handlers' = handlers, \A k \in Nodes \ {n} : Still(k),
         ~Announced(n, r), Announced(n, r)'
  PROVE  /\ \A k \in Nodes \ {n} : AgreeNode(k, r)'
         /\ Heard(n, r)' = Heard(n, r) /\ AgreeNet(n, r)' /\ OnceOnly(n)'
         /\ \A k \in Nodes : ~Announced(k, r)' <=> ~Announced(k, r) /\ k # n
<1>1. \A k \in Nodes \ {n} : Announced(k, r)' <=> Announced(k, r)
  BY DEF Announced, Still
<1>2. \A k \in Nodes : AgreeNode(k, r) /\ AgreeNet(k, r) /\ OnceOnly(k)
  BY DEF Agreeing, AgreeNode
<1>3. \A k \in Nodes : \A m \in net[k] : m.type = "check" => m.src \in Nodes \ {n}
  <2> TAKE k \in Nodes
  <2> TAKE m \in net[k]
  <2> HAVE m.type = "check"
  <2>1. m.src # k /\ Announced(m.src, r) /\ m.src \in Nodes
    BY <1>2 DEF AgreeNet
  <2> QED
    BY <2>1
<1>4. \A k \in Nodes : OnceOnly(k)'
  BY <1>2 DEF OnceOnly
<1>5. Heard(n, r)' = Heard(n, r)
  BY <1>1 DEF Heard
<1>6. AgreeNet(n, r)'
  <2>1. net'[n] = net[n]
    OBVIOUS
  <2> QED
    BY <1>1, <1>2, <1>3, <2>1 DEF AgreeNet
<1>7. ASSUME NEW k \in Nodes \ {n} PROVE AgreeNode(k, r)'
  <2>1. net'[k] = net[k] \cup {x}
    OBVIOUS
  <2>2. Heard(k, r)' = Heard(k, r)
    <3>1. \A j \in Nodes \ {k} : j \in Heard(k, r)' <=> j \in Heard(k, r)
      <4> TAKE j \in Nodes \ {k}
      <4>1. CASE j = n
        BY <2>1, <4>1 DEF Heard
      <4>2. CASE j # n
        BY <1>1, <2>1, <4>2 DEF Heard
      <4> QED
        BY <4>1, <4>2
    <3> QED
      BY <3>1 DEF Heard
  <2>3. AgreeNet(k, r)'
    <3>1. \A m \in net'[k] :
             \/ m.type = "init" /\ m.round = 0
             \/ /\ m.type = "check" /\ m.src # k /\ Announced(m.src, r)' /\ m.src \in Nodes
                /\ m.round = r /\ m.hash = Hash(Order(r)) /\ m.len = Capacity
      BY <1>1, <1>2, <1>3, <2>1 DEF AgreeNet
    <3>2. \A m, y \in net'[k] : m.type = "check" /\ y.type = "check" /\ m.src = y.src => m = y
      BY <1>2, <1>3, <2>1 DEF AgreeNet
    <3> QED
      BY <3>1, <3>2 DEF AgreeNet
  <2> QED
    BY <1>2, <1>4, <2>2, <2>3, AgreeKept
<1>8. \A k \in Nodes : ~Announced(k, r)' <=> ~Announced(k, r) /\ k # n
  BY <1>1
<1> QED
  BY <1>4, <1>5, <1>6, <1>7, <1>8

\* The prepared BUCKET_CHECK of the first two rounds is sent
LEMMA AgreeAnnounce ==
  ASSUME TimelyNetwork, TypeOK, NEW r \in Nat, Agreeing(r),
         NEW n \in Nodes, NEW a \in announcing[n], AnnounceBucket(n, a)
  PROVE  Agreeing(r)'
<1>1. AgreeNode(n, r) /\ AgreeTime(n, r) /\ AgreeSeat(n, r)
  BY DEF Agreeing, AgreeNode
<1>2. r < 2 /\ announcing[n] = {Ann(r)} /\ a = Ann(r) /\ Unscheduled(n)
  BY <1>1 DEF AgreeTime
<1>3. due = {k \in Nodes : ~Announced(k, r)} \X {Ann(r)} /\ Real(r)
  BY <1>2 DEF Agreeing
<1>4. Wake(<<n, Ann(r)>>) /\ announcing' = [announcing EXCEPT ![n] = @ \ {Ann(r)}]
  BY <1>2 DEF AnnounceBucket, Drop
<1>5. announcing'[n] = {} /\ \A k \in Nodes \ {n} : announcing'[k] = announcing[k]
  BY <1>2, <1>4 DEF TypeOK
<1>6. ~Announced(n, r) /\ Announced(n, r)'
  BY <1>2, <1>5 DEF Announced
<1>7. UNCHANGED <<alive, commitmentGenEpochRound, epochRoundsGenerated, bucketHashesCheck, dev,
                  rdy, run, rdyEpochRound, runEpochRound, handlers, passes, generators, sched,
                  slot, absRound>>
  BY DEF AnnounceBucket, roundVars, stageVars, scheduleVars
<1>8. \A k \in Nodes \ {n} : Still(k)
  BY <1>5, <1>7 DEF Still
<1>x. PICK x : x = Check(n, r, Hash(Order(r)), Capacity)
  OBVIOUS
<1>9. net'[n] = net[n] /\ \A k \in Nodes \ {n} : net'[k] = net[k] \cup {x}
  BY <1>x, <1>2 DEF AnnounceBucket, Broadcast, Ann
<1>10. /\ x.type = "check" /\ x.src = n /\ x.round = r /\ x.hash = Hash(Order(r))
       /\ x.len = Capacity
  BY <1>x DEF Check
<1>11. /\ \A k \in Nodes \ {n} : AgreeNode(k, r)'
       /\ Heard(n, r)' = Heard(n, r) /\ AgreeNet(n, r)' /\ OnceOnly(n)'
       /\ \A k \in Nodes : ~Announced(k, r)' <=> ~Announced(k, r) /\ k # n
  BY <1>6, <1>7, <1>8, <1>9, <1>10, AgreeSend
<1>12. AgreeTime(n, r)'
  BY <1>2, <1>5, <1>7 DEF AgreeTime, Unscheduled
<1>13. AgreeSeat(n, r)'
  <2>1. CASE Counting(n, r)
    <3>1. Counting(n, r)'
      BY <1>2, <1>7, <1>11, <2>1, BehindKept, FullKept DEF Counting
    <3> QED
      BY <3>1 DEF AgreeSeat
  <2>2. CASE ~Counting(n, r)
    <3>1. \A q : (Behind(n, q)' <=> Behind(n, q)) /\ (Ready(n, q)' <=> Ready(n, q))
                 /\ (Running(n, q)' <=> Running(n, q))
      BY <1>7, BehindKept, StagesKept
    <3>2. \A p : PassAt(n, r, p)' <=> PassAt(n, r, p)
      BY <1>7, <3>1 DEF PassAt
    <3>3. \A pcs : Passing(n, r, pcs)' <=> Passing(n, r, pcs)
      BY <1>7, <3>2 DEF Passing
    <3>4. Passed(n, r)' <=> Passed(n, r)
      BY <1>7, <3>1 DEF Passed
    <3> QED
      BY <1>1, <1>2, <1>11, <2>2, <3>3, <3>4 DEF AgreeSeat
  <2> QED
    BY <2>1, <2>2
<1>14. AgreeNode(n, r)'
  BY <1>1, <1>7, <1>11, <1>12, <1>13, GeneratedKept DEF AgreeNode
<1>15. due' = {k \in Nodes : ~Announced(k, r)'} \X {Ann(r)}
  <2>1. {k \in Nodes : ~Announced(k, r)'} = {k \in Nodes : ~Announced(k, r)} \ {n}
    BY <1>11
  <2> QED
    BY <1>3, <1>4, <2>1, WokenUp
<1> QED
  BY <1>2, <1>3, <1>11, <1>14, <1>15 DEF Agreeing

\* The epoch ends: the bucket is shuffled, and its hash sent
LEMMA AgreeEndEpoch ==
  ASSUME TimelyNetwork, TypeOK, NEW r \in Nat, Agreeing(r), NEW n \in Nodes, EndEpoch(n)
  PROVE  Agreeing(r)'
<1>1. AgreeNode(n, r) /\ AgreeTime(n, r) /\ AgreeSeat(n, r) /\ sched[n] = "end"
  BY DEF Agreeing, AgreeNode, EndEpoch
<1>2. /\ r >= 2 /\ announcing[n] = {} /\ absRound[n] = (r - 2) * EpochRounds + EpochRounds
      /\ ~(r < 2)
  BY <1>1 DEF AgreeTime, Unscheduled
<1>3. due = {k \in Nodes : ~Announced(k, r)} \X {EndSleep} /\ Real(r)
  BY <1>2 DEF Agreeing
<1>4. ~Announced(n, r)
  BY <1>1, <1>2 DEF Announced
<1>5. Counting(n, r) /\ commitmentGenEpochRound[n] = r /\ Full(n, r)
  BY <1>1, <1>2, <1>4 DEF AgreeSeat, Counting, Behind
<1>6. Shuffled(dev[n], FALSE) = Final(n, r)
  <2>1. (r < 2) = FALSE
    BY <1>2
  <2>2. Shuffled(dev[n], r < 2) = Final(n, r)
    BY <1>5, ShuffledFull
  <2> QED
    BY <2>1, <2>2, Zenon
<1>7. /\ dev' = [dev EXCEPT ![n] = Final(n, r)] /\ sched' = [sched EXCEPT ![n] = "slot"]
      /\ slot' = [slot EXCEPT ![n] = 0] /\ Wake(<<n, EndSleep>>)
  BY <1>6 DEF EndEpoch
<1>8. /\ dev'[n] = Final(n, r) /\ sched'[n] = "slot" /\ slot'[n] = 0
      /\ \A k \in Nodes \ {n} : dev'[k] = dev[k] /\ sched'[k] = sched[k] /\ slot'[k] = slot[k]
  BY <1>7 DEF TypeOK
<1>9. Announced(n, r)'
  BY <1>2, <1>8 DEF Announced
<1>10. UNCHANGED <<alive, commitmentGenEpochRound, epochRoundsGenerated, bucketHashesCheck,
                   rdy, run, rdyEpochRound, runEpochRound, handlers, passes, generators,
                   announcing, absRound>>
  BY DEF EndEpoch, roundVars, stageVars, threadVars
<1>11. \A k \in Nodes \ {n} : Still(k)
  BY <1>8, <1>10 DEF Still
<1>x. PICK x : x = Check(n, r, Hash(Order(r)), Capacity)
  OBVIOUS
<1>12. net'[n] = net[n] /\ \A k \in Nodes \ {n} : net'[k] = net[k] \cup {x}
  <2>1. ~bucketInfoStarted(n)
    BY <1>2 DEF bucketInfoStarted
  <2>2. dev'[n].hash = Hash(Order(r)) /\ Len(dev'[n].bucket) = Capacity
    BY <1>3, <1>8, OrderFacts DEF Final
  <2> QED
    BY <1>x, <1>5, <2>1, <2>2 DEF EndEpoch, Broadcast
<1>13. /\ x.type = "check" /\ x.src = n /\ x.round = r /\ x.hash = Hash(Order(r))
       /\ x.len = Capacity
  BY <1>x DEF Check
<1>14. /\ \A k \in Nodes \ {n} : AgreeNode(k, r)'
       /\ Heard(n, r)' = Heard(n, r) /\ AgreeNet(n, r)' /\ OnceOnly(n)'
       /\ \A k \in Nodes : ~Announced(k, r)' <=> ~Announced(k, r) /\ k # n
  BY <1>4, <1>9, <1>10, <1>11, <1>12, <1>13, AgreeSend
<1>15. AgreeTime(n, r)'
  BY <1>2, <1>8, <1>10 DEF AgreeTime
<1>16. AgreeSeat(n, r)'
  <2>1. Full(n, r)'
    BY <1>3, <1>8, OrderFacts DEF Full, Final
  <2>2. Counting(n, r)'
    BY <1>5, <1>8, <1>10, <1>14, <2>1, BehindKept DEF Counting
  <2> QED
    BY <2>2 DEF AgreeSeat
<1>17. AgreeNode(n, r)'
  BY <1>1, <1>10, <1>14, <1>15, <1>16, GeneratedKept DEF AgreeNode
<1>18. due' = {k \in Nodes : ~Announced(k, r)'} \X {EndSleep}
  <2>1. {k \in Nodes : ~Announced(k, r)'} = {k \in Nodes : ~Announced(k, r)} \ {n}
    BY <1>14
  <2> QED
    BY <1>3, <1>7, <2>1, WokenUp
<1> QED
  BY <1>2, <1>3, <1>14, <1>17, <1>18 DEF Agreeing

\* A BUCKET_CHECK that is delivered finds the same bucket at its receiver
LEMMA SameBucket ==
  ASSUME TimelyNetwork, TypeOK, NEW r \in Nat, Agreeing(r),
         NEW n \in Nodes, NEW m \in net[n], m.type = "check", MayDeliver(n)
  PROVE  /\ Counting(n, r) /\ dev[n] = Final(n, r) /\ commitmentGenEpochRound[n] = r
         /\ m.round = r /\ m.hash = Hash(Order(r)) /\ m.src \in Nodes \ {n}
         /\ Announced(m.src, r) /\ m.src \notin Heard(n, r)
         /\ ~HashRefused(n, m) /\ ~LengthRefused(n, m)
         /\ r >= 2 => \A k \in Nodes : Announced(k, r)
<1>1. AgreeNode(n, r) /\ AgreeNet(n, r) /\ AgreeSeat(n, r) /\ Real(r)
  BY DEF Agreeing, AgreeNode
<1>2. /\ m.src \in Nodes \ {n} /\ m.round = r /\ m.hash = Hash(Order(r)) /\ m.len = Capacity
      /\ Announced(m.src, r)
  BY <1>1 DEF AgreeNet
<1>3. m.src \notin Heard(n, r)
  BY DEF Heard
<1>4. Counting(n, r)
  BY <1>1, <1>2, <1>3 DEF AgreeSeat
<1>5. ASSUME r >= 2, NEW k \in Nodes, ~Announced(k, r) PROVE FALSE
  <2>1. due = {j \in Nodes : ~Announced(j, r)} \X {EndSleep}
    <3>1. ~(r < 2)
      BY <1>5
    <3> QED
      BY <3>1 DEF Agreeing
  <2>2. <<k, EndSleep>> \in due
    BY <1>5, <2>1
  <2>3. <<k, EndSleep>>[2] = EndSleep
    OBVIOUS
  <2> QED
    BY <2>2, <2>3 DEF MayDeliver, TimelyNetwork
<1>6. dev[n] = Final(n, r)
  <2>1. r < 2 \/ r >= 2
    OBVIOUS
  <2> QED
    BY <1>4, <1>5, <2>1 DEF Counting
<1>7. commitmentGenEpochRound[n] = r
  BY <1>4 DEF Counting, Behind
<1>8. dev[n].hash = Hash(Order(r)) /\ Len(dev[n].bucket) = Capacity
  BY <1>1, <1>6, FinalFull
<1> QED
  BY <1>2, <1>3, <1>4, <1>5, <1>6, <1>7, <1>8 DEF HashRefused, LengthRefused

\* The hashes collected so far are those of the peers heard, all equal to the own one
LEMMA Counted ==
  ASSUME TimelyNetwork, TypeOK, NEW r \in Nat, Agreeing(r),
         NEW n \in Nodes, NEW m \in net[n], AcceptBucketCheck(n, m), UNCHANGED <<announcing, sched>>
  PROVE  /\ Heard(n, r)' = Heard(n, r) \cup {m.src} /\ AgreeNet(n, r)'
         /\ bucketHashesCheck'[n] = Collected(n, m)
         /\ Len(Collected(n, m)) = Cardinality(Heard(n, r)')
         /\ \A i \in DOMAIN Collected(n, m) : Collected(n, m)[i] = Hash(Order(r))
         /\ Complete(Collected(n, m)) <=> Heard(n, r)' = Nodes \ {n}
         /\ Complete(Collected(n, m)) => ~Minority(n, Collected(n, m))
<1>1. /\ MayDeliver(n) /\ m.type = "check" /\ net' = [net EXCEPT ![n] = @ \ {m}]
      /\ bucketHashesCheck' = [bucketHashesCheck EXCEPT ![n] = Collected(n, m)]
  BY DEF AcceptBucketCheck, Deliver
<1>2. /\ Counting(n, r) /\ dev[n] = Final(n, r) /\ m.hash = Hash(Order(r))
      /\ m.src \in Nodes \ {n} /\ Announced(m.src, r) /\ m.src \notin Heard(n, r)
  BY <1>1, SameBucket
<1>3. AgreeNet(n, r)
  BY DEF Agreeing, AgreeNode
<1>4. net'[n] = net[n] \ {m} /\ bucketHashesCheck'[n] = Collected(n, m)
  BY <1>1 DEF TypeOK
<1>5. \A j : Announced(j, r)' <=> Announced(j, r)
  BY DEF Announced
<1>6. Heard(n, r)' = Heard(n, r) \cup {m.src}
  <2>1. \A j \in Nodes \ {n} : j \in Heard(n, r)' <=> j \in Heard(n, r) \/ j = m.src
    <3> TAKE j \in Nodes \ {n}
    <3>1. CASE j = m.src
      <4>1. \A x \in net'[n] : x.type = "check" => x.src # j
        BY <1>1, <1>3, <1>4, <3>1 DEF AgreeNet
      <4> QED
        BY <1>2, <1>5, <3>1, <4>1 DEF Heard
    <3>2. CASE j # m.src
      BY <1>4, <1>5, <3>2 DEF Heard
    <3> QED
      BY <3>1, <3>2
  <2> QED
    BY <1>2, <2>1 DEF Heard
<1>7. AgreeNet(n, r)'
  BY <1>3, <1>4, <1>5 DEF AgreeNet
<1>8. /\ bucketHashesCheck[n] \in Seq(Hashes) /\ m.hash \in Hashes
      /\ Len(bucketHashesCheck[n]) = Cardinality(Heard(n, r))
      /\ \A i \in DOMAIN bucketHashesCheck[n] : bucketHashesCheck[n][i] = Hash(Order(r))
  <2>1. m.hash \in Hashes
    <3>1. Order(r) \in Seq(Commitments)
      BY OrderFacts DEF Agreeing
    <3> QED
      BY <1>2, <3>1, HashType
  <2> QED
    BY <1>2, <2>1 DEF Counting, TypeOK
<1> DEFINE hashes == Collected(n, m)
<1>9. /\ Len(hashes) = Len(bucketHashesCheck[n]) + 1 /\ Len(hashes) \in Nat
      /\ DOMAIN hashes = 1 .. Len(hashes)
      /\ \A i \in DOMAIN hashes : hashes[i] = Hash(Order(r))
  BY <1>2, <1>8 DEF Collected
<1> HIDE DEF hashes
<1>10. IsFiniteSet(Nodes \ {n}) /\ Cardinality(Nodes \ {n}) = N - 1
  BY OtherNodes
<1>11. Heard(n, r) \subseteq Nodes \ {n} /\ Heard(n, r)' \subseteq Nodes \ {n}
  BY DEF Heard
<1>12. Len(hashes) = Cardinality(Heard(n, r)')
  <2>1. IsFiniteSet(Heard(n, r))
    BY <1>10, <1>11, FS_Subset
  <2>2. Cardinality(Heard(n, r) \cup {m.src}) = Cardinality(Heard(n, r)) + 1
    BY <1>2, <2>1, FS_AddElement
  <2> QED
    BY <1>6, <1>8, <1>9, <2>2
<1>13. Complete(hashes) <=> Heard(n, r)' = Nodes \ {n}
  <2> DEFINE S == Heard(n, r)'
             T == Nodes \ {n}
  <2>1. S \subseteq T /\ IsFiniteSet(T) /\ Cardinality(T) = N - 1 /\ Len(hashes) = Cardinality(S)
    BY <1>10, <1>11, <1>12
  <2> HIDE DEF S, T
  <2>2. Cardinality(S) = Cardinality(T) <=> S = T
    BY <2>1, FS_Subset
  <2> QED
    BY <2>1, <2>2 DEF Complete, S, T
<1>14. ASSUME Complete(hashes) PROVE ~Minority(n, hashes)
  <2>1. dev[n].hash = Hash(Order(r))
    BY <1>2 DEF Final
  <2>2. {i \in DOMAIN hashes : hashes[i] = dev[n].hash} = 1 .. Len(hashes)
    BY <1>9, <2>1
  <2>3. Matched(n, hashes) = Len(hashes)
    <3>1. Cardinality(1 .. Len(hashes)) = Len(hashes)
      BY <1>9, FS_Interval
    <3> QED
      BY <2>2, <3>1 DEF Matched
  <2>4. Len(hashes) = N - 1
    BY <1>14 DEF Complete
  <2> QED
    BY <2>3, <2>4, Parameters DEF Minority, TimelyNetwork
<1> QED
  BY <1>4, <1>6, <1>7, <1>9, <1>12, <1>13, <1>14 DEF hashes

\* One more hash, and others to come
LEMMA AgreeCount ==
  ASSUME TimelyNetwork, TypeOK, Unharmed, NEW r \in Nat, Agreeing(r),
         NEW n \in Nodes, NEW m \in net[n], CountBucketCheck(n, m)
  PROVE  Agreeing(r)'
<1>1. AcceptBucketCheck(n, m) /\ ~Complete(Collected(n, m))
  BY DEF CountBucketCheck
<1>2. UNCHANGED <<starts, sentChecks, alive, commitmentGenEpochRound, epochRoundsGenerated, dev,
                  rdy, run, rdyEpochRound, runEpochRound, handlers, passes, generators,
                  announcing, sched, slot, absRound, due>>
  BY DEF CountBucketCheck, roundVars, stageVars, threadVars, scheduleVars
<1>3. /\ net' = [net EXCEPT ![n] = @ \ {m}] /\ MayDeliver(n) /\ m.type = "check"
      /\ bucketHashesCheck' = [bucketHashesCheck EXCEPT ![n] = Collected(n, m)]
  BY <1>1 DEF AcceptBucketCheck, Deliver
<1>4. \A k \in Nodes \ {n} : /\ net'[k] = net[k] /\ bucketHashesCheck'[k] = bucketHashesCheck[k]
                             /\ Still(k)
  <2>1. \A k \in Nodes \ {n} : net'[k] = net[k] /\ bucketHashesCheck'[k] = bucketHashesCheck[k]
    BY <1>3 DEF TypeOK
  <2> QED
    BY <1>2, <2>1 DEF Still
<1>5. \A j : Announced(j, r)' <=> Announced(j, r)
  BY <1>2 DEF Announced
<1>6. ASSUME NEW k \in Nodes \ {n} PROVE AgreeNode(k, r)'
  <2>1. AgreeNode(k, r) /\ AgreeNet(k, r) /\ OnceOnly(k)
    BY DEF Agreeing, AgreeNode
  <2>2. Heard(k, r)' = Heard(k, r)
    BY <1>4, <1>5 DEF Heard
  <2>3. AgreeNet(k, r)' /\ OnceOnly(k)'
    BY <1>2, <1>4, <1>5, <2>1 DEF AgreeNet, OnceOnly
  <2> QED
    BY <1>4, <2>1, <2>2, <2>3, AgreeKept
<1>7. AgreeNode(n, r) /\ AgreeTime(n, r) /\ OnceOnly(n)
  BY DEF Agreeing, AgreeNode
<1>8. Counting(n, r)
  BY <1>3, SameBucket
<1>9. /\ AgreeNet(n, r)' /\ bucketHashesCheck'[n] = Collected(n, m)
      /\ Len(Collected(n, m)) = Cardinality(Heard(n, r)')
      /\ \A i \in DOMAIN Collected(n, m) : Collected(n, m)[i] = Hash(Order(r))
      /\ Heard(n, r)' # Nodes \ {n}
  BY <1>1, <1>2, Counted
<1>10. Counting(n, r)'
  BY <1>2, <1>5, <1>8, <1>9, BehindKept, FullKept DEF Counting
<1>11. AgreeTime(n, r)' /\ OnceOnly(n)' /\ Generated(n)' = Generated(n)
  BY <1>2, <1>7 DEF AgreeTime, Unscheduled, OnceOnly, Generated
<1>12. AgreeNode(n, r)'
  BY <1>2, <1>7, <1>9, <1>10, <1>11 DEF AgreeNode, AgreeSeat
<1>13. {k \in Nodes : ~Announced(k, r)'} = {k \in Nodes : ~Announced(k, r)}
  BY <1>5
<1> QED
  BY <1>2, <1>6, <1>12, <1>13 DEF Agreeing

\* The last hash: the epoch is passed on
LEMMA AgreeComplete ==
  ASSUME TimelyNetwork, TypeOK, Unharmed, NEW r \in Nat, Agreeing(r),
         NEW n \in Nodes, NEW m \in net[n], CompleteBucketCheck(n, m)
  PROVE  Agreeing(r)'
<1>1. AcceptBucketCheck(n, m) /\ Complete(Collected(n, m)) /\ BeginPass(n)
  BY DEF CompleteBucketCheck
<1>2. UNCHANGED <<starts, sentChecks, alive, commitmentGenEpochRound, epochRoundsGenerated, dev,
                  rdy, run, rdyEpochRound, runEpochRound, handlers, generators,
                  announcing, sched, slot, absRound, due>>
  BY DEF CompleteBucketCheck, roundVars, stageVars, scheduleVars
<1>3. /\ net' = [net EXCEPT ![n] = @ \ {m}] /\ MayDeliver(n) /\ m.type = "check"
      /\ bucketHashesCheck' = [bucketHashesCheck EXCEPT ![n] = Collected(n, m)]
  BY <1>1 DEF AcceptBucketCheck, Deliver
<1>4. /\ Counting(n, r) /\ dev[n] = Final(n, r) /\ commitmentGenEpochRound[n] = r
      /\ r >= 2 => \A k \in Nodes : Announced(k, r)
  BY <1>3, SameBucket
<1>5. PICK p : p = [pc |-> FirstPassStep(r), round |-> r]
  OBVIOUS
<1>6. passes' = [passes EXCEPT ![n] = @ \cup {p}]
  BY <1>1, <1>4, <1>5 DEF BeginPass
<1>7. passes[n] = {} /\ Behind(n, r) /\ Real(r)
  BY <1>4 DEF Counting, Agreeing
<1>8. passes'[n] = {p} /\ \A k \in Nodes \ {n} : passes'[k] = passes[k]
  BY <1>6, <1>7 DEF TypeOK
<1>9. \A k \in Nodes \ {n} : /\ net'[k] = net[k] /\ bucketHashesCheck'[k] = bucketHashesCheck[k]
                             /\ Still(k)
  <2>1. \A k \in Nodes \ {n} : net'[k] = net[k] /\ bucketHashesCheck'[k] = bucketHashesCheck[k]
    BY <1>3 DEF TypeOK
  <2> QED
    BY <1>2, <1>8, <2>1 DEF Still
<1>10. \A j : Announced(j, r)' <=> Announced(j, r)
  BY <1>2 DEF Announced
<1>11. ASSUME NEW k \in Nodes \ {n} PROVE AgreeNode(k, r)'
  <2>1. AgreeNode(k, r) /\ AgreeNet(k, r) /\ OnceOnly(k)
    BY DEF Agreeing, AgreeNode
  <2>2. Heard(k, r)' = Heard(k, r)
    BY <1>9, <1>10 DEF Heard
  <2>3. AgreeNet(k, r)' /\ OnceOnly(k)'
    BY <1>2, <1>9, <1>10, <2>1 DEF AgreeNet, OnceOnly
  <2> QED
    BY <1>9, <2>1, <2>2, <2>3, AgreeKept
<1>12. AgreeNode(n, r) /\ AgreeTime(n, r) /\ OnceOnly(n)
  BY DEF Agreeing, AgreeNode
<1>13. AgreeNet(n, r)' /\ Heard(n, r)' = Nodes \ {n}
  BY <1>1, <1>2, Counted
<1>14. Passing(n, r, AgreePasses(r))'
  <2>1. p.round = r /\ p.pc \in AgreePasses(r)
    BY <1>5 DEF FirstPassStep, AgreePasses
  <2>2. Behind(n, r)' /\ dev'[n] = Final(n, r)
    BY <1>2, <1>4, <1>7, BehindKept
  <2>3. PassAt(n, r, p)'
    <3>1. CASE r = 0
      <4>1. p.pc = "copy"
        BY <1>5, <3>1 DEF FirstPassStep
      <4>2. rdy[n] = EmptyStage /\ run[n] = EmptyStage
        BY <1>7, <3>1 DEF Behind, Ready, Running
      <4>3. Running(n, r - 1)'
        BY <1>2, <3>1, <4>2 DEF Running
      <4> QED
        BY <1>2, <1>4, <4>1, <4>2, <4>3 DEF PassAt
    <3>2. CASE r > 0
      <4>1. p.pc = "running"
        BY <1>5, <3>2 DEF FirstPassStep
      <4> QED
        BY <2>2, <3>2, <4>1 DEF PassAt
    <3> QED
      BY <3>1, <3>2
  <2> QED
    BY <1>7, <1>8, <2>1, <2>2, <2>3 DEF Passing
<1>15. AgreeTime(n, r)' /\ OnceOnly(n)' /\ Generated(n)' = Generated(n)
  BY <1>2, <1>12 DEF AgreeTime, Unscheduled, OnceOnly, Generated
<1>16. AgreeSeat(n, r)'
  <2>1. r < 2 \/ Announced(n, r)'
    <3>1. r < 2 \/ r >= 2
      OBVIOUS
    <3> QED
      BY <1>4, <1>10, <3>1
  <2> QED
    BY <1>13, <1>14, <2>1 DEF AgreeSeat
<1>17. AgreeNode(n, r)'
  BY <1>2, <1>12, <1>13, <1>15, <1>16 DEF AgreeNode
<1>18. {k \in Nodes : ~Announced(k, r)'} = {k \in Nodes : ~Announced(k, r)}
  BY <1>10
<1> QED
  BY <1>2, <1>7, <1>11, <1>17, <1>18 DEF Agreeing

LEMMA PassingMore ==
  ASSUME NEW n, NEW r, NEW S, NEW T, S \subseteq T
  PROVE  Passing(n, r, S)' => Passing(n, r, T)'
BY DEF Passing

LEMMA AgreeSeated ==
  ASSUME NEW r, Agreeing(r), NEW n \in Nodes, \A k \in Nodes \ {n} : Still(k),
         UNCHANGED <<net, handlers, generators, announcing, epochRoundsGenerated, sched, slot,
                     absRound, due>>,
         AgreeSeat(n, r)'
  PROVE  Agreeing(r)'
<1>1. \A j : Announced(j, r)' <=> Announced(j, r)
  BY DEF Announced
<1>2. \A k \in Nodes : /\ AgreeNode(k, r) /\ AgreeNet(k, r) /\ OnceOnly(k) /\ AgreeTime(k, r)
                       /\ generators[k] = {} /\ Generated(k) = 0 .. r
  BY DEF Agreeing, AgreeNode
<1>3. \A k \in Nodes : AgreeNet(k, r)' /\ OnceOnly(k)' /\ Heard(k, r)' = Heard(k, r)
  BY <1>1, <1>2 DEF AgreeNet, OnceOnly, Heard
<1>4. \A k \in Nodes \ {n} : AgreeNode(k, r)'
  BY <1>2, <1>3, AgreeKept
<1>5. AgreeTime(n, r)' /\ generators'[n] = {} /\ Generated(n)' = 0 .. r
  BY <1>2 DEF AgreeTime, Unscheduled, Generated
<1>6. AgreeNode(n, r)'
  BY <1>3, <1>5 DEF AgreeNode
<1>7. {k \in Nodes : ~Announced(k, r)'} = {k \in Nodes : ~Announced(k, r)}
  BY <1>1
<1> QED
  BY <1>4, <1>6, <1>7 DEF Agreeing

\* The handler of the last hash passes the epoch on
LEMMA AgreePass ==
  ASSUME TimelyNetwork, TypeOK, NEW r \in Nat, Agreeing(r), NEW n \in Nodes, NEW p \in passes[n],
         \/ PassToEpochRunning(n, p) \/ CopyBucket(n, p) \/ CopyRest(n, p)
         \/ BumpRound(n, p) \/ ClearChecks(n, p) \/ ResetDev(n, p)
  PROVE  Agreeing(r)'
<1>1. p.pc \in {"running", "copy", "rest", "bump", "clear", "reset"}
  BY DEF PassToEpochRunning, CopyBucket, CopyRest, BumpRound, ClearChecks, ResetDev
<1>2. /\ Passing(n, r, AgreePasses(r)) /\ Heard(n, r) = Nodes \ {n}
      /\ r < 2 \/ Announced(n, r)
  <2>1. AgreeSeat(n, r)
    BY DEF Agreeing, AgreeNode
  <2>2. ~Counting(n, r)
    BY DEF Counting
  <2>3. ~Passed(n, r)
    BY <1>1 DEF Passed, NextPass
  <2> QED
    BY <2>1, <2>2, <2>3 DEF AgreeSeat
<1>3. p.pc \in AgreePasses(r)
  BY <1>2 DEF Passing
<1>4. /\ \A k \in Nodes \ {n} : Still(k)
      /\ UNCHANGED <<net, handlers, generators, announcing, epochRoundsGenerated, sched, slot,
                     absRound, due>>
  <2>1. ~EndPause(n, p)
    BY <1>1 DEF EndPause
  <2> QED
    BY <2>1, PassFrame
<1>5. Heard(n, r)' = Nodes \ {n} /\ (r < 2 \/ Announced(n, r)')
  BY <1>2, <1>4 DEF Heard, Announced
<1>6. CASE PassToEpochRunning(n, p)
  <2>1. Passing(n, r, {IF r = 1 THEN "pause" ELSE "copy"})'
    BY <1>2, <1>6, PassRuns
  <2>2. {IF r = 1 THEN "pause" ELSE "copy"} \subseteq AgreePasses(r)
    BY DEF AgreePasses
  <2>3. Passing(n, r, AgreePasses(r))'
    BY <2>1, <2>2, PassingMore
  <2>4. AgreeSeat(n, r)'
    BY <1>5, <2>3 DEF AgreeSeat
  <2> QED
    BY <1>4, <2>4, AgreeSeated
<1>7. CASE ~PassToEpochRunning(n, p)
  <2>1. r # 1
    <3>1. p.pc # "running"
      BY <1>7 DEF PassToEpochRunning, CopyBucket, CopyRest, BumpRound, ClearChecks, ResetDev
    <3> QED
      BY <1>1, <1>3, <3>1 DEF AgreePasses
  <2>2. AgreePasses(r) = {"running", "copy", "rest", "bump", "clear", "reset"}
    BY <2>1 DEF AgreePasses
  <2>3. \A pc \in {"rest", "bump", "clear", "reset"} :
          Passing(n, r, {pc})' => Passing(n, r, AgreePasses(r))'
    <3> TAKE pc \in {"rest", "bump", "clear", "reset"}
    <3>1. {pc} \subseteq AgreePasses(r)
      BY <2>2
    <3> QED
      BY <3>1, PassingMore
  <2>4. Passing(n, r, AgreePasses(r))' \/ Passed(n, r)'
    <3>1. CASE CopyBucket(n, p)
      BY <1>2, <2>3, <3>1, PassCopies
    <3>2. CASE CopyRest(n, p)
      BY <1>2, <2>3, <3>2, PassCopiesRest
    <3>3. CASE BumpRound(n, p)
      BY <1>2, <2>3, <3>3, PassBumps
    <3>4. CASE ClearChecks(n, p)
      BY <1>2, <2>3, <3>4, PassClears
    <3>5. CASE ResetDev(n, p)
      BY <1>2, <3>5, PassResets
    <3> QED
      BY <1>7, <3>1, <3>2, <3>3, <3>4, <3>5
  <2>5. AgreeSeat(n, r)'
    BY <1>5, <2>1, <2>4 DEF AgreeSeat
  <2> QED
    BY <1>4, <2>5, AgreeSeated
<1> QED
  BY <1>6, <1>7

\* When nothing moves any more, every node has heard all the others and passed the epoch on
LEMMA AgreeRest ==
  ASSUME TimelyNetwork, TypeOK, Unharmed, NEW r \in Nat, Agreeing(r), Quiet
  PROVE  \A k \in Nodes :
           /\ handlers[k] = {} /\ generators[k] = {} /\ announcing[k] = {} /\ InitOnly(k)
           /\ Generated(k) = 0 .. r /\ AgreeTime(k, r) /\ Announced(k, r)
           /\ passes[k] = {} => net[k] = {}
           /\ r = 1 => passes[k] = {PausePass} /\ Passing(k, 1, {"pause"})
           /\ r # 1 => Passed(k, r)
<1>1. /\ due = {}
      /\ \A k \in Nodes : /\ handlers[k] = {} /\ \A p \in passes[k] : p.pc \in Asleep
                          /\ passes[k] = {} => net[k] = {}
  BY QuietMeans
<1>2. \A k \in Nodes : Announced(k, r)
  <2>1. {k \in Nodes : ~Announced(k, r)} = {}
    BY <1>1, NobodySleeps DEF Agreeing
  <2> QED
    BY <2>1
<1>3. TAKE k \in Nodes
<1>4. /\ generators[k] = {} /\ Generated(k) = 0 .. r /\ AgreeNet(k, r) /\ AgreeTime(k, r)
      /\ AgreeSeat(k, r)
  BY DEF Agreeing, AgreeNode
<1>5. ~Counting(k, r)
  <2> SUFFICES ASSUME Counting(k, r) PROVE FALSE
    OBVIOUS
  <2>1. net[k] = {} /\ Heard(k, r) # Nodes \ {k}
    BY <1>1 DEF Counting
  <2> QED
    BY <1>2, <2>1 DEF Heard
<1>6. Heard(k, r) = Nodes \ {k} /\ (Passing(k, r, AgreePasses(r)) \/ (r # 1 /\ Passed(k, r)))
  BY <1>4, <1>5 DEF AgreeSeat
<1>7. InitOnly(k)
  <2>1. \A m \in net[k] : m.type # "check"
    BY <1>4, <1>6 DEF AgreeNet, Heard
  <2> QED
    BY <1>4, <2>1 DEF AgreeNet, InitOnly
<1>8. announcing[k] = {}
  BY <1>2, <1>4 DEF AgreeTime, Announced
<1>9. ASSUME Passing(k, r, AgreePasses(r))
      PROVE  r = 1 /\ passes[k] = {PausePass} /\ Passing(k, 1, {"pause"})
  <2>1. PICK p \in passes[k] : /\ passes[k] = {p} /\ p.round = r /\ p.pc \in AgreePasses(r)
                               /\ PassAt(k, r, p)
    BY <1>9 DEF Passing
  <2>2. p.pc \in {"pause", "next"}
    BY <1>1 DEF Asleep
  <2>3. r = 1 /\ p.pc = "pause"
    BY <2>1, <2>2 DEF AgreePasses
  <2>4. p = PausePass
    <3>1. p \in Pass
      BY WorkKinds
    <3>2. p = [pc |-> p.pc, round |-> p.round]
      BY <3>1 DEF Pass
    <3> QED
      BY <2>1, <2>3, <3>2 DEF PausePass
  <2>5. Passing(k, r, {"pause"})
    BY <1>9, <2>1, <2>3 DEF Passing
  <2> QED
    BY <2>1, <2>3, <2>4, <2>5
<1> QED
  BY <1>1, <1>2, <1>4, <1>6, <1>7, <1>8, <1>9

\* After round 0 every node waits to start round 1
LEMMA AgreeFirst ==
  ASSUME TimelyNetwork, TypeOK, Solo, Unharmed, NEW r \in Nat, Agreeing(r), r = 0, AdvanceClock
  PROVE  Collecting(1)'
<1>1. \A k \in Nodes :
        /\ handlers[k] = {} /\ generators[k] = {} /\ announcing[k] = {} /\ InitOnly(k)
        /\ Generated(k) = 0 .. r /\ AgreeTime(k, r) /\ Passed(k, r)
  BY AgreeRest DEF AdvanceClock
<1>2. \A k \in Nodes : /\ Unscheduled(k) /\ passes[k] = {NextPass} /\ sched[k] = "idle"
                       /\ Behind(k, 1) /\ dev[k] = EmptyStage /\ bucketHashesCheck[k] = <<>>
                       /\ Generated(k) = 0 .. 0
  BY <1>1 DEF AgreeTime, Passed, Unscheduled
<1>3. Sleepers = Nodes \X {NextPass} /\ Sleepers # {}
  <2>1. \A s : s \in Sleepers <=> s \in Nodes \X {NextPass}
    BY <1>1, <1>2, SleeperMembers DEF NextPass, Asleep
  <2>2. <<Starter, NextPass>> \in Sleepers
    BY <2>1, NodesAssumption
  <2> QED
    BY <2>1, <2>2
<1>4. /\ \A k \in Nodes : Still(k)
      /\ UNCHANGED <<net, handlers, passes, generators, announcing, dev>>
      /\ due' = Nodes \X {NextPass}
  BY <1>3, ClockStill
<1>5. due' = {k \in Nodes : passes'[k] # {}} \X {NextPass}
  <2>1. {k \in Nodes : passes'[k] # {}} = Nodes
    BY <1>2, <1>4
  <2> QED
    BY <1>4, <2>1
<1>6. 1 \notin 0 .. 0 /\ 0 .. 0 = 0 .. 1 - 1
  OBVIOUS
<1>7. \A k \in Nodes : Made(k, 1)' = {} /\ Produced(k, 1)' = {} /\ Generated(k)' = 0 .. 0
  <2>1. \A k \in Nodes : Generated(k)' = 0 .. 0
    BY <1>2, <1>4, GeneratedKept DEF Still
  <2> QED
    BY <1>6, <2>1 DEF Made, Produced
<1>8. AllMade(1)' = {}
  BY <1>7, ExpectedOwn DEF AllMade
<1>9. ASSUME NEW k \in Nodes PROVE CollectNode(k, 1)'
  <2>1. Still(k)
    BY <1>4
  <2>2. /\ Behind(k, 1)' /\ announcing'[k] = {} /\ bucketHashesCheck'[k] = <<>>
        /\ passes'[k] = {NextPass} /\ generators'[k] = {} /\ dev'[k] = EmptyStage
    BY <1>1, <1>2, <2>1, BehindKept DEF Still
  <2>3. handlers'[k] = {} /\ net'[k] = net[k]
    BY <1>1, <1>4
  <2>4. CollectNet(k, 1)'
    BY <1>1, <2>3 DEF CollectNet, InitOnly
  <2>5. CollectGenerators(k, 1)'
    BY <1>6, <1>7, <2>2 DEF CollectGenerators
  <2>6. Flying(k)' = {} /\ Landing(k)' = {}
    <3>1. \A c : c \notin Flying(k)' /\ c \notin Landing(k)'
      BY <1>1, <2>3, InFlightNext DEF InitOnly
    <3> QED
      BY <3>1
  <2>7. Bucket(k)' = {} /\ Len(dev'[k].bucket) = 0 /\ dev'[k].sub = {} /\ dev'[k].map = {}
    BY <2>2 DEF Bucket, EmptyStage, Range
  <2>8. CollectBucket(k, 1)'
    BY <1>7, <1>8, <2>6, <2>7, FS_EmptySet DEF CollectBucket
  <2>9. CollectTime(k, 1)'
    BY <1>2, <2>1 DEF CollectTime, Unscheduled, Still
  <2>10. CollectMust(k, 1)'
    BY <2>2 DEF CollectMust, Must
  <2> QED
    BY <1>6, <1>7, <2>2, <2>4, <2>5, <2>8, <2>9, <2>10 DEF CollectNode
<1> QED
  BY <1>5, <1>9 DEF Collecting

\* After round 1 every node pauses between the two passes
LEMMA AgreeSecond ==
  ASSUME TimelyNetwork, TypeOK, Solo, Unharmed, NEW r \in Nat, Agreeing(r), r = 1, AdvanceClock
  PROVE  Pausing'
<1>1. \A k \in Nodes :
        /\ handlers[k] = {} /\ generators[k] = {} /\ announcing[k] = {} /\ InitOnly(k)
        /\ Generated(k) = 0 .. 1 /\ AgreeTime(k, 1) /\ passes[k] = {PausePass}
        /\ Passing(k, 1, {"pause"})
  BY AgreeRest DEF AdvanceClock
<1>2. \A k \in Nodes : Unscheduled(k) /\ sched[k] = "idle"
  BY <1>1 DEF AgreeTime, Unscheduled
<1>3. Sleepers = Nodes \X {PausePass} /\ Sleepers # {}
  <2>1. \A s : s \in Sleepers <=> s \in Nodes \X {PausePass}
    BY <1>1, <1>2, SleeperMembers DEF PausePass, Asleep
  <2>2. <<Starter, PausePass>> \in Sleepers
    BY <2>1, NodesAssumption
  <2> QED
    BY <2>1, <2>2
<1>4. /\ \A k \in Nodes : Still(k)
      /\ UNCHANGED <<net, handlers, passes, generators, announcing, dev>>
      /\ due' = Nodes \X {PausePass}
  BY <1>3, ClockStill
<1>5. due' = {k \in Nodes : passes'[k] = {PausePass}} \X {PausePass}
  <2>1. {k \in Nodes : passes'[k] = {PausePass}} = Nodes
    BY <1>1, <1>4
  <2> QED
    BY <1>4, <2>1
<1>6. ASSUME NEW k \in Nodes PROVE PauseNode(k)'
  <2>1. Still(k)
    BY <1>4
  <2>2. Passing(k, 1, PausePasses)'
    <3>1. {"pause"} \subseteq PausePasses
      BY DEF PausePasses
    <3> QED
      BY <1>1, <2>1, <3>1, PassingKept, PassingMore
  <2>3. Generated(k)' = 0 .. 1
    BY <1>1, <2>1, GeneratedKept DEF Still
  <2>4. OnceOnly(k)' /\ InitOnly(k)'
    BY <1>1, <1>4 DEF OnceOnly, InitOnly
  <2> QED
    BY <1>1, <1>2, <1>4, <2>1, <2>2, <2>3, <2>4 DEF Unscheduled, Still, PauseNode
<1> QED
  BY <1>5, <1>6 DEF Pausing

\* After a later round the next slot is the first one of an epoch
LEMMA AgreeSlots ==
  ASSUME TimelyNetwork, TypeOK, Solo, Unharmed, NEW r \in Nat, Agreeing(r), r >= 2, AdvanceClock
  PROVE  Slots(r + 1)'
<1>1. \A k \in Nodes :
        /\ handlers[k] = {} /\ generators[k] = {} /\ announcing[k] = {} /\ InitOnly(k)
        /\ Generated(k) = 0 .. r /\ AgreeTime(k, r) /\ Announced(k, r) /\ Passed(k, r)
  BY AgreeRest DEF AdvanceClock
<1>2. \A k \in Nodes : /\ sched[k] = "slot" /\ slot[k] = 0 /\ passes[k] = {}
                       /\ absRound[k] = (r - 2) * EpochRounds + EpochRounds
                       /\ Behind(k, r + 1) /\ dev[k] = EmptyStage /\ bucketHashesCheck[k] = <<>>
  BY <1>1 DEF AgreeTime, Announced, Passed
<1>3. Sleepers = {} /\ SlotSleepers = Nodes \X {SlotSleep}
  <2>1. \A s : s \notin Sleepers
    BY <1>1, <1>2, SleeperMembers
  <2>2. \A s : s \in SlotSleepers <=> s \in Nodes \X {SlotSleep}
    BY <1>2, SleeperMembers
  <2> QED
    BY <2>1, <2>2
<1>4. /\ \A k \in Nodes : Still(k)
      /\ UNCHANGED <<net, handlers, passes, generators, announcing, dev>>
      /\ due' = Nodes \X {SlotSleep}
  BY <1>3, ClockStill
<1>5. due' = {k \in Nodes : slot'[k] = 0} \X {SlotSleep}
  <2>1. {k \in Nodes : slot'[k] = 0} = Nodes
    BY <1>2, <1>4 DEF Still
  <2> QED
    BY <1>4, <2>1
<1>6. ASSUME NEW k \in Nodes PROVE SlotNode(k, r + 1, 0)'
  <2>1. Still(k)
    BY <1>4
  <2>2. Behind(k, r + 1)' /\ Generated(k)' = 0 .. r
    BY <1>1, <1>2, <2>1, BehindKept, GeneratedKept DEF Still
  <2>3. OnceOnly(k)' /\ InitOnly(k)'
    BY <1>1, <1>4 DEF OnceOnly, InitOnly
  <2>4. slot'[k] = 0 /\ sched'[k] = "slot" /\ 0 # EpochRounds
    BY <1>2, <2>1, Parameters DEF Still
  <2>5. absRound'[k] = (r + 1 - 2) * EpochRounds + slot'[k]
    <3>1. (r + 1 - 2) * EpochRounds + 0 = (r - 2) * EpochRounds + EpochRounds
      BY Parameters
    <3> QED
      BY <1>2, <2>1, <2>4, <3>1 DEF Still
  <2>6. /\ generators'[k] = {} /\ announcing'[k] = {} /\ passes'[k] = {}
        /\ bucketHashesCheck'[k] = <<>> /\ dev'[k] = EmptyStage
    BY <1>1, <1>2, <2>1 DEF Still
  <2>7. r + 1 - 1 = r
    OBVIOUS
  <2> QED
    BY <2>2, <2>3, <2>4, <2>5, <2>6, <2>7 DEF SlotNode
<1>7. r + 1 >= 2 /\ 0 \in 0 .. EpochRounds - 1 /\ 0 # 1
  BY Parameters
<1> QED
  BY <1>5, <1>6, <1>7 DEF Slots

LEMMA AgreeRounds ==
  ASSUME NEW r \in Nat, Agreeing(r), r < 2, NEW k \in Nodes
  PROVE  ~(commitmentGenEpochRound[k] >= 2)
<1>1. AgreeSeat(k, r)
  BY DEF Agreeing, AgreeNode
<1>2. r = 0 \/ r = 1
  OBVIOUS
<1>3. CASE Counting(k, r)
  BY <1>2, <1>3 DEF Counting, Behind
<1>4. CASE r # 1 /\ Passed(k, r)
  BY <1>2, <1>4 DEF Passed, Behind
<1>5. CASE Passing(k, r, AgreePasses(r))
  <2>1. PICK p \in passes[k] : p.pc \in AgreePasses(r) /\ PassAt(k, r, p)
    BY <1>5 DEF Passing
  <2>2. CASE r = 0
    BY <2>1, <2>2 DEF PassAt, Behind
  <2>3. CASE r = 1
    <3>1. p.pc \in {"running", "pause"}
      BY <2>1, <2>3 DEF AgreePasses
    <3> QED
      BY <2>1, <2>3, <3>1 DEF PassAt, Behind
  <2> QED
    BY <1>2, <2>2, <2>3
<1> QED
  BY <1>1, <1>3, <1>4, <1>5 DEF AgreeSeat

LEMMA AgreeStep ==
  ASSUME TimelyNetwork, TypeOK, Solo, Unharmed, NEW r \in Nat, Agreeing(r), Next
  PROVE  Unharmed' /\ (Agreeing(r)' \/ (r = 0 /\ Collecting(1)') \/ Pausing' \/ Slots(r + 1)')
<1>1. \A n \in Nodes : /\ AgreeNet(n, r) /\ OnceOnly(n) /\ generators[n] = {}
                       /\ Generated(n) = 0 .. r /\ AgreeTime(n, r)
  BY DEF Agreeing, AgreeNode
<1>2. \A n \in Nodes : \A m \in net[n] : ~FailBucketCheck(n, m)
  <2> TAKE n \in Nodes
  <2> TAKE m \in net[n]
  <2> SUFFICES ASSUME FailBucketCheck(n, m) PROVE FALSE
    OBVIOUS
  <2>1. /\ AcceptBucketCheck(n, m) /\ Complete(Collected(n, m)) /\ Minority(n, Collected(n, m))
        /\ UNCHANGED <<announcing, sched>>
    BY DEF FailBucketCheck, scheduleVars
  <2> QED
    BY <2>1, Counted
<1>3. Unharmed'
  <2>1. \A n \in Nodes : \A h \in handlers[n] : ~CheckRound(n, h)
    BY <1>1 DEF OnceOnly, CheckRound
  <2> QED
    BY <1>2, <2>1, Harmless
<1>4. CASE StartBlockchain
  BY <1>3, <1>4, StartIsInitStep, AgreeInitStep
<1>5. CASE AdvanceClock
  <2>1. r = 0 \/ r = 1 \/ r >= 2
    OBVIOUS
  <2> QED
    BY <1>3, <1>5, <2>1, AgreeFirst, AgreeSecond, AgreeSlots
<1>6. ASSUME NEW n \in Nodes, NodeStep(n)
      PROVE  Agreeing(r)'
  <2>1. \A m \in net[n] : m.type \in {"init", "check"} /\ (m.type = "init" => m.round = 0)
    BY <1>1 DEF AgreeNet
  <2>2. ASSUME NEW m \in net[n], ReceiveInit(n, m)
        PROVE  Agreeing(r)'
    BY <2>1, <2>2, MessageKinds, ReceiveIsInitStep, AgreeInitStep
  <2>3. \A m \in net[n] : ~ReceiveCommitment(n, m)
    BY <2>1, MessageKinds
  <2>4. ASSUME NEW m \in net[n], RetryBucketCheck(n, m) \/ DropBucketCheck(n, m)
        PROVE  FALSE
    <3>1. MayDeliver(n) /\ m.type = "check" /\ (HashRefused(n, m) \/ LengthRefused(n, m))
      BY <2>4 DEF RetryBucketCheck, DropBucketCheck
    <3> QED
      BY <3>1, SameBucket
  <2>5. \A m \in net[n] : CountBucketCheck(n, m) \/ CompleteBucketCheck(n, m) => Agreeing(r)'
    BY AgreeCount, AgreeComplete
  <2>6. \A h \in handlers[n] : h.pc = "once" /\ h.round = 0
    BY <1>1 DEF OnceOnly
  <2>7. 0 \in Generated(n)
    BY <1>1
  <2>8. ASSUME NEW h \in handlers[n], CheckGenerated(n, h)
        PROVE  Agreeing(r)'
    BY <2>6, <2>7, <2>8, OnceIsInitStep, AgreeInitStep
  <2>9. \A h \in handlers[n] : /\ ~InsertCommitment(n, h) /\ ~CheckRound(n, h)
                               /\ ~MarkGenerated(n, h)
    BY <2>6 DEF InsertCommitment, CheckRound, MarkGenerated
  <2>10. generators[n] = {}
    BY <1>1
  <2>11. ASSUME NEW a \in announcing[n], AnnounceBucket(n, a)
         PROVE  Agreeing(r)'
    BY <2>11, AgreeAnnounce
  <2>12. EndEpoch(n) => Agreeing(r)'
    BY AgreeEndEpoch
  <2>13. \A s : MayWake(<<n, s>>) => s = Ann(r) \/ s = EndSleep
    <3>1. \E S : due = S \X {Ann(r)} \/ due = S \X {EndSleep}
      BY DEF Agreeing
    <3> QED
      BY <3>1, Awakened
  <2>14. ~GenerateBlocks(n)
    <3>1. SlotSleep # Ann(r) /\ SlotSleep # EndSleep
      BY DEF SlotSleep, Ann, EndSleep
    <3> QED
      BY <2>13, <3>1 DEF GenerateBlocks
  <2>15. \A p \in passes[n] : ~EndPause(n, p) /\ ~StartNextRound(n, p)
    <3>1. Ann(r).pc = "announce" /\ EndSleep.pc = "end"
      BY DEF Ann, EndSleep
    <3> QED
      BY <2>13, <3>1 DEF EndPause, StartNextRound
  <2>16. ASSUME NEW p \in passes[n],
                \/ PassToEpochRunning(n, p) \/ CopyBucket(n, p) \/ CopyRest(n, p)
                \/ BumpRound(n, p) \/ ClearChecks(n, p) \/ ResetDev(n, p)
         PROVE  Agreeing(r)'
    BY <2>16, AgreePass
  <2>17. ~StartSchedule(n)
    <3>1. CASE r < 2
      <4>1. PICK k \in Nodes \ {n} : TRUE
        BY OtherNodes
      <4>2. ~(commitmentGenEpochRound[k] >= 2)
        BY <3>1, AgreeRounds
      <4> QED
        BY <4>2 DEF StartSchedule, MayStartSchedule
    <3>2. CASE ~(r < 2)
      <4>1. sched[n] # "idle"
        BY <1>1, <3>2 DEF AgreeTime
      <4> QED
        BY <4>1 DEF StartSchedule, MayStartSchedule
    <3> QED
      BY <3>1, <3>2
  <2> QED
    BY <1>6, <1>2, <2>2, <2>3, <2>4, <2>5, <2>8, <2>9, <2>10, <2>11, <2>12, <2>14, <2>15, <2>16,
       <2>17, Steps
<1> QED
  BY <1>3, <1>4, <1>5, <1>6 DEF Next

-----------------------------------------------------------------------------
(* The second pass of round 1 *)

LEMMA PauseInitStep ==
  ASSUME Pausing, InitStep
  PROVE  Pausing'
<1>1. \A k \in Nodes : Still(k)
  BY InitStepStill
<1>2. ASSUME NEW k \in Nodes PROVE PauseNode(k)'
  <2>1. PauseNode(k) /\ Still(k)
    BY <1>1 DEF Pausing
  <2>2. InitOnly(k)' /\ OnceOnly(k)'
    BY <2>1, InitOnlyKept DEF PauseNode
  <2>3. Generated(k)' = 0 .. 1
    BY <2>1, GeneratedKept DEF PauseNode, Still
  <2>4. Passing(k, 1, PausePasses)' \/ Passed(k, 1)'
    BY <2>1, PassingKept DEF PauseNode
  <2> QED
    BY <2>1, <2>2, <2>3, <2>4 DEF PauseNode, Still
<1>3. due' = due /\ passes' = passes
  BY DEF InitStep
<1> QED
  BY <1>2, <1>3 DEF Pausing

\* A step of the handler that passes round 1 on
LEMMA PausePassStep ==
  ASSUME TimelyNetwork, TypeOK, Pausing, NEW n \in Nodes, NEW p \in passes[n],
         \/ PassToEpochRunning(n, p) \/ EndPause(n, p) \/ CopyBucket(n, p) \/ CopyRest(n, p)
         \/ BumpRound(n, p) \/ ClearChecks(n, p) \/ ResetDev(n, p)
  PROVE  Pausing'
<1>1. \A k \in Nodes : PauseNode(k)
  BY DEF Pausing
<1>2. Passing(n, 1, PausePasses)
  BY <1>1 DEF PauseNode, Passed
<1>3. passes[n] = {p} /\ p.round = 1 /\ p.pc \in PausePasses
  BY <1>2 DEF Passing
<1>4. ~PassToEpochRunning(n, p)
  BY <1>3 DEF PausePasses, PassToEpochRunning
<1>5. /\ \A k \in Nodes \ {n} : Still(k)
      /\ UNCHANGED <<net, handlers, generators, announcing, epochRoundsGenerated, sched, slot,
                     absRound>>
      /\ due' = due \/ EndPause(n, p)
  BY PassFrame
<1>6. \E pc \in {"copy", "rest", "bump", "clear", "reset"} :
         Passing(n, 1, {pc})' \/ Passed(n, 1)'
  <2>1. CASE EndPause(n, p)
    BY <1>2, <2>1, PassWakes
  <2>2. CASE CopyBucket(n, p)
    BY <1>2, <2>2, PassCopies
  <2>3. CASE CopyRest(n, p)
    BY <1>2, <2>3, PassCopiesRest
  <2>4. CASE BumpRound(n, p)
    BY <1>2, <2>4, PassBumps
  <2>5. CASE ClearChecks(n, p)
    BY <1>2, <2>5, PassClears
  <2>6. CASE ResetDev(n, p)
    BY <1>2, <2>6, PassResets
  <2> QED
    BY <1>4, <2>1, <2>2, <2>3, <2>4, <2>5, <2>6
<1>7. passes'[n] # {PausePass}
  <2>1. CASE Passed(n, 1)'
    <3>1. passes'[n] = {}
      BY <2>1 DEF Passed
    <3> QED
      BY <3>1
  <2>2. CASE ~Passed(n, 1)'
    <3>1. PICK pc \in {"copy", "rest", "bump", "clear", "reset"} : Passing(n, 1, {pc})'
      BY <1>6, <2>2
    <3>2. PICK q \in passes'[n] : q.pc \in {pc}
      BY <3>1 DEF Passing
    <3>3. q # PausePass
      BY <3>2 DEF PausePass
    <3> QED
      BY <3>2, <3>3
  <2> QED
    BY <2>1, <2>2
<1>8. Passing(n, 1, PausePasses)' \/ Passed(n, 1)'
  <2>1. \A pc \in {"copy", "rest", "bump", "clear", "reset"} : {pc} \subseteq PausePasses
    BY DEF PausePasses
  <2> QED
    BY <1>6, <2>1, PassingMore
<1>9. PauseNode(n)'
  BY <1>1, <1>5, <1>8 DEF PauseNode, Generated, OnceOnly, InitOnly
<1>10. ASSUME NEW k \in Nodes \ {n} PROVE PauseNode(k)'
  <2>1. PauseNode(k) /\ Still(k)
    BY <1>1, <1>5
  <2>2. Passing(k, 1, PausePasses)' \/ Passed(k, 1)'
    BY <2>1, PassingKept DEF PauseNode
  <2> QED
    BY <1>5, <2>1, <2>2 DEF PauseNode, Generated, OnceOnly, InitOnly
<1>11. \A k \in Nodes \ {n} : passes'[k] = passes[k]
  BY <1>5 DEF Still
<1>12. due' = {k \in Nodes : passes'[k] = {PausePass}} \X {PausePass}
  <2>1. {k \in Nodes : passes'[k] = {PausePass}} = {k \in Nodes : passes[k] = {PausePass}} \ {n}
    BY <1>7, <1>11
  <2>2. CASE EndPause(n, p)
    <3>1. Wake(<<n, p>>) /\ p.pc = "pause"
      BY <2>2 DEF EndPause
    <3>2. p \in Pass
      BY WorkKinds
    <3>3. p = PausePass
      BY <1>3, <3>1, <3>2 DEF Pass, PausePass
    <3>4. due' = ({k \in Nodes : passes[k] = {PausePass}} \ {n}) \X {PausePass}
      <4>1. Wake(<<n, PausePass>>)
        BY <3>1, <3>3
      <4>2. due = {k \in Nodes : passes[k] = {PausePass}} \X {PausePass}
        BY DEF Pausing
      <4> QED
        BY <4>1, <4>2, WokenUp
    <3> QED
      BY <2>1, <3>4
  <2>3. CASE ~EndPause(n, p)
    <3>1. p.pc # "pause"
      BY <1>4, <2>3 DEF CopyBucket, CopyRest, BumpRound, ClearChecks, ResetDev
    <3>2. n \notin {k \in Nodes : passes[k] = {PausePass}}
      BY <1>3, <3>1 DEF PausePass
    <3> QED
      BY <1>5, <2>1, <2>3, <3>2 DEF Pausing
  <2> QED
    BY <2>2, <2>3
<1> QED
  BY <1>9, <1>10, <1>12 DEF Pausing

\* A node whose peers have all passed round 1 on starts its schedule
LEMMA PauseSchedule ==
  ASSUME TypeOK, Pausing, NEW n \in Nodes, StartSchedule(n)
  PROVE  Pausing'
<1>1. /\ sched' = [sched EXCEPT ![n] = "slot"]
      /\ UNCHANGED <<net, handlers, passes, generators, announcing, epochRoundsGenerated, slot,
                     absRound, commitmentGenEpochRound, bucketHashesCheck, dev, rdy, run,
                     rdyEpochRound, runEpochRound, due>>
  BY DEF StartSchedule, networkVars, roundVars, stageVars, threadVars
<1>2. ASSUME NEW k \in Nodes PROVE PauseNode(k)'
  <2>1. PauseNode(k)
    BY DEF Pausing
  <2>2. sched'[k] \in {"idle", "slot"}
    BY <1>1, <2>1 DEF PauseNode, TypeOK
  <2>3. Passing(k, 1, PausePasses)' \/ Passed(k, 1)'
    BY <1>1, <2>1, PassingSame DEF PauseNode
  <2> QED
    BY <1>1, <2>1, <2>2, <2>3 DEF PauseNode, Generated, OnceOnly, InitOnly
<1> QED
  BY <1>1, <1>2 DEF Pausing

\* The first slot is that of a node that has passed round 1 on, and all its peers have
LEMMA PauseSlots ==
  ASSUME TimelyNetwork, TypeOK, Solo, Unharmed, Pausing, AdvanceClock
  PROVE  Slots(2)'
<1>1. /\ due = {}
      /\ \A k \in Nodes : /\ handlers[k] = {} /\ ~MayStartSchedule(k)
                          /\ \A p \in passes[k] : p.pc \in Asleep
                          /\ passes[k] = {} => net[k] = {}
  BY QuietMeans DEF AdvanceClock
<1>2. \A k \in Nodes : PauseNode(k)
  BY DEF Pausing
<1>3. \A k \in Nodes : Passed(k, 1)
  <2> TAKE k \in Nodes
  <2> SUFFICES ASSUME Passing(k, 1, PausePasses) PROVE FALSE
    BY <1>2 DEF PauseNode
  <2>1. PICK p \in passes[k] : passes[k] = {p} /\ p.round = 1 /\ p.pc \in PausePasses
    BY DEF Passing
  <2>2. p.pc = "pause"
    BY <1>1, <2>1 DEF Asleep, PausePasses
  <2>3. p \in Pass
    BY WorkKinds
  <2>4. p = PausePass
    BY <2>1, <2>2, <2>3 DEF Pass, PausePass
  <2>5. {j \in Nodes : passes[j] = {PausePass}} = {}
    BY <1>1, NobodySleeps DEF Pausing
  <2> QED
    BY <2>1, <2>4, <2>5
<1>4. \A k \in Nodes : /\ passes[k] = {} /\ Behind(k, 2) /\ dev[k] = EmptyStage
                       /\ bucketHashesCheck[k] = <<>> /\ commitmentGenEpochRound[k] = 2
  BY <1>3 DEF Passed, Behind
<1>5. \A k \in Nodes : sched[k] = "slot" /\ slot[k] = 0 /\ absRound[k] = 0
  BY <1>1, <1>2, <1>4 DEF PauseNode, MayStartSchedule, Unharmed
<1>6. Sleepers = {} /\ SlotSleepers = Nodes \X {SlotSleep}
  <2>1. \A s : s \notin Sleepers
    BY <1>2, <1>4, <1>5, SleeperMembers DEF PauseNode
  <2>2. \A s : s \in SlotSleepers <=> s \in Nodes \X {SlotSleep}
    BY <1>5, SleeperMembers
  <2> QED
    BY <2>1, <2>2
<1>7. /\ \A k \in Nodes : Still(k)
      /\ UNCHANGED <<net, handlers, passes, generators, announcing, dev>>
      /\ due' = Nodes \X {SlotSleep}
  BY <1>6, ClockStill
<1>8. due' = {k \in Nodes : slot'[k] = 0} \X {SlotSleep}
  <2>1. {k \in Nodes : slot'[k] = 0} = Nodes
    BY <1>5, <1>7 DEF Still
  <2> QED
    BY <1>7, <2>1
<1>9. ASSUME NEW k \in Nodes PROVE SlotNode(k, 2, 0)'
  <2>1. Still(k)
    BY <1>7
  <2>2. Behind(k, 2)' /\ Generated(k)' = 0 .. 1
    BY <1>2, <1>4, <2>1, BehindKept, GeneratedKept DEF Still, PauseNode
  <2>3. OnceOnly(k)' /\ InitOnly(k)'
    BY <1>2, <1>7 DEF OnceOnly, InitOnly, PauseNode
  <2>4. slot'[k] = 0 /\ sched'[k] = "slot" /\ 0 # EpochRounds
    BY <1>5, <2>1, Parameters DEF Still
  <2>5. absRound'[k] = (2 - 2) * EpochRounds + slot'[k]
    <3>1. (2 - 2) * EpochRounds + 0 = 0
      BY Parameters
    <3> QED
      BY <1>5, <2>1, <2>4, <3>1 DEF Still
  <2>6. /\ generators'[k] = {} /\ announcing'[k] = {} /\ passes'[k] = {}
        /\ bucketHashesCheck'[k] = <<>> /\ dev'[k] = EmptyStage
    BY <1>2, <1>4, <2>1 DEF Still, PauseNode
  <2>7. 2 - 1 = 1
    OBVIOUS
  <2> QED
    BY <2>2, <2>3, <2>4, <2>5, <2>6, <2>7 DEF SlotNode
<1>10. 0 \in 0 .. EpochRounds - 1 /\ 0 # 1
  BY Parameters
<1> QED
  BY <1>8, <1>9, <1>10 DEF Slots

LEMMA PauseStep ==
  ASSUME TimelyNetwork, TypeOK, Solo, Unharmed, Pausing, Next
  PROVE  Unharmed' /\ (Pausing' \/ Slots(2)')
<1>1. \A n \in Nodes : /\ PauseNode(n) /\ InitOnly(n) /\ OnceOnly(n) /\ generators[n] = {}
                       /\ announcing[n] = {} /\ Generated(n) = 0 .. 1
                       /\ sched[n] # "end"
  BY DEF Pausing, PauseNode
<1>2. Unharmed'
  <2>1. \A n \in Nodes : \A m \in net[n] : ~FailBucketCheck(n, m)
    BY <1>1, MessageKinds DEF InitOnly
  <2>2. \A n \in Nodes : \A h \in handlers[n] : ~CheckRound(n, h)
    BY <1>1 DEF OnceOnly, CheckRound
  <2> QED
    BY <2>1, <2>2, Harmless
<1>3. CASE StartBlockchain
  BY <1>2, <1>3, StartIsInitStep, PauseInitStep
<1>4. CASE AdvanceClock
  BY <1>2, <1>4, PauseSlots
<1>5. ASSUME NEW n \in Nodes, NodeStep(n)
      PROVE  Pausing'
  <2>1. \A m \in net[n] : m.type = "init" /\ m.round = 0
    BY <1>1 DEF InitOnly
  <2>2. ASSUME NEW m \in net[n], ReceiveInit(n, m)
        PROVE  Pausing'
    BY <2>1, <2>2, ReceiveIsInitStep, PauseInitStep
  <2>3. \A m \in net[n] : /\ ~ReceiveCommitment(n, m) /\ ~RetryBucketCheck(n, m)
                          /\ ~DropBucketCheck(n, m) /\ ~CountBucketCheck(n, m)
                          /\ ~CompleteBucketCheck(n, m) /\ ~FailBucketCheck(n, m)
    BY <2>1, MessageKinds
  <2>4. \A h \in handlers[n] : h.pc = "once" /\ h.round = 0
    BY <1>1 DEF OnceOnly
  <2>5. 0 \in Generated(n)
    BY <1>1
  <2>6. ASSUME NEW h \in handlers[n], CheckGenerated(n, h)
        PROVE  Pausing'
    BY <2>4, <2>5, <2>6, OnceIsInitStep, PauseInitStep
  <2>7. \A h \in handlers[n] : /\ ~InsertCommitment(n, h) /\ ~CheckRound(n, h)
                               /\ ~MarkGenerated(n, h)
    BY <2>4 DEF InsertCommitment, CheckRound, MarkGenerated
  <2>8. \A s : MayWake(<<n, s>>) => s = PausePass
    BY Awakened DEF Pausing
  <2>9. \A p \in passes[n] : ~StartNextRound(n, p)
    BY <2>8 DEF StartNextRound, PausePass
  <2>10. ASSUME NEW p \in passes[n],
                \/ PassToEpochRunning(n, p) \/ EndPause(n, p) \/ CopyBucket(n, p)
                \/ CopyRest(n, p) \/ BumpRound(n, p) \/ ClearChecks(n, p) \/ ResetDev(n, p)
         PROVE  Pausing'
    BY <2>10, PausePassStep
  <2>11. StartSchedule(n) => Pausing'
    BY PauseSchedule
  <2>12. ~GenerateBlocks(n) /\ ~EndEpoch(n)
    <3>1. SlotSleep # PausePass
      BY DEF SlotSleep, PausePass
    <3> QED
      BY <1>1, <2>8, <3>1 DEF GenerateBlocks, EndEpoch
  <2>13. generators[n] = {} /\ announcing[n] = {}
    BY <1>1
  <2> QED
    BY <1>5, <2>2, <2>3, <2>6, <2>7, <2>9, <2>10, <2>11, <2>12, <2>13, Steps
<1> QED
  BY <1>2, <1>3, <1>4, <1>5 DEF Next

-----------------------------------------------------------------------------
(* The slots of an epoch *)

LEMMA Modulo ==
  ASSUME NEW m \in Nat \ {0}
  PROVE  m % m = 0 /\ \A i \in 0 .. m - 1 : i % m = i
OBVIOUS

LEMMA SlotInitStep ==
  ASSUME NEW r, Slots(r), InitStep
  PROVE  Slots(r)'
<1>1. PICK k \in 0 .. EpochRounds - 1 :
        /\ r >= 2 /\ k # 1 /\ due = {n \in Nodes : slot[n] = k} \X {SlotSleep}
        /\ \A n \in Nodes : SlotNode(n, r, k)
  BY DEF Slots
<1>2. \A n \in Nodes : Still(n)
  BY InitStepStill
<1>3. ASSUME NEW n \in Nodes PROVE SlotNode(n, r, k)'
  <2>1. SlotNode(n, r, k) /\ Still(n)
    BY <1>1, <1>2
  <2>2. InitOnly(n)' /\ OnceOnly(n)'
    BY <2>1, InitOnlyKept DEF SlotNode
  <2>3. (Behind(n, r)' <=> Behind(n, r)) /\ Generated(n)' = Generated(n)
        /\ (Full(n, r)' <=> Full(n, r))
    BY <2>1, BehindKept, GeneratedKept, FullKept DEF Still
  <2> QED
    BY <2>1, <2>2, <2>3 DEF SlotNode, Still
<1>4. due' = due /\ slot' = slot
  BY DEF InitStep, scheduleVars
<1> QED
  BY <1>1, <1>3, <1>4 DEF Slots

\* The next block slot
LEMMA SlotBlocks ==
  ASSUME TimelyNetwork, TypeOK, NEW r \in Nat, Slots(r), NEW n \in Nodes, GenerateBlocks(n)
  PROVE  Slots(r)'
<1>1. PICK k \in 0 .. EpochRounds - 1 :
        /\ r >= 2 /\ k # 1 /\ due = {j \in Nodes : slot[j] = k} \X {SlotSleep}
        /\ \A j \in Nodes : SlotNode(j, r, k)
  BY DEF Slots
<1>2. slot[n] = k /\ due' = ({j \in Nodes : slot[j] = k} \ {n}) \X {SlotSleep}
  <2>1. n \in {j \in Nodes : slot[j] = k}
    BY <1>1, Awakened, BlocksMade
  <2> QED
    BY <1>1, <2>1, WokenUp, BlocksMade
<1>3. ~MidEpoch(k + 1) /\ (EpochOver(k + 1) <=> k + 1 = EpochRounds)
  <2>1. CASE k + 1 = EpochRounds
    <3>1. (k + 1) % EpochRounds = 0
      BY <2>1, Parameters, Modulo
    <3> QED
      BY <2>1, <3>1 DEF MidEpoch, EpochOver
  <2>2. CASE k + 1 # EpochRounds
    <3>1. k + 1 \in 0 .. EpochRounds - 1 /\ k + 1 # 2 /\ k + 1 # 0
      BY <1>1, <2>2, Parameters
    <3>2. (k + 1) % EpochRounds = k + 1
      BY <3>1, Parameters, Modulo
    <3> QED
      BY <2>2, <3>1, <3>2 DEF MidEpoch, EpochOver
  <2> QED
    BY <2>1, <2>2
<1>4. /\ slot' = [slot EXCEPT ![n] = @ + 1] /\ absRound' = [absRound EXCEPT ![n] = @ + 1]
      /\ sched' = IF k + 1 = EpochRounds THEN [sched EXCEPT ![n] = "end"] ELSE sched
      /\ sched[n] = "slot"
      /\ UNCHANGED <<net, handlers, commitmentGenEpochRound, epochRoundsGenerated,
                     bucketHashesCheck, dev, rdy, run, rdyEpochRound, runEpochRound, passes,
                     generators, announcing>>
  BY <1>2, <1>3, BlocksMade
<1>5. /\ slot'[n] = k + 1 /\ absRound'[n] = absRound[n] + 1
      /\ sched'[n] = IF k + 1 = EpochRounds THEN "end" ELSE "slot"
      /\ \A j \in Nodes \ {n} : slot'[j] = slot[j] /\ absRound'[j] = absRound[j] /\ sched'[j] = sched[j]
  BY <1>2, <1>4 DEF TypeOK
<1>6. ASSUME NEW j \in Nodes PROVE SlotNode(j, r, k)'
  <2>1. SlotNode(j, r, k)
    BY <1>1
  <2>2. InitOnly(j)' /\ OnceOnly(j)'
    BY <1>4, <2>1 DEF SlotNode, InitOnly, OnceOnly
  <2>3. (Behind(j, r)' <=> Behind(j, r)) /\ Generated(j)' = Generated(j)
        /\ (Full(j, r)' <=> Full(j, r))
    BY <1>4, BehindKept, GeneratedKept, FullKept
  <2>4. /\ slot'[j] \in {k, k + 1} /\ absRound'[j] = (r - 2) * EpochRounds + slot'[j]
        /\ sched'[j] = (IF slot'[j] = EpochRounds THEN "end" ELSE "slot")
    <3>1. CASE j = n
      <4>1. absRound[n] = (r - 2) * EpochRounds + k
        BY <1>2, <2>1, <3>1 DEF SlotNode
      <4>2. (r - 2) * EpochRounds \in Nat
        BY <1>1, Parameters
      <4>3. absRound'[n] = (r - 2) * EpochRounds + (k + 1)
        BY <1>5, <4>1, <4>2
      <4> QED
        BY <1>5, <3>1, <4>3
    <3>2. CASE j # n
      BY <1>5, <2>1, <3>2 DEF SlotNode
    <3> QED
      BY <3>1, <3>2
  <2> QED
    BY <1>4, <2>1, <2>2, <2>3, <2>4 DEF SlotNode
<1>7. due' = {j \in Nodes : slot'[j] = k} \X {SlotSleep}
  <2>1. {j \in Nodes : slot'[j] = k} = {j \in Nodes : slot[j] = k} \ {n}
    BY <1>5
  <2> QED
    BY <1>2, <2>1
<1> QED
  BY <1>1, <1>6, <1>7 DEF Slots

\* All nodes have counted the slot when the clock advances
LEMMA SlotRest ==
  ASSUME TimelyNetwork, Unharmed, NEW r, NEW k \in 0 .. EpochRounds - 1,
         due = {n \in Nodes : slot[n] = k} \X {SlotSleep}, \A n \in Nodes : SlotNode(n, r, k),
         AdvanceClock
  PROVE  /\ \A n \in Nodes : /\ slot[n] = k + 1 /\ handlers[n] = {} /\ net[n] = {}
                             /\ sched[n] = IF k + 1 = EpochRounds THEN "end" ELSE "slot"
                             /\ absRound[n] = (r - 2) * EpochRounds + (k + 1)
         /\ \A n \in Nodes : Still(n)
         /\ UNCHANGED <<net, handlers, passes, generators, announcing, dev>>
         /\ due' = Nodes \X {IF k + 1 = EpochRounds THEN EndSleep ELSE SlotSleep}
<1>1. due = {} /\ \A n \in Nodes : handlers[n] = {} /\ (passes[n] = {} => net[n] = {})
  BY QuietMeans DEF AdvanceClock
<1>2. {n \in Nodes : slot[n] = k} = {}
  BY <1>1, NobodySleeps
<1>3. \A n \in Nodes : slot[n] = k + 1
  BY <1>2 DEF SlotNode
<1>4. \A n \in Nodes : /\ sched[n] = IF k + 1 = EpochRounds THEN "end" ELSE "slot"
                       /\ absRound[n] = (r - 2) * EpochRounds + (k + 1)
                       /\ generators[n] = {} /\ announcing[n] = {} /\ passes[n] = {}
  BY <1>3 DEF SlotNode
<1>5. (IF Sleepers # {} THEN Sleepers ELSE SlotSleepers)
         = Nodes \X {IF k + 1 = EpochRounds THEN EndSleep ELSE SlotSleep}
  <2>1. CASE k + 1 = EpochRounds
    <3>1. \A s : s \in Sleepers <=> s \in Nodes \X {EndSleep}
      BY <1>4, <2>1, SleeperMembers
    <3>2. <<Starter, EndSleep>> \in Sleepers
      BY <3>1, NodesAssumption
    <3>3. Sleepers = Nodes \X {EndSleep} /\ Sleepers # {}
      BY <3>1, <3>2
    <3> QED
      BY <2>1, <3>3
  <2>2. CASE k + 1 # EpochRounds
    <3>1. \A s : s \notin Sleepers
      BY <1>4, <2>2, SleeperMembers
    <3>2. \A s : s \in SlotSleepers <=> s \in Nodes \X {SlotSleep}
      BY <1>4, <2>2, SleeperMembers
    <3>3. Sleepers = {} /\ SlotSleepers = Nodes \X {SlotSleep}
      BY <3>1, <3>2
    <3> QED
      BY <2>2, <3>3
  <2> QED
    BY <2>1, <2>2
<1> QED
  BY <1>1, <1>3, <1>4, <1>5, ClockStill

LEMMA SlotNext ==
  ASSUME TimelyNetwork, Unharmed, NEW r, r >= 2, NEW k \in 0 .. EpochRounds - 1,
         due = {n \in Nodes : slot[n] = k} \X {SlotSleep}, \A n \in Nodes : SlotNode(n, r, k),
         AdvanceClock, k # 0, k + 1 # EpochRounds
  PROVE  Slots(r)'
<1>1. /\ \A n \in Nodes : /\ slot[n] = k + 1 /\ sched[n] = "slot"
                          /\ absRound[n] = (r - 2) * EpochRounds + (k + 1)
      /\ \A n \in Nodes : Still(n)
      /\ UNCHANGED <<net, handlers>>
      /\ due' = Nodes \X {SlotSleep}
  BY SlotRest
<1>2. k + 1 \in 0 .. EpochRounds - 1 /\ k + 1 # 1 /\ k + 1 # 0
  BY Parameters
<1>3. due' = {n \in Nodes : slot'[n] = k + 1} \X {SlotSleep}
  <2>1. {n \in Nodes : slot'[n] = k + 1} = Nodes
    BY <1>1 DEF Still
  <2> QED
    BY <1>1, <2>1
<1>4. ASSUME NEW n \in Nodes PROVE SlotNode(n, r, k + 1)'
  <2>1. SlotNode(n, r, k) /\ Still(n)
    BY <1>1
  <2>2. InitOnly(n)' /\ OnceOnly(n)'
    BY <1>1, <2>1 DEF SlotNode, InitOnly, OnceOnly
  <2>3. (Behind(n, r)' <=> Behind(n, r)) /\ Generated(n)' = Generated(n)
        /\ (Full(n, r)' <=> Full(n, r))
    BY <2>1, BehindKept, GeneratedKept, FullKept DEF Still
  <2>4. /\ slot'[n] \in {k + 1, k + 1 + 1} /\ sched'[n] = "slot" /\ slot'[n] # EpochRounds
        /\ absRound'[n] = (r - 2) * EpochRounds + slot'[n]
    BY <1>1, <2>1 DEF Still
  <2> QED
    BY <1>2, <2>1, <2>2, <2>3, <2>4 DEF SlotNode, Still
<1> QED
  BY <1>2, <1>3, <1>4 DEF Slots

\* A second after the last slot the buckets are arranged and compared
LEMMA SlotEnd ==
  ASSUME TimelyNetwork, TypeOK, Unharmed, NEW r \in Nat, r >= 2, NEW k \in 0 .. EpochRounds - 1,
         due = {n \in Nodes : slot[n] = k} \X {SlotSleep}, \A n \in Nodes : SlotNode(n, r, k),
         AdvanceClock, k + 1 = EpochRounds
  PROVE  Agreeing(r)'
<1>1. /\ \A n \in Nodes : /\ slot[n] = EpochRounds /\ sched[n] = "end"
                          /\ handlers[n] = {} /\ net[n] = {}
                          /\ absRound[n] = (r - 2) * EpochRounds + EpochRounds
      /\ \A n \in Nodes : Still(n)
      /\ UNCHANGED <<net, handlers, passes, generators, announcing, dev>>
      /\ due' = Nodes \X {EndSleep}
  BY SlotRest
<1>2. k # 0 /\ ~(r < 2)
  BY Parameters DEF TimelyNetwork
<1>3. \A n \in Nodes : /\ Full(n, r) /\ Generated(n) = 0 .. r /\ Behind(n, r)
                       /\ bucketHashesCheck[n] = <<>> /\ generators[n] = {}
                       /\ announcing[n] = {} /\ passes[n] = {}
  BY <1>2 DEF SlotNode
<1>4. Real(r)
  BY <1>3, NodesAssumption, ShuffledFull
<1>5. \A n \in Nodes : ~Announced(n, r)'
  BY <1>1, <1>2 DEF Announced, Still
<1>6. \A n \in Nodes : Heard(n, r)' = {}
  BY <1>5 DEF Heard
<1>7. due' = {n \in Nodes : ~Announced(n, r)'} \X {EndSleep}
  <2>1. {n \in Nodes : ~Announced(n, r)'} = Nodes
    BY <1>5
  <2> QED
    BY <1>1, <2>1
<1>8. ASSUME NEW n \in Nodes PROVE AgreeNode(n, r)'
  <2>1. Still(n)
    BY <1>1
  <2>2. Behind(n, r)' /\ Generated(n)' = 0 .. r /\ Full(n, r)'
    BY <1>3, <2>1, BehindKept, GeneratedKept, FullKept DEF Still
  <2>3. OnceOnly(n)' /\ AgreeNet(n, r)'
    BY <1>1 DEF OnceOnly, AgreeNet
  <2>4. AgreeTime(n, r)'
    BY <1>1, <1>2, <1>3, <2>1 DEF AgreeTime, Still
  <2>5. bucketHashesCheck'[n] = <<>> /\ passes'[n] = {} /\ generators'[n] = {}
    BY <1>3, <2>1 DEF Still
  <2>6. Cardinality(Heard(n, r)') = 0
    BY <1>6, FS_EmptySet
  <2>7. Heard(n, r)' # Nodes \ {n}
    BY <1>6, OtherNodes
  <2>8. Counting(n, r)'
    BY <1>2, <1>5, <2>2, <2>5, <2>6, <2>7 DEF Counting
  <2> QED
    BY <2>2, <2>3, <2>4, <2>5, <2>8 DEF AgreeSeat, AgreeNode
<1> QED
  BY <1>2, <1>4, <1>7, <1>8 DEF Agreeing

\* After the first slot of an epoch the commitments of the next round are made
LEMMA SlotCollect ==
  ASSUME TimelyNetwork, TypeOK, Unharmed, NEW r \in Nat, r >= 2, NEW k, k = 0,
         due = {n \in Nodes : slot[n] = k} \X {SlotSleep}, \A n \in Nodes : SlotNode(n, r, k),
         AdvanceClock
  PROVE  Collecting(r)'
<1>1. k \in 0 .. EpochRounds - 1 /\ k + 1 = 1 /\ k + 1 # EpochRounds
  BY Parameters DEF TimelyNetwork
<1>2. /\ \A n \in Nodes : /\ slot[n] = 1 /\ sched[n] = "slot" /\ handlers[n] = {} /\ net[n] = {}
                          /\ absRound[n] = (r - 2) * EpochRounds + 1
      /\ \A n \in Nodes : Still(n)
      /\ UNCHANGED <<net, handlers, passes, generators, announcing, dev>>
      /\ due' = Nodes \X {SlotSleep}
  BY <1>1, SlotRest
<1>3. \A n \in Nodes : /\ Behind(n, r) /\ dev[n] = EmptyStage /\ Generated(n) = 0 .. r - 1
                       /\ bucketHashesCheck[n] = <<>> /\ generators[n] = {}
                       /\ announcing[n] = {} /\ passes[n] = {}
  BY DEF SlotNode
<1>4. ~(r < 2) /\ r \notin 0 .. r - 1
  OBVIOUS
<1>5. due' = {n \in Nodes : slot'[n] = 1} \X {SlotSleep}
  <2>1. {n \in Nodes : slot'[n] = 1} = Nodes
    BY <1>2 DEF Still
  <2> QED
    BY <1>2, <2>1
<1>6. \A n \in Nodes : Made(n, r)' = {} /\ Produced(n, r)' = {} /\ Generated(n)' = 0 .. r - 1
  <2>1. \A n \in Nodes : Generated(n)' = 0 .. r - 1
    BY <1>2, <1>3, GeneratedKept DEF Still
  <2> QED
    BY <1>4, <2>1 DEF Made, Produced
<1>7. AllMade(r)' = {}
  BY <1>6, ExpectedOwn DEF AllMade
<1>8. ASSUME NEW n \in Nodes PROVE CollectNode(n, r)'
  <2>1. Still(n)
    BY <1>2
  <2>2. /\ Behind(n, r)' /\ announcing'[n] = {} /\ bucketHashesCheck'[n] = <<>>
        /\ passes'[n] = {} /\ generators'[n] = {} /\ dev'[n] = EmptyStage
    BY <1>3, <2>1, BehindKept DEF Still
  <2>3. handlers'[n] = {} /\ net'[n] = {}
    BY <1>2
  <2>4. CollectNet(n, r)'
    BY <2>3 DEF CollectNet
  <2>5. CollectGenerators(n, r)'
    BY <1>4, <2>2 DEF CollectGenerators
  <2>6. Flying(n)' = {} /\ Landing(n)' = {}
    <3>1. \A c : c \notin Flying(n)' /\ c \notin Landing(n)'
      BY <2>3, InFlightNext
    <3> QED
      BY <3>1
  <2>7. Bucket(n)' = {} /\ Len(dev'[n].bucket) = 0 /\ dev'[n].sub = {} /\ dev'[n].map = {}
    BY <2>2 DEF Bucket, EmptyStage, Range
  <2>8. CollectBucket(n, r)'
    BY <1>6, <1>7, <2>6, <2>7, FS_EmptySet DEF CollectBucket
  <2>9. CollectTime(n, r)'
    BY <1>2, <1>4, <2>1 DEF CollectTime, Still
  <2>10. CollectMust(n, r)'
    <3>1. slot'[n] = 1
      BY <1>2, <2>1 DEF Still
    <3> QED
      BY <1>4, <3>1 DEF CollectMust, Must
  <2> QED
    BY <1>6, <2>2, <2>4, <2>5, <2>8, <2>9, <2>10 DEF CollectNode
<1> QED
  BY <1>4, <1>5, <1>8 DEF Collecting

LEMMA SlotStep ==
  ASSUME TimelyNetwork, TypeOK, Solo, Unharmed, NEW r \in Nat, Slots(r), Next
  PROVE  Unharmed' /\ (Slots(r)' \/ Agreeing(r)' \/ Collecting(r)')
<1>1. PICK k \in 0 .. EpochRounds - 1 :
        /\ r >= 2 /\ k # 1 /\ due = {n \in Nodes : slot[n] = k} \X {SlotSleep}
        /\ \A n \in Nodes : SlotNode(n, r, k)
  BY DEF Slots
<1>2. \A n \in Nodes : /\ InitOnly(n) /\ OnceOnly(n) /\ generators[n] = {} /\ passes[n] = {}
                       /\ announcing[n] = {} /\ 0 \in Generated(n) /\ sched[n] # "idle"
  BY <1>1 DEF SlotNode
<1>3. Unharmed'
  <2>1. \A n \in Nodes : \A m \in net[n] : ~FailBucketCheck(n, m)
    BY <1>2, MessageKinds DEF InitOnly
  <2>2. \A n \in Nodes : \A h \in handlers[n] : ~CheckRound(n, h)
    BY <1>2 DEF OnceOnly, CheckRound
  <2> QED
    BY <2>1, <2>2, Harmless
<1>4. CASE StartBlockchain
  BY <1>3, <1>4, StartIsInitStep, SlotInitStep
<1>5. CASE AdvanceClock
  <2>1. CASE k = 0
    BY <1>1, <1>3, <1>5, <2>1, SlotCollect
  <2>2. CASE k + 1 = EpochRounds
    BY <1>1, <1>3, <1>5, <2>2, SlotEnd
  <2>3. CASE k # 0 /\ k + 1 # EpochRounds
    BY <1>1, <1>3, <1>5, <2>3, SlotNext
  <2> QED
    BY <2>1, <2>2, <2>3
<1>6. ASSUME NEW n \in Nodes, NodeStep(n)
      PROVE  Slots(r)'
  <2>1. \A m \in net[n] : m.type = "init" /\ m.round = 0
    BY <1>2 DEF InitOnly
  <2>2. ASSUME NEW m \in net[n], ReceiveInit(n, m)
        PROVE  Slots(r)'
    BY <2>1, <2>2, ReceiveIsInitStep, SlotInitStep
  <2>3. \A m \in net[n] : /\ ~ReceiveCommitment(n, m) /\ ~RetryBucketCheck(n, m)
                          /\ ~DropBucketCheck(n, m) /\ ~CountBucketCheck(n, m)
                          /\ ~CompleteBucketCheck(n, m) /\ ~FailBucketCheck(n, m)
    BY <2>1, MessageKinds
  <2>4. \A h \in handlers[n] : h.pc = "once" /\ h.round = 0
    BY <1>2 DEF OnceOnly
  <2>5. ASSUME NEW h \in handlers[n], CheckGenerated(n, h)
        PROVE  Slots(r)'
    BY <1>2, <2>4, <2>5, OnceIsInitStep, SlotInitStep
  <2>6. \A h \in handlers[n] : /\ ~InsertCommitment(n, h) /\ ~CheckRound(n, h)
                               /\ ~MarkGenerated(n, h)
    BY <2>4 DEF InsertCommitment, CheckRound, MarkGenerated
  <2>7. GenerateBlocks(n) => Slots(r)'
    BY SlotBlocks
  <2>8. ~EndEpoch(n)
    <3>1. SlotSleep # EndSleep
      BY DEF SlotSleep, EndSleep
    <3>2. \A s : MayWake(<<n, s>>) => s = SlotSleep
      BY <1>1, Awakened
    <3> QED
      BY <3>1, <3>2 DEF EndEpoch
  <2>9. ~StartSchedule(n)
    BY <1>2 DEF StartSchedule, MayStartSchedule
  <2>10. generators[n] = {} /\ announcing[n] = {} /\ passes[n] = {}
    BY <1>2
  <2> QED
    BY <1>6, <2>2, <2>3, <2>5, <2>6, <2>7, <2>8, <2>9, <2>10, Steps
<1> QED
  BY <1>3, <1>4, <1>5, <1>6 DEF Next

-----------------------------------------------------------------------------
(* Who leads *)

\* A number is split by a divisor in one way
LEMMA Division ==
  ASSUME NEW m \in Nat \ {0}, NEW e \in Nat, NEW d \in Nat,
         NEW k \in 0 .. m - 1, NEW j \in 0 .. m - 1, e * m + k = d * m + j
  PROVE  e = d /\ k = j
<1>1. ASSUME NEW a \in Nat, NEW b \in Nat, NEW i \in 0 .. m - 1, NEW l \in 0 .. m - 1,
             a < b, a * m + i = b * m + l
      PROVE  FALSE
  <2>1. PICK t \in Nat : b = a + 1 + t
    <3>1. b - a - 1 \in Nat /\ b = a + 1 + (b - a - 1)
      BY <1>1
    <3> QED
      BY <3>1
  <2>2. a * m \in Nat /\ t * m \in Nat /\ b * m \in Nat
    OBVIOUS
  <2>3. b * m = a * m + m + t * m
    BY <2>1
  <2> QED
    BY <1>1, <2>2, <2>3
<1>2. e = d
  <2>1. e < d \/ d < e \/ e = d
    OBVIOUS
  <2> QED
    BY <1>1, <2>1
<1>3. e * m \in Nat /\ d * m = e * m
  BY <1>2
<1> QED
  BY <1>2, <1>3

LEMMA TurnOnce ==
  ASSUME NEW col, NEW e \in Nat, NEW k \in Nat, NEW d \in Nat, NEW j \in Nat,
         Turn(col, e, k), Turn(col, d, j)
  PROVE  e = d /\ k = j
<1>1. /\ k \in 0 .. EpochRounds - 1 /\ j \in 0 .. EpochRounds - 1 /\ EpochRounds \in Nat \ {0}
      /\ e * EpochRounds \in Nat /\ d * EpochRounds \in Nat
      /\ e * EpochRounds + k + 1 = d * EpochRounds + j + 1
  BY Parameters DEF Turn
<1>2. e * EpochRounds + k = d * EpochRounds + j
  BY <1>1
<1> QED
  BY <1>1, <1>2, Division

\* The map of the running epoch only grows
LEMMA RunGrows ==
  ASSUME TypeOK, Next, NEW n \in Nodes
  PROVE  run[n].map \subseteq run'[n].map
<1>1. run \in [Nodes -> Stage]
  BY DEF TypeOK
<1>2. CASE run' = run
  BY <1>2
<1>3. CASE run' # run
  <2>1. PICK k \in Nodes : \E p \in passes[k] : PassToEpochRunning(k, p)
    <3>1. ~StartBlockchain /\ ~AdvanceClock
      BY <1>3 DEF StartBlockchain, AdvanceClock, stageVars
    <3>2. PICK k \in Nodes : NodeStep(k)
      BY <3>1 DEF Next
    <3>3. \A m : /\ ~ReceiveInit(k, m) /\ ~ReceiveCommitment(k, m) /\ ~RetryBucketCheck(k, m)
                 /\ ~DropBucketCheck(k, m) /\ ~CountBucketCheck(k, m)
                 /\ ~CompleteBucketCheck(k, m) /\ ~FailBucketCheck(k, m)
      BY <1>3 DEF ReceiveInit, ReceiveCommitment, RetryBucketCheck, DropBucketCheck,
                  CountBucketCheck, CompleteBucketCheck, FailBucketCheck, stageVars
    <3>4. \A h : /\ ~InsertCommitment(k, h) /\ ~CheckRound(k, h) /\ ~CheckGenerated(k, h)
                 /\ ~MarkGenerated(k, h)
      BY <1>3 DEF InsertCommitment, CheckRound, CheckGenerated, MarkGenerated, stageVars
    <3>5. \A g : /\ ~ProduceCommitment(k, g) /\ ~StoreCommitment(k, g) /\ ~InitBucketInfo(k, g)
                 /\ ~AnnounceBucket(k, g)
      BY <1>3 DEF ProduceCommitment, StoreCommitment, InitBucketInfo, AnnounceBucket, stageVars
    <3>6. \A p : /\ ~EndPause(k, p) /\ ~CopyBucket(k, p) /\ ~CopyRest(k, p) /\ ~BumpRound(k, p)
                 /\ ~ClearChecks(k, p) /\ ~ResetDev(k, p) /\ ~StartNextRound(k, p)
      BY <1>3 DEF EndPause, CopyBucket, CopyRest, BumpRound, ClearChecks, ResetDev,
                  StartNextRound, stageVars
    <3>7. ~StartSchedule(k) /\ ~GenerateBlocks(k) /\ ~EndEpoch(k)
      BY <1>3 DEF StartSchedule, GenerateBlocks, EndEpoch, stageVars
    <3> QED
      BY <3>2, <3>3, <3>4, <3>5, <3>6, <3>7, Steps
  <2>2. run' = [run EXCEPT ![k] = [rdy[k] EXCEPT !.map = run[k].map \cup @]]
    BY <2>1 DEF PassToEpochRunning
  <2>3. CASE n # k
    BY <1>1, <2>2, <2>3
  <2>4. CASE n = k
    <3>1. rdy[k] \in Stage
      BY DEF TypeOK
    <3>2. run'[k].map = run[k].map \cup rdy[k].map
      BY <1>1, <2>2, <3>1 DEF Stage
    <3> QED
      BY <2>4, <3>2
  <2> QED
    BY <2>3, <2>4
<1> QED
  BY <1>2, <1>3

\* Only the schedule counts slots and leads
LEMMA OnlyBlocksLead ==
  ASSUME Next, \A n \in Nodes : ~GenerateBlocks(n)
  PROVE  leads' = leads /\ absRound' = absRound
<1>1. CASE StartBlockchain
  BY <1>1 DEF StartBlockchain, scheduleVars
<1>2. CASE AdvanceClock
  BY <1>2 DEF AdvanceClock, scheduleVars
<1>3. ASSUME NEW k \in Nodes, NodeStep(k)
      PROVE  leads' = leads /\ absRound' = absRound
  <2>1. ASSUME NEW m \in net[k],
               \/ ReceiveInit(k, m) \/ ReceiveCommitment(k, m) \/ RetryBucketCheck(k, m)
               \/ DropBucketCheck(k, m) \/ CountBucketCheck(k, m) \/ CompleteBucketCheck(k, m)
               \/ FailBucketCheck(k, m)
        PROVE  leads' = leads /\ absRound' = absRound
    BY <2>1 DEF ReceiveInit, ReceiveCommitment, RetryBucketCheck, DropBucketCheck,
                CountBucketCheck, CompleteBucketCheck, FailBucketCheck, scheduleVars
  <2>2. ASSUME NEW h \in handlers[k],
               \/ InsertCommitment(k, h) \/ CheckRound(k, h)
               \/ CheckGenerated(k, h) \/ MarkGenerated(k, h)
        PROVE  leads' = leads /\ absRound' = absRound
    BY <2>2 DEF InsertCommitment, CheckRound, CheckGenerated, MarkGenerated, scheduleVars
  <2>3. ASSUME NEW g, \/ ProduceCommitment(k, g) \/ StoreCommitment(k, g) \/ InitBucketInfo(k, g)
                      \/ AnnounceBucket(k, g)
        PROVE  leads' = leads /\ absRound' = absRound
    BY <2>3 DEF ProduceCommitment, StoreCommitment, InitBucketInfo, AnnounceBucket, scheduleVars
  <2>4. ASSUME NEW p \in passes[k],
               \/ PassToEpochRunning(k, p) \/ EndPause(k, p) \/ CopyBucket(k, p) \/ CopyRest(k, p)
               \/ BumpRound(k, p) \/ ClearChecks(k, p) \/ ResetDev(k, p) \/ StartNextRound(k, p)
        PROVE  leads' = leads /\ absRound' = absRound
    BY <2>4 DEF PassToEpochRunning, EndPause, CopyBucket, CopyRest, BumpRound, ClearChecks,
                ResetDev, StartNextRound, scheduleVars
  <2>5. StartSchedule(k) \/ EndEpoch(k) => leads' = leads /\ absRound' = absRound
    BY DEF StartSchedule, EndEpoch
  <2> QED
    BY <1>3, <2>1, <2>2, <2>3, <2>4, <2>5, Steps
<1> QED
  BY <1>1, <1>2, <1>3 DEF Next

\* The epoch and the slot a node is in when its schedule makes blocks
LEMMA BlocksWhen ==
  ASSUME TimelyNetwork, TypeOK, Unharmed, Pausing \/ \E r \in Nat : Period(r),
         NEW n \in Nodes, GenerateBlocks(n)
  PROVE  \E e \in Nat, k \in 0 .. EpochRounds - 1 :
           /\ slot[n] = k /\ absRound[n] = e * EpochRounds + k
           /\ \A m \in Nodes : Running(m, e)
<1>1. sched[n] = "slot" /\ MayWake(<<n, SlotSleep>>)
  BY BlocksMade
<1>2. ~Pausing
  <2>1. SlotSleep # PausePass
    BY DEF SlotSleep, PausePass
  <2> QED
    BY <1>1, <2>1, Awakened DEF Pausing
<1>3. PICK r \in Nat : Period(r)
  BY <1>2
<1>4. ~Sorting(r)
  BY <1>1 DEF Sorting, Unscheduled
<1>5. ~Agreeing(r)
  <2>1. SlotSleep # Ann(r) /\ SlotSleep # EndSleep
    BY DEF SlotSleep, Ann, EndSleep
  <2>2. Agreeing(r) => \E S : due = S \X {Ann(r)} \/ due = S \X {EndSleep}
    BY DEF Agreeing
  <2> QED
    BY <1>1, <2>1, <2>2, Awakened
<1>6. \A e, k \in Nat : r >= 2 /\ e = r - 2 /\ (\A m \in Nodes : Behind(m, r))
          => \A m \in Nodes : Running(m, e)
  BY DEF Behind
<1>7. CASE Collecting(r)
  <2>1. CollectTime(n, r) /\ \A m \in Nodes : Behind(m, r)
    BY <1>7 DEF Collecting, CollectNode
  <2>2. ~(r < 2) /\ r - 2 \in Nat
    BY <1>1, <2>1 DEF CollectTime, Unscheduled
  <2>3. due = {m \in Nodes : slot[m] = 1} \X {SlotSleep}
    BY <1>7, <2>2 DEF Collecting
  <2>4. slot[n] = 1
    <3>1. n \in {m \in Nodes : slot[m] = 1}
      BY <1>1, <2>3, Awakened
    <3> QED
      BY <3>1
  <2>5. absRound[n] = (r - 2) * EpochRounds + 1
    BY <2>1, <2>2, <2>4 DEF CollectTime
  <2>6. 1 \in 0 .. EpochRounds - 1
    BY Parameters DEF TimelyNetwork
  <2> QED
    BY <1>6, <2>1, <2>2, <2>4, <2>5, <2>6
<1>8. CASE Slots(r)
  <2>1. PICK k \in 0 .. EpochRounds - 1 :
          /\ r >= 2 /\ due = {m \in Nodes : slot[m] = k} \X {SlotSleep}
          /\ \A m \in Nodes : SlotNode(m, r, k)
    BY <1>8 DEF Slots
  <2>2. slot[n] = k
    <3>1. n \in {m \in Nodes : slot[m] = k}
      BY <1>1, <2>1, Awakened
    <3> QED
      BY <3>1
  <2>3. absRound[n] = (r - 2) * EpochRounds + k /\ \A m \in Nodes : Behind(m, r)
    BY <2>1, <2>2 DEF SlotNode
  <2>4. r - 2 \in Nat /\ k \in Nat
    BY <2>1
  <2> QED
    BY <1>6, <2>1, <2>2, <2>3, <2>4
<1> QED
  BY <1>3, <1>4, <1>5, <1>7, <1>8 DEF Period

LEMMA LeadsStep ==
  ASSUME TimelyNetwork, TypeOK, Unharmed, Pausing \/ \E r \in Nat : Period(r), LeadsInv, Next
  PROVE  LeadsInv'
<1>1. \A n \in Nodes : run[n].map \subseteq run'[n].map
  BY RunGrows
<1>2. CASE \A n \in Nodes : ~GenerateBlocks(n)
  <2>1. leads' = leads /\ absRound' = absRound
    BY <1>2, OnlyBlocksLead
  <2>2. \A n, col : Served(n, col) => Served(n, col)'
    BY <2>1 DEF Served
  <2> QED
    BY <1>1, <2>1, <2>2 DEF LeadsInv
<1>3. ASSUME NEW n \in Nodes, GenerateBlocks(n)
      PROVE  LeadsInv'
  <2>1. PICK e \in Nat, k \in 0 .. EpochRounds - 1 :
          /\ slot[n] = k /\ absRound[n] = e * EpochRounds + k
          /\ \A m \in Nodes : Running(m, e)
    BY <1>3, BlocksWhen
  <2>2. leads' = leads \cup Led(n) /\ absRound' = [absRound EXCEPT ![n] = @ + 1]
    BY <1>3, BlocksMade
  <2>3. /\ absRound[n] \in Nat /\ absRound'[n] = absRound[n] + 1
        /\ \A m \in Nodes \ {n} : absRound'[m] = absRound[m]
    BY <2>2 DEF TypeOK
  <2>4. Turn(absRound[n] + 1, e, k)
    <3>1. e * EpochRounds \in Nat /\ k \in Nat
      BY Parameters
    <3> QED
      BY <2>1, <3>1 DEF Turn
  <2>5. /\ Real(e) /\ run[n].bucket = Order(e)
        /\ run[n].pos = {i \in DOMAIN Order(e) : Order(e)[i] \in Own(n, e)}
        /\ \A m \in Nodes : Expected(e) \subseteq run[m].map
    <3>1. ~(e < 0) /\ e \in 0 .. e
      OBVIOUS
    <3>2. \A m \in Nodes : /\ Real(e) /\ run[m].bucket = Order(e) /\ run[m].pos = Final(m, e).pos
                           /\ Expected(e) \subseteq run[m].map
      BY <2>1, <3>1 DEF Running
    <3> QED
      BY <3>2 DEF Final
  <2>6. \A row \in 0 .. ParallelLen - 1 : Index(n, row) = Place(k, row)
    <3>1. ParallelLen * k = k * ParallelLen
      BY Parameters
    <3> QED
      BY <2>1, <3>1 DEF Index, Place
  <2>7. \A row \in 0 .. ParallelLen - 1 :
          row \in LedRows(n) <=> /\ Place(k, row) \in DOMAIN Order(e)
                                 /\ Order(e)[Place(k, row)][1] = n
    <3>1. \A i \in DOMAIN Order(e) : Order(e)[i] \in Own(n, e) <=> Order(e)[i][1] = n
      BY <2>5, OwnPlaces
    <3> QED
      BY <2>5, <2>6, <3>1 DEF LedRows
  <2>8. ASSUME NEW x \in Led(n)
        PROVE  Rightful(x) /\ \A m \in Nodes : x.c \in run[m].map
    <3>1. PICK row \in LedRows(n) :
            x = [col |-> absRound[n] + 1, row |-> row, node |-> n, c |-> run[n].bucket[Index(n, row)]]
      BY DEF Led
    <3>2. row \in 0 .. ParallelLen - 1
      BY DEF LedRows
    <3>3. /\ Place(k, row) \in DOMAIN Order(e) /\ Order(e)[Place(k, row)][1] = n
          /\ x.col = absRound[n] + 1 /\ x.row = row /\ x.node = n
          /\ x.c = Order(e)[Place(k, row)]
      BY <2>5, <2>6, <2>7, <3>1, <3>2
    <3>4. x.c \in Expected(e)
      BY <2>5, <3>3, OrderFacts DEF Range
    <3> QED
      BY <2>4, <2>5, <3>2, <3>3, <3>4 DEF Rightful
  <2>9. \A m, col : Served(m, col) => Served(m, col)'
    BY <2>2 DEF Served
  <2>n. PICK next : next = absRound[n] + 1
    OBVIOUS
  <2>10. Served(n, next)'
    <3> SUFFICES ASSUME NEW d \in Nat, NEW j \in Nat, Turn(next, d, j)
                 PROVE  /\ Real(d)
                        /\ \A row \in 0 .. ParallelLen - 1 :
                             Place(j, row) \in DOMAIN Order(d) /\ Order(d)[Place(j, row)][1] = n =>
                               \E x \in leads' : x.col = next /\ x.row = row
      BY DEF Served
    <3>1. d = e /\ j = k
      BY <2>n, <2>4, TurnOnce
    <3>2. ASSUME NEW row \in 0 .. ParallelLen - 1,
                 Place(k, row) \in DOMAIN Order(e), Order(e)[Place(k, row)][1] = n
          PROVE  \E x \in leads' : x.col = next /\ x.row = row
      <4>1. row \in LedRows(n)
        BY <2>7, <3>2
      <4>2. [col |-> absRound[n] + 1, row |-> row, node |-> n,
             c |-> run[n].bucket[Index(n, row)]] \in Led(n)
        BY <4>1 DEF Led
      <4> QED
        BY <2>n, <2>2, <4>2
    <3> QED
      BY <2>5, <3>1, <3>2
  <2>11. \A m \in Nodes : \A col \in 1 .. absRound'[m] : Served(m, col)'
    <3>1. \A m \in Nodes : \A col \in 1 .. absRound[m] : Served(m, col)'
      BY <2>9 DEF LeadsInv
    <3>2. \A col \in 1 .. absRound'[n] : col \in 1 .. absRound[n] \/ col = next
      BY <2>n, <2>3
    <3> QED
      BY <2>3, <2>10, <3>1, <3>2
  <2> QED
    BY <1>1, <2>2, <2>8, <2>11 DEF LeadsInv
<1> QED
  BY <1>2, <1>3

-----------------------------------------------------------------------------
(* The invariant of a timely network *)

LEMMA TimelyInit ==
  ASSUME TimelyNetwork, Init
  PROVE  TimelyInv
<1>1. TypeOK
  BY InitType
<1>2. \A n \in Nodes :
        /\ net[n] = {} /\ alive[n] /\ commitmentGenEpochRound[n] = 0 /\ ~commitmentRoundMutex[n]
        /\ epochRoundsGenerated[n] = <<>> /\ bucketHashesCheck[n] = <<>>
        /\ dev[n] = EmptyStage /\ rdy[n] = EmptyStage /\ run[n] = EmptyStage
        /\ handlers[n] = {} /\ passes[n] = {} /\ generators[n] = {} /\ announcing[n] = {}
        /\ sched[n] = "idle" /\ slot[n] = 0 /\ absRound[n] = 0
  BY DEF Init
<1>3. leads = {} /\ due = {}
  BY DEF Init
<1>4. Solo
  BY <1>2 DEF Solo, Work
<1>5. Unharmed
  BY <1>2 DEF Unharmed
<1>6. LeadsInv
  BY <1>2, <1>3 DEF LeadsInv
<1>7. \A n \in Nodes : Generated(n) = {} /\ Made(n, 0) = {} /\ Produced(n, 0) = {}
  <2>1. \A n \in Nodes : Generated(n) = {}
    BY <1>2 DEF Generated, Range
  <2> QED
    BY <2>1 DEF Made, Produced
<1>8. AllMade(0) = {}
  BY <1>7, ExpectedOwn DEF AllMade
<1>9. ASSUME NEW n \in Nodes PROVE CollectNode(n, 0)
  <2>1. Behind(n, 0)
    BY <1>2 DEF Behind, Ready, Running
  <2>2. CollectNet(n, 0) /\ CollectGenerators(n, 0)
    BY <1>2, <1>7 DEF CollectNet, CollectGenerators
  <2>3. Flying(n) = {} /\ Landing(n) = {}
    <3>1. \A c : c \notin Flying(n) /\ c \notin Landing(n)
      BY <1>2, InFlight
    <3> QED
      BY <3>1
  <2>4. Bucket(n) = {} /\ Len(dev[n].bucket) = 0 /\ dev[n].sub = {} /\ dev[n].map = {}
    BY <1>2 DEF Bucket, EmptyStage, Range
  <2>5. CollectBucket(n, 0)
    BY <1>7, <1>8, <2>3, <2>4, FS_EmptySet DEF CollectBucket
  <2>6. CollectTime(n, 0)
    BY <1>2 DEF CollectTime, Unscheduled
  <2>7. CollectMust(n, 0)
    BY <2>4 DEF CollectMust, Must
  <2>8. {} = 0 .. 0 - 1
    OBVIOUS
  <2> QED
    BY <1>2, <1>7, <2>1, <2>2, <2>5, <2>6, <2>7, <2>8 DEF CollectNode
<1>10. due = {n \in Nodes : passes[n] # {}} \X {NextPass}
  <2>1. {n \in Nodes : passes[n] # {}} = {}
    BY <1>2
  <2> QED
    BY <1>3, <2>1
<1>11. Collecting(0)
  BY <1>9, <1>10 DEF Collecting
<1> QED
  BY <1>1, <1>4, <1>5, <1>6, <1>11 DEF TimelyInv, Period

LEMMA PeriodStep ==
  ASSUME TimelyNetwork, TypeOK, Solo, Unharmed, Pausing \/ \E r \in Nat : Period(r), Next
  PROVE  Unharmed' /\ (Pausing' \/ \E r \in Nat : Period(r)')
<1>1. CASE Pausing
  <2>1. Unharmed' /\ (Pausing' \/ Slots(2)')
    BY <1>1, PauseStep
  <2> QED
    BY <2>1 DEF Period
<1>2. CASE ~Pausing
  <2>1. PICK r \in Nat : Period(r)
    BY <1>2
  <2>2. r + 1 \in Nat
    OBVIOUS
  <2>3. CASE Collecting(r)
    <3>1. Unharmed' /\ (Collecting(r)' \/ Sorting(r)' \/ Slots(r)')
      BY <2>3, CollectStep
    <3> QED
      BY <3>1 DEF Period
  <2>4. CASE Sorting(r)
    <3>1. Unharmed' /\ (Sorting(r)' \/ Agreeing(r)')
      BY <2>4, SortStep
    <3> QED
      BY <3>1 DEF Period
  <2>5. CASE Agreeing(r)
    <3>1. Unharmed' /\ (Agreeing(r)' \/ Collecting(1)' \/ Pausing' \/ Slots(r + 1)')
      BY <2>5, AgreeStep
    <3> QED
      BY <2>2, <3>1 DEF Period
  <2>6. CASE Slots(r)
    <3>1. Unharmed' /\ (Slots(r)' \/ Agreeing(r)' \/ Collecting(r)')
      BY <2>6, SlotStep
    <3> QED
      BY <3>1 DEF Period
  <2> QED
    BY <2>1, <2>3, <2>4, <2>5, <2>6 DEF Period
<1> QED
  BY <1>1, <1>2

LEMMA TimelyStep ==
  ASSUME TimelyNetwork, TimelyInv, [Next]_vars
  PROVE  TimelyInv'
<1>1. /\ TypeOK /\ Solo /\ Unharmed /\ LeadsInv
      /\ Pausing \/ \E r \in Nat : Period(r)
  BY DEF TimelyInv
<1>2. CASE Next
  <2>1. TypeOK'
    BY <1>1, <1>2, TypeStep
  <2>2. Solo'
    BY <1>1, <1>2, SoloStep
  <2>3. Unharmed' /\ (Pausing' \/ \E r \in Nat : Period(r)')
    BY <1>1, <1>2, PeriodStep
  <2>4. LeadsInv'
    BY <1>1, <1>2, LeadsStep
  <2> QED
    BY <2>1, <2>2, <2>3, <2>4 DEF TimelyInv
<1>3. CASE UNCHANGED vars
  <2>1. UNCHANGED <<net, starts, sentChecks, alive, commitmentGenEpochRound, commitmentRoundMutex,
                    epochRoundsGenerated, bucketHashesCheck, dev, rdy, run, rdyEpochRound,
                    runEpochRound, handlers, passes, generators, announcing, sched, slot,
                    absRound, leads, due>>
    BY <1>3 DEF vars, networkVars, roundVars, stageVars, threadVars, scheduleVars
  <2>2. TypeOK' /\ Solo' /\ Unharmed' /\ LeadsInv'
    <3>1. TypeOK'
      BY <1>1, <2>1 DEF TypeOK
    <3>2. Solo'
      BY <1>1, <2>1 DEF Solo, Work
    <3>3. Unharmed' /\ LeadsInv'
      BY <1>1, <2>1 DEF Unharmed, LeadsInv, Served
    <3> QED
      BY <3>1, <3>2, <3>3
  <2>3. InitStep
    BY <1>3, <2>1 DEF InitStep, roundVars, stageVars, scheduleVars
  <2>4. CASE Pausing
    BY <2>2, <2>3, <2>4, PauseInitStep DEF TimelyInv
  <2>5. CASE ~Pausing
    <3>1. PICK r \in Nat : Period(r)
      BY <1>1, <2>5
    <3>2. Collecting(r) => Collecting(r)'
      BY <1>1, <2>1, <2>3, CollectInitStep
    <3>3. Sorting(r) => Sorting(r)'
      BY <2>3, SortInitStep
    <3>4. Agreeing(r) => Agreeing(r)'
      BY <2>3, AgreeInitStep
    <3>5. Slots(r) => Slots(r)'
      BY <2>3, SlotInitStep
    <3> QED
      BY <2>2, <3>1, <3>2, <3>3, <3>4, <3>5 DEF TimelyInv, Period
  <2> QED
    BY <2>4, <2>5
<1> QED
  BY <1>2, <1>3

LEMMA TimelyInvariant ==
  ASSUME TimelyNetwork
  PROVE  Spec => []TimelyInv
<1>1. Init => TimelyInv
  BY TimelyInit
<1>2. TimelyInv /\ [Next]_vars => TimelyInv'
  BY TimelyStep
<1> QED
  BY <1>1, <1>2, PTL DEF Spec

\* What runs on a node, whatever the period
LEMMA WhatRuns ==
  ASSUME TypeOK, Pausing \/ \E r \in Nat : Period(r), NEW n \in Nodes
  PROVE  \/ run[n] = EmptyStage /\ ~(commitmentGenEpochRound[n] >= 2)
         \/ \E q \in Nat : Running(n, q)
<1> DEFINE Fits == \/ run[n] = EmptyStage /\ ~(commitmentGenEpochRound[n] >= 2)
                   \/ \E q \in Nat : Running(n, q)
<1> SUFFICES Fits
  OBVIOUS
<1>1. ASSUME NEW r \in Nat, Behind(n, r) PROVE Fits
  <2>1. CASE r < 2
    <3>1. r - 2 < 0
      BY <2>1
    <3> QED
      BY <1>1, <2>1, <3>1 DEF Behind, Running
  <2>2. CASE ~(r < 2)
    <3>1. r - 2 \in Nat
      BY <2>2
    <3> QED
      BY <1>1, <3>1 DEF Behind
  <2> QED
    BY <2>1, <2>2
<1>2. ASSUME NEW r \in Nat, commitmentGenEpochRound[n] = r, Running(n, r - 1) PROVE Fits
  <2>1. CASE r = 0
    <3>1. r - 1 < 0
      BY <2>1
    <3> QED
      BY <1>2, <2>1, <3>1 DEF Running
  <2>2. CASE r # 0
    <3>1. r - 1 \in Nat
      BY <2>2
    <3> QED
      BY <1>2, <3>1
  <2> QED
    BY <2>1, <2>2
<1> HIDE DEF Fits
<1>3. ASSUME NEW r \in Nat, NEW pcs, Passing(n, r, pcs) PROVE Fits
  <2>1. PICK p \in passes[n] : PassAt(n, r, p)
    BY <1>3 DEF Passing
  <2>2. Behind(n, r) \/ Behind(n, r + 1) \/ (commitmentGenEpochRound[n] = r /\ Running(n, r - 1))
    BY <2>1 DEF PassAt
  <2> QED
    BY <1>1, <1>2, <2>2
<1>4. ASSUME NEW r \in Nat, Passed(n, r) PROVE Fits
  <2>1. Behind(n, r + 1) /\ r + 1 \in Nat
    BY <1>4 DEF Passed
  <2> QED
    BY <1>1, <2>1
<1>5. CASE Pausing
  BY <1>3, <1>4, <1>5 DEF Pausing, PauseNode
<1>6. CASE ~Pausing
  <2>1. PICK r \in Nat : Period(r)
    BY <1>6
  <2>2. CASE Collecting(r)
    BY <1>1, <2>2 DEF Collecting, CollectNode
  <2>3. CASE Sorting(r)
    BY <1>1, <2>3 DEF Sorting
  <2>4. CASE Agreeing(r)
    <3>1. AgreeSeat(n, r)
      BY <2>4 DEF Agreeing, AgreeNode
    <3>2. Counting(n, r) \/ Passing(n, r, AgreePasses(r)) \/ Passed(n, r)
      BY <3>1 DEF AgreeSeat
    <3>3. Counting(n, r) => Behind(n, r)
      BY DEF Counting
    <3> QED
      BY <1>1, <1>3, <1>4, <3>2, <3>3
  <2>5. CASE Slots(r)
    BY <1>1, <2>5 DEF Slots, SlotNode
  <2> QED
    BY <2>1, <2>2, <2>3, <2>4, <2>5 DEF Period
<1> QED
  BY <1>5, <1>6

(***************************************************************************)
(* In a timely network with at least two nodes and three slots per epoch,  *)
(* nodes that run the same epoch run the same bucket, and it holds exactly *)
(* the commitments of that epoch round, whatever their number.             *)
(***************************************************************************)
THEOREM ScheduleIsAgreed ==
  ASSUME TimelyNetwork
  PROVE  Spec => []ScheduleAgreed
<1>1. TimelyInv => ScheduleAgreed
  <2> SUFFICES ASSUME TimelyInv, NEW n \in Nodes, NEW m \in Nodes,
                      commitmentGenEpochRound[n] >= 2, commitmentGenEpochRound[m] >= 2,
                      runEpochRound[n] = runEpochRound[m]
               PROVE  /\ run[n].bucket = run[m].bucket
                      /\ Range(run[n].bucket) = Expected(runEpochRound[n])
    BY DEF ScheduleAgreed
  <2>1. PICK q \in Nat : Running(n, q)
    BY WhatRuns DEF TimelyInv
  <2>2. PICK s \in Nat : Running(m, s)
    BY WhatRuns DEF TimelyInv
  <2>3. ~(q < 0) /\ ~(s < 0)
    OBVIOUS
  <2>4. /\ Real(q) /\ runEpochRound[n] = q /\ run[n].bucket = Order(q)
        /\ runEpochRound[m] = s /\ run[m].bucket = Order(s)
    BY <2>1, <2>2, <2>3 DEF Running
  <2>5. Range(Order(q)) = Expected(q)
    BY <2>4, OrderFacts
  <2> QED
    BY <2>4, <2>5
<1> QED
  BY <1>1, TimelyInvariant, PTL

(***************************************************************************)
(* There, the positions of the running epoch are those of the node's own   *)
(* commitments, and the map that BCHAIN_BLOCK asks holds every commitment  *)
(* of the running bucket and, on every node, each one that a block has     *)
(* revealed so far: no node drops such a block.                            *)
(***************************************************************************)
THEOREM BlocksAreRecognised ==
  ASSUME TimelyNetwork
  PROVE  Spec => []BlocksRecognised
<1>1. TimelyInv => BlocksRecognised
  <2> SUFFICES ASSUME TimelyInv PROVE BlocksRecognised
    OBVIOUS
  <2>1. ASSUME NEW n \in Nodes
        PROVE  OwnPositions(run[n]) /\ Range(run[n].bucket) \subseteq run[n].map
    <3>1. CASE run[n] = EmptyStage
      BY <3>1 DEF EmptyStage, OwnPositions, Range
    <3>2. CASE run[n] # EmptyStage
      <4>1. PICK q \in Nat : Running(n, q)
        BY <3>2, WhatRuns DEF TimelyInv
      <4>2. ~(q < 0) /\ q \in 0 .. q
        OBVIOUS
      <4>3. /\ Real(q) /\ run[n].sub = Own(n, q) /\ run[n].bucket = Order(q)
            /\ run[n].pos = Final(n, q).pos /\ Expected(q) \subseteq run[n].map
        BY <4>1, <4>2 DEF Running
      <4>4. Range(Order(q)) = Expected(q)
        BY <4>3, OrderFacts
      <4> QED
        BY <4>3, <4>4 DEF OwnPositions, Final
    <3> QED
      BY <3>1, <3>2
  <2>2. \A x \in leads, n \in Nodes : x.c \in run[n].map
    BY DEF TimelyInv, LeadsInv
  <2> QED
    BY <2>1, <2>2 DEF BlocksRecognised
<1> QED
  BY <1>1, TimelyInvariant, PTL

(***************************************************************************)
(* There, a row of a column has one leader, who reveals a commitment of    *)
(* its own, and no commitment is revealed in two slots of any two epochs.  *)
(***************************************************************************)
THEOREM OneLeaderPerRow ==
  ASSUME TimelyNetwork
  PROVE  Spec => []OneLeaderOneSecret
<1>1. TimelyInv => OneLeaderOneSecret
  <2> SUFFICES ASSUME TimelyInv PROVE OneLeaderOneSecret
    OBVIOUS
  <2>1. \A x \in leads : x.node = x.c[1]
    BY DEF TimelyInv, LeadsInv, Rightful
  <2>2. ASSUME NEW x \in leads, NEW y \in leads
        PROVE  (x.col = y.col /\ x.row = y.row) <=> x.c = y.c
    <3>1. PICK e \in Nat, k \in Nat :
            /\ Turn(x.col, e, k) /\ Real(e) /\ Place(k, x.row) \in DOMAIN Order(e)
            /\ x.c = Order(e)[Place(k, x.row)]
      BY DEF TimelyInv, LeadsInv, Rightful
    <3>2. PICK d \in Nat, j \in Nat :
            /\ Turn(y.col, d, j) /\ Real(d) /\ Place(j, y.row) \in DOMAIN Order(d)
            /\ y.c = Order(d)[Place(j, y.row)]
      BY DEF TimelyInv, LeadsInv, Rightful
    <3>3. x.row \in 0 .. ParallelLen - 1 /\ y.row \in 0 .. ParallelLen - 1
      BY DEF TimelyInv, LeadsInv, Rightful
    <3>4. ASSUME x.col = y.col, x.row = y.row PROVE x.c = y.c
      <4>1. e = d /\ k = j
        BY <3>1, <3>2, <3>4, TurnOnce
      <4> QED
        BY <3>1, <3>2, <3>4, <4>1
    <3>5. ASSUME x.c = y.c PROVE x.col = y.col /\ x.row = y.row
      <4>1. x.c \in Expected(e) /\ y.c \in Expected(d)
        BY <3>1, <3>2, OrderFacts DEF Range
      <4>2. x.c[2] = e /\ y.c[2] = d
        BY <4>1, ExpectedOwn
      <4>3. e = d
        BY <3>5, <4>2
      <4>4. Place(k, x.row) = Place(j, y.row)
        <5>1. Place(k, x.row) \in 1 .. Capacity /\ Place(j, y.row) \in 1 .. Capacity
          BY <3>1, <3>2, OrderFacts
        <5> QED
          BY <3>1, <3>2, <3>5, <4>3, <5>1, OrderFacts
      <4>5. k = j /\ x.row = y.row
        <5>1. k * ParallelLen \in Nat /\ j * ParallelLen \in Nat /\ ParallelLen \in Nat \ {0}
          BY Parameters
        <5>2. k * ParallelLen + x.row = j * ParallelLen + y.row
          BY <3>3, <4>4, <5>1 DEF Place
        <5> QED
          BY <3>3, <5>1, <5>2, Division
      <4> QED
        BY <3>1, <3>2, <4>3, <4>5 DEF Turn
    <3> QED
      BY <3>4, <3>5
  <2> QED
    BY <2>1, <2>2 DEF OneLeaderOneSecret
<1> QED
  BY <1>1, TimelyInvariant, PTL

(***************************************************************************)
(* There, once every node has counted a slot, each row of its column whose *)
(* position is inside the bucket has been led.                             *)
(***************************************************************************)
THEOREM EveryRowIsLed ==
  ASSUME TimelyNetwork
  PROVE  Spec => []EveryRowLed
<1>1. TimelyInv => EveryRowLed
  <2> SUFFICES ASSUME TimelyInv, NEW col \in 1 .. MaxTicks,
                      \A n \in Nodes : absRound[n] >= col,
                      NEW row \in 0 .. ParallelLen - 1,
                      ((col - 1) % EpochRounds) * ParallelLen + row < Capacity
               PROVE  \E x \in leads : x.col = col /\ x.row = row
    BY DEF EveryRowLed
  <2> DEFINE k == (col - 1) % EpochRounds
             e == (col - 1) \div EpochRounds
  <2>1. e \in Nat /\ k \in 0 .. EpochRounds - 1 /\ col = e * EpochRounds + k + 1
    BY Parameters
  <2> HIDE DEF e
  <2>2. k * ParallelLen + row < Capacity
    OBVIOUS
  <2> HIDE DEF k
  <2>3. Turn(col, e, k) /\ k \in Nat
    BY <2>1 DEF Turn
  <2>4. \A n \in Nodes : Served(n, col)
    BY DEF TimelyInv, LeadsInv, TypeOK
  <2>5. Real(e)
    BY <2>1, <2>3, <2>4, NodesAssumption DEF Served
  <2>6. Place(k, row) \in DOMAIN Order(e)
    <3>1. k * ParallelLen \in Nat
      BY <2>3, Parameters
    <3>2. Place(k, row) \in 1 .. Capacity
      BY <2>2, <3>1, Parameters DEF Place
    <3> QED
      BY <2>5, <3>2, OrderFacts
  <2>7. Order(e)[Place(k, row)] \in Expected(e)
    BY <2>5, <2>6, OrderFacts DEF Range
  <2>8. PICK n \in Nodes : n = Order(e)[Place(k, row)][1]
    BY <2>7, ExpectedOwn
  <2> QED
    BY <2>1, <2>3, <2>4, <2>6, <2>8 DEF Served
<1> QED
  BY <1>1, TimelyInvariant, PTL

-----------------------------------------------------------------------------
(* Nothing stops the epochs *)

\* A START_BLOCKCHAIN command is carried out unless the round was generated before
StartCarriedOut ==
  starts > 0 => \/ 0 \in Generated(Starter)
                \/ \E h \in handlers[Starter] : h.round = 0 /\ h.pc \in {"once", "mark"}

\* The guards of the steps of a node: a message is read, ...
MayRead(n) ==
  MayDeliver(n) /\ \E m \in net[n] : m.type = "check" /\ HashRefused(n, m) => sentChecks < MaxChecks

\* ... a handler goes on, ...
MayHandle(n) ==
  \E h \in handlers[n] :
    /\ h.pc = "round" => ~commitmentRoundMutex[n]
    /\ h.pc = "mark" => h.round < MaxRound /\ Generations(n, h.round) < MaxCopies

\* ... a generator or an announcement, ...
MayGenerate(n) ==
  \/ \E g \in generators[n] : \/ g.pc = "produce" /\ MayBegin
                              \/ g.pc = "store"
                              \/ g.pc = "info" /\ MayWake(<<n, g>>)
  \/ \E a \in announcing[n] : MayWake(<<n, a>>) /\ sentChecks < MaxChecks

\* ... a pass, ...
MayPassOn(n) ==
  \E p \in passes[n] :
    /\ p.pc \in Asleep => MayWake(<<n, p>>)
    /\ p.pc = "bump" => ~commitmentRoundMutex[n] /\ commitmentGenEpochRound[n] < MaxRound

\* ... or the block schedule
MaySchedule(n) ==
  \/ MayStartSchedule(n)
  \/ /\ sched[n] = "slot" /\ MayWake(<<n, SlotSleep>>) /\ absRound[n] < MaxTicks
     /\ \A h \in handlers[n] : h.thread # "scheduler"
  \/ /\ sched[n] = "end" /\ MayWake(<<n, EndSleep>>)
     /\ bucketInfoStarted(n) \/ sentChecks < MaxChecks

ClockMayAdvance == Quiet /\ (Sleepers # {} \/ SlotSleepers # {})

MayGoOn ==
  \/ ClockMayAdvance
  \/ \E n \in Nodes : alive[n] /\ (MayRead(n) \/ MayHandle(n) \/ MayGenerate(n) \/ MayPassOn(n)
                                     \/ MaySchedule(n))

\* The model counts no further
AtBound == sentChecks >= MaxChecks \/ \E n \in Nodes : absRound[n] >= MaxTicks

EpochsRun == \A n \in Nodes : commitmentGenEpochRound[n] = MaxRound /\ Gathered(n) = {}

OnlyBoundsStop == starts > 0 /\ ~AtBound => EpochsRun \/ MayGoOn

LEMMA CarriedInit == Init => StartCarriedOut
BY DEF Init, StartCarriedOut

LEMMA CarriedKept ==
  ASSUME StartCarriedOut, starts' = starts,
         \A i \in Generated(Starter) : i \in Generated(Starter)',
         \A h \in handlers[Starter] : h.pc \in {"once", "mark"} => h \in handlers'[Starter]
  PROVE  StartCarriedOut'
BY DEF StartCarriedOut

\* What a handler that ends or goes on leaves of the others
LEMMA OthersLeft ==
  ASSUME TypeOK, NEW n \in Nodes, NEW h
  PROVE  /\ \A t \in handlers[Starter] : t # h => t \in Drop(handlers, n, h)[Starter]
         /\ \A pc : \A t \in handlers[Starter] : t # h => t \in Go(handlers, n, h, pc)[Starter]
         /\ \A pc : n = Starter => [h EXCEPT !.pc = pc] \in Go(handlers, n, h, pc)[Starter]
BY NodesAssumption DEF TypeOK, Drop, Go, Swap

LEMMA CarriedHandle ==
  ASSUME TypeOK, StartCarriedOut, NEW n \in Nodes, Handle(n)
  PROVE  StartCarriedOut'
<1>1. Starter \in Nodes
  BY NodesAssumption
<1>2. PICK h \in handlers[n] : \/ InsertCommitment(n, h) \/ CheckRound(n, h)
                               \/ CheckGenerated(n, h) \/ MarkGenerated(n, h)
  BY DEF Handle
<1>3. CASE InsertCommitment(n, h) \/ CheckRound(n, h)
  <2>1. /\ starts' = starts /\ Generated(Starter)' = Generated(Starter)
        /\ h.pc \notin {"once", "mark"}
        /\ handlers' = Drop(handlers, n, h) \/ \E pc : handlers' = Go(handlers, n, h, pc)
    BY <1>3 DEF InsertCommitment, CheckRound, networkVars, Generated
  <2>2. \A t \in handlers[Starter] : t.pc \in {"once", "mark"} => t \in handlers'[Starter]
    BY <2>1, OthersLeft
  <2> QED
    BY <2>1, <2>2, CarriedKept
<1>4. CASE CheckGenerated(n, h)
  <2>1. /\ starts' = starts /\ Generated(Starter)' = Generated(Starter) /\ h.pc = "once"
        /\ IF h.round \in Generated(n) THEN handlers' = Drop(handlers, n, h)
                                       ELSE handlers' = Go(handlers, n, h, "mark")
    BY <1>4 DEF CheckGenerated, networkVars, Generated
  <2>2. CASE n = Starter /\ h.round = 0
    <3>1. CASE h.round \in Generated(n)
      BY <2>1, <2>2, <3>1 DEF StartCarriedOut
    <3>2. CASE h.round \notin Generated(n)
      <4>1. [h EXCEPT !.pc = "mark"] \in handlers'[Starter]
        BY <2>1, <2>2, <3>2, OthersLeft
      <4>2. h \in Handler
        BY WorkKinds
      <4>3. [h EXCEPT !.pc = "mark"].pc = "mark" /\ [h EXCEPT !.pc = "mark"].round = 0
        BY <2>2, <4>2 DEF Handler
      <4> QED
        BY <4>1, <4>3 DEF StartCarriedOut
    <3> QED
      BY <3>1, <3>2
  <2>3. CASE n = Starter /\ h.round # 0
    <3>1. \A t \in handlers[Starter] : t.round = 0 => t \in handlers'[Starter]
      BY <2>1, <2>3, OthersLeft
    <3> QED
      BY <2>1, <3>1 DEF StartCarriedOut
  <2>4. CASE n # Starter
    <3>1. handlers'[Starter] = handlers[Starter]
      BY <1>1, <2>1, <2>4 DEF TypeOK, Drop, Go, Swap
    <3> QED
      BY <2>1, <3>1, CarriedKept
  <2> QED
    BY <2>2, <2>3, <2>4
<1>5. CASE MarkGenerated(n, h)
  <2>1. /\ starts' = starts /\ handlers' = Drop(handlers, n, h)
        /\ epochRoundsGenerated' = [epochRoundsGenerated EXCEPT ![n] = Append(@, h.round)]
    BY <1>5 DEF MarkGenerated, networkVars
  <2>2. epochRoundsGenerated \in [Nodes -> Seq(Rounds)]
    BY DEF TypeOK
  <2>3. CASE n = Starter
    <3> DEFINE s == epochRoundsGenerated[Starter]
    <3>1. epochRoundsGenerated'[Starter] = Append(s, h.round) /\ s \in Seq(Rounds)
      BY <1>1, <2>1, <2>2, <2>3
    <3>2. /\ \A i \in DOMAIN s : i \in DOMAIN Append(s, h.round) /\ Append(s, h.round)[i] = s[i]
          /\ Len(s) + 1 \in DOMAIN Append(s, h.round) /\ Append(s, h.round)[Len(s) + 1] = h.round
      BY <3>1
    <3> HIDE DEF s
    <3>3. /\ \A i \in Generated(Starter) : i \in Generated(Starter)'
          /\ h.round \in Generated(Starter)'
      BY <3>1, <3>2 DEF Generated, Range, s
    <3>4. CASE h.round = 0
      BY <3>3, <3>4 DEF StartCarriedOut
    <3>5. CASE h.round # 0
      <4>1. \A t \in handlers[Starter] : t.round = 0 => t \in handlers'[Starter]
        BY <2>1, <3>5, OthersLeft
      <4> QED
        BY <2>1, <3>3, <4>1 DEF StartCarriedOut
    <3> QED
      BY <3>4, <3>5
  <2>4. CASE n # Starter
    <3>1. handlers'[Starter] = handlers[Starter]
      BY <1>1, <2>1, <2>4 DEF TypeOK, Drop
    <3>2. epochRoundsGenerated'[Starter] = epochRoundsGenerated[Starter]
      BY <1>1, <2>1, <2>2, <2>4
    <3> QED
      BY <2>1, <3>1, <3>2, CarriedKept DEF Generated
  <2> QED
    BY <2>3, <2>4
<1> QED
  BY <1>2, <1>3, <1>4, <1>5

LEMMA CarriedStep ==
  ASSUME TypeOK, StartCarriedOut, [Next]_vars
  PROVE  StartCarriedOut'
<1>1. Starter \in Nodes /\ handlers \in [Nodes -> SUBSET Handler]
  BY NodesAssumption DEF TypeOK
<1>2. CASE StartBlockchain
  <2>1. InitHandler("command", 0) \in handlers'[Starter]
    BY <1>1, <1>2 DEF StartBlockchain
  <2> QED
    BY <2>1 DEF StartCarriedOut, InitHandler
<1>3. ASSUME starts' = starts, epochRoundsGenerated' = epochRoundsGenerated,
             \A h \in handlers[Starter] : h \in handlers'[Starter]
      PROVE  StartCarriedOut'
  BY <1>3, CarriedKept DEF Generated
<1>4. CASE AdvanceClock \/ UNCHANGED vars
  BY <1>3, <1>4 DEF AdvanceClock, vars, networkVars, threadVars
<1>5. CASE \E n \in Nodes : Receive(n)
  <2> PICK n \in Nodes : Receive(n)
    BY <1>5
  <2>1. /\ starts' = starts /\ epochRoundsGenerated' = epochRoundsGenerated
        /\ handlers' = handlers \/ \E t : handlers' = [handlers EXCEPT ![n] = @ \cup {t}]
    BY DEF Receive, ReceiveInit, ReceiveCommitment, RetryBucketCheck, DropBucketCheck, CountBucketCheck,
           CompleteBucketCheck, FailBucketCheck, threadVars
  <2> QED
    BY <1>1, <1>3, <2>1
<1>6. CASE \E n \in Nodes : Handle(n)
  BY <1>6, CarriedHandle
<1>7. CASE \E n \in Nodes : Generate(n)
  BY <1>3, <1>7 DEF Generate, ProduceCommitment, StoreCommitment, InitBucketInfo, AnnounceBucket,
                    networkVars
<1>8. CASE \E n \in Nodes : PassOn(n)
  <2> PICK n \in Nodes : PassOn(n)
    BY <1>8
  <2>1. /\ starts' = starts /\ epochRoundsGenerated' = epochRoundsGenerated
        /\ handlers' = handlers \/ \E t : handlers' = [handlers EXCEPT ![n] = @ \cup {t}]
    BY DEF PassOn, PassToEpochRunning, EndPause, CopyBucket, CopyRest, BumpRound, ClearChecks, ResetDev,
           StartNextRound, networkVars
  <2> QED
    BY <1>1, <1>3, <2>1
<1>9. CASE \E n \in Nodes : Schedule(n)
  <2> PICK n \in Nodes : Schedule(n)
    BY <1>9
  <2>1. /\ starts' = starts /\ epochRoundsGenerated' = epochRoundsGenerated
        /\ handlers' = handlers \/ \E t : handlers' = [handlers EXCEPT ![n] = @ \cup {t}]
    <3>1. CASE StartSchedule(n) \/ EndEpoch(n)
      BY <3>1 DEF StartSchedule, EndEpoch, networkVars, threadVars
    <3>2. CASE GenerateBlocks(n)
      BY <3>2 DEF GenerateBlocks, networkVars
    <3> QED
      BY <3>1, <3>2 DEF Schedule
  <2> QED
    BY <1>1, <1>3, <2>1
<1> QED
  BY <1>2, <1>4, <1>5, <1>6, <1>7, <1>8, <1>9 DEF Next, NodeStep

\* Where nobody may go on, no goroutine is at work but one that the last round keeps
LEMMA NobodyGoesOn ==
  ASSUME TypeOK, Unharmed, ~AtBound, ~MayGoOn, NEW n \in Nodes
  PROVE  /\ sentChecks < MaxChecks /\ absRound[n] < MaxTicks
         /\ ~MayRead(n) /\ ~MayGenerate(n) /\ ~MayPassOn(n) /\ ~MaySchedule(n)
         /\ \A h \in handlers[n] :
              h.pc = "mark" /\ ~(h.round < MaxRound /\ Generations(n, h.round) < MaxCopies)
         /\ \A g \in generators[n] : g.pc # "store"
         /\ \A p \in passes[n] :
              p.pc \in Asleep \/ (p.pc = "bump" /\ ~(commitmentGenEpochRound[n] < MaxRound))
<1>1. ~MayRead(n) /\ ~MayHandle(n) /\ ~MayGenerate(n) /\ ~MayPassOn(n) /\ ~MaySchedule(n)
  BY DEF MayGoOn, Unharmed
<1>2. sentChecks < MaxChecks /\ absRound[n] < MaxTicks
  BY BoundsAssumption DEF AtBound, TypeOK
<1>3. ~commitmentRoundMutex[n]
  BY DEF Unharmed
<1>4. \A h \in handlers[n] :
        h.pc = "mark" /\ ~(h.round < MaxRound /\ Generations(n, h.round) < MaxCopies)
  BY <1>1, <1>3 DEF MayHandle
<1>5. \A g \in generators[n] : g.pc # "store"
  BY <1>1 DEF MayGenerate
<1>6. \A p \in passes[n] :
        p.pc \in Asleep \/ (p.pc = "bump" /\ ~(commitmentGenEpochRound[n] < MaxRound))
  BY <1>1, <1>3 DEF MayPassOn
<1> QED
  BY <1>1, <1>2, <1>4, <1>5, <1>6

\* Nobody is woken, ...
LEMMA NobodyWoken ==
  ASSUME TypeOK, Unharmed, ~AtBound, ~MayGoOn, ~Working, NEW n \in Nodes
  PROVE  /\ handlers[n] = {}
         /\ \A p \in passes[n] : p.pc \in Asleep /\ <<n, p>> \notin due
         /\ \A g \in generators[n] : g.pc = "info" /\ <<n, g>> \notin due
         /\ \A a \in announcing[n] : <<n, a>> \notin due
         /\ sched[n] = "slot" => <<n, SlotSleep>> \notin due
         /\ sched[n] = "end" => <<n, EndSleep>> \notin due
<1>1. MayBegin /\ (\A s \in due : MayWake(s))
  BY DEF MayBegin, MayWake
<1>2. /\ handlers[n] = {} /\ \A p \in passes[n] : p.pc \in Asleep
      /\ \A g \in generators[n] : g.pc # "store"
  BY DEF Working, Unharmed
<1>3. \A g \in generators[n] : g.pc = "info"
  BY <1>1, <1>2, NobodyGoesOn, WorkKinds DEF MayGenerate
<1>4. \A g \in generators[n] : <<n, g>> \notin due
  BY <1>1, <1>3, NobodyGoesOn DEF MayGenerate
<1>5. \A a \in announcing[n] : <<n, a>> \notin due
  BY <1>1, NobodyGoesOn DEF MayGenerate
<1>6. \A p \in passes[n] : <<n, p>> \notin due
  BY <1>1, <1>2, NobodyGoesOn DEF MayPassOn, Asleep
<1>7. sched[n] = "slot" => <<n, SlotSleep>> \notin due
  BY <1>1, <1>2, NobodyGoesOn DEF MaySchedule
<1>8. sched[n] = "end" => <<n, EndSleep>> \notin due
  BY <1>1, NobodyGoesOn DEF MaySchedule
<1> QED
  BY <1>2, <1>3, <1>4, <1>5, <1>6, <1>7, <1>8

\* ... and nobody sleeps
LEMMA NobodyAsleep ==
  ASSUME TypeOK, Unharmed, ~AtBound, ~MayGoOn, ~Working, due = {}
  PROVE  /\ Quiet
         /\ \A n \in Nodes : /\ passes[n] = {} /\ generators[n] = {} /\ announcing[n] = {}
                             /\ sched[n] = "idle"
<1>1. Quiet
  <2> SUFFICES ASSUME NEW n \in Nodes
               PROVE  /\ net[n] = {} \/ ~StreamFree(n)
                      /\ \A g \in generators[n] : g.pc = "info"
                      /\ ~MayStartSchedule(n)
    BY DEF Quiet
  <2>1. net[n] = {} \/ ~StreamFree(n)
    <3>1. StreamFree(n) => MayDeliver(n)
      BY DEF MayDeliver, MayBegin, Unharmed
    <3> QED
      BY <3>1, NobodyGoesOn DEF MayRead
  <2>2. ~MayStartSchedule(n)
    BY NobodyGoesOn DEF MaySchedule
  <2> QED
    BY <2>1, <2>2, NobodyWoken
<1>2. Sleepers = {} /\ SlotSleepers = {}
  BY <1>1 DEF MayGoOn, ClockMayAdvance
<1>3. ASSUME NEW n \in Nodes
      PROVE  passes[n] = {} /\ generators[n] = {} /\ announcing[n] = {} /\ sched[n] = "idle"
  <2>1. passes[n] = {}
    BY <1>2, NobodyWoken, SleeperMembers
  <2>2. generators[n] = {}
    BY <1>2, NobodyWoken, SleeperMembers
  <2>3. announcing[n] = {}
    BY <1>2, SleeperMembers
  <2>4. sched[n] # "end" /\ sched[n] # "slot"
    BY <1>2, SleeperMembers
  <2>5. sched[n] \in {"idle", "slot", "end"}
    BY DEF TypeOK
  <2> QED
    BY <2>1, <2>2, <2>3, <2>4, <2>5
<1> QED
  BY <1>1, <1>3

\* A round that the bounds allow is before the last one
LEMMA RealBeforeLast ==
  ASSUME NEW r \in Nat, Real(r)
  PROVE  r < MaxRound
<1>1. <<Starter, r, 1, 1>> \in Commitments
  BY ExpectedOwn, NodesAssumption DEF Real
<1>2. r \in 0 .. MaxRound - 1
  BY <1>1 DEF Commitments
<1> QED
  BY <1>2, BoundsAssumption

LEMMA CollectGoesOn ==
  ASSUME TimelyNetwork, MaxCopies # 0, TypeOK, Unharmed, StartCarriedOut, starts > 0,
         NEW r \in Nat, Collecting(r), ~AtBound, ~MayGoOn
  PROVE  EpochsRun
<1>1. \A n \in Nodes : /\ CollectNode(n, r) /\ CollectNet(n, r) /\ CollectGenerators(n, r)
                       /\ CollectTime(n, r) /\ CollectMust(n, r) /\ announcing[n] = {}
                       /\ commitmentGenEpochRound[n] = r
                       /\ passes[n] = {} \/ passes[n] = {NextPass}
  BY DEF Collecting, CollectNode, Behind
<1>2. CASE Working
  <2>1. PICK n \in Nodes : handlers[n] # {} \/ \E p \in passes[n] : p.pc \notin Asleep
    BY <1>2, NobodyGoesOn DEF Working
  <2>2. PICK h \in handlers[n] : TRUE
    BY <1>1, <2>1 DEF NextPass, Asleep
  <2>3. h.pc = "mark" /\ ~(h.round < MaxRound /\ Generations(n, h.round) < MaxCopies)
    BY NobodyGoesOn
  <2>4. h.round = r /\ r \notin Generated(n)
    BY <1>1, <2>3 DEF CollectNet
  <2>5. Generations(n, r) = 0
    <3>1. \A i \in DOMAIN epochRoundsGenerated[n] : epochRoundsGenerated[n][i] # r
      BY <2>4 DEF Generated, Range
    <3>2. {i \in DOMAIN epochRoundsGenerated[n] : epochRoundsGenerated[n][i] = r} = {}
      BY <3>1
    <3> QED
      BY <3>2, FS_EmptySet DEF Generations
  <2>6. 0 < MaxCopies
    BY BoundsAssumption
  <2>7. ~(r < MaxRound)
    BY <2>3, <2>4, <2>5, <2>6
  <2>8. r \in Rounds
    BY <1>1 DEF TypeOK
  <2>9. r = MaxRound
    BY <2>7, <2>8, BoundsAssumption DEF Rounds
  <2> QED
    BY <1>1, <2>9 DEF EpochsRun, Gathered, NextPass
<1>3. CASE ~Working
  <2>1. due = {}
    <3>1. CASE r < 2
      <4>1. due = {n \in Nodes : passes[n] # {}} \X {NextPass}
        BY <3>1 DEF Collecting
      <4>2. ASSUME NEW n \in Nodes, passes[n] # {} PROVE FALSE
        <5>1. NextPass \in passes[n] /\ <<n, NextPass>> \in due
          BY <1>1, <4>1, <4>2
        <5> QED
          BY <1>3, <5>1, NobodyWoken
      <4> QED
        BY <4>1, <4>2
    <3>2. CASE ~(r < 2)
      <4>1. due = {n \in Nodes : slot[n] = 1} \X {SlotSleep}
        BY <3>2 DEF Collecting
      <4>2. \A n \in Nodes : sched[n] = "slot"
        BY <1>1, <3>2 DEF CollectTime
      <4>3. \A n \in Nodes : <<n, SlotSleep>> \notin due
        BY <1>3, <4>2, NobodyWoken
      <4> QED
        BY <4>1, <4>3
    <3> QED
      BY <3>1, <3>2
  <2>2. /\ Quiet
        /\ \A n \in Nodes : passes[n] = {} /\ generators[n] = {} /\ sched[n] = "idle"
    BY <1>3, <2>1, NobodyAsleep
  <2>3. Starter \in Nodes
    BY NodesAssumption
  <2>4. r < 2
    BY <1>1, <2>2, <2>3 DEF CollectTime
  <2>5. r \in Generated(Starter)
    <3>1. CASE r = 0
      BY <1>3, <2>3, <3>1, NobodyWoken DEF StartCarriedOut
    <3>2. CASE r = 1
      BY <2>2, <2>3, <3>2, CollectRest DEF Must
    <3> QED
      BY <2>4, <3>1, <3>2
  <2> QED
    BY <1>1, <2>2, <2>3, <2>4, <2>5 DEF CollectGenerators
<1> QED
  BY <1>2, <1>3

LEMMA SortGoesOn ==
  ASSUME TimelyNetwork, TypeOK, Unharmed, NEW r \in Nat, Sorting(r), ~AtBound, ~MayGoOn
  PROVE  FALSE
<1>1. /\ due = {n \in Nodes : generators[n] # {}} \X {Info(r)}
      /\ \A n \in Nodes : /\ OnceOnly(n) /\ passes[n] = {}
                          /\ \/ generators[n] = {Info(r)} /\ announcing[n] = {}
                             \/ generators[n] = {} /\ announcing[n] = {Ann(r)}
  BY DEF Sorting
<1>2. ~Working
  BY <1>1, NobodyGoesOn DEF Working, OnceOnly
<1>3. \A n \in Nodes : generators[n] = {}
  <2> SUFFICES ASSUME NEW n \in Nodes, generators[n] # {} PROVE FALSE
    OBVIOUS
  <2>1. Info(r) \in generators[n] /\ <<n, Info(r)>> \in due
    BY <1>1
  <2> QED
    BY <1>2, <2>1, NobodyWoken
<1>4. due = {}
  BY <1>1, <1>3
<1>5. announcing[Starter] # {}
  BY <1>1, <1>3, NodesAssumption
<1> QED
  BY <1>2, <1>4, <1>5, NobodyAsleep, NodesAssumption

\* A pass of a round before the last one is never kept from the next round
LEMMA PassGoesOn ==
  ASSUME TypeOK, Unharmed, NEW r \in Nat, Real(r), NEW n \in Nodes, ~AtBound, ~MayGoOn,
         Counting(n, r) \/ (\E pcs : Passing(n, r, pcs)) \/ Passed(n, r)
  PROVE  \A p \in passes[n] : p.pc \in Asleep
<1>1. CASE Counting(n, r)
  BY <1>1 DEF Counting
<1>2. CASE \E pcs : Passing(n, r, pcs)
  <2>1. PICK p \in passes[n] : passes[n] = {p} /\ PassAt(n, r, p)
    BY <1>2 DEF Passing
  <2>2. p.pc = "bump" => commitmentGenEpochRound[n] < MaxRound
    BY <2>1, RealBeforeLast DEF PassAt
  <2> QED
    BY <2>1, <2>2, NobodyGoesOn
<1>3. CASE Passed(n, r)
  BY <1>3 DEF Passed, NextPass, Asleep
<1> QED
  BY <1>1, <1>2, <1>3

LEMMA AgreeGoesOn ==
  ASSUME TimelyNetwork, TypeOK, Unharmed, NEW r \in Nat, Agreeing(r), ~AtBound, ~MayGoOn
  PROVE  FALSE
<1>1. /\ Real(r) /\ due = {n \in Nodes : ~Announced(n, r)}
                            \X {IF r < 2 THEN Ann(r) ELSE EndSleep}
      /\ \A n \in Nodes : /\ generators[n] = {} /\ OnceOnly(n) /\ AgreeTime(n, r)
                          /\ AgreeSeat(n, r)
  BY DEF Agreeing, AgreeNode
<1>2. ~Working
  <2>1. \A n \in Nodes : \A p \in passes[n] : p.pc \in Asleep
    BY <1>1, PassGoesOn DEF AgreeSeat
  <2>2. \A n \in Nodes : handlers[n] = {}
    BY <1>1, NobodyGoesOn DEF OnceOnly
  <2> QED
    BY <1>1, <2>1, <2>2 DEF Working
<1>3. \A n \in Nodes : Announced(n, r)
  <2> SUFFICES ASSUME NEW n \in Nodes, ~Announced(n, r) PROVE FALSE
    OBVIOUS
  <2>1. <<n, IF r < 2 THEN Ann(r) ELSE EndSleep>> \in due
    BY <1>1
  <2>2. CASE r < 2
    BY <1>1, <1>2, <2>1, <2>2, NobodyWoken DEF Announced, AgreeTime
  <2>3. CASE ~(r < 2)
    BY <1>2, <2>1, <2>3, NobodyWoken DEF Announced
  <2> QED
    BY <2>2, <2>3
<1>4. due = {}
  BY <1>1, <1>3
<1>5. /\ Quiet /\ Starter \in Nodes
      /\ passes[Starter] = {} /\ sched[Starter] = "idle"
  BY <1>2, <1>4, NobodyAsleep, NodesAssumption
<1>6. r # 1 /\ Passed(Starter, r) /\ AgreeTime(Starter, r)
  BY <1>5, AgreeRest
<1>7. r # 0
  BY <1>5, <1>6 DEF Passed
<1> QED
  BY <1>5, <1>6, <1>7 DEF AgreeTime

LEMMA PauseGoesOn ==
  ASSUME TimelyNetwork, TypeOK, Unharmed, Pausing, ~AtBound, ~MayGoOn
  PROVE  FALSE
<1>1. /\ due = {n \in Nodes : passes[n] = {PausePass}} \X {PausePass}
      /\ \A n \in Nodes : /\ generators[n] = {} /\ OnceOnly(n)
                          /\ Passing(n, 1, PausePasses) \/ Passed(n, 1)
  BY DEF Pausing, PauseNode
<1>2. ~Working
  <2>1. \A n \in Nodes : \A p \in passes[n] : p.pc \in Asleep
    <3> SUFFICES ASSUME NEW n \in Nodes PROVE \A p \in passes[n] : p.pc \in Asleep
      OBVIOUS
    <3>1. CASE Passing(n, 1, PausePasses)
      BY <3>1, PassGoesOn DEF Passing
    <3>2. CASE Passed(n, 1)
      BY <3>2 DEF Passed
    <3> QED
      BY <1>1, <3>1, <3>2
  <2>2. \A n \in Nodes : handlers[n] = {}
    BY <1>1, NobodyGoesOn DEF OnceOnly
  <2> QED
    BY <1>1, <2>1, <2>2 DEF Working
<1>3. due = {}
  <2>1. ASSUME NEW n \in Nodes, passes[n] = {PausePass} PROVE FALSE
    <3>1. <<n, PausePass>> \in due /\ PausePass \in passes[n]
      BY <1>1, <2>1
    <3> QED
      BY <1>2, <3>1, NobodyWoken
  <2> QED
    BY <1>1, <2>1
<1>4. \A n \in Nodes : passes[n] = {} /\ sched[n] = "idle"
  BY <1>2, <1>3, NobodyAsleep
<1>5. \A n \in Nodes : commitmentGenEpochRound[n] >= 2
  <2> SUFFICES ASSUME NEW n \in Nodes PROVE commitmentGenEpochRound[n] >= 2
    OBVIOUS
  <2>1. Passed(n, 1)
    BY <1>1, <1>4 DEF Passing
  <2> QED
    BY <2>1 DEF Passed, Behind
<1>6. MayStartSchedule(Starter)
  BY <1>4, <1>5, NodesAssumption DEF MayStartSchedule, Unharmed
<1> QED
  BY <1>6, NobodyGoesOn, NodesAssumption DEF MaySchedule

LEMMA SlotsGoOn ==
  ASSUME TimelyNetwork, TypeOK, Unharmed, NEW r \in Nat, Slots(r), ~AtBound, ~MayGoOn
  PROVE  FALSE
<1>1. PICK k \in 0 .. EpochRounds - 1 :
        /\ due = {n \in Nodes : slot[n] = k} \X {SlotSleep}
        /\ \A n \in Nodes :
             /\ OnceOnly(n) /\ generators[n] = {} /\ passes[n] = {}
             /\ sched[n] = IF slot[n] = EpochRounds THEN "end" ELSE "slot"
  BY DEF Slots, SlotNode
<1>2. ~Working
  BY <1>1, NobodyGoesOn DEF Working, OnceOnly
<1>3. \A n \in Nodes : slot[n] # k
  <2> SUFFICES ASSUME NEW n \in Nodes, slot[n] = k PROVE FALSE
    OBVIOUS
  <2>1. k # EpochRounds
    BY Parameters
  <2>2. sched[n] = "slot" /\ <<n, SlotSleep>> \in due
    BY <1>1, <2>1
  <2> QED
    BY <1>2, <2>2, NobodyWoken
<1>4. due = {}
  BY <1>1, <1>3
<1>5. sched[Starter] = "idle"
  BY <1>2, <1>4, NobodyAsleep, NodesAssumption
<1>6. sched[Starter] \in {"end", "slot"}
  BY <1>1, NodesAssumption
<1> QED
  BY <1>5, <1>6

(***************************************************************************)
(* The safety part of EveryEpochRuns, for every number of nodes, rows,     *)
(* variants and epochs: in a timely network the epochs do not stop.  Once  *)
(* START_BLOCKCHAIN was given, some goroutine may go on, or everybody is   *)
(* asleep and the clock will wake somebody, until the last round that the  *)
(* bounds allow has been passed on everywhere.  No node ever waits for a   *)
(* hash, a commitment or a time to start that will not come.               *)
(***************************************************************************)
THEOREM OnlyTheBoundsStop ==
  ASSUME TimelyNetwork, MaxCopies # 0
  PROVE  Spec => []OnlyBoundsStop
<1>1. TimelyInv /\ StartCarriedOut => OnlyBoundsStop
  BY CollectGoesOn, SortGoesOn, AgreeGoesOn, PauseGoesOn, SlotsGoOn
     DEF TimelyInv, Period, OnlyBoundsStop
<1>2. TypeOK /\ StartCarriedOut /\ [Next]_vars => StartCarriedOut'
  BY CarriedStep
<1> QED
  BY <1>1, <1>2, CarriedInit, TypeCorrect, TimelyInvariant, PTL DEF Spec

=============================================================================
