--------------------------- MODULE TimeSyncProofs ---------------------------
(***************************************************************************)
(* Theorems about TimeSync, for every number of nodes, every clock and     *)
(* every order in which the announcements are delivered.                   *)
(***************************************************************************)
EXTENDS TimeSync, TLAPS, FiniteSetTheorems, SequenceTheorems

\* A node announces the time it decided on
DecidedFirst ==
  \A n \in Nodes : /\ pc[n] \in {"round1", "wait"} => syncTime[n] = NoTime
                   /\ pc[n] = "announce" => syncTime[n] \in Minutes

\* What is on its way to a node was announced by another one
OnItsWay ==
  \A n \in Nodes :
    /\ IsFiniteSet(net[n])
    /\ \A m \in net[n] : m.src # n /\ Announced(m.src) /\ m.time = syncTime[m.src]

Others(n) == {m \in Nodes \ {n} : Announced(m)}
OthersAt(n, t) == {m \in Nodes \ {n} : Announced(m) /\ syncTime[m] = t}

\* A time is received once
CountedOnce == \A n \in Nodes : Len(timeSyncNodes[n]) + Cardinality(net[n]) <= Cardinality(Others(n))

\* Until a node is synchronised it has received, or will receive, each time as often as it
\* was announced
CountedAll ==
  \A n \in Nodes : ~timeSynced[n] => \A t \in Minutes :
    Count(timeSyncNodes[n], t) + Cardinality({m \in net[n] : m.time = t}) = Cardinality(OthersAt(n, t))

\* A node compares, and adapts, when all the others have announced
ComparedLast ==
  \A n \in Nodes :
    /\ timeSynced[n] \/ adapting[n] # NoTime => Others(n) = Nodes \ {n}
    /\ adapting[n] # NoTime => ~timeSynced[n]
    /\ joined[n] => Announced(n) /\ (timeSynced[n] \/ adapting[n] # NoTime)

\* The schedule has the announced time until it is adapted
OwnTime == \A n \in Nodes : Announced(n) /\ ~timeSynced[n] => syncedTime[n] = syncTime[n]

Majority(t) == 2 * Cardinality({n \in Nodes : Announced(n) /\ syncTime[n] = t}) > N

\* The time of a majority is kept or adopted by a node that compares as one of those announcing
MajorityKept ==
  \A n \in Nodes : joined[n] => \A t \in Minutes : Majority(t) =>
    IF timeSynced[n] THEN syncedTime[n] = t ELSE adapting[n] = t

CountInv == TypeOK /\ DecidedFirst /\ OnItsWay /\ CountedOnce /\ ComparedLast

(***************************************************************************)
(* A node does not remember who announced what it has received.  Counting  *)
(* is enough: nobody announces twice, so N - 1 times are those of all the  *)
(* others (CountedOnce), and each of them as often as it was announced     *)
(* (CountedAll).                                                           *)
(***************************************************************************)
VoteInv == CountInv /\ CountedAll /\ OwnTime /\ MajorityKept

-----------------------------------------------------------------------------
(* Counting *)

LEMMA SubsetSize ==
  ASSUME NEW S \in SUBSET Nodes
  PROVE  IsFiniteSet(S) /\ Cardinality(S) \in Nat /\ Cardinality(S) <= N
BY ClockAssumption, FS_Subset, FS_CardinalityType DEF N

LEMMA NodesSize ==
  /\ IsFiniteSet(Nodes) /\ N \in Nat /\ N > 1 /\ numOfOtherNodes = N - 1
  /\ \A n \in Nodes : IsFiniteSet(Nodes \ {n}) /\ Cardinality(Nodes \ {n}) = N - 1
BY ClockAssumption, FS_CardinalityType, FS_RemoveElement DEF N, numOfOtherNodes

LEMMA AmongOthers ==
  ASSUME NEW n \in Nodes, NEW S \in SUBSET (Nodes \ {n})
  PROVE  /\ IsFiniteSet(S) /\ Cardinality(S) \in Nat /\ Cardinality(S) <= N - 1
         /\ Cardinality(S) = N - 1 => S = Nodes \ {n}
<1> DEFINE R == Nodes \ {n}
<1>1. IsFiniteSet(R) /\ Cardinality(R) = N - 1
  BY NodesSize
<1>2. S \in SUBSET R
  OBVIOUS
<1> HIDE DEF R
<1>3. /\ IsFiniteSet(S) /\ Cardinality(S) <= Cardinality(R)
      /\ Cardinality(R) = Cardinality(S) => S = R
  BY <1>1, <1>2, FS_Subset
<1> QED
  BY <1>1, <1>3, FS_CardinalityType DEF R

\* The others of a node are all of them when there are N - 1
LEMMA OthersSize ==
  ASSUME NEW n \in Nodes
  PROVE  /\ IsFiniteSet(Others(n)) /\ Cardinality(Others(n)) \in Nat /\ Cardinality(Others(n)) <= N - 1
         /\ Cardinality(Others(n)) = N - 1 => Others(n) = Nodes \ {n}
<1>1. Others(n) \in SUBSET (Nodes \ {n})
  BY DEF Others
<1> QED
  BY <1>1, AmongOthers

\* Two times share the other nodes
LEMMA TimesShare ==
  ASSUME NEW n \in Nodes, NEW t, NEW u, t # u
  PROVE  /\ Cardinality(OthersAt(n, t)) \in Nat /\ Cardinality(OthersAt(n, u)) \in Nat
         /\ Cardinality(OthersAt(n, t)) + Cardinality(OthersAt(n, u)) <= N - 1
<1> DEFINE T == OthersAt(n, t)
           U == OthersAt(n, u)
<1>1. T \in SUBSET (Nodes \ {n}) /\ U \in SUBSET (Nodes \ {n}) /\ T \cap U = {}
  BY DEF OthersAt
<1> HIDE DEF T, U
<1>2. T \cup U \in SUBSET (Nodes \ {n})
  BY <1>1
<1>3. IsFiniteSet(T) /\ IsFiniteSet(U) /\ Cardinality(T \cup U) <= N - 1
  BY <1>1, <1>2, AmongOthers
<1>4. Cardinality(T) \in Nat /\ Cardinality(U) \in Nat
  BY <1>3, FS_CardinalityType
<1>5. Cardinality(T \cup U) = Cardinality(T) + Cardinality(U) - Cardinality({})
  BY <1>1, <1>3, FS_Union
<1> QED
  BY <1>3, <1>4, <1>5, FS_EmptySet DEF T, U

\* Those that announce a time, with and without a node
LEMMA WithOthers ==
  ASSUME NEW n \in Nodes, NEW t
  PROVE  LET M == {m \in Nodes : Announced(m) /\ syncTime[m] = t}
         IN  /\ Cardinality(M) \in Nat /\ Cardinality(OthersAt(n, t)) \in Nat
             /\ Announced(n) /\ syncTime[n] = t => Cardinality(M) = Cardinality(OthersAt(n, t)) + 1
             /\ ~(Announced(n) /\ syncTime[n] = t) => Cardinality(M) = Cardinality(OthersAt(n, t))
<1> DEFINE M == {m \in Nodes : Announced(m) /\ syncTime[m] = t}
           T == OthersAt(n, t)
<1>1. T \in SUBSET Nodes /\ M \in SUBSET Nodes /\ n \notin T
  BY DEF OthersAt
<1>2. Announced(n) /\ syncTime[n] = t => M = T \cup {n}
  BY DEF OthersAt
<1>3. ~(Announced(n) /\ syncTime[n] = t) => M = T
  BY DEF OthersAt
<1> HIDE DEF M, T
<1>4. Cardinality(M) \in Nat /\ Cardinality(T) \in Nat /\ IsFiniteSet(T)
  BY <1>1, SubsetSize
<1>5. Cardinality(T \cup {n}) = Cardinality(T) + 1
  BY <1>1, <1>4, FS_AddElement
<1> QED
  BY <1>2, <1>3, <1>4, <1>5 DEF M, T

\* The positions of a time in a list
LEMMA CountAppend ==
  ASSUME NEW list \in Seq(Minutes), NEW u \in Minutes
  PROVE  /\ Len(Append(list, u)) = Len(list) + 1 /\ Append(list, u) \in Seq(Minutes)
         /\ \A t \in Minutes : /\ Count(list, t) \in Nat
                               /\ Count(Append(list, u), t) =
                                    IF t = u THEN Count(list, t) + 1 ELSE Count(list, t)
<1> DEFINE l == Append(list, u)
<1>1. /\ l \in Seq(Minutes) /\ Len(l) = Len(list) + 1 /\ l[Len(list) + 1] = u
      /\ \A i \in 1 .. Len(list) : l[i] = list[i]
  BY AppendProperties
<1>2. Len(list) \in Nat /\ DOMAIN list = 1 .. Len(list) /\ DOMAIN l = 1 .. Len(list) + 1
  BY <1>1
<1> HIDE DEF l
<1>3. ASSUME NEW t \in Minutes
      PROVE  Count(list, t) \in Nat /\ Count(l, t) = IF t = u THEN Count(list, t) + 1 ELSE Count(list, t)
  <2> DEFINE I == {i \in DOMAIN list : list[i] = t}
             J == {i \in DOMAIN l : l[i] = t}
             k == Len(list) + 1
  <2>1. I \in SUBSET (1 .. Len(list)) /\ k \notin I
    BY <1>2
  <2>2. IsFiniteSet(1 .. Len(list))
    BY <1>2, FS_Interval
  <2>3. J = IF t = u THEN I \cup {k} ELSE I
    BY <1>1, <1>2
  <2> HIDE DEF I, J, k
  <2>4. IsFiniteSet(I) /\ Cardinality(I) \in Nat
    BY <2>1, <2>2, FS_Subset, FS_CardinalityType
  <2>5. Cardinality(I \cup {k}) = Cardinality(I) + 1
    BY <2>1, <2>4, FS_AddElement
  <2> QED
    BY <2>3, <2>4, <2>5 DEF Count, I, J
<1> QED
  BY <1>1, <1>3 DEF l

\* The vote of a node that announced its own time and has received the others
LEMMA Vote ==
  ASSUME NEW n \in Nodes, NEW list \in Seq(Minutes), Len(list) = N - 1,
         \A u \in Minutes : Count(list, u) = Cardinality(OthersAt(n, u)),
         Announced(n), syncTime[n] \in Minutes, NEW t \in Minutes, Majority(t)
  PROVE  /\ ~Minority(list, syncTime[n]) => syncTime[n] = t
         /\ Minority(list, syncTime[n]) => \A x \in Major(list) : x = t
<1> DEFINE s == syncTime[n]
           M == {m \in Nodes : Announced(m) /\ syncTime[m] = t}
           c(u) == Cardinality(OthersAt(n, u))
<1>1. N \in Nat /\ N > 1 /\ numOfOtherNodes = N - 1
  BY NodesSize
<1>2. /\ Cardinality(M) \in Nat /\ c(t) \in Nat /\ 2 * Cardinality(M) > N
      /\ s = t => Cardinality(M) = c(t) + 1
      /\ s # t => Cardinality(M) = c(t)
  BY WithOthers DEF Majority
<1>3. \A u : u # t => c(u) \in Nat /\ c(u) + c(t) <= N - 1
  BY TimesShare
<1>4. \A u \in Minutes : Count(list, u) = c(u)
  OBVIOUS
<1> HIDE DEF M, c
<1>5. ASSUME s # t PROVE Minority(list, s)
  <2>1. c(s) \in Nat /\ c(s) + c(t) <= N - 1 /\ 2 * c(t) > N
    BY <1>2, <1>3, <1>5
  <2>2. 2 * c(s) < N - 1
    BY <1>1, <1>2, <2>1
  <2> QED
    BY <1>1, <1>4, <2>2 DEF Minority
<1>6. ASSUME s = t PROVE ~Minority(list, s)
  <2>1. 2 * (c(t) + 1) > N
    BY <1>2, <1>6
  <2>2. ~(2 * c(t) < N - 1)
    BY <1>1, <1>2, <2>1
  <2> QED
    BY <1>1, <1>4, <1>6, <2>2 DEF Minority
<1>7. ASSUME s # t, NEW x \in Major(list), x # t PROVE FALSE
  <2>1. x \in Minutes /\ c(x) > (N - 1) \div 2
    BY <1>4, <1>7 DEF Major
  <2>2. c(x) \in Nat /\ c(x) + c(t) <= N - 1 /\ 2 * c(t) > N
    BY <1>2, <1>3, <1>7
  <2>3. 2 * c(x) > N - 2
    BY <1>1, <2>1, <2>2
  <2> QED
    BY <1>1, <1>2, <2>2, <2>3
<1> QED
  BY <1>5, <1>6, <1>7

-----------------------------------------------------------------------------
(* Steps *)

\* Nobody announces, and who has announced does not change its mind
SameAnnounced ==
  \A k \in Nodes : (Announced(k)' <=> Announced(k)) /\ (Announced(k) => syncTime'[k] = syncTime[k])

LEMMA SameOthers ==
  ASSUME SameAnnounced
  PROVE  /\ \A n \in Nodes : Others(n)' = Others(n)
         /\ \A n \in Nodes : \A t \in Minutes : OthersAt(n, t)' = OthersAt(n, t)
         /\ \A t \in Minutes : Majority(t)' <=> Majority(t)
<1>1. \A n \in Nodes : Others(n)' = Others(n)
  BY DEF SameAnnounced, Others
<1>2. \A n \in Nodes : \A t \in Minutes : OthersAt(n, t)' = OthersAt(n, t)
  BY DEF SameAnnounced, OthersAt
<1>3. \A t \in Minutes : {n \in Nodes : Announced(n) /\ syncTime[n] = t}'
                       = {n \in Nodes : Announced(n) /\ syncTime[n] = t}
  BY DEF SameAnnounced
<1>4. \A t \in Minutes : Majority(t)' <=> Majority(t)
  BY <1>3 DEF Majority
<1> QED
  BY <1>1, <1>2, <1>4

LEMMA QuietStep ==
  ASSUME VoteInv, SameAnnounced,
         UNCHANGED <<syncedTime, timeSynced, timeSyncNodes, adapting, joined, net>>
  PROVE  OnItsWay' /\ CountedOnce' /\ ComparedLast' /\ CountedAll' /\ OwnTime' /\ MajorityKept'
<1>1. \A n \in Nodes : \A m \in net[n] : m.src \in Nodes
  BY DEF VoteInv, CountInv, TypeOK
<1>2. OnItsWay'
  BY <1>1 DEF VoteInv, CountInv, OnItsWay, SameAnnounced
<1>3. CountedOnce'
  BY SameOthers DEF VoteInv, CountInv, CountedOnce
<1>4. ComparedLast'
  BY SameOthers DEF VoteInv, CountInv, ComparedLast, SameAnnounced
<1>5. CountedAll'
  BY SameOthers DEF VoteInv, CountedAll
<1>6. OwnTime'
  BY DEF VoteInv, OwnTime, SameAnnounced
<1>7. MajorityKept'
  BY SameOthers DEF VoteInv, MajorityKept
<1> QED
  BY <1>2, <1>3, <1>4, <1>5, <1>6, <1>7

LEMMA MinuteTypes ==
  /\ \A t \in 0 .. MaxClock : NextMinute(t) \in Minutes
  /\ NoTime \notin Minutes /\ Times = Minutes \cup {NoTime} /\ MaxClock \in Nat
<1>1. MaxClock \in Nat
  BY ClockAssumption
<1>2. ASSUME NEW t \in 0 .. MaxClock PROVE NextMinute(t) \in Minutes
  <2>1. t \div 12 \in Nat /\ t \div 12 <= MaxClock \div 12
    BY <1>1
  <2> QED
    BY <1>1, <2>1 DEF NextMinute, Minutes, Minute
<1> QED
  BY <1>1, <1>2 DEF Minutes, Times, NoTime

LEMMA VoteInit == Init => VoteInv
<1> SUFFICES ASSUME Init PROVE VoteInv
  OBVIOUS
<1>1. /\ now = 0
      /\ pc = [n \in Nodes |-> "round1"] /\ since = [n \in Nodes |-> 0]
      /\ syncTime = [n \in Nodes |-> NoTime] /\ syncedTime = [n \in Nodes |-> NoTime]
      /\ adapting = [n \in Nodes |-> NoTime]
  BY DEF Init
<1>2. /\ timeSynced = [n \in Nodes |-> FALSE] /\ alive = [n \in Nodes |-> TRUE]
      /\ joined = [n \in Nodes |-> FALSE]
  BY DEF Init
<1>3. timeSyncNodes = [n \in Nodes |-> <<>>] /\ net = [n \in Nodes |-> {}]
  BY DEF Init
<1>4. NoTime \in Times /\ 0 \in 0 .. MaxClock
  BY MinuteTypes
<1>5. <<>> \in Seq(Minutes)
  OBVIOUS
<1>6. /\ timeSyncNodes \in [Nodes -> Seq(Minutes)]
      /\ net \in [Nodes -> SUBSET [src : Nodes, time : Minutes]]
  BY <1>3, <1>5
<1>7. TypeOK
  BY <1>1, <1>2, <1>4, <1>6 DEF TypeOK
<1>8. \A n \in Nodes : ~Announced(n)
  BY <1>1 DEF Announced
<1>9. \A n \in Nodes : net[n] = {} /\ timeSyncNodes[n] = <<>>
  BY <1>3
<1>10. DecidedFirst
  BY <1>1 DEF DecidedFirst
<1>11. OnItsWay
  BY <1>9, FS_EmptySet DEF OnItsWay
<1>12. CountedOnce
  <2>1. ASSUME NEW n \in Nodes
        PROVE  Len(timeSyncNodes[n]) + Cardinality(net[n]) <= Cardinality(Others(n))
    <3>1. Others(n) = {} /\ Len(timeSyncNodes[n]) = 0 /\ net[n] = {}
      BY <1>8, <1>9 DEF Others
    <3> QED
      BY <3>1, FS_EmptySet
  <2> QED
    BY <2>1 DEF CountedOnce
<1>13. ComparedLast
  BY <1>1, <1>2 DEF ComparedLast
<1>14. CountedAll
  <2>1. ASSUME NEW n \in Nodes, NEW t \in Minutes
        PROVE  Count(timeSyncNodes[n], t) + Cardinality({m \in net[n] : m.time = t})
                 = Cardinality(OthersAt(n, t))
    <3>1. OthersAt(n, t) = {} /\ {m \in net[n] : m.time = t} = {} /\ timeSyncNodes[n] = <<>>
      BY <1>8, <1>9 DEF OthersAt
    <3>2. {i \in DOMAIN timeSyncNodes[n] : timeSyncNodes[n][i] = t} = {}
      BY <3>1
    <3>3. Count(timeSyncNodes[n], t) = 0
      BY <3>2, FS_EmptySet DEF Count
    <3>4. Cardinality(OthersAt(n, t)) = 0 /\ Cardinality({m \in net[n] : m.time = t}) = 0
      BY <3>1, FS_EmptySet
    <3> QED
      BY <3>3, <3>4
  <2> QED
    BY <2>1 DEF CountedAll
<1>15. OwnTime
  BY <1>8 DEF OwnTime
<1>16. MajorityKept
  BY <1>2 DEF MajorityKept
<1> QED
  BY <1>7, <1>10, <1>11, <1>12, <1>13, <1>14, <1>15, <1>16 DEF VoteInv, CountInv

LEMMA TickStep ==
  ASSUME VoteInv, Tick \/ UNCHANGED vars
  PROVE  VoteInv'
<1>1. UNCHANGED <<handlerVars, syncedTime, syncVars, net>> /\ now' \in 0 .. MaxClock
  <2>1. now \in 0 .. MaxClock /\ MaxClock \in Nat
    BY MinuteTypes DEF VoteInv, CountInv, TypeOK
  <2> QED
    BY <2>1 DEF Tick, vars
<1>2. SameAnnounced
  BY <1>1 DEF SameAnnounced, Announced, handlerVars
<1>3. OnItsWay' /\ CountedOnce' /\ ComparedLast' /\ CountedAll' /\ OwnTime' /\ MajorityKept'
  BY <1>1, <1>2, QuietStep DEF syncVars
<1>4. TypeOK' /\ DecidedFirst'
  BY <1>1 DEF VoteInv, CountInv, TypeOK, DecidedFirst, handlerVars, syncVars
<1> QED
  BY <1>3, <1>4 DEF VoteInv, CountInv

LEMMA DecideStep ==
  ASSUME VoteInv, NEW n \in Nodes, PassRound1(n) \/ StopWaiting(n)
  PROVE  VoteInv'
<1>1. /\ pc[n] \in {"round1", "wait"}
      /\ UNCHANGED <<now, syncedTime, timeSynced, timeSyncNodes, adapting, alive, joined, net>>
      /\ since' \in [Nodes -> 0 .. MaxClock]
  BY DEF PassRound1, StopWaiting, syncVars, VoteInv, CountInv, TypeOK
<1>2. /\ pc \in [Nodes -> {"round1", "wait", "announce", "done"}] /\ syncTime \in [Nodes -> Times]
      /\ syncTime[n] = NoTime /\ now \in 0 .. MaxClock
  BY <1>1 DEF VoteInv, CountInv, TypeOK, DecidedFirst
<1>3. \/ /\ pc' = [pc EXCEPT ![n] = "announce"]
         /\ syncTime' = [syncTime EXCEPT ![n] = NextMinute(now)]
      \/ /\ \E p \in {"wait", "done"} : pc' = [pc EXCEPT ![n] = p]
         /\ UNCHANGED syncTime
  BY DEF PassRound1, StopWaiting
<1>4. NextMinute(now) \in Minutes /\ Minutes \subseteq Times
  BY <1>2, MinuteTypes
<1>5. /\ pc' \in [Nodes -> {"round1", "wait", "announce", "done"}] /\ syncTime' \in [Nodes -> Times]
      /\ \A k \in Nodes \ {n} : pc'[k] = pc[k] /\ syncTime'[k] = syncTime[k]
      /\ \/ pc'[n] = "announce" /\ syncTime'[n] \in Minutes
         \/ pc'[n] \in {"wait", "done"} /\ syncTime'[n] = NoTime
  BY <1>2, <1>3, <1>4
<1>6. SameAnnounced
  BY <1>1, <1>5 DEF SameAnnounced, Announced
<1>7. OnItsWay' /\ CountedOnce' /\ ComparedLast' /\ CountedAll' /\ OwnTime' /\ MajorityKept'
  BY <1>1, <1>6, QuietStep
<1>8. TypeOK'
  BY <1>1, <1>5 DEF VoteInv, CountInv, TypeOK
<1>9. DecidedFirst'
  BY <1>5 DEF VoteInv, CountInv, DecidedFirst
<1> QED
  BY <1>7, <1>8, <1>9 DEF VoteInv, CountInv

LEMMA AdaptStep ==
  ASSUME VoteInv, NEW n \in Nodes, AdaptTime(n)
  PROVE  VoteInv'
<1>1. /\ adapting[n] # NoTime /\ adapting[n] \in Times /\ ~timeSynced[n]
      /\ UNCHANGED <<now, pc, since, syncTime, timeSyncNodes, alive, joined, net>>
  BY DEF AdaptTime, handlerVars, VoteInv, CountInv, ComparedLast, TypeOK
<1>2. /\ syncedTime' \in [Nodes -> Times] /\ timeSynced' \in [Nodes -> BOOLEAN]
      /\ adapting' \in [Nodes -> Times]
      /\ syncedTime'[n] = adapting[n] /\ timeSynced'[n] /\ adapting'[n] = NoTime
      /\ \A k \in Nodes \ {n} : /\ syncedTime'[k] = syncedTime[k]
                                /\ timeSynced'[k] = timeSynced[k] /\ adapting'[k] = adapting[k]
  BY <1>1, MinuteTypes DEF AdaptTime, Adopted, VoteInv, CountInv, TypeOK
<1>3. SameAnnounced
  BY <1>1 DEF SameAnnounced, Announced
<1>4. TypeOK' /\ DecidedFirst'
  BY <1>1, <1>2 DEF VoteInv, CountInv, TypeOK, DecidedFirst
<1>5. OnItsWay' /\ CountedOnce'
  BY <1>1, <1>3, SameOthers DEF VoteInv, CountInv, OnItsWay, CountedOnce, Announced
<1>6. ComparedLast'
  <2>1. Others(n) = Nodes \ {n} /\ (joined[n] => Announced(n))
    BY <1>1 DEF VoteInv, CountInv, ComparedLast
  <2>2. \A k \in Nodes : (joined[k] => Announced(k)') /\ Others(k)' = Others(k)
    BY <1>3, SameOthers DEF VoteInv, CountInv, ComparedLast, SameAnnounced
  <2> QED
    BY <1>1, <1>2, <2>1, <2>2 DEF VoteInv, CountInv, ComparedLast
<1>7. CountedAll'
  <2>1. \A k \in Nodes : ~timeSynced'[k] => ~timeSynced[k]
    BY <1>2
  <2> QED
    BY <1>1, <1>3, <2>1, SameOthers DEF VoteInv, CountedAll
<1>8. OwnTime'
  BY <1>1, <1>2 DEF VoteInv, OwnTime, Announced
<1>9. MajorityKept'
  <2>1. ASSUME NEW k \in Nodes, joined[k], NEW t \in Minutes, Majority(t)
        PROVE  IF timeSynced'[k] THEN syncedTime'[k] = t ELSE adapting'[k] = t
    <3>1. IF timeSynced[k] THEN syncedTime[k] = t ELSE adapting[k] = t
      BY <2>1 DEF VoteInv, MajorityKept
    <3> QED
      BY <1>1, <1>2, <3>1
  <2> QED
    BY <1>1, <1>3, <2>1, SameOthers DEF MajorityKept
<1> QED
  BY <1>4, <1>5, <1>6, <1>7, <1>8, <1>9 DEF VoteInv, CountInv

\* A node that announces is one more among the others of the others
LEMMA AnnounceStep ==
  ASSUME VoteInv, NEW n \in Nodes, AnnounceTime(n)
  PROVE  VoteInv'
<1> DEFINE a == [src |-> n, time |-> syncTime[n]]
<1>1. /\ pc[n] = "announce" /\ pc' = [pc EXCEPT ![n] = "done"]
      /\ syncedTime' = [syncedTime EXCEPT ![n] = syncTime[n]]
      /\ \A k \in Nodes \ {n} : net'[k] = net[k] \cup {a}
      /\ net'[n] = net[n] /\ DOMAIN net' = Nodes
      /\ UNCHANGED <<now, since, syncTime, timeSynced, timeSyncNodes, adapting, alive, joined>>
  BY DEF AnnounceTime, syncVars
<1>2. syncTime[n] \in Minutes /\ ~Announced(n) /\ syncTime[n] # NoTime
  BY <1>1, MinuteTypes DEF VoteInv, CountInv, DecidedFirst, Announced
<1>3. /\ pc' \in [Nodes -> {"round1", "wait", "announce", "done"}]
      /\ pc'[n] = "done" /\ \A k \in Nodes \ {n} : pc'[k] = pc[k]
      /\ syncedTime' \in [Nodes -> Times]
      /\ syncedTime'[n] = syncTime[n] /\ \A k \in Nodes \ {n} : syncedTime'[k] = syncedTime[k]
  BY <1>1, <1>2, MinuteTypes DEF VoteInv, CountInv, TypeOK
<1>4. \A k \in Nodes : Announced(k)' <=> (k = n \/ Announced(k))
  BY <1>1, <1>2, <1>3 DEF Announced
<1>5. a \in [src : Nodes, time : Minutes] /\ a.src = n /\ a.time = syncTime[n]
  BY <1>2
<1>6. net \in [Nodes -> SUBSET [src : Nodes, time : Minutes]]
  BY DEF VoteInv, CountInv, TypeOK
<1>7. \A k \in Nodes : IsFiniteSet(net[k]) /\ a \notin net[k]
  BY <1>2, <1>5 DEF VoteInv, CountInv, OnItsWay
<1> HIDE DEF a
<1>8. net' \in [Nodes -> SUBSET [src : Nodes, time : Minutes]]
  <2>1. \A k \in Nodes : net'[k] \in SUBSET [src : Nodes, time : Minutes]
    BY <1>1, <1>5, <1>6
  <2>2. net' = [k \in Nodes |-> net'[k]]
    BY DEF AnnounceTime
  <2> QED
    BY <2>1, <2>2
<1>9. TypeOK' /\ DecidedFirst'
  BY <1>1, <1>3, <1>8 DEF VoteInv, CountInv, TypeOK, DecidedFirst
<1>10. OnItsWay'
  <2>1. ASSUME NEW k \in Nodes
        PROVE  /\ IsFiniteSet(net'[k])
               /\ \A m \in net'[k] : m.src # k /\ Announced(m.src)' /\ m.time = syncTime[m.src]
    <3>1. /\ IsFiniteSet(net[k])
          /\ \A m \in net[k] : m.src # k /\ Announced(m.src) /\ m.time = syncTime[m.src] /\ m.src \in Nodes
      BY <1>6 DEF VoteInv, CountInv, OnItsWay
    <3>2. CASE k = n
      BY <1>1, <1>4, <3>1, <3>2
    <3>3. CASE k # n
      <4>1. IsFiniteSet(net'[k])
        BY <1>1, <3>1, <3>3, FS_AddElement
      <4> QED
        BY <1>1, <1>4, <1>5, <3>1, <3>3, <4>1
    <3> QED
      BY <3>2, <3>3
  <2> QED
    BY <1>1, <2>1 DEF OnItsWay
<1>11. Others(n)' = Others(n) /\ \A t \in Minutes : OthersAt(n, t)' = OthersAt(n, t)
  BY <1>1, <1>4 DEF Others, OthersAt
<1>12. \A k \in Nodes \ {n} : n \notin Others(k) /\ Others(k)' = Others(k) \cup {n}
  BY <1>2, <1>4 DEF Others
<1>13. CountedOnce'
  <2>1. ASSUME NEW k \in Nodes, k # n
        PROVE  Len(timeSyncNodes[k]) + Cardinality(net'[k]) <= Cardinality(Others(k)')
    <3>1. Len(timeSyncNodes[k]) + Cardinality(net[k]) <= Cardinality(Others(k))
      BY DEF VoteInv, CountInv, CountedOnce
    <3>2. Cardinality(net[k]) \in Nat /\ Cardinality(net'[k]) = Cardinality(net[k]) + 1
      <4>1. IsFiniteSet(net[k]) /\ a \notin net[k] /\ net'[k] = net[k] \cup {a}
        BY <1>1, <1>7, <2>1
      <4>2. Cardinality(net[k] \cup {a}) = Cardinality(net[k]) + 1
        BY <4>1, FS_AddElement
      <4> QED
        BY <4>1, <4>2, FS_CardinalityType
    <3>3. Cardinality(Others(k)) \in Nat /\ Cardinality(Others(k)') = Cardinality(Others(k)) + 1
      <4>1. IsFiniteSet(Others(k)) /\ Cardinality(Others(k)) \in Nat
        BY OthersSize
      <4> QED
        BY <1>12, <2>1, <4>1, FS_AddElement
    <3>4. Len(timeSyncNodes[k]) \in Nat
      BY DEF VoteInv, CountInv, TypeOK
    <3> QED
      BY <3>1, <3>2, <3>3, <3>4
  <2>2. Len(timeSyncNodes[n]) + Cardinality(net'[n]) <= Cardinality(Others(n)')
    BY <1>1, <1>11 DEF VoteInv, CountInv, CountedOnce
  <2> QED
    BY <1>1, <2>1, <2>2 DEF CountedOnce
<1>14. \A k \in Nodes \ {n} : ~timeSynced[k] /\ adapting[k] = NoTime /\ ~joined[k]
  BY <1>12 DEF VoteInv, CountInv, ComparedLast
<1>15. ~joined[n]
  BY <1>2 DEF VoteInv, CountInv, ComparedLast
<1>16. ComparedLast'
  <2>1. ASSUME NEW k \in Nodes
        PROVE  /\ timeSynced[k] \/ adapting[k] # NoTime => Others(k)' = Nodes \ {k}
               /\ adapting[k] # NoTime => ~timeSynced[k]
               /\ ~joined[k]
    BY <1>11, <1>14, <1>15 DEF VoteInv, CountInv, ComparedLast
  <2> QED
    BY <1>1, <2>1 DEF ComparedLast
<1>17. CountedAll'
  <2>1. ASSUME NEW k \in Nodes, k # n, NEW t \in Minutes
        PROVE  Count(timeSyncNodes[k], t) + Cardinality({m \in net'[k] : m.time = t})
                 = Cardinality(OthersAt(k, t)')
    <3> DEFINE O == OthersAt(k, t)
               W == {m \in net[k] : m.time = t}
    <3>1. Count(timeSyncNodes[k], t) + Cardinality(W) = Cardinality(O)
      BY <1>14, <2>1 DEF VoteInv, CountedAll
    <3>2. /\ n \notin O /\ a \notin W /\ W \in SUBSET net[k] /\ O \in SUBSET Nodes
          /\ OthersAt(k, t)' = IF t = syncTime[n] THEN O \cup {n} ELSE O
          /\ {m \in net'[k] : m.time = t} = IF t = syncTime[n] THEN W \cup {a} ELSE W
      BY <1>1, <1>2, <1>4, <1>5, <1>7, <2>1 DEF OthersAt
    <3> HIDE DEF O, W
    <3>3. /\ IsFiniteSet(O) /\ Cardinality(O) \in Nat
          /\ IsFiniteSet(W) /\ Cardinality(W) \in Nat
      BY <1>7, <3>2, SubsetSize, FS_Subset, FS_CardinalityType
    <3>4. Cardinality(O \cup {n}) = Cardinality(O) + 1 /\ Cardinality(W \cup {a}) = Cardinality(W) + 1
      BY <3>2, <3>3, FS_AddElement
    <3>5. Count(timeSyncNodes[k], t) \in Nat
      <4>1. timeSyncNodes[k] \in Seq(Minutes)
        BY DEF VoteInv, CountInv, TypeOK
      <4> QED
        BY <4>1, CountAppend
    <3>6. CASE t = syncTime[n]
      <4>1. /\ Cardinality(OthersAt(k, t)') = Cardinality(O) + 1
            /\ Cardinality({m \in net'[k] : m.time = t}) = Cardinality(W) + 1
        BY <3>2, <3>4, <3>6
      <4> QED
        BY <3>1, <3>3, <3>5, <4>1
    <3>7. CASE t # syncTime[n]
      <4>1. /\ Cardinality(OthersAt(k, t)') = Cardinality(O)
            /\ Cardinality({m \in net'[k] : m.time = t}) = Cardinality(W)
        BY <3>2, <3>7
      <4> QED
        BY <3>1, <4>1
    <3> QED
      BY <3>6, <3>7
  <2>2. ASSUME ~timeSynced[n], NEW t \in Minutes
        PROVE  Count(timeSyncNodes[n], t) + Cardinality({m \in net'[n] : m.time = t})
                 = Cardinality(OthersAt(n, t)')
    BY <1>1, <1>11, <2>2 DEF VoteInv, CountedAll
  <2> QED
    BY <1>1, <2>1, <2>2 DEF CountedAll
<1>18. OwnTime'
  BY <1>1, <1>3, <1>4 DEF VoteInv, OwnTime
<1>19. MajorityKept'
  BY <1>1, <1>14, <1>15 DEF MajorityKept
<1> QED
  BY <1>9, <1>10, <1>13, <1>16, <1>17, <1>18, <1>19 DEF VoteInv, CountInv

\* A message less on its way
LEMMA OneLess ==
  ASSUME VoteInv, NEW n \in Nodes, NEW m \in net[n], net' = [net EXCEPT ![n] = @ \ {m}]
  PROVE  /\ net' \in [Nodes -> SUBSET [src : Nodes, time : Minutes]]
         /\ net'[n] = net[n] \ {m} /\ \A k \in Nodes \ {n} : net'[k] = net[k]
         /\ m.time \in Minutes
         /\ IsFiniteSet(net'[n]) /\ Cardinality(net'[n]) \in Nat
         /\ Cardinality(net[n]) = Cardinality(net'[n]) + 1
         /\ \A t \in Minutes :
              /\ Cardinality({x \in net'[n] : x.time = t}) \in Nat
              /\ m.time = t => Cardinality({x \in net[n] : x.time = t})
                                 = Cardinality({x \in net'[n] : x.time = t}) + 1
              /\ m.time # t => Cardinality({x \in net[n] : x.time = t})
                                 = Cardinality({x \in net'[n] : x.time = t})
<1>1. net \in [Nodes -> SUBSET [src : Nodes, time : Minutes]] /\ IsFiniteSet(net[n])
  BY DEF VoteInv, CountInv, TypeOK, OnItsWay
<1>2. /\ net' \in [Nodes -> SUBSET [src : Nodes, time : Minutes]]
      /\ net'[n] = net[n] \ {m} /\ \A k \in Nodes \ {n} : net'[k] = net[k]
      /\ m.time \in Minutes
  BY <1>1
<1>3. /\ IsFiniteSet(net'[n]) /\ Cardinality(net'[n]) \in Nat
      /\ Cardinality(net[n]) = Cardinality(net'[n]) + 1
  <2>1. IsFiniteSet(net[n] \ {m}) /\ Cardinality(net[n] \ {m}) = Cardinality(net[n]) - 1
    BY <1>1, FS_RemoveElement
  <2>2. Cardinality(net[n]) \in Nat /\ Cardinality(net[n] \ {m}) \in Nat
    BY <1>1, <2>1, FS_CardinalityType
  <2> QED
    BY <1>2, <2>1, <2>2
<1>4. ASSUME NEW t \in Minutes
      PROVE  /\ Cardinality({x \in net'[n] : x.time = t}) \in Nat
             /\ m.time = t => Cardinality({x \in net[n] : x.time = t})
                                = Cardinality({x \in net'[n] : x.time = t}) + 1
             /\ m.time # t => Cardinality({x \in net[n] : x.time = t})
                                = Cardinality({x \in net'[n] : x.time = t})
  <2> DEFINE W == {x \in net[n] : x.time = t}
             V == {x \in net'[n] : x.time = t}
  <2>1. /\ W \in SUBSET net[n] /\ V \in SUBSET net'[n] /\ m \notin V
        /\ m.time = t => W = V \cup {m}
        /\ m.time # t => W = V
    BY <1>2
  <2> HIDE DEF V, W
  <2>2. IsFiniteSet(V) /\ Cardinality(V) \in Nat
    BY <1>3, <2>1, FS_Subset, FS_CardinalityType
  <2>3. Cardinality(V \cup {m}) = Cardinality(V) + 1
    BY <2>1, <2>2, FS_AddElement
  <2>4. /\ m.time = t => Cardinality(W) = Cardinality(V) + 1
        /\ m.time # t => Cardinality(W) = Cardinality(V)
    BY <2>1, <2>3
  <2> QED
    BY <2>2, <2>4 DEF V, W
<1> QED
  BY <1>2, <1>3, <1>4

\* A node that is synchronised ignores what it receives
LEMMA IgnoreStep ==
  ASSUME VoteInv, NEW n \in Nodes, NEW m \in net[n], ReceiveTime(n, m), timeSynced[n]
  PROVE  VoteInv'
<1>1. /\ net' = [net EXCEPT ![n] = @ \ {m}]
      /\ UNCHANGED <<now, pc, since, syncTime, syncedTime, timeSynced, timeSyncNodes, adapting, alive,
                     joined>>
  BY DEF ReceiveTime, handlerVars, syncVars
<1>2. /\ net' \in [Nodes -> SUBSET [src : Nodes, time : Minutes]]
      /\ net'[n] = net[n] \ {m} /\ \A k \in Nodes \ {n} : net'[k] = net[k]
      /\ IsFiniteSet(net'[n]) /\ Cardinality(net'[n]) \in Nat
      /\ Cardinality(net[n]) = Cardinality(net'[n]) + 1
  BY <1>1, OneLess
<1>3. SameAnnounced
  BY <1>1 DEF SameAnnounced, Announced
<1>4. TypeOK' /\ DecidedFirst'
  BY <1>1, <1>2 DEF VoteInv, CountInv, TypeOK, DecidedFirst
<1>5. OnItsWay'
  BY <1>1, <1>2 DEF VoteInv, CountInv, OnItsWay, Announced
<1>6. CountedOnce'
  <2>1. ASSUME NEW k \in Nodes
        PROVE  Len(timeSyncNodes[k]) + Cardinality(net'[k]) <= Cardinality(Others(k))
    <3>1. Len(timeSyncNodes[k]) + Cardinality(net[k]) <= Cardinality(Others(k))
      BY DEF VoteInv, CountInv, CountedOnce
    <3>2. Len(timeSyncNodes[k]) \in Nat /\ Cardinality(Others(k)) \in Nat
      BY OthersSize DEF VoteInv, CountInv, TypeOK
    <3>3. CASE k = n
      <4>1. Cardinality(net'[k]) \in Nat /\ Cardinality(net[k]) = Cardinality(net'[k]) + 1
        BY <1>2, <3>3
      <4>2. \A a, b, c, d \in Nat : c = b + 1 /\ a + c <= d => a + b <= d
        OBVIOUS
      <4>3. Cardinality(net[k]) \in Nat
        BY <4>1
      <4> QED
        BY <3>1, <3>2, <4>1, <4>2, <4>3
    <3>4. CASE k # n
      BY <1>2, <3>1, <3>4
    <3> QED
      BY <3>3, <3>4
  <2> QED
    BY <1>1, <1>3, <2>1, SameOthers DEF CountedOnce
<1>7. ComparedLast'
  BY <1>1, <1>3, SameOthers DEF VoteInv, CountInv, ComparedLast, SameAnnounced
<1>8. CountedAll'
  BY <1>1, <1>2, <1>3, SameOthers DEF VoteInv, CountedAll
<1>9. OwnTime'
  BY <1>1, <1>3 DEF VoteInv, OwnTime, SameAnnounced
<1>10. MajorityKept'
  BY <1>1, <1>3, SameOthers DEF VoteInv, MajorityKept
<1> QED
  BY <1>4, <1>5, <1>6, <1>7, <1>8, <1>9, <1>10 DEF VoteInv, CountInv

\* What the step of a node that compares, or only receives, does to the node
LEMMA CompareTypes ==
  ASSUME VoteInv, NEW n \in Nodes, NEW list \in Seq(Minutes),
         CompareTimes(n, list) \/ UNCHANGED <<timeSynced, adapting, alive, joined>>
  PROVE  /\ timeSynced' \in [Nodes -> BOOLEAN] /\ alive' \in [Nodes -> BOOLEAN]
         /\ joined' \in [Nodes -> BOOLEAN] /\ adapting' \in [Nodes -> Times]
         /\ \A k \in Nodes \ {n} : /\ timeSynced'[k] = timeSynced[k] /\ adapting'[k] = adapting[k]
                                   /\ joined'[k] = joined[k]
<1>1. /\ timeSynced \in [Nodes -> BOOLEAN] /\ alive \in [Nodes -> BOOLEAN]
      /\ joined \in [Nodes -> BOOLEAN] /\ adapting \in [Nodes -> Times]
  BY DEF VoteInv, CountInv, TypeOK
<1>2. Announced(n) \in BOOLEAN /\ Major(list) \subseteq Minutes /\ Minutes \subseteq Times
  BY MinuteTypes DEF Announced, Major
<1>3. /\ UNCHANGED joined \/ joined' = [joined EXCEPT ![n] = Announced(n)]
      /\ UNCHANGED timeSynced \/ timeSynced' = [timeSynced EXCEPT ![n] = TRUE]
      /\ UNCHANGED alive \/ alive' = [alive EXCEPT ![n] = FALSE]
      /\ UNCHANGED adapting \/ \E t \in Major(list) : adapting' = [adapting EXCEPT ![n] = t]
  BY DEF CompareTimes
<1>4. joined' \in [Nodes -> BOOLEAN] /\ \A k \in Nodes \ {n} : joined'[k] = joined[k]
  BY <1>1, <1>2, <1>3
<1>5. timeSynced' \in [Nodes -> BOOLEAN] /\ \A k \in Nodes \ {n} : timeSynced'[k] = timeSynced[k]
  BY <1>1, <1>3
<1>6. alive' \in [Nodes -> BOOLEAN]
  BY <1>1, <1>3
<1>7. adapting' \in [Nodes -> Times] /\ \A k \in Nodes \ {n} : adapting'[k] = adapting[k]
  BY <1>1, <1>2, <1>3
<1> QED
  BY <1>4, <1>5, <1>6, <1>7

LEMMA ReceiveStep ==
  ASSUME VoteInv, NEW n \in Nodes, NEW m \in net[n], ReceiveTime(n, m), ~timeSynced[n]
  PROVE  VoteInv'
<1> DEFINE list == Append(timeSyncNodes[n], m.time)
<1>1. /\ adapting[n] = NoTime /\ net' = [net EXCEPT ![n] = @ \ {m}]
      /\ timeSyncNodes' = [timeSyncNodes EXCEPT ![n] = list]
      /\ IF AllReceived(list) THEN CompareTimes(n, list)
         ELSE UNCHANGED <<timeSynced, adapting, alive, joined>>
      /\ UNCHANGED <<now, pc, since, syncTime, syncedTime>>
  BY DEF ReceiveTime, handlerVars
<1>2. /\ net' \in [Nodes -> SUBSET [src : Nodes, time : Minutes]]
      /\ net'[n] = net[n] \ {m} /\ \A k \in Nodes \ {n} : net'[k] = net[k]
      /\ m.time \in Minutes
      /\ IsFiniteSet(net'[n]) /\ Cardinality(net'[n]) \in Nat
      /\ Cardinality(net[n]) = Cardinality(net'[n]) + 1
  BY <1>1, OneLess
<1>3. timeSyncNodes \in [Nodes -> Seq(Minutes)]
  BY DEF VoteInv, CountInv, TypeOK
<1>4. /\ list \in Seq(Minutes) /\ Len(list) = Len(timeSyncNodes[n]) + 1
      /\ \A t \in Minutes : /\ Count(timeSyncNodes[n], t) \in Nat
                            /\ Count(list, t) = IF t = m.time THEN Count(timeSyncNodes[n], t) + 1
                                                ELSE Count(timeSyncNodes[n], t)
  <2>1. timeSyncNodes[n] \in Seq(Minutes)
    BY <1>3
  <2> QED
    BY <1>2, <2>1, CountAppend
<1> HIDE DEF list
<1>5. /\ timeSyncNodes' \in [Nodes -> Seq(Minutes)] /\ timeSyncNodes'[n] = list
      /\ \A k \in Nodes \ {n} : timeSyncNodes'[k] = timeSyncNodes[k]
  BY <1>1, <1>3, <1>4
<1>6. /\ timeSynced' \in [Nodes -> BOOLEAN] /\ alive' \in [Nodes -> BOOLEAN]
      /\ joined' \in [Nodes -> BOOLEAN] /\ adapting' \in [Nodes -> Times]
      /\ \A k \in Nodes \ {n} : /\ timeSynced'[k] = timeSynced[k] /\ adapting'[k] = adapting[k]
                                /\ joined'[k] = joined[k]
  BY <1>1, <1>4, CompareTypes
<1>7. SameAnnounced
  BY <1>1 DEF SameAnnounced, Announced
<1>8. TypeOK' /\ DecidedFirst'
  BY <1>1, <1>2, <1>5, <1>6 DEF VoteInv, CountInv, TypeOK, DecidedFirst
<1>9. OnItsWay'
  BY <1>1, <1>2 DEF VoteInv, CountInv, OnItsWay, Announced
<1>10. Len(list) + Cardinality(net'[n]) <= Cardinality(Others(n))
  <2>1. Len(timeSyncNodes[n]) + Cardinality(net[n]) <= Cardinality(Others(n))
    BY DEF VoteInv, CountInv, CountedOnce
  <2>2. Len(timeSyncNodes[n]) \in Nat /\ Cardinality(Others(n)) \in Nat
    BY <1>3, OthersSize
  <2> QED
    BY <1>2, <1>4, <2>1, <2>2
<1>11. CountedOnce'
  <2>1. \A k \in Nodes : Len(timeSyncNodes'[k]) + Cardinality(net'[k]) <= Cardinality(Others(k))
    BY <1>2, <1>5, <1>10 DEF VoteInv, CountInv, CountedOnce
  <2> QED
    BY <1>7, <2>1, SameOthers DEF CountedOnce
<1>12. \A t \in Minutes :
         Count(list, t) + Cardinality({x \in net'[n] : x.time = t}) = Cardinality(OthersAt(n, t))
  <2> SUFFICES ASSUME NEW t \in Minutes
               PROVE  Count(list, t) + Cardinality({x \in net'[n] : x.time = t})
                        = Cardinality(OthersAt(n, t))
    OBVIOUS
  <2>1. Count(timeSyncNodes[n], t) + Cardinality({x \in net[n] : x.time = t})
          = Cardinality(OthersAt(n, t))
    BY DEF VoteInv, CountedAll
  <2>2. /\ Cardinality({x \in net'[n] : x.time = t}) \in Nat
        /\ m.time = t => Cardinality({x \in net[n] : x.time = t})
                           = Cardinality({x \in net'[n] : x.time = t}) + 1
        /\ m.time # t => Cardinality({x \in net[n] : x.time = t})
                           = Cardinality({x \in net'[n] : x.time = t})
    BY <1>1, OneLess
  <2>3. CASE m.time = t
    BY <1>4, <2>1, <2>2, <2>3
  <2>4. CASE m.time # t
    BY <1>4, <2>1, <2>2, <2>4
  <2> QED
    BY <2>3, <2>4
<1>13. CountedAll'
  <2>1. ASSUME NEW k \in Nodes, ~timeSynced'[k], NEW t \in Minutes
        PROVE  Count(timeSyncNodes'[k], t) + Cardinality({x \in net'[k] : x.time = t})
                 = Cardinality(OthersAt(k, t))
    <3>1. CASE k = n
      BY <1>5, <1>12, <3>1
    <3>2. CASE k # n
      <4>1. net'[k] = net[k] /\ timeSyncNodes'[k] = timeSyncNodes[k] /\ ~timeSynced[k]
        BY <1>2, <1>5, <1>6, <2>1, <3>2
      <4>2. Count(timeSyncNodes[k], t) + Cardinality({x \in net[k] : x.time = t})
              = Cardinality(OthersAt(k, t))
        BY <4>1 DEF VoteInv, CountedAll
      <4> QED
        BY <4>1, <4>2
    <3> QED
      BY <3>1, <3>2
  <2> QED
    BY <1>7, <2>1, SameOthers DEF CountedAll
<1>14. OwnTime'
  BY <1>1, <1>6, <1>7 DEF VoteInv, OwnTime, SameAnnounced
<1>15. ~joined[n]
  BY <1>1 DEF VoteInv, CountInv, ComparedLast
<1>16. CASE ~AllReceived(list)
  <2>1. UNCHANGED <<timeSynced, adapting, joined>>
    BY <1>1, <1>16
  <2>2. ComparedLast'
    BY <1>7, <2>1, SameOthers DEF VoteInv, CountInv, ComparedLast, SameAnnounced
  <2>3. MajorityKept'
    BY <1>1, <1>7, <2>1, SameOthers DEF VoteInv, MajorityKept
  <2> QED
    BY <1>8, <1>9, <1>11, <1>13, <1>14, <2>2, <2>3 DEF VoteInv, CountInv
<1>17. CASE AllReceived(list)
  <2>1. CompareTimes(n, list) /\ Len(list) = N - 1
    BY <1>1, <1>17, NodesSize DEF AllReceived
  <2>2. Others(n) = Nodes \ {n} /\ Cardinality(net'[n]) = 0
    <3>1. Cardinality(Others(n)) \in Nat /\ Cardinality(Others(n)) <= N - 1 /\ N \in Nat
      BY OthersSize, NodesSize
    <3>2. Cardinality(Others(n)) = N - 1 /\ Cardinality(net'[n]) = 0
      BY <1>2, <1>10, <2>1, <3>1
    <3> QED
      BY <3>2, OthersSize
  <2>3. \A t \in Minutes : Count(list, t) = Cardinality(OthersAt(n, t))
    <3>1. net'[n] = {}
      BY <1>2, <2>2, FS_EmptySet
    <3>2. ASSUME NEW t \in Minutes PROVE Count(list, t) = Cardinality(OthersAt(n, t))
      <4>1. {x \in net'[n] : x.time = t} = {}
        BY <3>1
      <4>2. Cardinality({x \in net'[n] : x.time = t}) = 0
        BY <4>1, FS_EmptySet
      <4>3. Count(list, t) \in Nat
        BY <1>4
      <4> QED
        BY <1>12, <4>2, <4>3
    <3> QED
      BY <3>2
  <2>4. /\ adapting'[n] # NoTime => ~timeSynced'[n]
        /\ joined'[n] => Announced(n) /\ (timeSynced'[n] \/ adapting'[n] # NoTime)
    <3>1. timeSynced \in [Nodes -> BOOLEAN] /\ joined \in [Nodes -> BOOLEAN] /\ adapting \in [Nodes -> Times]
      BY DEF VoteInv, CountInv, TypeOK
    <3>2. CASE UNCHANGED <<adapting, alive>> /\ timeSynced' = [timeSynced EXCEPT ![n] = TRUE]
               /\ joined' = [joined EXCEPT ![n] = Announced(n)]
      BY <1>1, <3>1, <3>2
    <3>3. CASE /\ \E t \in Major(list) : adapting' = [adapting EXCEPT ![n] = t]
               /\ joined' = [joined EXCEPT ![n] = Announced(n)] /\ UNCHANGED <<timeSynced, alive>>
      BY <3>1, <3>3, MinuteTypes DEF Major
    <3>4. CASE UNCHANGED <<timeSynced, adapting, joined>>
      BY <1>1, <1>15, <3>4
    <3> QED
      BY <2>1, <3>2, <3>3, <3>4 DEF CompareTimes
  <2>5. ComparedLast'
    <3>1. \A k \in Nodes : (joined[k] => Announced(k)') /\ (Announced(k)' <=> Announced(k)) /\ Others(k)' = Others(k)
      BY <1>7, SameOthers DEF VoteInv, CountInv, ComparedLast, SameAnnounced
    <3> QED
      BY <1>6, <2>2, <2>4, <3>1 DEF VoteInv, CountInv, ComparedLast
  <2>6. ASSUME joined'[n], NEW t \in Minutes, Majority(t)
        PROVE  IF timeSynced'[n] THEN syncedTime[n] = t ELSE adapting'[n] = t
    <3>1. Announced(n) /\ syncedTime[n] = syncTime[n] /\ syncTime[n] \in Minutes
      BY <2>4, <2>6, MinuteTypes DEF VoteInv, CountInv, OwnTime, TypeOK, Announced
    <3>2. /\ ~Minority(list, syncTime[n]) => syncTime[n] = t
          /\ Minority(list, syncTime[n]) => \A x \in Major(list) : x = t
      BY <1>4, <2>1, <2>3, <2>6, <3>1, Vote
    <3>3. timeSynced \in [Nodes -> BOOLEAN] /\ adapting \in [Nodes -> Times]
      BY DEF VoteInv, CountInv, TypeOK
    <3>4. CASE ~Minority(list, syncedTime[n])
      <4>1. timeSynced' = [timeSynced EXCEPT ![n] = TRUE]
        BY <2>1, <3>4 DEF CompareTimes
      <4> QED
        BY <3>1, <3>2, <3>3, <3>4, <4>1
    <3>5. CASE Minority(list, syncedTime[n]) /\ Major(list) # {}
      <4>1. UNCHANGED timeSynced /\ \E x \in Major(list) : adapting' = [adapting EXCEPT ![n] = x]
        BY <2>1, <3>5 DEF CompareTimes
      <4> QED
        BY <3>1, <3>2, <3>3, <3>5, <4>1
    <3>6. CASE Minority(list, syncedTime[n]) /\ Major(list) = {}
      <4>1. UNCHANGED joined
        BY <2>1, <3>6 DEF CompareTimes
      <4> QED
        BY <1>15, <2>6, <4>1
    <3> QED
      BY <3>4, <3>5, <3>6
  <2>7. MajorityKept'
    <3>1. ASSUME NEW k \in Nodes, joined'[k], NEW t \in Minutes, Majority(t)
          PROVE  IF timeSynced'[k] THEN syncedTime[k] = t ELSE adapting'[k] = t
      <4>1. CASE k = n
        BY <2>6, <3>1, <4>1
      <4>2. CASE k # n
        <5>1. timeSynced'[k] = timeSynced[k] /\ adapting'[k] = adapting[k] /\ joined[k]
          BY <1>6, <3>1, <4>2
        <5>2. IF timeSynced[k] THEN syncedTime[k] = t ELSE adapting[k] = t
          BY <3>1, <5>1 DEF VoteInv, MajorityKept
        <5> QED
          BY <5>1, <5>2
      <4> QED
        BY <4>1, <4>2
    <3> QED
      BY <1>1, <1>7, <3>1, SameOthers DEF MajorityKept
  <2> QED
    BY <1>8, <1>9, <1>11, <1>13, <1>14, <2>5, <2>7 DEF VoteInv, CountInv
<1> QED
  BY <1>16, <1>17

LEMMA VoteStep == VoteInv /\ [Next]_vars => VoteInv'
<1> SUFFICES ASSUME VoteInv, [Next]_vars PROVE VoteInv'
  OBVIOUS
<1>1. CASE \E n \in Nodes : NodeStep(n)
  BY <1>1, DecideStep, AnnounceStep, IgnoreStep, ReceiveStep, AdaptStep DEF NodeStep
<1>2. CASE Tick \/ UNCHANGED vars
  BY <1>2, TickStep
<1> QED
  BY <1>1, <1>2 DEF Next

LEMMA VoteAlways == Spec => []VoteInv
BY VoteInit, VoteStep, PTL DEF Spec

(***************************************************************************)
(* Type correctness: the times that are announced and adopted begin within *)
(* a minute of the end of the clock.                                       *)
(***************************************************************************)
THEOREM TypeCorrect == Spec => []TypeOK
<1>1. VoteInv => TypeOK
  BY DEF VoteInv, CountInv
<1> QED
  BY <1>1, VoteAlways, PTL

(***************************************************************************)
(* A node with a schedule has heard of every other node: the number of     *)
(* received times is compared with N - 1, and nobody announces twice.      *)
(***************************************************************************)
THEOREM NobodyLeftBehind == Spec => []NoneLeftBehind
<1>1. VoteInv => NoneLeftBehind
  BY DEF VoteInv, CountInv, ComparedLast, Others, NoneLeftBehind
<1> QED
  BY <1>1, VoteAlways, PTL

(***************************************************************************)
(* The vote, for every number of nodes: half of the other nodes, rounded,  *)
(* is enough to keep the own time and never enough against a majority of   *)
(* all, whose time findMajorElementInt64 then returns.                     *)
(***************************************************************************)
THEOREM MajorityRules == Spec => []MajorityWins
<1>1. VoteInv => MajorityWins
  BY DEF VoteInv, MajorityKept, Majority, MajorityWins
<1> QED
  BY <1>1, VoteAlways, PTL

-----------------------------------------------------------------------------
(* Everybody starts *)

\* Until a node starts, what the others announced is counted or on its way
HeardAll ==
  \A n \in Nodes : ~timeSynced[n] =>
    Len(timeSyncNodes[n]) + Cardinality(net[n]) = Cardinality(Others(n))

HeardFrom ==
  \A n \in Nodes : \A i \in DOMAIN timeSyncNodes[n] :
    \E m \in Nodes \ {n} : Announced(m) /\ timeSyncNodes[n][i] = syncTime[m]

\* The schedule has the own time or that of most others
TakenOver ==
  \A n \in Nodes :
    /\ ~Announced(n) /\ ~timeSynced[n] => syncedTime[n] = NoTime
    /\ adapting[n] # NoTime => adapting[n] \in Major(timeSyncNodes[n])
    /\ timeSynced[n] => \/ Announced(n) /\ syncedTime[n] = syncTime[n]
                        \/ syncedTime[n] \in Major(timeSyncNodes[n])

\* The last of the times decides, and only that one
ComparedInTheEnd ==
  \A n \in Nodes :
    IF AllReceived(timeSyncNodes[n])
    THEN \/ timeSynced[n] \/ (alive[n] /\ adapting[n] # NoTime)
         \/ ~alive[n] /\ Major(timeSyncNodes[n]) = {}
    ELSE alive[n] /\ ~timeSynced[n] /\ adapting[n] = NoTime

StartInv == VoteInv /\ HeardAll /\ HeardFrom /\ TakenOver /\ ComparedInTheEnd

HasWork(n) == net[n] # {} \/ adapting[n] # NoTime

\* Who has not started has a time to read or to adopt, found no majority, or misses a node
WaitsForReason ==
  \A n \in Nodes :
    \/ timeSynced[n] \/ (alive[n] /\ HasWork(n))
    \/ ~alive[n] /\ Major(timeSyncNodes[n]) = {}
    \/ \E m \in Nodes \ {n} : ~Announced(m)

AgreedOn(t) == \A n \in Nodes : Announced(n) /\ syncTime[n] = t

\* Once all have decided on one minute, a node has started then or is about to
StartsThen ==
  \A t \in Minutes : AgreedOn(t) =>
    \A n \in Nodes : IF timeSynced[n] THEN syncedTime[n] = t ELSE alive[n] /\ HasWork(n)

LEMMA StartTypes ==
  ASSUME VoteInv, NEW n \in Nodes
  PROVE  /\ timeSyncNodes[n] \in Seq(Minutes) /\ Len(timeSyncNodes[n]) \in Nat
         /\ DOMAIN timeSyncNodes[n] = 1 .. Len(timeSyncNodes[n])
         /\ IsFiniteSet(net[n]) /\ Cardinality(net[n]) \in Nat
<1>1. timeSyncNodes[n] \in Seq(Minutes) /\ IsFiniteSet(net[n])
  BY DEF VoteInv, CountInv, TypeOK, OnItsWay
<1> QED
  BY <1>1, FS_CardinalityType

LEMMA StartInit == Init => StartInv
<1> SUFFICES ASSUME Init PROVE StartInv
  OBVIOUS
<1>1. VoteInv
  BY VoteInit
<1>2. \A n \in Nodes : /\ timeSyncNodes[n] = <<>> /\ net[n] = {} /\ alive[n] /\ ~timeSynced[n]
                       /\ adapting[n] = NoTime /\ syncedTime[n] = NoTime /\ ~Announced(n)
  BY DEF Init, Announced
<1>3. HeardAll
  <2> SUFFICES ASSUME NEW n \in Nodes
               PROVE  Len(timeSyncNodes[n]) + Cardinality(net[n]) = Cardinality(Others(n))
    BY DEF HeardAll
  <2>1. Others(n) = {} /\ Len(timeSyncNodes[n]) = 0 /\ net[n] = {}
    BY <1>2 DEF Others
  <2> QED
    BY <2>1, FS_EmptySet
<1>4. HeardFrom /\ TakenOver
  BY <1>2 DEF HeardFrom, TakenOver
<1>5. ComparedInTheEnd
  BY <1>2, NodesSize DEF ComparedInTheEnd, AllReceived
<1> QED
  BY <1>1, <1>3, <1>4, <1>5 DEF StartInv

LEMMA StartQuiet ==
  ASSUME StartInv, SameAnnounced,
         UNCHANGED <<syncedTime, timeSynced, timeSyncNodes, adapting, alive, net>>
  PROVE  HeardAll' /\ HeardFrom' /\ TakenOver' /\ ComparedInTheEnd'
<1>1. HeardAll'
  BY SameOthers DEF StartInv, HeardAll
<1>2. HeardFrom'
  BY DEF StartInv, HeardFrom, SameAnnounced
<1>3. TakenOver'
  BY DEF StartInv, TakenOver, SameAnnounced
<1>4. ComparedInTheEnd'
  BY DEF StartInv, ComparedInTheEnd
<1> QED
  BY <1>1, <1>2, <1>3, <1>4

LEMMA StartDecide ==
  ASSUME StartInv, NEW n \in Nodes, PassRound1(n) \/ StopWaiting(n)
  PROVE  HeardAll' /\ HeardFrom' /\ TakenOver' /\ ComparedInTheEnd'
<1>1. /\ pc[n] \in {"round1", "wait"} /\ syncTime[n] = NoTime
      /\ UNCHANGED <<syncedTime, timeSynced, timeSyncNodes, adapting, alive, net>>
  BY DEF PassRound1, StopWaiting, syncVars, StartInv, VoteInv, CountInv, DecidedFirst
<1>2. /\ \A k \in Nodes \ {n} : pc'[k] = pc[k] /\ syncTime'[k] = syncTime[k]
      /\ pc'[n] \in {"wait", "announce"} \/ (pc'[n] = "done" /\ syncTime'[n] = NoTime)
  BY <1>1 DEF PassRound1, StopWaiting, StartInv, VoteInv, CountInv, TypeOK
<1>3. SameAnnounced
  BY <1>1, <1>2 DEF SameAnnounced, Announced
<1> QED
  BY <1>1, <1>3, StartQuiet

LEMMA StartAdapt ==
  ASSUME StartInv, NEW n \in Nodes, AdaptTime(n)
  PROVE  HeardAll' /\ HeardFrom' /\ TakenOver' /\ ComparedInTheEnd'
<1>1. /\ adapting[n] # NoTime /\ ~timeSynced[n]
      /\ UNCHANGED <<pc, syncTime, timeSyncNodes, alive, net>>
  BY DEF AdaptTime, handlerVars, StartInv, VoteInv, CountInv, ComparedLast
<1>2. /\ syncedTime'[n] = adapting[n] /\ timeSynced'[n] /\ adapting'[n] = NoTime
      /\ \A k \in Nodes \ {n} : /\ syncedTime'[k] = syncedTime[k]
                                /\ timeSynced'[k] = timeSynced[k] /\ adapting'[k] = adapting[k]
  BY DEF AdaptTime, Adopted, StartInv, VoteInv, CountInv, TypeOK
<1>3. SameAnnounced
  BY <1>1 DEF SameAnnounced, Announced
<1>4. HeardAll'
  BY <1>1, <1>2, <1>3, SameOthers DEF StartInv, HeardAll
<1>5. HeardFrom'
  BY <1>1, <1>3 DEF StartInv, HeardFrom, SameAnnounced
<1>6. TakenOver'
  BY <1>1, <1>2, <1>3 DEF StartInv, TakenOver, SameAnnounced
<1>7. ComparedInTheEnd'
  <2>1. AllReceived(timeSyncNodes[n])
    BY <1>1 DEF StartInv, ComparedInTheEnd
  <2> QED
    BY <1>1, <1>2, <2>1 DEF StartInv, ComparedInTheEnd
<1> QED
  BY <1>4, <1>5, <1>6, <1>7

LEMMA StartAnnounce ==
  ASSUME StartInv, NEW n \in Nodes, AnnounceTime(n)
  PROVE  HeardAll' /\ HeardFrom' /\ TakenOver' /\ ComparedInTheEnd'
<1> DEFINE a == [src |-> n, time |-> syncTime[n]]
<1>1. /\ \A k \in Nodes \ {n} : net'[k] = net[k] \cup {a}
      /\ net'[n] = net[n]
      /\ UNCHANGED <<syncTime, timeSynced, timeSyncNodes, adapting, alive>>
  BY DEF AnnounceTime, syncVars
<1>2. /\ pc'[n] = "done" /\ syncedTime'[n] = syncTime[n] /\ pc[n] = "announce"
      /\ \A k \in Nodes \ {n} : pc'[k] = pc[k] /\ syncedTime'[k] = syncedTime[k]
  BY DEF AnnounceTime, StartInv, VoteInv, CountInv, TypeOK
<1>3. syncTime[n] # NoTime /\ ~Announced(n)
  BY <1>2, MinuteTypes DEF StartInv, VoteInv, CountInv, DecidedFirst, Announced
<1>4. \A k \in Nodes : Announced(k)' <=> (k = n \/ Announced(k))
  BY <1>1, <1>2, <1>3 DEF Announced
<1>5. \A k \in Nodes : a \notin net[k]
  BY <1>3 DEF StartInv, VoteInv, CountInv, OnItsWay
<1> HIDE DEF a
<1>6. HeardAll'
  <2> SUFFICES ASSUME NEW k \in Nodes, ~timeSynced[k]
               PROVE  Len(timeSyncNodes[k]) + Cardinality(net'[k]) = Cardinality(Others(k)')
    BY <1>1 DEF HeardAll
  <2>1. Len(timeSyncNodes[k]) + Cardinality(net[k]) = Cardinality(Others(k))
    BY DEF StartInv, HeardAll
  <2>2. CASE k = n
    <3>1. Others(k)' = Others(k)
      BY <1>4, <2>2 DEF Others
    <3> QED
      BY <1>1, <2>1, <2>2, <3>1
  <2>3. CASE k # n
    <3>1. n \notin Others(k) /\ Others(k)' = Others(k) \cup {n}
      BY <1>3, <1>4, <2>3 DEF Others
    <3>2. IsFiniteSet(Others(k)) /\ Cardinality(Others(k)) \in Nat
      BY OthersSize
    <3>3. Cardinality(Others(k)') = Cardinality(Others(k)) + 1
      BY <3>1, <3>2, FS_AddElement
    <3>4. net'[k] = net[k] \cup {a} /\ a \notin net[k]
      BY <1>1, <1>5, <2>3
    <3>5. IsFiniteSet(net[k]) /\ Cardinality(net[k]) \in Nat /\ Len(timeSyncNodes[k]) \in Nat
      BY StartTypes DEF StartInv
    <3>6. Cardinality(net[k] \cup {a}) = Cardinality(net[k]) + 1
      BY <3>4, <3>5, FS_AddElement
    <3> QED
      BY <2>1, <3>2, <3>3, <3>4, <3>5, <3>6
  <2> QED
    BY <2>2, <2>3
<1>7. HeardFrom'
  BY <1>1, <1>4 DEF StartInv, HeardFrom
<1>8. TakenOver'
  BY <1>1, <1>2, <1>4 DEF StartInv, TakenOver
<1>9. ComparedInTheEnd'
  BY <1>1 DEF StartInv, ComparedInTheEnd
<1> QED
  BY <1>6, <1>7, <1>8, <1>9

LEMMA StartIgnore ==
  ASSUME StartInv, NEW n \in Nodes, NEW m \in net[n], ReceiveTime(n, m), timeSynced[n]
  PROVE  HeardAll' /\ HeardFrom' /\ TakenOver' /\ ComparedInTheEnd'
<1>1. /\ UNCHANGED <<pc, syncTime, syncedTime, timeSynced, timeSyncNodes, adapting, alive>>
      /\ \A k \in Nodes \ {n} : net'[k] = net[k]
  BY DEF ReceiveTime, handlerVars, syncVars, StartInv, VoteInv, CountInv, TypeOK
<1>2. SameAnnounced
  BY <1>1 DEF SameAnnounced, Announced
<1>3. HeardAll'
  BY <1>1, <1>2, SameOthers DEF StartInv, HeardAll
<1>4. HeardFrom'
  BY <1>1, <1>2 DEF StartInv, HeardFrom, SameAnnounced
<1>5. TakenOver'
  BY <1>1, <1>2 DEF StartInv, TakenOver, SameAnnounced
<1>6. ComparedInTheEnd'
  BY <1>1 DEF StartInv, ComparedInTheEnd
<1> QED
  BY <1>3, <1>4, <1>5, <1>6

\* Nobody takes a time that nobody announced
LEMMA NoTimeOutvoted ==
  ASSUME NEW list \in Seq(Minutes)
  PROVE  Minority(list, NoTime)
<1>1. {i \in DOMAIN list : list[i] = NoTime} = {}
  BY MinuteTypes
<1>2. Count(list, NoTime) = 0
  BY <1>1, FS_EmptySet DEF Count
<1> QED
  BY <1>2, NodesSize DEF Minority

LEMMA StartReceive ==
  ASSUME StartInv, NEW n \in Nodes, NEW m \in net[n], ReceiveTime(n, m), ~timeSynced[n]
  PROVE  HeardAll' /\ HeardFrom' /\ TakenOver' /\ ComparedInTheEnd'
<1> DEFINE list == Append(timeSyncNodes[n], m.time)
<1>1. /\ alive[n] /\ adapting[n] = NoTime /\ net' = [net EXCEPT ![n] = @ \ {m}]
      /\ timeSyncNodes' = [timeSyncNodes EXCEPT ![n] = list]
      /\ IF AllReceived(list) THEN CompareTimes(n, list)
         ELSE UNCHANGED <<timeSynced, adapting, alive, joined>>
      /\ UNCHANGED <<pc, syncTime, syncedTime>>
  BY DEF ReceiveTime, handlerVars
<1>2. /\ \A k \in Nodes \ {n} : net'[k] = net[k]
      /\ m.time \in Minutes /\ Cardinality(net'[n]) \in Nat
      /\ Cardinality(net[n]) = Cardinality(net'[n]) + 1
  BY <1>1, OneLess DEF StartInv
<1>3. /\ list \in Seq(Minutes) /\ Len(list) = Len(timeSyncNodes[n]) + 1
      /\ Len(timeSyncNodes[n]) \in Nat
  BY <1>2, StartTypes, CountAppend DEF StartInv
<1>4. /\ timeSyncNodes[n] \in Seq(Minutes)
      /\ \A i \in DOMAIN list : list[i] = m.time
           \/ (i \in DOMAIN timeSyncNodes[n] /\ list[i] = timeSyncNodes[n][i])
  <2>1. timeSyncNodes[n] \in Seq(Minutes)
    BY StartTypes DEF StartInv
  <2> QED
    BY <1>2, <2>1, AppendProperties
<1>5. m.src \in Nodes \ {n} /\ Announced(m.src) /\ m.time = syncTime[m.src]
  BY DEF StartInv, VoteInv, CountInv, OnItsWay, TypeOK
<1> HIDE DEF list
<1>6. /\ timeSyncNodes'[n] = list
      /\ \A k \in Nodes \ {n} : timeSyncNodes'[k] = timeSyncNodes[k]
  BY <1>1, <1>3 DEF StartInv, VoteInv, CountInv, TypeOK
<1>7. SameAnnounced
  BY <1>1 DEF SameAnnounced, Announced
<1>8. \A k \in Nodes \ {n} : /\ timeSynced'[k] = timeSynced[k] /\ adapting'[k] = adapting[k]
                             /\ alive'[k] = alive[k]
  <2>1. \A k \in Nodes \ {n} : timeSynced'[k] = timeSynced[k] /\ adapting'[k] = adapting[k]
    BY <1>1, <1>3, CompareTypes DEF StartInv
  <2>2. \A k \in Nodes \ {n} : alive'[k] = alive[k]
    BY <1>1 DEF CompareTimes, StartInv, VoteInv, CountInv, TypeOK
  <2> QED
    BY <2>1, <2>2
<1>9. HeardAll'
  <2>1. Len(list) + Cardinality(net'[n]) = Cardinality(Others(n))
    <3>1. Len(timeSyncNodes[n]) + Cardinality(net[n]) = Cardinality(Others(n))
      BY DEF StartInv, HeardAll
    <3> QED
      BY <1>2, <1>3, <3>1
  <2>2. \A k \in Nodes \ {n} : ~timeSynced'[k] =>
          Len(timeSyncNodes'[k]) + Cardinality(net'[k]) = Cardinality(Others(k))
    BY <1>2, <1>6, <1>8 DEF StartInv, HeardAll
  <2> QED
    BY <1>6, <1>7, <2>1, <2>2, SameOthers DEF HeardAll
<1>10. HeardFrom'
  <2> SUFFICES ASSUME NEW k \in Nodes, NEW i \in DOMAIN timeSyncNodes'[k]
               PROVE  \E x \in Nodes \ {k} : Announced(x) /\ timeSyncNodes'[k][i] = syncTime[x]
    BY <1>1, <1>7 DEF HeardFrom, SameAnnounced
  <2>1. CASE k = n
    BY <1>4, <1>5, <1>6, <2>1 DEF StartInv, HeardFrom
  <2>2. CASE k # n
    BY <1>6, <2>2 DEF StartInv, HeardFrom
  <2> QED
    BY <2>1, <2>2
<1>11. SUFFICES /\ ~Announced(n) /\ ~timeSynced'[n] => syncedTime[n] = NoTime
                /\ adapting'[n] # NoTime => adapting'[n] \in Major(list)
                /\ timeSynced'[n] => Announced(n) /\ syncedTime[n] = syncTime[n]
                /\ IF AllReceived(list)
                   THEN \/ timeSynced'[n] \/ (alive'[n] /\ adapting'[n] # NoTime)
                        \/ ~alive'[n] /\ Major(list) = {}
                   ELSE alive'[n] /\ ~timeSynced'[n] /\ adapting'[n] = NoTime
  <2>1. TakenOver'
    BY <1>1, <1>6, <1>7, <1>8, <1>11 DEF StartInv, TakenOver, SameAnnounced
  <2>2. ComparedInTheEnd'
    BY <1>6, <1>8, <1>11 DEF StartInv, ComparedInTheEnd
  <2> QED
    BY <1>9, <1>10, <2>1, <2>2
<1>12. /\ ~Announced(n) => syncedTime[n] = NoTime
       /\ Announced(n) => syncedTime[n] = syncTime[n]
  BY DEF StartInv, TakenOver, VoteInv, OwnTime
<1>13. CASE ~AllReceived(list)
  BY <1>1, <1>12, <1>13
<1>14. CASE AllReceived(list)
  <2>1. CompareTimes(n, list)
    BY <1>1, <1>14
  <2>2. /\ timeSynced \in [Nodes -> BOOLEAN] /\ alive \in [Nodes -> BOOLEAN]
        /\ adapting \in [Nodes -> Times]
    BY DEF StartInv, VoteInv, CountInv, TypeOK
  <2>3. CASE ~Minority(list, syncedTime[n])
    <3>1. timeSynced'[n] /\ adapting'[n] = NoTime
      BY <1>1, <2>1, <2>2, <2>3 DEF CompareTimes
    <3>2. Announced(n)
      BY <1>3, <1>12, <2>3, NoTimeOutvoted
    <3> QED
      BY <1>12, <1>14, <3>1, <3>2
  <2>4. CASE Minority(list, syncedTime[n]) /\ Major(list) # {}
    <3>1. ~timeSynced'[n] /\ adapting'[n] \in Major(list) /\ adapting'[n] # NoTime /\ alive'[n]
      BY <1>1, <2>1, <2>2, <2>4, MinuteTypes DEF CompareTimes, Major
    <3> QED
      BY <1>12, <1>14, <3>1
  <2>5. CASE Minority(list, syncedTime[n]) /\ Major(list) = {}
    <3>1. ~timeSynced'[n] /\ adapting'[n] = NoTime /\ ~alive'[n]
      BY <1>1, <2>1, <2>2, <2>5 DEF CompareTimes
    <3> QED
      BY <1>12, <1>14, <2>5, <3>1
  <2> QED
    BY <2>3, <2>4, <2>5
<1> QED
  BY <1>13, <1>14

LEMMA StartStep == StartInv /\ [Next]_vars => StartInv'
<1> SUFFICES ASSUME StartInv, [Next]_vars PROVE StartInv'
  OBVIOUS
<1>1. VoteInv'
  BY VoteStep DEF StartInv
<1>2. CASE \E n \in Nodes : NodeStep(n)
  BY <1>1, <1>2, StartDecide, StartAnnounce, StartIgnore, StartReceive, StartAdapt DEF NodeStep, StartInv
<1>3. CASE Tick \/ UNCHANGED vars
  <2>1. UNCHANGED <<handlerVars, syncedTime, syncVars, net>>
    BY <1>3 DEF Tick, vars
  <2>2. SameAnnounced
    BY <2>1 DEF SameAnnounced, Announced, handlerVars
  <2> QED
    BY <1>1, <2>1, <2>2, StartQuiet DEF StartInv, syncVars
<1> QED
  BY <1>2, <1>3 DEF Next

\* Where all others decided on one minute, it is all a node hears
LEMMA OneTimeHeard ==
  ASSUME StartInv, NEW t \in Minutes, AgreedOn(t), NEW n \in Nodes
  PROVE  /\ Major(timeSyncNodes[n]) \subseteq {t}
         /\ AllReceived(timeSyncNodes[n]) => t \in Major(timeSyncNodes[n])
<1> DEFINE list == timeSyncNodes[n]
<1>1. list \in Seq(Minutes) /\ Len(list) \in Nat /\ DOMAIN list = 1 .. Len(list)
  BY StartTypes DEF StartInv
<1>2. \A i \in DOMAIN list : list[i] = t
  BY DEF StartInv, HeardFrom, AgreedOn
<1>3. N \in Nat /\ N > 1 /\ numOfOtherNodes = N - 1
  BY NodesSize
<1> HIDE DEF list
<1>4. Count(list, t) = Len(list)
  <2>1. {i \in DOMAIN list : list[i] = t} = 1 .. Len(list)
    BY <1>1, <1>2
  <2>2. Cardinality(1 .. Len(list)) = Len(list)
    BY <1>1, FS_Interval
  <2> QED
    BY <2>1, <2>2 DEF Count
<1>5. ASSUME NEW u \in Major(list), u # t PROVE FALSE
  <2>1. {i \in DOMAIN list : list[i] = u} = {}
    BY <1>2, <1>5
  <2>2. Count(list, u) = 0
    BY <2>1, FS_EmptySet DEF Count
  <2>3. 0 > Len(list) \div 2
    BY <2>2 DEF Major
  <2> QED
    BY <1>1, <2>3
<1>6. ASSUME AllReceived(list) PROVE t \in Major(list)
  <2>1. Len(list) > 0
    BY <1>3, <1>6 DEF AllReceived
  <2>2. Len(list) > Len(list) \div 2
    BY <1>1, <2>1
  <2> QED
    BY <1>4, <2>2 DEF Major
<1> QED
  BY <1>5, <1>6 DEF list

\* A node that has not heard of all others is alive, and the rest is on its way to it
LEMMA MissesSomebody ==
  ASSUME StartInv, NEW n \in Nodes, ~AllReceived(timeSyncNodes[n])
  PROVE  alive[n] /\ ~timeSynced[n] /\ (net[n] # {} \/ \E m \in Nodes \ {n} : ~Announced(m))
<1>1. alive[n] /\ ~timeSynced[n]
  BY DEF StartInv, ComparedInTheEnd
<1>2. ASSUME net[n] = {}, \A m \in Nodes \ {n} : Announced(m) PROVE FALSE
  <2>1. Others(n) = Nodes \ {n} /\ Cardinality(net[n]) = 0
    BY <1>2, FS_EmptySet DEF Others
  <2>2. Cardinality(Others(n)) = numOfOtherNodes
    BY <2>1, NodesSize
  <2>3. Len(timeSyncNodes[n]) + Cardinality(net[n]) = Cardinality(Others(n))
    BY <1>1 DEF StartInv, HeardAll
  <2>4. Len(timeSyncNodes[n]) \in Nat
    BY StartTypes DEF StartInv
  <2> QED
    BY <2>1, <2>2, <2>3, <2>4 DEF AllReceived
<1> QED
  BY <1>1, <1>2

LEMMA StartSound ==
  ASSUME StartInv
  PROVE  StartsThen /\ WaitsForReason
<1>1. WaitsForReason
  <2> SUFFICES ASSUME NEW n \in Nodes, ~timeSynced[n], \A m \in Nodes \ {n} : Announced(m)
               PROVE  (alive[n] /\ HasWork(n)) \/ (~alive[n] /\ Major(timeSyncNodes[n]) = {})
    BY DEF WaitsForReason
  <2>1. CASE AllReceived(timeSyncNodes[n])
    BY <2>1 DEF StartInv, ComparedInTheEnd, HasWork
  <2>2. CASE ~AllReceived(timeSyncNodes[n])
    BY <2>2, MissesSomebody DEF HasWork
  <2> QED
    BY <2>1, <2>2
<1>2. StartsThen
  <2> SUFFICES ASSUME NEW t \in Minutes, AgreedOn(t), NEW n \in Nodes
               PROVE  IF timeSynced[n] THEN syncedTime[n] = t ELSE alive[n] /\ HasWork(n)
    BY DEF StartsThen
  <2>1. CASE timeSynced[n]
    BY <2>1, OneTimeHeard DEF StartInv, TakenOver, AgreedOn
  <2>2. CASE ~timeSynced[n]
    <3>1. Announced(n) /\ \A m \in Nodes \ {n} : Announced(m)
      BY DEF AgreedOn
    <3>2. ~(~alive[n] /\ Major(timeSyncNodes[n]) = {})
      <4>1. ~alive[n] => AllReceived(timeSyncNodes[n])
        BY DEF StartInv, ComparedInTheEnd
      <4> QED
        BY <4>1, OneTimeHeard
    <3> QED
      BY <1>1, <2>2, <3>1, <3>2 DEF WaitsForReason
  <2> QED
    BY <2>1, <2>2
<1> QED
  BY <1>1, <1>2

(***************************************************************************)
(* The safety part of AgreedStart, for every number of nodes and delays:   *)
(* once all have decided on one minute, a node that has started did so for *)
(* that minute, and one that has not lives, with a time of another node to *)
(* read or the minute to adopt.  In general a node waits for a reason: an  *)
(* announcement is on its way, some node has not announced any (576), or   *)
(* no time has a majority among those it received.                         *)
(***************************************************************************)
THEOREM AgreedStartsThen == Spec => [](StartsThen /\ WaitsForReason)
BY StartInit, StartStep, StartSound, PTL DEF Spec

=============================================================================
