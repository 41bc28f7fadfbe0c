------------------------------ MODULE TimeSync ------------------------------
(***************************************************************************)
(* How the nodes agree on the time of the first block: the end of round 1  *)
(* in the BUCKET_CHECK handler, the SYNC_TIME handler and                  *)
(* findMajorElementInt64.                                                  *)
(*                                                                         *)
(* Time is counted in units of five seconds, a start time is the number of *)
(* the minute it begins.  All nodes read the same clock.                   *)
(***************************************************************************)
EXTENDS Integers, Sequences, FiniteSets

CONSTANTS
  Nodes,     \* the nodes of the network
  Begin,     \* the times at which a node may have passed round 1
  MaxClock,  \* bound on time
  Prompt     \* TRUE: messages and goroutines take no time

N == Cardinality(Nodes)
numOfOtherNodes == N - 1

ASSUME ClockAssumption ==
  /\ IsFiniteSet(Nodes) /\ N > 1
  /\ Begin \subseteq Nat /\ Begin # {} /\ MaxClock \in Nat
  /\ Prompt \in BOOLEAN

Minute == 12   \* units in a minute
Late == 9      \* the 45th second

NoTime == 0
Minutes == 1 .. MaxClock \div Minute + 1
Times == Minutes \cup {NoTime}

VARIABLES
  now,            \* the clock
  pc,             \* per node: how far the BUCKET_CHECK handler of round 1 is
  since,          \* per node: when it began to wait
  syncTime,       \* per node: the time the handler decided on
  syncedTime,     \* per node: the time the block schedule uses
  timeSynced,     \* per node: the block schedule has been started
  timeSyncNodes,  \* per node: the times received
  adapting,       \* per node: the time a SYNC_TIME handler is about to adopt
  alive,          \* per node: FALSE after a fatal error
  net,            \* per node: announcements not yet delivered
  joined          \* history, per node: had it announced a time when it started the schedule

handlerVars == <<pc, since, syncTime>>
syncVars == <<timeSynced, timeSyncNodes, adapting, alive, joined>>
vars == <<now, handlerVars, syncedTime, syncVars, net>>

TypeOK ==
  /\ now \in 0 .. MaxClock
  /\ pc \in [Nodes -> {"round1", "wait", "announce", "done"}]
  /\ since \in [Nodes -> 0 .. MaxClock]
  /\ syncTime \in [Nodes -> Times] /\ syncedTime \in [Nodes -> Times]
  /\ adapting \in [Nodes -> Times]
  /\ timeSynced \in [Nodes -> BOOLEAN] /\ alive \in [Nodes -> BOOLEAN]
  /\ joined \in [Nodes -> BOOLEAN]
  /\ timeSyncNodes \in [Nodes -> Seq(Minutes)]
  /\ net \in [Nodes -> SUBSET [src : Nodes, time : Minutes]]

Init ==
  /\ now = 0
  /\ pc = [n \in Nodes |-> "round1"]
  /\ since = [n \in Nodes |-> 0]
  /\ syncTime = [n \in Nodes |-> NoTime]
  /\ syncedTime = [n \in Nodes |-> NoTime]
  /\ timeSynced = [n \in Nodes |-> FALSE]
  /\ timeSyncNodes = [n \in Nodes |-> <<>>]
  /\ adapting = [n \in Nodes |-> NoTime]
  /\ alive = [n \in Nodes |-> TRUE]
  /\ net = [n \in Nodes |-> {}]
  /\ joined = [n \in Nodes |-> FALSE]

-----------------------------------------------------------------------------
(* Clock *)

\* Something a node can do now
Pending(n) ==
  \/ net[n] # {} \/ adapting[n] # NoTime
  \/ pc[n] = "announce" \/ (pc[n] = "wait" /\ now > since[n])

Tick ==
  /\ now < MaxClock
  /\ (\E t \in Begin : t > now) \/ \A n \in Nodes : pc[n] # "round1"
  /\ Prompt => \A n \in Nodes : alive[n] => ~Pending(n)
  /\ now' = now + 1
  /\ UNCHANGED <<handlerVars, syncedTime, syncVars, net>>

-----------------------------------------------------------------------------
(* The BUCKET_CHECK handler at the end of round 1 *)

\* Mutant: a minute later, not cut to the full minute
NextMinute_Untruncated(t) == t + Minute

\* Add(time.Minute).Truncate(time.Minute)
NextMinute(t) == t \div Minute + 1

\* Until the 45th second a node takes the next full minute, afterwards it waits
PassRound1(n) ==
  /\ alive[n] /\ pc[n] = "round1" /\ now \in Begin
  /\ IF now % Minute < Late
     THEN /\ pc' = [pc EXCEPT ![n] = "announce"]
          /\ syncTime' = [syncTime EXCEPT ![n] = NextMinute(now)]
          /\ UNCHANGED since
     ELSE /\ pc' = [pc EXCEPT ![n] = "wait"]
          /\ since' = [since EXCEPT ![n] = now]
          /\ UNCHANGED syncTime
  /\ UNCHANGED <<now, syncedTime, syncVars, net>>

\* Five seconds later it has been synchronised, or takes the next full minute
StopWaiting(n) ==
  /\ alive[n] /\ pc[n] = "wait" /\ now > since[n] /\ adapting[n] = NoTime
  /\ IF timeSynced[n]
     THEN /\ pc' = [pc EXCEPT ![n] = "done"]
          /\ UNCHANGED syncTime
     ELSE /\ pc' = [pc EXCEPT ![n] = "announce"]
          /\ syncTime' = [syncTime EXCEPT ![n] = NextMinute(now)]
  /\ UNCHANGED <<now, since, syncedTime, syncVars, net>>

\* syncedTime is set without timeSyncNodesMutex and without looking at timeSynced
AnnounceTime(n) ==
  /\ alive[n] /\ pc[n] = "announce"
  /\ syncedTime' = [syncedTime EXCEPT ![n] = syncTime[n]]
  /\ net' = [k \in Nodes |-> IF k = n THEN net[k]
                             ELSE net[k] \cup {[src |-> n, time |-> syncTime[n]]}]
  /\ pc' = [pc EXCEPT ![n] = "done"]
  /\ UNCHANGED <<now, since, syncTime, syncVars>>

-----------------------------------------------------------------------------
(* The SYNC_TIME handler *)

Count(list, t) == Cardinality({i \in DOMAIN list : list[i] = t})

\* findMajorElementInt64: the times that more than half of the list agree on
Major(list) == {t \in Minutes : Count(list, t) > Len(list) \div 2}

\* fracMatched < 0.5
Minority(list, t) == 2 * Count(list, t) < numOfOtherNodes

Announced(n) == pc[n] = "done" /\ syncTime[n] # NoTime

\* The last missing time: compare with the own one, keep it, adapt or give up
CompareTimes(n, list) ==
  \/ /\ ~Minority(list, syncedTime[n])
     /\ timeSynced' = [timeSynced EXCEPT ![n] = TRUE]
     /\ joined' = [joined EXCEPT ![n] = Announced(n)]
     /\ UNCHANGED <<adapting, alive>>
  \/ /\ Minority(list, syncedTime[n]) /\ Major(list) # {}
     /\ \E t \in Major(list) : adapting' = [adapting EXCEPT ![n] = t]
     /\ joined' = [joined EXCEPT ![n] = Announced(n)]
     /\ UNCHANGED <<timeSynced, alive>>
  \/ /\ Minority(list, syncedTime[n]) /\ Major(list) = {}
     /\ alive' = [alive EXCEPT ![n] = FALSE]
     /\ UNCHANGED <<timeSynced, adapting, joined>>

\* Mutants: the first time is enough; the own time is counted too
AllReceived_Early(list) == Len(list) = 1
AllReceived_Own(list) == Len(list) = N

AllReceived(list) == Len(list) = numOfOtherNodes

ReceiveTime(n, m) ==
  /\ alive[n] /\ adapting[n] = NoTime
  /\ net' = [net EXCEPT ![n] = @ \ {m}]
  /\ IF timeSynced[n] THEN UNCHANGED syncVars
     ELSE LET list == Append(timeSyncNodes[n], m.time)
          IN  /\ timeSyncNodes' = [timeSyncNodes EXCEPT ![n] = list]
              /\ IF AllReceived(list) THEN CompareTimes(n, list)
                 ELSE UNCHANGED <<timeSynced, adapting, alive, joined>>
  /\ UNCHANGED <<now, handlerVars, syncedTime>>

\* Mutant: the time of the majority is logged and not adopted
Adopted_LogOnly(n) == syncedTime[n]

Adopted(n) == adapting[n]

\* The handler still has the mutex, but AnnounceTime does not wait for it
AdaptTime(n) ==
  /\ alive[n] /\ adapting[n] # NoTime
  /\ syncedTime' = [syncedTime EXCEPT ![n] = Adopted(n)]
  /\ timeSynced' = [timeSynced EXCEPT ![n] = TRUE]
  /\ adapting' = [adapting EXCEPT ![n] = NoTime]
  /\ UNCHANGED <<now, handlerVars, timeSyncNodes, alive, joined, net>>

-----------------------------------------------------------------------------

NodeStep(n) ==
  \/ PassRound1(n)
  \/ StopWaiting(n)
  \/ AnnounceTime(n)
  \/ \E m \in net[n] : ReceiveTime(n, m)
  \/ AdaptTime(n)

Next == Tick \/ \E n \in Nodes : NodeStep(n)

Spec == Init /\ [][Next]_vars

\* Goroutines that can run do run, streams deliver, time passes
FairSpec == Spec /\ WF_vars(Next)

-----------------------------------------------------------------------------

(***************************************************************************)
(* The vote works for every order of delivery: a time that more than half  *)
(* of the nodes announce is the one every node starts with that had        *)
(* announced its own time before it heard the last of the others.          *)
(***************************************************************************)
MajorityWins ==
  \A t \in Minutes :
    2 * Cardinality({n \in Nodes : Announced(n) /\ syncTime[n] = t}) > N =>
      \A n \in Nodes : timeSynced[n] /\ joined[n] => syncedTime[n] = t

(***************************************************************************)
(* A node has a schedule only after every other node announced a time: no  *)
(* block is made while a node may still be in round 1.                     *)
(***************************************************************************)
NoneLeftBehind ==
  \A n \in Nodes : timeSynced[n] => \A m \in Nodes \ {n} : Announced(m)

(***************************************************************************)
(* Nodes that decide on the same minute all start, and start then, however *)
(* their messages are delayed: also a node that has all times before it    *)
(* has decided on its own.                                                 *)
(***************************************************************************)
AgreedStart ==
  \A t \in Minutes :
    (\A n \in Nodes : Announced(n) /\ syncTime[n] = t) ~>
      (\A n \in Nodes : timeSynced[n] /\ syncedTime[n] = t)

=============================================================================
