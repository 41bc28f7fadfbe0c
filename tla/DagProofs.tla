------------------------------ MODULE DagProofs ------------------------------
(***************************************************************************)
(* Theorems about Dag, for any number of nodes and columns, any leaders    *)
(* and transactions: about every schedule of deliveries first, then about  *)
(* networks in time, in which blocks arrive before the next slot begins.   *)
(***************************************************************************)
EXTENDS Dag, FiniteSetTheorems, WellFoundedInduction, TLAPS

-----------------------------------------------------------------------------
(* Induction without an operator as parameter *)

\* Every set of naturals has a least element
LEMMA LeastElement ==
  ASSUME NEW T, T \subseteq Nat, T # {}
  PROVE  \E k \in T : \A j \in T : k <= j
<1> DEFINE R == OpToRel(<, Nat)
<1>1. \A j, k \in Nat : <<j, k>> \in R <=> j < k
  BY DEF OpToRel
<1>2. IsWellFoundedOn(R, Nat)
  BY NatLessThanWellFounded
<1> HIDE DEF R
<1>3. PICK k \in T : \A j \in T : ~ (<<j, k>> \in R)
  BY <1>2, WFMin
<1>4. \A j \in T : ~ (j < k)
  BY <1>1, <1>3
<1>5. \A j \in T : k <= j
  BY <1>4
<1> QED
  BY <1>5

\* Induction up to D, with a set in the place of a predicate
LEMMA UpTo ==
  ASSUME NEW D \in Nat, NEW G, 0 \in G, \A k \in 0 .. D - 1 : k \in G => k + 1 \in G
  PROVE  \A k \in 0 .. D : k \in G
<1> DEFINE T == {k \in 0 .. D : k \notin G}
<1>1. CASE T # {}
  <2>1. PICK k \in T : \A j \in T : k <= j
    <3> HIDE DEF T
    <3>1. T \subseteq Nat
      BY DEF T
    <3> QED
      BY <1>1, <3>1, LeastElement
  <2>2. k \in 0 .. D /\ k # 0
    OBVIOUS
  <2>3. k - 1 \in 0 .. D - 1 /\ k - 1 + 1 = k
    BY <2>2
  <2>4. k - 1 \notin T
    BY <2>1, <2>2
  <2> QED
    BY <2>3, <2>4
<1> QED
  BY <1>1

\* Repeated halving, as for the widths of the levels and the index of the loop
LEMMA Halving ==
  ASSUME NEW D \in Nat, NEW v \in Nat
  PROVE  \E f : f = [l \in 0 .. D |-> IF l = 0 THEN v ELSE f[l - 1] \div 2]
<1> DEFINE Upto(k, f) == f[0] = v /\ \A l \in 1 .. k : f[l] = f[l - 1] \div 2
           G == {k \in 0 .. D : \E f \in [0 .. D -> Nat] : Upto(k, f)}
<1>1. 0 \in G
  <2> DEFINE f == [l \in 0 .. D |-> v]
  <2>1. f \in [0 .. D -> Nat] /\ Upto(0, f) /\ 0 \in 0 .. D
    OBVIOUS
  <2> HIDE DEF f, Upto
  <2> QED
    BY <2>1
<1>2. ASSUME NEW k \in 0 .. D - 1, k \in G
      PROVE  k + 1 \in G
  <2>1. PICK f \in [0 .. D -> Nat] : Upto(k, f)
    BY <1>2
  <2> DEFINE g == [l \in 0 .. D |-> IF l = k + 1 THEN f[k] \div 2 ELSE f[l]]
  <2>2. k \in 0 .. D /\ k + 1 \in 0 .. D /\ f[k] \in Nat
    OBVIOUS
  <2>3. f[k] \div 2 \in Nat
    BY <2>2
  <2>4. g \in [0 .. D -> Nat]
    BY <2>3
  <2>5. g[0] = v
    BY <2>1
  <2>6. ASSUME NEW l \in 1 .. k + 1
        PROVE  g[l] = g[l - 1] \div 2
    <3>1. l \in 0 .. D /\ l - 1 \in 0 .. D /\ l - 1 # k + 1
      OBVIOUS
    <3>2. CASE l = k + 1
      BY <3>1, <3>2
    <3>3. CASE l # k + 1
      <4>1. l \in 1 .. k
        BY <3>3
      <4> QED
        BY <2>1, <3>1, <3>3, <4>1
    <3> QED
      BY <3>2, <3>3
  <2> HIDE DEF g
  <2> QED
    BY <2>2, <2>4, <2>5, <2>6
<1> HIDE DEF G
<1>3. D \in G
  BY <1>1, <1>2, UpTo
<1>4. PICK f \in [0 .. D -> Nat] : Upto(D, f)
  BY <1>3 DEF G
<1>5. f = [l \in 0 .. D |-> IF l = 0 THEN v ELSE f[l - 1] \div 2]
  BY <1>4
<1> QED
  BY <1>5

-----------------------------------------------------------------------------
(* Rows *)

\* The rows of a branch double from one depth to the one above it
LEMMA Spans ==
  /\ Span[0] = ParallelLen
  /\ \A d \in 0 .. dagMaxDepth : Span[d] \in Nat \ {0}
  /\ \A d \in 0 .. dagMaxDepth - 1 : Span[d] = 2 * Span[d + 1]
<1>0. dagMaxDepth \in Nat /\ ParallelLen \in Nat /\ dagMaxDepth + 1 \in Nat
  BY DagAssumption
<1>1. Span = [d \in 0 .. dagMaxDepth + 1 |-> IF d = 0 THEN ParallelLen ELSE Span[d - 1] \div 2]
  BY <1>0, Halving DEF Span
<1>2. Span[0] = ParallelLen /\ \A d \in 1 .. dagMaxDepth : Span[d] = Span[d - 1] \div 2
  BY <1>0, <1>1
<1> DEFINE G == {d \in 0 .. dagMaxDepth : Span[d] \in Nat}
<1>3. \A d \in 0 .. dagMaxDepth : d \in G
  <2>1. 0 \in G
    BY <1>0, <1>2
  <2>2. ASSUME NEW d \in 0 .. dagMaxDepth - 1, d \in G
        PROVE  d + 1 \in G
    <3>1. d + 1 \in 1 .. dagMaxDepth /\ d + 1 \in 0 .. dagMaxDepth /\ (d + 1) - 1 = d
      BY <1>0
    <3>2. Span[d + 1] = Span[d] \div 2 /\ Span[d] \in Nat
      BY <1>2, <2>2, <3>1
    <3>3. \A k \in Nat : k \div 2 \in Nat
      OBVIOUS
    <3> QED
      BY <3>1, <3>2, <3>3
  <2> HIDE DEF G
  <2> QED
    BY <1>0, <2>1, <2>2, UpTo
<1>4. \A d \in 0 .. dagMaxDepth - 1 : Span[d] = 2 * Span[d + 1]
  <2> TAKE d \in 0 .. dagMaxDepth - 1
  <2>1. d + 1 \in 1 .. dagMaxDepth /\ (d + 1) - 1 = d /\ d \in 0 .. dagMaxDepth
    BY <1>0
  <2>2. Span[d + 1] = Span[d] \div 2 /\ Span[d] % 2 = 0 /\ Span[d] \in Nat
    BY <1>2, <1>3, <2>1, DagAssumption
  <2>3. \A k \in Nat : k % 2 = 0 => k = 2 * (k \div 2)
    OBVIOUS
  <2> QED
    BY <2>2, <2>3
<1> DEFINE P == {k \in 0 .. dagMaxDepth : Span[dagMaxDepth - k] # 0}
<1>5. \A k \in 0 .. dagMaxDepth : k \in P
  <2>1. 0 \in P
    BY <1>0, DagAssumption
  <2>2. ASSUME NEW k \in 0 .. dagMaxDepth - 1, k \in P
        PROVE  k + 1 \in P
    <3> DEFINE d == dagMaxDepth - (k + 1)
    <3>1. d \in 0 .. dagMaxDepth - 1 /\ d + 1 = dagMaxDepth - k /\ d + 1 \in 0 .. dagMaxDepth
          /\ k + 1 \in 0 .. dagMaxDepth
      BY <1>0
    <3>2. Span[d] = 2 * Span[d + 1] /\ Span[d + 1] # 0 /\ Span[d + 1] \in Nat
      BY <1>3, <1>4, <2>2, <3>1
    <3>3. Span[d] # 0
      BY <3>2
    <3> QED
      BY <3>1, <3>3
  <2> HIDE DEF P
  <2> QED
    BY <1>0, <2>1, <2>2, UpTo
<1>6. \A d \in 0 .. dagMaxDepth : Span[d] # 0
  <2> TAKE d \in 0 .. dagMaxDepth
  <2>1. dagMaxDepth - d \in P /\ dagMaxDepth - (dagMaxDepth - d) = d
    BY <1>0, <1>5
  <2> QED
    BY <2>1
<1> QED
  BY <1>2, <1>3, <1>4, <1>6

-----------------------------------------------------------------------------
(* What decideAction finds *)

\* The blocks of a chain in a column
InColumn(chain, col) == {chain[i] : i \in {j \in DOMAIN chain : chain[j].col = col}}

LEMMA FoundBlock ==
  ASSUME NEW chain, NEW col, NEW row, NEW b \in Found(chain, col, row)
  PROVE  b \in InColumn(chain, col) /\ b.row = row
BY DEF Found, InColumn

\* The action of a row before the loop over the actions
Decided(chain, row, col, a) ==
  \/ a = Skip
  \/ \E p \in InColumn(chain, col - 1) :
       /\ p.row = row
       /\ \/ a = [action |-> "CONTINUE", parent |-> p, second |-> None]
          \/ Splittable(p) /\ a = [action |-> "SPLIT", parent |-> p, second |-> None]
          \/ \E c \in InColumn(chain, col - 1) :
               /\ c.row = getMergeSecondIndex(p.row, p.depth) /\ c.depth = p.depth
               /\ a = [action |-> "MERGE", parent |-> p, second |-> c]

LEMMA ActionDecided ==
  ASSUME NEW chain, NEW row, NEW col
  PROVE  Decided(chain, row, col, decideAction(chain, row, col))
<1> DEFINE parents == Found(chain, col - 1, row)
           Partners(p) ==
             {c \in Found(chain, col - 1, getMergeSecondIndex(p.row, p.depth)) : Mergeable(p, c)}
           a == decideAction(chain, row, col)
           p == CHOOSE q \in parents : TRUE
           second == CHOOSE c \in Partners(p) : TRUE
<1>1. CASE parents = {}
  BY <1>1 DEF decideAction, Decided
<1>2. CASE parents # {}
  <2>1. p \in parents
    BY <1>2
  <2>2. p \in InColumn(chain, col - 1) /\ p.row = row
    BY <2>1, FoundBlock
  <2>3. CASE Splittable(p)
    <3>1. a = [action |-> "SPLIT", parent |-> p, second |-> None]
      BY <1>2, <2>3 DEF decideAction
    <3> QED
      BY <2>2, <2>3, <3>1 DEF Decided
  <2>4. CASE ~Splittable(p) /\ Partners(p) # {}
    <3>1. a = [action |-> "MERGE", parent |-> p, second |-> second]
      BY <1>2, <2>4 DEF decideAction
    <3>2. second \in Found(chain, col - 1, getMergeSecondIndex(p.row, p.depth))
          /\ Mergeable(p, second)
      BY <2>4
    <3>3. /\ second \in InColumn(chain, col - 1)
          /\ second.row = getMergeSecondIndex(p.row, p.depth) /\ second.depth = p.depth
      BY <3>2, FoundBlock DEF Mergeable
    <3> HIDE DEF p, second, a
    <3> QED
      BY <2>2, <3>1, <3>3 DEF Decided, a
  <2>5. CASE ~Splittable(p) /\ Partners(p) = {}
    <3>1. a = [action |-> "CONTINUE", parent |-> p, second |-> None]
      BY <1>2, <2>5 DEF decideAction
    <3> QED
      BY <2>2, <3>1 DEF Decided
  <2> QED
    BY <2>3, <2>4, <2>5
<1> QED
  BY <1>1, <1>2

-----------------------------------------------------------------------------
(* The loop over the actions *)

\* Row r is changed by a row below it that was not changed itself
HitBy(decided, row, E) == \E r \in E : r < row /\ Target(r, decided[r]) = row

LEMMA EffectiveRows ==
  ASSUME NEW decided
  PROVE  LET candidates == {row \in Rows : decided[row].action \in {"SPLIT", "MERGE"}}
         IN  /\ Effective(decided) \subseteq candidates
             /\ \A row \in candidates :
                  row \in Effective(decided) <=> ~HitBy(decided, row, Effective(decided))
<1> DEFINE candidates == {row \in Rows : decided[row].action \in {"SPLIT", "MERGE"}}
           Fixed(k, E) == \A row \in candidates :
                            row < k => (row \in E <=> ~HitBy(decided, row, E))
           G == {k \in 0 .. ParallelLen : \E E \in SUBSET {r \in candidates : r < k} : Fixed(k, E)}
<1>0. ParallelLen \in Nat /\ candidates \subseteq Nat /\ \A r \in candidates : r < ParallelLen
  BY DagAssumption DEF Rows
<1> HIDE DEF candidates
<1>1. 0 \in G
  <2>1. {} \in SUBSET {r \in candidates : r < 0} /\ Fixed(0, {}) /\ 0 \in 0 .. ParallelLen
    BY <1>0
  <2> HIDE DEF Fixed
  <2> QED
    BY <2>1
<1>2. ASSUME NEW k \in 0 .. ParallelLen - 1, k \in G
      PROVE  k + 1 \in G
  <2>0. k \in Nat /\ k + 1 \in 0 .. ParallelLen
    BY <1>0
  <2>1. PICK E \in SUBSET {r \in candidates : r < k} : Fixed(k, E)
    BY <1>2
  <2> DEFINE F == IF k \in candidates /\ ~HitBy(decided, k, E) THEN E \cup {k} ELSE E
  <2>2. F \in SUBSET {r \in candidates : r < k + 1}
    <3>1. \A r \in candidates : r < k => r < k + 1
      BY <1>0, <2>0
    <3> QED
      BY <2>0, <3>1
  <2>3. \A row \in candidates : row <= k => (HitBy(decided, row, F) <=> HitBy(decided, row, E))
    BY <1>0, <2>0 DEF HitBy
  <2>4. Fixed(k + 1, F)
    <3> SUFFICES ASSUME NEW row \in candidates, row < k + 1
                 PROVE  row \in F <=> ~HitBy(decided, row, F)
      OBVIOUS
    <3>1. CASE row < k
      BY <1>0, <2>0, <2>1, <2>3, <3>1
    <3>2. CASE row = k
      <4>1. k \notin E
        BY <2>0, <2>1
      <4>2. HitBy(decided, k, F) <=> HitBy(decided, k, E)
        BY <2>0, <2>3, <3>2
      <4> QED
        BY <3>2, <4>1, <4>2
    <3>3. row \in Nat
      BY <1>0
    <3> QED
      BY <2>0, <3>1, <3>2, <3>3
  <2> HIDE DEF F, Fixed
  <2> QED
    BY <2>0, <2>2, <2>4
<1> HIDE DEF G
<1>3. ParallelLen \in G
  BY <1>0, <1>1, <1>2, UpTo
<1>4. PICK E \in SUBSET candidates : \A row \in candidates : row \in E <=> ~HitBy(decided, row, E)
  <2>1. PICK E \in SUBSET {r \in candidates : r < ParallelLen} : Fixed(ParallelLen, E)
    BY <1>3 DEF G
  <2>2. E \in SUBSET candidates /\ \A row \in candidates : row \in E <=> ~HitBy(decided, row, E)
    BY <1>0, <2>1
  <2> QED
    BY <2>2
<1>5. Effective(decided) = CHOOSE D \in SUBSET candidates :
                             \A row \in candidates : row \in D <=> ~HitBy(decided, row, D)
  BY DEF Effective, HitBy, candidates
<1>6. /\ Effective(decided) \in SUBSET candidates
      /\ \A row \in candidates :
           row \in Effective(decided) <=> ~HitBy(decided, row, Effective(decided))
  BY <1>4, <1>5
<1> QED
  BY <1>6 DEF candidates

\* The last of the rows that changed a row
LEMMA LastHit ==
  ASSUME NEW S, S \subseteq Rows, S # {}
  PROVE  Max(S) \in S /\ \A r \in S : r <= Max(S)
<1>0. ParallelLen \in Nat /\ S \subseteq Nat /\ \A r \in S : r < ParallelLen
  BY DagAssumption DEF Rows
<1> DEFINE T == {ParallelLen - r : r \in S}
<1>1. T \subseteq Nat /\ T # {}
  <2>1. \A r \in S : ParallelLen - r \in Nat
    BY <1>0
  <2>2. PICK r \in S : TRUE
    OBVIOUS
  <2>3. ParallelLen - r \in T
    OBVIOUS
  <2> QED
    BY <2>1, <2>3
<1>2. \E k \in T : \A j \in T : k <= j
  <2> HIDE DEF T
  <2> QED
    BY <1>1, LeastElement
<1>3. PICK r \in S : \A j \in T : ParallelLen - r <= j
  BY <1>2
<1>4. \A q \in S : r >= q
  <2> TAKE q \in S
  <2>1. ParallelLen - r <= ParallelLen - q
    BY <1>3
  <2> QED
    BY <1>0, <2>1
<1>5. Max(S) \in S /\ \A q \in S : Max(S) >= q
  BY <1>4 DEF Max
<1> QED
  BY <1>0, <1>5
-----------------------------------------------------------------------------
(* The blocks that are planned *)

\* What the loop makes of the decided actions
Actions(chain, col) ==
  LET decided == [row \in Rows |-> decideAction(chain, row, col)]
  IN  epochActions(decided, Effective(decided))

\* Block p of the column before continues, splits or merges with c
Continued(p, row, depth) == row = p.row /\ depth = p.depth

Half(p, row, depth) ==
  /\ Splittable(p) /\ depth = p.depth + 1
  /\ row = p.row \/ row = getSplitSecondIndex(p.row, p.depth + 1)

Merged(p, c, row, depth) ==
  /\ row = p.row /\ depth = p.depth - 1
  /\ c.row = getMergeSecondIndex(p.row, p.depth) /\ c.depth = p.depth

\* A block of the next column, made of blocks of this one
Descends(blocks, b) ==
  /\ \E p \in blocks :
       /\ b.parent = At(p)
       /\ \/ Continued(p, b.row, b.depth)
          \/ Half(p, b.row, b.depth)
          \/ \E c \in blocks : b.second = At(c) /\ Merged(p, c, b.row, b.depth)
  /\ b.second = None \/ \E c \in blocks : b.second = At(c)

\* The action of a row that is not skipped makes a descendant
LEMMA ActionTaken ==
  ASSUME NEW chain, NEW col, NEW row \in Rows, Actions(chain, col)[row].action # "SKIP"
  PROVE  LET a == Actions(chain, col)[row]
             blocks == InColumn(chain, col - 1)
         IN  /\ \E p \in blocks :
                  /\ a.parent = p
                  /\ \/ Continued(p, row, Depth(a))
                     \/ Half(p, row, Depth(a))
                     \/ \E c \in blocks : a.second = c /\ Merged(p, c, row, Depth(a))
             /\ a.second = None \/ a.second \in blocks
<1> DEFINE decided == [r \in Rows |-> decideAction(chain, r, col)]
           effective == Effective(decided)
           hits == {r \in effective : Target(r, decided[r]) = row}
           by == [r \in hits |-> decided[r]]
           a == Actions(chain, col)[row]
           blocks == InColumn(chain, col - 1)
<1>1. \A r \in Rows : Decided(chain, r, col, decided[r])
  BY ActionDecided
<1>2. effective \subseteq {r \in Rows : decided[r].action \in {"SPLIT", "MERGE"}}
  BY EffectiveRows
<1>3. a = Overwritten(decided[row], by)
  BY DEF Actions, epochActions
<1>4. DOMAIN by = hits
  OBVIOUS
<1>5. a.action # "SKIP"
  OBVIOUS
<1> HIDE DEF a, decided, effective
<1>6. CASE hits = {}
  <2>1. a = decided[row]
    BY <1>3, <1>6 DEF Overwritten
  <2>2. a # Skip
    BY <1>5 DEF Skip
  <2>3. PICK p \in blocks :
          /\ p.row = row
          /\ \/ a = [action |-> "CONTINUE", parent |-> p, second |-> None]
             \/ Splittable(p) /\ a = [action |-> "SPLIT", parent |-> p, second |-> None]
             \/ \E c \in blocks :
                  /\ c.row = getMergeSecondIndex(p.row, p.depth) /\ c.depth = p.depth
                  /\ a = [action |-> "MERGE", parent |-> p, second |-> c]
    <3>1. Decided(chain, row, col, a)
      BY <1>1, <2>1
    <3> QED
      BY <2>2, <3>1 DEF Decided
  <2>4. CASE a = [action |-> "CONTINUE", parent |-> p, second |-> None]
    BY <2>3, <2>4 DEF Depth, Continued, a
  <2>5. CASE Splittable(p) /\ a = [action |-> "SPLIT", parent |-> p, second |-> None]
    BY <2>3, <2>5 DEF Depth, Half, a
  <2>6. CASE \E c \in blocks :
               /\ c.row = getMergeSecondIndex(p.row, p.depth) /\ c.depth = p.depth
               /\ a = [action |-> "MERGE", parent |-> p, second |-> c]
    BY <2>3, <2>6 DEF Depth, Merged, a
  <2> QED
    BY <2>3, <2>4, <2>5, <2>6
<1>7. CASE hits # {}
  <2> DEFINE r == Max(hits)
  <2>1. r \in hits
    <3>1. hits \subseteq Rows
      BY <1>2
    <3> HIDE DEF hits
    <3> QED
      BY <1>7, <3>1, LastHit
  <2>2. /\ r \in Rows /\ Target(r, decided[r]) = row /\ by[r] = decided[r]
        /\ decided[r].action \in {"SPLIT", "MERGE"}
    BY <1>2, <2>1
  <2> HIDE DEF r
  <2>3. CASE decided[r].action = "MERGE"
    <3>1. a = [decided[row] EXCEPT !.action = "SKIP"]
      BY <1>3, <1>4, <1>7, <2>2, <2>3 DEF Overwritten, r
    <3>2. a.action = "SKIP"
      BY <1>1, <3>1 DEF Decided, Skip
    <3> QED
      BY <1>5, <3>2
  <2>4. CASE decided[r].action = "SPLIT"
    <3>1. a = [decided[row] EXCEPT !.action = "SPLIT_SND", !.parent = decided[r].parent]
      BY <1>3, <1>4, <1>7, <2>2, <2>4 DEF Overwritten, r
    <3>2. /\ a.action = "SPLIT_SND" /\ a.parent = decided[r].parent
          /\ a.second = decided[row].second
      BY <1>1, <3>1 DEF Decided, Skip
    <3>3. PICK p \in blocks :
            /\ p.row = r /\ Splittable(p)
            /\ decided[r] = [action |-> "SPLIT", parent |-> p, second |-> None]
      <4>1. Decided(chain, r, col, decided[r])
        BY <1>1, <2>2
      <4>2. decided[r] # Skip
        BY <2>4 DEF Skip
      <4>3. PICK p \in blocks :
              /\ p.row = r
              /\ \/ decided[r] = [action |-> "CONTINUE", parent |-> p, second |-> None]
                 \/ /\ Splittable(p)
                    /\ decided[r] = [action |-> "SPLIT", parent |-> p, second |-> None]
                 \/ \E c \in blocks :
                      decided[r] = [action |-> "MERGE", parent |-> p, second |-> c]
        BY <4>1, <4>2 DEF Decided
      <4>4. decided[r] # [action |-> "CONTINUE", parent |-> p, second |-> None]
        BY <2>4
      <4>5. \A c \in blocks : decided[r] # [action |-> "MERGE", parent |-> p, second |-> c]
        BY <2>4
      <4>6. /\ p.row = r /\ Splittable(p)
            /\ decided[r] = [action |-> "SPLIT", parent |-> p, second |-> None]
        BY <4>3, <4>4, <4>5
      <4> HIDE DEF blocks
      <4> QED
        BY <4>6
    <3>4. a.parent = p /\ Depth(a) = p.depth + 1
      BY <3>2, <3>3 DEF Depth
    <3>5. row = getSplitSecondIndex(p.row, p.depth + 1)
      BY <2>2, <3>3 DEF Target
    <3>6. a.second = None \/ a.second \in blocks
      <4>1. Decided(chain, row, col, decided[row])
        BY <1>1
      <4>2. decided[row].second = None \/ decided[row].second \in blocks
        <5>1. CASE decided[row] = Skip
          BY <5>1 DEF Skip
        <5>2. CASE decided[row] # Skip
          <6>1. PICK q \in blocks :
                  \/ decided[row] = [action |-> "CONTINUE", parent |-> q, second |-> None]
                  \/ decided[row] = [action |-> "SPLIT", parent |-> q, second |-> None]
                  \/ \E c \in blocks :
                       decided[row] = [action |-> "MERGE", parent |-> q, second |-> c]
            BY <4>1, <5>2 DEF Decided
          <6> DEFINE b == decided[row]
          <6> HIDE DEF blocks, b
          <6>2. CASE b = [action |-> "CONTINUE", parent |-> q, second |-> None]
            BY <6>2 DEF b
          <6>3. CASE b = [action |-> "SPLIT", parent |-> q, second |-> None]
            BY <6>3 DEF b
          <6>4. ASSUME NEW c \in blocks, b = [action |-> "MERGE", parent |-> q, second |-> c]
                PROVE  b.second \in blocks
            BY <6>4
          <6> QED
            BY <6>1, <6>2, <6>3, <6>4 DEF b
        <5> QED
          BY <5>1, <5>2
      <4> QED
        BY <3>2, <4>2
    <3> QED
      BY <3>3, <3>4, <3>5, <3>6 DEF Half, a
  <2> QED
    BY <2>2, <2>3, <2>4
<1> QED
  BY <1>6, <1>7

LEMMA AssignedDescends ==
  ASSUME NEW n, NEW chain, NEW col, NEW b \in Assigned(n, col, Actions(chain, col))
  PROVE  /\ Descends(InColumn(chain, col - 1), b)
         /\ b.row \in Rows /\ Leader(col, b.row) = n
         /\ b = [col |-> col, row |-> b.row, depth |-> b.depth, txs |-> {},
                 parent |-> b.parent, second |-> b.second]
<1> DEFINE actions == Actions(chain, col)
           blocks == InColumn(chain, col - 1)
<1>1. PICK row \in Rows :
        /\ actions[row].action # "SKIP" /\ Leader(col, row) = n
        /\ b = [col |-> col, row |-> row, depth |-> Depth(actions[row]), txs |-> {},
                parent |-> At(actions[row].parent), second |-> At(actions[row].second)]
  BY DEF Assigned
<1> DEFINE a == actions[row]
<1>2. PICK p \in blocks :
        /\ a.parent = p
        /\ \/ Continued(p, row, Depth(a))
           \/ Half(p, row, Depth(a))
           \/ \E c \in blocks : a.second = c /\ Merged(p, c, row, Depth(a))
  BY <1>1, ActionTaken
<1>3. a.second = None \/ a.second \in blocks
  BY <1>1, ActionTaken
<1>4. At(None) = None
  BY DEF At
<1>5. b.row = row /\ b.depth = Depth(a) /\ b.parent = At(p) /\ b.second = At(a.second)
  BY <1>1, <1>2
<1> HIDE DEF a, blocks
<1>6. Descends(blocks, b)
  BY <1>2, <1>3, <1>4, <1>5 DEF Descends
<1> QED
  BY <1>1, <1>6 DEF blocks

\* Only the first half of a branch finds its second half, and not at depth 0
LEMMA MergeRow ==
  ASSUME NEW row \in Rows, NEW depth \in 0 .. dagMaxDepth, getMergeSecondIndex(row, depth) \in Rows
  PROVE  /\ depth # 0 /\ row % 2 = 0 /\ depth >= FirstHalfDepth(row)
         /\ getMergeSecondIndex(row, depth) = row + Span[depth]
<1>1. -1 \notin Rows /\ row \in Nat /\ depth \in Nat
  BY DagAssumption DEF Rows
<1>2. ~(depth = 0 \/ row % 2 # 0 \/ depth < FirstHalfDepth(row))
  BY <1>1 DEF getMergeSecondIndex
<1>3. FirstHalfDepth(row) \in Int
  <2>1. /\ row % 32 \in Nat /\ row % 16 \in Nat /\ row % 8 \in Nat /\ row % 4 \in Nat
        /\ dagMaxDepth \in Int
    BY <1>1, DagAssumption
  <2> QED
    BY <2>1 DEF FirstHalfDepth
<1>4. depth >= FirstHalfDepth(row)
  BY <1>1, <1>2, <1>3
<1>5. getMergeSecondIndex(row, depth) = row + Span[depth]
  <2>1. depth - 1 + 1 = depth
    BY <1>1
  <2> QED
    BY <1>2, <2>1 DEF getMergeSecondIndex, getSplitSecondIndex
<1> QED
  BY <1>2, <1>4, <1>5

LEMMA SplitRow ==
  ASSUME NEW row, NEW depth \in Nat
  PROVE  getSplitSecondIndex(row, depth + 1) = row + Span[depth + 1]
BY DEF getSplitSecondIndex

LEMMA DescendantType ==
  ASSUME NEW blocks, blocks \subseteq Block, NEW col \in 1 .. MaxCol, NEW b,
         Descends(blocks, b), b.row \in Rows,
         b = [col |-> col, row |-> b.row, depth |-> b.depth, txs |-> {},
              parent |-> b.parent, second |-> b.second]
  PROVE  b \in Planned
<1>0. dagMaxDepth \in Nat /\ MaxCol \in Nat
  BY DagAssumption
<1>1. \A p \in blocks : At(p) \in Position \cup {None}
  BY DEF At, Block, Position
<1>2. b.parent \in Position \cup {None} /\ b.second \in Position \cup {None}
  BY <1>1 DEF Descends
<1>3. b.depth \in 0 .. dagMaxDepth
  <2>1. PICK p \in blocks :
          \/ Continued(p, b.row, b.depth)
          \/ Half(p, b.row, b.depth)
          \/ \E c \in blocks : Merged(p, c, b.row, b.depth)
    BY DEF Descends
  <2>2. p.depth \in 0 .. dagMaxDepth /\ p.row \in Rows
    BY DEF Block
  <2>3. CASE Continued(p, b.row, b.depth)
    BY <2>2, <2>3 DEF Continued
  <2>4. CASE Half(p, b.row, b.depth)
    BY <1>0, <2>2, <2>4 DEF Half, Splittable
  <2>5. ASSUME NEW c \in blocks, Merged(p, c, b.row, b.depth)
        PROVE  b.depth \in 0 .. dagMaxDepth
    <3>1. c.row \in Rows
      BY DEF Block
    <3>2. p.depth # 0
      BY <2>2, <2>5, <3>1, MergeRow DEF Merged
    <3> QED
      BY <1>0, <2>2, <2>5, <3>2 DEF Merged
  <2> QED
    BY <2>1, <2>3, <2>4, <2>5
<1>4. col \in 0 .. MaxCol /\ {} \in SUBSET Txs
  BY <1>0
<1>5. b \in Block /\ b.txs = {}
  BY <1>2, <1>3, <1>4 DEF Block
<1> QED
  BY <1>5 DEF Planned
-----------------------------------------------------------------------------
(* Alignment *)

Aligned(b) == b.row % Span[b.depth] = 0

LEMMA Multiples ==
  ASSUME NEW s \in Nat \ {0}, NEW r \in Nat, r % (2 * s) = 0
  PROVE  r % s = 0 /\ (r + s) % s = 0
<1>0. 2 * s \in Nat \ {0}
  OBVIOUS
<1>1. PICK q \in Nat : r = (2 * s) * q
  <2>1. \A n \in Nat \ {0} : r % n = 0 => \E q \in Nat : r = n * q
    OBVIOUS
  <2> QED
    BY <1>0, <2>1
<1>2. r = s * (2 * q) /\ r + s = s * (2 * q + 1)
  <2>1. (2 * s) * q = s * (2 * q)
    OBVIOUS
  <2>2. s * (2 * q) + s = s * (2 * q + 1)
    OBVIOUS
  <2> QED
    BY <1>1, <2>1, <2>2
<1>3. \A k \in Nat : (s * k) % s = 0
  OBVIOUS
<1>4. 2 * q \in Nat /\ 2 * q + 1 \in Nat
  OBVIOUS
<1> QED
  BY <1>2, <1>3, <1>4

\* The lowest spans
LEMMA LowSpans ==
  /\ Span[dagMaxDepth] = 1
  /\ \A k \in 0 .. 5 : dagMaxDepth - k >= 0 =>
       Span[dagMaxDepth - k] = CASE k = 0 -> 1 [] k = 1 -> 2 [] k = 2 -> 4
                                 [] k = 3 -> 8 [] k = 4 -> 16 [] k = 5 -> 32
<1> DEFINE D == dagMaxDepth
<1>0. D \in Nat /\ Span[D] = 1
  BY DagAssumption
<1>1. \A k \in 1 .. 5 : D - k >= 0 => Span[D - k] = 2 * Span[D - (k - 1)]
  <2> TAKE k \in 1 .. 5
  <2> HAVE D - k >= 0
  <2>1. D - k \in 0 .. D - 1 /\ (D - k) + 1 = D - (k - 1)
    BY <1>0
  <2> QED
    BY <2>1, Spans
<1> HIDE DEF D
<1>2. D - 0 = D
  BY <1>0
<1>3. D - 1 >= 0 => Span[D - 1] = 2
  BY <1>0, <1>1, <1>2
<1>4. D - 2 >= 0 => Span[D - 2] = 4
  BY <1>0, <1>1, <1>3
<1>5. D - 3 >= 0 => Span[D - 3] = 8
  BY <1>0, <1>1, <1>4
<1>6. D - 4 >= 0 => Span[D - 4] = 16
  BY <1>0, <1>1, <1>5
<1>7. D - 5 >= 0 => Span[D - 5] = 32
  BY <1>0, <1>1, <1>6
<1> QED
  BY <1>0, <1>2, <1>3, <1>4, <1>5, <1>6, <1>7 DEF D

\* The first half of a branch lies in a row of the branch that both halves make
LEMMA FirstHalfAligned ==
  ASSUME NEW row \in Rows, NEW depth \in 1 .. dagMaxDepth,
         row % 2 = 0, depth >= FirstHalfDepth(row)
  PROVE  row % Span[depth - 1] = 0
<1> DEFINE s == Span[depth - 1]
<1>0. row \in Nat /\ dagMaxDepth \in Nat /\ depth - 1 \in 0 .. dagMaxDepth
  BY DagAssumption DEF Rows
<1>s. s \in Nat \ {0}
  BY <1>0, Spans
<1>1. \A k \in 1 .. 5 : depth = dagMaxDepth - (k - 1) => s = CASE k = 1 -> 2 [] k = 2 -> 4
                                 [] k = 3 -> 8 [] k = 4 -> 16 [] k = 5 -> 32
  <2> TAKE k \in 1 .. 5
  <2> HAVE depth = dagMaxDepth - (k - 1)
  <2>1. dagMaxDepth - k = depth - 1 /\ dagMaxDepth - k >= 0 /\ k \in 0 .. 5
    BY <1>0
  <2> QED
    BY <2>1, LowSpans
<1> HIDE DEF s
<1>2. CASE row = 0
  BY <1>s, <1>2 DEF s
<1>3. CASE row # 0 /\ row % 32 = 0
  <2>1. depth >= dagMaxDepth - 4
    BY <1>0, <1>3 DEF FirstHalfDepth
  <2>2. \/ depth = dagMaxDepth - (1 - 1) \/ depth = dagMaxDepth - (2 - 1)
        \/ depth = dagMaxDepth - (3 - 1) \/ depth = dagMaxDepth - (4 - 1)
        \/ depth = dagMaxDepth - (5 - 1)
    BY <1>0, <2>1
  <2>3. s \in {2, 4, 8, 16, 32}
    BY <1>1, <2>2
  <2> QED
    BY <1>0, <1>3, <2>3 DEF s
<1>4. CASE row % 32 # 0 /\ row % 16 = 0
  <2>1. depth >= dagMaxDepth - 3
    BY <1>0, <1>4 DEF FirstHalfDepth
  <2>2. \/ depth = dagMaxDepth - (1 - 1) \/ depth = dagMaxDepth - (2 - 1)
        \/ depth = dagMaxDepth - (3 - 1) \/ depth = dagMaxDepth - (4 - 1)
    BY <1>0, <2>1
  <2>3. s \in {2, 4, 8, 16}
    BY <1>1, <2>2
  <2> QED
    BY <1>0, <1>4, <2>3 DEF s
<1>5. CASE row % 16 # 0 /\ row % 8 = 0
  <2>1. depth >= dagMaxDepth - 2
    BY <1>0, <1>5 DEF FirstHalfDepth
  <2>2. \/ depth = dagMaxDepth - (1 - 1) \/ depth = dagMaxDepth - (2 - 1)
        \/ depth = dagMaxDepth - (3 - 1)
    BY <1>0, <2>1
  <2>3. s \in {2, 4, 8}
    BY <1>1, <2>2
  <2> QED
    BY <1>0, <1>5, <2>3 DEF s
<1>6. CASE row % 8 # 0 /\ row % 4 = 0
  <2>1. depth >= dagMaxDepth - 1
    BY <1>0, <1>6 DEF FirstHalfDepth
  <2>2. depth = dagMaxDepth - (1 - 1) \/ depth = dagMaxDepth - (2 - 1)
    BY <1>0, <2>1
  <2>3. s \in {2, 4}
    BY <1>1, <2>2
  <2> QED
    BY <1>0, <1>6, <2>3 DEF s
<1>7. CASE row % 4 # 0
  <2>1. depth >= dagMaxDepth
    BY <1>0, <1>7 DEF FirstHalfDepth
  <2>2. depth = dagMaxDepth - (1 - 1)
    BY <1>0, <2>1
  <2>3. s = 2
    BY <1>1, <2>2
  <2> QED
    BY <2>3 DEF s
<1> QED
  BY <1>0, <1>2, <1>3, <1>4, <1>5, <1>6, <1>7

LEMMA DescendantAligned ==
  ASSUME NEW blocks, blocks \subseteq Block, \A p \in blocks : Aligned(p),
         NEW b \in Block, Descends(blocks, b)
  PROVE  Aligned(b)
<1>0. dagMaxDepth \in Nat /\ b.row \in Rows /\ b.depth \in 0 .. dagMaxDepth
  BY DagAssumption DEF Block
<1>1. PICK p \in blocks :
        \/ Continued(p, b.row, b.depth)
        \/ Half(p, b.row, b.depth)
        \/ \E c \in blocks : Merged(p, c, b.row, b.depth)
  BY DEF Descends
<1>2. /\ p.depth \in 0 .. dagMaxDepth /\ p.row \in Rows /\ p.row \in Nat
      /\ p.row % Span[p.depth] = 0
  BY DagAssumption DEF Block, Rows, Aligned
<1>3. CASE Continued(p, b.row, b.depth)
  BY <1>2, <1>3 DEF Continued, Aligned
<1>4. CASE Half(p, b.row, b.depth)
  <2>1. /\ p.depth \in 0 .. dagMaxDepth - 1 /\ b.depth = p.depth + 1
        /\ b.row = p.row \/ b.row = p.row + Span[b.depth]
    BY <1>0, <1>2, <1>4, SplitRow DEF Half, Splittable
  <2>2. Span[p.depth] = 2 * Span[b.depth] /\ Span[b.depth] \in Nat \ {0}
    BY <1>0, <2>1, Spans
  <2>3. p.row % (2 * Span[b.depth]) = 0
    BY <1>2, <2>2
  <2>4. p.row % Span[b.depth] = 0 /\ (p.row + Span[b.depth]) % Span[b.depth] = 0
    BY <1>2, <2>2, <2>3, Multiples
  <2> QED
    BY <2>1, <2>4 DEF Aligned
<1>5. ASSUME NEW c \in blocks, Merged(p, c, b.row, b.depth)
      PROVE  Aligned(b)
  <2>1. c.row \in Rows
    BY DEF Block
  <2>2. p.depth # 0 /\ p.row % 2 = 0 /\ p.depth >= FirstHalfDepth(p.row)
    BY <1>2, <1>5, <2>1, MergeRow DEF Merged
  <2>3. p.depth \in 1 .. dagMaxDepth
    BY <1>0, <1>2, <2>2
  <2>4. p.row % Span[p.depth - 1] = 0
    BY <1>2, <2>2, <2>3, FirstHalfAligned
  <2> QED
    BY <1>5, <2>4 DEF Merged, Aligned
<1> QED
  BY <1>1, <1>3, <1>4, <1>5
-----------------------------------------------------------------------------
(* Types *)

LEMMA GenesisType == Genesis \in Block
<1>1. 0 \in Rows /\ 0 \in 0 .. dagMaxDepth /\ 0 \in 0 .. MaxCol
  <2>1. ParallelLen \in Nat \ {0}
    BY Spans, DagAssumption
  <2> QED
    BY <2>1, DagAssumption DEF Rows
<1>2. {} \in SUBSET Txs
  OBVIOUS
<1> QED
  BY <1>1, <1>2 DEF Genesis, Block

\* Of the planned blocks the one in the lowest row is created next
LEMMA NextBlockPlanned ==
  ASSUME TypeOK, NEW n \in Nodes, plan[n] # {}
  PROVE  NextBlock(n) \in plan[n] /\ \A c \in plan[n] : NextBlock(n).row <= c.row
<1> DEFINE T == {b.row : b \in plan[n]}
<1>1. \A b \in plan[n] : b \in Block /\ b.row \in Nat
  BY DagAssumption DEF TypeOK, Planned, Block, Rows
<1>2. T \subseteq Nat /\ T # {}
  BY <1>1
<1>3. \E k \in T : \A j \in T : k <= j
  <2> HIDE DEF T
  <2> QED
    BY <1>2, LeastElement
<1>4. PICK b \in plan[n] : \A c \in plan[n] : b.row <= c.row
  BY <1>3
<1> QED
  BY <1>4 DEF NextBlock

\* A planned block with transactions
LEMMA FilledBlock ==
  ASSUME NEW b \in Planned, NEW txs \in SUBSET Txs
  PROVE  LET filled == [b EXCEPT !.txs = txs]
         IN  /\ filled \in Block /\ filled.txs = txs
             /\ filled.col = b.col /\ filled.row = b.row /\ filled.depth = b.depth
             /\ filled.parent = b.parent /\ filled.second = b.second
BY DEF Planned, Block

\* The blocks of a chain are blocks
LEMMA ColumnOfChain ==
  ASSUME TypeOK, NEW n \in Nodes, NEW col
  PROVE  /\ InColumn(blockchain[n], col) \subseteq BlocksOf(n)
         /\ BlocksOf(n) \subseteq Block
         /\ \A b \in InColumn(blockchain[n], col) : b.col = col
BY DEF TypeOK, InColumn, BlocksOf

LEMMA TypeInit == Init => TypeOK
<1> SUFFICES ASSUME Init PROVE TypeOK
  OBVIOUS
<1>1. <<Genesis>> \in Seq(Block)
  BY GenesisType
<1>2. 0 \in 0 .. MaxCol
  BY DagAssumption
<1> QED
  BY <1>1, <1>2 DEF Init, TypeOK

\* The plan of a slot, and the blocks it is made of
LEMMA DecidePlan ==
  ASSUME TypeOK, NEW n \in Nodes, DecideActions(n)
  PROVE  /\ absRound[n] + 1 \in 1 .. MaxCol
         /\ plan' = [plan EXCEPT ![n] =
              Assigned(n, absRound[n] + 1, Actions(blockchain[n], absRound[n] + 1))]
         /\ \A b \in plan'[n] :
              /\ b \in Planned /\ b.col = absRound[n] + 1 /\ Leader(b.col, b.row) = n
              /\ Descends(InColumn(blockchain[n], absRound[n]), b)
<1> DEFINE col == absRound[n] + 1
<1>1. col \in 1 .. MaxCol /\ col - 1 = absRound[n]
  BY DagAssumption DEF TypeOK, DecideActions, SlotBegins
<1>2. plan' = [plan EXCEPT ![n] = Assigned(n, col, Actions(blockchain[n], col))]
  BY DEF DecideActions, Actions
<1>3. plan'[n] = Assigned(n, col, Actions(blockchain[n], col))
  BY <1>2 DEF TypeOK
<1>4. InColumn(blockchain[n], col - 1) \subseteq Block
  BY ColumnOfChain
<1> HIDE DEF col
<1>5. ASSUME NEW b \in plan'[n]
      PROVE  /\ b \in Planned /\ b.col = col /\ Leader(b.col, b.row) = n
             /\ Descends(InColumn(blockchain[n], col - 1), b)
  <2>1. /\ Descends(InColumn(blockchain[n], col - 1), b)
        /\ b.row \in Rows /\ Leader(col, b.row) = n
        /\ b = [col |-> col, row |-> b.row, depth |-> b.depth, txs |-> {},
                parent |-> b.parent, second |-> b.second]
    BY <1>3, AssignedDescends
  <2>2. b \in Planned
    BY <1>1, <1>4, <2>1, DescendantType
  <2>3. b.col = col
    BY <2>1
  <2> QED
    BY <2>1, <2>2, <2>3
<1> QED
  BY <1>1, <1>2, <1>5 DEF col

\* Transactions are selected for a block that is planned
Filling == \A n \in Nodes : included[n] # <<>> => plan[n] # {}

TypeInv == TypeOK /\ Filling

LEMMA TypeDecide ==
  ASSUME TypeInv, NEW n \in Nodes, DecideActions(n)
  PROVE  TypeInv'
<1>1. absRound' \in [Nodes -> 0 .. MaxCol]
  <2>1. absRound[n] + 1 \in 0 .. MaxCol
    BY DecidePlan DEF TypeInv
  <2> QED
    BY <2>1 DEF TypeInv, TypeOK, DecideActions
<1>2. plan' \in [Nodes -> SUBSET Planned]
  <2>1. /\ plan' = [plan EXCEPT ![n] =
             Assigned(n, absRound[n] + 1, Actions(blockchain[n], absRound[n] + 1))]
        /\ plan'[n] \subseteq Planned
    BY DecidePlan DEF TypeInv
  <2>2. plan \in [Nodes -> SUBSET Planned]
    BY DEF TypeInv, TypeOK
  <2> QED
    BY <2>1, <2>2
<1>3. TypeOK'
  BY <1>1, <1>2 DEF TypeInv, TypeOK, DecideActions
<1>4. \A m \in Nodes : m # n => plan'[m] = plan[m]
  BY DecidePlan DEF TypeInv, TypeOK
<1>5. plan[n] = {}
  BY DEF TypeInv, TypeOK, DecideActions, SlotBegins
<1>6. Filling'
  BY <1>4, <1>5 DEF TypeInv, Filling, DecideActions
<1> QED
  BY <1>3, <1>6 DEF TypeInv

LEMMA TypeSelect ==
  ASSUME TypeInv, NEW n \in Nodes, SelectTransactions(n)
  PROVE  TypeInv'
<1>1. PICK txs \in SUBSET Txs : included' = [included EXCEPT ![n] = <<txs>>]
  BY DEF TypeInv, TypeOK, SelectTransactions
<1>2. included' \in [Nodes -> {<<>>} \cup {<<s>> : s \in SUBSET Txs}]
  BY <1>1 DEF TypeInv, TypeOK
<1>3. TypeOK'
  BY <1>2 DEF TypeInv, TypeOK, SelectTransactions
<1>4. Filling'
  BY <1>1 DEF TypeInv, TypeOK, Filling, SelectTransactions
<1> QED
  BY <1>3, <1>4 DEF TypeInv

\* The block that is created, and what is left
LEMMA CreatedBlock ==
  ASSUME TypeInv, NEW n \in Nodes, CreateBlock(n)
  PROVE  \E b \in plan[n], txs \in SUBSET Txs :
           /\ b = NextBlock(n) /\ txs \in Limited(included[n][1])
           /\ [b EXCEPT !.txs = txs] \in Block
           /\ AppendBlock(n, [b EXCEPT !.txs = txs])
           /\ plan' = [plan EXCEPT ![n] = @ \ {b}]
<1>1. plan[n] # {} /\ included[n] # <<>>
  BY DEF TypeInv, Filling, CreateBlock
<1>2. PICK s \in SUBSET Txs : included[n] = <<s>>
  BY <1>1 DEF TypeInv, TypeOK
<1>3. PICK txs \in Limited(included[n][1]) : AppendBlock(n, [NextBlock(n) EXCEPT !.txs = txs])
  BY DEF CreateBlock
<1>4. txs \in SUBSET Txs
  BY <1>2, <1>3 DEF Limited
<1>5. NextBlock(n) \in plan[n] /\ NextBlock(n) \in Planned
  BY <1>1, NextBlockPlanned DEF TypeInv, TypeOK
<1>6. [NextBlock(n) EXCEPT !.txs = txs] \in Block
  BY <1>4, <1>5, FilledBlock
<1>7. plan' = [plan EXCEPT ![n] = @ \ {NextBlock(n)}]
  BY DEF CreateBlock
<1> QED
  BY <1>3, <1>4, <1>5, <1>6, <1>7

\* A block more in a chain
LEMMA AppendType ==
  ASSUME TypeOK, NEW n \in Nodes, NEW b \in Block, AppendBlock(n, b)
  PROVE  /\ blockchain' \in [Nodes -> Seq(Block)]
         /\ appended' \in [Nodes -> SUBSET Block]
         /\ \A m \in Nodes : BlocksOf(m)' = IF m = n THEN BlocksOf(m) \cup {b} ELSE BlocksOf(m)
         /\ \A m \in Nodes : appended'[m] = IF m = n THEN appended[m] \cup {b} ELSE appended[m]
<1>1. blockchain \in [Nodes -> Seq(Block)] /\ appended \in [Nodes -> SUBSET Block]
  BY DEF TypeOK
<1>2. /\ blockchain' = [blockchain EXCEPT ![n] = Append(@, b)]
      /\ appended' = [appended EXCEPT ![n] = @ \cup {b}]
  BY DEF AppendBlock
<1>3. blockchain[n] \in Seq(Block)
  BY <1>1
<1>4. Append(blockchain[n], b) \in Seq(Block)
  BY <1>3
<1>5. blockchain' \in [Nodes -> Seq(Block)] /\ appended' \in [Nodes -> SUBSET Block]
  BY <1>1, <1>2, <1>4
<1>6. {Append(blockchain[n], b)[i] : i \in DOMAIN Append(blockchain[n], b)}
        = {blockchain[n][i] : i \in DOMAIN blockchain[n]} \cup {b}
  <2> DEFINE s == blockchain[n]
             t == Append(s, b)
  <2>1. /\ DOMAIN s = 1 .. Len(s) /\ DOMAIN t = 1 .. Len(s) + 1 /\ Len(s) \in Nat
        /\ \A i \in 1 .. Len(s) : t[i] = s[i]
        /\ t[Len(s) + 1] = b
    BY <1>3
  <2> HIDE DEF s, t
  <2>2. DOMAIN t = DOMAIN s \cup {Len(s) + 1}
    BY <2>1
  <2>3. {t[i] : i \in DOMAIN t} = {s[i] : i \in DOMAIN s} \cup {b}
    BY <2>1, <2>2
  <2> QED
    BY <2>3 DEF s, t
<1>7. \A m \in Nodes : blockchain'[m] = IF m = n THEN Append(blockchain[n], b) ELSE blockchain[m]
  BY <1>1, <1>2
<1>8. ASSUME NEW m \in Nodes
      PROVE  BlocksOf(m)' = IF m = n THEN BlocksOf(m) \cup {b} ELSE BlocksOf(m)
  BY <1>6, <1>7 DEF BlocksOf
<1> QED
  BY <1>1, <1>2, <1>5, <1>8

-----------------------------------------------------------------------------
(* Where blocks come from *)

\* The blocks of a node, created or still to be
Known(n) == BlocksOf(n) \cup plan[n] \cup net[n] \cup appended[n]

SameSlot(b, c) ==
  /\ b.col = c.col /\ b.row = c.row /\ b.depth = c.depth
  /\ b.parent = c.parent /\ b.second = c.second

NewlyPlanned(b) ==
  \E k \in Nodes : /\ b.col = absRound[k] + 1
                   /\ Descends(InColumn(blockchain[k], absRound[k]), b)

\* A step keeps the blocks it finds, but for their transactions, or plans one
Keeps(b) == NewlyPlanned(b) \/ \E m \in Nodes : \E c \in Known(m) : SameSlot(b, c)

Grown ==
  /\ TypeInv'
  /\ \A n \in Nodes : BlocksOf(n) \subseteq BlocksOf(n)'
  /\ \A n \in Nodes : \A b \in Known(n)' : Keeps(b)

LEMMA KnownKept ==
  ASSUME NEW n \in Nodes, NEW b \in Known(n)
  PROVE  Keeps(b)
BY DEF Keeps, SameSlot

LEMMA DecideGrows ==
  ASSUME TypeInv, NEW n \in Nodes, DecideActions(n)
  PROVE  Grown
<1>1. TypeInv'
  BY TypeDecide
<1>2. \A m \in Nodes : BlocksOf(m)' = BlocksOf(m)
  BY DEF DecideActions, BlocksOf
<1>3. ASSUME NEW b \in plan'[n] PROVE Keeps(b)
  BY <1>3, DecidePlan DEF TypeInv, Keeps, NewlyPlanned
<1>4. \A m \in Nodes : m # n => plan'[m] = plan[m]
  BY DecidePlan DEF TypeInv, TypeOK
<1>5. net' = net /\ appended' = appended
  BY DEF DecideActions
<1>6. \A m \in Nodes : \A b \in Known(m)' : b \in Known(m) \/ (m = n /\ b \in plan'[n])
  BY <1>2, <1>4, <1>5 DEF Known
<1> QED
  BY <1>1, <1>2, <1>3, <1>6, KnownKept DEF Grown

LEMMA SelectGrows ==
  ASSUME TypeInv, NEW n \in Nodes, SelectTransactions(n)
  PROVE  Grown
<1>1. \A m \in Nodes : BlocksOf(m)' = BlocksOf(m) /\ Known(m)' = Known(m)
  BY DEF SelectTransactions, BlocksOf, Known
<1> QED
  BY <1>1, TypeSelect, KnownKept DEF Grown

LEMMA CreateGrows ==
  ASSUME TypeInv, NEW n \in Nodes, CreateBlock(n)
  PROVE  Grown
<1>1. PICK b \in plan[n], txs \in SUBSET Txs :
        /\ [b EXCEPT !.txs = txs] \in Block
        /\ AppendBlock(n, [b EXCEPT !.txs = txs])
        /\ plan' = [plan EXCEPT ![n] = @ \ {b}]
  BY CreatedBlock
<1> DEFINE filled == [b EXCEPT !.txs = txs]
<1>2. filled \in Block /\ AppendBlock(n, filled)
  BY <1>1
<1>3. SameSlot(filled, b)
  BY <1>1, FilledBlock DEF TypeInv, TypeOK, SameSlot
<1> HIDE DEF filled
<1>4. /\ blockchain' \in [Nodes -> Seq(Block)]
      /\ appended' \in [Nodes -> SUBSET Block]
      /\ \A m \in Nodes : BlocksOf(m)' = IF m = n THEN BlocksOf(m) \cup {filled} ELSE BlocksOf(m)
      /\ \A m \in Nodes : appended'[m] = IF m = n THEN appended[m] \cup {filled} ELSE appended[m]
  BY <1>2, AppendType DEF TypeInv
<1>5. plan' \in [Nodes -> SUBSET Planned] /\ \A m \in Nodes : plan'[m] \subseteq plan[m]
  BY <1>1 DEF TypeInv, TypeOK
<1>6. /\ included' \in [Nodes -> {<<>>} \cup {<<s>> : s \in SUBSET Txs}]
      /\ included'[n] = <<>>
      /\ \A m \in Nodes : m # n => included'[m] = included[m] /\ plan'[m] = plan[m]
  BY <1>1 DEF TypeInv, TypeOK, CreateBlock
<1>7. TypeOK'
  BY <1>4, <1>5, <1>6 DEF TypeInv, TypeOK, CreateBlock
<1>8. Filling'
  BY <1>6 DEF TypeInv, Filling
<1>9. \A m \in Nodes : BlocksOf(m) \subseteq BlocksOf(m)'
  BY <1>4
<1>10. ASSUME NEW m \in Nodes, NEW c \in Known(m)' PROVE Keeps(c)
  <2>1. net' = net
    BY DEF CreateBlock
  <2>2. c \in Known(m) \/ c = filled
    BY <1>4, <1>5, <2>1 DEF Known
  <2>3. Keeps(filled)
    BY <1>1, <1>3 DEF Keeps, Known
  <2> QED
    BY <2>2, <2>3, KnownKept
<1> QED
  BY <1>7, <1>8, <1>9, <1>10 DEF Grown, TypeInv

LEMMA ReceiveGrows ==
  ASSUME TypeInv, NEW n \in Nodes, NEW b \in net[n], ReceiveBlock(n, b)
  PROVE  Grown
<1>1. b \in Block /\ AppendBlock(n, b)
  BY DEF TypeInv, TypeOK, ReceiveBlock
<1>2. /\ blockchain' \in [Nodes -> Seq(Block)]
      /\ appended' \in [Nodes -> SUBSET Block]
      /\ \A m \in Nodes : BlocksOf(m)' = IF m = n THEN BlocksOf(m) \cup {b} ELSE BlocksOf(m)
      /\ \A m \in Nodes : appended'[m] = IF m = n THEN appended[m] \cup {b} ELSE appended[m]
  BY <1>1, AppendType DEF TypeInv
<1>3. net' \in [Nodes -> SUBSET Block] /\ \A m \in Nodes : net'[m] \subseteq net[m]
  BY DEF TypeInv, TypeOK, ReceiveBlock
<1>4. TypeOK' /\ plan' = plan
  BY <1>2, <1>3 DEF TypeInv, TypeOK, ReceiveBlock
<1>5. Filling'
  BY DEF TypeInv, Filling, ReceiveBlock
<1>6. \A m \in Nodes : \A c \in Known(m)' : c \in Known(m)
  BY <1>2, <1>3, <1>4 DEF Known
<1> QED
  BY <1>2, <1>4, <1>5, <1>6, KnownKept DEF Grown, TypeInv

LEMMA RemoveGrows ==
  ASSUME TypeInv, NEW n \in Nodes, NEW b \in appended[n],
         BroadcastBlock(n, b) \/ EndReceiveBlock(n, b)
  PROVE  Grown
<1>1. RemoveTransactions(n, b)
  BY DEF BroadcastBlock, EndReceiveBlock
<1>2. /\ appended' \in [Nodes -> SUBSET Block] /\ \A m \in Nodes : appended'[m] \subseteq appended[m]
      /\ mempool' \in [Nodes -> SUBSET Txs]
  BY <1>1 DEF TypeInv, TypeOK, RemoveTransactions, Remaining
<1>3. /\ net' \in [Nodes -> SUBSET Block]
      /\ \A m \in Nodes : net'[m] \subseteq net[m] \cup {b}
  <2>1. CASE BroadcastBlock(n, b)
    <3>1. b \in Block /\ net \in [Nodes -> SUBSET Block]
      BY DEF TypeInv, TypeOK
    <3>2. net' = [m \in Nodes |-> IF m = n THEN net[m] ELSE net[m] \cup {b}]
      BY <2>1 DEF BroadcastBlock
    <3> QED
      BY <3>1, <3>2
  <2>2. CASE EndReceiveBlock(n, b)
    BY <2>2 DEF TypeInv, TypeOK, EndReceiveBlock
  <2> QED
    BY <2>1, <2>2
<1>4. UNCHANGED <<sent, packs, blockchain, absRound, plan, included>>
  BY DEF BroadcastBlock, EndReceiveBlock
<1>5. TypeOK' /\ Filling'
  BY <1>2, <1>3, <1>4 DEF TypeInv, TypeOK, Filling
<1>6. \A m \in Nodes : BlocksOf(m)' = BlocksOf(m)
  BY <1>4 DEF BlocksOf
<1>7. \A m \in Nodes : \A c \in Known(m)' : c \in Known(m) \/ c \in Known(n)
  BY <1>2, <1>3, <1>4, <1>6 DEF Known
<1> QED
  BY <1>5, <1>6, <1>7, KnownKept DEF Grown, TypeInv

LEMMA PacksGrow ==
  ASSUME TypeInv, NEW pack,
         \/ pack \in Packs /\ SendTransactionPack(pack)
         \/ \E n \in Nodes : GatherTransactionPack(n, pack)
  PROVE  Grown
<1>1. TypeOK'
  <2>1. CASE pack \in Packs /\ SendTransactionPack(pack)
    BY <2>1 DEF TypeInv, TypeOK, SendTransactionPack
  <2>2. ASSUME NEW n \in Nodes, GatherTransactionPack(n, pack)
        PROVE  TypeOK'
    <3>1. pack \in Packs /\ pack \subseteq Txs
      BY <2>2 DEF TypeInv, TypeOK, GatherTransactionPack, Txs
    <3>2. packs' \in [Nodes -> SUBSET Packs] /\ mempool' \in [Nodes -> SUBSET Txs]
      BY <2>2, <3>1 DEF TypeInv, TypeOK, GatherTransactionPack
    <3> QED
      BY <2>2, <3>2 DEF TypeInv, TypeOK, GatherTransactionPack
  <2> QED
    BY <2>1, <2>2
<1>2. UNCHANGED <<net, blockchain, plan, included, appended>>
  BY DEF SendTransactionPack, GatherTransactionPack
<1>3. Filling' /\ \A m \in Nodes : BlocksOf(m)' = BlocksOf(m) /\ Known(m)' = Known(m)
  BY <1>2 DEF TypeInv, Filling, BlocksOf, Known
<1> QED
  BY <1>1, <1>3, KnownKept DEF Grown, TypeInv

LEMMA StepGrows ==
  ASSUME TypeInv, [Next]_vars
  PROVE  Grown
<1>1. CASE UNCHANGED vars
  <2>1. TypeInv' /\ \A m \in Nodes : BlocksOf(m)' = BlocksOf(m) /\ Known(m)' = Known(m)
    BY <1>1 DEF TypeInv, TypeOK, Filling, BlocksOf, Known, vars
  <2> QED
    BY <2>1, KnownKept DEF Grown
<1>2. ASSUME NEW n \in Nodes, Continue(n) PROVE Grown
  BY <1>2, CreateGrows, RemoveGrows DEF Continue
<1>3. ASSUME NEW n \in Nodes, Begin(n) PROVE Grown
  BY <1>3, DecideGrows, SelectGrows, ReceiveGrows, PacksGrow DEF Begin
<1>4. ASSUME NEW pack \in Packs, SendTransactionPack(pack) PROVE Grown
  BY <1>4, PacksGrow
<1> QED
  BY <1>1, <1>2, <1>3, <1>4 DEF Next

(***************************************************************************)
(* Every block of every chain has a place in the DAG and a depth that the  *)
(* number of rows allows, its parents have one too, and every node creates *)
(* a block only from transactions it chose for a block it planned.         *)
(***************************************************************************)
THEOREM TypeCorrect == Spec => []TypeOK
<1>1. Init => TypeInv
  BY TypeInit DEF Init, TypeInv, Filling
<1>2. TypeInv /\ [Next]_vars => TypeInv'
  BY StepGrows DEF Grown
<1>3. TypeInv => TypeOK
  BY DEF TypeInv
<1> QED
  BY <1>1, <1>2, <1>3, PTL DEF Spec

-----------------------------------------------------------------------------
(* Rows stay inside the DAG *)

AlignInv == TypeInv /\ \A n \in Nodes : \A b \in Known(n) : Aligned(b)

LEMMA AlignInit == Init => AlignInv
<1> SUFFICES ASSUME Init PROVE AlignInv
  OBVIOUS
<1>1. TypeInv
  BY TypeInit DEF Init, TypeInv, Filling
<1>2. \A n \in Nodes : \A b \in Known(n) : b = Genesis
  BY DEF Init, Known, BlocksOf
<1>3. Aligned(Genesis)
  <2>1. 0 \in 0 .. dagMaxDepth
    BY DagAssumption
  <2>2. Span[0] \in Nat \ {0}
    BY <2>1, Spans
  <2>3. \A s \in Nat \ {0} : 0 % s = 0
    OBVIOUS
  <2> QED
    BY <2>2, <2>3 DEF Aligned, Genesis
<1> QED
  BY <1>1, <1>2, <1>3 DEF AlignInv

LEMMA KnownType ==
  ASSUME TypeOK, NEW n \in Nodes, NEW b \in Known(n)
  PROVE  b \in Block
BY ColumnOfChain DEF TypeOK, Known, Planned

LEMMA AlignStep ==
  ASSUME AlignInv, [Next]_vars
  PROVE  AlignInv'
<1>1. Grown
  BY StepGrows DEF AlignInv
<1>2. ASSUME NEW n \in Nodes, NEW b \in Known(n)'
      PROVE  Aligned(b)
  <2>1. b \in Block
    <3>1. TypeOK'
      BY <1>1 DEF Grown, TypeInv
    <3>2. BlocksOf(n)' \subseteq Block
      BY <3>1 DEF TypeOK, BlocksOf
    <3>3. plan'[n] \subseteq Block /\ net'[n] \subseteq Block /\ appended'[n] \subseteq Block
      BY <3>1 DEF TypeOK, Planned
    <3> QED
      BY <3>2, <3>3 DEF Known
  <2>2. CASE NewlyPlanned(b)
    <3>1. PICK k \in Nodes : Descends(InColumn(blockchain[k], absRound[k]), b)
      BY <2>2 DEF NewlyPlanned
    <3>2. InColumn(blockchain[k], absRound[k]) \subseteq BlocksOf(k) /\ BlocksOf(k) \subseteq Block
      BY ColumnOfChain DEF AlignInv, TypeInv
    <3>3. \A p \in InColumn(blockchain[k], absRound[k]) : Aligned(p)
      BY <3>2 DEF AlignInv, Known
    <3> QED
      BY <2>1, <3>1, <3>2, <3>3, DescendantAligned
  <2>3. ASSUME NEW m \in Nodes, NEW c \in Known(m), SameSlot(b, c)
        PROVE  Aligned(b)
    BY <2>3 DEF SameSlot, AlignInv, Aligned
  <2>4. Keeps(b)
    BY <1>1 DEF Grown
  <2> QED
    BY <2>2, <2>3, <2>4 DEF Keeps
<1> QED
  BY <1>1, <1>2 DEF AlignInv, Grown, Aligned

(***************************************************************************)
(* The rows that splits and merges compute are those of a branch of the    *)
(* block's depth, for any power of two of rows and whatever blocks come    *)
(* late: no branch lies across two others or beyond the last row.          *)
(***************************************************************************)
THEOREM RowsStayAligned == Spec => []RowsAligned
<1>1. AlignInv => RowsAligned
  BY DEF AlignInv, RowsAligned, Known, Aligned
<1> QED
  BY <1>1, AlignInit, AlignStep, PTL DEF Spec

-----------------------------------------------------------------------------
(* Parents cover: the eight rows for which the code's shift is made *)

LEMMA EightRows ==
  ASSUME dagMaxDepth = 3
  PROVE  /\ ParallelLen = 8 /\ Rows = 0 .. 7
         /\ Span[0] = 8 /\ Span[1] = 4 /\ Span[2] = 2 /\ Span[3] = 1
         /\ Branches = {r * 8192 : r \in 0 .. 7}
<1>1. Span[3] = 1 /\ Span[2] = 2 * Span[3] /\ Span[1] = 2 * Span[2] /\ Span[0] = 2 * Span[1]
      /\ Span[0] = ParallelLen
  BY Spans, DagAssumption
<1>2. ParallelLen = 8 /\ Rows = 0 .. 7
  BY <1>1 DEF Rows
<1>3. 2 ^ (hashHexLen - dagMaxDepth) = 8192
  BY DEF hashHexLen
<1> QED
  BY <1>1, <1>2, <1>3 DEF Branches

Hashes == 0 .. 2 ^ hashHexLen - 1

\* The row a hash begins with, and the bits that doesTxBelongToIndex compares
FirstRow(hash) == hash \div 8192
Shift(hash, i) == hash \div 2 ^ (hashHexLen - i - 1)

LEMMA HashRange == \A h : h \in Hashes <=> h \in Nat /\ h < 65536
<1> DEFINE top == 2 ^ hashHexLen - 1
<1>1. top = 65535
  BY DEF hashHexLen
<1>2. \A h : h \in Hashes <=> h \in 0 .. top
  BY DEF Hashes
<1> HIDE DEF top
<1>3. top \in Nat /\ top + 1 = 65536
  BY <1>1, SMT
<1>4. \A h : h \in 0 .. top <=> h \in Nat /\ h < top + 1
  BY <1>3
<1> QED
  BY <1>2, <1>3, <1>4

LEMMA RowInside == \A hash \in Hashes : FirstRow(hash) \in 0 .. 7
<1>1. \A h \in Nat : h < 65536 => h \div 8192 \in 0 .. 7
  BY SMTT(30)
<1> QED
  BY <1>1, HashRange DEF FirstRow

\* The mask of a row
LEMMA RowMask == \A k \in 0 .. 7 : k * 8192 \in Hashes /\ FirstRow(k * 8192) = k
<1>1. \A k \in 0 .. 7 : (k * 8192) \div 8192 = k
  BY SMT
<1>2. \A k \in 0 .. 7 : k * 8192 \in Hashes
  <2>1. \A k \in 0 .. 7 : k * 8192 \in Nat /\ k * 8192 < 65536
    BY SMT
  <2> QED
    BY <2>1, HashRange
<1>3. \A k \in 0 .. 7 : FirstRow(k * 8192) = k
  BY <1>1 DEF FirstRow
<1> QED
  BY <1>2, <1>3

LEMMA RowBounds ==
  \A h \in Hashes : 8192 * FirstRow(h) <= h /\ h < 8192 * (FirstRow(h) + 1)
<1> SUFFICES ASSUME NEW h \in Hashes
             PROVE  8192 * FirstRow(h) <= h /\ h < 8192 * (FirstRow(h) + 1)
  OBVIOUS
<1>1. h \in Nat /\ h < 65536
  BY HashRange
<1>2. \A q \in 0 .. 7 : h \div 8192 = q => 8192 * q <= h /\ h < 8192 * (q + 1)
  BY <1>1, SMTT(30)
<1>3. FirstRow(h) \in 0 .. 7 /\ FirstRow(h) = h \div 8192
  BY RowInside DEF FirstRow
<1> QED
  BY <1>2, <1>3, SMTT(30)

\* The first bits are those of the row
LEMMA Shifts ==
  ASSUME NEW h \in Hashes
  PROVE  /\ Shift(h, 0) = FirstRow(h) \div 4
         /\ Shift(h, 1) = FirstRow(h) \div 2
         /\ Shift(h, 2) = FirstRow(h)
<1> DEFINE r == FirstRow(h)
           s == h - 8192 * r
<1>1. \A q \in 0 .. 7, k \in 0 .. 8191 : (8192 * q + k) \div 16384 = q \div 2
  BY SMTT(30)
<1>2. \A q \in 0 .. 7, k \in 0 .. 8191 : (8192 * q + k) \div 32768 = q \div 4
  BY SMTT(30)
<1>3. \A q, k \in Nat : 8192 * q <= k /\ k < 8192 * (q + 1) =>
        k - 8192 * q \in 0 .. 8191 /\ k = 8192 * q + (k - 8192 * q)
  BY SMT
<1>4. h \in Nat
  BY HashRange
<1>5. r \in 0 .. 7 /\ 8192 * r <= h /\ h < 8192 * (r + 1)
  BY <1>4, RowInside, RowBounds
<1> HIDE DEF r
<1>6. s \in 0 .. 8191 /\ h = 8192 * r + s
  <2>1. r \in Nat
    BY <1>5
  <2> QED
    BY <1>3, <1>4, <1>5, <2>1, SMT
<1> HIDE DEF s
<1>7. h \div 16384 = r \div 2
  <2>1. (8192 * r + s) \div 16384 = r \div 2
    BY <1>1, <1>5, <1>6
  <2> QED
    BY <1>6, <2>1
<1>8. h \div 32768 = r \div 4
  <2>1. (8192 * r + s) \div 32768 = r \div 4
    BY <1>2, <1>5, <1>6
  <2> QED
    BY <1>6, <2>1
<1>9. 2 ^ 13 = 8192 /\ 2 ^ 14 = 16384 /\ 2 ^ 15 = 32768
  OBVIOUS
<1>10. 16 - 0 - 1 = 15 /\ 16 - 1 - 1 = 14 /\ 16 - 2 - 1 = 13
  OBVIOUS
<1>11. Shift(h, 0) = h \div 32768
  BY <1>9, <1>10 DEF Shift, hashHexLen
<1>12. Shift(h, 1) = h \div 16384
  BY <1>9, <1>10 DEF Shift, hashHexLen
<1>13. Shift(h, 2) = h \div 8192
  BY <1>9, <1>10 DEF Shift, hashHexLen
<1> QED
  BY <1>7, <1>8, <1>11, <1>12, <1>13 DEF r, FirstRow

\* The bits of the row a transaction's hash begins with
LEMMA Belongs ==
  ASSUME NEW hash \in Hashes, NEW r, r = FirstRow(hash),
         NEW index \in 0 .. 7, NEW depth \in 0 .. 3
  PROVE  doesTxBelongToIndex(hash, depth, index) <=>
           \/ depth = 0 /\ index = 0
           \/ depth = 1 /\ index \div 4 = r \div 4
           \/ depth = 2 /\ index \div 2 = r \div 2
           \/ depth = 3 /\ index = r
<1> DEFINE mask == index * 8192
           shifted(i) == Shift(mask, i) = Shift(hash, i)
<1>1. r \in 0 .. 7
  BY RowInside
<1>2. mask \in Hashes /\ FirstRow(mask) = index
  BY RowMask
<1>3. CASE depth = 0
  BY <1>3 DEF doesTxBelongToIndex
<1>4. depth # 0 => (doesTxBelongToIndex(hash, depth, index)
                      <=> \A i \in 0 .. depth - 1 : shifted(i))
  <2>1. 2 ^ (hashHexLen - 2 - 1) = 8192
    BY DEF hashHexLen
  <2> QED
    BY <2>1 DEF doesTxBelongToIndex, Shift
<1> HIDE DEF mask
<1>5. /\ shifted(0) <=> index \div 4 = r \div 4
      /\ shifted(1) <=> index \div 2 = r \div 2
      /\ shifted(2) <=> index = r
  <2>1. Shift(mask, 0) = index \div 4 /\ Shift(mask, 1) = index \div 2 /\ Shift(mask, 2) = index
    BY <1>2, Shifts
  <2>2. Shift(hash, 0) = r \div 4 /\ Shift(hash, 1) = r \div 2 /\ Shift(hash, 2) = r
    BY Shifts
  <2> QED
    BY <2>1, <2>2
<1> HIDE DEF shifted
<1>6. CASE depth = 1
  <2>1. 0 .. depth - 1 = {0}
    BY <1>6
  <2> QED
    BY <1>4, <1>5, <1>6, <2>1
<1>7. CASE depth = 2
  <2>1. 0 .. depth - 1 = {0, 1}
    BY <1>7
  <2>2. index \div 2 = r \div 2 => index \div 4 = r \div 4
    BY <1>1
  <2> QED
    BY <1>4, <1>5, <1>7, <2>1, <2>2
<1>8. CASE depth = 3
  <2>1. 0 .. depth - 1 = {0, 1, 2}
    BY <1>8
  <2>2. index = r => index \div 4 = r \div 4 /\ index \div 2 = r \div 2
    OBVIOUS
  <2> QED
    BY <1>4, <1>5, <1>8, <2>1, <2>2
<1> QED
  BY <1>3, <1>6, <1>7, <1>8

\* What a block's parents make of its branch
LEMMA BranchKept ==
  ASSUME dagMaxDepth = 3, NEW blocks, blocks \subseteq Block, \A p \in blocks : Aligned(p),
         NEW b \in Block, Descends(blocks, b), NEW mask \in Branch(b)
  PROVE  \E p \in blocks : At(p) \in {b.parent, b.second} /\ mask \in Branch(p)
<1>1. PICK r \in 0 .. 7 : mask = r * 8192
  BY EightRows DEF Branch
<1>2. \A c \in Block : c.row \in 0 .. 7 /\ c.depth \in 0 .. 3
  BY EightRows DEF Block
<1> DEFINE In(row, depth) ==
      \/ depth = 0 /\ row = 0
      \/ depth = 1 /\ row \div 4 = r \div 4
      \/ depth = 2 /\ row \div 2 = r \div 2
      \/ depth = 3 /\ row = r
<1>3. \A c \in Block : mask \in Branch(c) <=> In(c.row, c.depth)
  <2> TAKE c \in Block
  <2>1. mask \in Branches
    BY <1>1, EightRows
  <2>2. mask \in Hashes /\ r = FirstRow(mask)
    BY <1>1, RowMask
  <2>3. c.row \in 0 .. 7 /\ c.depth \in 0 .. 3
    BY <1>2
  <2>4. doesTxBelongToIndex(mask, c.depth, c.row) <=> In(c.row, c.depth)
    BY <2>2, <2>3, Belongs
  <2> QED
    BY <2>1, <2>4 DEF Branch
<1>4. In(b.row, b.depth)
  BY <1>3
<1>5. PICK p \in blocks :
        /\ b.parent = At(p)
        /\ \/ Continued(p, b.row, b.depth)
           \/ Half(p, b.row, b.depth)
           \/ \E c \in blocks : b.second = At(c) /\ Merged(p, c, b.row, b.depth)
  BY DEF Descends
<1>6. p.row \in 0 .. 7 /\ p.depth \in 0 .. 3 /\ b.row \in 0 .. 7 /\ b.depth \in 0 .. 3
  BY <1>2
<1>7. /\ p.depth = 0 => p.row = 0
      /\ p.depth = 1 => p.row % 4 = 0
      /\ p.depth = 2 => p.row % 2 = 0
  <2>1. p.row % Span[p.depth] = 0
    BY DEF Aligned
  <2>2. p.row % 8 = 0 => p.row = 0
    BY <1>6
  <2> QED
    BY <2>1, <2>2, EightRows
<1>11. \A row, k \in 0 .. 7 :
         /\ row % 4 = 0 => (row \div 2 = k \div 2 \/ (row + 2) \div 2 = k \div 2
                              <=> row \div 4 = k \div 4)
         /\ row % 2 = 0 => (row = k \/ row + 1 = k <=> row \div 2 = k \div 2)
  OBVIOUS
<1>8. CASE Continued(p, b.row, b.depth)
  <2>1. In(p.row, p.depth)
    BY <1>4, <1>8 DEF Continued
  <2> QED
    BY <1>3, <1>5, <2>1
<1>9. CASE Half(p, b.row, b.depth)
  <2>1. /\ p.depth \in 0 .. 2 /\ b.depth = p.depth + 1
        /\ b.row = p.row \/ b.row = p.row + Span[b.depth]
    <3>1. p.depth < 3 /\ b.depth = p.depth + 1
      BY <1>9 DEF Half, Splittable
    <3>2. getSplitSecondIndex(p.row, p.depth + 1) = p.row + Span[p.depth + 1]
      <4>1. p.depth \in Nat
        BY <1>6
      <4> QED
        BY <4>1, SplitRow
    <3>3. b.row = p.row \/ b.row = p.row + Span[b.depth]
      BY <1>9, <3>1, <3>2 DEF Half
    <3> QED
      BY <1>6, <3>1, <3>3
  <2>2. ASSUME p.depth = 0 PROVE In(p.row, p.depth)
    BY <1>6, <1>7, <2>2
  <2>3. ASSUME p.depth = 1 PROVE In(p.row, p.depth)
    <3>1. Span[b.depth] = 2 /\ b.row \div 2 = r \div 2
      BY <1>4, <2>1, <2>3, EightRows
    <3>2. p.row \div 4 = r \div 4
      <4>1. p.row % 4 = 0 /\ (b.row = p.row \/ b.row = p.row + 2)
        BY <1>7, <2>1, <2>3, <3>1
      <4>2. p.row \div 2 = r \div 2 \/ (p.row + 2) \div 2 = r \div 2
        BY <3>1, <4>1
      <4> QED
        BY <1>6, <1>11, <4>1, <4>2
    <3> QED
      BY <2>3, <3>2
  <2>4. ASSUME p.depth = 2 PROVE In(p.row, p.depth)
    <3>1. Span[b.depth] = 1 /\ b.row = r
      BY <1>4, <2>1, <2>4, EightRows
    <3>2. p.row \div 2 = r \div 2
      BY <1>6, <1>7, <2>1, <2>4, <3>1
    <3> QED
      BY <2>4, <3>2
  <2>5. In(p.row, p.depth)
    BY <2>1, <2>2, <2>3, <2>4
  <2> QED
    BY <1>3, <1>5, <2>5
<1>10. ASSUME NEW c \in blocks, b.second = At(c), Merged(p, c, b.row, b.depth)
       PROVE  \E q \in blocks : At(q) \in {b.parent, b.second} /\ mask \in Branch(q)
  <2>1. c.row \in Rows /\ c.row \in 0 .. 7 /\ c.depth \in 0 .. 3 /\ p.row \in Rows
        /\ p.depth \in 0 .. dagMaxDepth
    BY <1>2 DEF Block
  <2>2. /\ p.depth # 0 /\ c.row = p.row + Span[p.depth]
        /\ c.depth = p.depth /\ b.row = p.row /\ b.depth = p.depth - 1
        /\ p.row % 2 = 0 /\ p.depth >= FirstHalfDepth(p.row)
    BY <1>10, <2>1, MergeRow DEF Merged
  <2>3. p.row % Span[p.depth - 1] = 0
    BY <1>6, <2>1, <2>2, FirstHalfAligned
  <2>4. ASSUME p.depth = 1 PROVE In(p.row, p.depth) \/ In(c.row, c.depth)
    <3>1. c.row = p.row + 4 /\ p.row = 0
      <4>1. p.row % 8 = 0 => p.row = 0
        BY <1>6
      <4> QED
        BY <2>2, <2>3, <2>4, <4>1, EightRows
    <3>2. p.row \div 4 = r \div 4 \/ c.row \div 4 = r \div 4
      BY <3>1
    <3> QED
      BY <2>2, <2>4, <3>2
  <2>5. ASSUME p.depth = 2 PROVE In(p.row, p.depth) \/ In(c.row, c.depth)
    <3>1. c.row = p.row + 2 /\ p.row % 4 = 0 /\ p.row \div 4 = r \div 4
      BY <1>4, <2>2, <2>3, <2>5, EightRows
    <3>2. p.row \div 2 = r \div 2 \/ (p.row + 2) \div 2 = r \div 2
      BY <1>6, <1>11, <3>1
    <3>3. p.row \div 2 = r \div 2 \/ c.row \div 2 = r \div 2
      BY <3>1, <3>2
    <3> QED
      BY <2>2, <2>5, <3>3
  <2>6. ASSUME p.depth = 3 PROVE In(p.row, p.depth) \/ In(c.row, c.depth)
    <3>1. c.row = p.row + 1 /\ p.row % 2 = 0 /\ p.row \div 2 = r \div 2
      BY <1>4, <2>2, <2>3, <2>6, EightRows
    <3>2. p.row = r \/ c.row = r
      BY <1>6, <1>11, <3>1
    <3> QED
      BY <2>2, <2>6, <3>2
  <2>7. In(p.row, p.depth) \/ In(c.row, c.depth)
    BY <1>6, <2>2, <2>4, <2>5, <2>6
  <2> QED
    BY <1>3, <1>5, <1>10, <2>7
<1> QED
  BY <1>5, <1>8, <1>9, <1>10


CoverInv ==
  /\ AlignInv
  /\ \A n \in Nodes : \A b \in Known(n) :
       b.col > 0 => Branch(b) \subseteq Covered(UNION {BlocksOf(m) : m \in Nodes}, b)

LEMMA CoveredKept ==
  ASSUME NEW blocks, NEW more, blocks \subseteq more, NEW b, NEW c, SameSlot(b, c)
  PROVE  Branch(b) = Branch(c) /\ Covered(blocks, c) \subseteq Covered(more, b)
BY DEF SameSlot, Branch, Covered

LEMMA CoverStep ==
  ASSUME dagMaxDepth = 3, CoverInv, [Next]_vars
  PROVE  CoverInv'
<1> DEFINE all == UNION {BlocksOf(m) : m \in Nodes}
<1>1. Grown
  BY StepGrows DEF CoverInv, AlignInv
<1>2. AlignInv'
  BY AlignStep DEF CoverInv
<1>3. all \subseteq all'
  BY <1>1 DEF Grown
<1>4. ASSUME NEW n \in Nodes, NEW b \in Known(n)', b.col > 0
      PROVE  Branch(b) \subseteq Covered(all', b)
  <2>1. b \in Block
    <3>1. TypeOK'
      BY <1>2 DEF AlignInv, TypeInv
    <3>2. BlocksOf(n)' \subseteq Block
      BY <3>1 DEF TypeOK, BlocksOf
    <3>3. plan'[n] \subseteq Block /\ net'[n] \subseteq Block /\ appended'[n] \subseteq Block
      BY <3>1 DEF TypeOK, Planned
    <3> QED
      BY <3>2, <3>3 DEF Known
  <2>2. CASE NewlyPlanned(b)
    <3>1. PICK k \in Nodes : Descends(InColumn(blockchain[k], absRound[k]), b)
      BY <2>2 DEF NewlyPlanned
    <3> DEFINE blocks == InColumn(blockchain[k], absRound[k])
    <3>2. blocks \subseteq BlocksOf(k) /\ BlocksOf(k) \subseteq Block
      BY ColumnOfChain DEF CoverInv, AlignInv, TypeInv
    <3>3. \A p \in blocks : Aligned(p)
      BY <3>2 DEF CoverInv, AlignInv, Known
    <3>4. blocks \subseteq all
      BY <3>2
    <3> HIDE DEF blocks
    <3>5. ASSUME NEW mask \in Branch(b)
          PROVE  mask \in Covered(all', b)
      <4>1. PICK p \in blocks : At(p) \in {b.parent, b.second} /\ mask \in Branch(p)
        BY <2>1, <3>1, <3>2, <3>3, BranchKept DEF blocks
      <4>2. p \in all'
        BY <1>3, <3>4
      <4> HIDE DEF all
      <4> QED
        BY <4>1, <4>2 DEF Covered
    <3> QED
      BY <3>5
  <2>3. ASSUME NEW m \in Nodes, NEW c \in Known(m), SameSlot(b, c)
        PROVE  Branch(b) \subseteq Covered(all', b)
    <3>1. Branch(c) \subseteq Covered(all, c)
      BY <1>4, <2>3 DEF CoverInv, SameSlot
    <3> HIDE DEF all
    <3> QED
      BY <1>3, <2>3, <3>1, CoveredKept
  <2>4. Keeps(b)
    BY <1>1 DEF Grown
  <2> QED
    BY <2>2, <2>3, <2>4 DEF Keeps
<1> QED
  BY <1>2, <1>4 DEF CoverInv, Covered, Branch, At

LEMMA CoverInit == Init => CoverInv
<1> SUFFICES ASSUME Init PROVE CoverInv
  OBVIOUS
<1>1. \A n \in Nodes : \A b \in Known(n) : b = Genesis
  BY DEF Init, Known, BlocksOf
<1>2. Genesis.col = 0
  BY DEF Genesis
<1> QED
  BY <1>1, <1>2, AlignInit DEF CoverInv

(***************************************************************************)
(* With the eight rows the code is built for, whatever blocks come late    *)
(* and whatever leaders miss when they decide: the parents of a block      *)
(* serve every part of the hash range that it serves.                      *)
(***************************************************************************)
THEOREM ParentsCoverBranches ==
  ASSUME dagMaxDepth = 3
  PROVE  Spec => []ParentsCover
<1>1. CoverInv /\ [Next]_vars => CoverInv'
  BY CoverStep
<1>2. CoverInv => ParentsCover
  <2> SUFFICES ASSUME CoverInv PROVE ParentsCover
    OBVIOUS
  <2> DEFINE all == UNION {BlocksOf(m) : m \in Nodes}
  <2>1. ASSUME NEW b \in all, b.col > 0
        PROVE  Branch(b) \subseteq Covered(all, b)
    BY <2>1 DEF CoverInv, Known
  <2> QED
    BY <2>1 DEF ParentsCover
<1> QED
  BY <1>1, <1>2, CoverInit, PTL DEF Spec

-----------------------------------------------------------------------------
(* Networks in time: blocks arrive before the next slot begins *)

\* A node that is behind has nothing left to create
NearSlots ==
  \A n, m \in Nodes :
    absRound[m] <= absRound[n] + 1 /\ (absRound[m] > absRound[n] => plan[n] = {})

\* What is under way is of the last slot that began
PendingLate ==
  \A n, m \in Nodes : \A b \in net[m] \cup appended[m] : b.col >= absRound[n]

\* Blocks are those of their leaders' slots
LedInSlot ==
  \A n \in Nodes :
    /\ \A b \in BlocksOf(n) \cup net[n] : b.col = 0 \/ b.col <= absRound[Leader(b.col, b.row)]
    /\ \A b \in plan[n] : b.col = absRound[n] /\ b.col > 0 /\ Leader(b.col, b.row) = n
    /\ \A b \in net[n] : b.col > 0 /\ Leader(b.col, b.row) # n
    /\ \A b \in appended[n] : b.col > 0

\* Column 0 is the genesis block
Rooted ==
  \A n \in Nodes : Genesis \in BlocksOf(n) /\ \A b \in BlocksOf(n) : b.col = 0 => b = Genesis

\* A block that a node does not have is on its way, or about to be broadcast
Everywhere ==
  /\ \A n, m \in Nodes : \A b \in BlocksOf(m) :
       \/ b \in BlocksOf(n) \cup net[n]
       \/ b.col > 0 /\ b \in appended[Leader(b.col, b.row)]
  /\ \A n \in Nodes : appended[n] \subseteq BlocksOf(n)
  /\ \A n \in Nodes : \A b \in net[n] : \E m \in Nodes : b \in BlocksOf(m)

Sorted == \A n \in Nodes : \A i, j \in DOMAIN blockchain[n] :
            i < j => blockchain[n][i].col <= blockchain[n][j].col

\* At most one block is made for a place of the DAG
OneEach ==
  \A n \in Nodes :
    /\ \A m \in Nodes : \A b \in BlocksOf(n), c \in BlocksOf(m) : At(b) = At(c) => b = c
    /\ \A m \in Nodes : \A b \in plan[n], c \in BlocksOf(m) : At(b) # At(c)
    /\ \A b, c \in plan[n] : At(b) = At(c) => b = c

\* What node n had to create in its slot
Assignment(n) == Assigned(n, absRound[n], Actions(blockchain[n], absRound[n]))

Own(n) == {b \in BlocksOf(n) : b.col = absRound[n] /\ Leader(b.col, b.row) = n}

\* It is planned or created, and nothing else is
PlanMade ==
  \A n \in Nodes : absRound[n] > 0 =>
    /\ \A a \in Assignment(n) : \E b \in plan[n] \cup Own(n) : SameSlot(a, b)
    /\ \A b \in plan[n] \cup Own(n) : \E a \in Assignment(n) : SameSlot(a, b)

\* The rows of a branch
Covers(row, depth, r) == row <= r /\ r < row + Span[depth]

\* Each row belongs to one branch
Partition(blocks) ==
  \A r \in Rows :
    /\ \E b \in blocks : Covers(b.row, b.depth, r)
    /\ \A b, c \in blocks : Covers(b.row, b.depth, r) /\ Covers(c.row, c.depth, r) => b = c

Partitioned ==
  \A n \in Nodes : absRound[n] > 0 => Partition(InColumn(blockchain[n], absRound[n] - 1))

TimelyInv ==
  /\ AlignInv /\ NearSlots /\ PendingLate /\ LedInSlot /\ Rooted /\ Everywhere /\ Sorted
  /\ OneEach /\ PlanMade /\ Partitioned

-----------------------------------------------------------------------------
(* Columns that are complete *)

\* In a chain in the order of columns the search of decideAction finds all
LEMMA SortedFound ==
  ASSUME NEW chain \in Seq(Block), NEW col, col \in Int, NEW row,
         \A i, j \in DOMAIN chain : i < j => chain[i].col <= chain[j].col
  PROVE  Found(chain, col, row) = {b \in InColumn(chain, col) : b.row = row}
<1>1. DOMAIN chain = 1 .. Len(chain) /\ Len(chain) \in Nat
  OBVIOUS
<1>2. \A i \in DOMAIN chain : chain[i].col \in Int
  <2>1. \A i \in DOMAIN chain : chain[i] \in Block
    OBVIOUS
  <2> QED
    BY <2>1 DEF Block
<1>3. ASSUME NEW i \in DOMAIN chain, chain[i].col = col
      PROVE  \A k \in i + 1 .. Len(chain) : chain[k].col >= col
  <2> TAKE k \in i + 1 .. Len(chain)
  <2>1. k \in DOMAIN chain /\ i < k
    BY <1>1
  <2>2. chain[i].col <= chain[k].col
    BY <2>1
  <2> QED
    BY <1>2, <1>3, <2>1, <2>2
<1> QED
  BY <1>3 DEF Found, InColumn

\* A block of a later column hides none
LEMMA AppendFound ==
  ASSUME NEW chain \in Seq(Block), NEW b \in Block, NEW col \in Int, b.col > col
  PROVE  /\ InColumn(Append(chain, b), col) = InColumn(chain, col)
         /\ \A row : Found(Append(chain, b), col, row) = Found(chain, col, row)
<1> DEFINE t == Append(chain, b)
           n == Len(chain)
<1>1. /\ n \in Nat /\ DOMAIN chain = 1 .. n /\ DOMAIN t = 1 .. n + 1 /\ Len(t) = n + 1
      /\ t[n + 1] = b /\ \A i \in 1 .. n : t[i] = chain[i]
  OBVIOUS
<1>2. b.col # col /\ b.col >= col
  BY DEF Block
<1> HIDE DEF t, n
<1>3. {j \in DOMAIN t : t[j].col = col} = {j \in DOMAIN chain : chain[j].col = col}
  <2>1. \A j \in DOMAIN t : j \in DOMAIN chain \/ j = n + 1
    BY <1>1
  <2>2. \A j \in DOMAIN chain : j \in DOMAIN t
    BY <1>1
  <2> QED
    BY <1>1, <1>2, <2>1, <2>2
<1>4. InColumn(t, col) = InColumn(chain, col)
  BY <1>1, <1>3 DEF InColumn
<1>5. ASSUME NEW row
      PROVE  Found(t, col, row) = Found(chain, col, row)
  <2> DEFINE I(s) == {j \in DOMAIN s : /\ s[j].col = col /\ s[j].row = row
                                       /\ \A k \in j + 1 .. Len(s) : s[k].col >= col}
  <2>1. \A j \in 1 .. n : (\A k \in j + 1 .. n + 1 : t[k].col >= col)
                            <=> (\A k \in j + 1 .. n : chain[k].col >= col)
    <3> TAKE j \in 1 .. n
    <3>1. \A k \in j + 1 .. n + 1 : (k \in 1 .. n /\ k \in j + 1 .. n) \/ k = n + 1
      BY <1>1
    <3>2. \A k \in j + 1 .. n : k \in j + 1 .. n + 1 /\ k \in 1 .. n
      BY <1>1
    <3> QED
      BY <1>1, <1>2, <3>1, <3>2
  <2>2. I(t) = I(chain)
    <3>1. \A j \in I(t) : j \in 1 .. n
      BY <1>1, <1>2
    <3>2. \A j \in I(chain) : j \in 1 .. n
      BY <1>1
    <3>3. ASSUME NEW j \in 1 .. n
          PROVE  j \in I(t) <=> j \in I(chain)
      <4>1. j \in DOMAIN t /\ j \in DOMAIN chain /\ t[j] = chain[j]
        BY <1>1, <3>3
      <4>2. (\A k \in j + 1 .. Len(t) : t[k].col >= col)
              <=> (\A k \in j + 1 .. Len(chain) : chain[k].col >= col)
        BY <1>1, <2>1, <3>3 DEF n
      <4> QED
        BY <4>1, <4>2
    <3> HIDE DEF I
    <3> QED
      BY <3>1, <3>2, <3>3
  <2>3. \A j \in I(chain) : t[j] = chain[j]
    BY <1>1
  <2>4. Found(t, col, row) = {t[i] : i \in I(t)} /\ Found(chain, col, row) = {chain[i] : i \in I(chain)}
    BY <1>1 DEF Found, n
  <2> HIDE DEF I
  <2> QED
    BY <2>2, <2>3, <2>4
<1> QED
  BY <1>4, <1>5 DEF t

\* What is decided depends on the blocks that are found alone
LEMMA SameFoundSameActions ==
  ASSUME NEW chain1, NEW chain2, NEW col,
         \A row : Found(chain1, col - 1, row) = Found(chain2, col - 1, row)
  PROVE  Actions(chain1, col) = Actions(chain2, col)
<1> DEFINE Some(S) == CHOOSE x \in S : TRUE
           Partners(found, p) == {c \in found : Mergeable(p, c)}
           Choice(p, partners) ==
             CASE Splittable(p) -> [action |-> "SPLIT", parent |-> p, second |-> None]
               [] ~Splittable(p) /\ partners # {} ->
                    [action |-> "MERGE", parent |-> p, second |-> Some(partners)]
               [] ~Splittable(p) /\ partners = {} ->
                    [action |-> "CONTINUE", parent |-> p, second |-> None]
           Merging(p) == getMergeSecondIndex(p.row, p.depth)
           Made(chain, found) ==
             IF found = {} THEN Skip
             ELSE Choice(Some(found), Partners(Found(chain, col - 1, Merging(Some(found))), Some(found)))
<1>1. \A row : /\ decideAction(chain1, row, col) = Made(chain1, Found(chain1, col - 1, row))
               /\ decideAction(chain2, row, col) = Made(chain2, Found(chain2, col - 1, row))
  BY DEF decideAction
<1>2. ASSUME NEW found PROVE Made(chain1, found) = Made(chain2, found)
  <2> HIDE DEF Choice, Partners, Merging, Some
  <2> QED
    OBVIOUS
<1> HIDE DEF Made
<1>3. \A row : decideAction(chain1, row, col) = decideAction(chain2, row, col)
  BY <1>1, <1>2
<1> DEFINE Loop(decided) == epochActions(decided, Effective(decided))
           d1 == [row \in Rows |-> decideAction(chain1, row, col)]
           d2 == [row \in Rows |-> decideAction(chain2, row, col)]
<1>4. d1 = d2
  BY <1>3
<1>5. Actions(chain1, col) = Loop(d1) /\ Actions(chain2, col) = Loop(d2)
  BY DEF Actions
<1> HIDE DEF Loop, d1, d2
<1> QED
  BY <1>4, <1>5

\* A row with a block is not skipped
LEMMA FoundNotSkipped ==
  ASSUME NEW chain, NEW col, NEW row, Found(chain, col - 1, row) # {}
  PROVE  decideAction(chain, row, col) # Skip
<1> DEFINE p == CHOOSE q \in Found(chain, col - 1, row) : TRUE
           partners == {c \in Found(chain, col - 1, getMergeSecondIndex(p.row, p.depth)) :
                          Mergeable(p, c)}
<1>1. decideAction(chain, row, col)
        = CASE Splittable(p) -> [action |-> "SPLIT", parent |-> p, second |-> None]
            [] ~Splittable(p) /\ partners # {} ->
                 [action |-> "MERGE", parent |-> p, second |-> CHOOSE c \in partners : TRUE]
            [] ~Splittable(p) /\ partners = {} ->
                 [action |-> "CONTINUE", parent |-> p, second |-> None]
  BY DEF decideAction
<1> HIDE DEF p, partners
<1>2. decideAction(chain, row, col).action \in {"SPLIT", "MERGE", "CONTINUE"}
  BY <1>1
<1> QED
  BY <1>2 DEF Skip

-----------------------------------------------------------------------------
(* A partition of the rows makes a partition *)

\* The rows of an aligned branch are rows of the DAG
LEMMA BranchInside ==
  ASSUME NEW d \in 0 .. dagMaxDepth, NEW r \in Rows, r % Span[d] = 0
  PROVE  r + Span[d] <= ParallelLen
<1>0. dagMaxDepth \in Nat /\ ParallelLen \in Nat
  BY DagAssumption
<1> DEFINE G == {k \in 0 .. dagMaxDepth : \E q \in Nat : ParallelLen = Span[k] * q}
<1>1. 0 \in G
  <2>1. ParallelLen = Span[0] * 1
    BY <1>0, Spans
  <2> QED
    BY <1>0, <2>1
<1>2. ASSUME NEW k \in 0 .. dagMaxDepth - 1, k \in G
      PROVE  k + 1 \in G
  <2>1. PICK q \in Nat : ParallelLen = Span[k] * q
    BY <1>2
  <2>2. k + 1 \in 0 .. dagMaxDepth /\ Span[k] = 2 * Span[k + 1] /\ Span[k + 1] \in Nat
    BY <1>0, Spans
  <2>3. (2 * Span[k + 1]) * q = Span[k + 1] * (2 * q) /\ 2 * q \in Nat
    BY <2>2
  <2> QED
    BY <2>1, <2>2, <2>3
<1> HIDE DEF G
<1>3. d \in G
  BY <1>0, <1>1, <1>2, UpTo
<1>4. PICK q \in Nat : ParallelLen = Span[d] * q
  BY <1>3 DEF G
<1> DEFINE s == Span[d]
<1>5. s \in Nat \ {0} /\ r \in Nat /\ r < ParallelLen
  BY <1>0, Spans DEF Rows
<1> HIDE DEF s
<1>6. PICK p \in Nat : r = s * p
  <2>1. \A n \in Nat \ {0} : r % n = 0 => \E p \in Nat : r = n * p
    BY <1>5
  <2> QED
    BY <1>5, <2>1 DEF s
<1>7. p < q
  <2> SUFFICES ASSUME q <= p PROVE FALSE
    OBVIOUS
  <2>1. s * q <= s * p
    BY <1>5
  <2> QED
    BY <1>4, <1>5, <1>6, <2>1 DEF s
<1>8. s * (p + 1) <= s * q
  BY <1>5, <1>7
<1>9. s * (p + 1) = s * p + s
  BY <1>5
<1> QED
  BY <1>4, <1>5, <1>6, <1>8, <1>9 DEF s

\* The decided action of a row, given all blocks of the column before
IsCont(a, blocks, x, p) ==
  /\ p \in blocks /\ p.row = x
  /\ a = [action |-> "CONTINUE", parent |-> p, second |-> None]

IsSplit(a, blocks, x, p) ==
  /\ p \in blocks /\ p.row = x /\ p.depth < dagMaxDepth
  /\ a = [action |-> "SPLIT", parent |-> p, second |-> None]

IsMerge(a, blocks, x, p, c) ==
  /\ p \in blocks /\ c \in blocks /\ p.row = x
  /\ p.depth # 0 /\ c.depth = p.depth /\ c.row = x + Span[p.depth]
  /\ x % Span[p.depth - 1] = 0
  /\ a = [action |-> "MERGE", parent |-> p, second |-> c]

LEMMA ActionShape ==
  ASSUME NEW chain, NEW col, NEW x \in Rows, InColumn(chain, col - 1) \subseteq Block,
         Found(chain, col - 1, x) = {b \in InColumn(chain, col - 1) : b.row = x}
  PROVE  LET a == decideAction(chain, x, col)
             blocks == InColumn(chain, col - 1)
         IN  \/ a = Skip /\ \A b \in blocks : b.row # x
             \/ \E p \in blocks : IsCont(a, blocks, x, p)
             \/ \E p \in blocks : IsSplit(a, blocks, x, p)
             \/ \E p, c \in blocks : IsMerge(a, blocks, x, p, c)
<1> DEFINE a == decideAction(chain, x, col)
           blocks == InColumn(chain, col - 1)
<1>1. Decided(chain, x, col, a)
  BY ActionDecided
<1>2. a = Skip => \A b \in blocks : b.row # x
  BY FoundNotSkipped
<1> HIDE DEF a
<1>3. CASE a = Skip
  BY <1>2, <1>3 DEF a
<1>4. CASE a # Skip
  <2>1. PICK p \in blocks :
          /\ p.row = x
          /\ \/ a = [action |-> "CONTINUE", parent |-> p, second |-> None]
             \/ Splittable(p) /\ a = [action |-> "SPLIT", parent |-> p, second |-> None]
             \/ \E c \in blocks :
                  /\ c.row = getMergeSecondIndex(p.row, p.depth) /\ c.depth = p.depth
                  /\ a = [action |-> "MERGE", parent |-> p, second |-> c]
    BY <1>1, <1>4 DEF Decided
  <2>2. CASE a = [action |-> "CONTINUE", parent |-> p, second |-> None]
    <3>1. IsCont(a, blocks, x, p)
      BY <2>1, <2>2 DEF IsCont
    <3> HIDE DEF blocks
    <3> QED
      BY <3>1 DEF a, blocks
  <2>3. CASE Splittable(p) /\ a = [action |-> "SPLIT", parent |-> p, second |-> None]
    <3>1. IsSplit(a, blocks, x, p)
      BY <2>1, <2>3 DEF IsSplit, Splittable
    <3> HIDE DEF blocks
    <3> QED
      BY <3>1 DEF a, blocks
  <2>4. ASSUME NEW c \in blocks, c.row = getMergeSecondIndex(p.row, p.depth), c.depth = p.depth,
               a = [action |-> "MERGE", parent |-> p, second |-> c]
        PROVE  IsMerge(a, blocks, x, p, c)
    <3>1. p.depth \in 0 .. dagMaxDepth /\ c.row \in Rows
      BY DEF Block
    <3>2. /\ p.depth # 0 /\ x % 2 = 0 /\ p.depth >= FirstHalfDepth(x)
          /\ c.row = x + Span[p.depth]
      BY <2>1, <2>4, <3>1, MergeRow
    <3>3. p.depth \in 1 .. dagMaxDepth
      BY <3>1, <3>2, DagAssumption
    <3>4. x % Span[p.depth - 1] = 0
      BY <3>2, <3>3, FirstHalfAligned
    <3> QED
      BY <2>1, <2>4, <3>2, <3>4 DEF IsMerge
  <2> HIDE DEF blocks
  <2> QED
    BY <2>1, <2>2, <2>3, <2>4 DEF a, blocks
<1> QED
  BY <1>3, <1>4

LEMMA NotBothHalves ==
  ASSUME NEW s \in Nat \ {0}, NEW y \in Nat, y % (2 * s) = 0, (y + s) % (2 * s) = 0
  PROVE  FALSE
<1>1. PICK p \in Nat, q \in Nat : y = (2 * s) * p /\ y + s = (2 * s) * q
  <2>1. 2 * s \in Nat \ {0} /\ y + s \in Nat
    OBVIOUS
  <2>2. \A n \in Nat \ {0}, r \in Nat : r % n = 0 => \E p \in Nat : r = n * p
    OBVIOUS
  <2> QED
    BY <2>1, <2>2
<1>2. s = (2 * s) * q - (2 * s) * p
  BY <1>1
<1>3. (2 * s) * q = s * (2 * q) /\ (2 * s) * p = s * (2 * p)
  OBVIOUS
<1>4. s * (2 * q - 2 * p) = s * (2 * q) - s * (2 * p)
  OBVIOUS
<1>5. s * (2 * q - 2 * p) = s
  BY <1>2, <1>3, <1>4
<1>6. 2 * q - 2 * p = 1
  <2>1. \A k \in Int : s * k = s => k = 1
    OBVIOUS
  <2>2. 2 * q - 2 * p \in Int
    OBVIOUS
  <2> QED
    BY <1>5, <2>1, <2>2
<1> QED
  BY <1>6

\* The rows that stay with a block, and their branches
Live(chain, col) == {x \in Rows : Actions(chain, col)[x].action # "SKIP"}

LEMMA NextPartition ==
  ASSUME NEW chain, NEW col, InColumn(chain, col - 1) \subseteq Block,
         \A x \in Rows : Found(chain, col - 1, x) = {b \in InColumn(chain, col - 1) : b.row = x},
         \A b \in InColumn(chain, col - 1) : Aligned(b),
         Partition(InColumn(chain, col - 1))
  PROVE  LET acts == Actions(chain, col)
         IN  \A r \in Rows :
               /\ \E v \in Live(chain, col) : Covers(v, Depth(acts[v]), r)
               /\ \A v, w \in Live(chain, col) :
                    Covers(v, Depth(acts[v]), r) /\ Covers(w, Depth(acts[w]), r) => v = w
<1> DEFINE decided == [x \in Rows |-> decideAction(chain, x, col)]
           effective == Effective(decided)
           acts == Actions(chain, col)
           blocks == InColumn(chain, col - 1)
           Cont(x, p) == IsCont(decided[x], blocks, x, p)
           Split(x, p) == IsSplit(decided[x], blocks, x, p)
           Merge(x, p, c) == IsMerge(decided[x], blocks, x, p, c)
           Half2(x, p) == x + Span[p.depth + 1]
           Hits(x) == {y \in effective : Target(y, decided[y]) = x}
<1>0. dagMaxDepth \in Nat /\ ParallelLen \in Nat /\ \A x \in Rows : x \in Nat /\ x < ParallelLen
  BY DagAssumption DEF Rows
<1>1. ASSUME NEW x \in Rows
      PROVE  \/ decided[x] = Skip /\ \A b \in blocks : b.row # x
             \/ \E p \in blocks : Cont(x, p)
             \/ \E p \in blocks : Split(x, p)
             \/ \E p, c \in blocks : Merge(x, p, c)
  BY ActionShape
<1>2. /\ effective \subseteq {x \in Rows : decided[x].action \in {"SPLIT", "MERGE"}}
      /\ \A x \in Rows : decided[x].action \in {"SPLIT", "MERGE"} =>
           (x \in effective <=> ~HitBy(decided, x, effective))
  <2> HIDE DEF decided
  <2> QED
    BY EffectiveRows
<1>3. \A x \in Rows : acts[x] = Overwritten(decided[x], [y \in Hits(x) |-> decided[y]])
  BY DEF Actions, epochActions
<1>4. ASSUME NEW b \in blocks
      PROVE  /\ b.row \in Rows /\ b.row \in Nat /\ b.depth \in 0 .. dagMaxDepth
             /\ Span[b.depth] \in Nat \ {0} /\ b.row % Span[b.depth] = 0
             /\ Covers(b.row, b.depth, b.row)
  <2>1. b.row \in Rows /\ b.depth \in 0 .. dagMaxDepth
    BY DEF Block
  <2> QED
    BY <1>0, <2>1, Spans DEF Aligned, Covers
<1>5. \A r \in Rows : /\ \E b \in blocks : Covers(b.row, b.depth, r)
                      /\ \A b, c \in blocks :
                           Covers(b.row, b.depth, r) /\ Covers(c.row, c.depth, r) => b = c
  BY DEF Partition
<1> HIDE DEF decided, effective, acts, blocks
<1>6. \A b, c \in blocks : b.row = c.row => b = c
  BY <1>4, <1>5
\* Splits and merges
<1>7. ASSUME NEW x \in Rows, NEW p, NEW c, Merge(x, p, c)
      PROVE  /\ p \in blocks /\ c \in blocks /\ p.row = x
             /\ Target(x, decided[x]) = c.row /\ c.row \in Rows /\ x < c.row
             /\ decided[x].action = "MERGE"
             /\ Span[p.depth - 1] = 2 * Span[p.depth] /\ Span[p.depth] \in Nat \ {0}
             /\ c.row = x + Span[p.depth]
  <2>1. p \in blocks /\ c \in blocks /\ p.row = x /\ c.row = x + Span[p.depth] /\ p.depth # 0
    BY <1>7 DEF IsMerge
  <2>2. decided[x].action = "MERGE" /\ Target(x, decided[x]) = c.row
    BY <1>7 DEF IsMerge, Target
  <2>3. p.depth - 1 \in 0 .. dagMaxDepth - 1 /\ (p.depth - 1) + 1 = p.depth
    BY <1>0, <1>4, <2>1
  <2> QED
    BY <1>0, <1>4, <2>1, <2>2, <2>3, Spans
<1>8. ASSUME NEW x \in Rows, NEW p, Split(x, p)
      PROVE  /\ p \in blocks /\ p.row = x
             /\ Target(x, decided[x]) = Half2(x, p) /\ Half2(x, p) \in Rows /\ x < Half2(x, p)
             /\ decided[x].action = "SPLIT"
             /\ Span[p.depth] = 2 * Span[p.depth + 1] /\ Span[p.depth + 1] \in Nat \ {0}
             /\ \A b \in blocks : b.row # Half2(x, p)
  <2>1. p \in blocks /\ p.row = x /\ p.depth < dagMaxDepth
    BY <1>8 DEF IsSplit
  <2>2. decided[x].action = "SPLIT" /\ decided[x].parent = p
    BY <1>8 DEF IsSplit
  <2>3. p.depth \in 0 .. dagMaxDepth - 1 /\ p.depth + 1 \in 0 .. dagMaxDepth /\ p.depth \in Nat
    BY <1>0, <1>4, <2>1
  <2>4. Target(x, decided[x]) = Half2(x, p)
    BY <2>2, <2>3, SplitRow DEF Target
  <2>5. Span[p.depth] = 2 * Span[p.depth + 1] /\ Span[p.depth + 1] \in Nat \ {0}
    BY <2>3, Spans
  <2>6. x + Span[p.depth] <= ParallelLen
    BY <1>4, <2>1, BranchInside
  <2>7. x < Half2(x, p) /\ Half2(x, p) < x + Span[p.depth] /\ Half2(x, p) \in Rows
    BY <1>0, <2>5, <2>6 DEF Rows
  <2>8. Covers(p.row, p.depth, Half2(x, p))
    BY <1>0, <2>1, <2>7 DEF Covers
  <2>9. \A b \in blocks : b.row # Half2(x, p)
    <3> SUFFICES ASSUME NEW b \in blocks, b.row = Half2(x, p) PROVE FALSE
      OBVIOUS
    <3>1. b = p
      BY <1>4, <1>5, <2>1, <2>7, <2>8
    <3> QED
      BY <1>0, <2>1, <2>7, <3>1
  <2> QED
    BY <2>1, <2>2, <2>4, <2>5, <2>7, <2>9
<1>9. ASSUME NEW x \in Rows, x \in effective
      PROVE  (\E p \in blocks : Split(x, p)) \/ (\E p, c \in blocks : Merge(x, p, c))
  <2>1. decided[x].action \in {"SPLIT", "MERGE"}
    BY <1>2, <1>9
  <2>2. decided[x] # Skip
    BY <2>1 DEF Skip
  <2>3. \A p : ~Cont(x, p)
    BY <2>1 DEF IsCont
  <2> HIDE DEF Cont, Split, Merge
  <2> QED
    BY <1>1, <2>2, <2>3
<1> HIDE DEF Cont, Split, Merge, Half2
<1>10. effective \subseteq Rows
  BY <1>2
\* No row is hit twice, and one that merges not at all
<1>11. ASSUME NEW x \in Rows, NEW p, NEW c, Merge(x, p, c), NEW y \in effective
       PROVE  Target(y, decided[y]) # x
  <2> SUFFICES ASSUME Target(y, decided[y]) = x PROVE FALSE
    OBVIOUS
  <2>1. y \in Rows /\ p \in blocks /\ p.row = x
    BY <1>7, <1>10, <1>11
  <2>2. ASSUME NEW q, Split(y, q) PROVE FALSE
    BY <1>8, <2>1, <2>2
  <2>3. ASSUME NEW q, NEW e, Merge(y, q, e) PROVE FALSE
    <3>1. e \in blocks /\ e.row = x /\ x = y + Span[q.depth]
          /\ Span[q.depth - 1] = 2 * Span[q.depth] /\ Span[q.depth] \in Nat \ {0}
      BY <1>7, <2>1, <2>3
    <3>2. e = p
      BY <1>6, <2>1, <3>1
    <3>3. q.depth = p.depth /\ y % Span[q.depth - 1] = 0 /\ x % Span[p.depth - 1] = 0
      BY <1>11, <2>3, <3>2 DEF Merge, IsMerge
    <3>4. y % (2 * Span[q.depth]) = 0 /\ (y + Span[q.depth]) % (2 * Span[q.depth]) = 0 /\ y \in Nat
      BY <1>0, <2>1, <3>1, <3>3
    <3> QED
      BY <3>1, <3>4, NotBothHalves
  <2> QED
    BY <1>9, <2>1, <2>2, <2>3
<1>12. ASSUME NEW x \in Rows, NEW p, NEW c, Merge(x, p, c)
       PROVE  x \in effective
  BY <1>2, <1>7, <1>11, <1>12 DEF HitBy
<1> DEFINE Merged2(x) == \E y \in Rows : \E q, e \in blocks : Merge(y, q, e) /\ e.row = x
<1>13. ASSUME NEW x \in Rows, NEW p, Split(x, p)
       PROVE  x \in effective <=> ~Merged2(x)
  <2>1. ASSUME NEW y \in effective, Target(y, decided[y]) = x
        PROVE  Merged2(x)
    <3>1. y \in Rows /\ p \in blocks /\ p.row = x
      BY <1>8, <1>10, <1>13
    <3>2. \A q : ~Split(y, q)
      BY <1>8, <2>1, <3>1
    <3>3. PICK q \in blocks, e \in blocks : Merge(y, q, e)
      BY <1>9, <2>1, <3>1, <3>2
    <3> QED
      BY <1>7, <2>1, <3>1, <3>3
  <2>2. ASSUME NEW y \in Rows, NEW q, NEW e, Merge(y, q, e), e.row = x
        PROVE  HitBy(decided, x, effective)
    BY <1>7, <1>12, <2>2 DEF HitBy
  <2>3. decided[x].action \in {"SPLIT", "MERGE"}
    BY <1>8, <1>13
  <2>4. x \in effective <=> ~HitBy(decided, x, effective)
    BY <1>2, <2>3
  <2> QED
    BY <2>1, <2>2, <2>4 DEF HitBy
<1>14. ASSUME NEW y \in effective, NEW z \in effective, Target(y, decided[y]) \in Rows,
              Target(y, decided[y]) = Target(z, decided[z])
       PROVE  y = z
  <2> DEFINE x == Target(y, decided[y])
  <2>0. y \in Rows /\ z \in Rows /\ x \in Rows /\ y \in Nat /\ z \in Nat /\ x \in Nat
    BY <1>0, <1>10, <1>14
  <2>1. ASSUME NEW q, Split(y, q), NEW e, Split(z, e) PROVE y = z
    <3>1. /\ q \in blocks /\ q.row = y /\ x = y + Span[q.depth + 1]
          /\ Span[q.depth] = 2 * Span[q.depth + 1] /\ Span[q.depth + 1] \in Nat \ {0}
      BY <1>8, <2>0, <2>1 DEF Half2
    <3>2. /\ e \in blocks /\ e.row = z /\ x = z + Span[e.depth + 1]
          /\ Span[e.depth] = 2 * Span[e.depth + 1] /\ Span[e.depth + 1] \in Nat \ {0}
      BY <1>8, <1>14, <2>0, <2>1 DEF Half2
    <3>3. Covers(q.row, q.depth, x) /\ Covers(e.row, e.depth, x)
      <4> HIDE DEF x
      <4> QED
        BY <2>0, <3>1, <3>2 DEF Covers
    <3> QED
      BY <1>5, <2>0, <3>1, <3>2, <3>3
  <2>2. ASSUME NEW q, NEW b, NEW e, \/ Split(y, q) /\ Merge(z, b, e)
                                    \/ Split(z, q) /\ Merge(y, b, e)
        PROVE  FALSE
    BY <1>7, <1>8, <1>14, <2>0, <2>2
  <2>3. ASSUME NEW q, NEW b, Merge(y, q, b), NEW c, NEW e, Merge(z, c, e) PROVE y = z
    <3>1. b \in blocks /\ e \in blocks /\ b.row = x /\ e.row = x
          /\ x = y + Span[q.depth] /\ x = z + Span[c.depth]
      BY <1>7, <1>14, <2>0, <2>3
    <3>2. b = e
      BY <1>6, <3>1
    <3>3. q.depth = c.depth
      BY <2>3, <3>2 DEF Merge, IsMerge
    <3>4. Span[q.depth] \in Nat
      BY <1>7, <2>0, <2>3
    <3> HIDE DEF x
    <3> QED
      BY <2>0, <3>1, <3>3, <3>4
  <2> HIDE DEF x
  <2> QED
    BY <1>9, <2>0, <2>1, <2>2, <2>3
\* What becomes of a row
<1>15. ASSUME NEW x \in Rows, \A y \in effective : Target(y, decided[y]) # x
       PROVE  acts[x] = decided[x]
  <2>1. Hits(x) = {}
    BY <1>15
  <2>2. DOMAIN [y \in Hits(x) |-> decided[y]] = {}
    BY <2>1
  <2> HIDE DEF Hits
  <2> QED
    BY <1>3, <2>2 DEF Overwritten
<1>16. ASSUME NEW x \in Rows, NEW y \in effective, Target(y, decided[y]) = x
       PROVE  /\ decided[y].action = "MERGE" => acts[x] = [decided[x] EXCEPT !.action = "SKIP"]
              /\ decided[y].action = "SPLIT" =>
                   acts[x] = [decided[x] EXCEPT !.action = "SPLIT_SND", !.parent = decided[y].parent]
  <2>1. Hits(x) = {y}
    BY <1>14, <1>16
  <2> DEFINE by == [z \in Hits(x) |-> decided[z]]
  <2>2. DOMAIN by = {y}
    BY <2>1
  <2>3. Max({y}) = y
    BY <1>10, LastHit
  <2>4. by[Max(DOMAIN by)] = decided[y]
    BY <2>1, <2>2, <2>3
  <2>5. acts[x] = Overwritten(decided[x], by)
    BY <1>3
  <2> HIDE DEF by
  <2> QED
    BY <2>2, <2>4, <2>5 DEF Overwritten
<1>17. ASSUME NEW x \in Rows, NEW p \in blocks, p.row = x, ~Merged2(x)
       PROVE  acts[x] = decided[x]
  <2> SUFFICES ASSUME NEW y \in effective, Target(y, decided[y]) = x PROVE FALSE
    BY <1>15
  <2>1. y \in Rows
    BY <1>10
  <2>2. \A q : ~Split(y, q)
    BY <1>8, <1>17, <2>1
  <2>3. PICK q \in blocks, e \in blocks : Merge(y, q, e)
    BY <1>9, <2>1, <2>2
  <2> QED
    BY <1>7, <1>17, <2>1, <2>3
<1> DEFINE L == Live(chain, col)
<1>L. \A v : v \in L <=> v \in Rows /\ acts[v].action # "SKIP"
  BY DEF Live, acts
<1> HIDE DEF L, Hits
<1>18. ASSUME NEW x \in Rows, NEW p, Cont(x, p), ~Merged2(x)
       PROVE  p \in blocks /\ p.row = x /\ x \in L /\ Depth(acts[x]) = p.depth
  <2>1. p \in blocks /\ p.row = x /\ decided[x] = [action |-> "CONTINUE", parent |-> p, second |-> None]
    BY <1>18 DEF Cont, IsCont
  <2>2. acts[x] = decided[x]
    BY <1>17, <1>18, <2>1
  <2> QED
    BY <1>L, <2>1, <2>2 DEF Depth
<1>19. ASSUME NEW x \in Rows, NEW p, Split(x, p), ~Merged2(x)
       PROVE  /\ p \in blocks /\ p.row = x /\ x \in L /\ Depth(acts[x]) = p.depth + 1
              /\ Half2(x, p) \in L /\ Depth(acts[Half2(x, p)]) = p.depth + 1
  <2>1. p \in blocks /\ p.row = x /\ decided[x] = [action |-> "SPLIT", parent |-> p, second |-> None]
    BY <1>19 DEF Split, IsSplit
  <2>2. acts[x] = decided[x]
    BY <1>17, <1>19, <2>1
  <2>3. x \in effective /\ Target(x, decided[x]) = Half2(x, p) /\ Half2(x, p) \in Rows
        /\ \A b \in blocks : b.row # Half2(x, p)
    BY <1>8, <1>13, <1>19
  <2>4. acts[Half2(x, p)] = [decided[Half2(x, p)] EXCEPT !.action = "SPLIT_SND", !.parent = p]
    <3>1. decided[x].action = "SPLIT" /\ decided[x].parent = p
      BY <2>1
    <3> QED
      BY <1>16, <2>3, <3>1
  <2>5. decided[Half2(x, p)] = Skip
    BY <1>1, <2>3 DEF Cont, Split, Merge, IsCont, IsSplit, IsMerge
  <2>6. acts[Half2(x, p)].action = "SPLIT_SND" /\ acts[Half2(x, p)].parent = p
    BY <2>4, <2>5 DEF Skip
  <2> QED
    BY <1>L, <2>1, <2>2, <2>3, <2>6 DEF Depth
<1>20. ASSUME NEW x \in Rows, NEW p, NEW c, Merge(x, p, c)
       PROVE  /\ p \in blocks /\ p.row = x /\ x \in L /\ Depth(acts[x]) = p.depth - 1
              /\ c.row \notin L
  <2>1. p \in blocks /\ p.row = x /\ decided[x] = [action |-> "MERGE", parent |-> p, second |-> c]
    BY <1>20 DEF Merge, IsMerge
  <2>2. acts[x] = decided[x]
    BY <1>11, <1>15, <1>20
  <2>3. x \in effective /\ Target(x, decided[x]) = c.row /\ c.row \in Rows /\ c \in blocks
    BY <1>7, <1>12, <1>20
  <2>4. acts[c.row] = [decided[c.row] EXCEPT !.action = "SKIP"]
    <3>1. decided[x].action = "MERGE"
      BY <2>1
    <3> QED
      BY <1>16, <2>3, <3>1
  <2>5. decided[c.row] = [action |-> decided[c.row].action, parent |-> decided[c.row].parent,
                          second |-> decided[c.row].second]
    <3> DEFINE d == decided[c.row]
               IsAction == d = [action |-> d.action, parent |-> d.parent, second |-> d.second]
    <3> HIDE DEF d
    <3>1. d = Skip => IsAction
      BY DEF Skip
    <3>2. \A q : Cont(c.row, q) => IsAction
      BY DEF Cont, IsCont, d
    <3>3. \A q : Split(c.row, q) => IsAction
      BY DEF Split, IsSplit, d
    <3>4. \A q, e : Merge(c.row, q, e) => IsAction
      BY DEF Merge, IsMerge, d
    <3>5. IsAction
      <4> HIDE DEF IsAction
      <4> QED
        BY <1>1, <2>3, <3>1, <3>2, <3>3, <3>4 DEF d
    <3> QED
      BY <3>5 DEF d
  <2>6. acts[c.row].action = "SKIP"
    BY <2>4, <2>5
  <2> QED
    BY <1>L, <2>1, <2>2, <2>6 DEF Depth
<1>21. ASSUME NEW v \in L
       PROVE  \/ \E p \in blocks : Cont(v, p) /\ ~Merged2(v)
              \/ \E p \in blocks : Split(v, p) /\ ~Merged2(v)
              \/ \E y \in Rows : \E p \in blocks : Split(y, p) /\ ~Merged2(y) /\ v = Half2(y, p)
              \/ \E p, c \in blocks : Merge(v, p, c)
  <2>0. v \in Rows
    BY <1>L
  <2>1. CASE \E y \in effective : Target(y, decided[y]) = v
    <3>1. PICK y \in effective : Target(y, decided[y]) = v
      BY <2>1
    <3>2. y \in Rows
      BY <1>10
    <3>3. \A q, e : ~Merge(y, q, e)
      BY <1>7, <1>20, <3>1, <3>2
    <3>4. PICK p \in blocks : Split(y, p)
      BY <1>9, <3>2, <3>3
    <3>5. ~Merged2(y) /\ v = Half2(y, p)
      BY <1>8, <1>13, <3>1, <3>2, <3>4
    <3> QED
      BY <3>2, <3>4, <3>5
  <2>2. CASE ~\E y \in effective : Target(y, decided[y]) = v
    <3>1. acts[v] = decided[v] /\ decided[v] # Skip
      BY <1>15, <1>L, <2>0, <2>2 DEF Skip
    <3>2. ~Merged2(v)
      BY <1>7, <1>12, <2>2
    <3> HIDE DEF Merged2
    <3> QED
      BY <1>1, <2>0, <3>1, <3>2
  <2> QED
    BY <2>1, <2>2
\* The branch a row belongs to, and the one it belongs to next
<1> DEFINE Heir(b, r, v) ==
      \/ Cont(b.row, b) /\ ~Merged2(b.row) /\ v = b.row
      \/ Split(b.row, b) /\ ~Merged2(b.row) /\ v = b.row /\ r < Half2(b.row, b)
      \/ Split(b.row, b) /\ ~Merged2(b.row) /\ v = Half2(b.row, b) /\ r >= v
      \/ ~Merged2(b.row) /\ v = b.row /\ \E c \in blocks : Merge(v, b, c)
      \/ v \in Rows /\ \E p \in blocks : Merge(v, p, b)
<1>22. ASSUME NEW r \in Rows, NEW b \in blocks, Covers(b.row, b.depth, r)
       PROVE  \E v \in L : Heir(b, r, v) /\ Covers(v, Depth(acts[v]), r)
  <2> DEFINE y == b.row
  <2>0. y \in Rows /\ r \in Nat /\ y \in Nat /\ Span[b.depth] \in Nat \ {0}
        /\ y <= r /\ r < y + Span[b.depth]
    BY <1>0, <1>4, <1>22 DEF Covers
  <2>1. CASE Merged2(y)
    <3>1. PICK x \in Rows, q \in blocks, e \in blocks : Merge(x, q, e) /\ e.row = y
      BY <2>1
    <3>2. e = b /\ Merge(x, q, b)
      BY <1>6, <3>1
    <3>3. /\ x \in L /\ Depth(acts[x]) = q.depth - 1 /\ y = x + Span[q.depth]
          /\ Span[q.depth - 1] = 2 * Span[q.depth] /\ Span[q.depth] \in Nat \ {0}
      BY <1>7, <1>20, <3>2
    <3>4. q.depth = b.depth
      BY <3>2 DEF Merge, IsMerge
    <3>5. Covers(x, q.depth - 1, r)
      BY <1>0, <2>0, <3>3, <3>4 DEF Covers
    <3> HIDE DEF y
    <3> QED
      BY <3>2, <3>3, <3>5
  <2>2. CASE ~Merged2(y)
    <3>1. ASSUME Cont(y, b) PROVE y \in L /\ Heir(b, r, y) /\ Covers(y, Depth(acts[y]), r)
      BY <1>18, <1>22, <2>0, <2>2, <3>1
    <3>2. ASSUME Split(y, b)
          PROVE  \E v \in L : Heir(b, r, v) /\ Covers(v, Depth(acts[v]), r)
      <4>1. /\ y \in L /\ Depth(acts[y]) = b.depth + 1
            /\ Half2(y, b) \in L /\ Depth(acts[Half2(y, b)]) = b.depth + 1
        BY <1>19, <2>0, <2>2, <3>2
      <4>2. /\ Half2(y, b) = y + Span[b.depth + 1]
            /\ Span[b.depth] = 2 * Span[b.depth + 1] /\ Span[b.depth + 1] \in Nat \ {0}
        BY <1>8, <2>0, <3>2 DEF Half2
      <4>3. CASE r < Half2(y, b)
        <5>1. Covers(y, b.depth + 1, r)
          BY <2>0, <4>2, <4>3 DEF Covers
        <5>2. Heir(b, r, y)
          BY <2>2, <3>2, <4>3
        <5> HIDE DEF Heir, y
        <5> QED
          BY <4>1, <5>1, <5>2
      <4>4. CASE r >= Half2(y, b)
        <5>1. Covers(Half2(y, b), b.depth + 1, r)
          BY <2>0, <4>2, <4>4 DEF Covers
        <5>2. Heir(b, r, Half2(y, b))
          BY <2>2, <3>2, <4>4
        <5> HIDE DEF Heir, y
        <5> QED
          BY <4>1, <5>1, <5>2
      <4> QED
        BY <2>0, <4>2, <4>3, <4>4
    <3>3. ASSUME NEW c \in blocks, Merge(y, b, c)
          PROVE  y \in L /\ Heir(b, r, y) /\ Covers(y, Depth(acts[y]), r)
      <4>1. /\ y \in L /\ Depth(acts[y]) = b.depth - 1
            /\ Span[b.depth - 1] = 2 * Span[b.depth]
        BY <1>7, <1>20, <2>0, <3>3
      <4>2. Covers(y, b.depth - 1, r)
        BY <2>0, <4>1 DEF Covers
      <4> QED
        BY <2>2, <3>3, <4>1, <4>2
    <3>4. Cont(y, b) \/ Split(y, b) \/ \E c \in blocks : Merge(y, b, c)
      <4>1. \A p \in blocks : p.row = y => p = b
        BY <1>6
      <4> HIDE DEF y
      <4>2. \A p, c : (Cont(y, p) \/ Split(y, p) \/ Merge(y, p, c)) => p.row = y
        BY DEF Cont, Split, Merge, IsCont, IsSplit, IsMerge
      <4> QED
        BY <1>1, <2>0, <4>1, <4>2 DEF y
    <3> HIDE DEF Heir, y
    <3> QED
      BY <3>1, <3>2, <3>3, <3>4
  <2> QED
    BY <2>1, <2>2
<1>23. ASSUME NEW r \in Rows, NEW b \in blocks, Covers(b.row, b.depth, r),
              NEW v \in L, Covers(v, Depth(acts[v]), r)
       PROVE  Heir(b, r, v)
  <2>0. v \in Rows /\ v \in Nat /\ r \in Nat
    BY <1>0, <1>L
  <2> DEFINE dv == Depth(acts[v])
  <2>1. v <= r /\ r < v + Span[dv]
    BY <1>23 DEF Covers
  <2>2. ASSUME NEW p \in blocks, Cont(v, p), ~Merged2(v) PROVE Heir(b, r, v)
    <3>1. p.row = v /\ dv = p.depth
      BY <1>18, <2>0, <2>2
    <3>2. p = b
      BY <1>5, <1>23, <3>1
    <3> QED
      BY <2>2, <3>1, <3>2
  <2>3. ASSUME NEW y \in Rows, NEW p \in blocks, Split(y, p), ~Merged2(y), v \in {y, Half2(y, p)}
        PROVE  Heir(b, r, v)
    <3>1. p.row = y /\ dv = p.depth + 1 /\ y \in Nat
      BY <1>0, <1>19, <2>3
    <3>2. /\ Half2(y, p) = y + Span[p.depth + 1]
          /\ Span[p.depth] = 2 * Span[p.depth + 1] /\ Span[p.depth + 1] \in Nat \ {0}
      BY <1>8, <2>3 DEF Half2
    <3>3. Covers(p.row, p.depth, r)
      BY <2>0, <2>1, <2>3, <3>1, <3>2 DEF Covers
    <3>4. p = b
      BY <1>5, <1>23, <3>3
    <3>5. CASE v = y
      <4>1. r < Half2(y, p)
        BY <2>0, <2>1, <3>1, <3>2, <3>5
      <4> QED
        BY <2>3, <3>1, <3>4, <3>5, <4>1
    <3>6. CASE v = Half2(y, p)
      BY <2>0, <2>1, <2>3, <3>1, <3>4, <3>6
    <3> QED
      BY <2>3, <3>5, <3>6
  <2>4. ASSUME NEW p \in blocks, NEW c \in blocks, Merge(v, p, c) PROVE Heir(b, r, v)
    <3>1. /\ p.row = v /\ dv = p.depth - 1 /\ c.row = v + Span[p.depth]
          /\ Span[p.depth - 1] = 2 * Span[p.depth] /\ Span[p.depth] \in Nat \ {0}
      BY <1>7, <1>20, <2>0, <2>4
    <3>2. c.depth = p.depth
      BY <2>4 DEF Merge, IsMerge
    <3>3. Covers(p.row, p.depth, r) \/ Covers(c.row, c.depth, r)
      BY <2>0, <2>1, <3>1, <3>2 DEF Covers
    <3>4. p = b \/ c = b
      BY <1>5, <1>23, <3>3
    <3>5. ~Merged2(v)
      <4>1. \A y \in Rows : \A q, e \in blocks : Merge(y, q, e) =>
              y \in effective /\ Target(y, decided[y]) = e.row
        BY <1>7, <1>12
      <4> QED
        BY <1>11, <2>0, <2>4, <4>1
    <3> HIDE DEF Merged2
    <3>6. p = b => Heir(b, r, v)
      BY <2>4, <3>1, <3>5
    <3>7. c = b => Heir(b, r, v)
      BY <2>0, <2>4
    <3> QED
      BY <3>4, <3>6, <3>7
  <2> HIDE DEF Heir, Merged2
  <2> QED
    BY <1>21, <2>0, <2>2, <2>3, <2>4
<1>24. ASSUME NEW r \in Rows, NEW b \in blocks, NEW v \in L, NEW w \in L,
              Heir(b, r, v), Heir(b, r, w)
       PROVE  v = w
  <2>0. b.row \in Rows
    BY <1>4
  <2>1. \A x, p, c : /\ ~(Cont(x, p) /\ Split(x, p)) /\ ~(Cont(x, p) /\ Merge(x, p, c))
                     /\ ~(Split(x, p) /\ Merge(x, p, c))
    BY DEF Cont, Split, Merge, IsCont, IsSplit, IsMerge
  <2>2. ASSUME NEW x \in Rows, NEW p \in blocks, Merge(x, p, b)
        PROVE  Merged2(b.row)
    BY <2>2
  <2>3. ASSUME NEW x \in Rows, NEW p \in blocks, Merge(x, p, b),
               NEW y \in Rows, NEW q \in blocks, Merge(y, q, b)
        PROVE  x = y
    <3>1. /\ x \in effective /\ Target(x, decided[x]) = b.row
          /\ y \in effective /\ Target(y, decided[y]) = b.row
      BY <1>7, <1>12, <2>3
    <3> QED
      BY <1>14, <2>0, <3>1
  <2>4. r \in Nat /\ v \in Nat /\ w \in Nat
    BY <1>0, <1>L
  <2>5. ASSUME Split(b.row, b) PROVE Half2(b.row, b) \in Nat
    BY <1>0, <1>8, <2>0, <2>5
  <2> HIDE DEF Merged2
  <2> QED
    BY <1>24, <2>1, <2>2, <2>3, <2>4, <2>5
<1> HIDE DEF Heir
<1>25. ASSUME NEW r \in Rows
       PROVE  /\ \E v \in L : Covers(v, Depth(acts[v]), r)
              /\ \A v, w \in L :
                   Covers(v, Depth(acts[v]), r) /\ Covers(w, Depth(acts[w]), r) => v = w
  <2>1. PICK b \in blocks : Covers(b.row, b.depth, r)
    BY <1>5
  <2> QED
    BY <1>22, <1>23, <1>24, <2>1
<1> QED
  BY <1>25 DEF L, acts

-----------------------------------------------------------------------------
(* What the steps do to chains, plans and messages *)

\* Block b is appended to the chain of node n
Adds(n, b) ==
  \A m \in Nodes :
    /\ blockchain'[m] = IF m = n THEN Append(blockchain[n], b) ELSE blockchain[m]
    /\ BlocksOf(m)' = IF m = n THEN BlocksOf(m) \cup {b} ELSE BlocksOf(m)
    /\ appended'[m] = IF m = n THEN appended[m] \cup {b} ELSE appended[m]

LEMMA Added ==
  ASSUME TypeOK, NEW n \in Nodes, NEW b \in Block, AppendBlock(n, b)
  PROVE  Adds(n, b)
<1>1. \A m \in Nodes : blockchain'[m] = IF m = n THEN Append(blockchain[n], b) ELSE blockchain[m]
  BY DEF TypeOK, AppendBlock
<1> QED
  BY <1>1, AppendType DEF Adds

LEMMA CreateEffect ==
  ASSUME TypeInv, NEW n \in Nodes, CreateBlock(n)
  PROVE  \E b \in plan[n], f \in Block :
           /\ b = NextBlock(n) /\ f.txs \in Limited(included[n][1]) /\ f.txs \in SUBSET Txs
           /\ SameSlot(f, b) /\ Adds(n, f)
           /\ \A m \in Nodes : plan'[m] = IF m = n THEN plan[n] \ {b} ELSE plan[m]
<1>1. PICK b \in plan[n], txs \in SUBSET Txs :
        /\ b = NextBlock(n) /\ txs \in Limited(included[n][1])
        /\ [b EXCEPT !.txs = txs] \in Block
        /\ AppendBlock(n, [b EXCEPT !.txs = txs])
        /\ plan' = [plan EXCEPT ![n] = @ \ {b}]
  BY CreatedBlock
<1> DEFINE f == [b EXCEPT !.txs = txs]
<1>2. f \in Block /\ AppendBlock(n, f)
  BY <1>1
<1>3. f.txs = txs /\ SameSlot(f, b)
  BY <1>1, FilledBlock DEF TypeInv, TypeOK, SameSlot
<1>4. Adds(n, f)
  BY <1>2, Added DEF TypeInv
<1>5. \A m \in Nodes : plan'[m] = IF m = n THEN plan[n] \ {b} ELSE plan[m]
  BY <1>1 DEF TypeInv, TypeOK
<1> HIDE DEF f
<1> QED
  BY <1>1, <1>2, <1>3, <1>4, <1>5

LEMMA ReceiveEffect ==
  ASSUME TypeInv, NEW n \in Nodes, NEW b \in net[n], ReceiveBlock(n, b)
  PROVE  /\ b \in Block /\ Adds(n, b)
         /\ \A m \in Nodes : net'[m] = IF m = n THEN net[n] \ {b} ELSE net[m]
<1>1. b \in Block /\ AppendBlock(n, b)
  BY DEF TypeInv, TypeOK, ReceiveBlock
<1>2. net' = [net EXCEPT ![n] = @ \ {b}] /\ net \in [Nodes -> SUBSET Block]
  BY DEF TypeInv, TypeOK, ReceiveBlock
<1> QED
  BY <1>1, <1>2, Added DEF TypeInv

LEMMA RemoveEffect ==
  ASSUME TypeInv, NEW n \in Nodes, NEW b \in appended[n], RemoveTransactions(n, b)
  PROVE  /\ b \in Block
         /\ \A m \in Nodes : appended'[m] = IF m = n THEN appended[n] \ {b} ELSE appended[m]
         /\ \A m \in Nodes : mempool'[m] = IF m = n THEN mempool[n] \ b.txs ELSE mempool[m]
<1>1. /\ appended \in [Nodes -> SUBSET Block] /\ mempool \in [Nodes -> SUBSET Txs]
      /\ appended' = [appended EXCEPT ![n] = @ \ {b}]
      /\ mempool' = [mempool EXCEPT ![n] = mempool[n] \ b.txs]
  BY DEF TypeInv, TypeOK, RemoveTransactions, Remaining
<1> QED
  BY <1>1

\* A chain by its blocks
LEMMA ColumnBlocks ==
  ASSUME NEW n \in Nodes, NEW col
  PROVE  InColumn(blockchain[n], col) = {b \in BlocksOf(n) : b.col = col}
BY DEF InColumn, BlocksOf

LEMMA ChainType ==
  ASSUME TypeInv, NEW n \in Nodes
  PROVE  /\ blockchain[n] \in Seq(Block) /\ BlocksOf(n) \subseteq Block
         /\ plan[n] \subseteq Block /\ net[n] \subseteq Block /\ appended[n] \subseteq Block
         /\ absRound[n] \in Nat
<1>1. MaxCol \in Nat
  BY DagAssumption
<1>2. blockchain[n] \in Seq(Block) /\ absRound[n] \in 0 .. MaxCol
  BY DEF TypeInv, TypeOK
<1>3. BlocksOf(n) \subseteq Block
  <2>1. \A i \in DOMAIN blockchain[n] : blockchain[n][i] \in Block
    BY <1>2
  <2> QED
    BY <2>1 DEF BlocksOf
<1>4. plan[n] \subseteq Planned /\ net[n] \subseteq Block /\ appended[n] \subseteq Block
  BY DEF TypeInv, TypeOK
<1>5. plan[n] \subseteq Block
  BY <1>4 DEF Planned
<1>6. absRound[n] \in Nat
  BY <1>1, <1>2
<1> QED
  BY <1>2, <1>3, <1>4, <1>5, <1>6

LEMMA BlockType ==
  ASSUME NEW b \in Block
  PROVE  /\ b.col \in 0 .. MaxCol /\ b.col \in Nat /\ b.row \in Rows /\ b.depth \in 0 .. dagMaxDepth
         /\ At(b) = <<b.col, b.row>>
         /\ b.col > 0 => Leader(b.col, b.row) \in Nodes
<1>1. b.col \in 0 .. MaxCol /\ b.row \in Rows /\ b.depth \in 0 .. dagMaxDepth
  BY DEF Block
<1>2. b # None
  BY DEF Block, None
<1>3. b.col > 0 => b.col \in Cols
  BY <1>1, DagAssumption DEF Cols
<1> QED
  BY <1>1, <1>2, <1>3, DagAssumption DEF At

\* Steps that leave chains, plans and messages alone
Still == UNCHANGED <<net, blockchain, absRound, plan, appended>>

LEMMA StillSame ==
  ASSUME TimelyInv, Still, AlignInv'
  PROVE  TimelyInv'
<1>1. \A n \in Nodes : BlocksOf(n)' = BlocksOf(n) /\ Own(n)' = Own(n) /\ Assignment(n)' = Assignment(n)
  BY DEF Still, BlocksOf, Own, Assignment
<1>2. (NearSlots' /\ PendingLate') /\ (LedInSlot' /\ Rooted')
  BY <1>1 DEF TimelyInv, Still, NearSlots, PendingLate, LedInSlot, Rooted
<1>3. Everywhere' /\ Sorted'
  BY <1>1 DEF TimelyInv, Still, Everywhere, Sorted
<1>4. OneEach' /\ PlanMade'
  BY <1>1 DEF TimelyInv, Still, OneEach, PlanMade
<1>5. Partitioned'
  BY DEF TimelyInv, Still, Partitioned
<1> QED
  BY <1>2, <1>3, <1>4, <1>5 DEF TimelyInv

-----------------------------------------------------------------------------
(* The slots of a network in time *)

\* The blocks a node has to create are those of the live rows it leads
LEMMA AssignedRows ==
  ASSUME NEW n, NEW chain, NEW col
  PROVE  LET acts == Actions(chain, col)
             New == Assigned(n, col, acts)
         IN  /\ \A b \in New : /\ b.row \in Live(chain, col) /\ Leader(col, b.row) = n
                               /\ b.col = col /\ b.depth = Depth(acts[b.row])
             /\ \A row \in Live(chain, col) : Leader(col, row) = n =>
                  \E b \in New : b.row = row
             /\ \A b, c \in New : b.row = c.row => b = c
<1> DEFINE acts == Actions(chain, col)
           NewBlock(row) ==
             [col |-> col, row |-> row, depth |-> Depth(acts[row]), txs |-> {},
              parent |-> At(acts[row].parent), second |-> At(acts[row].second)]
           Mine == {row \in Rows : acts[row].action # "SKIP" /\ Leader(col, row) = n}
<1>1. Assigned(n, col, acts) = {NewBlock(row) : row \in Mine}
  BY DEF Assigned
<1>2. Mine = {row \in Live(chain, col) : Leader(col, row) = n}
  BY DEF Live
<1>3. \A row : /\ NewBlock(row).col = col /\ NewBlock(row).row = row
               /\ NewBlock(row).depth = Depth(acts[row])
  OBVIOUS
<1> HIDE DEF acts, NewBlock, Mine
<1> QED
  BY <1>1, <1>2, <1>3 DEF acts

\* What a node waits for before it begins a slot
LEMMA Begins ==
  ASSUME TimelyInv, MaxLate = 0, NEW n \in Nodes, SlotBegins(n)
  PROVE  /\ absRound[n] + 1 \in 1 .. MaxCol
         /\ \A m \in Nodes : \/ absRound[m] = absRound[n] /\ plan[m] = {} /\ Created(m) = {}
                             \/ absRound[m] = absRound[n] + 1
         /\ \A m \in Nodes : \A b \in net[m] \cup appended[m] : b.col > absRound[n]
<1>1. absRound[n] \in Nat /\ MaxCol \in Nat /\ absRound[n] < MaxCol
  BY ChainType, DagAssumption DEF TimelyInv, AlignInv, SlotBegins
<1>2. absRound[n] - MaxLate = absRound[n]
  BY <1>1
<1> QED
  BY <1>1, <1>2 DEF SlotBegins

\* A column of which nothing is under way is the same for every node
LEMMA SameColumns ==
  ASSUME TimelyInv, NEW col, NEW n \in Nodes, NEW m \in Nodes,
         \A k \in Nodes : \A b \in net[k] \cup appended[k] : b.col # col
  PROVE  InColumn(blockchain[n], col) = InColumn(blockchain[m], col)
<1>1. ASSUME NEW x \in Nodes, NEW y \in Nodes, NEW b \in BlocksOf(y), b.col = col
      PROVE  b \in BlocksOf(x)
  <2>1. b \in BlocksOf(x) \cup net[x] \/ (b.col > 0 /\ b \in appended[Leader(b.col, b.row)])
    BY DEF TimelyInv, Everywhere
  <2>2. b \in Block
    BY ChainType DEF TimelyInv, AlignInv
  <2>3. b.col > 0 => Leader(b.col, b.row) \in Nodes
    BY <2>2, BlockType
  <2> QED
    BY <1>1, <2>1, <2>3
<1> QED
  BY <1>1, ColumnBlocks

\* All blocks of chain n that decideAction looks for in a column are found
LEMMA FoundAll ==
  ASSUME TimelyInv, NEW n \in Nodes, NEW col \in Int
  PROVE  \A row : Found(blockchain[n], col, row) = {b \in InColumn(blockchain[n], col) : b.row = row}
<1>1. blockchain[n] \in Seq(Block)
  BY ChainType DEF TimelyInv, AlignInv
<1>2. \A i, j \in DOMAIN blockchain[n] : i < j => blockchain[n][i].col <= blockchain[n][j].col
  BY DEF TimelyInv, Sorted
<1> QED
  BY <1>1, <1>2, SortedFound

LEMMA SameActions ==
  ASSUME TimelyInv, NEW n \in Nodes, NEW m \in Nodes, NEW col \in Int,
         InColumn(blockchain[n], col - 1) = InColumn(blockchain[m], col - 1)
  PROVE  Actions(blockchain[n], col) = Actions(blockchain[m], col)
<1> DEFINE k == col - 1
<1>0. k \in Int
  OBVIOUS
<1> HIDE DEF k
<1>1. \A row : Found(blockchain[n], k, row) = {b \in InColumn(blockchain[n], k) : b.row = row}
  BY <1>0, FoundAll
<1>2. \A row : Found(blockchain[m], k, row) = {b \in InColumn(blockchain[m], k) : b.row = row}
  BY <1>0, FoundAll
<1>3. \A row : Found(blockchain[n], k, row) = Found(blockchain[m], k, row)
  BY <1>1, <1>2 DEF k
<1> QED
  BY <1>3, SameFoundSameActions DEF k

\* The first column
LEMMA GenesisPartition ==
  ASSUME TimelyInv, NEW n \in Nodes
  PROVE  Partition(InColumn(blockchain[n], 0))
<1>1. InColumn(blockchain[n], 0) = {Genesis}
  <2>1. Genesis.col = 0
    BY DEF Genesis
  <2> QED
    BY <2>1, ColumnBlocks DEF TimelyInv, Rooted
<1>2. Genesis.row = 0 /\ Genesis.depth = 0 /\ Span[0] = ParallelLen /\ ParallelLen \in Nat
  BY Spans, DagAssumption DEF Genesis
<1>3. \A r \in Rows : Covers(Genesis.row, Genesis.depth, r)
  BY <1>2 DEF Covers, Rows
<1> QED
  BY <1>1, <1>3 DEF Partition

\* The blocks of a slot that all have taken are a partition, because those before are
LEMMA ColumnPartition ==
  ASSUME TimelyInv, NEW n \in Nodes, NEW col \in Nat \ {0},
         \A m \in Nodes : absRound[m] = col /\ plan[m] = {},
         \A m \in Nodes : \A b \in net[m] \cup appended[m] : b.col > col
  PROVE  Partition(InColumn(blockchain[n], col))
<1> DEFINE acts == Actions(blockchain[n], col)
           L == Live(blockchain[n], col)
           blocks == InColumn(blockchain[n], col)
<1>1. ASSUME NEW m \in Nodes, NEW k \in Int, k <= col
      PROVE  InColumn(blockchain[m], k) = InColumn(blockchain[n], k)
  <2>1. ASSUME NEW p \in Nodes, NEW b \in net[p] \cup appended[p] PROVE b.col # k
    <3>1. b \in Block /\ b.col > col
      BY <2>1, ChainType DEF TimelyInv, AlignInv
    <3> QED
      BY <1>1, <3>1, BlockType
  <2> QED
    BY <2>1, SameColumns
<1>2. \A m \in Nodes : Actions(blockchain[m], col) = acts /\ Live(blockchain[m], col) = L
  <2> TAKE m \in Nodes
  <2>1. InColumn(blockchain[m], col - 1) = InColumn(blockchain[n], col - 1)
    BY <1>1
  <2>2. Actions(blockchain[m], col) = acts
    BY <2>1, SameActions
  <2> QED
    BY <2>2 DEF Live
<1>3. \A r \in Rows :
        /\ \E v \in L : Covers(v, Depth(acts[v]), r)
        /\ \A v, w \in L : Covers(v, Depth(acts[v]), r) /\ Covers(w, Depth(acts[w]), r) => v = w
  <2>1. InColumn(blockchain[n], col - 1) \subseteq Block
    <3>1. InColumn(blockchain[n], col - 1) \subseteq BlocksOf(n)
      BY ColumnBlocks
    <3>2. TypeInv
      BY DEF TimelyInv, AlignInv
    <3> HIDE DEF TypeInv
    <3>3. BlocksOf(n) \subseteq Block
      BY <3>2, ChainType
    <3> QED
      BY <3>1, <3>3
  <2>2. \A x \in Rows : Found(blockchain[n], col - 1, x)
                          = {b \in InColumn(blockchain[n], col - 1) : b.row = x}
    <3>1. col - 1 \in Int
      OBVIOUS
    <3> QED
      BY <3>1, FoundAll
  <2>3. \A b \in InColumn(blockchain[n], col - 1) : Aligned(b)
    BY ColumnBlocks DEF TimelyInv, AlignInv, Known
  <2>4. Partition(InColumn(blockchain[n], col - 1))
    BY DEF TimelyInv, Partitioned
  <2> QED
    BY <2>1, <2>2, <2>3, <2>4, NextPartition
<1> HIDE DEF acts, L
\* Its blocks have the live rows and their depths
<1>4. ASSUME NEW v \in L
      PROVE  \E b \in blocks : b.row = v /\ b.depth = Depth(acts[v])
  <2> DEFINE m == Leader(col, v)
  <2>1. v \in Rows /\ col \in Cols
    <3>1. v \in Rows
      BY DEF L, Live
    <3>2. absRound[n] \in 0 .. MaxCol /\ MaxCol \in Nat
      BY DagAssumption DEF TimelyInv, AlignInv, TypeInv, TypeOK
    <3> QED
      BY <3>1, <3>2 DEF Cols
  <2>2. m \in Nodes
    BY <2>1, DagAssumption
  <2>3. Assignment(m) = Assigned(m, col, acts)
    BY <1>2, <2>2 DEF Assignment
  <2>4. PICK a \in Assignment(m) : a.row = v /\ a.col = col /\ a.depth = Depth(acts[v])
    <3>1. v \in Live(blockchain[m], col) /\ Actions(blockchain[m], col) = acts
      BY <1>2, <2>2
    <3>2. Leader(col, v) = m
      OBVIOUS
    <3> HIDE DEF m
    <3> QED
      BY <2>3, <3>1, <3>2, AssignedRows
  <2>5. PICK b \in plan[m] \cup Own(m) : SameSlot(a, b)
    BY <2>2, <2>4 DEF TimelyInv, PlanMade
  <2>6. b \in BlocksOf(m) /\ b.col = col
    BY <2>2, <2>5 DEF Own
  <2>7. b \in InColumn(blockchain[m], col)
    BY <2>2, <2>6, ColumnBlocks
  <2>8. b \in blocks
    BY <1>1, <2>2, <2>7
  <2>9. b.row = v /\ b.depth = Depth(acts[v])
    BY <2>4, <2>5 DEF SameSlot
  <2> QED
    BY <2>8, <2>9
<1>5. ASSUME NEW b \in blocks
      PROVE  b.row \in L /\ b.depth = Depth(acts[b.row]) /\ b \in BlocksOf(n) /\ At(b) = <<col, b.row>>
  <2>1. b \in Block /\ b \in BlocksOf(n) /\ b.col = col
    BY ChainType, ColumnBlocks DEF TimelyInv, AlignInv
  <2> DEFINE m == Leader(b.col, b.row)
  <2>2. m \in Nodes /\ At(b) = <<col, b.row>>
    BY <2>1, BlockType
  <2>3. b \in BlocksOf(m)
    <3>1. b \in InColumn(blockchain[m], col)
      BY <1>1, <2>2
    <3> QED
      BY <2>2, <3>1, ColumnBlocks
  <2>4. b \in Own(m)
    BY <2>1, <2>2, <2>3 DEF Own
  <2>5. PICK a \in Assignment(m) : SameSlot(a, b)
    BY <2>2, <2>4 DEF TimelyInv, PlanMade
  <2>6. Assignment(m) = Assigned(m, col, acts)
    BY <1>2, <2>2 DEF Assignment
  <2>7. /\ Actions(blockchain[m], col) = acts /\ Live(blockchain[m], col) = L
    BY <1>2, <2>2
  <2>8. a.row \in L /\ a.depth = Depth(acts[a.row])
    BY <2>5, <2>6, <2>7, AssignedRows
  <2> QED
    BY <2>1, <2>2, <2>5, <2>8 DEF SameSlot
<1>6. \A b, c \in blocks : b.row = c.row => b = c
  BY <1>5 DEF TimelyInv, OneEach
<1> HIDE DEF blocks
<1> QED
  <2> SUFFICES ASSUME NEW r \in Rows
               PROVE  /\ \E b \in blocks : Covers(b.row, b.depth, r)
                      /\ \A b, c \in blocks :
                           Covers(b.row, b.depth, r) /\ Covers(c.row, c.depth, r) => b = c
    BY DEF Partition, blocks
  <2>1. \E b \in blocks : Covers(b.row, b.depth, r)
    <3>1. PICK v \in L : Covers(v, Depth(acts[v]), r)
      BY <1>3
    <3>2. PICK b \in blocks : b.row = v /\ b.depth = Depth(acts[v])
      BY <1>4
    <3>3. Covers(b.row, b.depth, r)
      BY <3>1, <3>2
    <3> QED
      BY <3>3
  <2>2. ASSUME NEW b \in blocks, NEW c \in blocks,
               Covers(b.row, b.depth, r), Covers(c.row, c.depth, r)
        PROVE  b = c
    <3>1. b.row \in L /\ Covers(b.row, Depth(acts[b.row]), r)
      BY <1>5, <2>2
    <3>2. c.row \in L /\ Covers(c.row, Depth(acts[c.row]), r)
      BY <1>5, <2>2
    <3>3. b.row = c.row
      BY <1>3, <3>1, <3>2
    <3> QED
      BY <1>6, <3>3
  <2> QED
    BY <2>1, <2>2

\* When a slot begins the column before it is a partition
LEMMA PartitionBefore ==
  ASSUME TimelyInv, MaxLate = 0, NEW n \in Nodes, SlotBegins(n)
  PROVE  Partition(InColumn(blockchain[n], absRound[n]))
<1> DEFINE col == absRound[n]
<1>1. col \in Nat
  BY ChainType DEF TimelyInv, AlignInv
<1>2. /\ \A m \in Nodes : \/ absRound[m] = col /\ plan[m] = {} /\ Created(m) = {}
                          \/ absRound[m] = col + 1
      /\ \A m \in Nodes : \A b \in net[m] \cup appended[m] : b.col > col
  BY Begins
<1> HIDE DEF col
<1>3. CASE \E m \in Nodes : absRound[m] = col + 1
  <2>1. PICK m \in Nodes : absRound[m] = col + 1
    BY <1>3
  <2>2. absRound[m] > 0 /\ absRound[m] - 1 = col
    BY <1>1, <2>1
  <2>3. Partition(InColumn(blockchain[m], col))
    BY <2>2 DEF TimelyInv, Partitioned
  <2>4. \A k \in Nodes : \A b \in net[k] \cup appended[k] : b.col # col
    BY <1>1, <1>2
  <2>5. InColumn(blockchain[n], col) = InColumn(blockchain[m], col)
    BY <2>4, SameColumns
  <2> QED
    BY <2>3, <2>5 DEF col
<1>4. CASE col = 0
  BY <1>4, GenesisPartition DEF col
<1>5. CASE col # 0 /\ \A m \in Nodes : absRound[m] # col + 1
  BY <1>1, <1>2, <1>5, ColumnPartition DEF col
<1> QED
  BY <1>3, <1>4, <1>5

-----------------------------------------------------------------------------
(* Steps of a network in time *)

\* No block is of a slot that its leader has not begun
LEMMA LastColumn ==
  ASSUME TimelyInv, NEW n \in Nodes, NEW b \in BlocksOf(n) \cup net[n]
  PROVE  /\ b \in Block /\ b.col \in Nat
         /\ b.col = 0 \/ (/\ Leader(b.col, b.row) \in Nodes
                          /\ b.col <= absRound[Leader(b.col, b.row)])
<1>1. b \in Block
  BY ChainType DEF TimelyInv, AlignInv
<1> QED
  BY <1>1, BlockType DEF TimelyInv, LedInSlot

LEMMA DecideTimely ==
  ASSUME TimelyInv, MaxLate = 0, NEW n \in Nodes, DecideActions(n), AlignInv'
  PROVE  TimelyInv'
<1> DEFINE col == absRound[n] + 1
           acts == Actions(blockchain[n], col)
           new == Assigned(n, col, acts)
<1>1. /\ \A m \in Nodes : \/ absRound[m] = col - 1 /\ plan[m] = {} /\ Created(m) = {}
                          \/ absRound[m] = col
      /\ \A m \in Nodes : \A b \in net[m] \cup appended[m] : b.col > col - 1
      /\ col \in Nat \ {0}
  <2>1. absRound[n] \in Nat /\ col - 1 = absRound[n]
    BY ChainType DEF TimelyInv, AlignInv
  <2> QED
    BY <2>1, Begins DEF DecideActions
<1>2. /\ \A m \in Nodes : absRound'[m] = IF m = n THEN col ELSE absRound[m]
      /\ \A m \in Nodes : plan'[m] = IF m = n THEN new ELSE plan[m]
      /\ \A b \in new : b \in Planned /\ b \in Block /\ b.col = col /\ Leader(b.col, b.row) = n
  <2>1. absRound \in [Nodes -> 0 .. MaxCol] /\ plan \in [Nodes -> SUBSET Planned] /\ TypeOK
    BY DEF TimelyInv, AlignInv, TypeInv, TypeOK
  <2>2. plan' = [plan EXCEPT ![n] = new] /\ \A b \in plan'[n] :
          b \in Planned /\ b.col = col /\ Leader(b.col, b.row) = n
    BY <2>1, DecidePlan
  <2>3. plan'[n] = new
    BY <2>1, <2>2
  <2>4. absRound' = [absRound EXCEPT ![n] = col]
    BY DEF DecideActions
  <2> QED
    BY <2>1, <2>2, <2>3, <2>4 DEF Planned
<1>3. /\ UNCHANGED <<net, blockchain, appended>> /\ \A m \in Nodes : BlocksOf(m)' = BlocksOf(m)
  BY DEF DecideActions, BlocksOf
<1>4. absRound[n] = col - 1 /\ \A m \in Nodes : absRound[m] \in Nat
  BY <1>1, ChainType DEF TimelyInv, AlignInv
<1>5. Partition(InColumn(blockchain[n], col - 1))
  BY <1>4, PartitionBefore DEF DecideActions
<1>6. ASSUME NEW m \in Nodes, NEW b \in BlocksOf(m), Leader(b.col, b.row) = n, b.col = col
      PROVE  FALSE
  BY <1>1, <1>4, <1>6, LastColumn
<1>7. /\ \A b, c \in new : b.row = c.row => b = c
      /\ \A m \in Nodes : \A b \in new, c \in BlocksOf(m) : At(b) # At(c)
      /\ \A b, c \in new : At(b) = At(c) => b = c
  <2>1. \A b, c \in new : b.row = c.row => b = c
    BY AssignedRows
  <2>2. \A b \in new : At(b) = <<b.col, b.row>>
    BY <1>2, BlockType
  <2>3. \A m \in Nodes : \A c \in BlocksOf(m) : At(c) = <<c.col, c.row>>
    BY LastColumn, BlockType
  <2> HIDE DEF new, col
  <2> QED
    BY <1>2, <1>6, <2>1, <2>2, <2>3
<1>8. Assignment(n)' = new /\ \A m \in Nodes : m # n => Assignment(m)' = Assignment(m)
  <2>1. Assignment(n)' = Assigned(n, absRound'[n], Actions(blockchain'[n], absRound'[n]))
    BY DEF Assignment
  <2> QED
    BY <1>2, <1>3, <2>1 DEF Assignment
<1>9. Own(n)' = {} /\ \A m \in Nodes : m # n => Own(m)' = Own(m)
  BY <1>2, <1>3, <1>6 DEF Own
<1> HIDE DEF new, acts, col
<1>10. NearSlots'
  BY <1>1, <1>2, <1>4 DEF NearSlots, TimelyInv
<1>11. PendingLate'
  <2>1. \A m \in Nodes : \A b \in net[m] \cup appended[m] : b.col \in Nat
    BY ChainType, BlockType DEF TimelyInv, AlignInv
  <2> QED
    BY <1>1, <1>2, <1>3, <1>4, <2>1 DEF PendingLate, TimelyInv
<1>12. LedInSlot'
  <2> SUFFICES ASSUME NEW m \in Nodes
               PROVE  /\ \A b \in BlocksOf(m) \cup net[m] :
                           b.col = 0 \/ b.col <= absRound'[Leader(b.col, b.row)]
                      /\ \A b \in plan'[m] : b.col = absRound'[m] /\ b.col > 0
                                             /\ Leader(b.col, b.row) = m
                      /\ \A b \in net[m] : b.col > 0 /\ Leader(b.col, b.row) # m
                      /\ \A b \in appended[m] : b.col > 0
    BY <1>3 DEF LedInSlot
  <2>1. ASSUME NEW b \in BlocksOf(m) \cup net[m]
        PROVE  b.col = 0 \/ b.col <= absRound'[Leader(b.col, b.row)]
    BY <1>1, <1>2, <1>4, LastColumn
  <2>2. \A b \in plan'[m] : b.col = absRound'[m] /\ b.col > 0 /\ Leader(b.col, b.row) = m
    BY <1>1, <1>2 DEF TimelyInv, LedInSlot
  <2> QED
    BY <2>1, <2>2 DEF TimelyInv, LedInSlot
<1>13. Rooted' /\ Everywhere' /\ Sorted'
  BY <1>3 DEF TimelyInv, Rooted, Everywhere, Sorted
<1>14. OneEach'
  <2> SUFFICES ASSUME NEW k \in Nodes
               PROVE  /\ \A m \in Nodes : \A b \in BlocksOf(k), c \in BlocksOf(m) : At(b) = At(c) => b = c
                      /\ \A m \in Nodes : \A b \in plan'[k], c \in BlocksOf(m) : At(b) # At(c)
                      /\ \A b, c \in plan'[k] : At(b) = At(c) => b = c
    BY <1>3 DEF OneEach
  <2>1. /\ \A m \in Nodes : \A b \in BlocksOf(k), c \in BlocksOf(m) : At(b) = At(c) => b = c
        /\ \A m \in Nodes : \A b \in plan[k], c \in BlocksOf(m) : At(b) # At(c)
        /\ \A b, c \in plan[k] : At(b) = At(c) => b = c
    BY DEF OneEach, TimelyInv
  <2> QED
    BY <1>2, <1>7, <2>1
<1>15. PlanMade'
  <2> SUFFICES ASSUME NEW m \in Nodes, absRound'[m] > 0
               PROVE  /\ \A a \in Assignment(m)' : \E b \in plan'[m] \cup Own(m)' : SameSlot(a, b)
                      /\ \A b \in plan'[m] \cup Own(m)' : \E a \in Assignment(m)' : SameSlot(a, b)
    BY DEF PlanMade
  <2>1. CASE m = n
    BY <1>2, <1>8, <1>9, <2>1 DEF SameSlot
  <2>2. CASE m # n
    BY <1>2, <1>8, <1>9, <2>2 DEF TimelyInv, PlanMade
  <2> QED
    BY <2>1, <2>2
<1>16. Partitioned'
  <2> SUFFICES ASSUME NEW m \in Nodes, absRound'[m] > 0
               PROVE  Partition(InColumn(blockchain'[m], absRound'[m] - 1))
    BY DEF Partitioned
  <2>1. CASE m = n
    BY <1>2, <1>3, <1>5, <2>1
  <2>2. CASE m # n
    BY <1>2, <1>3, <2>2 DEF TimelyInv, Partitioned
  <2> QED
    BY <2>1, <2>2
<1> QED
  BY <1>10, <1>11, <1>12, <1>13, <1>14, <1>15, <1>16 DEF TimelyInv

\* A block at the end of a chain, of the last column that began
LEMMA SortedAppend ==
  ASSUME TimelyInv, NEW n \in Nodes, NEW f \in Block, Adds(n, f),
         \A b \in BlocksOf(n) : b.col <= f.col
  PROVE  Sorted'
<1>1. SUFFICES ASSUME NEW m \in Nodes, NEW i \in DOMAIN blockchain'[m], NEW j \in DOMAIN blockchain'[m], i < j
               PROVE  blockchain'[m][i].col <= blockchain'[m][j].col
  BY DEF Sorted
<1>2. CASE m # n
  <2>1. blockchain'[m] = blockchain[m]
    BY <1>2 DEF Adds
  <2> QED
    BY <1>1, <2>1 DEF TimelyInv, Sorted
<1>3. CASE m = n
  <2> DEFINE s == blockchain[n]
             t == Append(s, f)
             k == Len(s)
  <2>1. s \in Seq(Block)
    BY ChainType DEF TimelyInv, AlignInv
  <2>2. /\ k \in Nat /\ DOMAIN s = 1 .. k /\ DOMAIN t = 1 .. k + 1
        /\ t[k + 1] = f /\ \A x \in 1 .. k : t[x] = s[x]
    BY <2>1
  <2>3. blockchain'[m] = t
    BY <1>3 DEF Adds
  <2>4. \A x \in DOMAIN s : s[x] \in BlocksOf(n)
    BY DEF BlocksOf
  <2>5. \A x, y \in DOMAIN s : x < y => s[x].col <= s[y].col
    BY DEF TimelyInv, Sorted
  <2> HIDE DEF s, t, k
  <2>6. i \in 1 .. k /\ (j \in 1 .. k \/ j = k + 1)
    BY <1>1, <2>2, <2>3
  <2>7. CASE j \in 1 .. k
    BY <1>1, <2>2, <2>3, <2>5, <2>6, <2>7
  <2>8. CASE j = k + 1
    BY <1>1, <2>2, <2>3, <2>4, <2>6, <2>8
  <2> QED
    BY <2>6, <2>7, <2>8
<1> QED
  BY <1>2, <1>3

\* It changes neither the assignments nor the column before the slot
LEMMA SameAssignment ==
  ASSUME TimelyInv, NEW n \in Nodes, NEW f \in Block, Adds(n, f), UNCHANGED absRound,
         \A m \in Nodes : f.col >= absRound[m]
  PROVE  \A m \in Nodes :
           /\ Assignment(m)' = Assignment(m)
           /\ InColumn(blockchain'[m], absRound'[m] - 1) = InColumn(blockchain[m], absRound[m] - 1)
<1> TAKE m \in Nodes
<1>1. absRound'[m] = absRound[m] /\ absRound[m] \in Nat
  BY ChainType DEF TimelyInv, AlignInv
<1>2. CASE m # n
  <2>1. blockchain'[m] = blockchain[m]
    BY <1>2 DEF Adds
  <2> QED
    BY <1>1, <2>1 DEF Assignment
<1>3. CASE m = n
  <2> DEFINE k == absRound[m] - 1
  <2>1. k \in Int /\ f.col > k
    BY <1>1, BlockType
  <2>2. blockchain[m] \in Seq(Block) /\ blockchain'[m] = Append(blockchain[m], f)
    BY <1>3, ChainType DEF Adds, TimelyInv, AlignInv
  <2> HIDE DEF k
  <2>3. /\ InColumn(blockchain'[m], k) = InColumn(blockchain[m], k)
        /\ \A row : Found(blockchain'[m], k, row) = Found(blockchain[m], k, row)
    BY <2>1, <2>2, AppendFound
  <2>4. Actions(blockchain'[m], absRound[m]) = Actions(blockchain[m], absRound[m])
    BY <2>3, SameFoundSameActions DEF k
  <2>5. Assignment(m)' = Assigned(m, absRound'[m], Actions(blockchain'[m], absRound'[m]))
    BY DEF Assignment
  <2> QED
    BY <1>1, <2>3, <2>4, <2>5 DEF Assignment, k
<1> QED
  BY <1>2, <1>3

LEMMA CreateTimely ==
  ASSUME TimelyInv, NEW n \in Nodes, CreateBlock(n), AlignInv'
  PROVE  TimelyInv'
<1>1. UNCHANGED <<net, absRound>>
  BY DEF CreateBlock
<1>2. PICK b \in plan[n], f \in Block :
        /\ SameSlot(f, b) /\ Adds(n, f)
        /\ \A m \in Nodes : plan'[m] = IF m = n THEN plan[n] \ {b} ELSE plan[m]
  BY CreateEffect DEF TimelyInv, AlignInv
<1>3. /\ b.col = absRound[n] /\ b.col > 0 /\ Leader(b.col, b.row) = n
      /\ f.col = absRound[n] /\ f.col > 0 /\ Leader(f.col, f.row) = n
      /\ b \in Block /\ At(f) = At(b) /\ At(f) = <<f.col, f.row>>
  <2>1. b \in Block
    BY ChainType DEF TimelyInv, AlignInv
  <2>2. b.col = absRound[n] /\ b.col > 0 /\ Leader(b.col, b.row) = n
    BY DEF TimelyInv, LedInSlot
  <2> QED
    BY <1>2, <2>1, <2>2, BlockType DEF SameSlot
<1>4. \A m \in Nodes : absRound[m] \in Nat /\ absRound[m] <= absRound[n]
  <2>1. \A m \in Nodes : absRound[m] \in Nat
    BY ChainType DEF TimelyInv, AlignInv
  <2> QED
    BY <1>2, <2>1 DEF TimelyInv, NearSlots
<1>5. \A m \in Nodes : \A c \in BlocksOf(m) : c.col <= f.col
  BY <1>3, <1>4, LastColumn
<1>6. \A m \in Nodes :
        /\ BlocksOf(m)' = IF m = n THEN BlocksOf(n) \cup {f} ELSE BlocksOf(m)
        /\ appended'[m] = IF m = n THEN appended[n] \cup {f} ELSE appended[m]
  BY <1>2 DEF Adds
<1>7. NearSlots'
  BY <1>1, <1>2 DEF NearSlots, TimelyInv
<1>8. PendingLate'
  BY <1>1, <1>3, <1>4, <1>6 DEF PendingLate, TimelyInv
<1>9. LedInSlot'
  <2> SUFFICES ASSUME NEW m \in Nodes
               PROVE  /\ \A c \in BlocksOf(m)' \cup net[m] :
                           c.col = 0 \/ c.col <= absRound[Leader(c.col, c.row)]
                      /\ \A c \in plan'[m] : c.col = absRound[m] /\ c.col > 0
                                             /\ Leader(c.col, c.row) = m
                      /\ \A c \in net[m] : c.col > 0 /\ Leader(c.col, c.row) # m
                      /\ \A c \in appended'[m] : c.col > 0
    BY <1>1 DEF LedInSlot
  <2>1. \A c \in plan'[m] : c \in plan[m]
    BY <1>2
  <2>2. \A c \in BlocksOf(m)' \cup net[m] : c.col = 0 \/ c.col <= absRound[Leader(c.col, c.row)]
    BY <1>3, <1>4, <1>6 DEF LedInSlot, TimelyInv
  <2>3. \A c \in appended'[m] : c.col > 0
    BY <1>3, <1>6 DEF LedInSlot, TimelyInv
  <2> QED
    BY <2>1, <2>2, <2>3 DEF LedInSlot, TimelyInv
<1>10. Rooted'
  BY <1>3, <1>6 DEF Rooted, TimelyInv
<1>11. Everywhere'
  <2>1. ASSUME NEW p \in Nodes, NEW m \in Nodes, NEW c \in BlocksOf(m)'
        PROVE  c \in BlocksOf(p)' \cup net[p] \/ (c.col > 0 /\ c \in appended'[Leader(c.col, c.row)])
    <3>1. CASE c = f
      BY <1>3, <1>6, <3>1
    <3>2. CASE c # f
      <4>1. c \in BlocksOf(m)
        BY <1>6, <2>1, <3>2
      <4>2. c \in BlocksOf(p) \cup net[p] \/ (c.col > 0 /\ c \in appended[Leader(c.col, c.row)])
        BY <4>1 DEF Everywhere, TimelyInv
      <4>3. c.col > 0 => Leader(c.col, c.row) \in Nodes
        BY <4>1, LastColumn
      <4> QED
        BY <1>6, <4>2, <4>3
    <3> QED
      BY <3>1, <3>2
  <2>2. \A p \in Nodes : appended'[p] \subseteq BlocksOf(p)'
    BY <1>6 DEF Everywhere, TimelyInv
  <2>3. \A p \in Nodes : \A c \in net[p] : \E m \in Nodes : c \in BlocksOf(m)'
    BY <1>6 DEF Everywhere, TimelyInv
  <2> QED
    BY <1>1, <2>1, <2>2, <2>3 DEF Everywhere
<1>12. Sorted'
  BY <1>2, <1>5, SortedAppend
<1>13. OneEach'
  <2>1. /\ \A k, m \in Nodes : \A x \in BlocksOf(k), c \in BlocksOf(m) : At(x) = At(c) => x = c
        /\ \A k, m \in Nodes : \A x \in plan[k], c \in BlocksOf(m) : At(x) # At(c)
        /\ \A k \in Nodes : \A x, c \in plan[k] : At(x) = At(c) => x = c
    BY DEF OneEach, TimelyInv
  <2>2. \A m \in Nodes : \A c \in BlocksOf(m) : At(c) # At(f)
    BY <1>3, <2>1
  <2>3. \A m \in Nodes : \A c \in BlocksOf(m)' : c = f \/ c \in BlocksOf(m)
    BY <1>6
  <2>4. ASSUME NEW k \in Nodes, NEW x \in plan'[k] PROVE At(x) # At(f) /\ x \in plan[k]
    <3>1. x \in plan[k] /\ (k = n => x # b)
      BY <1>2, <2>4
    <3>2. k # n => At(x) # At(f)
      <4>1. x \in Block /\ x.col > 0 /\ Leader(x.col, x.row) = k
        BY <3>1, ChainType DEF TimelyInv, AlignInv, LedInSlot
      <4>2. At(x) = <<x.col, x.row>>
        BY <4>1, BlockType
      <4> QED
        BY <1>3, <4>1, <4>2
    <3>3. k = n => At(x) # At(f)
      BY <1>2, <1>3, <2>1, <3>1
    <3> QED
      BY <3>1, <3>2, <3>3
  <2>5. \A k, m \in Nodes : \A x \in BlocksOf(k)', c \in BlocksOf(m)' : At(x) = At(c) => x = c
    BY <2>1, <2>2, <2>3
  <2>6. \A k, m \in Nodes : \A x \in plan'[k], c \in BlocksOf(m)' : At(x) # At(c)
    BY <2>1, <2>3, <2>4
  <2>7. \A k \in Nodes : \A x, c \in plan'[k] : At(x) = At(c) => x = c
    BY <2>1, <2>4
  <2> QED
    BY <2>5, <2>6, <2>7 DEF OneEach
<1>14. /\ \A m \in Nodes : Assignment(m)' = Assignment(m)
       /\ \A m \in Nodes : InColumn(blockchain'[m], absRound'[m] - 1) = InColumn(blockchain[m], absRound[m] - 1)
  BY <1>1, <1>2, <1>3, <1>4, SameAssignment
<1>15. /\ Own(n)' = Own(n) \cup {f}
       /\ \A m \in Nodes : m # n => Own(m)' = Own(m)
  BY <1>1, <1>3, <1>6 DEF Own
<1>16. PlanMade'
  <2> SUFFICES ASSUME NEW m \in Nodes, absRound[m] > 0
               PROVE  /\ \A a \in Assignment(m) : \E x \in plan'[m] \cup Own(m)' : SameSlot(a, x)
                      /\ \A x \in plan'[m] \cup Own(m)' : \E a \in Assignment(m) : SameSlot(a, x)
    BY <1>1, <1>14 DEF PlanMade
  <2>1. /\ \A a \in Assignment(m) : \E x \in plan[m] \cup Own(m) : SameSlot(a, x)
        /\ \A x \in plan[m] \cup Own(m) : \E a \in Assignment(m) : SameSlot(a, x)
    BY DEF TimelyInv, PlanMade
  <2>2. CASE m # n
    BY <1>2, <1>15, <2>1, <2>2
  <2>3. CASE m = n
    <3>1. plan'[n] \cup Own(n)' = ((plan[n] \cup Own(n)) \ {b}) \cup {f} \/ b \in Own(n)
      BY <1>2, <1>15
    <3>2. b \notin Own(n)
      BY <1>2 DEF Own, TimelyInv, OneEach
    <3>3. \A a : SameSlot(a, b) <=> SameSlot(a, f)
      BY <1>2 DEF SameSlot
    <3> QED
      BY <2>1, <2>3, <3>1, <3>2, <3>3
  <2> QED
    BY <2>2, <2>3
<1>17. Partitioned'
  BY <1>1, <1>14 DEF Partitioned, TimelyInv
<1> QED
  BY <1>7, <1>8, <1>9, <1>10, <1>11, <1>12, <1>13, <1>16, <1>17 DEF TimelyInv

LEMMA ReceiveTimely ==
  ASSUME TimelyInv, NEW n \in Nodes, NEW b \in net[n], ReceiveBlock(n, b), AlignInv'
  PROVE  TimelyInv'
<1>1. UNCHANGED <<plan, absRound>>
  BY DEF ReceiveBlock
<1>2. /\ b \in Block /\ Adds(n, b)
      /\ \A m \in Nodes : net'[m] = IF m = n THEN net[n] \ {b} ELSE net[m]
  BY ReceiveEffect DEF TimelyInv, AlignInv
<1>3. /\ b.col \in Nat /\ b.col > 0 /\ Leader(b.col, b.row) # n
      /\ Leader(b.col, b.row) \in Nodes /\ b.col <= absRound[Leader(b.col, b.row)]
      /\ \A m \in Nodes : absRound[m] \in Nat /\ b.col >= absRound[m]
  <2>1. b.col > 0 /\ Leader(b.col, b.row) # n
    BY DEF TimelyInv, LedInSlot
  <2>2. \A m \in Nodes : b.col >= absRound[m]
    BY DEF TimelyInv, PendingLate
  <2>3. \A m \in Nodes : absRound[m] \in Nat
    BY ChainType DEF TimelyInv, AlignInv
  <2> QED
    BY <2>1, <2>2, <2>3, LastColumn
<1>4. PICK k \in Nodes : b \in BlocksOf(k)
  BY DEF TimelyInv, Everywhere
<1>5. \A m \in Nodes : \A c \in BlocksOf(m) : c.col <= b.col
  BY <1>3, LastColumn
<1>6. \A m \in Nodes :
        /\ BlocksOf(m)' = IF m = n THEN BlocksOf(n) \cup {b} ELSE BlocksOf(m)
        /\ appended'[m] = IF m = n THEN appended[n] \cup {b} ELSE appended[m]
  BY <1>2 DEF Adds
<1>7. NearSlots'
  BY <1>1 DEF NearSlots, TimelyInv
<1>8. PendingLate'
  BY <1>1, <1>2, <1>3, <1>6 DEF PendingLate, TimelyInv
<1>9. LedInSlot'
  <2> SUFFICES ASSUME NEW m \in Nodes
               PROVE  /\ \A c \in BlocksOf(m)' \cup net'[m] :
                           c.col = 0 \/ c.col <= absRound[Leader(c.col, c.row)]
                      /\ \A c \in plan[m] : c.col = absRound[m] /\ c.col > 0
                                            /\ Leader(c.col, c.row) = m
                      /\ \A c \in net'[m] : c.col > 0 /\ Leader(c.col, c.row) # m
                      /\ \A c \in appended'[m] : c.col > 0
    BY <1>1 DEF LedInSlot
  <2>1. \A c \in net'[m] : c \in net[m]
    BY <1>2
  <2>2. \A c \in BlocksOf(m)' \cup net'[m] : c.col = 0 \/ c.col <= absRound[Leader(c.col, c.row)]
    BY <1>3, <1>6, <2>1 DEF LedInSlot, TimelyInv
  <2>3. \A c \in appended'[m] : c.col > 0
    BY <1>3, <1>6 DEF LedInSlot, TimelyInv
  <2> QED
    BY <2>1, <2>2, <2>3 DEF LedInSlot, TimelyInv
<1>10. Rooted'
  BY <1>3, <1>6 DEF Rooted, TimelyInv
<1>11. \A m \in Nodes : \A c \in BlocksOf(m)' : c \in BlocksOf(m) \/ c \in BlocksOf(k)
  BY <1>4, <1>6
<1>12. Everywhere'
  <2>1. ASSUME NEW p \in Nodes, NEW m \in Nodes, NEW c \in BlocksOf(m)'
        PROVE  c \in BlocksOf(p)' \cup net'[p] \/ (c.col > 0 /\ c \in appended'[Leader(c.col, c.row)])
    <3>1. PICK q \in Nodes : c \in BlocksOf(q)
      BY <1>11, <2>1
    <3>2. c \in BlocksOf(p) \cup net[p] \/ (c.col > 0 /\ c \in appended[Leader(c.col, c.row)])
      BY <3>1 DEF Everywhere, TimelyInv
    <3>3. c.col > 0 => Leader(c.col, c.row) \in Nodes
      BY <3>1, LastColumn
    <3>4. c \in BlocksOf(p) \cup net[p] => c \in BlocksOf(p)' \cup net'[p]
      BY <1>2, <1>6
    <3> QED
      BY <1>6, <3>2, <3>3, <3>4
  <2>2. \A p \in Nodes : appended'[p] \subseteq BlocksOf(p)'
    BY <1>6 DEF Everywhere, TimelyInv
  <2>3. \A p \in Nodes : \A c \in net'[p] : \E m \in Nodes : c \in BlocksOf(m)'
    BY <1>2, <1>6 DEF Everywhere, TimelyInv
  <2> QED
    BY <2>1, <2>2, <2>3 DEF Everywhere
<1>13. Sorted'
  BY <1>2, <1>5, SortedAppend
<1>14. OneEach'
  BY <1>1, <1>11 DEF OneEach, TimelyInv
<1>15. /\ \A m \in Nodes : Assignment(m)' = Assignment(m)
       /\ \A m \in Nodes : InColumn(blockchain'[m], absRound'[m] - 1) = InColumn(blockchain[m], absRound[m] - 1)
  BY <1>1, <1>2, <1>3, SameAssignment
<1>16. \A m \in Nodes : Own(m)' = Own(m)
  BY <1>1, <1>3, <1>6 DEF Own
<1>17. PlanMade'
  BY <1>1, <1>15, <1>16 DEF PlanMade, TimelyInv
<1>18. Partitioned'
  BY <1>1, <1>15 DEF Partitioned, TimelyInv
<1> QED
  BY <1>7, <1>8, <1>9, <1>10, <1>12, <1>13, <1>14, <1>17, <1>18 DEF TimelyInv

\* A block is handled to its end; the one that made it has sent it to the others
LEMMA RemoveTimely ==
  ASSUME TimelyInv, NEW n \in Nodes, NEW b \in appended[n], AlignInv',
         BroadcastBlock(n, b) \/ EndReceiveBlock(n, b)
  PROVE  TimelyInv'
<1>1. UNCHANGED <<blockchain, plan, absRound>> /\ RemoveTransactions(n, b)
  BY DEF BroadcastBlock, EndReceiveBlock
<1>2. /\ b \in Block
      /\ \A m \in Nodes : appended'[m] = IF m = n THEN appended[n] \ {b} ELSE appended[m]
  BY <1>1, RemoveEffect DEF TimelyInv, AlignInv
<1>3. \/ Leader(b.col, b.row) = n /\ \A m \in Nodes : net'[m] = IF m = n THEN net[m] ELSE net[m] \cup {b}
      \/ Leader(b.col, b.row) # n /\ \A m \in Nodes : net'[m] = net[m]
  BY DEF BroadcastBlock, EndReceiveBlock, Created
<1>4. /\ b.col > 0 /\ b \in BlocksOf(n) /\ \A m \in Nodes : b.col >= absRound[m]
      /\ b.col = 0 \/ b.col <= absRound[Leader(b.col, b.row)]
  BY DEF TimelyInv, LedInSlot, Everywhere, PendingLate
<1>5. /\ \A m \in Nodes : BlocksOf(m)' = BlocksOf(m)
      /\ \A m \in Nodes : Own(m)' = Own(m) /\ Assignment(m)' = Assignment(m)
  BY <1>1 DEF BlocksOf, Own, Assignment
<1>6. \A m \in Nodes : /\ \A c \in net'[m] : c \in net[m] \/ (c = b /\ Leader(b.col, b.row) = n /\ m # n)
                       /\ \A c \in appended'[m] : c \in appended[m]
                       /\ \A c \in net[m] : c \in net'[m]
  BY <1>2, <1>3
<1>7. NearSlots'
  BY <1>1 DEF NearSlots, TimelyInv
<1>8. PendingLate'
  BY <1>1, <1>4, <1>6 DEF PendingLate, TimelyInv
<1>9. LedInSlot'
  <2> SUFFICES ASSUME NEW m \in Nodes
               PROVE  /\ \A c \in BlocksOf(m) \cup net'[m] :
                           c.col = 0 \/ c.col <= absRound[Leader(c.col, c.row)]
                      /\ \A c \in plan[m] : c.col = absRound[m] /\ c.col > 0
                                            /\ Leader(c.col, c.row) = m
                      /\ \A c \in net'[m] : c.col > 0 /\ Leader(c.col, c.row) # m
                      /\ \A c \in appended'[m] : c.col > 0
    BY <1>1, <1>5 DEF LedInSlot
  <2>1. \A c \in net'[m] : c.col > 0 /\ Leader(c.col, c.row) # m
    BY <1>4, <1>6 DEF LedInSlot, TimelyInv
  <2>2. \A c \in BlocksOf(m) \cup net'[m] : c.col = 0 \/ c.col <= absRound[Leader(c.col, c.row)]
    BY <1>4, <1>6 DEF LedInSlot, TimelyInv
  <2>3. \A c \in appended'[m] : c.col > 0
    BY <1>6 DEF LedInSlot, TimelyInv
  <2> QED
    BY <2>1, <2>2, <2>3 DEF LedInSlot, TimelyInv
<1>10. Rooted' /\ Sorted'
  BY <1>1, <1>5 DEF Rooted, Sorted, TimelyInv
<1>11. Everywhere'
  <2>1. ASSUME NEW p \in Nodes, NEW m \in Nodes, NEW c \in BlocksOf(m)
        PROVE  c \in BlocksOf(p) \cup net'[p] \/ (c.col > 0 /\ c \in appended'[Leader(c.col, c.row)])
    <3>1. c \in BlocksOf(p) \cup net[p] \/ (c.col > 0 /\ c \in appended[Leader(c.col, c.row)])
      BY DEF Everywhere, TimelyInv
    <3>2. c.col > 0 => Leader(c.col, c.row) \in Nodes
      BY LastColumn
    <3>3. CASE c = b /\ Leader(b.col, b.row) = n
      BY <1>3, <1>4, <3>3
    <3>4. CASE ~(c = b /\ Leader(b.col, b.row) = n)
      BY <1>2, <1>6, <3>1, <3>2, <3>4
    <3> QED
      BY <3>3, <3>4
  <2>2. \A p \in Nodes : appended'[p] \subseteq BlocksOf(p)
    BY <1>6 DEF Everywhere, TimelyInv
  <2>3. \A p \in Nodes : \A c \in net'[p] : \E m \in Nodes : c \in BlocksOf(m)
    BY <1>4, <1>6 DEF Everywhere, TimelyInv
  <2> QED
    BY <1>5, <2>1, <2>2, <2>3 DEF Everywhere
<1>12. OneEach'
  BY <1>1, <1>5 DEF OneEach, TimelyInv
<1>13. PlanMade'
  BY <1>1, <1>5 DEF PlanMade, TimelyInv
<1>14. Partitioned'
  BY <1>1 DEF Partitioned, TimelyInv
<1> QED
  BY <1>7, <1>8, <1>9, <1>10, <1>11, <1>12, <1>13, <1>14 DEF TimelyInv

LEMMA TimelyStep ==
  ASSUME TimelyInv, MaxLate = 0, [Next]_vars
  PROVE  TimelyInv'
<1>0. AlignInv'
  BY AlignStep DEF TimelyInv
<1>1. CASE UNCHANGED vars
  BY <1>0, <1>1, StillSame DEF vars, Still
<1>2. ASSUME NEW n \in Nodes, Continue(n) PROVE TimelyInv'
  <2>1. CASE CreateBlock(n)
    BY <1>0, <2>1, CreateTimely
  <2>2. ASSUME NEW b \in appended[n], BroadcastBlock(n, b) \/ EndReceiveBlock(n, b) PROVE TimelyInv'
    BY <1>0, <2>2, RemoveTimely
  <2> QED
    BY <1>2, <2>1, <2>2 DEF Continue
<1>3. ASSUME NEW n \in Nodes, Begin(n) PROVE TimelyInv'
  <2>1. CASE DecideActions(n)
    BY <1>0, <2>1, DecideTimely
  <2>2. CASE SelectTransactions(n)
    BY <1>0, <2>2, StillSame DEF SelectTransactions, Still
  <2>3. ASSUME NEW b \in net[n], ReceiveBlock(n, b) PROVE TimelyInv'
    BY <1>0, <2>3, ReceiveTimely
  <2>4. ASSUME NEW pack \in packs[n], GatherTransactionPack(n, pack) PROVE TimelyInv'
    BY <1>0, <2>4, StillSame DEF GatherTransactionPack, Still
  <2> QED
    BY <1>3, <2>1, <2>2, <2>3, <2>4 DEF Begin
<1>4. ASSUME NEW pack \in Packs, SendTransactionPack(pack) PROVE TimelyInv'
  BY <1>0, <1>4, StillSame DEF SendTransactionPack, Still
<1> QED
  BY <1>1, <1>2, <1>3, <1>4 DEF Next

LEMMA TimelyInit == Init => TimelyInv
<1> SUFFICES ASSUME Init PROVE TimelyInv
  OBVIOUS
<1>1. AlignInv
  BY AlignInit
<1>2. \A n \in Nodes : BlocksOf(n) = {Genesis} /\ blockchain[n] = <<Genesis>>
  BY DEF Init, BlocksOf
<1>3. Genesis.col = 0
  BY DEF Genesis
<1>4. \A n \in Nodes : absRound[n] = 0 /\ plan[n] = {} /\ net[n] = {} /\ appended[n] = {}
  BY DEF Init
<1>5. NearSlots /\ PendingLate /\ LedInSlot /\ Rooted /\ Everywhere
  BY <1>2, <1>3, <1>4 DEF NearSlots, PendingLate, LedInSlot, Rooted, Everywhere
<1>6. Sorted
  BY <1>2, <1>3 DEF Sorted
<1>7. OneEach /\ PlanMade /\ Partitioned
  BY <1>2, <1>4 DEF OneEach, PlanMade, Partitioned
<1> QED
  BY <1>1, <1>5, <1>6, <1>7 DEF TimelyInv

\* The transactions of an aligned branch are those whose hash begins with one of its rows
LEMMA BelongsCovers ==
  ASSUME dagMaxDepth = 3, NEW hash \in Hashes, NEW b \in Block, Aligned(b)
  PROVE  doesTxBelongToIndex(hash, b.depth, b.row) <=> Covers(b.row, b.depth, FirstRow(hash))
<1> DEFINE r == FirstRow(hash)
           index == b.row
           depth == b.depth
<1>0. r \in 0 .. 7
  BY RowInside
<1> HIDE DEF r
<1>1. r \in 0 .. 7 /\ index \in 0 .. 7 /\ depth \in 0 .. 3 /\ index % Span[depth] = 0
  BY <1>0, EightRows DEF Block, Aligned
<1> HIDE DEF index, depth
<1>2. doesTxBelongToIndex(hash, depth, index) <=>
           \/ depth = 0 /\ index = 0
           \/ depth = 1 /\ index \div 4 = r \div 4
           \/ depth = 2 /\ index \div 2 = r \div 2
           \/ depth = 3 /\ index = r
  BY <1>1, Belongs DEF r
<1>3. Covers(index, depth, r) <=> index <= r /\ r < index + Span[depth]
  BY DEF Covers
<1>4. CASE depth = 0
  <2>1. index % 8 = 0 => index = 0
    BY <1>1
  <2> QED
    BY <1>1, <1>2, <1>3, <1>4, <2>1, EightRows DEF r, index, depth
<1>5. CASE depth = 1
  <2>1. index % 4 = 0 => (index \div 4 = r \div 4 <=> index <= r /\ r < index + 4)
    BY <1>1
  <2> QED
    BY <1>1, <1>2, <1>3, <1>5, <2>1, EightRows DEF r, index, depth
<1>6. CASE depth = 2
  <2>1. index % 2 = 0 => (index \div 2 = r \div 2 <=> index <= r /\ r < index + 2)
    BY <1>1
  <2> QED
    BY <1>1, <1>2, <1>3, <1>6, <2>1, EightRows DEF r, index, depth
<1>7. CASE depth = 3
  <2>1. index = r <=> index <= r /\ r < index + 1
    BY <1>1
  <2> QED
    BY <1>1, <1>2, <1>3, <1>7, <2>1, EightRows DEF r, index, depth
<1> QED
  BY <1>1, <1>4, <1>5, <1>6, <1>7

\* Between slots the last column is complete
LEMMA ColumnComplete ==
  ASSUME TimelyInv, BetweenSlots, NEW n \in Nodes
  PROVE  Partition(InColumn(blockchain[n], absRound[n]))
<1> DEFINE col == absRound[n]
<1>1. col \in Nat
  BY ChainType DEF TimelyInv, AlignInv
<1>2. \A m \in Nodes : absRound[m] = col /\ plan[m] = {} /\ net[m] = {} /\ appended[m] = {}
  BY DEF BetweenSlots
<1> HIDE DEF col
<1>3. CASE col = 0
  BY <1>3, GenesisPartition DEF col
<1>4. CASE col # 0
  BY <1>1, <1>2, <1>4, ColumnPartition DEF col
<1> QED
  BY <1>3, <1>4 DEF col

(***************************************************************************)
(* When blocks arrive before the next slot begins, each eighth of the hash *)
(* range belongs to exactly one block of a column once all nodes have it:  *)
(* for any number of nodes, any leaders and any numbers of transactions,   *)
(* however the branches split and merged.  The eight rows are those for    *)
(* which the shift of doesTxBelongToIndex is made.                         *)
(***************************************************************************)
THEOREM BranchesStayPartition ==
  ASSUME dagMaxDepth = 3, MaxLate = 0
  PROVE  Spec => []BranchesPartition
<1>1. TimelyInv => BranchesPartition
  <2> SUFFICES ASSUME TimelyInv, BetweenSlots, NEW n \in Nodes, NEW mask \in Branches
               PROVE  Cardinality({b \in BlocksOf(n) :
                        b.col = absRound[n] /\ doesTxBelongToIndex(mask, b.depth, b.row)}) = 1
    BY DEF BranchesPartition
  <2> DEFINE found == {b \in BlocksOf(n) :
               b.col = absRound[n] /\ doesTxBelongToIndex(mask, b.depth, b.row)}
  <2>1. PICK r \in Rows : mask = r * 8192
    BY EightRows
  <2>2. mask \in Hashes /\ FirstRow(mask) = r
    BY <2>1, EightRows, RowMask
  <2>3. \A b \in BlocksOf(n) : b \in Block /\ Aligned(b)
    BY ChainType DEF TimelyInv, AlignInv, Known
  <2>4. found = {b \in InColumn(blockchain[n], absRound[n]) : Covers(b.row, b.depth, r)}
    <3>1. \A b \in BlocksOf(n) :
            doesTxBelongToIndex(mask, b.depth, b.row) <=> Covers(b.row, b.depth, r)
      BY <2>2, <2>3, BelongsCovers
    <3> QED
      BY <3>1, ColumnBlocks
  <2>5. PICK b \in found : \A c \in found : c = b
    <3>1. Partition(InColumn(blockchain[n], absRound[n]))
      BY ColumnComplete
    <3> HIDE DEF found
    <3> QED
      BY <2>4, <3>1 DEF Partition
  <2>6. found = {b}
    <3> HIDE DEF found
    <3> QED
      BY <2>5
  <2> QED
    BY <2>6, FS_Singleton
<1>2. TimelyInv /\ [Next]_vars => TimelyInv'
  BY TimelyStep
<1> QED
  BY <1>1, <1>2, TimelyInit, PTL DEF Spec

-----------------------------------------------------------------------------
(* Transactions of a network in time *)

Chained == UNION {BlocksOf(n) : n \in Nodes}

\* A transaction is in one block of the DAG
Once == \A b, c \in Chained : b.txs \cap c.txs # {} => b = c

\* Packs only arrive between slots, and no block has their transactions
PacksQuiet == \A n \in Nodes : packs[n] # {} => BetweenSlots

PacksNew ==
  /\ \A n \in Nodes : packs[n] \subseteq sent
  /\ \A n \in Nodes : \A pack \in packs[n] : \A b \in Chained : pack \cap b.txs = {}
  /\ \A b \in Chained : b.txs \subseteq UNION sent
  /\ \A n \in Nodes : mempool[n] \subseteq UNION sent

\* A transaction of a block is in a mempool only until the block is handled there
MempoolClean ==
  \A n \in Nodes : \A b \in Chained : b.txs \cap mempool[n] # {} =>
    b \in net[n] \cup appended[n] \/ (b.col > 0 /\ b \in appended[Leader(b.col, b.row)])

Selected(n) == IF included[n] = <<>> THEN {} ELSE included[n][1]

\* A block before the slot has none of the transactions selected in it
SelectedFresh ==
  \A n \in Nodes : \A tx \in Selected(n) :
    /\ plan[n] # {} /\ doesTxBelongToIndex(tx[1], NextBlock(n).depth, NextBlock(n).row)
    /\ tx \in UNION sent
    /\ \A b \in Chained : tx \in b.txs => b.col >= absRound[n]

OwnBranch == \A b \in Chained : \A tx \in b.txs : doesTxBelongToIndex(tx[1], b.depth, b.row)

OnceInv ==
  /\ TimelyInv /\ Once /\ PacksQuiet /\ PacksNew /\ MempoolClean /\ SelectedFresh /\ OwnBranch

\* Transactions are told apart by their packs
Disjoint == \A p, q \in Packs : p \cap q # {} => p = q

LEMMA InChained == \A b : b \in Chained <=> \E n \in Nodes : b \in BlocksOf(n)
BY DEF Chained

LEMMA TxHash == \A tx \in Txs : tx[1] \in Hashes
<1>1. Packs \subseteq SUBSET (Hashes \X Nat)
  BY DagAssumption DEF Hashes
<1> QED
  BY <1>1 DEF Txs

\* No block of the column has the rows of one that is planned
LEMMA OneBranch ==
  ASSUME TimelyInv, NEW n \in Nodes, NEW b \in plan[n], NEW m \in Nodes, NEW c \in BlocksOf(m),
         c.col = b.col, NEW r \in Rows, Covers(b.row, b.depth, r), Covers(c.row, c.depth, r)
  PROVE  FALSE
<1> DEFINE col == absRound[n]
           acts == Actions(blockchain[n], col)
           k == Leader(c.col, c.row)
<1>1. /\ b \in Block /\ b.col = col /\ col > 0 /\ Leader(b.col, b.row) = n
      /\ \A p \in Nodes : absRound[p] \in Nat /\ absRound[p] <= col
  <2>1. b.col = col /\ b.col > 0 /\ Leader(b.col, b.row) = n
    BY DEF TimelyInv, LedInSlot
  <2>2. \A p \in Nodes : absRound[p] \in Nat
    BY ChainType DEF TimelyInv, AlignInv
  <2>3. \A p \in Nodes : absRound[p] <= col
    BY <2>2 DEF TimelyInv, NearSlots
  <2>4. b \in Block
    BY ChainType DEF TimelyInv, AlignInv
  <2> QED
    BY <2>1, <2>2, <2>3, <2>4
<1>2. /\ c \in Block /\ c.col = col /\ k \in Nodes /\ absRound[k] = col
      /\ At(b) = <<b.col, b.row>> /\ At(c) = <<c.col, c.row>>
  BY <1>1, LastColumn, BlockType
<1>3. \A p \in Nodes : \A x \in net[p] \cup appended[p] : x.col \in Nat /\ x.col >= col
  <2>1. \A p \in Nodes : \A x \in net[p] \cup appended[p] : x \in Block
    BY ChainType DEF TimelyInv, AlignInv
  <2> QED
    BY <2>1, BlockType DEF TimelyInv, PendingLate
<1>4. Actions(blockchain[k], col) = acts
  <2>1. \A p \in Nodes : \A x \in net[p] \cup appended[p] : x.col # col - 1
    BY <1>1, <1>3
  <2>2. InColumn(blockchain[k], col - 1) = InColumn(blockchain[n], col - 1)
    BY <1>2, <2>1, SameColumns
  <2> HIDE DEF k
  <2> QED
    BY <1>1, <1>2, <2>2, SameActions
<1>5. b.row \in Live(blockchain[n], col) /\ b.depth = Depth(acts[b.row])
  <2>1. PICK a \in Assignment(n) : SameSlot(a, b)
    BY <1>1 DEF TimelyInv, PlanMade
  <2>2. a.row \in Live(blockchain[n], col) /\ a.depth = Depth(acts[a.row])
    BY <2>1, AssignedRows DEF Assignment
  <2> QED
    BY <2>1, <2>2 DEF SameSlot
<1>6. \/ c.row \in Live(blockchain[n], col) /\ c.depth = Depth(acts[c.row])
      \/ c \notin BlocksOf(k)
  <2> SUFFICES ASSUME c \in BlocksOf(k)
               PROVE  c.row \in Live(blockchain[n], col) /\ c.depth = Depth(acts[c.row])
    OBVIOUS
  <2>1. c \in Own(k)
    BY <1>2 DEF Own
  <2>2. PICK a \in Assignment(k) : SameSlot(a, c)
    BY <1>1, <1>2, <2>1 DEF TimelyInv, PlanMade
  <2>3. Assignment(k) = Assigned(k, col, acts)
    BY <1>2, <1>4 DEF Assignment
  <2>4. Live(blockchain[k], col) = Live(blockchain[n], col)
    BY <1>4 DEF Live
  <2>5. a.row \in Live(blockchain[n], col) /\ a.depth = Depth(acts[a.row])
    BY <1>4, <2>2, <2>3, <2>4, AssignedRows
  <2> QED
    BY <2>2, <2>5 DEF SameSlot
\* A block that others have is in its leader's chain
<1>7. c \in BlocksOf(k)
  <2>1. c \in BlocksOf(k) \cup net[k] \/ (c.col > 0 /\ c \in appended[k])
    BY <1>2 DEF TimelyInv, Everywhere
  <2>2. c \notin net[k]
    BY <1>2 DEF TimelyInv, LedInSlot
  <2>3. appended[k] \subseteq BlocksOf(k)
    BY <1>2 DEF TimelyInv, Everywhere
  <2> QED
    BY <2>1, <2>2, <2>3
<1>8. \A v, w \in Live(blockchain[n], col) :
        Covers(v, Depth(acts[v]), r) /\ Covers(w, Depth(acts[w]), r) => v = w
  <2>1. InColumn(blockchain[n], col - 1) \subseteq Block
    <3>1. InColumn(blockchain[n], col - 1) \subseteq BlocksOf(n)
      BY ColumnBlocks
    <3>2. TypeInv
      BY DEF TimelyInv, AlignInv
    <3> HIDE DEF TypeInv
    <3>3. BlocksOf(n) \subseteq Block
      BY <3>2, ChainType
    <3> QED
      BY <3>1, <3>3
  <2>2. \A x \in Rows : Found(blockchain[n], col - 1, x)
                          = {p \in InColumn(blockchain[n], col - 1) : p.row = x}
    <3>1. col - 1 \in Int
      BY <1>1
    <3> QED
      BY <3>1, FoundAll
  <2>3. \A p \in InColumn(blockchain[n], col - 1) : Aligned(p)
    BY ColumnBlocks DEF TimelyInv, AlignInv, Known
  <2>4. Partition(InColumn(blockchain[n], col - 1))
    BY <1>1 DEF TimelyInv, Partitioned
  <2> HIDE DEF col
  <2> QED
    BY <2>1, <2>2, <2>3, <2>4, NextPartition
<1>9. b.row = c.row
  BY <1>5, <1>6, <1>7, <1>8
<1>10. At(b) = At(c)
  BY <1>2, <1>9
<1> QED
  BY <1>10 DEF TimelyInv, OneEach

\* A block is made of transactions that no other block has
LEMMA FreshFill ==
  ASSUME dagMaxDepth = 3, OnceInv, NEW n \in Nodes, NEW b \in plan[n], b = NextBlock(n),
         NEW tx \in Selected(n), NEW c \in Chained
  PROVE  tx \notin c.txs
<1> SUFFICES ASSUME tx \in c.txs PROVE FALSE
  OBVIOUS
<1>1. PICK m \in Nodes : c \in BlocksOf(m)
  BY InChained
<1>2. /\ b \in Block /\ Aligned(b) /\ b.col = absRound[n]
      /\ c \in Block /\ Aligned(c) /\ c.col \in Nat
  <2>1. b \in Block /\ c \in Block
    BY <1>1, ChainType DEF OnceInv, TimelyInv, AlignInv
  <2>2. Aligned(b) /\ Aligned(c)
    BY <1>1 DEF OnceInv, TimelyInv, AlignInv, Known
  <2>3. b.col = absRound[n]
    BY DEF OnceInv, TimelyInv, LedInSlot
  <2> QED
    BY <2>1, <2>2, <2>3, BlockType
<1>3. c.col >= absRound[n]
  BY DEF OnceInv, SelectedFresh
<1>4. c.col <= absRound[n]
  <2>1. \A p \in Nodes : absRound[p] \in Nat /\ absRound[p] <= absRound[n]
    BY ChainType DEF OnceInv, TimelyInv, AlignInv, NearSlots
  <2>2. c.col = 0 \/ (/\ Leader(c.col, c.row) \in Nodes
                      /\ c.col <= absRound[Leader(c.col, c.row)])
    BY <1>1, LastColumn DEF OnceInv
  <2> QED
    BY <1>2, <2>1, <2>2
<1>5. c.col = b.col
  <2>1. absRound[n] \in Nat
    BY ChainType DEF OnceInv, TimelyInv, AlignInv
  <2> QED
    BY <1>2, <1>3, <1>4, <2>1
<1>6. tx[1] \in Hashes
  <2>1. tx \in Txs
    BY <1>2 DEF Block
  <2> QED
    BY <2>1, TxHash
<1> DEFINE r == FirstRow(tx[1])
<1>7. r \in Rows
  BY <1>6, RowInside, EightRows
<1>8. Covers(b.row, b.depth, r)
  <2>1. doesTxBelongToIndex(tx[1], b.depth, b.row)
    BY DEF OnceInv, SelectedFresh
  <2> QED
    BY <1>2, <1>6, <2>1, BelongsCovers
<1>9. Covers(c.row, c.depth, r)
  <2>1. doesTxBelongToIndex(tx[1], c.depth, c.row)
    BY DEF OnceInv, OwnBranch
  <2> QED
    BY <1>2, <1>6, <2>1, BelongsCovers
<1> HIDE DEF r
<1> QED
  BY <1>1, <1>5, <1>7, <1>8, <1>9, OneBranch DEF OnceInv

LEMMA SelectedType ==
  ASSUME TypeInv, NEW n \in Nodes
  PROVE  /\ Selected(n) \subseteq Txs
         /\ included[n] # <<>> => \A txs \in Limited(included[n][1]) : txs \subseteq Selected(n)
<1>1. included[n] \in {<<>>} \cup {<<txs>> : txs \in SUBSET Txs}
  BY DEF TypeInv, TypeOK
<1>2. CASE included[n] = <<>>
  BY <1>2 DEF Selected
<1>3. CASE included[n] # <<>>
  <2>1. PICK s \in SUBSET Txs : included[n] = <<s>>
    BY <1>1, <1>3
  <2>2. included[n][1] = s
    BY <2>1
  <2> QED
    BY <1>3, <2>2 DEF Selected, Limited
<1> QED
  BY <1>2, <1>3

LEMMA OnceCreate ==
  ASSUME dagMaxDepth = 3, OnceInv, NEW n \in Nodes, CreateBlock(n), TimelyInv'
  PROVE  OnceInv'
<1>1. UNCHANGED <<sent, packs, net, mempool, absRound>>
  BY DEF CreateBlock
<1>2. PICK b \in plan[n], f \in Block :
        /\ b = NextBlock(n) /\ f.txs \in Limited(included[n][1])
        /\ SameSlot(f, b) /\ Adds(n, f)
        /\ \A m \in Nodes : plan'[m] = IF m = n THEN plan[n] \ {b} ELSE plan[m]
  BY CreateEffect DEF OnceInv, TimelyInv, AlignInv
<1>3. included[n] # <<>> /\ \A m \in Nodes : included'[m] = IF m = n THEN <<>> ELSE included[m]
  BY DEF CreateBlock, OnceInv, TimelyInv, AlignInv, TypeInv, TypeOK
<1>4. f.txs \subseteq Selected(n)
  BY <1>2, <1>3, SelectedType DEF OnceInv, TimelyInv, AlignInv
<1>5. f.col = absRound[n] /\ f.col > 0 /\ Leader(f.col, f.row) = n
  BY <1>2 DEF SameSlot, OnceInv, TimelyInv, LedInSlot
<1>6. \A tx \in f.txs : \A c \in Chained : tx \notin c.txs
  BY <1>2, <1>4, FreshFill
<1>7. \A c : c \in Chained' <=> c \in Chained \/ c = f
  <2>1. \A m \in Nodes : BlocksOf(m)' = IF m = n THEN BlocksOf(n) \cup {f} ELSE BlocksOf(m)
    BY <1>2 DEF Adds
  <2>2. \A c : c \in Chained' <=> \E m \in Nodes : c \in BlocksOf(m)'
    BY DEF Chained
  <2> QED
    BY <2>1, <2>2, InChained
<1>8. \A m \in Nodes : appended'[m] = IF m = n THEN appended[n] \cup {f} ELSE appended[m]
  BY <1>2 DEF Adds
<1>9. \A m \in Nodes : packs[m] = {}
  <2>1. ~BetweenSlots
    BY <1>2 DEF BetweenSlots
  <2> QED
    BY <2>1 DEF OnceInv, PacksQuiet
<1>10. f.txs \subseteq UNION sent /\ \A tx \in f.txs : doesTxBelongToIndex(tx[1], f.depth, f.row)
  BY <1>2, <1>4 DEF OnceInv, SelectedFresh, SameSlot
<1>11. \A m \in Nodes : absRound[m] \in Nat /\ absRound[m] <= f.col
  <2>1. \A m \in Nodes : absRound[m] \in Nat
    BY ChainType DEF OnceInv, TimelyInv, AlignInv
  <2> QED
    BY <1>2, <1>5, <2>1 DEF OnceInv, TimelyInv, NearSlots
<1>12. Once'
  BY <1>6, <1>7 DEF Once, OnceInv
<1>13. PacksQuiet'
  BY <1>1, <1>9 DEF PacksQuiet
<1>14. PacksNew'
  BY <1>1, <1>7, <1>9, <1>10 DEF PacksNew, OnceInv
<1>15. MempoolClean'
  <2> SUFFICES ASSUME NEW m \in Nodes, NEW c \in Chained', c.txs \cap mempool[m] # {}
               PROVE  c \in net[m] \cup appended'[m]
                        \/ (c.col > 0 /\ c \in appended'[Leader(c.col, c.row)])
    BY <1>1 DEF MempoolClean
  <2>1. CASE c = f
    BY <1>5, <1>8, <2>1
  <2>2. CASE c # f
    <3>1. c \in Chained
      BY <1>7, <2>2
    <3>2. c.col > 0 => Leader(c.col, c.row) \in Nodes
      BY <3>1, InChained, LastColumn DEF OnceInv
    <3> QED
      BY <1>8, <3>1, <3>2 DEF OnceInv, MempoolClean
  <2> QED
    BY <2>1, <2>2
<1>16. SelectedFresh'
  <2> SUFFICES ASSUME NEW m \in Nodes, NEW tx \in Selected(m)'
               PROVE  /\ plan'[m] # {}
                      /\ doesTxBelongToIndex(tx[1], NextBlock(m)'.depth, NextBlock(m)'.row)
                      /\ tx \in UNION sent
                      /\ \A c \in Chained' : tx \in c.txs => c.col >= absRound[m]
    BY <1>1 DEF SelectedFresh
  <2>1. m # n /\ tx \in Selected(m)
    BY <1>3 DEF Selected
  <2>2. plan'[m] = plan[m] /\ NextBlock(m)' = NextBlock(m)
    BY <1>2, <2>1 DEF NextBlock
  <2> QED
    BY <1>7, <1>11, <2>1, <2>2 DEF OnceInv, SelectedFresh
<1>17. OwnBranch'
  BY <1>7, <1>10 DEF OwnBranch, OnceInv
<1> QED
  BY <1>12, <1>13, <1>14, <1>15, <1>16, <1>17 DEF OnceInv

\* Steps that make no block
Kept == /\ \A c : c \in Chained' <=> c \in Chained
        /\ UNCHANGED <<sent, packs, plan, absRound, included>>
        /\ ~BetweenSlots

LEMMA KeptSame ==
  ASSUME OnceInv, Kept, \A n \in Nodes : mempool'[n] \subseteq mempool[n]
  PROVE  Once' /\ PacksQuiet' /\ PacksNew' /\ SelectedFresh' /\ OwnBranch'
<1>1. Once' /\ OwnBranch'
  BY DEF Once, OwnBranch, OnceInv, Kept
<1>2. \A n \in Nodes : packs'[n] = {}
  BY DEF OnceInv, PacksQuiet, Kept
<1>3. PacksQuiet' /\ PacksNew'
  BY <1>2 DEF PacksQuiet, PacksNew, OnceInv, Kept
<1>4. SelectedFresh'
  <2>1. \A n \in Nodes : Selected(n)' = Selected(n) /\ NextBlock(n)' = NextBlock(n)
    BY DEF Selected, NextBlock, Kept
  <2> QED
    BY <2>1 DEF SelectedFresh, OnceInv, Kept
<1> QED
  BY <1>1, <1>3, <1>4

LEMMA OnceReceive ==
  ASSUME OnceInv, NEW n \in Nodes, NEW b \in net[n], ReceiveBlock(n, b), TimelyInv'
  PROVE  OnceInv'
<1>1. UNCHANGED <<sent, packs, mempool, absRound, plan, included>>
  BY DEF ReceiveBlock
<1>2. /\ b \in Block /\ Adds(n, b)
      /\ \A m \in Nodes : net'[m] = IF m = n THEN net[n] \ {b} ELSE net[m]
  BY ReceiveEffect DEF OnceInv, TimelyInv, AlignInv
<1>3. \A m \in Nodes :
        /\ BlocksOf(m)' = IF m = n THEN BlocksOf(n) \cup {b} ELSE BlocksOf(m)
        /\ appended'[m] = IF m = n THEN appended[n] \cup {b} ELSE appended[m]
  BY <1>2 DEF Adds
<1>4. \A c : c \in Chained' <=> c \in Chained
  <2>1. PICK k \in Nodes : b \in BlocksOf(k)
    BY DEF OnceInv, TimelyInv, Everywhere
  <2>2. \A c : c \in Chained' <=> \E m \in Nodes : c \in BlocksOf(m)'
    BY DEF Chained
  <2> QED
    BY <1>3, <2>1, <2>2, InChained
<1>5. ~BetweenSlots
  BY DEF BetweenSlots
<1>6. Once' /\ PacksQuiet' /\ PacksNew' /\ SelectedFresh' /\ OwnBranch'
  BY <1>1, <1>4, <1>5, KeptSame DEF Kept
<1>7. MempoolClean'
  <2> SUFFICES ASSUME NEW m \in Nodes, NEW c \in Chained, c.txs \cap mempool[m] # {}
               PROVE  c \in net'[m] \cup appended'[m]
                        \/ (c.col > 0 /\ c \in appended'[Leader(c.col, c.row)])
    BY <1>1, <1>4 DEF MempoolClean
  <2>1. c.col > 0 => Leader(c.col, c.row) \in Nodes
    BY InChained, LastColumn DEF OnceInv
  <2>2. c \in net[m] \cup appended[m] \/ (c.col > 0 /\ c \in appended[Leader(c.col, c.row)])
    BY DEF OnceInv, MempoolClean
  <2> QED
    BY <1>2, <1>3, <2>1, <2>2
<1> QED
  BY <1>6, <1>7 DEF OnceInv

LEMMA OnceRemove ==
  ASSUME OnceInv, NEW n \in Nodes, NEW b \in appended[n], TimelyInv',
         BroadcastBlock(n, b) \/ EndReceiveBlock(n, b)
  PROVE  OnceInv'
<1>1. UNCHANGED <<sent, packs, blockchain, absRound, plan, included>> /\ RemoveTransactions(n, b)
  BY DEF BroadcastBlock, EndReceiveBlock
<1>2. /\ b \in Block
      /\ \A m \in Nodes : appended'[m] = IF m = n THEN appended[n] \ {b} ELSE appended[m]
      /\ \A m \in Nodes : mempool'[m] = IF m = n THEN mempool[n] \ b.txs ELSE mempool[m]
  BY <1>1, RemoveEffect DEF OnceInv, TimelyInv, AlignInv
<1>3. \/ Leader(b.col, b.row) = n /\ \A m \in Nodes : net'[m] = IF m = n THEN net[m] ELSE net[m] \cup {b}
      \/ Leader(b.col, b.row) # n /\ \A m \in Nodes : net'[m] = net[m]
  BY DEF BroadcastBlock, EndReceiveBlock, Created
<1>4. Chained' = Chained
  BY <1>1 DEF Chained, BlocksOf
<1>5. ~BetweenSlots
  BY DEF BetweenSlots
<1>6. Once' /\ PacksQuiet' /\ PacksNew' /\ SelectedFresh' /\ OwnBranch'
  <2>1. \A m \in Nodes : mempool'[m] \subseteq mempool[m]
    BY <1>2
  <2> QED
    BY <1>1, <1>4, <1>5, <2>1, KeptSame DEF Kept
<1>7. MempoolClean'
  <2> SUFFICES ASSUME NEW m \in Nodes, NEW c \in Chained, c.txs \cap mempool'[m] # {}
               PROVE  c \in net'[m] \cup appended'[m]
                        \/ (c.col > 0 /\ c \in appended'[Leader(c.col, c.row)])
    BY <1>4 DEF MempoolClean
  <2>1. c.col > 0 => Leader(c.col, c.row) \in Nodes
    BY InChained, LastColumn DEF OnceInv
  <2>2. c.txs \cap mempool[m] # {} /\ ~(m = n /\ c = b)
    BY <1>2
  <2>3. c \in net[m] \cup appended[m] \/ (c.col > 0 /\ c \in appended[Leader(c.col, c.row)])
    BY <2>2 DEF OnceInv, MempoolClean
  <2>4. CASE c = b
    BY <1>2, <1>3, <2>1, <2>2, <2>3, <2>4
  <2>5. CASE c # b
    BY <1>2, <1>3, <2>1, <2>3, <2>5
  <2> QED
    BY <2>4, <2>5
<1> QED
  BY <1>6, <1>7 DEF OnceInv

LEMMA OnceDecide ==
  ASSUME PacksInTime, OnceInv, NEW n \in Nodes, DecideActions(n), TimelyInv'
  PROVE  OnceInv'
<1>1. UNCHANGED <<sent, packs, net, blockchain, mempool, included, appended>>
  BY DEF DecideActions
<1>2. /\ \A m \in Nodes : packs[m] = {}
      /\ absRound[n] \in Nat /\ plan[n] = {}
  <2>1. absRound[n] \in Nat
    BY ChainType DEF OnceInv, TimelyInv, AlignInv
  <2>2. SlotBegins(n)
    BY DEF DecideActions
  <2> QED
    BY <2>1, <2>2 DEF SlotBegins
<1>3. /\ \A m \in Nodes : m # n => plan'[m] = plan[m] /\ absRound'[m] = absRound[m]
      /\ Selected(n)' = {}
  <2>1. included[n] = <<>>
    BY <1>2 DEF OnceInv, TimelyInv, AlignInv, TypeInv, Filling
  <2> QED
    BY <1>1, <2>1 DEF Selected, DecideActions, OnceInv, TimelyInv, AlignInv, TypeInv, TypeOK
<1>4. Chained' = Chained
  BY <1>1 DEF Chained, BlocksOf
<1>5. Once' /\ OwnBranch' /\ MempoolClean'
  BY <1>1, <1>4 DEF Once, OwnBranch, MempoolClean, OnceInv
<1>6. PacksQuiet' /\ PacksNew'
  BY <1>1, <1>2, <1>4 DEF PacksQuiet, PacksNew, OnceInv
<1>7. SelectedFresh'
  <2> SUFFICES ASSUME NEW m \in Nodes, NEW tx \in Selected(m)'
               PROVE  /\ plan'[m] # {}
                      /\ doesTxBelongToIndex(tx[1], NextBlock(m)'.depth, NextBlock(m)'.row)
                      /\ tx \in UNION sent
                      /\ \A c \in Chained : tx \in c.txs => c.col >= absRound'[m]
    BY <1>1, <1>4 DEF SelectedFresh
  <2>1. m # n /\ tx \in Selected(m)
    BY <1>1, <1>3 DEF Selected
  <2>2. plan'[m] = plan[m] /\ NextBlock(m)' = NextBlock(m) /\ absRound'[m] = absRound[m]
    BY <1>3, <2>1 DEF NextBlock
  <2> QED
    BY <2>1, <2>2 DEF OnceInv, SelectedFresh
<1> QED
  BY <1>5, <1>6, <1>7 DEF OnceInv

\* What is in the mempool of a node and in a block is of a block under way
LEMMA OnceSelect ==
  ASSUME OnceInv, NEW n \in Nodes, SelectTransactions(n), TimelyInv'
  PROVE  OnceInv'
<1>1. UNCHANGED <<sent, packs, net, blockchain, mempool, absRound, plan, appended>>
  BY DEF SelectTransactions
<1>2. /\ plan[n] # {}
      /\ \A tx \in Selected(n)' : /\ tx \in mempool[n]
                                  /\ doesTxBelongToIndex(tx[1], NextBlock(n).depth, NextBlock(n).row)
      /\ \A m \in Nodes : m # n => Selected(m)' = Selected(m)
  <2> DEFINE found == {tx \in mempool[n] :
                         doesTxBelongToIndex(tx[1], NextBlock(n).depth, NextBlock(n).row)}
  <2>1. included' = [included EXCEPT ![n] = <<found>>] /\ plan[n] # {}
    BY DEF SelectTransactions
  <2>2. included'[n] = <<found>> /\ \A m \in Nodes : m # n => included'[m] = included[m]
    BY <2>1 DEF OnceInv, TimelyInv, AlignInv, TypeInv, TypeOK
  <2>3. Selected(n)' = found
    <3> HIDE DEF found
    <3> QED
      BY <2>2 DEF Selected
  <2> QED
    BY <2>1, <2>2, <2>3 DEF Selected
<1>3. Chained' = Chained
  BY <1>1 DEF Chained, BlocksOf
<1>4. /\ Once' /\ OwnBranch' /\ MempoolClean' /\ PacksNew'
      /\ PacksQuiet'
  BY <1>1, <1>3 DEF Once, OwnBranch, MempoolClean, PacksNew, PacksQuiet, BetweenSlots, OnceInv
<1>5. SelectedFresh'
  <2> SUFFICES ASSUME NEW m \in Nodes, NEW tx \in Selected(m)'
               PROVE  /\ plan[m] # {}
                      /\ doesTxBelongToIndex(tx[1], NextBlock(m).depth, NextBlock(m).row)
                      /\ tx \in UNION sent
                      /\ \A c \in Chained : tx \in c.txs => c.col >= absRound[m]
    <3>1. \A m \in Nodes : NextBlock(m)' = NextBlock(m)
      BY <1>1 DEF NextBlock
    <3> QED
      BY <1>1, <1>3, <3>1 DEF SelectedFresh
  <2>1. CASE m # n
    BY <1>2, <2>1 DEF OnceInv, SelectedFresh
  <2>2. CASE m = n
    <3>1. tx \in mempool[n] /\ tx \in UNION sent
      BY <1>2, <2>2 DEF OnceInv, PacksNew
    <3>2. ASSUME NEW c \in Chained, tx \in c.txs PROVE c.col >= absRound[n]
      <4>1. c \in net[n] \cup appended[n] \/ (c.col > 0 /\ c \in appended[Leader(c.col, c.row)])
        BY <3>1, <3>2 DEF OnceInv, MempoolClean
      <4>2. c.col > 0 => Leader(c.col, c.row) \in Nodes
        BY InChained, LastColumn DEF OnceInv
      <4> QED
        BY <4>1, <4>2 DEF OnceInv, TimelyInv, PendingLate
    <3> QED
      BY <1>2, <2>2, <3>1, <3>2
  <2> QED
    BY <2>1, <2>2
<1> QED
  BY <1>4, <1>5 DEF OnceInv

\* Steps that leave the blocks and what is selected for them alone
LEMMA SentSame ==
  ASSUME OnceInv, UNCHANGED <<net, blockchain, absRound, plan, included, appended>>,
         UNION sent \subseteq UNION sent'
  PROVE  Once' /\ OwnBranch' /\ SelectedFresh' /\ Chained' = Chained /\ BetweenSlots' = BetweenSlots
<1>1. Chained' = Chained /\ BetweenSlots' = BetweenSlots
  BY DEF Chained, BlocksOf, BetweenSlots
<1>2. \A n \in Nodes : Selected(n)' = Selected(n) /\ NextBlock(n)' = NextBlock(n)
  BY DEF Selected, NextBlock
<1> QED
  BY <1>1, <1>2 DEF Once, OwnBranch, SelectedFresh, OnceInv

LEMMA OnceGather ==
  ASSUME OnceInv, NEW n \in Nodes, NEW pack \in packs[n], GatherTransactionPack(n, pack), TimelyInv'
  PROVE  OnceInv'
<1>1. /\ UNCHANGED <<sent, net, blockchain, absRound, plan, included, appended>>
      /\ \A m \in Nodes : packs'[m] \subseteq packs[m]
      /\ \A m \in Nodes : mempool'[m] = IF m = n THEN mempool[n] \cup pack ELSE mempool[m]
  <2>1. packs \in [Nodes -> SUBSET Packs] /\ mempool \in [Nodes -> SUBSET Txs]
    BY DEF OnceInv, TimelyInv, AlignInv, TypeInv, TypeOK
  <2> QED
    BY <2>1 DEF GatherTransactionPack
<1>2. Once' /\ OwnBranch' /\ SelectedFresh' /\ Chained' = Chained /\ BetweenSlots' = BetweenSlots
  BY <1>1, SentSame
<1>3. PacksQuiet'
  BY <1>1, <1>2 DEF PacksQuiet, OnceInv
<1>4. PacksNew'
  <2>1. pack \subseteq UNION sent
    BY DEF OnceInv, PacksNew
  <2> QED
    BY <1>1, <1>2, <2>1 DEF PacksNew, OnceInv
<1>5. MempoolClean'
  <2> SUFFICES ASSUME NEW m \in Nodes, NEW c \in Chained, c.txs \cap mempool'[m] # {}
               PROVE  c \in net[m] \cup appended[m]
                        \/ (c.col > 0 /\ c \in appended[Leader(c.col, c.row)])
    BY <1>1, <1>2 DEF MempoolClean
  <2>1. pack \cap c.txs = {}
    BY DEF OnceInv, PacksNew
  <2>2. c.txs \cap mempool[m] # {}
    BY <1>1, <2>1
  <2> QED
    BY <2>2 DEF OnceInv, MempoolClean
<1> QED
  BY <1>2, <1>3, <1>4, <1>5 DEF OnceInv

LEMMA OnceSend ==
  ASSUME PacksInTime, Disjoint, OnceInv, NEW pack \in Packs, SendTransactionPack(pack), TimelyInv'
  PROVE  OnceInv'
<1>1. /\ UNCHANGED <<net, blockchain, mempool, absRound, plan, included, appended>>
      /\ BetweenSlots /\ pack \notin sent /\ sent' = sent \cup {pack} /\ sent \subseteq Packs
      /\ \A m \in Nodes : packs'[m] = packs[m] \cup {pack}
  BY DEF SendTransactionPack, OnceInv, TimelyInv, AlignInv, TypeInv, TypeOK
<1>2. Once' /\ OwnBranch' /\ SelectedFresh' /\ Chained' = Chained /\ BetweenSlots' = BetweenSlots
  <2>1. UNION sent \subseteq UNION sent'
    BY <1>1
  <2> QED
    BY <1>1, <2>1, SentSame
<1>3. PacksQuiet' /\ MempoolClean'
  BY <1>1, <1>2 DEF PacksQuiet, MempoolClean, OnceInv
<1>4. PacksNew'
  <2>1. ASSUME NEW c \in Chained PROVE pack \cap c.txs = {}
    <3>1. c.txs \subseteq UNION sent
      BY DEF OnceInv, PacksNew
    <3>2. \A p \in sent : pack \cap p = {}
      BY <1>1 DEF Disjoint
    <3> QED
      BY <3>1, <3>2
  <2>2. \A m \in Nodes : packs'[m] \subseteq sent'
    BY <1>1 DEF OnceInv, PacksNew
  <2>3. \A m \in Nodes : \A p \in packs'[m] : \A c \in Chained : p \cap c.txs = {}
    BY <1>1, <2>1 DEF OnceInv, PacksNew
  <2>4. UNION sent \subseteq UNION sent'
    BY <1>1
  <2> QED
    BY <1>1, <1>2, <2>2, <2>3, <2>4 DEF PacksNew, OnceInv
<1> QED
  BY <1>2, <1>3, <1>4 DEF OnceInv

LEMMA OnceStep ==
  ASSUME dagMaxDepth = 3, MaxLate = 0, PacksInTime, Disjoint, OnceInv, [Next]_vars
  PROVE  OnceInv'
<1>0. TimelyInv'
  BY TimelyStep DEF OnceInv
<1>1. CASE UNCHANGED vars
  <2>1. /\ UNCHANGED <<net, blockchain, absRound, plan, included, appended>>
        /\ UNCHANGED <<sent, packs, mempool>>
    BY <1>1 DEF vars
  <2>2. Once' /\ OwnBranch' /\ SelectedFresh' /\ Chained' = Chained /\ BetweenSlots' = BetweenSlots
    BY <2>1, SentSame
  <2> QED
    BY <1>0, <2>1, <2>2 DEF OnceInv, PacksQuiet, PacksNew, MempoolClean
<1>2. ASSUME NEW n \in Nodes, Continue(n) PROVE OnceInv'
  <2>1. CASE CreateBlock(n)
    BY <1>0, <2>1, OnceCreate
  <2>2. ASSUME NEW b \in appended[n], BroadcastBlock(n, b) \/ EndReceiveBlock(n, b) PROVE OnceInv'
    BY <1>0, <2>2, OnceRemove
  <2> QED
    BY <1>2, <2>1, <2>2 DEF Continue
<1>3. ASSUME NEW n \in Nodes, Begin(n) PROVE OnceInv'
  <2>1. CASE DecideActions(n)
    BY <1>0, <2>1, OnceDecide
  <2>2. CASE SelectTransactions(n)
    BY <1>0, <2>2, OnceSelect
  <2>3. ASSUME NEW b \in net[n], ReceiveBlock(n, b) PROVE OnceInv'
    BY <1>0, <2>3, OnceReceive
  <2>4. ASSUME NEW pack \in packs[n], GatherTransactionPack(n, pack) PROVE OnceInv'
    BY <1>0, <2>4, OnceGather
  <2> QED
    BY <1>3, <2>1, <2>2, <2>3, <2>4 DEF Begin
<1>4. ASSUME NEW pack \in Packs, SendTransactionPack(pack) PROVE OnceInv'
  BY <1>0, <1>4, OnceSend
<1> QED
  BY <1>1, <1>2, <1>3, <1>4 DEF Next

LEMMA OnceInit == Init => OnceInv
<1> SUFFICES ASSUME Init PROVE OnceInv
  OBVIOUS
<1>1. TimelyInv
  BY TimelyInit
<1>2. \A b \in Chained : b = Genesis
  <2>1. \A n \in Nodes : BlocksOf(n) = {Genesis}
    BY DEF Init, BlocksOf
  <2> QED
    BY <2>1, InChained
<1>3. Genesis.txs = {}
  BY DEF Genesis
<1>4. /\ \A n \in Nodes : packs[n] = {} /\ mempool[n] = {} /\ Selected(n) = {}
  BY DEF Init, Selected
<1> QED
  BY <1>1, <1>2, <1>3, <1>4
     DEF OnceInv, Once, PacksQuiet, PacksNew, MempoolClean, SelectedFresh, OwnBranch

(***************************************************************************)
(* When blocks and packs arrive before the next slot begins, no            *)
(* transaction is in two blocks of the DAG, although every node selects    *)
(* from a mempool of its own while blocks of the others are on their way:  *)
(* the branches of a column are disjoint, and the blocks of the columns    *)
(* before have been taken out of every mempool.  For any number of nodes,  *)
(* any leaders, and any packs that have no transaction in common.          *)
(***************************************************************************)
THEOREM EachTxOnce ==
  ASSUME dagMaxDepth = 3, MaxLate = 0, PacksInTime, Disjoint
  PROVE  Spec => []TxOnce
<1>1. OnceInv => TxOnce
  BY InChained DEF OnceInv, Once, TxOnce
<1>2. OnceInv /\ [Next]_vars => OnceInv'
  BY OnceStep
<1> QED
  BY <1>1, <1>2, OnceInit, PTL DEF Spec

-----------------------------------------------------------------------------
(* No transaction waits longer than the blocks can carry *)

InBlock(tx) == \E b \in Chained : tx \in b.txs

Full(b) == Cardinality(b.txs) = TxPerBlock

\* A transaction that is in no block is in every mempool, or its pack is on its way there
MempoolHolds ==
  \A n \in Nodes : \A tx \in UNION sent :
    tx \in mempool[n] \cup UNION packs[n] \/ InBlock(tx)

\* The loop over the mempool finds all that belong to the branch
AllSelected ==
  \A n \in Nodes : included[n] # <<>> =>
    \A tx \in UNION sent : doesTxBelongToIndex(tx[1], NextBlock(n).depth, NextBlock(n).row) =>
      tx \in Selected(n) \/ InBlock(tx)

\* A block leaves a transaction of its branch behind only when it has no room for it
BlocksFull ==
  \A b \in Chained : b.col > LastPack =>
    \A tx \in UNION sent : doesTxBelongToIndex(tx[1], b.depth, b.row) => Full(b) \/ InBlock(tx)

\* Since the last pack there has been such a block in each column
ColumnsFull ==
  \A n \in Nodes : \A tx \in UNION sent : InBlock(tx) \/
    \A col \in LastPack + 1 .. absRound[n] - 1 : \E b \in BlocksOf(n) : b.col = col /\ Full(b)

ServeInv == OnceInv /\ MempoolHolds /\ AllSelected /\ BlocksFull /\ ColumnsFull

\* The columns after the last pack have room for all transactions
EnoughRoom == IsFiniteSet(Txs) /\ Cardinality(Txs) <= (MaxCol - LastPack) * TxPerBlock

LEMMA LimitedFull ==
  ASSUME NEW S, IsFiniteSet(S), NEW txs \in Limited(S)
  PROVE  txs = S \/ Cardinality(txs) = TxPerBlock
<1>1. TxPerBlock \in Nat /\ Cardinality(S) \in Nat
  BY DagAssumption, FS_CardinalityType
<1>2. txs \in SUBSET S
  BY DEF Limited
<1>3. CASE Cardinality(S) > TxPerBlock
  BY <1>3 DEF Limited
<1>4. CASE ~(Cardinality(S) > TxPerBlock)
  <2>1. Cardinality(txs) = Cardinality(S)
    BY <1>4 DEF Limited
  <2> QED
    BY <1>2, <2>1, FS_Subset
<1> QED
  BY <1>3, <1>4

\* What is sent or in blocks stays there
LEMMA SentType ==
  ASSUME TypeOK
  PROVE  UNION sent \subseteq Txs
BY DEF TypeOK, Txs

LEMMA ServeCreate ==
  ASSUME IsFiniteSet(Txs), ServeInv, NEW n \in Nodes, CreateBlock(n), OnceInv'
  PROVE  ServeInv'
<1>1. UNCHANGED <<sent, packs, net, mempool, absRound>> /\ included[n] # <<>>
  BY DEF CreateBlock
<1>2. PICK b \in plan[n], f \in Block :
        /\ b = NextBlock(n) /\ f.txs \in Limited(included[n][1])
        /\ SameSlot(f, b) /\ Adds(n, f)
        /\ \A m \in Nodes : plan'[m] = IF m = n THEN plan[n] \ {b} ELSE plan[m]
  BY CreateEffect DEF ServeInv, OnceInv, TimelyInv, AlignInv
<1>3. \A m \in Nodes : included'[m] = IF m = n THEN <<>> ELSE included[m]
  BY DEF CreateBlock, ServeInv, OnceInv, TimelyInv, AlignInv, TypeInv, TypeOK
<1>4. \A m \in Nodes : BlocksOf(m)' = IF m = n THEN BlocksOf(n) \cup {f} ELSE BlocksOf(m)
  BY <1>2 DEF Adds
<1>5. \A c : c \in Chained' <=> c \in Chained \/ c = f
  <2>1. \A c : c \in Chained' <=> \E m \in Nodes : c \in BlocksOf(m)'
    BY DEF Chained
  <2> QED
    BY <1>4, <2>1, InChained
<1>6. \A tx : InBlock(tx) \/ tx \in f.txs => InBlock(tx)'
  BY <1>5 DEF InBlock
<1>7. MempoolHolds'
  BY <1>1, <1>6 DEF MempoolHolds, ServeInv
<1>8. AllSelected'
  <2> SUFFICES ASSUME NEW m \in Nodes, included'[m] # <<>>, NEW tx \in UNION sent,
                      doesTxBelongToIndex(tx[1], NextBlock(m)'.depth, NextBlock(m)'.row)
               PROVE  tx \in Selected(m)' \/ InBlock(tx)'
    BY <1>1 DEF AllSelected
  <2>1. m # n /\ included'[m] = included[m] /\ plan'[m] = plan[m]
    BY <1>2, <1>3
  <2>2. NextBlock(m)' = NextBlock(m) /\ Selected(m)' = Selected(m)
    BY <2>1 DEF NextBlock, Selected
  <2> QED
    BY <1>6, <2>1, <2>2 DEF AllSelected, ServeInv
<1>9. BlocksFull'
  <2> SUFFICES ASSUME NEW c \in Chained', c.col > LastPack, NEW tx \in UNION sent,
                      doesTxBelongToIndex(tx[1], c.depth, c.row)
               PROVE  Full(c) \/ InBlock(tx)'
    BY <1>1 DEF BlocksFull, Full
  <2>1. CASE c # f
    BY <1>5, <1>6, <2>1 DEF BlocksFull, ServeInv
  <2>2. CASE c = f
    <3>1. tx \in Selected(n) \/ InBlock(tx)
      BY <1>1, <1>2, <2>2 DEF AllSelected, ServeInv, SameSlot
    <3>2. included[n][1] = Selected(n) /\ Selected(n) \subseteq Txs
      BY <1>1, SelectedType DEF Selected, ServeInv, OnceInv, TimelyInv, AlignInv
    <3>3. IsFiniteSet(Selected(n))
      BY <3>2, FS_Subset
    <3>4. f.txs = Selected(n) \/ Full(f)
      BY <1>2, <3>2, <3>3, LimitedFull DEF Full
    <3> QED
      BY <1>6, <2>2, <3>1, <3>4
  <2> QED
    BY <2>1, <2>2
<1>10. ColumnsFull'
  BY <1>1, <1>4, <1>6 DEF ColumnsFull, ServeInv, Full
<1> QED
  BY <1>7, <1>8, <1>9, <1>10 DEF ServeInv

\* Steps that make no block and leave what is selected alone
LEMMA ServeSame ==
  ASSUME ServeInv, UNCHANGED <<sent, plan, included, absRound>>, Chained' = Chained,
         \A n \in Nodes : BlocksOf(n) \subseteq BlocksOf(n)'
  PROVE  AllSelected' /\ BlocksFull' /\ ColumnsFull'
<1>1. \A n \in Nodes : NextBlock(n)' = NextBlock(n) /\ Selected(n)' = Selected(n)
  BY DEF NextBlock, Selected
<1>2. \A tx : InBlock(tx)' <=> InBlock(tx)
  BY DEF InBlock
<1>3. AllSelected'
  BY <1>1, <1>2 DEF AllSelected, ServeInv
<1>4. BlocksFull'
  BY <1>2 DEF BlocksFull, ServeInv, Full
<1>5. ColumnsFull'
  BY <1>2 DEF ColumnsFull, ServeInv, Full
<1> QED
  BY <1>3, <1>4, <1>5

LEMMA ServeReceive ==
  ASSUME ServeInv, NEW n \in Nodes, NEW b \in net[n], ReceiveBlock(n, b), OnceInv'
  PROVE  ServeInv'
<1>1. UNCHANGED <<sent, packs, mempool, absRound, plan, included>>
  BY DEF ReceiveBlock
<1>2. \A m \in Nodes : BlocksOf(m)' = IF m = n THEN BlocksOf(n) \cup {b} ELSE BlocksOf(m)
  <2>1. Adds(n, b)
    BY ReceiveEffect DEF ServeInv, OnceInv, TimelyInv, AlignInv
  <2> QED
    BY <2>1 DEF Adds
<1>3. Chained' = Chained
  <2>1. PICK k \in Nodes : b \in BlocksOf(k)
    BY DEF ServeInv, OnceInv, TimelyInv, Everywhere
  <2>2. \A c : c \in Chained' <=> \E m \in Nodes : c \in BlocksOf(m)'
    BY DEF Chained
  <2>3. \A c : c \in Chained' <=> c \in Chained
    BY <1>2, <2>1, <2>2, InChained
  <2> QED
    BY <2>3
<1>4. AllSelected' /\ BlocksFull' /\ ColumnsFull'
  <2>1. \A m \in Nodes : BlocksOf(m) \subseteq BlocksOf(m)'
    BY <1>2
  <2> QED
    BY <1>1, <1>3, <2>1, ServeSame
<1>5. MempoolHolds'
  BY <1>1, <1>3 DEF MempoolHolds, ServeInv, InBlock
<1> QED
  BY <1>4, <1>5 DEF ServeInv

LEMMA ServeRemove ==
  ASSUME ServeInv, NEW n \in Nodes, NEW b \in appended[n], OnceInv',
         BroadcastBlock(n, b) \/ EndReceiveBlock(n, b)
  PROVE  ServeInv'
<1>1. UNCHANGED <<sent, packs, blockchain, absRound, plan, included>> /\ RemoveTransactions(n, b)
  BY DEF BroadcastBlock, EndReceiveBlock
<1>2. \A m \in Nodes : mempool'[m] = IF m = n THEN mempool[n] \ b.txs ELSE mempool[m]
  BY <1>1, RemoveEffect DEF ServeInv, OnceInv, TimelyInv, AlignInv
<1>3. Chained' = Chained /\ \A m \in Nodes : BlocksOf(m)' = BlocksOf(m)
  BY <1>1 DEF Chained, BlocksOf
<1>4. b \in Chained
  BY InChained DEF ServeInv, OnceInv, TimelyInv, Everywhere
<1>5. AllSelected' /\ BlocksFull' /\ ColumnsFull'
  BY <1>1, <1>3, ServeSame
<1>6. MempoolHolds'
  <2>1. \A tx \in b.txs : InBlock(tx)
    BY <1>4 DEF InBlock
  <2>2. \A tx : InBlock(tx)' <=> InBlock(tx)
    BY <1>3 DEF InBlock
  <2> QED
    BY <1>1, <1>2, <2>1, <2>2 DEF MempoolHolds, ServeInv
<1> QED
  BY <1>5, <1>6 DEF ServeInv

LEMMA ServeGather ==
  ASSUME ServeInv, NEW n \in Nodes, NEW pack \in packs[n], GatherTransactionPack(n, pack), OnceInv'
  PROVE  ServeInv'
<1>1. UNCHANGED <<sent, net, blockchain, absRound, plan, included, appended>>
  BY DEF GatherTransactionPack
<1>2. \A m \in Nodes : /\ mempool'[m] = IF m = n THEN mempool[n] \cup pack ELSE mempool[m]
                       /\ packs'[m] = IF m = n THEN packs[n] \ {pack} ELSE packs[m]
  <2>1. packs \in [Nodes -> SUBSET Packs] /\ mempool \in [Nodes -> SUBSET Txs]
    BY DEF ServeInv, OnceInv, TimelyInv, AlignInv, TypeInv, TypeOK
  <2> QED
    BY <2>1 DEF GatherTransactionPack
<1>3. Chained' = Chained /\ \A m \in Nodes : BlocksOf(m)' = BlocksOf(m)
  BY <1>1 DEF Chained, BlocksOf
<1>4. AllSelected' /\ BlocksFull' /\ ColumnsFull'
  BY <1>1, <1>3, ServeSame
<1>5. MempoolHolds'
  <2>1. \A tx : InBlock(tx)' <=> InBlock(tx)
    BY <1>3 DEF InBlock
  <2>2. \A m \in Nodes : mempool[m] \cup UNION packs[m] \subseteq mempool'[m] \cup UNION packs'[m]
    BY <1>2
  <2> QED
    BY <1>1, <2>1, <2>2 DEF MempoolHolds, ServeInv
<1> QED
  BY <1>4, <1>5 DEF ServeInv

LEMMA ServeDecide ==
  ASSUME dagMaxDepth = 3, MaxLate = 0, ServeInv, NEW n \in Nodes, DecideActions(n), OnceInv'
  PROVE  ServeInv'
<1> DEFINE col == absRound[n]
<1>1. UNCHANGED <<sent, packs, net, blockchain, mempool, included, appended>> /\ SlotBegins(n)
  BY DEF DecideActions
<1>2. col \in Nat /\ plan[n] = {} /\ included[n] = <<>>
  <2>1. col \in Nat
    BY ChainType DEF ServeInv, OnceInv, TimelyInv, AlignInv
  <2>2. plan[n] = {}
    BY <1>1, <2>1 DEF SlotBegins
  <2> QED
    BY <2>1, <2>2 DEF ServeInv, OnceInv, TimelyInv, AlignInv, TypeInv, Filling
<1>3. \A m \in Nodes : /\ absRound'[m] = IF m = n THEN col + 1 ELSE absRound[m]
                       /\ m # n => plan'[m] = plan[m]
  BY DEF DecideActions, ServeInv, OnceInv, TimelyInv, AlignInv, TypeInv, TypeOK
<1>4. Chained' = Chained /\ \A m \in Nodes : BlocksOf(m)' = BlocksOf(m)
  BY <1>1 DEF Chained, BlocksOf
<1>5. \A tx : InBlock(tx)' <=> InBlock(tx)
  BY <1>4 DEF InBlock
<1>6. MempoolHolds' /\ BlocksFull'
  BY <1>1, <1>4, <1>5 DEF MempoolHolds, BlocksFull, Full, ServeInv
<1>7. AllSelected'
  <2> SUFFICES ASSUME NEW m \in Nodes, included[m] # <<>>, NEW tx \in UNION sent,
                      doesTxBelongToIndex(tx[1], NextBlock(m)'.depth, NextBlock(m)'.row)
               PROVE  tx \in Selected(m)' \/ InBlock(tx)'
    BY <1>1 DEF AllSelected
  <2>1. m # n
    BY <1>2
  <2>2. NextBlock(m)' = NextBlock(m) /\ Selected(m)' = Selected(m)
    BY <1>1, <1>3, <2>1 DEF NextBlock, Selected
  <2> QED
    BY <1>5, <2>2 DEF AllSelected, ServeInv
\* The column of the slot that ends is a partition: one of its blocks is of the transaction's branch
<1>8. ASSUME NEW tx \in UNION sent, ~InBlock(tx), col > LastPack
      PROVE  \E b \in BlocksOf(n) : b.col = col /\ Full(b)
  <2>1. Partition(InColumn(blockchain[n], col))
    BY <1>1, PartitionBefore DEF ServeInv, OnceInv
  <2>2. tx[1] \in Hashes
    BY SentType, TxHash DEF ServeInv, OnceInv, TimelyInv, AlignInv, TypeInv
  <2>3. FirstRow(tx[1]) \in Rows
    BY <2>2, RowInside, EightRows
  <2>4. PICK b \in InColumn(blockchain[n], col) : Covers(b.row, b.depth, FirstRow(tx[1]))
    BY <2>1, <2>3 DEF Partition
  <2>5. b \in BlocksOf(n) /\ b.col = col
    BY <2>4, ColumnBlocks
  <2>6. b \in Block /\ Aligned(b) /\ b \in Chained
    <3>1. b \in Block
      BY <2>5, ChainType DEF ServeInv, OnceInv, TimelyInv, AlignInv
    <3>2. Aligned(b)
      BY <2>5 DEF ServeInv, OnceInv, TimelyInv, AlignInv, Known
    <3> QED
      BY <2>5, <3>1, <3>2, InChained
  <2>7. doesTxBelongToIndex(tx[1], b.depth, b.row)
    BY <2>2, <2>4, <2>6, BelongsCovers
  <2> QED
    BY <1>8, <2>5, <2>6, <2>7 DEF BlocksFull, ServeInv
<1>9. ColumnsFull'
  <2> SUFFICES ASSUME NEW m \in Nodes, NEW tx \in UNION sent, ~InBlock(tx),
                      NEW k \in LastPack + 1 .. absRound'[m] - 1
               PROVE  \E b \in BlocksOf(m) : b.col = k /\ Full(b)
    BY <1>1, <1>4, <1>5 DEF ColumnsFull, Full
  <2>1. LastPack \in Nat /\ absRound[m] \in Nat
    BY DagAssumption, ChainType DEF ServeInv, OnceInv, TimelyInv, AlignInv
  <2>2. CASE k \in LastPack + 1 .. absRound[m] - 1
    BY <2>2 DEF ColumnsFull, ServeInv
  <2>3. CASE k \notin LastPack + 1 .. absRound[m] - 1
    <3>1. m = n /\ k = col /\ col > LastPack
      BY <1>2, <1>3, <2>1, <2>3
    <3> QED
      BY <1>8, <3>1
  <2> QED
    BY <2>2, <2>3
<1> QED
  BY <1>6, <1>7, <1>9 DEF ServeInv

LEMMA ServeSelect ==
  ASSUME ServeInv, NEW n \in Nodes, SelectTransactions(n), OnceInv'
  PROVE  ServeInv'
<1>1. UNCHANGED <<sent, packs, net, blockchain, mempool, absRound, plan, appended>> /\ plan[n] # {}
  BY DEF SelectTransactions
<1>2. /\ \A tx \in mempool[n] :
           doesTxBelongToIndex(tx[1], NextBlock(n).depth, NextBlock(n).row) => tx \in Selected(n)'
      /\ \A m \in Nodes : m # n => included'[m] = included[m]
  <2> DEFINE found == {tx \in mempool[n] :
                         doesTxBelongToIndex(tx[1], NextBlock(n).depth, NextBlock(n).row)}
  <2>1. included' = [included EXCEPT ![n] = <<found>>]
    BY DEF SelectTransactions
  <2>2. included'[n] = <<found>> /\ \A m \in Nodes : m # n => included'[m] = included[m]
    BY <2>1 DEF ServeInv, OnceInv, TimelyInv, AlignInv, TypeInv, TypeOK
  <2>3. Selected(n)' = found
    <3> HIDE DEF found
    <3> QED
      BY <2>2 DEF Selected
  <2> QED
    BY <2>2, <2>3
<1>3. Chained' = Chained /\ \A m \in Nodes : BlocksOf(m)' = BlocksOf(m)
  BY <1>1 DEF Chained, BlocksOf
<1>4. \A tx : InBlock(tx)' <=> InBlock(tx)
  BY <1>3 DEF InBlock
<1>5. MempoolHolds' /\ BlocksFull' /\ ColumnsFull'
  BY <1>1, <1>3, <1>4 DEF MempoolHolds, BlocksFull, ColumnsFull, Full, ServeInv
<1>6. packs[n] = {}
  <2>1. ~BetweenSlots
    BY <1>1 DEF BetweenSlots
  <2> QED
    BY <2>1 DEF ServeInv, OnceInv, PacksQuiet
<1>7. AllSelected'
  <2> SUFFICES ASSUME NEW m \in Nodes, included'[m] # <<>>, NEW tx \in UNION sent,
                      doesTxBelongToIndex(tx[1], NextBlock(m).depth, NextBlock(m).row)
               PROVE  tx \in Selected(m)' \/ InBlock(tx)
    <3>1. \A m \in Nodes : NextBlock(m)' = NextBlock(m)
      BY <1>1 DEF NextBlock
    <3> QED
      BY <1>1, <1>4, <3>1 DEF AllSelected
  <2>1. CASE m = n
    <3>1. tx \in mempool[n] \/ InBlock(tx)
      BY <1>6 DEF MempoolHolds, ServeInv
    <3> QED
      BY <1>2, <2>1, <3>1
  <2>2. CASE m # n
    BY <1>2, <2>2 DEF AllSelected, ServeInv, Selected
  <2> QED
    BY <2>1, <2>2
<1> QED
  BY <1>5, <1>7 DEF ServeInv

\* Nothing is sent any more once a slot after LastPack has begun
LEMMA ServeSend ==
  ASSUME PacksInTime, ServeInv, NEW pack \in Packs, SendTransactionPack(pack), OnceInv'
  PROVE  ServeInv'
<1>1. /\ UNCHANGED <<net, blockchain, mempool, absRound, plan, included, appended>>
      /\ BetweenSlots /\ sent' = sent \cup {pack}
      /\ \A m \in Nodes : packs'[m] = packs[m] \cup {pack}
      /\ \E n \in Nodes : absRound[n] <= LastPack
  BY DEF SendTransactionPack
<1>2. \A m \in Nodes : absRound[m] \in Nat /\ absRound[m] <= LastPack /\ included[m] = <<>>
  <2>1. \A m \in Nodes : absRound[m] \in Nat
    BY ChainType DEF ServeInv, OnceInv, TimelyInv, AlignInv
  <2>2. \A m \in Nodes : plan[m] = {}
    BY <1>1 DEF BetweenSlots
  <2>3. \A m \in Nodes : included[m] = <<>>
    BY <2>2 DEF ServeInv, OnceInv, TimelyInv, AlignInv, TypeInv, Filling
  <2> QED
    BY <1>1, <2>1, <2>3 DEF BetweenSlots
<1>3. LastPack \in Nat
  BY DagAssumption
<1>4. Chained' = Chained
  BY <1>1 DEF Chained, BlocksOf
<1>5. \A b \in Chained : ~(b.col > LastPack)
  <2> SUFFICES ASSUME NEW b \in Chained PROVE ~(b.col > LastPack)
    OBVIOUS
  <2>1. PICK m \in Nodes : b \in BlocksOf(m)
    BY InChained
  <2>2. /\ b.col \in Nat
        /\ b.col = 0 \/ (/\ Leader(b.col, b.row) \in Nodes
                         /\ b.col <= absRound[Leader(b.col, b.row)])
    BY <2>1, LastColumn DEF ServeInv, OnceInv
  <2> QED
    BY <1>2, <1>3, <2>2
<1>6. BlocksFull' /\ AllSelected'
  BY <1>1, <1>2, <1>4, <1>5 DEF BlocksFull, AllSelected
<1>7. ColumnsFull'
  <2>1. \A m \in Nodes : \A k \in LastPack + 1 .. absRound[m] - 1 : FALSE
    BY <1>2, <1>3
  <2> QED
    BY <1>1, <2>1 DEF ColumnsFull
<1>8. MempoolHolds'
  <2> SUFFICES ASSUME NEW m \in Nodes, NEW tx \in UNION sent'
               PROVE  tx \in mempool[m] \cup UNION packs'[m] \/ InBlock(tx)
    BY <1>1, <1>4 DEF MempoolHolds, InBlock
  <2>1. CASE tx \in pack
    BY <1>1, <2>1
  <2>2. CASE tx \in UNION sent
    BY <1>1, <2>2 DEF MempoolHolds, ServeInv
  <2> QED
    BY <1>1, <2>1, <2>2
<1> QED
  BY <1>6, <1>7, <1>8 DEF ServeInv

LEMMA ServeStep ==
  ASSUME dagMaxDepth = 3, MaxLate = 0, PacksInTime, Disjoint, IsFiniteSet(Txs),
         ServeInv, [Next]_vars
  PROVE  ServeInv'
<1>0. OnceInv'
  BY OnceStep DEF ServeInv
<1>1. CASE UNCHANGED vars
  <2>1. UNCHANGED <<sent, plan, included, absRound, packs, mempool, blockchain>>
    BY <1>1 DEF vars
  <2>2. Chained' = Chained /\ \A n \in Nodes : BlocksOf(n)' = BlocksOf(n)
    BY <2>1 DEF Chained, BlocksOf
  <2>3. AllSelected' /\ BlocksFull' /\ ColumnsFull'
    BY <2>1, <2>2, ServeSame
  <2>4. MempoolHolds'
    BY <2>1, <2>2 DEF MempoolHolds, InBlock, ServeInv
  <2> QED
    BY <1>0, <2>3, <2>4 DEF ServeInv
<1>2. ASSUME NEW n \in Nodes, Continue(n) PROVE ServeInv'
  <2>1. CASE CreateBlock(n)
    BY <1>0, <2>1, ServeCreate
  <2>2. ASSUME NEW b \in appended[n], BroadcastBlock(n, b) \/ EndReceiveBlock(n, b) PROVE ServeInv'
    BY <1>0, <2>2, ServeRemove
  <2> QED
    BY <1>2, <2>1, <2>2 DEF Continue
<1>3. ASSUME NEW n \in Nodes, Begin(n) PROVE ServeInv'
  <2>1. CASE DecideActions(n)
    BY <1>0, <2>1, ServeDecide
  <2>2. CASE SelectTransactions(n)
    BY <1>0, <2>2, ServeSelect
  <2>3. ASSUME NEW b \in net[n], ReceiveBlock(n, b) PROVE ServeInv'
    BY <1>0, <2>3, ServeReceive
  <2>4. ASSUME NEW pack \in packs[n], GatherTransactionPack(n, pack) PROVE ServeInv'
    BY <1>0, <2>4, ServeGather
  <2> QED
    BY <1>3, <2>1, <2>2, <2>3, <2>4 DEF Begin
<1>4. ASSUME NEW pack \in Packs, SendTransactionPack(pack) PROVE ServeInv'
  BY <1>0, <1>4, ServeSend
<1> QED
  BY <1>1, <1>2, <1>3, <1>4 DEF Next

LEMMA ServeInit == Init => ServeInv
<1> SUFFICES ASSUME Init PROVE ServeInv
  OBVIOUS
<1>1. OnceInv
  BY OnceInit
<1>2. sent = {} /\ \A n \in Nodes : included[n] = <<>>
  BY DEF Init
<1> QED
  BY <1>1, <1>2 DEF ServeInv, MempoolHolds, AllSelected, BlocksFull, ColumnsFull

\* As many disjoint subsets of the same size as a set has room for
LEMMA DisjointParts ==
  ASSUME NEW C \in Nat, NEW K \in Nat, NEW S, IsFiniteSet(S), NEW f \in [1 .. C -> SUBSET S],
         \A i \in 1 .. C : Cardinality(f[i]) = K,
         \A i, j \in 1 .. C : i # j => f[i] \cap f[j] = {}
  PROVE  C * K <= Cardinality(S)
<1> DEFINE G == {k \in 0 .. C : \E U \in SUBSET S :
                   Cardinality(U) = k * K /\ \A x \in U : \E i \in 1 .. k : x \in f[i]}
<1>1. 0 \in G
  <2>1. Cardinality({}) = 0 /\ 0 * K = 0
    BY FS_EmptySet
  <2> QED
    BY <2>1
<1>2. ASSUME NEW k \in 0 .. C - 1, k \in G PROVE k + 1 \in G
  <2>1. PICK U \in SUBSET S : Cardinality(U) = k * K /\ \A x \in U : \E i \in 1 .. k : x \in f[i]
    BY <1>2
  <2>2. k + 1 \in 1 .. C /\ f[k + 1] \in SUBSET S
    OBVIOUS
  <2> DEFINE V == U \cup f[k + 1]
  <2>3. U \cap f[k + 1] = {}
    <3>1. \A i \in 1 .. k : f[i] \cap f[k + 1] = {}
      BY <2>2
    <3> QED
      BY <2>1, <3>1
  <2>4. IsFiniteSet(U) /\ IsFiniteSet(f[k + 1])
    BY <2>2, FS_Subset
  <2>5. Cardinality(V) = k * K + K
    <3>1. Cardinality(V) = Cardinality(U) + Cardinality(f[k + 1]) - Cardinality(U \cap f[k + 1])
      BY <2>4, FS_Union
    <3>2. Cardinality(U \cap f[k + 1]) = 0
      BY <2>3, FS_EmptySet
    <3>3. k * K \in Nat
      OBVIOUS
    <3>4. Cardinality(U) = k * K /\ Cardinality(f[k + 1]) = K
      BY <2>1, <2>2
    <3> HIDE DEF V
    <3> QED
      BY <3>1, <3>2, <3>3, <3>4
  <2>6. k * K + K = (k + 1) * K
    OBVIOUS
  <2>7. \A x \in V : \E i \in 1 .. k + 1 : x \in f[i]
    BY <2>1, <2>2
  <2>8. V \in SUBSET S
    BY <2>2
  <2> HIDE DEF V
  <2> QED
    BY <2>2, <2>5, <2>6, <2>7, <2>8
<1> HIDE DEF G
<1>3. C \in G
  <2>1. \A k \in 0 .. C - 1 : k \in G => k + 1 \in G
    BY <1>2
  <2>2. \A k \in 0 .. C : k \in G
    BY <1>1, <2>1, UpTo
  <2> QED
    BY <2>2
<1>4. PICK U \in SUBSET S : Cardinality(U) = C * K
  BY <1>3 DEF G
<1>5. Cardinality(U) <= Cardinality(S)
  BY FS_Subset
<1> QED
  BY <1>4, <1>5

LEMMA AllServed ==
  ASSUME dagMaxDepth = 3, EnoughRoom, ServeInv
  PROVE  EveryTxIncluded
<1> SUFFICES ASSUME BetweenSlots, \A n \in Nodes : absRound[n] = MaxCol, NEW n \in Nodes,
                    NEW tx \in UNION sent, \A b \in BlocksOf(n) : tx \notin b.txs
             PROVE  FALSE
  BY DEF EveryTxIncluded
<1>1. LastPack \in Nat /\ MaxCol \in Nat /\ TxPerBlock \in Nat /\ TxPerBlock # 0
  BY DagAssumption
<1>2. tx \in Txs /\ tx[1] \in Hashes
  BY SentType, TxHash DEF ServeInv, OnceInv, TimelyInv, AlignInv, TypeInv
<1>3. \A b \in Chained : b \in BlocksOf(n)
  <2> SUFFICES ASSUME NEW m \in Nodes, NEW b \in BlocksOf(m) PROVE b \in BlocksOf(n)
    BY InChained
  <2>1. b.col > 0 => Leader(b.col, b.row) \in Nodes
    BY LastColumn DEF ServeInv, OnceInv
  <2> QED
    BY <2>1 DEF ServeInv, OnceInv, TimelyInv, Everywhere, BetweenSlots
<1>4. ~InBlock(tx)
  BY <1>3 DEF InBlock
<1>5. ASSUME NEW k \in LastPack + 1 .. MaxCol
      PROVE  \E b \in BlocksOf(n) : b.col = k /\ Full(b)
  <2>1. CASE k < MaxCol
    <3>1. k \in LastPack + 1 .. absRound[n] - 1
      BY <1>1, <2>1
    <3> QED
      BY <1>4, <3>1 DEF ColumnsFull, ServeInv
  <2>2. CASE k = MaxCol
    <3>1. PICK b \in InColumn(blockchain[n], k) : Covers(b.row, b.depth, FirstRow(tx[1]))
      <4>1. Partition(InColumn(blockchain[n], absRound[n]))
        BY ColumnComplete DEF ServeInv, OnceInv
      <4>2. FirstRow(tx[1]) \in Rows
        BY <1>2, RowInside, EightRows
      <4> QED
        BY <2>2, <4>1, <4>2 DEF Partition
    <3>2. b \in BlocksOf(n) /\ b.col = k /\ b \in Chained
      BY <3>1, ColumnBlocks, InChained
    <3>3. b \in Block
      BY <3>2, ChainType DEF ServeInv, OnceInv, TimelyInv, AlignInv
    <3>4. Aligned(b)
      BY <3>2 DEF ServeInv, OnceInv, TimelyInv, AlignInv, Known
    <3>5. doesTxBelongToIndex(tx[1], b.depth, b.row)
      BY <1>2, <3>1, <3>3, <3>4, BelongsCovers
    <3>6. b.col > LastPack
      BY <1>1, <3>2
    <3> QED
      BY <1>4, <3>2, <3>5, <3>6 DEF BlocksFull, ServeInv
  <2> QED
    BY <1>1, <2>1, <2>2
<1> DEFINE C == MaxCol - LastPack
           S == Txs \ {tx}
           B(i) == CHOOSE b \in BlocksOf(n) : b.col = LastPack + i /\ Full(b)
           f == [i \in 1 .. C |-> B(i).txs]
<1>6. \A i \in 1 .. C : B(i) \in BlocksOf(n) /\ B(i).col = LastPack + i /\ Full(B(i))
  <2> TAKE i \in 1 .. C
  <2>1. LastPack + i \in LastPack + 1 .. MaxCol
    BY <1>1
  <2>2. \E b \in BlocksOf(n) : b.col = LastPack + i /\ Full(b)
    BY <1>5, <2>1
  <2> QED
    BY <2>2
<1> HIDE DEF B
<1>7. f \in [1 .. C -> SUBSET S]
  <2>1. \A b \in BlocksOf(n) : b.txs \in SUBSET Txs /\ tx \notin b.txs
    <3>1. BlocksOf(n) \subseteq Block
      BY ChainType DEF ServeInv, OnceInv, TimelyInv, AlignInv
    <3> QED
      BY <3>1 DEF Block
  <2> QED
    BY <1>6, <2>1
<1>8. \A i \in 1 .. C : Cardinality(f[i]) = TxPerBlock
  BY <1>6 DEF Full
<1>9. \A i, j \in 1 .. C : i # j => f[i] \cap f[j] = {}
  <2> SUFFICES ASSUME NEW i \in 1 .. C, NEW j \in 1 .. C, i # j, B(i).txs \cap B(j).txs # {}
               PROVE  FALSE
    OBVIOUS
  <2>1. B(i) = B(j)
    BY <1>6, InChained DEF ServeInv, OnceInv, Once
  <2>2. LastPack + i = LastPack + j
    BY <1>6, <2>1
  <2> QED
    BY <1>1, <2>2
<1> HIDE DEF f
<1>10. IsFiniteSet(S) /\ Cardinality(S) = Cardinality(Txs) - 1
  BY <1>2, FS_RemoveElement DEF EnoughRoom
<1>11. Cardinality(Txs) \in Nat /\ Cardinality(Txs) <= C * TxPerBlock
  BY FS_CardinalityType DEF EnoughRoom
<1>12. Cardinality(S) \in Nat /\ C \in Int
  BY <1>1, <1>10, FS_CardinalityType
<1> HIDE DEF S, C
<1>13. CASE C \in Nat
  <2>1. C * TxPerBlock <= Cardinality(S)
    BY <1>1, <1>7, <1>8, <1>9, <1>10, <1>13, DisjointParts
  <2>2. C * TxPerBlock \in Int
    BY <1>1, <1>13
  <2> QED
    BY <1>10, <1>11, <1>12, <2>1, <2>2
<1>14. CASE C < 0
  <2> DEFINE D == 0 - C
  <2>1. D \in Nat /\ C = 0 - D
    BY <1>12, <1>14
  <2> HIDE DEF D
  <2>2. D * TxPerBlock \in Nat
    BY <1>1, <2>1
  <2>3. (0 - D) * TxPerBlock = 0 - D * TxPerBlock
    BY <1>1, <2>1
  <2>4. C * TxPerBlock <= 0
    BY <2>1, <2>2, <2>3
  <2>5. C * TxPerBlock \in Int
    BY <2>1, <2>2, <2>3
  <2> QED
    BY <1>10, <1>11, <1>12, <2>4, <2>5
<1> QED
  BY <1>12, <1>13, <1>14

(***************************************************************************)
(* When blocks and packs arrive before the next slot begins, no            *)
(* transaction is starved, however its branch splits and merges while it   *)
(* waits: if the columns after the last pack have room for as many         *)
(* transactions as there are, with TxPerBlock in each, all are in blocks   *)
(* by the last column.  A block passes a transaction of its branch over    *)
(* only when it is full, so that a transaction that is left over has met a *)
(* full block in every column, and no two of them share a transaction.     *)
(***************************************************************************)
THEOREM EveryTxServed ==
  ASSUME dagMaxDepth = 3, MaxLate = 0, PacksInTime, Disjoint, EnoughRoom
  PROVE  Spec => []EveryTxIncluded
<1>1. ServeInv => EveryTxIncluded
  BY AllServed
<1>2. ServeInv /\ [Next]_vars => ServeInv'
  BY ServeStep DEF EnoughRoom
<1> QED
  BY <1>1, <1>2, ServeInit, PTL DEF Spec
=============================================================================
