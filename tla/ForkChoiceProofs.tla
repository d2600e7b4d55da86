-------------------------- MODULE ForkChoiceProofs --------------------------
(***************************************************************************)
(* Proofs about ForkChoice, for every tree of blocks, every set of peers   *)
(* and every value of the times:                                           *)
(*                                                                         *)
(*   TypesHold        the types of the variables                           *)
(*   EqualSwitches    two heads of the same weight are swapped for a       *)
(*                    richer miner only                                    *)
(*   UnvotedSwitches  a session that was not voted for drops no more than  *)
(*                    a young head                                         *)
(*                                                                         *)
(* IInv is the inductive invariant.  It says of every entry that waits and *)
(* of the session under way what the clock allows it to be.                *)
(***************************************************************************)
EXTENDS ForkChoice, Induction

(***************************************************************************)
(* The tree of blocks                                                      *)
(***************************************************************************)
LEMMA TreeUnfold ==
  /\ ChainOf[Genesis] = {Genesis}
  /\ \A b \in Block \ {Genesis} : ChainOf[b] = {b} \union ChainOf[Parent[b]]
<1> DEFINE Closed(S) == \A c \in S \ {Genesis} : Parent[c] \in S
           Ancestors(b) == {a \in Block : \A S \in SUBSET Block : b \in S /\ Closed(S) => a \in S}
           f == [b \in Block |-> Ancestors(b)]
<1>1. Ancestors(Genesis) = {Genesis}
  <2>1. {Genesis} \in SUBSET Block /\ Closed({Genesis})
    BY ForkChoiceAssumption
  <2> QED BY <2>1
<1>2. ASSUME NEW b \in Block \ {Genesis}
      PROVE  Ancestors(b) = {b} \union Ancestors(Parent[b])
  <2>1. Parent[b] \in Block
    BY ForkChoiceAssumption
  <2>2. ASSUME NEW a \in Ancestors(b), a # b
        PROVE  a \in Ancestors(Parent[b])
    <3> SUFFICES ASSUME NEW S \in SUBSET Block, Parent[b] \in S, Closed(S)
                 PROVE  a \in S
      OBVIOUS
    <3>1. Closed(S \union {b}) /\ S \union {b} \in SUBSET Block
      OBVIOUS
    <3> QED BY <2>2, <3>1
  <2>3. ASSUME NEW a \in Ancestors(Parent[b])
        PROVE  a \in Ancestors(b)
    BY <2>1
  <2> QED BY <2>2, <2>3
<1>3. f = [b \in Block |-> IF b = Genesis THEN {b} ELSE {b} \union f[Parent[b]]]
  <2>1. ASSUME NEW b \in Block
        PROVE  f[b] = IF b = Genesis THEN {b} ELSE {b} \union f[Parent[b]]
    <3>1. CASE b = Genesis
      BY <1>1, <3>1
    <3>2. CASE b # Genesis
      <4>1. Parent[b] \in Block
        BY <3>2, ForkChoiceAssumption
      <4> QED BY <1>2, <3>2, <4>1
    <3> QED BY <3>1, <3>2
  <2> HIDE DEF Ancestors
  <2> QED BY <2>1
<1>4. ChainOf = [b \in Block |-> IF b = Genesis THEN {b} ELSE {b} \union ChainOf[Parent[b]]]
  <2> HIDE DEF f
  <2> QED BY <1>3 DEF ChainOf
<1> QED BY <1>4, ForkChoiceAssumption

\* A block's height is one above that of its parent.
Height == CHOOSE height \in [Block -> 0..Cardinality(Block)] :
            /\ height[Genesis] = 0
            /\ \A b \in Block \ {Genesis} : height[b] = height[Parent[b]] + 1

\* Heights grow by one from a parent to its child.
LEMMA HeightOfParent ==
  /\ Height \in [Block -> Nat]
  /\ Height[Genesis] = 0
  /\ \A b \in Block \ {Genesis} : Parent[b] \in Block /\ Height[b] = Height[Parent[b]] + 1
<1>1. /\ Height \in [Block -> 0..Cardinality(Block)]
      /\ Height[Genesis] = 0
      /\ \A b \in Block \ {Genesis} : Height[b] = Height[Parent[b]] + 1
  BY TreeAssumption DEF Height
<1>2. Cardinality(Block) \in Nat
  BY FS_CardinalityType, ForkChoiceAssumption
<1> QED BY <1>1, <1>2, ForkChoiceAssumption

\* Induction up the tree of blocks.
LEMMA BlockInduction ==
  ASSUME NEW S \in SUBSET Block, Genesis \in S,
         \A b \in Block \ {Genesis} : Parent[b] \in S => b \in S
  PROVE  S = Block
<1> DEFINE T == {n \in Nat : \A b \in Block : Height[b] = n => b \in S}
<1>1. 0 \in T
  <2> SUFFICES ASSUME NEW b \in Block, Height[b] = 0, b # Genesis
               PROVE  FALSE
    OBVIOUS
  <2> QED BY HeightOfParent
<1>2. \A n \in T : n + 1 \in T
  <2> SUFFICES ASSUME NEW n \in T, NEW b \in Block, Height[b] = n + 1
               PROVE  b \in S
    OBVIOUS
  <2>1. CASE b = Genesis
    BY <2>1
  <2>2. CASE b # Genesis
    BY <2>2, HeightOfParent
  <2> QED BY <2>1, <2>2
<1>3. T = Nat
  <2> HIDE DEF T
  <2>1. T \in SUBSET Nat
    BY DEF T
  <2> QED BY <1>1, <1>2, <2>1, InductionOnSet
<1> QED BY <1>3, HeightOfParent

\* Chains are finite, end in their block and begin in the genesis block.
LEMMA ChainType ==
  \A b \in Block : /\ ChainOf[b] \in SUBSET Block
                   /\ IsFiniteSet(ChainOf[b])
                   /\ b \in ChainOf[b] /\ Genesis \in ChainOf[b]
<1> DEFINE S == {b \in Block : /\ ChainOf[b] \in SUBSET Block
                               /\ b \in ChainOf[b] /\ Genesis \in ChainOf[b]}
<1>1. Genesis \in S
  BY TreeUnfold, ForkChoiceAssumption
<1>2. \A b \in Block \ {Genesis} : Parent[b] \in S => b \in S
  BY TreeUnfold
<1>3. S = Block
  <2> HIDE DEF S
  <2>1. S \in SUBSET Block
    BY DEF S
  <2> QED BY <1>1, <1>2, <2>1, BlockInduction
<1> QED BY <1>3, FS_Subset, ForkChoiceAssumption

\* The ancestors of a block are below it.
LEMMA ChainHeights ==
  \A b \in Block : \A a \in ChainOf[b] : /\ Height[a] <= Height[b]
                                         /\ Height[a] = Height[b] => a = b
<1> DEFINE Below(b) == \A a \in ChainOf[b] : a = b \/ Height[a] < Height[b]
           S == {b \in Block : Below(b)}
<1>1. Genesis \in S
  BY TreeUnfold, HeightOfParent, ForkChoiceAssumption
<1>2. ASSUME NEW b \in Block \ {Genesis}, Parent[b] \in S
      PROVE  b \in S
  <2> SUFFICES ASSUME NEW a \in ChainOf[b], a # b
               PROVE  Height[a] < Height[b]
    OBVIOUS
  <2>1. a \in ChainOf[Parent[b]] /\ Parent[b] \in Block
    BY TreeUnfold, HeightOfParent
  <2>2. a = Parent[b] \/ Height[a] < Height[Parent[b]]
    <3>1. Below(Parent[b])
      BY <1>2
    <3> QED BY <2>1, <3>1
  <2>3. Height[a] \in Nat /\ Height[Parent[b]] \in Nat /\ Height[b] = Height[Parent[b]] + 1
    BY <2>1, ChainType, HeightOfParent
  <2> QED BY <2>2, <2>3
<1>3. S = Block
  <2> HIDE DEF S
  <2>1. S \in SUBSET Block
    BY DEF S
  <2> QED BY <1>1, <1>2, <2>1, BlockInduction
<1> QED
  <2> TAKE b \in Block
  <2>1. Below(b)
    <3> HIDE DEF Below
    <3> QED BY <1>3
  <2> TAKE a \in ChainOf[b]
  <2>2. Height[a] \in Nat /\ Height[b] \in Nat
    BY ChainType, HeightOfParent
  <2> QED BY <2>1, <2>2

\* The number of a block is one above its parent's.
LEMMA NumberOfParent ==
  /\ NumberOf \in [Block -> Nat]
  /\ NumberOf[Genesis] = 0
  /\ \A b \in Block \ {Genesis} : Parent[b] \in Block /\ NumberOf[b] = NumberOf[Parent[b]] + 1
  /\ \A b \in Block : NumberOf[b] = Height[b]
<1> DEFINE S == {b \in Block : Cardinality(ChainOf[b]) = Height[b] + 1}
<1>1. Genesis \in S
  BY TreeUnfold, HeightOfParent, FS_Singleton, ForkChoiceAssumption
<1>2. ASSUME NEW b \in Block \ {Genesis}, Parent[b] \in S
      PROVE  b \in S
  <2>1. ChainOf[b] = ChainOf[Parent[b]] \union {b} /\ Parent[b] \in Block
    BY TreeUnfold, HeightOfParent
  <2>2. b \notin ChainOf[Parent[b]]
    BY <2>1, ChainHeights, HeightOfParent
  <2>3. Cardinality(ChainOf[b]) = Cardinality(ChainOf[Parent[b]]) + 1
    BY <2>1, <2>2, ChainType, FS_AddElement
  <2> QED BY <1>2, <2>1, <2>3, HeightOfParent
<1>3. S = Block
  <2> HIDE DEF S
  <2>1. S \in SUBSET Block
    BY DEF S
  <2> QED BY <1>1, <1>2, <2>1, BlockInduction
<1>4. \A b \in Block : NumberOf[b] = Height[b]
  <2> TAKE b \in Block
  <2>1. Cardinality(ChainOf[b]) = Height[b] + 1 /\ Height[b] \in Nat
    BY <1>3, HeightOfParent
  <2> QED BY <2>1 DEF NumberOf
<1>5. NumberOf \in [Block -> Nat]
  BY <1>4, HeightOfParent DEF NumberOf
<1> QED BY <1>4, <1>5, HeightOfParent, ForkChoiceAssumption

\* On the chain of a block the blocks are in the order of their numbers, one for each.
LEMMA ChainOrder ==
  ASSUME NEW b \in Block
  PROVE  /\ \A a \in ChainOf[b] : ChainOf[a] \subseteq ChainOf[b]
         /\ \A a \in ChainOf[b] : NumberOf[a] <= NumberOf[b]
         /\ \A a, c \in ChainOf[b] : NumberOf[c] <= NumberOf[a] => c \in ChainOf[a]
         /\ \A a, c \in ChainOf[b] : NumberOf[c] = NumberOf[a] => c = a
         /\ \A n \in 0..NumberOf[b] : \E a \in ChainOf[b] : NumberOf[a] = n
<1> DEFINE S == {e \in Block : /\ \A a \in ChainOf[e] : ChainOf[a] \subseteq ChainOf[e]
                               /\ \A a, c \in ChainOf[e] : NumberOf[c] <= NumberOf[a] => c \in ChainOf[a]
                               /\ \A n \in 0..NumberOf[e] : \E a \in ChainOf[e] : NumberOf[a] = n}
<1>1. Genesis \in S
  BY TreeUnfold, NumberOfParent, ForkChoiceAssumption
<1>2. ASSUME NEW e \in Block \ {Genesis}, Parent[e] \in S
      PROVE  e \in S
  <2>1. /\ Parent[e] \in Block /\ e \in Block
        /\ ChainOf[e] = {e} \union ChainOf[Parent[e]]
        /\ NumberOf[e] = NumberOf[Parent[e]] + 1
        /\ \A a \in ChainOf[e] : a \in Block /\ NumberOf[a] \in Nat
        /\ NumberOf[Parent[e]] \in Nat
    BY TreeUnfold, NumberOfParent, ChainType
  <2>2. \A a \in ChainOf[e] : ChainOf[a] \subseteq ChainOf[e]
    BY <1>2, <2>1
  <2>3. ASSUME NEW a \in ChainOf[e], NEW d \in ChainOf[e], NumberOf[d] <= NumberOf[a]
        PROVE  d \in ChainOf[a]
    <3>1. CASE a = e
      BY <2>3, <3>1
    <3>2. CASE a # e
      <4>1. a \in ChainOf[Parent[e]] /\ NumberOf[a] <= NumberOf[Parent[e]]
        BY <2>1, <3>2, ChainHeights, NumberOfParent
      <4>2. d \in ChainOf[Parent[e]]
        BY <2>1, <2>3, <4>1
      <4> QED BY <1>2, <2>3, <4>1, <4>2
    <3> QED BY <3>1, <3>2
  <2>4. ASSUME NEW n \in 0..NumberOf[e]
        PROVE  \E a \in ChainOf[e] : NumberOf[a] = n
    <3>1. CASE n = NumberOf[e]
      BY <2>1, <3>1
    <3>2. CASE n # NumberOf[e]
      <4>1. n \in 0..NumberOf[Parent[e]]
        BY <2>1, <3>2
      <4> QED BY <1>2, <2>1, <4>1
    <3> QED BY <3>1, <3>2
  <2> QED BY <2>1, <2>2, <2>3, <2>4
<1>3. S = Block
  <2> HIDE DEF S
  <2>1. S \in SUBSET Block
    BY DEF S
  <2> QED BY <1>1, <1>2, <2>1, BlockInduction
<1>4. \A a \in ChainOf[b] : NumberOf[a] <= NumberOf[b]
  BY ChainHeights, ChainType, NumberOfParent
<1>5. \A a, c \in ChainOf[b] : NumberOf[c] = NumberOf[a] => c = a
  <2> TAKE a, c \in ChainOf[b]
  <2> SUFFICES ASSUME NumberOf[c] = NumberOf[a]
               PROVE  c = a
    OBVIOUS
  <2>1. a \in Block /\ c \in Block /\ NumberOf[a] \in Nat
    BY ChainType, NumberOfParent
  <2>2. c \in ChainOf[a]
    BY <1>3, <2>1
  <2> QED BY <2>1, <2>2, ChainHeights, NumberOfParent
<1> QED BY <1>3, <1>4, <1>5
(***************************************************************************)
(* The sum of a chain                                                      *)
(***************************************************************************)
LEMMA SumType == SumOf \in [Block -> Nat]
<1> SUFFICES ASSUME NEW b \in Block
             PROVE  MapThenSumSet(LAMBDA a : Delta[a], ChainOf[b]) \in Nat
  BY DEF SumOf
<1>1. IsFiniteSet(ChainOf[b]) /\ \A a \in ChainOf[b] : Delta[a] \in Nat
  BY ChainType, ForkChoiceAssumption
<1>2. SumOver(Delta, ChainOf[b]) \in Nat
  BY <1>1, SumOfNumbers
<1> QED BY <1>2 DEF SumOver
(***************************************************************************)
(* The scan of the responses                                               *)
(***************************************************************************)
ResponseType == responses \in [Peer -> [own : Block, promised : Block] \union {None}]

\* Nobody was chosen yet, or somebody whose head is another block, not below ours.
ScanType ==
  {r \in [peer : Peer \union {None}, block : Block, sum : Nat, requested : SUBSET Block] :
     /\ NumberOf[head] <= NumberOf[r.block]
     /\ IF r.peer = None THEN r.block = head /\ r.sum = 0 ELSE r.block # head}

\* Looking at one more answer keeps the type of the scan.
LEMMA LookAtType ==
  ASSUME head \in Block, ResponseType, NEW r \in ScanType, NEW p \in Peer
  PROVE  LookAt(r, p) \in ScanType
<1> DEFINE b == responses[p].own
<1>1. CASE responses[p] = None
  BY <1>1 DEF LookAt
<1>2. CASE responses[p] # None
  <2>1. b \in Block /\ SumOf[b] \in Nat /\ NumberOf[b] \in Nat
        /\ NumberOf[head] \in Nat /\ NumberOf[r.block] \in Nat
    BY <1>2, SumType, NumberOfParent DEF ResponseType, ScanType
  <2>2. \/ LookAt(r, p) = r
        \/ LookAt(r, p) = [r EXCEPT !.requested = @ \union {b}]
        \/ /\ b # head /\ NumberOf[r.block] <= NumberOf[b]
           /\ LookAt(r, p) = [r EXCEPT !.peer = p, !.block = b, !.sum = SumOf[b]]
    BY <1>2 DEF LookAt
  <2>3. CASE LookAt(r, p) = [r EXCEPT !.requested = @ \union {b}]
    BY <2>1, <2>3 DEF ScanType
  <2>4. CASE /\ b # head /\ NumberOf[r.block] <= NumberOf[b]
             /\ LookAt(r, p) = [r EXCEPT !.peer = p, !.block = b, !.sum = SumOf[b]]
    <3>1. NumberOf[head] <= NumberOf[b]
      BY <2>1, <2>4 DEF ScanType
    <3>2. p # None
      BY ForkChoiceAssumption
    <3> QED BY <2>1, <2>4, <3>1, <3>2 DEF ScanType
  <2> QED BY <2>2, <2>3, <2>4
<1> QED BY <1>1, <1>2

\* Whatever the order of the answers, the scan ends with its type: induction along the fold.
LEMMA ScansType ==
  ASSUME head \in Block, ResponseType, NEW scan \in Scans
  PROVE  scan \in ScanType
<1>1. PICK order \in Orders :
         scan = FoldLeft(LookAt, [peer |-> None, block |-> head, sum |-> 0, requested |-> {}], order)
  BY DEF Scans
<1>2. PICK base : base = [peer |-> None, block |-> head, sum |-> 0, requested |-> {}]
  OBVIOUS
<1>3. base \in ScanType
  BY <1>2, NumberOfParent DEF ScanType
<1>4. PICK n \in Nat : DOMAIN order = 1..n /\ \A i \in 1..n : order[i] \in Peer
  <2>1. Cardinality(Peer) \in Nat
    BY FS_CardinalityType, ForkChoiceAssumption
  <2> QED BY <2>1 DEF Orders, SetToSeqs
<1>5. PICK S : S = 1..n
  OBVIOUS
<1>6. IsFiniteSet(S) /\ DOMAIN order = S
  BY <1>4, <1>5, FS_Interval
<1>7. PICK c : c = [s \in SUBSET S |-> Max(s)]
  OBVIOUS
<1>8. PICK G : G = [q \in S \X ScanType |-> LookAt(q[2], order[q[1]])]
  OBVIOUS
<1>9. Chooses(c, S)
  <2> SUFFICES ASSUME NEW s \in SUBSET S, s # {}
               PROVE  Max(s) \in s
    BY <1>7 DEF Chooses
  <2>1. s \in SUBSET (0..n)
    BY <1>5
  <2> QED BY <2>1, GreatestNumber
<1>10. G \in [S \X ScanType -> ScanType]
  BY <1>4, <1>5, <1>8, LookAtType
<1>11. PICK f \in [SUBSET S -> ScanType] : Unfolds(f, S, c, base, G)
  BY <1>3, <1>6, <1>9, <1>10, RecursionOnSubsets
<1> DEFINE step(g) == [s \in SUBSET DOMAIN order |-> IF s = {} THEN base
                                          ELSE LET x == Max(s)
                                               IN  LookAt(g[s \ {x}], order[x])]
           iter == CHOOSE g : g = step(g)
<1>12. f = step(f)
  <2>1. ASSUME NEW s \in SUBSET S, s # {}
        PROVE  G[<<c[s], f[s \ {c[s]}]>>] = LookAt(f[s \ {Max(s)}], order[Max(s)])
    <3>1. c[s] = Max(s) /\ c[s] \in S /\ f[s \ {c[s]}] \in ScanType
      BY <1>7, <1>9, <1>11, <2>1 DEF Chooses
    <3> QED BY <1>8, <3>1
  <2> QED BY <1>6, <1>11, <2>1 DEF Unfolds
<1>13. iter = step(iter)
  <2> HIDE DEF step
  <2> QED BY <1>12
<1>14. scan = iter[S]
  BY <1>1, <1>2, <1>6 DEF FoldLeft, MapThenFoldSet
<1> HIDE DEF iter
<1> DEFINE T == {s \in SUBSET S : iter[s] \in ScanType}
<1>15. {} \in T
  BY <1>3, <1>6, <1>13
<1>16. ASSUME NEW s \in SUBSET S, s # {}, s \ {c[s]} \in T
       PROVE  s \in T
  <2>1. iter[s] = LookAt(iter[s \ {c[s]}], order[c[s]])
    BY <1>6, <1>7, <1>13, <1>16
  <2>2. order[c[s]] \in Peer
    BY <1>4, <1>5, <1>9, <1>16 DEF Chooses
  <2> QED BY <1>16, <2>1, <2>2, LookAtType
<1>17. T = SUBSET S
  <2>1. ClosedOnSubsets(T, S, c)
    BY <1>15, <1>16 DEF ClosedOnSubsets
  <2> HIDE DEF T
  <2> QED BY <1>6, <1>9, <2>1, SubsetInduction
<1> QED BY <1>14, <1>17
(***************************************************************************)
(* The inductive invariant                                                 *)
(***************************************************************************)
Timely(b, t) == NumberOf[b] * BlockMineDelay <= t + NodesTimeShift

\* An entry promises a block with a parent; headers that arrived begin on the way to it.
EntryOK(e, t) ==
  /\ e \in Entries
  /\ e.front # Genesis
  /\ e.phase # "asked" => e.lcb \in ChainOf[Parent[e.front]] /\ Timely(e.front, t)

\* The sessions that fetch blocks.
SyncType == [peer : Peer, lcb : Block, front : Block, phase : {"loading", "done"},
             voted : BOOLEAN, since : 0..MaxTime]

\* A session goes on from the head, or it is about to replace one young block; in
\* between the head does not change.
SyncOK(s, h, t) ==
  /\ s \in SyncType
  /\ s.front # Genesis /\ Timely(s.front, t)
  /\ t <= s.since + SyncTimer
  /\ s.phase = "loading" =>
       /\ s.lcb \in ChainOf[Parent[s.front]]
       /\ ~ s.voted =>
            /\ s.lcb \in ChainOf[h]
            /\ \/ h = s.lcb
               \/ /\ NumberOf[h] = NumberOf[s.lcb] + 1
                  /\ t - NumberOf[h] * BlockMineDelay <= BlockSafeDelay + (t - s.since)

\* The votes.
VoteType == [block : Block \union {None}, since : Int]

\* The inductive invariant.
IInv ==
  /\ head \in Block /\ mined \in SUBSET Block /\ now \in 0..MaxTime
  /\ ResponseType
  /\ votes \in [Peer -> VoteType \union {None}]
  /\ headers \in [Peer -> Entries \union {None}]
  /\ \A p \in Peer : headers[p] # None => EntryOK(headers[p], now)
  /\ blockSync # None => SyncOK(blockSync, head, now)
  /\ Timely(head, now)

\* The inductive invariant holds the types.
LEMMA IInvImpliesTypeOK == IInv => TypeOK
  BY DEF IInv, TypeOK, EntryOK, SyncOK, SyncType, ResponseType, VoteType

\* The types of the times, and that a block's delay covers what one calls safe.
LEMMA ConstantTypes ==
  /\ BlockMineDelay \in Nat /\ BlockSafeDelay \in Nat /\ NodesTimeShift \in Nat
  /\ BlockWaitDelay \in Nat /\ SyncTimer \in Nat /\ MaxTime \in Nat /\ InsertLength \in Nat
  /\ InsertLength > 0 /\ SyncTimer > 0 /\ BlockMineDelay > 0
  /\ BlockMineDelay > BlockSafeDelay + NodesTimeShift
  BY ForkChoiceAssumption

\* The node starts on the genesis block.
LEMMA InitIInv == Init => IInv
<1> SUFFICES ASSUME Init
             PROVE  IInv
  OBVIOUS
<1>1. Timely(head, now)
  BY NumberOfParent, ConstantTypes DEF Init, Timely
<1> QED BY <1>1, ConstantTypes, ForkChoiceAssumption DEF Init, IInv, ResponseType

\* Time does not make anything untimely.
LEMMA TimelyLater ==
  ASSUME NEW b \in Block, NEW t \in Nat, NEW u \in Nat, t <= u, Timely(b, t)
  PROVE  Timely(b, u)
<1>1. NumberOf[b] * BlockMineDelay \in Nat
  BY NumberOfParent, ConstantTypes
<1> QED BY <1>1, ConstantTypes DEF Timely

\* An entry that waits stays allowed as the clock goes on.
LEMMA EntryLater ==
  ASSUME NEW t \in Nat, NEW u \in Nat, t <= u, NEW e, EntryOK(e, t)
  PROVE  EntryOK(e, u)
  BY TimelyLater DEF EntryOK, Entries

\* The last common block is on the chain of the head and below the promised block.
LEMMA LastCommonType ==
  ASSUME head \in Block, NEW front \in Block \ {Genesis}
  PROVE  LastCommon(front) \in ChainOf[Parent[front]] \intersect ChainOf[head]
<1> DEFINE S == ChainOf[Parent[front]] \intersect ChainOf[head]
           numbers == {NumberOf[b] : b \in S}
<1>1. Parent[front] \in Block
  BY NumberOfParent
<1>2. Genesis \in S /\ S \subseteq Block
  BY <1>1, ChainType
<1>3. \A b \in S : NumberOf[b] \in 0..NumberOf[head]
  BY <1>2, ChainOrder, NumberOfParent
<1>4. numbers \in SUBSET (0..NumberOf[head]) /\ numbers # {} /\ NumberOf[head] \in Nat
  BY <1>2, <1>3, NumberOfParent
<1>5. PICK n \in numbers : \A m \in numbers : m <= n
  <2> HIDE DEF numbers
  <2> QED BY <1>4, GreatestNumber
<1>6. \E b \in S : \A a \in S : NumberOf[a] <= NumberOf[b]
  BY <1>5
<1> QED BY <1>6 DEF LastCommon

\* What block_worker keeps of the waiting headers is still allowed.
LEMMA AssessedOK ==
  ASSUME IInv
  PROVE  /\ Assessed \in [Peer -> Entries \union {None}]
         /\ \A p \in Peer : Assessed[p] # None => headers[p] # None /\ EntryOK(Assessed[p], now)
<1>1. ASSUME NEW p \in Peer
      PROVE  /\ Assessed[p] \in Entries \union {None}
             /\ Assessed[p] # None => headers[p] # None /\ EntryOK(Assessed[p], now)
  <2>1. CASE p \in Usable
    <3>1. headers[p] # None /\ EntryOK(headers[p], now)
      BY <2>1 DEF Usable, IInv
    <3>2. Assessed[p] = [headers[p] EXCEPT !.reverts = CostOf(p) > 0]
      BY <2>1 DEF Assessed
    <3>3. (CostOf(p) > 0) \in BOOLEAN
      OBVIOUS
    <3> QED BY <3>1, <3>2, <3>3 DEF EntryOK, Entries
  <2>2. CASE p \notin Usable
    BY <2>2 DEF Assessed, IInv
  <2> QED BY <2>1, <2>2
<1>2. Assessed \in [Peer -> Entries \union {None}]
  BY <1>1 DEF Assessed
<1> QED BY <1>1, <1>2
\* Headers are asked of a peer that was met, and from a block that has a parent.
LEMMA ScanToAsk ==
  ASSUME IInv, NEW scan \in Scans, SyncNow(scan)
  PROVE  scan.peer \in Peer /\ scan.block \in Block \ {Genesis}
<1>1. scan \in ScanType /\ head \in Block
  BY ScansType DEF IInv
<1>2. /\ NumberOf[head] \in Nat /\ NumberOf[scan.block] \in Nat /\ NumberOf[Genesis] = 0
      /\ head # Genesis => NumberOf[head] > 0
      /\ SumOf[head] \in Nat
  BY <1>1, NumberOfParent, SumType DEF ScanType
<1>3. OwnSum \in Nat
  BY <1>1, <1>2, ForkChoiceAssumption DEF OwnSum
<1>4. scan.peer # None
  <2> SUFFICES ASSUME scan.peer = None
               PROVE  FALSE
    OBVIOUS
  <2>1. scan.block = head /\ scan.sum = 0
    BY <1>1 DEF ScanType
  <2> QED BY <1>2, <1>3, <2>1 DEF SyncNow
<1>5. scan.block # head /\ NumberOf[head] <= NumberOf[scan.block]
  BY <1>1, <1>4 DEF ScanType
<1> QED BY <1>1, <1>2, <1>4, <1>5 DEF ScanType

\* Every block that is dropped costs at least a block's delay.
LEMMA CostIsDeep ==
  ASSUME NEW k \in Nat, k > 0
  PROVE  k * BlockMineDelay >= BlockMineDelay
<1>1. k * BlockMineDelay = (k - 1) * BlockMineDelay + BlockMineDelay
  BY ConstantTypes
<1>2. (k - 1) * BlockMineDelay \in Nat
  BY ConstantTypes
<1> QED BY <1>1, <1>2, ConstantTypes

\* What costs little to follow gives up one young block at most.
LEMMA SafeIsShallow ==
  ASSUME IInv, NEW lcb \in ChainOf[head], Cost(lcb) <= BlockSafeDelay
  PROVE  \/ head = lcb
         \/ NumberOf[head] = NumberOf[lcb] + 1 /\ Age <= BlockSafeDelay
<1> DEFINE count == NumberOf[head] - NumberOf[lcb]
           young == IF Age < BlockMineDelay THEN Age ELSE BlockMineDelay
<1>1. /\ head \in Block /\ now \in Nat
      /\ lcb \in Block /\ NumberOf[lcb] \in Nat /\ NumberOf[head] \in Nat
      /\ NumberOf[lcb] <= NumberOf[head]
      /\ NumberOf[lcb] = NumberOf[head] => lcb = head
  BY ChainType, ChainOrder, NumberOfParent, ConstantTypes DEF IInv
<1>2. NumberOf[head] * BlockMineDelay \in Nat /\ NumberOf[head] * BlockMineDelay <= now + NodesTimeShift
  BY <1>1, ConstantTypes DEF IInv, Timely
<1>3. Age \in Int /\ Age + NodesTimeShift >= 0
  BY <1>1, <1>2, ConstantTypes DEF Age
<1>4. count \in Nat /\ (count = 0 => head = lcb)
  BY <1>1
<1>5. CASE count = 0
  BY <1>4, <1>5
<1>6. CASE count = 1
  <2>1. Cost(lcb) = 0 * BlockMineDelay + young
    BY <1>6 DEF Cost
  <2>2. Cost(lcb) = young
    BY <1>3, <2>1, ConstantTypes
  <2> QED BY <1>1, <1>3, <1>6, <2>2, ConstantTypes
<1>7. CASE count > 1
  <2>1. Cost(lcb) = (count - 1) * BlockMineDelay + young
    BY <1>4, <1>7 DEF Cost
  <2>2. count - 1 \in Nat /\ count - 1 > 0
    BY <1>4, <1>7
  <2>3. (count - 1) * BlockMineDelay >= BlockMineDelay /\ (count - 1) * BlockMineDelay \in Int
    BY <2>2, CostIsDeep, ConstantTypes
  <2>4. young \in Int /\ young + NodesTimeShift >= 0
    BY <1>3, ConstantTypes
  <2> HIDE DEF young, count
  <2> QED BY <2>1, <2>3, <2>4, ConstantTypes
<1> QED BY <1>4, <1>6, <1>7

\* A round of block_worker: it begins a session, mines or only tidies.
LEMMA WorkerIInv ==
  ASSUME IInv, Worker
  PROVE  IInv'
<1>1. /\ UNCHANGED <<now, responses>>
      /\ blockSync = None /\ votes' = UpdatedVotes
      /\ \/ \E p \in Candidates(votes') : StartBlocks(votes', p)
         \/ \E scan \in Scans : SyncNow(scan) /\ AskHeaders(scan)
         \/ \E scan \in Scans : MineNow(scan) /\ OwnBlock[head] # None /\ Mine
         \/ headers' = Assessed /\ UNCHANGED <<head, mined, blockSync>>
  BY DEF Worker, Idle
<1>2. /\ head \in Block /\ mined \in SUBSET Block /\ now \in 0..MaxTime /\ now \in Nat
      /\ ResponseType /\ ResponseType' /\ now' = now
      /\ now' \in 0..MaxTime
  BY <1>1, ConstantTypes DEF IInv, ResponseType
<1>3. votes' \in [Peer -> VoteType \union {None}]
  <2> SUFFICES ASSUME NEW p \in Peer
               PROVE  UpdatedVotes[p] \in VoteType \union {None}
    BY <1>1 DEF UpdatedVotes
  <2>1. votes[p] \in VoteType \union {None} /\ (responses[p] = None \/ responses[p].own \in Block)
    BY DEF IInv, ResponseType
  <2>2. -2 * SyncTimer \in Int /\ now \in Int
    BY <1>2, ConstantTypes
  <2> QED BY <2>1, <2>2 DEF UpdatedVotes, VoteType
<1>4. /\ Assessed \in [Peer -> Entries \union {None}]
      /\ \A p \in Peer : Assessed[p] # None => headers[p] # None /\ EntryOK(Assessed[p], now)
  BY AssessedOK
<1>6. ASSUME NEW p \in Candidates(votes'), StartBlocks(votes', p)
      PROVE  IInv'
  <2>1. p \in Usable /\ p \in Peer
    BY DEF Candidates, Cheapest, Winners, Safe, Favoured, Usable
  <2>2. headers[p] # None /\ headers[p].phase = "ready" /\ EntryOK(headers[p], now)
        /\ headers[p].lcb \in ChainOf[head]
    BY <2>1 DEF Usable, IInv
  <2> DEFINE s == [peer |-> p, lcb |-> headers[p].lcb, front |-> headers[p].front,
                   phase |-> "loading", voted |-> p \notin Safe, since |-> now]
  <2>3. blockSync' = s /\ head' = head /\ mined' = mined
        /\ headers' = [Assessed EXCEPT ![p].phase = "taken"]
    BY <1>6 DEF StartBlocks
  <2>4. s.lcb \in Block /\ s.front \in Block \ {Genesis} /\ s.lcb \in ChainOf[Parent[s.front]]
        /\ Timely(s.front, now)
    BY <1>2, <2>2, ChainType, TimelyLater DEF EntryOK, Entries
  <2>5. p \in Safe => \/ head = s.lcb
                      \/ NumberOf[head] = NumberOf[s.lcb] + 1 /\ Age <= BlockSafeDelay
    BY <2>2, SafeIsShallow DEF Safe, CostOf
  <2>6. s \in SyncType
    <3>1. (p \notin Safe) \in BOOLEAN
      OBVIOUS
    <3> QED BY <1>2, <2>1, <2>4, <3>1 DEF SyncType
  <2>7. now - now = 0 /\ BlockSafeDelay + 0 = BlockSafeDelay /\ now <= now + SyncTimer
    BY <1>2, <2>3, ConstantTypes DEF Age
  <2>8. SyncOK(blockSync', head', now')
    <3>1. ~ s.voted => \/ head = s.lcb
                       \/ /\ NumberOf[head] = NumberOf[s.lcb] + 1
                          /\ now - NumberOf[head] * BlockMineDelay <= BlockSafeDelay + (now - s.since)
      BY <2>5, <2>7 DEF Age
    <3>2. s.lcb \in ChainOf[head] /\ now <= s.since + SyncTimer /\ s.front # Genesis
      BY <2>2, <2>4, <2>7
    <3> HIDE DEF s
    <3> QED BY <1>2, <2>3, <2>4, <2>6, <3>1, <3>2 DEF SyncOK
  <2>9. headers' \in [Peer -> Entries \union {None}]
        /\ \A q \in Peer : headers'[q] # None => EntryOK(headers'[q], now')
    <3>1. EntryOK([Assessed[p] EXCEPT !.phase = "taken"], now)
      <4>1. Assessed[p] = [headers[p] EXCEPT !.reverts = CostOf(p) > 0] /\ (CostOf(p) > 0) \in BOOLEAN
        BY <2>1 DEF Assessed
      <4> QED BY <2>2, <4>1 DEF EntryOK, Entries
    <3>2. headers'[p] = [Assessed[p] EXCEPT !.phase = "taken"]
      BY <1>4, <2>1, <2>3
    <3>3. \A q \in Peer : q # p => headers'[q] = Assessed[q]
      BY <1>4, <2>3
    <3> QED BY <1>2, <1>4, <2>1, <2>3, <3>1, <3>2, <3>3 DEF EntryOK
  <2>10. Timely(head', now')
    BY <1>2, <2>3, TimelyLater DEF IInv
  <2> QED BY <1>2, <1>3, <2>3, <2>8, <2>9, <2>10 DEF IInv
<1>7. ASSUME NEW scan \in Scans, SyncNow(scan), AskHeaders(scan)
      PROVE  IInv'
  <2> DEFINE e == [phase |-> "asked", front |-> scan.block, lcb |-> None,
                   reverts |-> FALSE, since |-> now]
  <2>1. scan.peer \in Peer /\ scan.block \in Block \ {Genesis}
    BY <1>7, ScanToAsk
  <2>2. EntryOK(e, now)
    BY <1>2, <2>1 DEF EntryOK, Entries
  <2>3. headers' = Assessed \/ headers' = [Assessed EXCEPT ![scan.peer] = e]
    BY <1>7 DEF AskHeaders
  <2>4. UNCHANGED <<head, mined, blockSync>>
    BY <1>7 DEF AskHeaders
  <2>5. headers' \in [Peer -> Entries \union {None}]
        /\ \A q \in Peer : headers'[q] # None => EntryOK(headers'[q], now')
    <3> HIDE DEF e
    <3>1. e \in Entries
      BY <2>2 DEF EntryOK
    <3> QED BY <1>2, <1>4, <2>1, <2>2, <2>3, <3>1
  <2>6. Timely(head', now')
    BY <1>2, <2>4, TimelyLater DEF IInv
  <2> QED BY <1>1, <1>2, <1>3, <2>4, <2>5, <2>6 DEF IInv
<1>8. ASSUME NEW scan \in Scans, MineNow(scan), OwnBlock[head] # None, Mine
      PROVE  IInv'
  <2>1. OwnBlock[head] \in Block \ {Genesis} /\ Parent[OwnBlock[head]] = head
    BY <1>2, <1>8, ForkChoiceAssumption
  <2>2. head' = OwnBlock[head] /\ mined' = mined \union {OwnBlock[head]} /\ headers' = Assessed
        /\ UNCHANGED blockSync
    BY <1>8 DEF Mine
  <2>3. NumberOf[head'] = NumberOf[head] + 1 /\ NumberOf[head] \in Nat
    BY <1>2, <2>1, <2>2, NumberOfParent
  <2>4. Age >= BlockMineDelay /\ Age \in Int
    <3>1. Age \in Int
      BY <1>2, <2>3, ConstantTypes DEF Age
    <3> QED BY <1>8, <3>1, ConstantTypes DEF MineNow
  <2>5. NumberOf[head'] * BlockMineDelay = NumberOf[head] * BlockMineDelay + BlockMineDelay
        /\ NumberOf[head] * BlockMineDelay \in Nat
    <3>1. \A k \in Nat : (k + 1) * BlockMineDelay = k * BlockMineDelay + BlockMineDelay
                          /\ k * BlockMineDelay \in Nat
      BY ConstantTypes
    <3> QED BY <2>3, <3>1
  <2>6. Timely(head', now')
    BY <1>2, <2>4, <2>5, ConstantTypes DEF Timely, Age
  <2> QED BY <1>1, <1>2, <1>3, <1>4, <2>1, <2>2, <2>6 DEF IInv
<1>9. CASE headers' = Assessed /\ UNCHANGED <<head, mined, blockSync>>
  <2>1. Timely(head', now')
    BY <1>2, <1>9, TimelyLater DEF IInv
  <2> QED BY <1>1, <1>2, <1>3, <1>4, <1>9, <2>1 DEF IInv
<1> QED BY <1>1, <1>6, <1>7, <1>8, <1>9
\* The last block of a batch: on the chain of the promised block, above the common one.
LEMMA LastOfBatch ==
  ASSUME NEW s \in SyncType, s.front # Genesis, s.lcb \in ChainOf[Parent[s.front]],
         NEW last, last = CHOOSE b \in Batch(s) : \A a \in Batch(s) : NumberOf[a] <= NumberOf[b]
  PROVE  /\ last \in Batch(s) /\ last \in Block \ {Genesis}
         /\ \A a \in Batch(s) : NumberOf[a] <= NumberOf[last]
         /\ last \in ChainOf[s.front]
         /\ NumberOf[s.lcb] < NumberOf[last] /\ NumberOf[last] <= NumberOf[s.front]
         /\ s.lcb \in ChainOf[last] /\ s.lcb # last
         /\ last # s.front => last \in ChainOf[Parent[s.front]]
<1>1. /\ s.front \in Block \ {Genesis} /\ s.lcb \in Block /\ Parent[s.front] \in Block
      /\ ChainOf[s.front] = {s.front} \union ChainOf[Parent[s.front]]
      /\ ChainOf[s.front] \subseteq Block
      /\ NumberOf[s.front] = NumberOf[Parent[s.front]] + 1
      /\ \A b \in Block : NumberOf[b] \in Nat
  BY TreeUnfold, NumberOfParent, ChainType DEF SyncType
<1>2. NumberOf[s.lcb] + 1 \in 0..NumberOf[s.front]
  <2>1. NumberOf[s.lcb] <= NumberOf[Parent[s.front]]
    BY <1>1, ChainOrder
  <2> QED BY <1>1, <2>1
<1>3. Batch(s) # {}
  <2>1. PICK b \in ChainOf[s.front] : NumberOf[b] = NumberOf[s.lcb] + 1
    BY <1>1, <1>2, ChainOrder
  <2>2. b \in Batch(s)
    BY <1>1, <2>1, ConstantTypes DEF Batch
  <2> QED BY <2>2
<1> DEFINE numbers == {NumberOf[b] : b \in Batch(s)}
<1>4. numbers \in SUBSET (0..NumberOf[s.front]) /\ numbers # {}
  <2>1. \A b \in Batch(s) : NumberOf[b] \in 0..NumberOf[s.front]
    BY <1>1, ChainOrder DEF Batch
  <2> QED BY <1>3, <2>1
<1>5. PICK n \in numbers : \A m \in numbers : m <= n
  <2> HIDE DEF numbers
  <2> QED BY <1>1, <1>4, GreatestNumber
<1>6. last \in Batch(s) /\ \A a \in Batch(s) : NumberOf[a] <= NumberOf[last]
  <2>1. \E b \in Batch(s) : \A a \in Batch(s) : NumberOf[a] <= NumberOf[b]
    BY <1>5
  <2> QED BY <2>1
<1>7. last \in ChainOf[s.front] /\ NumberOf[s.lcb] < NumberOf[last] /\ last \in Block
  BY <1>1, <1>6 DEF Batch
<1>8. NumberOf[last] <= NumberOf[s.front]
  BY <1>1, <1>7, ChainOrder
<1>9. s.lcb \in ChainOf[last]
  <2>1. s.lcb \in ChainOf[s.front] /\ NumberOf[s.lcb] <= NumberOf[last]
    BY <1>1, <1>7
  <2> QED BY <1>1, <1>7, <2>1, ChainOrder
<1>10. last # Genesis /\ s.lcb # last
  <2>1. NumberOf[s.lcb] \in Nat /\ NumberOf[last] \in Nat /\ NumberOf[Genesis] = 0
    BY <1>1, <1>7, NumberOfParent
  <2>2. NumberOf[last] # 0
    BY <1>7, <2>1
  <2>3. NumberOf[s.lcb] # NumberOf[last]
    BY <1>7, <2>1
  <2> QED BY <2>1, <2>2, <2>3
<1> QED BY <1>1, <1>6, <1>7, <1>8, <1>9, <1>10

\* The blocks below a timely block are timely.
LEMMA TimelyBelow ==
  ASSUME NEW a \in Block, NEW b \in Block, NumberOf[a] <= NumberOf[b], NEW t \in Nat, Timely(b, t)
  PROVE  Timely(a, t)
<1>1. PICK k \in Nat : NumberOf[b] = NumberOf[a] + k
  <2>1. NumberOf[b] - NumberOf[a] \in Nat /\ NumberOf[b] = NumberOf[a] + (NumberOf[b] - NumberOf[a])
    BY NumberOfParent
  <2> QED BY <2>1
<1>2. \A m, n \in Nat : (m + n) * BlockMineDelay = m * BlockMineDelay + n * BlockMineDelay
                        /\ m * BlockMineDelay \in Nat
  BY ConstantTypes
<1>3. NumberOf[b] * BlockMineDelay = NumberOf[a] * BlockMineDelay + k * BlockMineDelay
      /\ NumberOf[a] * BlockMineDelay \in Nat /\ k * BlockMineDelay \in Nat
  BY <1>1, <1>2, NumberOfParent
<1> QED BY <1>3, ConstantTypes DEF Timely

\* A batch of blocks arrives and replaces the head, or the node keeps its own.
LEMMA BlocksArriveIInv ==
  ASSUME IInv, BlocksArrive
  PROVE  IInv'
<1>1. PICK s \in SyncType : s = blockSync
  BY DEF IInv, SyncOK, BlocksArrive
<1>2. PICK last : last = CHOOSE b \in Batch(s) : \A a \in Batch(s) : NumberOf[a] <= NumberOf[b]
  OBVIOUS
<1>3. /\ blockSync # None /\ s.phase = "loading" /\ s.lcb \in ChainOf[head]
      /\ head' = IF KeepsOwn(s, last) THEN head ELSE last
      /\ blockSync' = IF KeepsOwn(s, last) \/ last = s.front THEN [s EXCEPT !.phase = "done"]
                      ELSE [s EXCEPT !.lcb = last]
      /\ UNCHANGED <<mined, now, responses, headers, votes>>
  BY <1>1, <1>2 DEF BlocksArrive
<1>4. SyncOK(s, head, now) /\ now \in Nat
  BY <1>1, <1>3, ConstantTypes DEF IInv
<1>5. /\ last \in Block
      /\ last \in ChainOf[s.front]
      /\ NumberOf[last] <= NumberOf[s.front]
      /\ last # s.front => last \in ChainOf[Parent[s.front]]
  <2>1. s.front # Genesis /\ s.lcb \in ChainOf[Parent[s.front]]
    BY <1>3, <1>4 DEF SyncOK
  <2> QED BY <1>2, <2>1, LastOfBatch
<1>6. Timely(last, now)
  BY <1>4, <1>5, TimelyBelow DEF SyncOK, SyncType
<1>7. head' \in Block /\ Timely(head', now')
  BY <1>3, <1>5, <1>6 DEF IInv
<1>8. SyncOK(blockSync', head', now')
  <2>1. CASE KeepsOwn(s, last) \/ last = s.front
    BY <1>3, <1>4, <2>1 DEF SyncOK, SyncType
  <2>2. CASE ~ KeepsOwn(s, last) /\ last # s.front
    <3>1. last \in ChainOf[last]
      BY <1>5, ChainType
    <3>2. blockSync' = [s EXCEPT !.lcb = last] /\ head' = last /\ now' = now
      BY <1>3, <2>2
    <3>3. blockSync' \in SyncType /\ blockSync'.lcb = last
          /\ blockSync'.front = s.front /\ blockSync'.since = s.since
      BY <1>5, <3>2 DEF SyncType
    <3> QED BY <1>4, <1>5, <2>2, <3>1, <3>2, <3>3 DEF SyncOK
  <2> QED BY <2>1, <2>2
<1> QED BY <1>3, <1>7, <1>8 DEF IInv, ResponseType

\* Answers, headers and the ends of sessions.
LEMMA SessionsIInv ==
  ASSUME IInv,
         \/ \E p \in Peer : SyncResponse(p) \/ HeadersArrive(p) \/ HeadersEnd(p)
         \/ BlocksEnd
  PROVE  IInv'
<1>1. ASSUME NEW p \in Peer, SyncResponse(p)
      PROVE  IInv'
  <2>1. PICK b \in Block, promised \in Block :
             responses' = [responses EXCEPT ![p] = [own |-> b, promised |-> promised]]
    BY <1>1 DEF SyncResponse
  <2>2. ResponseType'
    BY <2>1 DEF IInv, ResponseType
  <2>3. UNCHANGED <<head, mined, now, headers, blockSync, votes>>
    BY <1>1 DEF SyncResponse
  <2> QED BY <2>2, <2>3 DEF IInv
<1>2. ASSUME NEW p \in Peer, HeadersArrive(p)
      PROVE  IInv'
  <2>1. /\ headers[p] # None /\ EntryOK(headers[p], now) /\ Timely(headers[p].front, now)
        /\ headers' = [headers EXCEPT ![p].phase = "ready", ![p].lcb = LastCommon(headers[p].front)]
        /\ UNCHANGED <<head, mined, now, responses, blockSync, votes>>
    BY <1>2 DEF HeadersArrive, IInv, Timely
  <2>2. /\ headers[p].front \in Block \ {Genesis}
        /\ LastCommon(headers[p].front) \in ChainOf[Parent[headers[p].front]]
        /\ LastCommon(headers[p].front) \in Block
    <3>1. headers[p].front \in Block \ {Genesis}
      BY <2>1 DEF EntryOK, Entries
    <3> QED BY <3>1, LastCommonType, ChainType, NumberOfParent DEF IInv
  <2>3. headers'[p] = [headers[p] EXCEPT !.phase = "ready", !.lcb = LastCommon(headers[p].front)]
        /\ \A q \in Peer : q # p => headers'[q] = headers[q]
    BY <2>1 DEF IInv
  <2>4. EntryOK(headers'[p], now)
    <3>1. PICK e \in Entries : e = headers[p]
      BY <2>1 DEF EntryOK
    <3>2. PICK b \in Block : b = LastCommon(e.front)
      BY <2>2, <3>1
    <3>3. PICK d : d = [e EXCEPT !.phase = "ready", !.lcb = b]
      OBVIOUS
    <3>4. d \in Entries /\ d.front = e.front /\ d.lcb = b
      BY <3>2, <3>3 DEF Entries
    <3>5. EntryOK(d, now)
      BY <2>1, <2>2, <3>1, <3>2, <3>4 DEF EntryOK
    <3> QED BY <2>3, <3>1, <3>2, <3>3, <3>5
  <2>5. headers' \in [Peer -> Entries \union {None}]
    BY <2>1, <2>3, <2>4 DEF IInv, EntryOK
  <2> QED BY <2>1, <2>3, <2>4, <2>5 DEF IInv, ResponseType
<1>3. ASSUME NEW p \in Peer, HeadersEnd(p)
      PROVE  IInv'
  BY <1>3 DEF HeadersEnd, IInv, ResponseType
<1>4. CASE BlocksEnd
  BY <1>4 DEF BlocksEnd, IInv, ResponseType
<1> QED BY <1>1, <1>2, <1>3, <1>4

\* The clock goes on.
LEMMA TickIInv ==
  ASSUME IInv, Tick
  PROVE  IInv'
<1>1. /\ now \in Nat /\ now' = now + 1 /\ now' \in Nat /\ now' \in 0..MaxTime
      /\ UNCHANGED <<head, mined, responses, votes>>
  BY ConstantTypes DEF Tick, IInv
<1>2. Timely(head', now') /\ \A e : EntryOK(e, now) => EntryOK(e, now')
  BY <1>1, TimelyLater, EntryLater DEF IInv
<1>3. headers' \in [Peer -> Entries \union {None}]
      /\ \A p \in Peer : headers'[p] # None => EntryOK(headers'[p], now')
  BY <1>1, <1>2 DEF Tick, IInv
<1>4. blockSync' # None => SyncOK(blockSync', head', now')
  <2> SUFFICES ASSUME blockSync' # None
               PROVE  SyncOK(blockSync', head', now')
    OBVIOUS
  <2>1. blockSync' = blockSync /\ blockSync # None /\ ~ (blockSync.since + SyncTimer < now')
    BY DEF Tick
  <2>2. PICK s : s = blockSync
    OBVIOUS
  <2>3. SyncOK(s, head, now) /\ s \in SyncType
    BY <2>1, <2>2 DEF IInv, SyncOK
  <2>4. s.since \in Nat /\ s.front \in Block /\ s.lcb \in Block /\ now' <= s.since + SyncTimer
    BY <1>1, <2>1, <2>2, <2>3, ConstantTypes DEF SyncType
  <2>5. Timely(s.front, now')
    BY <1>1, <2>3, <2>4, TimelyLater DEF SyncOK
  <2>6. ASSUME now - NumberOf[head] * BlockMineDelay <= BlockSafeDelay + (now - s.since)
        PROVE  now' - NumberOf[head] * BlockMineDelay <= BlockSafeDelay + (now' - s.since)
    <3>1. NumberOf[head] * BlockMineDelay \in Nat
      BY NumberOfParent, ConstantTypes DEF IInv
    <3> QED BY <1>1, <2>4, <2>6, <3>1, ConstantTypes
  <2> QED BY <1>1, <2>1, <2>2, <2>3, <2>4, <2>5, <2>6 DEF SyncOK
<1> QED BY <1>1, <1>2, <1>3, <1>4 DEF IInv, ResponseType

\* Every step keeps the inductive invariant.
LEMMA NextIInv == IInv /\ [Next]_vars => IInv'
<1> SUFFICES ASSUME IInv, [Next]_vars
             PROVE  IInv'
  OBVIOUS
<1>1. CASE UNCHANGED vars
  BY <1>1 DEF vars, IInv, ResponseType
<1>2. CASE Next
  BY <1>2, WorkerIInv, BlocksArriveIInv, SessionsIInv, TickIInv DEF Next
<1> QED BY <1>1, <1>2

\* The inductive invariant holds in every state.
THEOREM Invariance == Spec => []IInv
  BY InitIInv, NextIInv, PTL DEF Spec

\* The variables keep their types (TypeOK): the head is a block, a session and the entries that
\* wait name peers and blocks.
THEOREM TypesHold == Spec => []TypeOK
  BY Invariance, IInvImpliesTypeOK, PTL
(***************************************************************************)
(* The two action properties                                               *)
(***************************************************************************)
\* The head changes when the node mines, and when a batch is taken.
LEMMA HeadChanges ==
  ASSUME IInv, [Next]_vars, head' # head
  PROVE  \/ head' \in Block \ {Genesis} /\ Parent[head'] = head
         \/ \E s \in SyncType, last \in Block \ {Genesis} :
              /\ s = blockSync /\ last = head' /\ SyncOK(s, head, now)
              /\ s.phase = "loading" /\ s.lcb \in ChainOf[head]
              /\ ~ KeepsOwn(s, last)
              /\ last \in Batch(s)
              /\ \A a \in Batch(s) : NumberOf[a] <= NumberOf[last]
              /\ NumberOf[s.lcb] < NumberOf[last]
              /\ s.lcb \in ChainOf[last] /\ s.lcb # last
<1>1. Worker \/ BlocksArrive
  BY DEF Next, vars, SyncResponse, HeadersArrive, HeadersEnd, BlocksEnd, Tick
<1>2. CASE Worker
  <2>1. head' = OwnBlock[head] /\ OwnBlock[head] # None
    BY <1>2 DEF Worker, StartBlocks, AskHeaders, Mine
  <2> QED BY <2>1, ForkChoiceAssumption DEF IInv
<1>3. CASE BlocksArrive
  <2>1. PICK s : s = blockSync
    OBVIOUS
  <2>2. PICK last : last = CHOOSE b \in Batch(s) : \A a \in Batch(s) : NumberOf[a] <= NumberOf[b]
    OBVIOUS
  <2>3. /\ blockSync # None /\ s.phase = "loading" /\ s.lcb \in ChainOf[head]
        /\ head' = IF KeepsOwn(s, last) THEN head ELSE last
    BY <1>3, <2>1, <2>2 DEF BlocksArrive
  <2>4. SyncOK(s, head, now) /\ s \in SyncType
    BY <2>1, <2>3 DEF IInv, SyncOK
  <2>5. s.front # Genesis /\ s.lcb \in ChainOf[Parent[s.front]]
    BY <2>3, <2>4 DEF SyncOK
  <2> QED BY <2>1, <2>2, <2>3, <2>4, <2>5, LastOfBatch
<1> QED BY <1>1, <1>2, <1>3

\* What EqualSwitchNeedsRicher says of a step.
SwitchNeedsRicher ==
  /\ head' # head /\ SumOf[head'] = SumOf[head] /\ NumberOf[head'] = NumberOf[head]
  /\ Parent[head'] = Parent[head]
  /\ ~ blockSync.voted \/ blockSync.lcb = Parent[head]
  => MinerBalance[head'] > MinerBalance[head]

\* A step that swaps two heads of the same weight goes to the richer miner's.
LEMMA StepNeedsRicher ==
  ASSUME IInv, [Next]_vars
  PROVE  SwitchNeedsRicher
<1> SUFFICES ASSUME head' # head, SumOf[head'] = SumOf[head], NumberOf[head'] = NumberOf[head],
                    Parent[head'] = Parent[head],
                    ~ blockSync.voted \/ blockSync.lcb = Parent[head]
             PROVE  MinerBalance[head'] > MinerBalance[head]
  BY DEF SwitchNeedsRicher
<1>1. head \in Block /\ NumberOf[head] \in Nat
  BY NumberOfParent DEF IInv
<1>2. PICK s \in SyncType, last \in Block \ {Genesis} :
              /\ s = blockSync /\ last = head' /\ SyncOK(s, head, now)
              /\ s.phase = "loading" /\ s.lcb \in ChainOf[head]
              /\ ~ KeepsOwn(s, last)
              /\ last \in Batch(s)
              /\ \A a \in Batch(s) : NumberOf[a] <= NumberOf[last]
              /\ NumberOf[s.lcb] < NumberOf[last]
              /\ s.lcb \in ChainOf[last] /\ s.lcb # last
  <2>1. ~ (head' \in Block \ {Genesis} /\ Parent[head'] = head)
    <3>1. head' \in Block \ {Genesis} /\ Parent[head'] = head => NumberOf[head'] = NumberOf[head] + 1
      BY NumberOfParent
    <3> QED BY <1>1, <3>1
  <2> QED BY <2>1, HeadChanges
<1>3. /\ NumberOf[last] = NumberOf[head] /\ NumberOf[s.lcb] \in Nat /\ s.lcb \in Block
      /\ head # Genesis
  <2>1. NumberOf[Genesis] = 0 /\ NumberOf[s.lcb] \in Nat /\ s.lcb \in Block
    BY NumberOfParent DEF SyncType
  <2> QED BY <1>1, <1>2, <2>1
\* The one block of the batch is in the place of the head.
<1>4. NumberOf[s.lcb] = NumberOf[head] - 1
  <2>1. CASE ~ s.voted
    <3>1. head = s.lcb \/ NumberOf[head] = NumberOf[s.lcb] + 1
      BY <1>2, <2>1 DEF SyncOK
    <3> QED BY <1>1, <1>2, <1>3, <3>1
  <2>2. CASE s.lcb = Parent[head]
    <3>1. NumberOf[head] = NumberOf[Parent[head]] + 1
      BY <1>1, <1>3, NumberOfParent
    <3> QED BY <1>1, <1>3, <2>2, <3>1
  <2> QED BY <1>2, <2>1, <2>2
<1>5. Batch(s) = {last}
  <2>1. ASSUME NEW a \in Batch(s)
        PROVE  a = last
    <3>1. a \in ChainOf[s.front] /\ last \in ChainOf[s.front] /\ s.front \in Block
          /\ a \in Block
      BY <1>2, ChainType DEF Batch, SyncType
    <3>2. NumberOf[a] > NumberOf[s.lcb] /\ NumberOf[a] <= NumberOf[last] /\ NumberOf[a] \in Nat
      BY <1>2, <3>1, NumberOfParent DEF Batch
    <3>3. NumberOf[a] = NumberOf[last]
      BY <1>1, <1>3, <1>4, <3>2
    <3> QED BY <3>1, <3>3, ChainOrder
  <2> QED BY <1>2, <2>1
<1>6. Cardinality(Batch(s)) = 1
  BY <1>5, FS_Singleton
<1>7. ~ (MinerBalance[head] >= MinerBalance[last])
  BY <1>2, <1>4, <1>6 DEF KeepsOwn
<1>8. MinerBalance[head] \in Nat /\ MinerBalance[last] \in Nat
  BY <1>1, ForkChoiceAssumption
<1> QED BY <1>2, <1>7, <1>8

\* The tie of process_blockchain_response: a session that was not voted for, or whose vote did
\* not move its common block, swaps two heads of one sum only for a richer miner
\* (EqualSwitchNeedsRicher).
THEOREM EqualSwitches == Spec => EqualSwitchNeedsRicher
<1>1. IInv /\ [Next]_vars => [SwitchNeedsRicher]_vars
  BY StepNeedsRicher
<1> QED BY <1>1, Invariance, PTL DEF Spec, EqualSwitchNeedsRicher, SwitchNeedsRicher

\* What UnvotedSwitchIsShallow says of a step.
SwitchIsShallow ==
  LET given == ChainOf[head] \ ChainOf[head']
  IN  given # {} /\ ~ blockSync.voted =>
        Cardinality(given) = 1 /\ Age <= BlockSafeDelay + SyncTimer

\* A step of a session without a vote drops no more than a young head.
LEMMA StepIsShallow ==
  ASSUME IInv, [Next]_vars
  PROVE  SwitchIsShallow
<1> SUFFICES ASSUME ChainOf[head] \ ChainOf[head'] # {}, ~ blockSync.voted
             PROVE  /\ Cardinality(ChainOf[head] \ ChainOf[head']) = 1
                    /\ Age <= BlockSafeDelay + SyncTimer
  BY DEF SwitchIsShallow
<1>1. head \in Block /\ NumberOf[head] \in Nat /\ now \in Nat
  BY NumberOfParent, ConstantTypes DEF IInv
<1>2. head' # head
  OBVIOUS
<1>3. PICK s \in SyncType, last \in Block \ {Genesis} :
              /\ s = blockSync /\ last = head' /\ SyncOK(s, head, now)
              /\ s.phase = "loading" /\ s.lcb \in ChainOf[head]
              /\ s.lcb \in ChainOf[last] /\ s.lcb # last
  <2>1. ASSUME head' \in Block \ {Genesis}, Parent[head'] = head
        PROVE  FALSE
    BY <2>1, TreeUnfold
  <2> QED BY <1>2, <2>1, HeadChanges
<1>4. s.lcb \in Block /\ s.since \in Nat /\ now <= s.since + SyncTimer /\ NumberOf[s.lcb] \in Nat
  BY <1>3, ConstantTypes, NumberOfParent DEF SyncOK, SyncType
<1>5. ChainOf[s.lcb] \subseteq ChainOf[last]
  BY <1>3, ChainOrder
<1>6. /\ NumberOf[head] = NumberOf[s.lcb] + 1
      /\ now - NumberOf[head] * BlockMineDelay <= BlockSafeDelay + (now - s.since)
  <2>1. head # s.lcb
    BY <1>3, <1>5
  <2> QED BY <1>3, <2>1 DEF SyncOK
<1>7. Age <= BlockSafeDelay + SyncTimer
  <2>1. NumberOf[head] * BlockMineDelay \in Nat
    BY <1>1, ConstantTypes
  <2> QED BY <1>1, <1>4, <1>6, <2>1, ConstantTypes DEF Age
<1>8. head # Genesis /\ s.lcb = Parent[head]
  <2>1. head # Genesis
    BY <1>4, <1>6, NumberOfParent
  <2>2. Parent[head] \in ChainOf[head] /\ NumberOf[Parent[head]] = NumberOf[s.lcb]
    BY <1>1, <1>4, <1>6, <2>1, TreeUnfold, ChainType, NumberOfParent
  <2> QED BY <1>1, <1>3, <2>1, <2>2, ChainOrder
<1>9. ChainOf[head] \ ChainOf[head'] = {head}
  BY <1>1, <1>3, <1>5, <1>8, TreeUnfold
<1> QED BY <1>7, <1>9, FS_Singleton

\* A session that was begun without a vote, because it was safe to, drops no more than the head,
\* and that only while it is young (UnvotedSwitchIsShallow).
THEOREM UnvotedSwitches == Spec => UnvotedSwitchIsShallow
<1>1. IInv /\ [Next]_vars => [SwitchIsShallow]_vars
  BY StepIsShallow
<1> QED BY <1>1, Invariance, PTL DEF Spec, UnvotedSwitchIsShallow, SwitchIsShallow
=============================================================================
