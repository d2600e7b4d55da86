------------------------ MODULE TransactionFlowProofs ------------------------
(***************************************************************************)
(* Proofs about TransactionFlow, for every set of transactions and every   *)
(* value of the time constants:                                            *)
(*                                                                         *)
(*   TypeCorrect        the types of the variables                         *)
(*   PoolStaysCached    a pool transaction loses its key only when it uses *)
(*                      the whole lifetime and the head is past its expiry *)
(*   TransactionsUsedOnce  no transaction is on the chain twice, if the    *)
(*                      rewinds are covered by the age of a cleaned key    *)
(*   MinedBlocksAreLive every transaction of every block is alive at the   *)
(*                      time of its block                                  *)
(*   ChainStaysProtected   the cache holds the keys of every transaction   *)
(*                      of the chain that could still come again           *)
(*   CleaningIsSafe     what the timer drops from the cache is over        *)
(*   AlwaysRestarts     what is stored passes the checks at the next start *)
(***************************************************************************)
EXTENDS TransactionFlow, SequenceTheorems, TLAPS

-----------------------------------------------------------------------------
(* Facts about the operators. *)

\* The tail of the chain is replaced by the received blocks.
LEMMA SpliceProperties ==
  ASSUME NEW c \in Seq(SUBSET Tx), NEW lcb \in 0..(Len(c) - 1),
         NEW blocks \in Received
  PROVE  LET d == SubSeq(c, 1, lcb + 1) \o blocks IN
         /\ d \in Seq(SUBSET Tx)
         /\ Len(blocks) \in Nat \ {0}
         /\ DOMAIN blocks = 1..Len(blocks)
         /\ Len(d) = lcb + 1 + Len(blocks)
         /\ \A i \in 1..(lcb + 1) : d[i] = c[i]
         /\ \A i \in (lcb + 2)..Len(d) :
              /\ i - (lcb + 1) \in DOMAIN blocks
              /\ d[i] = blocks[i - (lcb + 1)]
         /\ \A i \in DOMAIN blocks : blocks[i] \subseteq Complete
<1> DEFINE s == SubSeq(c, 1, lcb + 1)
<1>1. PICK n \in 1..MaxSync : blocks \in [1..n -> SUBSET Complete]
  BY DEF Received
<1>2. n \in Nat \ {0}
  BY <1>1, ConstantsAssumption
<1>3. /\ blocks \in Seq(SUBSET Complete)
      /\ Len(blocks) = n
      /\ DOMAIN blocks = 1..n
  BY <1>1, <1>2
<1>4. blocks \in Seq(SUBSET Tx)
  BY <1>3, <1>1, <1>2, ConstantsAssumption
<1>5. /\ s \in Seq(SUBSET Tx)
      /\ Len(s) = lcb + 1
      /\ \A i \in 1..(lcb + 1) : s[i] = c[i]
  OBVIOUS
<1>6. /\ s \o blocks \in Seq(SUBSET Tx)
      /\ Len(s \o blocks) = Len(s) + Len(blocks)
      /\ \A i \in 1..(Len(s) + Len(blocks)) :
           (s \o blocks)[i] = IF i <= Len(s) THEN s[i] ELSE blocks[i - Len(s)]
  <2> HIDE DEF s
  <2> QED BY <1>4, <1>5, ConcatProperties
<1>7. \A i \in DOMAIN blocks : blocks[i] \subseteq Complete
  BY <1>1, <1>3
<1> HIDE DEF s
<1>8. /\ \A i \in 1..(lcb + 1) : (s \o blocks)[i] = c[i]
      /\ \A i \in (lcb + 2)..(lcb + 1 + n) :
           /\ i - (lcb + 1) \in DOMAIN blocks
           /\ (s \o blocks)[i] = blocks[i - (lcb + 1)]
  <2>1. lcb \in Nat
    OBVIOUS
  <2>2. ASSUME NEW i \in 1..(lcb + 1)
        PROVE  (s \o blocks)[i] = c[i]
    <3>1. i \in 1..(Len(s) + Len(blocks)) /\ i <= Len(s)
      BY <1>2, <1>3, <1>5, <2>1
    <3> QED BY <1>5, <1>6, <3>1
  <2>3. ASSUME NEW i \in (lcb + 2)..(lcb + 1 + n)
        PROVE  /\ i - (lcb + 1) \in DOMAIN blocks
               /\ (s \o blocks)[i] = blocks[i - (lcb + 1)]
    <3>1. /\ i \in 1..(Len(s) + Len(blocks)) /\ ~ (i <= Len(s))
          /\ i - (lcb + 1) \in 1..n
      BY <1>2, <1>3, <1>5, <2>1
    <3> QED BY <1>3, <1>5, <1>6, <3>1
  <2> QED BY <2>2, <2>3
<1> QED BY <1>2, <1>3, <1>5, <1>6, <1>7, <1>8 DEF s

\* A chain cut to its first blocks.
LEMMA PrefixProperties ==
  ASSUME NEW c \in Seq(SUBSET Tx), NEW count \in Nat, count < Len(c)
  PROVE  LET d == SubSeq(c, 1, Len(c) - count) IN
         /\ d \in Seq(SUBSET Tx)
         /\ Len(d) = Len(c) - count
         /\ DOMAIN d = 1..Len(d)
         /\ \A i \in 1..Len(d) : d[i] = c[i]
  OBVIOUS

\* Arithmetic of block times.
LEMMA TimeType == \A m \in Int : TimeOf(m) \in Int
  BY ConstantsAssumption DEF TimeOf

LEMMA TimeSum == \A m, n \in Int : TimeOf(m + n) = TimeOf(m) + TimeOf(n)
  BY ConstantsAssumption DEF TimeOf

LEMMA TimeOrder ==
  \A m, n \in Int : /\ m <= n => TimeOf(m) <= TimeOf(n)
                    /\ m < n => TimeOf(m) < TimeOf(n)
  BY ConstantsAssumption DEF TimeOf

LEMMA LifetimeProperties ==
  /\ Lifetime = TimeOf(LifetimeBlocks)
  /\ Lifetime \in Nat
  BY ConstantsAssumption DEF Lifetime, TimeOf

\* All forms of a transaction have its times.
LEMMA KeysProperties ==
  ASSUME NEW t \in Tx
  PROVE  /\ t \in Keys(t)
         /\ Keys(t) \subseteq Tx
         /\ Creation[t] \in Int
         /\ Expiry[t] \in Int
         /\ \A k \in Keys(t) : Creation[k] = Creation[t] /\ Expiry[k] = Expiry[t]
  BY ConstantsAssumption, PartsAssumption DEF Keys

LEMMA KeysOfProperties ==
  ASSUME NEW S \in SUBSET Tx
  PROVE  /\ KeysOf(S) \subseteq Tx
         /\ \A t \in S : Keys(t) \subseteq KeysOf(S)
  BY KeysProperties DEF KeysOf

\* A complete form is merged from pool transactions that share its times.
LEMMA MergedProperties ==
  ASSUME NEW S \in SUBSET Tx, NEW t \in Merged(S)
  PROVE  /\ t \in Complete
         /\ t \in Tx
         /\ \E p \in S : /\ p \in Parts[t]
                         /\ Creation[p] = Creation[t]
                         /\ Expiry[p] = Expiry[t]
  BY ConstantsAssumption, PartsAssumption DEF Merged

-----------------------------------------------------------------------------
(* Type correctness. *)

LEMMA TypeStarts ==
  ASSUME Init
  PROVE  TypeOK
BY ConstantsAssumption DEF Init, TypeOK

\* Every step keeps the types.
LEMMA TypeSteps ==
  ASSUME TypeOK, [Next]_vars
  PROVE  TypeOK'
<1> USE DEF TypeOK
<1>1. CASE \E t \in Tx : Receive(t)
  BY <1>1 DEF Receive
<1>2. CASE MineBlock
  <2> DEFINE reverted == {t \in pool : TimeOf(HeadNumber + 1) <= Expiry[t]}
             merged == Merged({t \in reverted : Creation[t] < TimeOf(HeadNumber + 1)})
  <2>1. PICK block \in SUBSET ((reverted \intersect Complete) \union merged) :
          /\ chain' = Append(chain, block)
          /\ \E back \in SUBSET ((reverted \union merged) \ KeysOf(block)) :
               /\ pool' = back
               /\ cache' = (cache \ pool) \union KeysOf(block) \union back
    BY <1>2 DEF MineBlock, Alive
  <2>2. merged \subseteq Tx
    BY ConstantsAssumption DEF Merged
  <2>3. block \subseteq Tx
    BY <2>1, <2>2
  <2>4. KeysOf(block) \subseteq Tx
    BY <2>3, KeysOfProperties
  <2>5. /\ chain' \in Seq(SUBSET Tx)
        /\ Len(chain') \in 1..(MaxBlocks + 1)
    BY <1>2, <2>1, <2>3, ConstantsAssumption DEF MineBlock, HeadNumber
  <2>6. pool' \subseteq Tx /\ cache' \subseteq Tx
    BY <2>1, <2>2, <2>4
  <2> QED BY <1>2, <2>5, <2>6 DEF MineBlock, Alive
<1>3. ASSUME NEW lcb \in 0..HeadNumber, NEW blocks \in Received, NEW more \in BOOLEAN,
             SyncBlocks(lcb, blocks, more)
      PROVE  TypeOK'
  <2> DEFINE received == UNION {blocks[i] : i \in DOMAIN blocks}
             removed == UNION {chain[i] : i \in (lcb + 2)..Len(chain)}
  <2>1. /\ chain' \in Seq(SUBSET Tx)
        /\ Len(chain') \in 1..(MaxBlocks + 1)
    BY <1>3, SpliceProperties, ConstantsAssumption DEF SyncBlocks, Alive, HeadNumber
  <2>2. received \subseteq Tx
    BY SpliceProperties, ConstantsAssumption DEF HeadNumber
  <2>3. RewoundCache(lcb) \subseteq Tx
    <3> DEFINE old == UNION {chain[i] : i \in {j \in DOMAIN chain :
                              /\ j + LifetimeBlocks >= lcb + 2
                              /\ j + LifetimeBlocks <= Len(chain)}}
               kept == (cache \ pool) \ KeysOf(removed)
               again == {t \in old \ removed : Keys(t) \intersect kept = {}}
    <3>1. again \subseteq Tx
      OBVIOUS
    <3>2. KeysOf(again) \subseteq Tx
      BY <3>1, KeysOfProperties
    <3> QED BY <3>2 DEF RewoundCache
  <2>4. removed \subseteq Tx
    BY DEF HeadNumber
  <2>5. KeysOf(received) \subseteq Tx
    BY <2>2, KeysOfProperties
  <2>6. /\ pool' \subseteq removed \union pool
        /\ cache' = RewoundCache(lcb) \union KeysOf(received) \union pool'
    BY <1>3 DEF SyncBlocks, Alive
  <2> QED BY <1>3, <2>1, <2>3, <2>4, <2>5, <2>6 DEF SyncBlocks, Alive
<1>4. CASE CleanCache
  BY <1>4, ConstantsAssumption DEF CleanCache, HeadNumber
<1>5. ASSUME NEW c \in Seq(SUBSET Tx)
      PROVE  LoadedKeys(c) \subseteq Tx
  <2>1. UNION {c[i] : i \in RecentIndices(c)} \subseteq Tx
    BY DEF RecentIndices
  <2> QED BY <2>1, KeysOfProperties DEF LoadedKeys
<1>6. CASE Restart
  BY <1>5, <1>6, ConstantsAssumption DEF Restart
<1>7. ASSUME NEW count \in 1..HeadNumber, RevertLastBlocks(count)
      PROVE  TypeOK'
  <2>1. count \in Nat /\ count < Len(chain)
    BY DEF HeadNumber
  <2>2. /\ chain' \in Seq(SUBSET Tx)
        /\ Len(chain') \in 1..(MaxBlocks + 1)
    BY <1>7, <2>1, PrefixProperties, ConstantsAssumption DEF RevertLastBlocks
  <2>3. cache' = LoadedKeys(chain')
    BY <1>7 DEF RevertLastBlocks
  <2>4. cache' \subseteq Tx
    BY <1>5, <2>2, <2>3
  <2> QED BY <1>7, <2>2, <2>4, ConstantsAssumption DEF RevertLastBlocks
<1>8. CASE Tick
  BY <1>8, ConstantsAssumption DEF Tick
<1>9. CASE UNCHANGED vars
  BY <1>9 DEF vars
<1> QED BY <1>1, <1>2, <1>3, <1>4, <1>6, <1>7, <1>8, <1>9 DEF Next

\* The variables keep their types: the chain keeps its genesis block through
\* every rewind, and pool and cache hold transactions only.
THEOREM TypeCorrect == Spec => []TypeOK
<1> QED BY TypeStarts, TypeSteps, PTL DEF Spec

-----------------------------------------------------------------------------
(* No transaction is used twice. *)

\* What the pool holds was validated when it came in.
PoolLifetimes == \A t \in pool : Expiry[t] - Creation[t] <= Lifetime

\* The inductive invariant.  NoDoubleUse alone is not inductive: that a block
\* brings in no key of the chain is only known because the keys of the chain are
\* in the cache, or belong to transactions that are expired in every later block.
UsedOnceInv ==
  /\ TypeOK
  /\ NoDoubleUse
  /\ BlocksHoldLiveTransactions
  /\ CacheProtectsChain
  /\ PoolLifetimes

\* Transactions with a common key are forms of one transaction.
LEMMA SharedKey ==
  ASSUME NEW t \in Tx, NEW u \in Tx, Keys(t) \intersect Keys(u) # {}
  PROVE  Creation[t] = Creation[u] /\ Expiry[t] = Expiry[u]
  BY KeysProperties

\* A transaction of chain[i] whose keys are gone is expired in a later block.
LEMMA ExpiredLater ==
  ASSUME TypeOK, NEW i \in Nat, NEW t \in Tx, NEW number \in Int,
         ValidAt(t, TimeOf(i - 1), 0),
         \/ i + LifetimeBlocks < number + 1
         \/ /\ Expiry[t] < TimeOf(cleaned - MaxRewind + 1)
            /\ cleaned - MaxRewind + 1 <= number
  PROVE  Expiry[t] < TimeOf(number)
<1>1. /\ Expiry[t] \in Int
      /\ Creation[t] \in Int
      /\ cleaned - MaxRewind + 1 \in Int
      /\ LifetimeBlocks \in Int
      /\ i - 1 \in Int
  BY ConstantsAssumption DEF TypeOK
<1>2. /\ TimeOf(i - 1) \in Int
      /\ TimeOf(LifetimeBlocks) \in Int
      /\ TimeOf(number) \in Int
      /\ TimeOf(cleaned - MaxRewind + 1) \in Int
  BY <1>1, TimeType
<1>3. CASE i + LifetimeBlocks < number + 1
  <2>1. TimeOf((i - 1) + LifetimeBlocks) < TimeOf(number)
    <3>1. (i - 1) + LifetimeBlocks < number /\ (i - 1) + LifetimeBlocks \in Int
      BY <1>1, <1>3
    <3> QED BY <3>1, TimeOrder
  <2>2. TimeOf((i - 1) + LifetimeBlocks) = TimeOf(i - 1) + TimeOf(LifetimeBlocks)
    BY <1>1, TimeSum
  <2>3. Creation[t] <= TimeOf(i - 1) + 0 /\ Expiry[t] - Creation[t] <= TimeOf(LifetimeBlocks)
    BY LifetimeProperties DEF ValidAt
  <2> QED BY <1>1, <1>2, <2>1, <2>2, <2>3
<1>4. CASE /\ Expiry[t] < TimeOf(cleaned - MaxRewind + 1)
           /\ cleaned - MaxRewind + 1 <= number
  <2>1. TimeOf(cleaned - MaxRewind + 1) <= TimeOf(number)
    BY <1>1, <1>4, TimeOrder
  <2> QED BY <1>1, <1>2, <1>4, <2>1
<1> QED BY <1>3, <1>4

\* A new block next to an old one: the transactions that share no key with what
\* revert_pool left in the cache share none with the chain.
LEMMA NewBlockIsNew ==
  ASSUME UsedOnceInv, NEW i \in DOMAIN chain, NEW t \in chain[i],
         NEW u \in Tx, NEW held, NEW number \in Int,
         \/ Keys(t) \subseteq held
         \/ i + LifetimeBlocks < number + 1
         \/ Expiry[t] < TimeOf(cleaned - MaxRewind + 1),
         cleaned - MaxRewind + 1 <= number,
         Keys(u) \intersect held = {},
         TimeOf(number) <= Expiry[u]
  PROVE  Keys(t) \intersect Keys(u) = {}
<1>1. /\ t \in Tx
      /\ i \in Nat
      /\ ValidAt(t, TimeOf(i - 1), 0)
  BY DEF UsedOnceInv, TypeOK, BlocksHoldLiveTransactions
<1>2. CASE Keys(t) \subseteq held
  BY <1>2
<1>3. CASE \/ i + LifetimeBlocks < number + 1
           \/ Expiry[t] < TimeOf(cleaned - MaxRewind + 1)
  <2> SUFFICES ASSUME Keys(t) \intersect Keys(u) # {}
               PROVE  FALSE
    OBVIOUS
  <2>1. TypeOK
    BY DEF UsedOnceInv
  <2>2. Expiry[t] < TimeOf(number)
    BY <1>1, <1>3, <2>1, ExpiredLater
  <2>3. Expiry[t] = Expiry[u]
    BY <1>1, SharedKey
  <2>4. TimeOf(number) \in Int /\ Expiry[t] \in Int
    BY <1>1, TimeType, KeysProperties
  <2> QED BY <2>2, <2>3, <2>4
<1> QED BY <1>2, <1>3

\* A transaction that comes in touches only the pool's part of the cache.
LEMMA ReceiveKeepsInv ==
  ASSUME UsedOnceInv, TypeOK', NEW t \in Tx, Receive(t)
  PROVE  UsedOnceInv'
<1>1. /\ chain' = chain
      /\ cleaned' = cleaned
      /\ cache' \ pool' = cache \ pool
      /\ pool' = pool \union {t}
      /\ Expiry[t] - Creation[t] <= Lifetime
  BY DEF Receive, ValidAt
<1>2. NoDoubleUse' /\ BlocksHoldLiveTransactions'
  BY <1>1 DEF UsedOnceInv, NoDoubleUse, BlocksHoldLiveTransactions
<1>3. CacheProtectsChain'
  BY <1>1 DEF UsedOnceInv, CacheProtectsChain, HeadNumber
<1>4. PoolLifetimes'
  BY <1>1 DEF UsedOnceInv, PoolLifetimes
<1> QED BY <1>2, <1>3, <1>4 DEF UsedOnceInv

\* The own block: what the pool offers is alive at the block's time, and it was
\* put in the cache without meeting one of its keys there.
LEMMA MineKeepsInv ==
  ASSUME UsedOnceInv, TypeOK', MineBlock
  PROVE  UsedOnceInv'
<1> DEFINE number == HeadNumber + 1
           time == TimeOf(number)
           reverted == {t \in pool : time <= Expiry[t]}
           erased == cache \ pool
           young == {t \in reverted : Creation[t] < time}
           merged == Merged(young)
<1>1. PICK block \in SUBSET ((reverted \intersect Complete) \union merged) :
        /\ \A t \in block : Creation[t] < time
        /\ KeysDisjoint(block)
        /\ KeysOf(block) \intersect erased = {}
        /\ chain' = Append(chain, block)
        /\ \E back \in SUBSET ((reverted \union merged) \ KeysOf(block)) :
             /\ pool' = back
             /\ cache' = erased \union KeysOf(block) \union back
  BY DEF MineBlock, Alive
<1>2. /\ TypeOK
      /\ cleaned' = cleaned
      /\ number \in Int
      /\ number = Len(chain)
      /\ time \in Int
      /\ cleaned - MaxRewind + 1 <= number
  <2>1. TypeOK /\ cleaned' = cleaned
    BY DEF MineBlock, UsedOnceInv
  <2>2. number \in Int /\ number = Len(chain) /\ number = HeadNumber + 1
    BY <2>1 DEF TypeOK, HeadNumber
  <2>3. time \in Int
    BY <2>2, TimeType
  <2>4. cleaned <= HeadNumber + MaxRewind
    BY DEF UsedOnceInv, CacheProtectsChain
  <2>5. cleaned \in Int /\ MaxRewind \in Int /\ HeadNumber \in Int
    BY <2>1, <2>2, ConstantsAssumption DEF TypeOK, HeadNumber
  <2> HIDE DEF number
  <2> QED BY <2>1, <2>2, <2>3, <2>4, <2>5
<1>3. /\ chain \in Seq(SUBSET Tx)
      /\ Len(chain') = Len(chain) + 1
      /\ DOMAIN chain' = 1..(Len(chain) + 1)
      /\ DOMAIN chain = 1..Len(chain)
      /\ \A i \in DOMAIN chain : chain'[i] = chain[i]
      /\ chain'[Len(chain) + 1] = block
  BY <1>1, <1>2 DEF TypeOK
<1>4. \A t \in reverted : /\ t \in Tx
                          /\ time <= Expiry[t]
                          /\ Expiry[t] - Creation[t] <= Lifetime
  BY DEF UsedOnceInv, TypeOK, PoolLifetimes
<1>5. \A t \in merged : /\ t \in Tx
                        /\ time <= Expiry[t]
                        /\ Expiry[t] - Creation[t] <= Lifetime
                        /\ \E p \in pool : p \in Parts[t]
  <2> TAKE t \in merged
  <2>1. young \subseteq Tx
    BY <1>4
  <2>2. PICK p \in young : /\ p \in Parts[t]
                           /\ Creation[p] = Creation[t]
                           /\ Expiry[p] = Expiry[t]
    BY <2>1, MergedProperties
  <2>3. t \in Tx
    BY <2>1, MergedProperties
  <2> QED BY <1>4, <2>2, <2>3
<1>6. \A t \in block : /\ t \in Tx
                       /\ time <= Expiry[t]
                       /\ ValidAt(t, time, 0)
  <2> TAKE t \in block
  <2>1. /\ t \in Tx
        /\ time <= Expiry[t]
        /\ Expiry[t] - Creation[t] <= Lifetime
        /\ Creation[t] < time
    BY <1>1, <1>4, <1>5
  <2> QED BY <2>1, <1>2, KeysProperties DEF ValidAt
<1>7. \A i \in DOMAIN chain : \A t \in chain[i] : \A u \in block :
         Keys(t) \intersect Keys(u) = {}
  <2> SUFFICES ASSUME NEW i \in DOMAIN chain, NEW t \in chain[i], NEW u \in block
               PROVE  Keys(t) \intersect Keys(u) = {}
    OBVIOUS
  <2>1. /\ u \in Tx
        /\ TimeOf(number) <= Expiry[u]
        /\ Keys(u) \intersect erased = {}
    <3>1. block \subseteq Tx
      BY <1>6
    <3> QED BY <1>1, <1>6, <3>1, KeysOfProperties
  <2>2. \/ Keys(t) \subseteq erased
        \/ i + LifetimeBlocks < number + 1
        \/ Expiry[t] < TimeOf(cleaned - MaxRewind + 1)
    <3>1. \/ Keys(t) \subseteq erased
          \/ i + LifetimeBlocks < Len(chain)
          \/ Expiry[t] < TimeOf(cleaned - MaxRewind + 1)
      BY DEF UsedOnceInv, CacheProtectsChain
    <3>2. i + LifetimeBlocks \in Int
      BY <1>3, ConstantsAssumption
    <3> QED BY <1>2, <3>1, <3>2
  <2> QED BY <1>2, <2>1, <2>2, NewBlockIsNew
<1>8. NoDoubleUse'
  <2> SUFFICES ASSUME NEW i \in DOMAIN chain', NEW j \in DOMAIN chain',
                      NEW t \in chain'[i], NEW u \in chain'[j],
                      i # j \/ t # u
               PROVE  Keys(t) \intersect Keys(u) = {}
    BY DEF NoDoubleUse
  <2>1. CASE i \in DOMAIN chain /\ j \in DOMAIN chain
    BY <1>3, <2>1 DEF UsedOnceInv, NoDoubleUse
  <2>2. CASE i \in DOMAIN chain /\ j \notin DOMAIN chain
    <3>1. t \in chain[i] /\ u \in block
      BY <1>3, <2>2
    <3> QED BY <1>7, <2>2, <3>1
  <2>3. CASE i \notin DOMAIN chain /\ j \in DOMAIN chain
    <3>1. u \in chain[j] /\ t \in block
      BY <1>3, <2>3
    <3>2. Keys(u) \intersect Keys(t) = {}
      BY <1>7, <2>3, <3>1
    <3> QED BY <3>2
  <2>4. CASE i \notin DOMAIN chain /\ j \notin DOMAIN chain
    <3>1. i = j /\ t \in block /\ u \in block
      BY <1>3, <2>4
    <3> QED BY <1>1, <3>1 DEF KeysDisjoint
  <2> QED BY <2>1, <2>2, <2>3, <2>4
<1>9. BlocksHoldLiveTransactions'
  <2> SUFFICES ASSUME NEW i \in DOMAIN chain', NEW t \in chain'[i]
               PROVE  ValidAt(t, TimeOf(i - 1), 0)
    BY DEF BlocksHoldLiveTransactions
  <2>1. CASE i \in DOMAIN chain
    BY <1>3, <2>1 DEF UsedOnceInv, BlocksHoldLiveTransactions
  <2>2. CASE i \notin DOMAIN chain
    <3>1. i - 1 = number /\ t \in block
      BY <1>2, <1>3, <2>2
    <3> QED BY <1>6, <3>1
  <2> QED BY <2>1, <2>2
<1>10. /\ pool' \subseteq reverted \union merged
       /\ pool' \intersect KeysOf(block) = {}
       /\ cache' \ pool' = (erased \ pool') \union KeysOf(block)
  BY <1>1
<1>11. CacheProtectsChain'
  <2>1. (cleaned <= HeadNumber + MaxRewind)'
    BY <1>2, <1>3, ConstantsAssumption DEF UsedOnceInv, CacheProtectsChain, HeadNumber, TypeOK
  <2>2. ASSUME NEW i \in DOMAIN chain, NEW t \in chain[i]
        PROVE  \/ Keys(t) \subseteq cache' \ pool'
               \/ /\ Keys(t) \intersect (cache' \ pool') = {}
                  /\ \/ i + LifetimeBlocks < Len(chain')
                     \/ Expiry[t] < TimeOf(cleaned' - MaxRewind + 1)
    <3>1. CASE Keys(t) \subseteq erased
      <4>1. Keys(t) \intersect pool' = {}
        <5> SUFFICES ASSUME NEW k \in Keys(t), k \in pool'
                     PROVE  FALSE
          OBVIOUS
        <5>1. k \in merged
          BY <1>10, <3>1
        <5>2. PICK p \in pool : p \in Parts[k]
          BY <1>5, <5>1
        <5>3. k = t
          BY <5>2, PartsAssumption, <1>2, <1>3 DEF Keys, TypeOK
        <5>4. p \in Keys(t)
          BY <5>2, <5>3 DEF Keys
        <5> QED BY <3>1, <5>2, <5>4
      <4> QED BY <1>10, <3>1, <4>1
    <3>2. CASE /\ Keys(t) \intersect erased = {}
               /\ \/ i + LifetimeBlocks < Len(chain)
                  \/ Expiry[t] < TimeOf(cleaned - MaxRewind + 1)
      <4>1. Keys(t) \intersect KeysOf(block) = {}
        BY <1>7 DEF KeysOf
      <4>2. i \in Int /\ LifetimeBlocks \in Int /\ Len(chain) \in Int
        BY <1>2, <1>3, ConstantsAssumption
      <4>3. \/ i + LifetimeBlocks < Len(chain')
            \/ Expiry[t] < TimeOf(cleaned' - MaxRewind + 1)
        BY <1>2, <1>3, <3>2, <4>2
      <4> QED BY <1>10, <3>2, <4>1, <4>3
    <3> QED BY <3>1, <3>2 DEF UsedOnceInv, CacheProtectsChain
  <2>3. ASSUME NEW t \in block
        PROVE  Keys(t) \subseteq cache' \ pool'
    BY <1>10, <2>3 DEF KeysOf
  <2> QED BY <1>3, <2>1, <2>2, <2>3 DEF CacheProtectsChain
<1>12. PoolLifetimes'
  BY <1>4, <1>5, <1>10 DEF PoolLifetimes
<1> QED BY <1>8, <1>9, <1>11, <1>12 DEF UsedOnceInv

\* What the rewound cache holds for a transaction that stays on the chain: its
\* keys were there, or they are put in again when its block lies in the window
\* of one lifetime below the removed blocks.
LEMMA RewoundProperties ==
  ASSUME UsedOnceInv, NEW lcb \in 0..HeadNumber,
         NEW i \in 1..(lcb + 1), NEW t \in chain[i]
  PROVE  \/ Keys(t) \subseteq RewoundCache(lcb)
         \/ /\ Keys(t) \intersect RewoundCache(lcb) = {}
            /\ Keys(t) \intersect (cache \ pool) = {}
            /\ i + LifetimeBlocks < lcb + 2 \/ i + LifetimeBlocks > Len(chain)
            /\ \/ i + LifetimeBlocks < lcb + 2
               \/ Expiry[t] < TimeOf(cleaned - MaxRewind + 1)
<1> DEFINE window == {j \in DOMAIN chain : /\ j + LifetimeBlocks >= lcb + 2
                                           /\ j + LifetimeBlocks <= Len(chain)}
           removed == UNION {chain[j] : j \in (lcb + 2)..Len(chain)}
           old == UNION {chain[j] : j \in window}
           kept == (cache \ pool) \ KeysOf(removed)
           again == {u \in old \ removed : Keys(u) \intersect kept = {}}
<1>1. RewoundCache(lcb) = kept \union KeysOf(again)
  BY DEF RewoundCache
<1>2. /\ chain \in Seq(SUBSET Tx)
      /\ DOMAIN chain = 1..Len(chain)
      /\ lcb \in Int /\ lcb + 1 <= Len(chain) /\ Len(chain) \in Int
      /\ LifetimeBlocks \in Int
      /\ i \in DOMAIN chain
  BY ConstantsAssumption DEF UsedOnceInv, TypeOK, HeadNumber
<1>3. \A j \in DOMAIN chain : \A u \in chain[j] :
         (i # j \/ t # u) => Keys(t) \intersect Keys(u) = {}
  BY <1>2 DEF UsedOnceInv, NoDoubleUse
<1>4. Keys(t) \intersect KeysOf(removed) = {}
  <2> SUFFICES ASSUME NEW j \in (lcb + 2)..Len(chain), NEW u \in chain[j]
               PROVE  Keys(t) \intersect Keys(u) = {}
    BY DEF KeysOf
  <2>1. j \in DOMAIN chain /\ i # j
    BY <1>2
  <2> QED BY <1>3, <2>1
<1>5. t \notin removed
  <2> SUFFICES ASSUME t \in removed
               PROVE  FALSE
    OBVIOUS
  <2> HIDE DEF removed
  <2>1. t \in Keys(t) /\ Keys(t) \subseteq KeysOf(removed)
    BY DEF KeysOf, Keys
  <2> QED BY <1>4, <2>1
<1>6. CASE Keys(t) \subseteq cache \ pool
  BY <1>1, <1>4, <1>6
<1>7. CASE /\ Keys(t) \intersect (cache \ pool) = {}
           /\ \/ i + LifetimeBlocks < Len(chain)
              \/ Expiry[t] < TimeOf(cleaned - MaxRewind + 1)
  <2>1. Keys(t) \intersect kept = {}
    BY <1>7
  <2>2. CASE t \in old
    <3>1. t \in again
      BY <1>5, <2>1, <2>2
    <3>2. Keys(t) \subseteq KeysOf(again)
      BY <3>1 DEF KeysOf
    <3> QED BY <1>1, <3>2
  <2>3. CASE t \notin old
    <3>1. Keys(t) \intersect KeysOf(again) = {}
      <4> SUFFICES ASSUME NEW j \in window, NEW u \in chain[j], u \in again
                   PROVE  Keys(t) \intersect Keys(u) = {}
        BY DEF KeysOf
      <4>1. t # u
        BY <2>3
      <4> QED BY <1>3, <4>1
    <3>2. i \notin window
      BY <2>3
    <3>3. (i + LifetimeBlocks < Len(chain)) => (i + LifetimeBlocks < lcb + 2)
      BY <1>2, <3>2
    <3>4. i + LifetimeBlocks < lcb + 2 \/ i + LifetimeBlocks > Len(chain)
      BY <1>2, <3>2
    <3> QED BY <1>1, <1>7, <2>1, <3>1, <3>3, <3>4
  <2> QED BY <2>2, <2>3
<1> QED BY <1>2, <1>6, <1>7 DEF UsedOnceInv, CacheProtectsChain

\* The received blocks: each transaction is alive at the time of its block, and
\* met none of its keys in the rewound cache or in another received block.
LEMMA SyncKeepsInv ==
  ASSUME UsedOnceInv, TypeOK', NEW lcb \in 0..HeadNumber, NEW blocks \in Received,
         NEW more \in BOOLEAN, SyncBlocks(lcb, blocks, more)
  PROVE  UsedOnceInv'
<1> DEFINE rewound == RewoundCache(lcb)
           received == UNION {blocks[i] : i \in DOMAIN blocks}
           removed == UNION {chain[i] : i \in (lcb + 2)..Len(chain)}
           old == 1..(lcb + 1)
           new == (lcb + 2)..Len(chain')
<1>1. /\ lcb >= cleaned - MaxRewind
      /\ \A i \in DOMAIN blocks : \A t \in blocks[i] : ValidAt(t, TimeOf(lcb + i), 0)
      /\ \A i, j \in DOMAIN blocks : i # j => blocks[i] \intersect blocks[j] = {}
      /\ KeysDisjoint(received)
      /\ KeysOf(received) \intersect rewound = {}
      /\ chain' = SubSeq(chain, 1, lcb + 1) \o blocks
      /\ cleaned' = cleaned
  BY DEF SyncBlocks, Alive
<1>2. /\ pool' \subseteq removed \union pool
      /\ cache' \ pool' = rewound \union KeysOf(received)
  BY DEF SyncBlocks, Alive
<1>3. /\ chain \in Seq(SUBSET Tx)
      /\ Len(chain) \in Int
      /\ DOMAIN chain = 1..Len(chain)
      /\ lcb \in 0..(Len(chain) - 1)
      /\ lcb \in Int
      /\ cleaned \in Int /\ MaxRewind \in Int /\ LifetimeBlocks \in Int
  BY ConstantsAssumption DEF UsedOnceInv, TypeOK, HeadNumber
<1>4. /\ chain' \in Seq(SUBSET Tx)
      /\ Len(blocks) \in Nat \ {0}
      /\ Len(chain') = lcb + 1 + Len(blocks)
      /\ \A i \in old : chain'[i] = chain[i]
      /\ \A i \in new : /\ i - (lcb + 1) \in DOMAIN blocks
                        /\ chain'[i] = blocks[i - (lcb + 1)]
      /\ \A i \in DOMAIN blocks : blocks[i] \subseteq Complete
  BY <1>1, <1>3, SpliceProperties
<1>5. /\ DOMAIN chain' = old \union new
      /\ old \intersect new = {}
      /\ old \subseteq DOMAIN chain
      /\ old \subseteq Int
      /\ new \subseteq Int
  BY <1>3, <1>4
<1> HIDE DEF rewound, old, new
<1>6. \A i \in new : \A t \in chain'[i] :
        /\ t \in Tx
        /\ t \in received
        /\ Keys(t) \intersect rewound = {}
        /\ ValidAt(t, TimeOf(i - 1), 0)
  <2> SUFFICES ASSUME NEW i \in new, NEW t \in chain'[i]
               PROVE  /\ t \in Tx
                      /\ t \in received
                      /\ Keys(t) \intersect rewound = {}
                      /\ ValidAt(t, TimeOf(i - 1), 0)
    OBVIOUS
  <2>1. i - (lcb + 1) \in DOMAIN blocks /\ t \in blocks[i - (lcb + 1)]
    BY <1>4
  <2>2. t \in Tx
    BY <1>4, <2>1, ConstantsAssumption
  <2>3. t \in received
    BY <2>1
  <2>4. Keys(t) \intersect rewound = {}
    BY <1>1, <2>3 DEF KeysOf
  <2>5. lcb + (i - (lcb + 1)) = i - 1
    BY <1>3, <1>5
  <2> QED BY <1>1, <2>1, <2>2, <2>3, <2>4, <2>5
<1>7. \A i \in old : \A t \in chain[i] :
        \/ Keys(t) \subseteq rewound
        \/ /\ Keys(t) \intersect rewound = {}
           /\ \/ i + LifetimeBlocks < lcb + 2
              \/ Expiry[t] < TimeOf(cleaned - MaxRewind + 1)
  BY RewoundProperties DEF rewound, old
<1>8. \A i \in old, j \in new : \A t \in chain[i], u \in chain'[j] :
        Keys(t) \intersect Keys(u) = {}
  <2> SUFFICES ASSUME NEW i \in old, NEW j \in new, NEW t \in chain[i], NEW u \in chain'[j]
               PROVE  Keys(t) \intersect Keys(u) = {}
    OBVIOUS
  <2>1. /\ u \in Tx
        /\ Keys(u) \intersect rewound = {}
        /\ ValidAt(u, TimeOf(j - 1), 0)
    BY <1>6
  <2>2. i \in DOMAIN chain /\ i \in Int /\ j \in Int /\ j >= lcb + 2
    BY <1>3, <1>5 DEF new
  <2>3. TimeOf(j - 1) <= Expiry[u]
    <3>1. j - 1 \in Int /\ TimeOf(j - 1) \in Int /\ Expiry[u] \in Int
      BY <2>1, <2>2, TimeType, KeysProperties
    <3> QED BY <2>1, <3>1 DEF ValidAt
  <2>4. cleaned - MaxRewind + 1 <= j - 1
    BY <1>1, <1>3, <2>2
  <2>5. \/ Keys(t) \subseteq rewound
        \/ i + LifetimeBlocks < (j - 1) + 1
        \/ Expiry[t] < TimeOf(cleaned - MaxRewind + 1)
    <3>1. i + LifetimeBlocks < lcb + 2 => i + LifetimeBlocks < (j - 1) + 1
      BY <1>3, <2>2
    <3> QED BY <1>7, <3>1
  <2>6. j - 1 \in Int
    BY <2>2
  <2> QED BY <2>1, <2>2, <2>3, <2>4, <2>5, <2>6, NewBlockIsNew
<1>9. NoDoubleUse'
  <2> SUFFICES ASSUME NEW i \in DOMAIN chain', NEW j \in DOMAIN chain',
                      NEW t \in chain'[i], NEW u \in chain'[j],
                      i # j \/ t # u
               PROVE  Keys(t) \intersect Keys(u) = {}
    BY DEF NoDoubleUse
  <2>1. CASE i \in old /\ j \in old
    BY <1>4, <1>5, <2>1 DEF UsedOnceInv, NoDoubleUse
  <2>2. CASE i \in old /\ j \in new
    BY <1>4, <1>8, <2>2
  <2>3. CASE i \in new /\ j \in old
    <3>1. Keys(u) \intersect Keys(t) = {}
      BY <1>4, <1>8, <2>3
    <3> QED BY <3>1
  <2>4. CASE i \in new /\ j \in new
    <3>1. t \in received /\ u \in received
      BY <1>6, <2>4
    <3>2. t # u
      <4>1. CASE i # j
        <5> DEFINE m == i - (lcb + 1)
                   n == j - (lcb + 1)
        <5>1. /\ m \in DOMAIN blocks /\ t \in blocks[m]
              /\ n \in DOMAIN blocks /\ u \in blocks[n]
          BY <1>4, <2>4
        <5>2. i \in Int /\ j \in Int
          BY <1>5, <2>4
        <5>3. m # n
          BY <1>3, <4>1, <5>2
        <5> HIDE DEF m, n
        <5> QED BY <1>1, <5>1, <5>3
      <4> QED BY <4>1
    <3> QED BY <1>1, <3>1, <3>2 DEF KeysDisjoint
  <2> QED BY <1>5, <2>1, <2>2, <2>3, <2>4
<1>10. BlocksHoldLiveTransactions'
  <2> SUFFICES ASSUME NEW i \in DOMAIN chain', NEW t \in chain'[i]
               PROVE  ValidAt(t, TimeOf(i - 1), 0)
    BY DEF BlocksHoldLiveTransactions
  <2>1. CASE i \in old
    BY <1>4, <1>5, <2>1 DEF UsedOnceInv, BlocksHoldLiveTransactions
  <2> QED BY <1>5, <1>6, <2>1
<1>11. CacheProtectsChain'
  <2>1. (cleaned <= HeadNumber + MaxRewind)'
    BY <1>1, <1>3, <1>4 DEF HeadNumber
  <2>2. ASSUME NEW i \in old, NEW t \in chain[i]
        PROVE  \/ Keys(t) \subseteq cache' \ pool'
               \/ /\ Keys(t) \intersect (cache' \ pool') = {}
                  /\ \/ i + LifetimeBlocks < Len(chain')
                     \/ Expiry[t] < TimeOf(cleaned' - MaxRewind + 1)
    <3>1. CASE Keys(t) \subseteq rewound
      BY <1>2, <3>1
    <3>2. CASE /\ Keys(t) \intersect rewound = {}
               /\ \/ i + LifetimeBlocks < lcb + 2
                  \/ Expiry[t] < TimeOf(cleaned - MaxRewind + 1)
      <4>1. Keys(t) \intersect KeysOf(received) = {}
        <5> SUFFICES ASSUME NEW n \in DOMAIN blocks, NEW u \in blocks[n]
                     PROVE  Keys(t) \intersect Keys(u) = {}
          BY DEF KeysOf
        <5>1. n + (lcb + 1) \in new /\ chain'[n + (lcb + 1)] = blocks[n]
          <6>1. n \in 1..Len(blocks)
            BY <1>1, <1>3, SpliceProperties
          <6>2. n + (lcb + 1) \in new /\ (n + (lcb + 1)) - (lcb + 1) = n
            BY <1>3, <1>4, <6>1 DEF new
          <6> QED BY <1>4, <6>2
        <5> QED BY <1>8, <5>1
      <4>2. \/ i + LifetimeBlocks < Len(chain')
            \/ Expiry[t] < TimeOf(cleaned' - MaxRewind + 1)
        BY <1>1, <1>3, <1>4, <1>5, <3>2
      <4> QED BY <1>2, <3>2, <4>1, <4>2
    <3> QED BY <1>7, <3>1, <3>2
  <2>3. ASSUME NEW i \in new, NEW t \in chain'[i]
        PROVE  Keys(t) \subseteq cache' \ pool'
    BY <1>2, <1>6 DEF KeysOf
  <2> QED BY <1>4, <1>5, <2>1, <2>2, <2>3 DEF CacheProtectsChain
<1>12. PoolLifetimes'
  <2>1. \A t \in removed : Expiry[t] - Creation[t] <= Lifetime
    <3> SUFFICES ASSUME NEW j \in (lcb + 2)..Len(chain), NEW t \in chain[j]
                 PROVE  Expiry[t] - Creation[t] <= Lifetime
      OBVIOUS
    <3>1. j \in DOMAIN chain
      BY <1>3
    <3> QED BY <3>1 DEF UsedOnceInv, BlocksHoldLiveTransactions, ValidAt
  <2> QED BY <1>2, <2>1 DEF UsedOnceInv, PoolLifetimes
<1> QED BY <1>9, <1>10, <1>11, <1>12 DEF UsedOnceInv

\* Cleaning by age takes all keys of a transaction or none, and what it takes is
\* expired in every block that may still be put on the chain.
LEMMA CleanKeepsInv ==
  ASSUME RewindsCovered, UsedOnceInv, TypeOK', CleanCache
  PROVE  UsedOnceInv'
<1>1. /\ chain' = chain
      /\ pool' = pool
      /\ cache' = {t \in cache : HeadTime - Creation[t] <= Lifetime + NodesTimeShift}
      /\ cleaned' = IF cleaned < HeadNumber THEN HeadNumber ELSE cleaned
  BY DEF CleanCache
<1>2. /\ chain \in Seq(SUBSET Tx)
      /\ HeadNumber \in Int
      /\ cleaned \in Int /\ cleaned' \in Int /\ MaxRewind \in Nat
      /\ HeadNumber <= cleaned' /\ cleaned <= cleaned'
      /\ NodesTimeShift \in Int /\ Lifetime \in Int
  BY <1>1, ConstantsAssumption, LifetimeProperties DEF UsedOnceInv, TypeOK, HeadNumber
<1>6. ASSUME NEW m \in Int, NEW n \in Int, m <= n
      PROVE  /\ m - MaxRewind + 1 \in Int
             /\ n - MaxRewind + 1 \in Int
             /\ TimeOf(m - MaxRewind + 1) <= TimeOf(n - MaxRewind + 1)
  <2>1. /\ m - MaxRewind + 1 \in Int
        /\ n - MaxRewind + 1 \in Int
        /\ m - MaxRewind + 1 <= n - MaxRewind + 1
    BY <1>6, ConstantsAssumption
  <2> QED BY <2>1, TimeOrder
<1>3. NoDoubleUse' /\ BlocksHoldLiveTransactions'
  BY <1>1 DEF UsedOnceInv, NoDoubleUse, BlocksHoldLiveTransactions
<1>4. PoolLifetimes'
  BY <1>1 DEF UsedOnceInv, PoolLifetimes
<1>5. CacheProtectsChain'
  <2>1. (cleaned <= HeadNumber + MaxRewind)'
    BY <1>1, <1>2 DEF UsedOnceInv, CacheProtectsChain, HeadNumber
  <2>2. TimeOf(cleaned - MaxRewind + 1) <= TimeOf(cleaned' - MaxRewind + 1)
    <3>1. cleaned \in Int /\ cleaned' \in Int /\ cleaned <= cleaned'
      BY <1>2
    <3> QED BY <3>1, <1>6
  <2>3. ASSUME NEW i \in DOMAIN chain, NEW t \in chain[i]
        PROVE  \/ Keys(t) \subseteq cache' \ pool
               \/ /\ Keys(t) \intersect (cache' \ pool) = {}
                  /\ \/ i + LifetimeBlocks < Len(chain)
                     \/ Expiry[t] < TimeOf(cleaned' - MaxRewind + 1)
    <3>1. t \in Tx
      BY <1>2
    <3>2. /\ Creation[t] \in Int /\ Expiry[t] \in Int
          /\ \A k \in Keys(t) : Creation[k] = Creation[t]
      BY <3>1, KeysProperties
    <3>3. /\ TimeOf(cleaned - MaxRewind + 1) \in Int
          /\ TimeOf(cleaned' - MaxRewind + 1) \in Int
      BY <1>2, TimeType, SMTT(30)
    <3>4. CASE Keys(t) \subseteq cache \ pool /\ HeadTime - Creation[t] <= Lifetime + NodesTimeShift
      BY <1>1, <3>2, <3>4
    <3>5. CASE ~ (HeadTime - Creation[t] <= Lifetime + NodesTimeShift)
      <4>1. Keys(t) \intersect (cache' \ pool) = {}
        BY <1>1, <3>2, <3>5
      <4>2. TimeOf(HeadNumber - MaxRewind + 1) <= TimeOf(cleaned' - MaxRewind + 1)
        <5>1. HeadNumber \in Int /\ cleaned' \in Int /\ HeadNumber <= cleaned'
          BY <1>2
        <5> QED BY <5>1, <1>6
      <4>3. TimeOf(HeadNumber - MaxRewind + 1) =
              HeadTime - MaxRewind * BlockMineDelay + BlockMineDelay
        BY <1>2, ConstantsAssumption DEF HeadTime, TimeOf
      <4>4. Expiry[t] - Creation[t] + MaxRewind * BlockMineDelay
              <= Lifetime + NodesTimeShift + BlockMineDelay
        BY <3>1 DEF RewindsCovered
      <4>5. /\ HeadTime \in Int /\ MaxRewind * BlockMineDelay \in Int
            /\ BlockMineDelay \in Int
        BY <1>2, TimeType, ConstantsAssumption DEF HeadTime
      <4>6. Expiry[t] < HeadTime - MaxRewind * BlockMineDelay + BlockMineDelay
        <5>1. \A e, c, h, s, m, b \in Int :
                e - c + m <= s + b /\ ~ (h - c <= s) => e < h - m + b
          OBVIOUS
        <5>2. Lifetime + NodesTimeShift \in Int
          BY <1>2
        <5> QED BY <3>2, <3>5, <4>4, <4>5, <5>1, <5>2
      <4> QED BY <3>2, <3>3, <4>1, <4>2, <4>3, <4>5, <4>6
    <3>6. CASE /\ Keys(t) \intersect (cache \ pool) = {}
               /\ \/ i + LifetimeBlocks < Len(chain)
                  \/ Expiry[t] < TimeOf(cleaned - MaxRewind + 1)
      BY <1>1, <2>2, <3>2, <3>3, <3>6
    <3> QED BY <3>4, <3>5, <3>6 DEF UsedOnceInv, CacheProtectsChain
  <2> QED BY <1>1, <2>1, <2>3 DEF CacheProtectsChain
<1> QED BY <1>3, <1>4, <1>5 DEF UsedOnceInv

\* A start of the program loads the keys of one lifetime of blocks, whatever the
\* cache had lost before; the chain it loads is the stored one or a prefix of it.
LEMMA LoadKeepsInv ==
  ASSUME UsedOnceInv, TypeOK', NEW count \in Nat, count < Len(chain),
         chain' = SubSeq(chain, 1, Len(chain) - count),
         cache' \ pool' = LoadedKeys(chain'),
         pool' \subseteq pool,
         cleaned' = 0
  PROVE  UsedOnceInv'
<1>1. /\ chain \in Seq(SUBSET Tx)
      /\ chain' \in Seq(SUBSET Tx)
      /\ Len(chain') \in Nat \ {0}
      /\ DOMAIN chain' = 1..Len(chain')
      /\ \A i \in DOMAIN chain' : chain'[i] = chain[i]
      /\ DOMAIN chain' \subseteq DOMAIN chain
      /\ LifetimeBlocks \in Nat /\ MaxRewind \in Nat
  <2>1. chain \in Seq(SUBSET Tx)
    BY DEF UsedOnceInv, TypeOK
  <2> QED BY <2>1, PrefixProperties, ConstantsAssumption
<1>2. NoDoubleUse'
  BY <1>1 DEF UsedOnceInv, NoDoubleUse
<1>3. BlocksHoldLiveTransactions'
  BY <1>1 DEF UsedOnceInv, BlocksHoldLiveTransactions
<1>4. PoolLifetimes'
  BY DEF UsedOnceInv, PoolLifetimes
<1>5. CacheProtectsChain'
  <2>1. (cleaned <= HeadNumber + MaxRewind)'
    BY <1>1 DEF HeadNumber
  <2>2. ASSUME NEW i \in DOMAIN chain', NEW t \in chain'[i]
        PROVE  \/ Keys(t) \subseteq LoadedKeys(chain')
               \/ /\ Keys(t) \intersect LoadedKeys(chain') = {}
                  /\ i + LifetimeBlocks < Len(chain')
    <3> DEFINE loaded == UNION {chain'[j] : j \in RecentIndices(chain')}
    <3>1. LoadedKeys(chain') = KeysOf(loaded)
      BY DEF LoadedKeys
    <3>2. CASE i \in RecentIndices(chain')
      <4>1. t \in loaded
        BY <3>2
      <4> QED BY <3>1, <4>1 DEF KeysOf
    <3>3. CASE i \notin RecentIndices(chain')
      <4>1. Keys(t) \intersect KeysOf(loaded) = {}
        <5> SUFFICES ASSUME NEW k \in Keys(t), k \in KeysOf(loaded)
                     PROVE  FALSE
          OBVIOUS
        <5>1. PICK u : u \in loaded /\ k \in Keys(u)
          <6> HIDE DEF loaded
          <6> QED BY ZenonT(20) DEF KeysOf
        <5>2. PICK j \in RecentIndices(chain') : u \in chain'[j]
          BY <5>1
        <5>3. i # j
          BY <3>3
        <5>4. j \in DOMAIN chain'
          BY DEF RecentIndices
        <5> QED BY <1>2, <5>1, <5>2, <5>3, <5>4 DEF NoDoubleUse
      <4>2. Len(chain') - i \in Int /\ i \in Int /\ Len(chain') \in Int
        BY <1>1
      <4>3. TimeOf(Len(chain') - i) > TimeOf(LifetimeBlocks)
        <5>1. ~ (TimeOf(Len(chain') - i) <= Lifetime + NodesTimeShift)
          BY <3>3 DEF RecentIndices
        <5>2. /\ TimeOf(Len(chain') - i) \in Int
              /\ TimeOf(LifetimeBlocks) \in Int
              /\ NodesTimeShift \in Nat
          BY <1>1, <4>2, TimeType, ConstantsAssumption
        <5> QED BY <5>1, <5>2, LifetimeProperties
      <4>4. LifetimeBlocks < Len(chain') - i
        <5>1. Len(chain') - i <= LifetimeBlocks =>
                TimeOf(Len(chain') - i) <= TimeOf(LifetimeBlocks)
          BY <1>1, <4>2, TimeOrder
        <5>2. /\ TimeOf(Len(chain') - i) \in Int
              /\ TimeOf(LifetimeBlocks) \in Int
          BY <1>1, <4>2, TimeType, SMTT(30)
        <5> QED BY <1>1, <4>2, <4>3, <5>1, <5>2, SMTT(30)
      <4>5. i + LifetimeBlocks < Len(chain')
        BY <1>1, <4>2, <4>4
      <4> QED BY <3>1, <4>1, <4>5
    <3> QED BY <3>2, <3>3
  <2> QED BY <2>1, <2>2 DEF CacheProtectsChain
<1> QED BY <1>2, <1>3, <1>4, <1>5 DEF UsedOnceInv

LEMMA UsedOnceStarts ==
  ASSUME Init
  PROVE  UsedOnceInv
<1>1. TypeOK
  BY ConstantsAssumption DEF Init, TypeOK
<1>2. /\ chain = << {} >>
      /\ \A i \in DOMAIN chain : chain[i] = {}
      /\ pool = {} /\ cleaned = 0 /\ HeadNumber = 0
  BY DEF Init, HeadNumber
<1>3. NoDoubleUse /\ BlocksHoldLiveTransactions /\ PoolLifetimes
  BY <1>2 DEF NoDoubleUse, BlocksHoldLiveTransactions, PoolLifetimes
<1>4. CacheProtectsChain
  BY <1>2, ConstantsAssumption DEF CacheProtectsChain
<1> QED BY <1>1, <1>3, <1>4 DEF UsedOnceInv

\* Every step keeps the invariant, when the rewinds are covered.
LEMMA UsedOnceSteps ==
  ASSUME RewindsCovered, UsedOnceInv, [Next]_vars
  PROVE  UsedOnceInv'
<1> TypeOK'
  BY TypeSteps DEF UsedOnceInv
<1>1. CASE \E t \in Tx : Receive(t)
  BY <1>1, ReceiveKeepsInv
<1>2. CASE MineBlock
  BY <1>2, MineKeepsInv
<1>3. CASE \E lcb \in 0..HeadNumber, blocks \in Received, more \in BOOLEAN :
             SyncBlocks(lcb, blocks, more)
  BY <1>3, SyncKeepsInv
<1>4. CASE CleanCache
  BY <1>4, CleanKeepsInv
<1>5. CASE Restart
  <2>1. chain \in Seq(SUBSET Tx) /\ 0 < Len(chain) /\ Len(chain) \in Nat
    BY DEF UsedOnceInv, TypeOK
  <2>2. chain' = SubSeq(chain, 1, Len(chain) - 0)
    BY <1>5, <2>1 DEF Restart
  <2>3. /\ cache' \ pool' = LoadedKeys(chain')
        /\ pool' \subseteq pool
        /\ cleaned' = 0
    BY <1>5 DEF Restart, LoadSucceeds
  <2> QED BY <2>1, <2>2, <2>3, LoadKeepsInv
<1>6. ASSUME NEW count \in 1..HeadNumber, RevertLastBlocks(count)
      PROVE  UsedOnceInv'
  <2>1. count \in Nat /\ count < Len(chain)
    BY <1>6 DEF RevertLastBlocks, HeadNumber
  <2>2. /\ chain' = SubSeq(chain, 1, Len(chain) - count)
        /\ cache' \ pool' = LoadedKeys(chain')
        /\ pool' \subseteq pool
        /\ cleaned' = 0
    BY <1>6 DEF RevertLastBlocks
  <2> QED BY <2>1, <2>2, LoadKeepsInv
<1>7. CASE Tick
  BY <1>7 DEF Tick, UsedOnceInv, NoDoubleUse, BlocksHoldLiveTransactions,
     CacheProtectsChain, PoolLifetimes, HeadNumber
<1>8. CASE UNCHANGED vars
  BY <1>8 DEF vars, UsedOnceInv, NoDoubleUse, BlocksHoldLiveTransactions,
     CacheProtectsChain, PoolLifetimes, HeadNumber
<1> QED BY <1>1, <1>2, <1>3, <1>4, <1>5, <1>6, <1>7, <1>8 DEF Next

LEMMA UsedOnceHolds == RewindsCovered => (Spec => []UsedOnceInv)
<1> SUFFICES ASSUME RewindsCovered
             PROVE  Spec => []UsedOnceInv
  OBVIOUS
<1>1. UsedOnceInv /\ [Next]_vars => UsedOnceInv'
  BY UsedOnceSteps
<1> QED BY <1>1, UsedOnceStarts, PTL DEF Spec

\* No transaction is on the chain twice, through every mix of mining, forks,
\* restarts and cache cleaning, as long as no fork goes so deep that a key
\* cleaned by age belongs to a transaction that is alive again.  Without that
\* condition the property is false (run deep_revert).
THEOREM TransactionsUsedOnce == RewindsCovered => (Spec => []NoDoubleUse)
<1>1. UsedOnceInv => NoDoubleUse
  BY DEF UsedOnceInv
<1> QED BY <1>1, UsedOnceHolds, PTL

\* What the cache still knows of the chain protects it, under the same condition:
\* the keys of a transaction are all in the cache or all gone, and when they are
\* gone no block that may still come can hold it (CacheProtectsChain).
THEOREM ChainStaysProtected == RewindsCovered => (Spec => []CacheProtectsChain)
<1>1. UsedOnceInv => CacheProtectsChain
  BY DEF UsedOnceInv
<1> QED BY <1>1, UsedOnceHolds, PTL

-----------------------------------------------------------------------------
(* What mining takes from the pool, and two properties that follow from the   *)
(* times alone.                                                               *)

\* Every transaction of a mined block, and every one that returns to the pool,
\* has the times of a pool transaction that is alive at the new block.
LEMMA MineTakesFromPool ==
  ASSUME TypeOK, MineBlock
  PROVE  \E block \in SUBSET Tx :
           /\ chain' = Append(chain, block)
           /\ pool' \subseteq cache'
           /\ \A t \in block : Creation[t] < TimeOf(HeadNumber + 1)
           /\ \A t \in block \union pool' :
                /\ TimeOf(HeadNumber + 1) <= Expiry[t]
                /\ \E p \in pool : /\ Creation[p] = Creation[t]
                                  /\ Expiry[p] = Expiry[t]
<1> DEFINE time == TimeOf(HeadNumber + 1)
           reverted == {t \in pool : time <= Expiry[t]}
           young == {t \in reverted : Creation[t] < time}
           merged == Merged(young)
<1>1. PICK block \in SUBSET ((reverted \intersect Complete) \union merged) :
        /\ \A t \in block : Creation[t] < time
        /\ chain' = Append(chain, block)
        /\ \E back \in SUBSET ((reverted \union merged) \ KeysOf(block)) :
             /\ pool' = back
             /\ cache' = (cache \ pool) \union KeysOf(block) \union back
  BY DEF MineBlock, Alive
<1>2. young \in SUBSET Tx /\ reverted \in SUBSET Tx
  BY DEF TypeOK
<1>3. ASSUME NEW t \in merged
      PROVE  /\ t \in Tx
             /\ time <= Expiry[t]
             /\ \E p \in pool : Creation[p] = Creation[t] /\ Expiry[p] = Expiry[t]
  <2>1. t \in Tx
    BY <1>2, MergedProperties
  <2>2. PICK p \in young : Creation[p] = Creation[t] /\ Expiry[p] = Expiry[t]
    BY <1>2, MergedProperties
  <2> QED BY <2>1, <2>2
<1>4. \A t \in reverted \union merged :
        /\ time <= Expiry[t]
        /\ \E p \in pool : Creation[p] = Creation[t] /\ Expiry[p] = Expiry[t]
  BY <1>3
<1>5. block \in SUBSET Tx
  BY <1>1, <1>2, <1>3
<1> HIDE DEF merged, reverted
<1> QED BY <1>1, <1>4, <1>5

\* Blocks hold what is alive at their time, the pool what has a lifetime that is allowed.
LEMMA LiveHolds == Spec => [](BlocksHoldLiveTransactions /\ PoolLifetimes)
<1> DEFINE Live == BlocksHoldLiveTransactions /\ PoolLifetimes
<1>1. Init => Live
  BY DEF Init, BlocksHoldLiveTransactions, PoolLifetimes
<1>2. TypeOK /\ TypeOK' /\ Live /\ [Next]_vars => Live'
  <2> SUFFICES ASSUME TypeOK, TypeOK', Live, [Next]_vars
               PROVE  Live'
    OBVIOUS
  <2>1. CASE \E t \in Tx : Receive(t)
    BY <2>1 DEF Receive, ValidAt, BlocksHoldLiveTransactions, PoolLifetimes
  <2>2. CASE MineBlock
    <3>1. PICK block \in SUBSET Tx :
            /\ chain' = Append(chain, block)
            /\ \A t \in block : Creation[t] < TimeOf(HeadNumber + 1)
            /\ \A t \in block \union pool' :
                 /\ TimeOf(HeadNumber + 1) <= Expiry[t]
                 /\ \E p \in pool : Creation[p] = Creation[t] /\ Expiry[p] = Expiry[t]
      BY <2>2, MineTakesFromPool
    <3>2. \A t \in block \union pool' : Expiry[t] - Creation[t] <= Lifetime
      BY <3>1 DEF PoolLifetimes
    <3>3. ASSUME NEW t \in block
          PROVE  ValidAt(t, TimeOf(HeadNumber + 1), 0)
      <4>1. /\ Creation[t] < TimeOf(HeadNumber + 1)
            /\ TimeOf(HeadNumber + 1) <= Expiry[t]
            /\ Expiry[t] - Creation[t] <= Lifetime
        BY <3>1, <3>2
      <4>2. Creation[t] \in Int /\ Expiry[t] \in Int /\ TimeOf(HeadNumber + 1) \in Int
        BY TimeType, ConstantsAssumption DEF TypeOK, HeadNumber
      <4> QED BY <4>1, <4>2 DEF ValidAt
    <3>4. /\ DOMAIN chain' = DOMAIN chain \union {Len(chain) + 1}
          /\ \A i \in DOMAIN chain : chain'[i] = chain[i]
          /\ chain'[Len(chain) + 1] = block
          /\ (Len(chain) + 1) - 1 = HeadNumber + 1
      BY <3>1 DEF TypeOK, HeadNumber
    <3>5. BlocksHoldLiveTransactions'
      BY <3>3, <3>4 DEF BlocksHoldLiveTransactions
    <3> QED BY <3>2, <3>5 DEF PoolLifetimes
  <2>3. ASSUME NEW lcb \in 0..HeadNumber, NEW blocks \in Received, NEW more \in BOOLEAN,
               SyncBlocks(lcb, blocks, more)
        PROVE  Live'
    <3> DEFINE removed == UNION {chain[i] : i \in (lcb + 2)..Len(chain)}
    <3>1. /\ chain' = SubSeq(chain, 1, lcb + 1) \o blocks
          /\ \A i \in DOMAIN blocks : \A t \in blocks[i] : ValidAt(t, TimeOf(lcb + i), 0)
      BY <2>3 DEF SyncBlocks, Alive
    <3>2. pool' \subseteq removed \union pool
      BY <2>3 DEF SyncBlocks, Alive
    <3>3. /\ chain \in Seq(SUBSET Tx) /\ chain' \in Seq(SUBSET Tx)
          /\ Len(chain) \in Nat \ {0} /\ Len(chain') \in Nat
          /\ lcb \in 0..(Len(chain) - 1)
      BY DEF TypeOK, HeadNumber
    <3>4. /\ \A i \in 1..(lcb + 1) : chain'[i] = chain[i]
          /\ \A i \in (lcb + 2)..Len(chain') :
               /\ i - (lcb + 1) \in DOMAIN blocks
               /\ chain'[i] = blocks[i - (lcb + 1)]
      BY <3>1, <3>3, SpliceProperties
    <3>5. /\ DOMAIN chain' = 1..Len(chain')
          /\ DOMAIN chain = 1..Len(chain)
          /\ Len(chain) \in Nat /\ lcb \in Int
          /\ 1..(lcb + 1) \subseteq DOMAIN chain
          /\ \A i \in 1..(lcb + 1) : chain'[i] = chain[i]
          /\ \A i \in (lcb + 2)..Len(chain') :
               /\ i - (lcb + 1) \in DOMAIN blocks
               /\ chain'[i] = blocks[i - (lcb + 1)]
               /\ lcb + (i - (lcb + 1)) = i - 1
      BY <3>3, <3>4
    <3>6. ASSUME NEW i \in DOMAIN chain', NEW t \in chain'[i]
          PROVE  ValidAt(t, TimeOf(i - 1), 0)
      <4>1. CASE i \in 1..(lcb + 1)
        BY <3>5, <4>1 DEF BlocksHoldLiveTransactions
      <4>2. CASE i \in (lcb + 2)..Len(chain')
        BY <3>1, <3>5, <4>2
      <4>3. Len(chain') \in Int
        BY <3>1, SpliceProperties DEF TypeOK, HeadNumber
      <4> QED BY <3>5, <4>1, <4>2, <4>3
    <3>7. \A t \in removed : Expiry[t] - Creation[t] <= Lifetime
      BY <3>5 DEF BlocksHoldLiveTransactions, ValidAt
    <3>8. PoolLifetimes'
      BY <3>7, <3>2 DEF PoolLifetimes
    <3> QED BY <3>6, <3>8 DEF BlocksHoldLiveTransactions
  <2>4. CASE CleanCache \/ Restart \/ Tick \/ UNCHANGED vars
    BY <2>4 DEF CleanCache, Restart, Tick, vars, BlocksHoldLiveTransactions, PoolLifetimes
  <2>5. ASSUME NEW count \in 1..HeadNumber, RevertLastBlocks(count)
        PROVE  Live'
    <3>1. count \in Nat /\ count < Len(chain)
      BY <2>5 DEF RevertLastBlocks, HeadNumber
    <3>2. /\ DOMAIN chain' \subseteq DOMAIN chain
          /\ \A i \in DOMAIN chain' : chain'[i] = chain[i]
          /\ pool' = {}
      BY <2>5, <3>1, PrefixProperties DEF RevertLastBlocks, TypeOK
    <3> QED BY <3>2 DEF BlocksHoldLiveTransactions, PoolLifetimes
  <2> QED BY <2>1, <2>2, <2>3, <2>4, <2>5 DEF Next
<1> QED BY <1>1, <1>2, TypeCorrect, PTL DEF Spec

\* Every transaction of every block is alive at its block's own time, in the
\* strict sense in which another node validates it, although the pool admits it
\* with a tolerance.
THEOREM MinedBlocksAreLive == Spec => []BlocksHoldLiveTransactions
BY LiveHolds, PTL

\* The head may be ahead of the node's clock by the shift, and the clock ahead of
\* a pool transaction's expiry by the shift: twice the shift in all, which is why
\* the age at which clean() drops a key is not enough by itself.
PoolAges ==
  /\ HeadTime <= now + NodesTimeShift
  /\ \A t \in pool : HeadTime <= Expiry[t] + 2 * NodesTimeShift

PoolsCached == PoolInCache /\ PoolAges

LEMMA PoolsCachedStarts ==
  ASSUME Init
  PROVE  PoolsCached
<1>1. NodesTimeShift \in Nat
  BY ConstantsAssumption
<1> QED BY <1>1, ConstantsAssumption
       DEF Init, PoolsCached, PoolInCache, PoolAges, HeadTime, HeadNumber, TimeOf

\* Every step keeps the ages of the pool's transactions, and their keys in the cache when
\* they leave the shift of their lifetime unused.
LEMMA PoolsCachedSteps ==
  ASSUME TypeOK, PoolLifetimes, PoolsCached, [Next]_vars
  PROVE  PoolsCached'
<1> USE DEF PoolsCached
<1>0. NodesTimeShift \in Nat /\ Lifetime \in Nat
  BY ConstantsAssumption, LifetimeProperties
<1> TypeOK'
  BY TypeSteps
<1>1. /\ HeadNumber \in Int /\ HeadNumber' \in Int
      /\ HeadTime \in Int /\ HeadTime' \in Int
      /\ now \in Int /\ now' \in Int
      /\ \A t \in Tx : Creation[t] \in Int /\ Expiry[t] \in Int
  <2>1. HeadNumber \in Int /\ HeadNumber' \in Int
    BY DEF TypeOK, HeadNumber
  <2>2. HeadTime \in Int /\ HeadTime' \in Int
    BY <2>1, TimeType DEF HeadTime
  <2>3. now \in Int /\ now' \in Int
    BY DEF TypeOK
  <2>4. \A t \in Tx : Creation[t] \in Int /\ Expiry[t] \in Int
    BY ConstantsAssumption
  <2> QED BY <2>1, <2>2, <2>3, <2>4
<1>2. ASSUME NEW t \in Tx, Receive(t)
      PROVE  PoolsCached'
  <2>1. HeadTime' = HeadTime /\ now' = now
    BY <1>2 DEF Receive, HeadTime, HeadNumber
  <2>2. /\ now - NodesTimeShift <= Expiry[t]
        /\ pool' = pool \union {t} /\ cache' = cache \union {t}
    BY <1>2 DEF Receive, ValidAt
  <2>3. PoolInCache'
    BY <2>1, <2>2 DEF PoolInCache
  <2>4. HeadTime <= Expiry[t] + 2 * NodesTimeShift
    BY <1>0, <1>1, <2>2 DEF PoolAges
  <2> QED BY <2>1, <2>2, <2>4, <2>3 DEF PoolAges
<1>3. CASE MineBlock
  <2>1. PICK block \in SUBSET Tx :
          /\ chain' = Append(chain, block)
          /\ pool' \subseteq cache'
          /\ \A t \in block \union pool' : TimeOf(HeadNumber + 1) <= Expiry[t]
    BY <1>3, MineTakesFromPool
  <2>2. HeadTime' = TimeOf(HeadNumber + 1)
    <3>1. HeadNumber' = HeadNumber + 1
      BY <2>1 DEF HeadNumber, TypeOK
    <3> QED BY <3>1 DEF HeadTime
  <2>3. HeadTime' <= now' /\ now' = now
    BY <1>3, <2>2 DEF MineBlock, Alive
  <2>4. \A t \in pool' : HeadTime' <= Expiry[t] /\ t \in Tx
    BY <2>1, <2>2 DEF TypeOK
  <2> QED BY <1>0, <1>1, <2>1, <2>3, <2>4 DEF PoolInCache, PoolAges
<1>4. ASSUME NEW lcb \in 0..HeadNumber, NEW blocks \in Received, NEW more \in BOOLEAN,
             SyncBlocks(lcb, blocks, more)
      PROVE  PoolsCached'
  <2>1. /\ chain' = SubSeq(chain, 1, lcb + 1) \o blocks
        /\ TimeOf(lcb + Len(blocks)) <= now + NodesTimeShift
        /\ now' = now
        /\ pool' \subseteq cache'
        /\ \A t \in pool' : now - NodesTimeShift <= Expiry[t]
    BY <1>4 DEF SyncBlocks, Alive
  <2>2. HeadNumber' = lcb + Len(blocks)
    BY <2>1, SpliceProperties DEF TypeOK, HeadNumber
  <2>3. HeadTime' <= now + NodesTimeShift
    BY <2>1, <2>2 DEF HeadTime
  <2>4. \A t \in pool' : t \in Tx
    BY DEF TypeOK
  <2>5. PoolInCache'
    BY <2>1 DEF PoolInCache
  <2>6. PoolAges'
    BY <1>0, <1>1, <2>1, <2>3, <2>4 DEF PoolAges
  <2> QED BY <2>5, <2>6
<1>5. CASE CleanCache
  <2>1. /\ HeadTime' = HeadTime /\ now' = now /\ pool' = pool
        /\ cache' = {t \in cache : HeadTime - Creation[t] <= Lifetime + NodesTimeShift}
    BY <1>5 DEF CleanCache, HeadTime, HeadNumber
  <2>2. ASSUME NEW t \in pool, t \in cache, t \notin cache'
        PROVE  ~ ShortLived(t) /\ HeadTime > Expiry[t] + NodesTimeShift
    <3>1. /\ t \in Tx /\ HeadTime <= Expiry[t] + 2 * NodesTimeShift
          /\ Expiry[t] - Creation[t] <= Lifetime
      BY DEF TypeOK, PoolAges, PoolLifetimes
    <3>2. ~ (HeadTime - Creation[t] <= Lifetime + NodesTimeShift)
      BY <2>1, <2>2
    <3>3. HeadTime > Expiry[t] + NodesTimeShift
      BY <1>0, <1>1, <3>1, <3>2
    <3>4. ~ ShortLived(t)
      BY <1>0, <1>1, <3>1, <3>2 DEF ShortLived
    <3> QED BY <3>3, <3>4
  <2>3. PoolInCache'
    BY <2>1, <2>2 DEF PoolInCache
  <2> QED BY <2>1, <2>3 DEF PoolAges
<1>6. CASE Restart
  BY <1>6 DEF Restart, PoolInCache, PoolAges, HeadTime, HeadNumber
<1>7. ASSUME NEW count \in 1..HeadNumber, RevertLastBlocks(count)
      PROVE  PoolsCached'
  <2>1. count \in Nat /\ count < Len(chain)
    BY <1>7 DEF RevertLastBlocks, HeadNumber
  <2>2. HeadNumber' <= HeadNumber
    BY <1>7, <2>1, PrefixProperties DEF RevertLastBlocks, TypeOK, HeadNumber
  <2>3. HeadTime' <= HeadTime
    BY <1>1, <2>2, TimeOrder DEF HeadTime
  <2>4. pool' = {} /\ now' = now
    BY <1>7 DEF RevertLastBlocks
  <2> QED BY <1>0, <1>1, <2>3, <2>4 DEF PoolInCache, PoolAges
<1>8. CASE Tick
  <2>1. HeadTime' = HeadTime /\ now' = now + 1 /\ pool' = pool /\ cache' = cache
    BY <1>8 DEF Tick, HeadTime, HeadNumber
  <2> QED BY <1>0, <1>1, <2>1 DEF PoolInCache, PoolAges
<1>9. CASE UNCHANGED vars
  BY <1>9 DEF vars, PoolInCache, PoolAges, HeadTime, HeadNumber
<1> QED BY <1>2, <1>3, <1>4, <1>5, <1>6, <1>7, <1>8, <1>9 DEF Next

LEMMA PoolAgesHold == Spec => [](PoolInCache /\ PoolAges)
<1> SUFFICES Spec => []PoolsCached
  BY DEF PoolsCached
<1>1. TypeOK /\ PoolLifetimes /\ PoolsCached /\ [Next]_vars => PoolsCached'
  BY PoolsCachedSteps
<1> QED BY <1>1, PoolsCachedStarts, LiveHolds, TypeCorrect, PTL DEF Spec

\* A pool transaction keeps its key in the cache through cleanings, forks, restarts and
\* the node's own blocks.  One that uses the whole lifetime may lose it, and then only
\* when the head is more than the tolerance past its expiry: no block takes it any more,
\* the pool drops it when it is reverted next, and what it did to the state stays.
THEOREM PoolStaysCached == Spec => []PoolInCache
BY PoolAgesHold, PTL

\* What the timer drops from the cache is expired, by the time of the head and by the
\* node's clock; unless it uses the whole lifetime it is not in the pool and does not come
\* in again within the tolerance (CleanedAreExpired).
THEOREM CleaningIsSafe == Spec => CleanedAreExpired
<1>1. ASSUME TypeOK, PoolAges, CleanCache, NEW t \in cache \ cache'
      PROVE  /\ ~ ValidAt(t, HeadTime, NodesTimeShift) /\ ~ ValidAt(t, now, 0)
             /\ ShortLived(t) => t \notin pool /\ ~ ValidAt(t, now, NodesTimeShift)
  <2>1. t \in Tx /\ Creation[t] \in Int /\ Expiry[t] \in Int
    BY <1>1, ConstantsAssumption DEF TypeOK
  <2>2. /\ NodesTimeShift \in Nat /\ Lifetime \in Nat /\ now \in Int /\ HeadTime \in Int
        /\ HeadTime <= now + NodesTimeShift
    <3>1. HeadNumber \in Int
      BY <1>1 DEF TypeOK, HeadNumber
    <3> QED BY <1>1, <3>1, ConstantsAssumption, LifetimeProperties, TimeType
            DEF TypeOK, PoolAges, HeadTime
  <2>3. ~ (HeadTime - Creation[t] <= Lifetime + NodesTimeShift)
    BY <1>1 DEF CleanCache
  <2>4. t \in pool => HeadTime <= Expiry[t] + 2 * NodesTimeShift
    BY <1>1 DEF PoolAges
  <2>5. ~ ValidAt(t, HeadTime, NodesTimeShift)
    BY <2>1, <2>2, <2>3 DEF ValidAt
  <2>6. ~ ValidAt(t, now, 0)
    BY <2>1, <2>2, <2>3 DEF ValidAt
  <2>7. ASSUME ShortLived(t)
        PROVE  t \notin pool /\ ~ ValidAt(t, now, NodesTimeShift)
    <3>1. Expiry[t] - Creation[t] + NodesTimeShift <= Lifetime
      BY <2>7 DEF ShortLived
    <3>2. t \notin pool
      BY <2>1, <2>2, <2>3, <2>4, <3>1
    <3>3. ~ (now - NodesTimeShift <= Expiry[t])
      BY <2>1, <2>2, <2>3, <3>1
    <3> QED BY <3>2, <3>3 DEF ValidAt
  <2> QED BY <2>5, <2>6, <2>7
<1>2. TypeOK /\ PoolAges =>
        [CleanCache => \A t \in cache \ cache' :
           /\ ~ ValidAt(t, HeadTime, NodesTimeShift) /\ ~ ValidAt(t, now, 0)
           /\ ShortLived(t) => t \notin pool /\ ~ ValidAt(t, now, NodesTimeShift)]_vars
  BY <1>1
<1> QED BY <1>2, TypeCorrect, PoolAgesHold, PTL DEF CleanedAreExpired

-----------------------------------------------------------------------------
(* What is stored passes the checks at the next start. *)

\* The head was never cleaned further in the future than the tolerance allows.
CleanedInTime == TimeOf(cleaned) <= now + NodesTimeShift

\* The keys of a transaction of the chain are gone because it is deep, or because
\* they were cleaned by age.
GoneAreOver ==
  \A i \in DOMAIN chain : \A t \in chain[i] :
    Keys(t) \intersect (cache \ pool) = {} =>
      \/ i + LifetimeBlocks < Len(chain)
      \/ TimeOf(cleaned) - Creation[t] > Lifetime + NodesTimeShift

\* A form of a transaction that is on the chain comes into the pool again only when
\* that block is deeper than what is loaded at a start, or it uses the whole lifetime.
PoolIsOffChain ==
  \A t \in {p \in pool : ShortLived(p)} : \A i \in DOMAIN chain : \A u \in chain[i] :
    t \in Keys(u) => i + LifetimeBlocks < Len(chain)

RestartInv == CleanedInTime /\ GoneAreOver /\ PoolIsOffChain

\* Who would come back into the pool is expired when his keys were cleaned by age.
LEMMA GoneStayOut ==
  ASSUME TypeOK, RestartInv, NEW i \in DOMAIN chain, NEW u \in chain[i],
         NEW t \in Keys(u), ShortLived(t), now - NodesTimeShift <= Expiry[t],
         TimeOf(cleaned) - Creation[u] > Lifetime + NodesTimeShift
  PROVE  FALSE
<1>1. u \in Tx
  BY DEF TypeOK
<1>2. /\ Creation[u] \in Int /\ Expiry[u] \in Int
      /\ Expiry[t] = Expiry[u] /\ Creation[t] = Creation[u]
      /\ Expiry[u] - Creation[u] + NodesTimeShift <= Lifetime
  BY <1>1, KeysProperties DEF ShortLived
<1>3. /\ NodesTimeShift \in Nat /\ Lifetime \in Nat /\ now \in Int /\ TimeOf(cleaned) \in Int
      /\ TimeOf(cleaned) <= now + NodesTimeShift
  <2>1. cleaned \in Int /\ now \in Int
    BY DEF TypeOK
  <2> QED BY <2>1, ConstantsAssumption, LifetimeProperties, TimeType DEF RestartInv, CleanedInTime
<1> QED BY <1>2, <1>3

\* Mining leaves the keys of the chain in the cache: a merged transaction that goes
\* back to the pool has none of its keys there.
LEMMA MineLeavesKeys ==
  ASSUME TypeOK, MineBlock, NEW i \in DOMAIN chain, NEW t \in chain[i],
         Keys(t) \subseteq cache \ pool
  PROVE  Keys(t) \subseteq cache' \ pool'
<1> DEFINE reverted == Alive(TimeOf(HeadNumber + 1))
           young == {p \in reverted : Creation[p] < TimeOf(HeadNumber + 1)}
<1>1. /\ pool' \subseteq reverted \union Merged(young)
      /\ cache \ pool \subseteq cache'
  BY DEF MineBlock
<1>2. reverted \subseteq pool /\ young \subseteq pool /\ t \in Tx
  BY DEF Alive, TypeOK
<1>3. ASSUME NEW k \in Keys(t), k \in Merged(young)
      PROVE  FALSE
  <2>1. k \in Complete /\ Parts[k] # {} /\ Parts[k] \subseteq young
    BY <1>3 DEF Merged
  <2>2. k = t
    BY <1>2, <1>3, <2>1, PartsAssumption DEF Keys
  <2>3. PICK p \in Parts[k] : p \in pool
    BY <1>2, <2>1
  <2>4. p \in Keys(t)
    BY <2>2, <2>3 DEF Keys
  <2> QED BY <2>3, <2>4
<1> QED BY <1>1, <1>2, <1>3

\* The node's own block.
LEMMA MineKeepsRestart ==
  ASSUME TypeOK, UsedOnceInv, RestartInv, MineBlock
  PROVE  RestartInv'
<1> DEFINE reverted == Alive(TimeOf(HeadNumber + 1))
           young == {p \in reverted : Creation[p] < TimeOf(HeadNumber + 1)}
<1>1. PICK block :
        /\ block \in SUBSET ((reverted \intersect Complete) \union Merged(young))
        /\ chain' = Append(chain, block)
        /\ KeysOf(block) \subseteq cache'
        /\ pool' \intersect KeysOf(block) = {}
        /\ pool' \subseteq reverted \union Merged(young)
        /\ cache \ pool \subseteq cache'
        /\ now' = now /\ cleaned' = cleaned
  BY DEF MineBlock
<1> block \in SUBSET Tx
  BY <1>1, ConstantsAssumption DEF Merged, Alive, TypeOK
<1>2. PICK l \in Nat :
        /\ l = Len(chain) /\ DOMAIN chain = 1..l
        /\ Len(chain') = l + 1 /\ DOMAIN chain' = 1..(l + 1)
        /\ \A i \in 1..l : chain'[i] = chain[i]
        /\ chain'[l + 1] = block
  BY <1>1 DEF TypeOK
<1>3. LifetimeBlocks \in Nat /\ \A i \in 1..(l + 1) : i \in 1..l \/ i = l + 1
  BY ConstantsAssumption
<1>4. \A t \in block : Keys(t) \subseteq cache' \ pool' /\ t \in Keys(t)
  BY <1>1 DEF KeysOf, Keys
<1>5. CleanedInTime'
  BY <1>1 DEF RestartInv, CleanedInTime
<1>6. GoneAreOver'
  <2> SUFFICES ASSUME NEW i \in DOMAIN chain', NEW t \in chain'[i],
                      Keys(t) \intersect (cache' \ pool') = {}
               PROVE  \/ i + LifetimeBlocks < Len(chain')
                      \/ TimeOf(cleaned') - Creation[t] > Lifetime + NodesTimeShift
    BY DEF GoneAreOver
  <2>1. i \in 1..l
    BY <1>2, <1>3, <1>4
  <2>2. t \in chain[i] /\ t \in Keys(t) /\ i \in DOMAIN chain
    BY <1>2, <2>1 DEF Keys
  <2>3. ~ (Keys(t) \subseteq cache \ pool)
    BY <2>2, MineLeavesKeys
  <2>4. Keys(t) \intersect (cache \ pool) = {}
    BY <2>2, <2>3 DEF UsedOnceInv, CacheProtectsChain
  <2> QED BY <1>1, <1>2, <1>3, <2>1, <2>2, <2>4 DEF RestartInv, GoneAreOver
<1>7. PoolIsOffChain'
  <2> SUFFICES ASSUME NEW t \in pool', ShortLived(t),
                      NEW i \in DOMAIN chain', NEW u \in chain'[i], t \in Keys(u)
               PROVE  i + LifetimeBlocks < Len(chain')
    BY DEF PoolIsOffChain
  <2>1. i \in 1..l
    BY <1>2, <1>3, <1>4
  <2>2. u \in chain[i] /\ i \in DOMAIN chain /\ u \in Tx
    BY <1>2, <2>1 DEF TypeOK
  <2>3. PICK p \in pool : p \in Keys(u)
    <3>1. CASE t \in pool
      BY <3>1
    <3>2. CASE t \notin pool
      <4>1. t \in Complete /\ Parts[t] # {} /\ Parts[t] \subseteq pool
        BY <1>1, <3>2 DEF Merged, Alive
      <4>2. t = u
        BY <2>2, <4>1, PartsAssumption DEF Keys
      <4> QED BY <4>1, <4>2 DEF Keys
    <3> QED BY <3>1, <3>2
  <2>4. ShortLived(p)
    <3>1. Creation[p] = Creation[t] /\ Expiry[p] = Expiry[t]
      BY <2>2, <2>3, KeysProperties
    <3> QED BY <3>1 DEF ShortLived
  <2>5. i + LifetimeBlocks < l
    BY <1>2, <2>2, <2>3, <2>4 DEF RestartInv, PoolIsOffChain
  <2> QED BY <1>2, <1>3, <2>1, <2>5
<1> QED BY <1>5, <1>6, <1>7 DEF RestartInv

\* A sync: what is rewound puts back the keys of a lifetime of blocks below.
LEMMA SyncKeepsRestart ==
  ASSUME TypeOK, UsedOnceInv, RestartInv, NEW lcb \in 0..HeadNumber,
         NEW blocks \in Received, NEW more \in BOOLEAN, SyncBlocks(lcb, blocks, more)
  PROVE  RestartInv'
<1> DEFINE rewound == RewoundCache(lcb)
           received == UNION {blocks[i] : i \in DOMAIN blocks}
           old == 1..(lcb + 1)
           new == (lcb + 2)..Len(chain')
<1>1. /\ chain' = SubSeq(chain, 1, lcb + 1) \o blocks
      /\ cleaned' = cleaned /\ now' = now
      /\ cache' \ pool' = rewound \union KeysOf(received)
      /\ pool' \intersect (rewound \union KeysOf(received)) = {}
      /\ \A t \in pool' : now - NodesTimeShift <= Expiry[t]
  BY DEF SyncBlocks
<1>2. PICK l \in Nat :
        /\ l = Len(chain) /\ DOMAIN chain = 1..l /\ lcb \in 0..(l - 1)
        /\ lcb \in Int /\ LifetimeBlocks \in Int
  BY ConstantsAssumption DEF TypeOK, HeadNumber
<1>3. /\ chain' \in Seq(SUBSET Tx)
      /\ Len(blocks) \in Nat \ {0}
      /\ Len(chain') = lcb + 1 + Len(blocks)
      /\ \A i \in old : chain'[i] = chain[i]
      /\ \A i \in new : /\ i - (lcb + 1) \in DOMAIN blocks
                        /\ chain'[i] = blocks[i - (lcb + 1)]
  <2>1. chain \in Seq(SUBSET Tx) /\ lcb \in 0..(Len(chain) - 1)
    BY <1>2 DEF TypeOK
  <2>2. PICK d : d = SubSeq(chain, 1, lcb + 1) \o blocks
    OBVIOUS
  <2>3. chain' = d
    BY <1>1, <2>2
  <2>4. /\ d \in Seq(SUBSET Tx)
        /\ Len(blocks) \in Nat \ {0}
        /\ Len(d) = lcb + 1 + Len(blocks)
        /\ \A i \in old : d[i] = chain[i]
        /\ \A i \in (lcb + 2)..Len(d) : /\ i - (lcb + 1) \in DOMAIN blocks
                                        /\ d[i] = blocks[i - (lcb + 1)]
    BY <2>1, <2>2, SpliceProperties
  <2> QED BY <2>3, <2>4
<1>4. /\ \A i \in DOMAIN chain' : i \in old \/ i \in new
      /\ \A i \in old : i \in DOMAIN chain
      /\ \A i \in old : i + LifetimeBlocks < lcb + 2 => i + LifetimeBlocks < Len(chain')
  <2>1. PICK m \in Int : m = Len(chain') /\ lcb + 2 <= m /\ lcb \in Nat
    <3>1. lcb \in Nat /\ Len(blocks) \in Nat /\ Len(blocks) >= 1
      BY <1>2, <1>3
    <3>2. Len(chain') \in Int /\ lcb + 2 <= Len(chain')
      BY <1>3, <3>1
    <3> QED BY <3>1, <3>2
  <2>2. DOMAIN chain' = 1..m
    BY <1>3, <2>1
  <2>3. \A i \in 1..m : i \in 1..(lcb + 1) \/ i \in (lcb + 2)..m
    BY <2>1
  <2>4. \A i \in 1..(lcb + 1) : i \in 1..l
    BY <1>2
  <2>5. \A i \in 1..(lcb + 1) : i + LifetimeBlocks < lcb + 2 => i + LifetimeBlocks < m
    BY <1>2, <2>1
  <2> QED BY <1>2, <2>1, <2>2, <2>3, <2>4, <2>5
<1> HIDE DEF rewound, old, new
<1>5. ASSUME NEW i \in new, NEW t \in chain'[i]
      PROVE  Keys(t) \subseteq cache' \ pool' /\ t \in Keys(t)
  <2>1. t \in received
    BY <1>3
  <2> HIDE DEF received
  <2> QED BY <1>1, <2>1 DEF KeysOf, Keys
<1>6. ASSUME NEW i \in old, NEW t \in chain[i], ~ (Keys(t) \subseteq rewound)
      PROVE  \/ i + LifetimeBlocks < Len(chain')
             \/ TimeOf(cleaned) - Creation[t] > Lifetime + NodesTimeShift
  <2>1. /\ Keys(t) \intersect (cache \ pool) = {}
        /\ i + LifetimeBlocks < lcb + 2 \/ i + LifetimeBlocks > Len(chain)
    BY <1>6, RewoundProperties DEF rewound, old
  <2>2. \/ i + LifetimeBlocks < Len(chain)
        \/ TimeOf(cleaned) - Creation[t] > Lifetime + NodesTimeShift
    BY <1>4, <2>1 DEF RestartInv, GoneAreOver
  <2>3. i + LifetimeBlocks \in Int
    BY <1>2 DEF old
  <2> QED BY <1>2, <1>4, <2>1, <2>2, <2>3
<1>7. CleanedInTime'
  BY <1>1 DEF RestartInv, CleanedInTime
<1>8. GoneAreOver'
  <2> SUFFICES ASSUME NEW i \in DOMAIN chain', NEW t \in chain'[i],
                      Keys(t) \intersect (cache' \ pool') = {}
               PROVE  \/ i + LifetimeBlocks < Len(chain')
                      \/ TimeOf(cleaned') - Creation[t] > Lifetime + NodesTimeShift
    BY DEF GoneAreOver
  <2>1. i \in old
    BY <1>4, <1>5
  <2>2. t \in chain[i] /\ t \in Keys(t)
    BY <1>3, <2>1 DEF Keys
  <2>3. ~ (Keys(t) \subseteq rewound)
    BY <1>1, <2>2
  <2> QED BY <1>1, <1>6, <2>1, <2>2, <2>3
<1>9. PoolIsOffChain'
  <2> SUFFICES ASSUME NEW t \in pool', ShortLived(t),
                      NEW i \in DOMAIN chain', NEW u \in chain'[i], t \in Keys(u)
               PROVE  i + LifetimeBlocks < Len(chain')
    BY DEF PoolIsOffChain
  <2>1. i \in old
    BY <1>4, <1>5
  <2>2. u \in chain[i] /\ i \in DOMAIN chain
    BY <1>3, <1>4, <2>1
  <2>3. ~ (Keys(u) \subseteq rewound)
    BY <1>1
  <2>4. ~ (TimeOf(cleaned) - Creation[u] > Lifetime + NodesTimeShift)
    BY <1>1, <2>2, GoneStayOut
  <2> QED BY <1>6, <2>1, <2>2, <2>3, <2>4
<1> QED BY <1>7, <1>8, <1>9 DEF RestartInv

\* A transaction comes in.
LEMMA ReceiveKeepsRestart ==
  ASSUME TypeOK, UsedOnceInv, RestartInv, NEW t \in Tx, Receive(t)
  PROVE  RestartInv'
<1>1. /\ chain' = chain /\ cleaned' = cleaned /\ now' = now
      /\ cache' \ pool' = cache \ pool
      /\ pool' = pool \union {t}
      /\ t \notin cache /\ now - NodesTimeShift <= Expiry[t]
  BY DEF Receive, ValidAt
<1>2. CleanedInTime' /\ GoneAreOver'
  BY <1>1 DEF RestartInv, CleanedInTime, GoneAreOver
<1>3. ASSUME ShortLived(t), NEW i \in DOMAIN chain, NEW u \in chain[i], t \in Keys(u)
      PROVE  i + LifetimeBlocks < Len(chain)
  <2>1. Keys(u) \intersect (cache \ pool) = {}
    BY <1>1, <1>3 DEF UsedOnceInv, CacheProtectsChain
  <2>2. ~ (TimeOf(cleaned) - Creation[u] > Lifetime + NodesTimeShift)
    BY <1>1, <1>3, GoneStayOut
  <2> QED BY <2>1, <2>2 DEF RestartInv, GoneAreOver
<1>4. PoolIsOffChain'
  BY <1>1, <1>3 DEF RestartInv, PoolIsOffChain
<1> QED BY <1>2, <1>4 DEF RestartInv

\* The keys are cleaned by age.
LEMMA CleanKeepsRestart ==
  ASSUME TypeOK, UsedOnceInv, PoolAges, RestartInv, CleanCache
  PROVE  RestartInv'
<1>1. /\ chain' = chain /\ pool' = pool /\ now' = now
      /\ cache' = {t \in cache : HeadTime - Creation[t] <= Lifetime + NodesTimeShift}
      /\ cleaned' = IF cleaned < HeadNumber THEN HeadNumber ELSE cleaned
  BY DEF CleanCache
<1>2. /\ HeadNumber \in Int /\ cleaned \in Int /\ cleaned' \in Int
      /\ HeadNumber <= cleaned' /\ cleaned <= cleaned'
  BY <1>1 DEF TypeOK, HeadNumber
<1>3. /\ HeadTime \in Int /\ TimeOf(cleaned) \in Int /\ TimeOf(cleaned') \in Int
      /\ HeadTime <= TimeOf(cleaned') /\ TimeOf(cleaned) <= TimeOf(cleaned')
  BY <1>2, TimeType, TimeOrder DEF HeadTime
<1>4. CleanedInTime'
  <2>1. cleaned' = HeadNumber \/ cleaned' = cleaned
    BY <1>1
  <2> QED BY <1>1, <2>1 DEF RestartInv, CleanedInTime, PoolAges, HeadTime
<1>5. GoneAreOver'
  <2> SUFFICES ASSUME NEW i \in DOMAIN chain, NEW t \in chain[i],
                      Keys(t) \intersect (cache' \ pool) = {}
               PROVE  \/ i + LifetimeBlocks < Len(chain)
                      \/ TimeOf(cleaned') - Creation[t] > Lifetime + NodesTimeShift
    BY <1>1 DEF GoneAreOver
  <2>1. /\ t \in Tx /\ t \in Keys(t) /\ Creation[t] \in Int
        /\ Lifetime + NodesTimeShift \in Int
    BY KeysProperties, LifetimeProperties, ConstantsAssumption DEF TypeOK
  <2>2. CASE Keys(t) \subseteq cache \ pool
    <3>1. ~ (HeadTime - Creation[t] <= Lifetime + NodesTimeShift)
      BY <1>1, <2>1, <2>2
    <3> QED BY <1>3, <2>1, <3>1
  <2>3. CASE Keys(t) \intersect (cache \ pool) = {}
    <3>1. \/ i + LifetimeBlocks < Len(chain)
          \/ TimeOf(cleaned) - Creation[t] > Lifetime + NodesTimeShift
      BY <2>3 DEF RestartInv, GoneAreOver
    <3> QED BY <1>3, <2>1, <3>1
  <2> QED BY <2>2, <2>3 DEF UsedOnceInv, CacheProtectsChain
<1>6. PoolIsOffChain'
  BY <1>1 DEF RestartInv, PoolIsOffChain
<1> QED BY <1>4, <1>5, <1>6 DEF RestartInv

\* What is not loaded at a start is deeper than a lifetime.
LEMMA NotLoadedIsDeep ==
  ASSUME NEW c \in Seq(SUBSET Tx), NEW i \in DOMAIN c, i \notin RecentIndices(c)
  PROVE  i + LifetimeBlocks < Len(c)
<1>1. PICK l \in Nat : l = Len(c) /\ i \in 1..l
  OBVIOUS
<1>2. LifetimeBlocks \in Nat /\ NodesTimeShift \in Nat /\ l - i \in Int
  BY <1>1, ConstantsAssumption
<1>3. ~ (TimeOf(l - i) <= TimeOf(LifetimeBlocks) + NodesTimeShift)
  BY <1>1, LifetimeProperties DEF RecentIndices
<1>4. TimeOf(l - i) \in Int /\ TimeOf(LifetimeBlocks) \in Int
  BY <1>2, TimeType
<1>5. ~ (l - i <= LifetimeBlocks)
  <2>1. SUFFICES ASSUME l - i <= LifetimeBlocks PROVE FALSE
    OBVIOUS
  <2>2. TimeOf(l - i) <= TimeOf(LifetimeBlocks)
    BY <1>2, <2>1, TimeOrder
  <2> QED BY <1>2, <1>3, <1>4, <2>2
<1> QED BY <1>1, <1>2, <1>5

\* And what is deeper than a lifetime is not loaded, when the tolerance is shorter
\* than the time between two blocks.
LEMMA DeepIsNotLoaded ==
  ASSUME ShiftWithinBlock, NEW c \in Seq(SUBSET Tx), NEW i \in DOMAIN c,
         i + LifetimeBlocks < Len(c)
  PROVE  i \notin RecentIndices(c)
<1>1. PICK l \in Nat : l = Len(c) /\ i \in 1..l
  OBVIOUS
<1>2. LifetimeBlocks \in Nat /\ NodesTimeShift \in Nat /\ l - i \in Int /\ BlockMineDelay \in Nat
  BY <1>1, ConstantsAssumption
<1>3. LifetimeBlocks + 1 <= l - i /\ LifetimeBlocks + 1 \in Int
  BY <1>1, <1>2
<1>4. /\ TimeOf(LifetimeBlocks + 1) <= TimeOf(l - i)
      /\ TimeOf(l - i) \in Int
  BY <1>2, <1>3, TimeOrder, TimeType
<1>5. TimeOf(LifetimeBlocks + 1) = Lifetime + BlockMineDelay /\ Lifetime \in Nat
  BY <1>2, LifetimeProperties DEF TimeOf
<1>6. ~ (TimeOf(l - i) <= Lifetime + NodesTimeShift)
  BY <1>2, <1>4, <1>5 DEF ShiftWithinBlock
<1> QED BY <1>1, <1>6 DEF RecentIndices

\* A start, with the stored chain or a prefix of it.
LEMMA LoadKeepsRestart ==
  ASSUME TypeOK', RestartInv, cache' \ pool' = LoadedKeys(chain'), cleaned' = 0, now' = now,
         PoolIsOffChain'
  PROVE  RestartInv'
<1>1. CleanedInTime'
  <2>1. TimeOf(0) = 0
    BY ConstantsAssumption DEF TimeOf
  <2>2. 0 <= now' + NodesTimeShift
    BY ConstantsAssumption DEF TypeOK
  <2> QED BY <2>1, <2>2 DEF CleanedInTime
<1>2. GoneAreOver'
  <2> SUFFICES ASSUME NEW i \in DOMAIN chain', NEW t \in chain'[i],
                      Keys(t) \intersect LoadedKeys(chain') = {}
               PROVE  i + LifetimeBlocks < Len(chain')
    BY DEF GoneAreOver
  <2>1. i \notin RecentIndices(chain')
    <3>1. t \in Keys(t)
      BY DEF Keys
    <3> QED BY <3>1 DEF LoadedKeys, KeysOf
  <2> QED BY <2>1, NotLoadedIsDeep DEF TypeOK
<1> QED BY <1>1, <1>2 DEF RestartInv

\* The program starts again whenever it is stopped: no key that is loaded from the
\* chain is there twice, or in the pool, unless a pool transaction uses the whole lifetime
\* (CanAlwaysRestart).  The tolerance of the nodes matters twice: for the lifetime of what
\* is cleaned, and for the blocks that are loaded.
THEOREM AlwaysRestarts ==
  RewindsCovered /\ ShiftWithinBlock => (Spec => []CanAlwaysRestart)
<1> SUFFICES ASSUME RewindsCovered, ShiftWithinBlock
             PROVE  Spec => []CanAlwaysRestart
  OBVIOUS
<1>1. Init => RestartInv
  <2> SUFFICES ASSUME Init PROVE RestartInv
    OBVIOUS
  <2>1. \A i \in DOMAIN chain : chain[i] = {}
    BY DEF Init
  <2>2. TimeOf(cleaned) = 0 /\ now = 0 /\ pool = {}
    BY ConstantsAssumption DEF Init, TimeOf
  <2>3. 0 <= 0 + NodesTimeShift
    BY ConstantsAssumption
  <2> QED BY <2>1, <2>2, <2>3 DEF RestartInv, CleanedInTime, GoneAreOver, PoolIsOffChain
<1>2. ASSUME TypeOK, TypeOK', UsedOnceInv, PoolAges, RestartInv, [Next]_vars
      PROVE  RestartInv'
  <2>1. CASE \E t \in Tx : Receive(t)
    BY <1>2, <2>1, ReceiveKeepsRestart
  <2>2. CASE MineBlock
    BY <1>2, <2>2, MineKeepsRestart
  <2>3. CASE \E lcb \in 0..HeadNumber, blocks \in Received, more \in BOOLEAN :
               SyncBlocks(lcb, blocks, more)
    BY <1>2, <2>3, SyncKeepsRestart
  <2>4. CASE CleanCache
    BY <1>2, <2>4, CleanKeepsRestart
  <2>5. CASE Restart
    <3>1. UNCHANGED <<chain, pool, now>> /\ cleaned' = 0 /\ cache' \ pool' = LoadedKeys(chain')
      BY <2>5 DEF Restart, LoadSucceeds
    <3>2. PoolIsOffChain'
      BY <1>2, <3>1 DEF RestartInv, PoolIsOffChain
    <3> QED BY <1>2, <3>1, <3>2, LoadKeepsRestart
  <2>6. CASE \E count \in 1..HeadNumber : RevertLastBlocks(count)
    <3>1. pool' = {} /\ now' = now /\ cleaned' = 0 /\ cache' \ pool' = LoadedKeys(chain')
      BY <2>6 DEF RevertLastBlocks
    <3>2. PoolIsOffChain'
      BY <3>1 DEF PoolIsOffChain
    <3> QED BY <1>2, <3>1, <3>2, LoadKeepsRestart
  <2>7. CASE Tick
    <3>1. UNCHANGED <<chain, pool, cache, cleaned>> /\ now' = now + 1
      BY <2>7 DEF Tick
    <3>2. now \in Int /\ NodesTimeShift \in Int /\ TimeOf(cleaned) \in Int
      BY <1>2, ConstantsAssumption, TimeType DEF TypeOK
    <3>3. TimeOf(cleaned) <= now' + NodesTimeShift
      BY <1>2, <3>1, <3>2 DEF RestartInv, CleanedInTime
    <3> QED BY <1>2, <3>1, <3>3 DEF RestartInv, CleanedInTime, GoneAreOver, PoolIsOffChain
  <2>8. CASE UNCHANGED vars
    BY <1>2, <2>8 DEF vars, RestartInv, CleanedInTime, GoneAreOver, PoolIsOffChain
  <2> QED BY <1>2, <2>1, <2>2, <2>3, <2>4, <2>5, <2>6, <2>7, <2>8 DEF Next
<1>3. ASSUME TypeOK, UsedOnceInv, RestartInv
      PROVE  CanAlwaysRestart
  <2>1. RecentIndices(chain) \subseteq DOMAIN chain
    BY DEF RecentIndices
  <2>2. \A i, j \in RecentIndices(chain) : \A t \in chain[i], u \in chain[j] :
          (i # j \/ t # u) => Keys(t) \intersect Keys(u) = {}
    BY <1>3, <2>1 DEF UsedOnceInv, NoDoubleUse
  <2>3. ASSUME NEW t \in pool, ShortLived(t), t \in LoadedKeys(chain)
        PROVE  FALSE
    <3>1. PICK i \in RecentIndices(chain) : \E u \in chain[i] : t \in Keys(u)
      BY <2>3 DEF LoadedKeys, KeysOf
    <3>2. i + LifetimeBlocks < Len(chain)
      BY <1>3, <2>1, <2>3, <3>1 DEF RestartInv, PoolIsOffChain
    <3> QED BY <1>3, <2>1, <3>2, DeepIsNotLoaded DEF TypeOK
  <2> QED BY <2>2, <2>3 DEF CanAlwaysRestart, LoadSucceeds
<1> QED BY <1>1, <1>2, <1>3, TypeCorrect, UsedOnceHolds, PoolAgesHold, PTL DEF Spec
=============================================================================
