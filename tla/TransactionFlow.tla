--------------------------- MODULE TransactionFlow ---------------------------
(***************************************************************************)
(* How signed transactions move through one node of the publiq.pp ledger:  *)
(* from the network into the transaction pool, from the pool into a mined  *)
(* block, out of the chain when a better one is synchronised, and back.    *)
(*                                                                         *)
(* The node's protection against using a transaction twice is an in-memory *)
(* set of hashes, transaction_cache.  It is not the chain: it is erased,   *)
(* refilled, cleaned by age and reloaded at start, and this module is      *)
(* about what it promises all the same.  Whether a transaction can be      *)
(* applied to the balances is left open here (an action may leave any      *)
(* transaction out); module Ledger says when, and implements this module.  *)
(***************************************************************************)
EXTENDS Integers, Sequences

CONSTANTS
  Tx,              \* signed transactions, the single-signature forms included
  Complete,        \* those that carry the signature of every owner
  Parts,           \* Parts[t]: the single-signature forms of a transaction
                   \* with several authorizations, {} for the others
  Creation,        \* Creation[t], Expiry[t]: transaction_details.creation, expiry
  Expiry,
  BlockMineDelay,  \* BLOCK_MINE_DELAY
  NodesTimeShift,  \* NODES_TIME_SHIFT
  LifetimeBlocks,  \* TRANSACTION_MAX_LIFETIME_HOURS in blocks (144)
  RecentBlocks,    \* BLOCK_TR_LENGTH + 1
  InsertLength,    \* BLOCK_INSERT_LENGTH
  MaxRewind,       \* bound: how far below the last cleaned head a sync forks off
  MaxSync,         \* bound: blocks received by one sync
  MaxTime,         \* bound: the node's clock
  MaxBlocks        \* bound: block numbers

ASSUME ConstantsAssumption ==
  /\ Complete \subseteq Tx
  /\ Parts \in [Tx -> SUBSET Tx]
  /\ Creation \in [Tx -> Int]
  /\ Expiry \in [Tx -> Int]
  /\ BlockMineDelay \in Nat \ {0}
  /\ NodesTimeShift \in Nat
  /\ LifetimeBlocks \in Nat \ {0}
  /\ RecentBlocks \in Nat
  /\ InsertLength \in Nat \ {0}
  /\ MaxRewind \in Nat
  /\ MaxSync \in Nat
  /\ MaxTime \in Nat
  /\ MaxBlocks \in Nat

\* The forms of one transaction share its details, the two times among them; a
\* single-signature form of a transaction with several owners is not complete.
ASSUME PartsAssumption ==
  \A t \in Tx : \A p \in Parts[t] :
    /\ Creation[p] = Creation[t]
    /\ Expiry[p] = Expiry[t]
    /\ p \notin Complete
    /\ Parts[p] = {}

VARIABLES
  chain,    \* sequence of sets of transactions; chain[1] is the genesis block
  pool,     \* the transaction pool
  cache,    \* the keys held by transaction_cache
  now,      \* the node's clock; the genesis block is signed at 0
  cleaned   \* number of the highest head at which the cache was cleaned

vars == <<chain, pool, cache, now, cleaned>>

-----------------------------------------------------------------------------
Lifetime == LifetimeBlocks * BlockMineDelay

\* Every header is signed exactly BLOCK_MINE_DELAY after the previous one.
TimeOf(number) == number * BlockMineDelay

HeadNumber == Len(chain) - 1
HeadTime == TimeOf(HeadNumber)

\* The keys transaction_cache::add_chain inserts for a transaction.
Keys(t) == {t} \union Parts[t]
KeysOf(S) == UNION {Keys(t) : t \in S}

\* add_chain accepted every transaction of S, one after another.
KeysDisjoint(S) == \A t, u \in S : t # u => Keys(t) \intersect Keys(u) = {}

\* signed_transaction_validate at a time, with the tolerance given to it
ValidAt(t, time, shift) ==
  /\ Creation[t] <= time + shift
  /\ time - shift <= Expiry[t]
  /\ Expiry[t] - Creation[t] <= Lifetime

\* Fault: the block at the end of the lifetime is not read.
RecentIndicesShort(c) == {i \in DOMAIN c : TimeOf(Len(c) - i) < Lifetime}

\* The blocks load_transaction_cache reads at start.
RecentIndices(c) ==
  {i \in DOMAIN c : TimeOf(Len(c) - i) <= Lifetime + NodesTimeShift}

\* load_transaction_cache at start: the keys of the recent blocks of a chain,
\* then those of the pool.  It throws on a key that is there already, and the
\* program does not start.
LoadedKeys(c) == KeysOf(UNION {c[i] : i \in RecentIndices(c)})
LoadSucceeds(c, p) ==
  /\ \A i, j \in RecentIndices(c) : \A t \in c[i], u \in c[j] :
       (i # j \/ t # u) => Keys(t) \intersect Keys(u) = {}
  /\ p \intersect LoadedKeys(c) = {}

\* revert_pool empties the pool; this is what it returns.
Alive(time) == {t \in pool : time <= Expiry[t]}

\* Incomplete transactions of S that together carry every signature.
Merged(S) == {t \in Complete : Parts[t] # {} /\ Parts[t] \subseteq S \ Complete}

-----------------------------------------------------------------------------
Init ==
  /\ chain = << {} >>
  /\ pool = {}
  /\ cache = {}
  /\ now = 0
  /\ cleaned = 0

\* A transaction arrives from a peer or over RPC and enters the pool.
Receive(t) ==
  /\ ValidAt(t, now, NodesTimeShift)
  /\ HeadTime >= now - RecentBlocks * BlockMineDelay
  /\ t \notin cache
  /\ pool' = pool \union {t}
  /\ cache' = cache \union {t}
  /\ UNCHANGED <<chain, now, cleaned>>

\* The node mines the next block; the whole pool is reverted first, and what
\* does not enter the block may return to the pool.
MineBlock ==
  LET time     == TimeOf(HeadNumber + 1)
      reverted == Alive(time)
      erased   == cache \ pool
      merged   == Merged({t \in reverted : Creation[t] < time})
  IN
  /\ HeadNumber < MaxBlocks
  /\ now >= time
  /\ \E block \in SUBSET ((reverted \intersect Complete) \union merged) :
       /\ \A t \in block : Creation[t] < time
       /\ KeysDisjoint(block)
       /\ KeysOf(block) \intersect erased = {}
       /\ chain' = Append(chain, block)
       /\ \E back \in SUBSET ((reverted \union merged) \ KeysOf(block)) :
            /\ pool' = back
            /\ cache' = erased \union KeysOf(block) \union back
  /\ UNCHANGED <<now, cleaned>>

\* Fault: the old blocks are not put in the cache again.
RewoundCacheForgets(lcb) ==
  (cache \ pool) \ KeysOf(UNION {chain[i] : i \in (lcb + 2)..Len(chain)})

\* The cache after the pool was reverted and the blocks above lcb removed: the
\* keys of the removed blocks are gone, and for each removed block the one a
\* transaction lifetime below it is put in again (add_chain puts in all keys of
\* a transaction or, when it finds one of them, none).
RewoundCache(lcb) ==
  LET removed == UNION {chain[i] : i \in (lcb + 2)..Len(chain)}
      kept    == (cache \ pool) \ KeysOf(removed)
      old     == UNION {chain[i] : i \in {j \in DOMAIN chain :
                     /\ j + LifetimeBlocks >= lcb + 2
                     /\ j + LifetimeBlocks <= Len(chain)}}
  IN  kept \union KeysOf({t \in old \ removed : Keys(t) \intersect kept = {}})

\* The blocks received from a peer replace everything above the last common
\* block.  "more" is true when the peer's headers go further than the blocks
\* collected so far, and the pool is then given up.
SyncBlocks(lcb, blocks, more) ==
  LET rewound  == RewoundCache(lcb)
      received == UNION {blocks[i] : i \in DOMAIN blocks}
      inserted == rewound \union KeysOf(received)
      removed  == UNION {chain[i] : i \in (lcb + 2)..Len(chain)}
      pooled   == IF more THEN {} ELSE Alive(now)
  IN
  /\ lcb >= cleaned - MaxRewind
  /\ lcb + Len(blocks) <= MaxBlocks
  /\ chain' = SubSeq(chain, 1, lcb + 1) \o blocks
  /\ more => Len(blocks) >= InsertLength
  /\ TimeOf(lcb + Len(blocks)) <= now + NodesTimeShift
  /\ \A i \in DOMAIN blocks : \A t \in blocks[i] : ValidAt(t, TimeOf(lcb + i), 0)
  /\ \A i, j \in DOMAIN blocks : i # j => blocks[i] \intersect blocks[j] = {}
  /\ KeysDisjoint(received)
  /\ KeysOf(received) \intersect rewound = {}
  /\ \E back \in SUBSET {t \in (removed \union pooled) \ inserted :
                            now - NodesTimeShift <= Expiry[t]} :
       /\ pool' = back
       /\ cache' = inserted \union back
  /\ UNCHANGED <<now, cleaned>>

\* Fault: the tolerance is left out of the age.
CleanCacheEarly ==
  /\ cache' = {t \in cache : HeadTime - Creation[t] <= Lifetime}
  /\ cleaned' = IF cleaned < HeadNumber THEN HeadNumber ELSE cleaned
  /\ UNCHANGED <<chain, pool, now>>

\* The CACHE_CLEANUP_TIMER handler.
CleanCache ==
  /\ cache' = {t \in cache : HeadTime - Creation[t] <= Lifetime + NodesTimeShift}
  /\ cleaned' = IF cleaned < HeadNumber THEN HeadNumber ELSE cleaned
  /\ UNCHANGED <<chain, pool, now>>

\* Fault: the pool's keys are not loaded.
RestartWithoutPool ==
  /\ LoadSucceeds(chain, pool)
  /\ cache' = LoadedKeys(chain)
  /\ cleaned' = 0
  /\ UNCHANGED <<chain, pool, now>>

\* The process stops at any time and starts again from its stored files.
Restart ==
  /\ LoadSucceeds(chain, pool)
  /\ cache' = LoadedKeys(chain) \union pool
  /\ cleaned' = 0
  /\ UNCHANGED <<chain, pool, now>>

\* Fault: one block too many is reverted.
RevertLastBlocksMore(count) ==
  /\ chain' = SubSeq(chain, 1, Len(chain) - count - 1)
  /\ pool' = {}
  /\ cache' = LoadedKeys(chain')
  /\ cleaned' = 0
  /\ UNCHANGED now

\* The operator starts the node with the option that reverts its last blocks.
RevertLastBlocks(count) ==
  LET kept == SubSeq(chain, 1, Len(chain) - count)
  IN
  /\ count < Len(chain)
  /\ LoadSucceeds(kept, {})
  /\ chain' = kept
  /\ pool' = {}
  /\ cache' = LoadedKeys(kept)
  /\ cleaned' = 0
  /\ UNCHANGED now

Tick ==
  /\ now < MaxTime
  /\ now' = now + 1
  /\ UNCHANGED <<chain, pool, cache, cleaned>>

\* What a peer may send: at least one block, at most MaxSync of them.
Received == UNION {[1..n -> SUBSET Complete] : n \in 1..MaxSync}

Next ==
  \/ \E t \in Tx : Receive(t)
  \/ MineBlock
  \/ \E lcb \in 0..HeadNumber, blocks \in Received, more \in BOOLEAN :
       SyncBlocks(lcb, blocks, more)
  \/ CleanCache
  \/ Restart
  \/ \E count \in 1..HeadNumber : RevertLastBlocks(count)
  \/ Tick

Spec == Init /\ [][Next]_vars

-----------------------------------------------------------------------------
(* Properties *)

\* Types of the five variables; the genesis block is never removed.
TypeOK ==
  /\ chain \in Seq(SUBSET Tx)
  /\ Len(chain) \in 1..(MaxBlocks + 1)
  /\ pool \subseteq Tx
  /\ cache \subseteq Tx
  /\ now \in 0..MaxTime
  /\ cleaned \in 0..MaxBlocks

\* No signature form of a transaction is on the chain twice, in one block or in
\* two (the purpose of transaction_cache, and of putting old blocks back in it
\* when a long chain is reverted).
NoDoubleUse ==
  \A i, j \in DOMAIN chain : \A t \in chain[i], u \in chain[j] :
    (i # j \/ t # u) => Keys(t) \intersect Keys(u) = {}

\* A block holds only transactions that another node accepts at the block's
\* own time with no tolerance, the node's own blocks included: they come from a
\* pool that was filled with the tolerance of NODES_TIME_SHIFT.
BlocksHoldLiveTransactions ==
  \A i \in DOMAIN chain : \A t \in chain[i] : ValidAt(t, TimeOf(i - 1), 0)

\* The last NODES_TIME_SHIFT seconds of the lifetime that signed_transaction_validate
\* allows are left unused.  The transactions that a node makes itself, of its role and
\* of what it stores, use the whole lifetime.
ShortLived(t) == Expiry[t] - Creation[t] + NodesTimeShift <= Lifetime

\* Every pool transaction has its key in the cache.  revert_pool asks the cache
\* whether the transaction was applied to the state: without its key it stays
\* applied for ever.  That can only befall one that uses the whole lifetime and that is
\* past its expiry by more than the tolerance, at the time of the head.
PoolInCache ==
  \A t \in pool :
    t \in cache \/ (~ ShortLived(t) /\ HeadTime > Expiry[t] + NodesTimeShift)

\* For every transaction on the chain, either all its keys are in the part of the
\* cache that revert_pool leaves alone, or none is and no block that may still
\* be put on the chain can hold the transaction: it lies more than a lifetime
\* below the head, or it was cleaned and expired before the deepest rewind.
CacheProtectsChain ==
  /\ cleaned <= HeadNumber + MaxRewind
  /\ \A i \in DOMAIN chain : \A t \in chain[i] :
       \/ Keys(t) \subseteq cache \ pool
       \/ /\ Keys(t) \intersect (cache \ pool) = {}
          /\ \/ i + LifetimeBlocks < Len(chain)
             \/ Expiry[t] < TimeOf(cleaned - MaxRewind + 1)

\* A node can be stopped at any time: what it stored passes the checks of
\* load_transaction_cache at the next start.  Only a pool transaction that uses the
\* whole lifetime may be in the way: it can come in again while it is still on the chain.
CanAlwaysRestart == LoadSucceeds(chain, {t \in pool : ShortLived(t)})

\* What clean() drops is over: "we don't need to keep in hash the transactions
\* that are definitely expired".  It is expired by the head, with the tolerance, and by the
\* node's clock; and unless it uses the whole lifetime it is not in the pool, and
\* signed_transaction_validate would not let it in again.
CleanedAreExpired ==
  [][CleanCache => \A t \in cache \ cache' :
        /\ ~ ValidAt(t, HeadTime, NodesTimeShift) /\ ~ ValidAt(t, now, 0)
        /\ ShortLived(t) => t \notin pool /\ ~ ValidAt(t, now, NodesTimeShift)]_vars

(* Conditions on the constants under which the properties are proved. *)

\* A transaction that can be cleaned from the cache is expired in every block
\* that may still be put on the chain after the deepest rewind.
RewindsCovered ==
  \A t \in Tx :
    Expiry[t] - Creation[t] + MaxRewind * BlockMineDelay
      <= Lifetime + NodesTimeShift + BlockMineDelay

\* The tolerance is shorter than the time between two blocks (60 and 600 seconds).
ShiftWithinBlock == NodesTimeShift < BlockMineDelay
=============================================================================
