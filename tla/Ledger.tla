------------------------------- MODULE Ledger -------------------------------
(***************************************************************************)
(* The stores of one publiq.pp node and every handler that changes them:   *)
(* the accounts, the files, the transaction pool, the blockchain, the      *)
(* transaction cache and the action log.                                   *)
(*                                                                         *)
(* The stores describe the chain followed by the pool.  A handler that     *)
(* touches the chain first takes the pool off in reverse order             *)
(* (revert_pool), then the blocks above the last common one, applies       *)
(* blocks, and puts back what still fits.  Nothing recomputes a balance    *)
(* from the chain: every handler must undo exactly what an earlier one     *)
(* did, and whether a pool transaction was applied at all is known only    *)
(* from a flag in the cache.                                               *)
(*                                                                         *)
(* Each handler works on a record "w" of the stores and commits it as one  *)
(* step; a handler that throws is discarded and leaves no trace.           *)
(***************************************************************************)
EXTENDS Integers, Sequences, FiniteSets, TLC, SequencesExt

CONSTANTS
  Address,         \* accounts
  Own,             \* the node's own account
  Genesis,         \* Genesis[a]: the rewards of the genesis block
  Uri,             \* file uris
  Tx, Complete, Parts, Creation, Expiry,  \* as in TransactionFlow
  Action,          \* Action[t]: [type, from, to, amount] or [type, authors, uri]
  Fee,             \* Fee[t]
  Emission,        \* what the miner of a block is rewarded
  Threshold,       \* the balance a miner must have
  BlockMax,        \* BLOCK_MAX_TRANSACTIONS
  FreezeBefore,    \* the option freeze_before_block
  BlockMineDelay, NodesTimeShift, LifetimeBlocks, RecentBlocks, InsertLength,
  MaxRewind, MaxSync, MaxTime, MaxBlocks  \* as in TransactionFlow

ASSUME LedgerAssumption ==
  /\ Own \in Address /\ IsFiniteSet(Address)
  /\ Genesis \in [Address -> Nat]
  /\ IsFiniteSet(Tx) /\ Complete \subseteq Tx
  /\ Parts \in [Tx -> SUBSET Tx]
  /\ Creation \in [Tx -> Int] /\ Expiry \in [Tx -> Int]
  /\ Fee \in [Tx -> Nat]
  /\ \A t \in Tx :
       \/ /\ Action[t].type = "Transfer"
          /\ Action[t].from \in Address /\ Action[t].to \in Address \ {Action[t].from}
          /\ Action[t].amount \in Nat \ {0}
          /\ t \in Complete /\ Parts[t] = {}
       \/ /\ Action[t].type = "File"
          /\ Action[t].authors \in Seq(Address) \ {<<>>}
          /\ Action[t].uri \in Uri
  /\ Emission \in Nat /\ Threshold \in Nat
  /\ BlockMax \in Nat \ {0}
  /\ FreezeBefore \in Nat
  /\ BlockMineDelay \in Nat \ {0} /\ LifetimeBlocks \in Nat \ {0} /\ InsertLength \in Nat \ {0}
  /\ NodesTimeShift \in Nat /\ RecentBlocks \in Nat /\ MaxRewind \in Nat
  /\ MaxSync \in Nat /\ MaxTime \in Nat /\ MaxBlocks \in Nat

\* The forms of one transaction share its details: the two times and the action
\* among them.  A single-signature form of a transaction with several owners is
\* not complete.
ASSUME FormsAssumption ==
  \A t \in Tx : \A p \in Parts[t] :
    /\ Creation[p] = Creation[t]
    /\ Expiry[p] = Expiry[t]
    /\ Action[p] = Action[t]
    /\ p \notin Complete
    /\ Parts[p] = {}

VARIABLES
  stores,   \* [balance, own, files, pool, cache, log], see TypeOK
  chain,    \* sequence of blocks [miner, txs]; chain[1] is the genesis block
  now,      \* the node's clock
  cleaned   \* number of the highest head at which the cache was cleaned

vars == <<stores, chain, now, cleaned>>

TimeOf(number) == number * BlockMineDelay
Lifetime == LifetimeBlocks * BlockMineDelay
HeadNumber == Len(chain) - 1
HeadTime == TimeOf(HeadNumber)

Keys(t) == {t} \union Parts[t]

\* The elements of q that are in S.
Those(q, S) == FoldLeft(LAMBDA r, t : IF t \in S THEN Append(r, t) ELSE r, <<>>, q)

ValidAt(t, time, shift) ==
  /\ Creation[t] <= time + shift
  /\ time - shift <= Expiry[t]
  /\ Expiry[t] - Creation[t] <= Lifetime

-----------------------------------------------------------------------------
(* state and documents *)

\* Fault: the pool's layer writes the node's own account too.
PayBothLayers(w, address, amount, layer) ==
  LET balance == w.balance[address] + amount
  IN  IF amount = 0 THEN w
      ELSE [w EXCEPT !.balance[address] = balance,
                     !.own = IF address = Own THEN balance ELSE @]

\* increase_balance, decrease_balance: both layers start from the balance in
\* the accounts; the chain layer also writes the node's own account.
Pay(w, address, amount, layer) ==
  LET balance == w.balance[address] + amount
  IN  IF amount = 0 THEN w
      ELSE [w EXCEPT !.balance[address] = balance,
                     !.own = IF layer = "chain" /\ address = Own THEN balance ELSE @]

Owner(t) == IF Action[t].type = "Transfer" THEN Action[t].from ELSE Action[t].authors[1]

CanApply(w, t) ==
  \/ Action[t].type = "Transfer" /\ w.balance[Action[t].from] >= Action[t].amount
  \/ Action[t].type = "File" /\ Action[t].uri \notin w.files

Transferred(w, from, to, amount, layer) ==
  Pay(Pay(w, to, amount, layer), from, -amount, layer)

ActionApply(w, t, layer) ==
  IF Action[t].type = "Transfer"
  THEN Transferred(w, Action[t].from, Action[t].to, Action[t].amount, layer)
  ELSE [w EXCEPT !.files = @ \union {Action[t].uri}]

ActionRevert(w, t, layer) ==
  IF Action[t].type = "Transfer"
  THEN Transferred(w, Action[t].to, Action[t].from, Action[t].amount, layer)
  ELSE [w EXCEPT !.files = @ \ {Action[t].uri}]

\* Fault: the fee is not looked for.
AppliesUnpaid(w, t) == CanApply(w, t)

\* apply_transaction returns true: the fee is looked for after the action is
\* applied, in the pool as on the chain.
Applies(w, t) ==
  /\ CanApply(w, t)
  /\ ActionApply(w, t, "pool").balance[Owner(t)] >= Fee[t]

\* apply_transaction and revert_transaction for a block of a miner; only there
\* the fee is paid.
ChainApply(w, t, miner) ==
  Transferred(ActionApply(w, t, "chain"), Owner(t), miner, Fee[t], "chain")
ChainRevert(w, t, miner) ==
  ActionRevert(Transferred(w, miner, Owner(t), Fee[t], "chain"), t, "chain")

-----------------------------------------------------------------------------
(* transaction_cache *)

CanAddChain(cache, t) == Keys(t) \intersect DOMAIN cache = {}
AddChain(cache, t) ==
  IF CanAddChain(cache, t)
  THEN [k \in DOMAIN cache \union Keys(t) |-> k \in Keys(t) \/ cache[k]]
  ELSE cache
EraseKeys(cache, keys) == [k \in DOMAIN cache \ keys |-> cache[k]]
AddPool(cache, t, complete) ==
  [k \in DOMAIN cache \union {t} |-> IF k \in DOMAIN cache THEN cache[k] ELSE complete]

\* Fault: every key of the pool is loaded as that of an applied transaction.
LoadedCacheComplete(c, pool) ==
  [k \in UNION {Keys(t) : t \in UNION {ToSet(c[i].txs) : i \in DOMAIN c}}
         \union ToSet(pool) |-> TRUE]

\* load_transaction_cache, for a stored chain and pool
RecentBlocksOf(c) == {i \in DOMAIN c : TimeOf(Len(c) - i) <= Lifetime + NodesTimeShift}
LoadedCache(c, pool) ==
  LET keys == UNION {Keys(t) : t \in UNION {ToSet(c[i].txs) : i \in RecentBlocksOf(c)}}
  IN  [k \in keys \union ToSet(pool) |-> k \in keys \/ k \in Complete]
LoadSucceeds(c, pool) ==
  LET recent == {p \in RecentBlocksOf(c) \X (1..BlockMax) : p[2] \in DOMAIN c[p[1]].txs}
      At(p) == c[p[1]].txs[p[2]]
  IN  /\ \A p, q \in recent : p # q => Keys(At(p)) \intersect Keys(At(q)) = {}
      /\ \A n \in DOMAIN pool :
           /\ \A p \in recent : pool[n] \notin Keys(At(p))
           /\ \A m \in 1..(n - 1) : pool[m] # pool[n]

-----------------------------------------------------------------------------
(* Taking off and putting back *)

\* revert_pool: what the cache says is complete is reverted in the state and in
\* the log, everything leaves the pool and the cache, and the balance on the
\* chain's layer is set from the accounts.
RevertPooled(t, w) ==
  LET complete == t \in DOMAIN w.cache /\ w.cache[t]
      reverted == IF complete
                  THEN [ActionRevert(w, t, "pool") EXCEPT !.log = Front(@)]
                  ELSE w
  IN  [reverted EXCEPT !.cache = EraseKeys(@, {t})]

RevertPool(w) ==
  LET reverted == FoldRight(RevertPooled, w.pool, w)
  IN  [reverted EXCEPT !.pool = <<>>, !.own = reverted.balance[Own]]

\* Fault: the reward is not taken back.
RevertBlockKeepingReward(w, block) ==
  LET Unapply(t, v) ==
        [ChainRevert(v, t, block.miner) EXCEPT !.cache = EraseKeys(@, Keys(t))]
  IN  FoldRight(Unapply, block.txs, [w EXCEPT !.log = Front(@)])

\* One block is taken off: the log, the rewards, the transactions in reverse.
RevertBlock(w, block) ==
  LET Unapply(t, v) ==
        [ChainRevert(v, t, block.miner) EXCEPT !.cache = EraseKeys(@, Keys(t))]
      rewarded == [w EXCEPT !.log = Front(@)]
  IN  FoldRight(Unapply, block.txs, Pay(rewarded, block.miner, -Emission, "chain"))

\* Fault: the old blocks are not put into the cache again.
RevertBlocksForgetting(w, lcb) ==
  LET Unblock(i, v) == RevertBlock(v, chain[i])
  IN  FoldRight(Unblock, [n \in 1..(HeadNumber - lcb) |-> n + lcb + 1], w)

\* The blocks above lcb are taken off one by one; each time the block one
\* lifetime below the removed one is put into the cache again.
RevertBlocks(w, lcb) ==
  LET Unblock(i, v) ==
        LET off == RevertBlock(v, chain[i])
            old == IF i > LifetimeBlocks THEN chain[i - LifetimeBlocks].txs ELSE <<>>
        IN  [off EXCEPT !.cache = FoldLeft(AddChain, @, old)]
  IN  FoldRight(Unblock, [n \in 1..(HeadNumber - lcb) |-> n + lcb + 1], w)

\* A transaction returns to the pool.  It is applied when it is complete; an
\* incomplete one only waits, and is dropped when it could not be applied.
PutBack(w, t) ==
  LET complete == t \in Complete
      apply == complete \/ ~ CanApply(w, t)
      applied == IF apply
                 THEN [ActionApply(w, t, "pool") EXCEPT !.log = Append(@, <<"tx", t>>)]
                 ELSE w
  IN  IF apply /\ ~ Applies(w, t)
      THEN w
      ELSE [applied EXCEPT !.pool = Append(@, t),
                           !.cache = AddPool(@, t, complete)]

\* The rewards of a block and its entry in the log.
CloseBlock(w, block) ==
  [Pay(w, block.miner, Emission, "chain") EXCEPT !.log = Append(@, <<"block", block>>)]

-----------------------------------------------------------------------------
GenesisBlock == [miner |-> Own, txs |-> <<>>]

Init ==
  /\ stores = [balance |-> Genesis, own |-> Genesis[Own], files |-> {}, pool |-> <<>>,
               cache |-> <<>>, log |-> <<<<"block", GenesisBlock>>>>]
  /\ chain = <<GenesisBlock>>
  /\ now = 0
  /\ cleaned = 0

\* action_process_on_chain: a transaction is validated, applied if it is
\* complete, and enters the pool; the fee is only looked for.
Receive(t) ==
  /\ Len(chain) < FreezeBefore
  /\ ValidAt(t, now, NodesTimeShift)
  /\ HeadTime >= now - RecentBlocks * BlockMineDelay
  /\ t \notin DOMAIN stores.cache
  /\ t \in Complete => Applies(stores, t)
  /\ t \notin Complete => CanApply(stores, t)
  /\ stores' = PutBack(stores, t)
  /\ UNCHANGED <<chain, now, cleaned>>

\* Incomplete transactions of S that together carry every signature.
Merged(S) == {t \in Complete : Parts[t] # {} /\ Parts[t] \subseteq S \ Complete}

\* Fault: the transactions are not sorted.
Unsorted(S) == SetToSeqs(S)

\* The orders std::sort by creation time may leave the transactions of S in.
SortedByCreation(S) ==
  {q \in SetToSeqs(S) : \A m, n \in DOMAIN q : m < n => Creation[q[m]] <= Creation[q[n]]}

\* The block transactions are tried in order; those that are in the cache or do
\* not apply are set aside.
TryTransaction(r, t) ==
  IF CanAddChain(r.w.cache, t) /\ Applies(r.w, t)
  THEN [r EXCEPT !.w = [ChainApply(r.w, t, Own) EXCEPT !.cache = AddChain(@, t)],
                 !.txs = Append(@, t)]
  ELSE [r EXCEPT !.failed = @ \union {t}]

\* mine_block.  Which transactions are picked when there are more than fit is
\* decided by the fees of the transactions and of those that share a
\* participant with them; here any choice of BlockMax may be made.
MineBlock ==
  LET time       == TimeOf(HeadNumber + 1)
      reverted   == {t \in ToSet(stores.pool) : time <= Expiry[t]}
      young      == {t \in reverted : Creation[t] < time}
      merged     == Merged(young)
      joined     == UNION {Parts[t] : t \in merged}
      candidates == (young \intersect Complete) \union merged
      bare       == RevertPool(stores)
  IN
  /\ Len(chain) < FreezeBefore
  /\ HeadNumber < MaxBlocks
  /\ stores.own >= Threshold
  /\ now >= time
  /\ \E picked \in SUBSET candidates :
       /\ picked = candidates \/ Cardinality(picked) = BlockMax
       /\ Cardinality(picked) <= BlockMax
       /\ \E order \in SortedByCreation(picked) :
            LET tried == FoldLeft(TryTransaction, [w |-> bare, txs |-> <<>>, failed |-> {}], order)
                block == [miner |-> Own, txs |-> tried.txs]
                rest  == (reverted \ young)
                         \union ((young \ Complete) \ joined)
                         \union (candidates \ picked) \union tried.failed
            IN  /\ chain' = Append(chain, block)
                /\ \E back \in SortedByCreation(rest) :
                     stores' = FoldLeft(PutBack, CloseBlock(tried.w, block), back)
  /\ UNCHANGED <<now, cleaned>>

\* A received block is verified and applied on top of w; r.ok is false after the
\* first thing wrong with it.
VerifyTransaction(r, t) ==
  IF r.ok /\ CanAddChain(r.w.cache, t) /\ Applies(r.w, t)
  THEN [r EXCEPT !.w = [ChainApply(r.w, t, r.miner) EXCEPT !.cache = AddChain(@, t)]]
  ELSE [r EXCEPT !.ok = FALSE]
VerifyBlock(r, block) ==
  IF ~ r.ok \/ r.w.balance[block.miner] < Threshold
  THEN [r EXCEPT !.ok = FALSE]
  ELSE LET v == FoldLeft(VerifyTransaction, [r EXCEPT !.miner = block.miner], block.txs)
       IN  [v EXCEPT !.w = CloseBlock(@, block)]

\* What is wrong with a block whatever it is applied to.
WellFormed(block, time) ==
  /\ Len(block.txs) <= BlockMax
  /\ \A n \in DOMAIN block.txs : block.txs[n] \in Complete /\ ValidAt(block.txs[n], time, 0)
  /\ \A m, n \in DOMAIN block.txs :
       m < n => Creation[block.txs[m]] <= Creation[block.txs[n]]

\* What a peer may send: blocks whose headers were accepted, none of them from
\* the future.
ReceivedTxs == UNION {SortedByCreation(S) : S \in {C \in SUBSET Complete : Cardinality(C) <= BlockMax}}
Received(lcb) ==
  UNION {[1..n -> [miner : Address, txs : ReceivedTxs]] :
         n \in {m \in 1..MaxSync : /\ lcb + m <= MaxBlocks
                                   /\ TimeOf(lcb + m) <= now + NodesTimeShift}}

\* A transaction that was taken off, or was in the pool, unless it is over or there.
Return(w, t) ==
  IF now - NodesTimeShift <= Expiry[t] /\ t \notin DOMAIN w.cache
  THEN PutBack(w, t) ELSE w

\* session_action_block: the blocks received from a peer replace everything above
\* the last common block.  "more" is true when the peer's headers go further
\* than the blocks collected so far, and the pool is then given up.  Whether the
\* peer's chain is better is decided when its headers arrive.
SyncBlocks(lcb) ==
  LET bare    == RevertBlocks(RevertPool(stores), lcb)
      removed == FlattenSeq([n \in 1..(HeadNumber - lcb) |-> chain[n + lcb + 1].txs])
      alive   == Those(stores.pool, {t \in Tx : now <= Expiry[t]})
  IN
  /\ lcb >= cleaned - MaxRewind
  /\ \E blocks \in Received(lcb) :
       LET verified == FoldLeft(VerifyBlock, [w |-> bare, ok |-> TRUE, miner |-> Own], blocks)
       IN
       /\ \A i \in DOMAIN blocks : WellFormed(blocks[i], TimeOf(lcb + i))
       /\ verified.ok
       /\ chain' = SubSeq(chain, 1, lcb + 1) \o blocks
       /\ \E more \in BOOLEAN :
            /\ more => Len(blocks) >= InsertLength
            /\ stores' = IF Len(chain') < FreezeBefore
                         THEN FoldLeft(Return, verified.w,
                                       removed \o (IF more THEN <<>> ELSE alive))
                         ELSE verified.w
  /\ UNCHANGED <<now, cleaned>>

\* The CACHE_CLEANUP_TIMER handler.
CleanCache ==
  /\ stores' = [stores EXCEPT !.cache =
       EraseKeys(@, {k \in DOMAIN @ : HeadTime - Creation[k] > Lifetime + NodesTimeShift})]
  /\ cleaned' = IF cleaned < HeadNumber THEN HeadNumber ELSE cleaned
  /\ UNCHANGED <<chain, now>>

\* The process stops at any time and starts again from its stored files.
Restart ==
  /\ LoadSucceeds(chain, stores.pool)
  /\ stores' = [stores EXCEPT !.cache = LoadedCache(chain, stores.pool)]
  /\ cleaned' = 0
  /\ UNCHANGED <<chain, now>>

\* The operator starts the node with the option that reverts its last blocks:
\* the cache holds the keys of the pool only, and the pool is given up.
RevertLastBlocks(count) ==
  LET kept   == SubSeq(chain, 1, Len(chain) - count)
      loaded == [stores EXCEPT !.cache = [t \in ToSet(stores.pool) |-> t \in Complete]]
      bare   == RevertBlocks(RevertPool(loaded), HeadNumber - count)
  IN
  /\ count < Len(chain)
  /\ LoadSucceeds(kept, <<>>)
  /\ chain' = kept
  /\ stores' = [bare EXCEPT !.cache = LoadedCache(kept, <<>>)]
  /\ cleaned' = 0
  /\ UNCHANGED now

Tick ==
  /\ now < MaxTime
  /\ now' = now + 1
  /\ UNCHANGED <<stores, chain, cleaned>>

Next ==
  \/ \E t \in Tx : Receive(t)
  \/ MineBlock
  \/ \E lcb \in 0..HeadNumber : SyncBlocks(lcb)
  \/ CleanCache
  \/ Restart
  \/ \E count \in 1..HeadNumber : RevertLastBlocks(count)
  \/ Tick

Spec == Init /\ [][Next]_vars

-----------------------------------------------------------------------------
(* Properties *)

\* The stores keep their shapes, and no balance is ever below zero: coin is
\* unsigned and decrease_balance throws instead.
TypeOK ==
  /\ DOMAIN stores = {"balance", "own", "files", "pool", "cache", "log"}
  /\ stores.balance \in [Address -> Nat]
  /\ stores.own \in Nat
  /\ stores.files \subseteq Uri
  /\ stores.pool \in Seq(Tx)
  /\ DOMAIN stores.cache \subseteq Tx
  /\ stores.cache \in [DOMAIN stores.cache -> BOOLEAN]
  /\ chain \in Seq([miner : Address, txs : Seq(Complete)])
  /\ now \in 0..MaxTime
  /\ cleaned \in 0..MaxBlocks

\* The chain applied from the genesis block by a node that keeps every key it
\* has seen: the judge of what the stores should be.
Fresh == [balance |-> Genesis, own |-> Genesis[Own], files |-> {}, pool |-> <<>>,
          cache |-> <<>>, log |-> <<<<"block", GenesisBlock>>>>]
Replayed == FoldLeft(VerifyBlock, [w |-> Fresh, ok |-> TRUE, miner |-> Own], Tail(chain))

AppliedPool == Those(stores.pool, Complete)

\* The accounts and files are those of the chain replayed from the genesis block
\* followed by the complete transactions of the pool, after any mix of mining,
\* forks, put-backs and restarts.  An incomplete transaction has no effect.  The
\* balance with which the node computes its own delta and decides that it may mine
\* (node_accounts) is its balance on the chain, the pool left out: what every peer
\* computes after taking the block's predecessor as its head.
StateIsReplay ==
  LET Applied(w, t) == ActionApply(w, t, "pool")
  IN  \E onChain \in {Replayed.w} :
        LET replayed == FoldLeft(Applied, onChain, AppliedPool)
        IN  /\ stores.balance = replayed.balance
            /\ stores.files = replayed.files
            /\ stores.own = onChain.balance[Own]

\* Every chain this node holds, its own blocks included, is accepted by a peer
\* that starts from the genesis block and forgets no key: miner's balance,
\* double use, applicability, order.
ChainIsAcceptable ==
  /\ Replayed.ok
  /\ \A i \in 2..Len(chain) : WellFormed(chain[i], TimeOf(i - 1))

\* The coins in the accounts are those of the genesis block and of the rewards
\* of the blocks on the chain, however many blocks were taken off and replaced.
CoinsConserved ==
  MapThenSumSet(LAMBDA a : stores.balance[a], Address)
    = MapThenSumSet(LAMBDA a : Genesis[a], Address) + Emission * HeadNumber

\* What the action log has not reverted is the blocks of the chain and then
\* exactly the pool transactions that are applied to the state, in the order of
\* the pool; each is in the pool once, and its key in the cache tells whether it
\* was applied (the flag by which revert_pool decides what to undo and to log).
LogIsChainThenPool ==
  /\ stores.log = Replayed.w.log \o [n \in DOMAIN AppliedPool |-> <<"tx", AppliedPool[n]>>]
  /\ \A n \in DOMAIN stores.pool :
       /\ stores.pool[n] \in DOMAIN stores.cache
       /\ stores.cache[stores.pool[n]] = (stores.pool[n] \in Complete)
       /\ \A m \in 1..(n - 1) : stores.pool[m] # stores.pool[n]

\* What the stores hold at one time is what TransactionFlow says of the sets of
\* transactions: the handlers in detail never do more than the handlers in the
\* abstract, so what is proved of TransactionFlow is proved of the node.
Flow == INSTANCE TransactionFlow WITH
  chain <- [i \in DOMAIN chain |-> ToSet(chain[i].txs)],
  pool  <- ToSet(stores.pool),
  cache <- DOMAIN stores.cache
ImplementsFlow == Flow!Spec

(* The condition under which the properties of the stores are proved. *)

\* No cleaning has dropped the key of a pool transaction.  By PoolInCache of
\* TransactionFlow it can only be that of one that uses the whole lifetime, when the head
\* is past its expiry; revert_pool then passes the transaction over, and what it did to the
\* accounts and files stays.
PoolKeysStay == ToSet(stores.pool) \subseteq DOMAIN stores.cache
=============================================================================
