----------------------------- MODULE Sponsoring -----------------------------
(***************************************************************************)
(* Sponsored content units: coins that a sponsor sets aside for a unit and *)
(* an interval of time.                                                    *)
(*                                                                         *)
(* A block in which the unit was viewed gives out the part of the coins    *)
(* that belongs to the time since the unit was viewed before.  What is     *)
(* left goes back to the sponsor in the block at which the interval is     *)
(* over, or, after a cancel transaction, in the block of that transaction. *)
(* Mining, checking a received block and taking a block off compute these  *)
(* amounts each on their own, from the documents of that moment: the last  *)
(* two must find the rewards that the block holds, or the chain cannot be  *)
(* followed, or not be left again.                                         *)
(*                                                                         *)
(* As in Ledger each handler works on a record "w" of the stores.  "ok"    *)
(* becomes FALSE where the code throws; the handler is then discarded.     *)
(***************************************************************************)
EXTENDS Integers, Sequences, FiniteSets, TLC, SequencesExt

CONSTANTS
  Sponsor,         \* accounts that sponsor
  Unit,            \* content units, all of them in the documents
  Tx,              \* transactions, all of them complete and without a fee
  Action,          \* [type, sponsor, unit, start, finish, amount] or [type, sponsor, unit, of]
  Creation,        \* Creation[t]: when t was signed
  FirstBalance,    \* FirstBalance[s]: the coins of s after the genesis block
  BlockMineDelay,
  MaxSync, MaxBlocks  \* bounds: blocks that arrive at once, blocks above genesis

ASSUME SponsoringAssumption ==
  /\ \A t \in Tx :
       /\ Action[t].sponsor \in Sponsor /\ Action[t].unit \in Unit
       /\ \/ /\ Action[t].type = "Sponsor"
             /\ Action[t].start \in Int /\ Action[t].finish \in Int
             /\ Action[t].finish > Action[t].start + BlockMineDelay
             /\ Action[t].amount \in Nat \ {0}
          \/ Action[t].type = "Cancel" /\ Action[t].of \in Tx
  /\ Creation \in [Tx -> Int]
  /\ FirstBalance \in [Sponsor -> Nat]
  /\ BlockMineDelay \in Nat \ {0}

VARIABLES
  stores,   \* the documents' part and the sponsors' balances, see TypeOK
  chain     \* sequence of blocks [txs, viewed, rewards, applied]

vars == <<stores, chain>>

\* Times count from the genesis block; m_blockchain.length() is in the stores.
TimeOf(number) == number * BlockMineDelay

Start(item) == Action[item.tx].start
Finish(item) == Action[item.tx].finish
Sponsorings == {t \in Tx : Action[t].type = "Sponsor"}

-----------------------------------------------------------------------------
(* The documents *)

\* refresh_index: an item leaves the index once the unit was viewed after its end.
Refresh(w, u) ==
  LET used  == w.used[u]
      items == w.items[u]
      kept  == {i \in w.index[u] : i <= Len(items)}
  IN  [w EXCEPT
         !.ok = @ /\ \A i \in kept : items[i].before <= Len(used),
         !.index[u] = {i \in kept : \/ Last(used) < Finish(items[i])
                                    \/ Len(used) = items[i].before}]

\* Fault: the last block before the end, not the first after it.
ExpiringBlockFloor(w, t) == Max({w.length, Action[t].finish \div BlockMineDelay})

\* get_expiring_block_number: the first block at or after the end, the next block
\* if that one is already there.
ExpiringBlock(w, t) ==
  LET finish == Action[t].finish
  IN  IF finish <= 0 THEN w.length
      ELSE Max({w.length, (finish + BlockMineDelay - 1) \div BlockMineDelay})

\* sponsor_content_unit_apply.  The first item of a unit counts as a view at its
\* start.
SponsorApply(w, t) ==
  LET u    == Action[t].unit
      used == IF w.items[u] = <<>> THEN <<Action[t].start>> ELSE w.used[u]
      item == [tx |-> t, before |-> Len(used), cancelled |-> FALSE]
  IN  Refresh([w EXCEPT
                 !.balance[Action[t].sponsor] = @ - Action[t].amount,
                 !.used[u] = used,
                 !.items[u] = Append(@, item),
                 !.index[u] = @ \union {Len(w.items[u]) + 1},
                 !.expiring = @ @@ (t :> [block |-> ExpiringBlock(w, t), returned |-> 0])], u)

\* Fault: the entry among those that expire is left.
SponsorRevertKeepingExpiry(w, t) ==
  LET u == Action[t].unit
      left == Front(w.items[u])
      popped == [w EXCEPT
                   !.balance[Action[t].sponsor] = @ + Action[t].amount,
                   !.items[u] = left,
                   !.used[u] = IF left = <<>> THEN <<>> ELSE @,
                   !.index[u] = IF left = <<>> THEN {} ELSE @]
  IN  IF left = <<>> THEN popped ELSE Refresh(popped, u)

\* sponsor_content_unit_revert, with what it asserts of the item it takes off.
SponsorRevert(w, t) ==
  LET u      == Action[t].unit
      item   == Last(w.items[u])
      left   == Front(w.items[u])
      popped == [w EXCEPT
                   !.balance[Action[t].sponsor] = @ + Action[t].amount,
                   !.items[u] = left,
                   !.used[u] = IF left = <<>> THEN <<>> ELSE @,
                   !.index[u] = IF left = <<>> THEN {} ELSE @,
                   !.expiring = [x \in DOMAIN @ \ {t} |-> @[x]]]
  IN  IF /\ w.items[u] # <<>>
         /\ item.tx = t /\ item.before = Len(w.used[u]) /\ ~ item.cancelled
         /\ w.expiring[t] = [block |-> ExpiringBlock(w, t), returned |-> 0]
      THEN IF left = <<>> THEN popped ELSE Refresh(popped, u)
      ELSE [w EXCEPT !.ok = FALSE]

\* Fault: the part of an item begins at the last view, whenever the item came.
PartSinceView(w, u, item, from, to) ==
  LET amount == Action[item.tx].amount
      whole  == Finish(item) - Start(item)
      begin  == Max({from, Start(item)})
  IN  (amount \div whole) * (to - begin) + IF to = Finish(item) THEN amount % whole ELSE 0

\* The coins of an item from one view to another: whole coins for each unit of time,
\* and with the end what the division leaves.  An item that came after the last view
\* begins at its own start.
Part(w, u, item, from, to) ==
  LET amount == Action[item.tx].amount
      whole  == Finish(item) - Start(item)
      begin  == IF item.before = Len(w.used[u]) THEN Start(item) ELSE Max({from, Start(item)})
  IN  (amount \div whole) * (to - begin) + IF to = Finish(item) THEN amount % whole ELSE 0

\* The items that a view visits: in the order of how long they wait for their start,
\* up to the first that has not begun.  (std::sort leaves up to 16 items of equal
\* keys in their order; where that matters the index was made anew, by position.)
Due(w, u, time) ==
  LET Wait(i) == Max({0, Start(w.items[u][i]) - Last(w.used[u])})
      Upto(i) == {j \in w.index[u] : \/ Wait(j) < Wait(i)
                                     \/ Wait(j) = Wait(i) /\ j <= i}
  IN  {i \in w.index[u] : \A j \in Upto(i) : Start(w.items[u][j]) < time}

\* What a view at "time" gives out, for each sponsoring, when the last was at "from".
Given(w, u, from, time) ==
  LET due == {w.items[u][i] : i \in Due(w, u, time)}
      open == {item \in due : ~ item.cancelled}
      ItemOf(t) == CHOOSE item \in open : item.tx = t
  IN  [t \in {item.tx : item \in open} |->
         Part(w, u, ItemOf(t), from, Min({time, Finish(ItemOf(t))}))]

\* sponsored_content_unit_set_used without a transaction: a view, and a view that is
\* taken back.  r collects what a block gives: [w, applied, returned].
View(r, u) ==
  LET w    == r.w
      time == TimeOf(w.length)
  IN  IF w.items[u] = <<>> THEN r
      ELSE [r EXCEPT !.w = Refresh([w EXCEPT !.used[u] = Append(@, time)], u),
                     !.applied = IF time > Last(w.used[u])
                                 THEN @ @@ Given(w, u, Last(w.used[u]), time) ELSE @]

\* Fault: the index is not made anew, what the view has taken out of it stays out.
UnviewKeepingIndex(r, u) ==
  LET w    == r.w
      time == TimeOf(w.length)
      back == [w EXCEPT !.used[u] = Front(@)]
  IN  IF w.items[u] = <<>> \/ Last(w.used[u]) # time THEN r
      ELSE [r EXCEPT !.w = back, !.applied = @ @@ Given(back, u, Last(back.used[u]), time)]

Unview(r, u) ==
  LET w    == r.w
      time == TimeOf(w.length)
      back == Refresh([w EXCEPT !.used[u] = Front(@), !.index[u] = DOMAIN w.items[u]], u)
  IN  IF w.items[u] = <<>> \/ Last(w.used[u]) # time THEN r
      ELSE [r EXCEPT !.w = back, !.applied = @ @@ Given(back, u, Last(back.used[u]), time)]

\* ... with a transaction: what is left of an item is returned.  Nothing happens
\* when the item is not found among those that have begun.
Found(w, u, t) ==
  IF w.items[u] = <<>> \/ TimeOf(w.length) <= Last(w.used[u]) THEN {}
  ELSE {i \in Due(w, u, TimeOf(w.length)) : w.items[u][i].tx = t}

Rest(w, u, t) ==
  MapThenSumSet(LAMBDA i : Part(w, u, w.items[u][i], Last(w.used[u]), Finish(w.items[u][i])),
                Found(w, u, t))

\* The coins to return when a sponsor asks for it are noted for the block's rewards.
Cancel(w, u, t, manual) ==
  LET i == CHOOSE i \in Found(w, u, t) : TRUE
  IN  IF Found(w, u, t) = {} THEN w
      ELSE IF w.items[u][i].cancelled \/ w.expiring[t].returned # 0 THEN [w EXCEPT !.ok = FALSE]
      ELSE [w EXCEPT !.items[u][i].cancelled = TRUE,
                     !.expiring[t].returned = IF manual THEN Rest(w, u, t) ELSE @]

Uncancel(w, u, t, manual) ==
  LET i == CHOOSE i \in Found(w, u, t) : TRUE
  IN  IF Found(w, u, t) = {} THEN w
      ELSE IF \/ ~ w.items[u][i].cancelled
              \/ manual # (w.expiring[t].returned # 0) THEN [w EXCEPT !.ok = FALSE]
      ELSE [w EXCEPT !.items[u][i].cancelled = FALSE,
                     !.expiring[t].returned = IF manual THEN 0 ELSE @]

-----------------------------------------------------------------------------
(* Transactions *)

\* Fault: the balance is not looked at.
CanApplyUnpaid(w, t) == w.ok

\* action_can_apply: a cancel is tried in "pretend" mode, where whatever is wrong
\* with it gives an empty result, as good as any.
CanApply(w, t) ==
  Action[t].type = "Sponsor" => w.balance[Action[t].sponsor] >= Action[t].amount

\* A cancel that found its item was signed by the sponsor of it.
ActionApply(w, t) ==
  LET a == Action[t]
  IN  IF a.type = "Sponsor" THEN SponsorApply(w, t)
      ELSE IF Found(w, a.unit, a.of) # {} /\ Action[a.of].sponsor # a.sponsor
      THEN [w EXCEPT !.ok = FALSE]
      ELSE Cancel(w, a.unit, a.of, TRUE)

ActionRevert(w, t) ==
  LET a == Action[t]
  IN  IF a.type = "Sponsor" THEN SponsorRevert(w, t) ELSE Uncancel(w, a.unit, a.of, TRUE)

-----------------------------------------------------------------------------
(* Rewards and blocks *)

NothingYet(w) == [w |-> w, applied |-> <<>>, returned |-> [s \in Sponsor |-> 0]]

\* grant_rewards: first the coins of the block's cancel transactions, then the views,
\* then the items that expire with this block and were not viewed in it.
ReturnCancelled(r, t) ==
  LET a == Action[t]
  IN  IF a.type = "Sponsor" THEN r
      ELSE IF a.of \notin DOMAIN r.w.expiring \/ r.w.expiring[a.of].returned = 0
      THEN [r EXCEPT !.w.ok = FALSE]
      ELSE [r EXCEPT !.returned[a.sponsor] = @ + r.w.expiring[a.of].returned]

Expiring(w, viewed) ==
  {t \in DOMAIN w.expiring : /\ w.expiring[t].block = w.length
                             /\ w.expiring[t].returned = 0
                             /\ Action[t].unit \notin viewed}

ReturnExpired(r, t, type) ==
  LET u == Action[t].unit
  IN  [r EXCEPT !.w = IF type = "apply" THEN Cancel(@, u, t, FALSE) ELSE Uncancel(@, u, t, FALSE),
                !.returned[Action[t].sponsor] = @ + Rest(r.w, u, t)]

GrantRewards(w, txs, viewed) ==
  LET cancelled == FoldLeft(ReturnCancelled, NothingYet(w), txs)
      seen == FoldSet(LAMBDA u, r : View(r, u), cancelled, viewed)
  IN  FoldSet(LAMBDA t, r : ReturnExpired(r, t, "apply"), seen, Expiring(seen.w, viewed))

TakeBackRewards(w, txs, viewed) ==
  LET cancelled == FoldLeft(ReturnCancelled, NothingYet(w), txs)
      seen == FoldSet(LAMBDA u, r : Unview(r, u), cancelled, viewed)
  IN  FoldSet(LAMBDA t, r : ReturnExpired(r, t, "revert"), seen, Expiring(seen.w, viewed))

\* Authors, channels and storages share what was given out, whoever gave it.
Rewards(r) == [shared |-> SumFunction(r.applied), returned |-> r.returned]

\* The end of a block: grant_rewards, the rewards are paid, the block is inserted.
CloseBlock(w, txs, viewed) ==
  LET r == GrantRewards(w, txs, viewed)
  IN  [w |-> [r.w EXCEPT !.length = @ + 1, !.balance = [s \in Sponsor |-> @[s] + r.returned[s]]],
       block |-> [txs |-> txs, viewed |-> viewed, rewards |-> Rewards(r), applied |-> r.applied]]

\* One block is taken off; its rewards are computed once more and compared.
RevertBlock(w, block) ==
  LET r    == TakeBackRewards([w EXCEPT !.length = @ - 1], block.txs, block.viewed)
      paid == [r.w EXCEPT !.balance = [s \in Sponsor |-> @[s] - block.rewards.returned[s]]]
      Unapply(t, v) == IF v.ok THEN ActionRevert(v, t) ELSE v
  IN  IF Rewards(r) # block.rewards THEN [w EXCEPT !.ok = FALSE]
      ELSE FoldRight(Unapply, block.txs, paid)

-----------------------------------------------------------------------------
(* The handlers *)

GenesisBlock ==
  [txs |-> <<>>, viewed |-> {}, applied |-> <<>>,
   rewards |-> [shared |-> 0, returned |-> [s \in Sponsor |-> 0]]]

FirstStores ==
  [balance |-> FirstBalance, items |-> [u \in Unit |-> <<>>], used |-> [u \in Unit |-> <<>>],
   index |-> [u \in Unit |-> {}], expiring |-> <<>>, pool |-> <<>>, length |-> 1, ok |-> TRUE]

Init == stores = FirstStores /\ chain = <<GenesisBlock>>

RevertPool(w) ==
  LET Unapply(t, v) == IF v.ok THEN ActionRevert(v, t) ELSE v
  IN  [FoldRight(Unapply, w.pool, w) EXCEPT !.pool = <<>>]

\* A transaction is applied for the pool; what cannot be applied is dropped, and an
\* exception ends the handler.
PutBack(w, t) ==
  IF ~ w.ok \/ ~ CanApply(w, t) THEN w
  ELSE [ActionApply(w, t) EXCEPT !.pool = Append(@, t)]

OnChain(c) == UNION {ToSet(c[i].txs) : i \in DOMAIN c}

Receive(t) ==
  /\ t \notin OnChain(chain) \union ToSet(stores.pool)
  /\ CanApply(stores, t)
  /\ stores' = PutBack(stores, t)
  /\ stores'.ok
  /\ UNCHANGED chain

Sorted(S) ==
  {q \in SetToSeqs(S) : \A m, n \in DOMAIN q : m < n => Creation[q[m]] <= Creation[q[n]]}

\* The transactions of a block are tried in order; r is [w, txs, failed].
TryTransaction(r, t) ==
  IF ~ r.w.ok THEN r
  ELSE IF CanApply(r.w, t)
  THEN [r EXCEPT !.w = ActionApply(@, t), !.txs = Append(@, t)]
  ELSE [r EXCEPT !.failed = @ \union {t}]

\* mine_block: which transactions are young enough and which are picked is left open
\* here, and so is what the statistics of the block say was viewed.
MineBlock(viewed) ==
  /\ Len(chain) <= MaxBlocks
  /\ \E picked \in SUBSET ToSet(stores.pool) : \E order \in Sorted(picked) :
       LET tried  == FoldLeft(TryTransaction,
                              [w |-> RevertPool(stores), txs |-> <<>>, failed |-> {}], order)
           closed == CloseBlock(tried.w, tried.txs, viewed)
       IN  /\ \E back \in Sorted((ToSet(stores.pool) \ picked) \union tried.failed) :
                stores' = FoldLeft(PutBack, closed.w, back)
           /\ stores'.ok
           /\ chain' = Append(chain, closed.block)

\* The stores without the blocks above lcb.
RevertBlocks(w, lcb) ==
  LET Unblock(block, v) == IF v.ok THEN RevertBlock(v, block) ELSE v
  IN  FoldRight(Unblock, SubSeq(chain, lcb + 2, Len(chain)), w)

\* A block of a peer is applied; it holds the rewards that its miner computed.
VerifyBlock(r, b) ==
  LET order  == CHOOSE q \in Sorted(b.txs) : TRUE
      tried  == FoldLeft(TryTransaction, [w |-> r.w, txs |-> <<>>, failed |-> {}], order)
      closed == CloseBlock(tried.w, order, b.viewed)
  IN  IF ~ r.w.ok \/ tried.failed # {} THEN [r EXCEPT !.w.ok = FALSE]
      ELSE [w |-> closed.w, blocks |-> Append(r.blocks, closed.block)]

\* session_action_block: the blocks of a peer replace everything above lcb.  The pool
\* is given up when the peer has more to send.
SyncBlocks(lcb) ==
  LET below   == SubSeq(chain, 1, lcb + 1)
      removed == FlattenSeq([n \in 1..(Len(chain) - lcb - 1) |-> chain[n + lcb + 1].txs])
  IN
  \E bare \in {RevertBlocks(RevertPool(stores), lcb)} :
  \E n \in 1..Min({MaxSync, MaxBlocks - lcb}) :
  \E sent \in [1..n -> [txs : SUBSET (Tx \ OnChain(below)), viewed : SUBSET Unit]] :
    /\ bare.ok
    /\ \A i, j \in 1..n : i # j => sent[i].txs \intersect sent[j].txs = {}
    /\ \E verified \in {FoldLeft(VerifyBlock, [w |-> bare, blocks |-> <<>>], sent)} :
       \E more \in BOOLEAN :
         /\ stores' = FoldLeft(PutBack, verified.w,
                               SelectSeq(removed \o (IF more THEN <<>> ELSE stores.pool),
                                         LAMBDA t : \A i \in 1..n : t \notin sent[i].txs))
         /\ stores'.ok
         /\ chain' = below \o verified.blocks

\* The option that reverts the last block at start: the pool is lost.
RevertLastBlock ==
  /\ Len(chain) > 1
  /\ stores' = RevertBlock(RevertPool(stores), Last(chain))
  /\ stores'.ok
  /\ chain' = Front(chain)

Next ==
  \/ \E t \in Tx : Receive(t)
  \/ \E viewed \in SUBSET Unit : MineBlock(viewed)
  \/ \E lcb \in 0..(Len(chain) - 1) : SyncBlocks(lcb)
  \/ RevertLastBlock

Spec == Init /\ [][Next]_vars
-----------------------------------------------------------------------------
(* Properties *)

TypeOK ==
  /\ stores.balance \in [Sponsor -> Nat]
  /\ \A u \in Unit :
       /\ stores.items[u] \in Seq([tx : Sponsorings, before : Nat \ {0}, cancelled : BOOLEAN])
       /\ stores.used[u] \in Seq(Int) /\ (stores.used[u] = <<>>) = (stores.items[u] = <<>>)
       /\ stores.index[u] \subseteq DOMAIN stores.items[u]
  /\ \A t \in DOMAIN stores.expiring :
       stores.expiring[t] \in [block : Nat \ {0}, returned : 0..Action[t].amount]
  /\ stores.pool \in Seq(Tx) /\ stores.length = Len(chain) /\ stores.ok

\* "verify block rewards before reverting, this also reclaims advertisement coins": the
\* last block can be taken off, and the rewards computed then are those that it holds.
\* A node at which this fails cannot follow a better chain.
HeadCanBeTakenOff ==
  Len(chain) > 1 => RevertBlock(RevertPool(stores), Last(chain)).ok

\* Whatever was mined, received, taken off and put back: the stores are those of the
\* chain applied from the genesis block and then the pool.
Replay ==
  LET ApplyBlock(w, block) ==
        CloseBlock(FoldLeft(ActionApply, w, block.txs), block.txs, block.viewed).w
  IN  FoldLeft(PutBack, FoldLeft(ApplyBlock, FirstStores, Tail(chain)), stores.pool)
StoresAreReplay == stores = Replay

Applied(t) ==
  MapThenSumSet(LAMBDA i : IF t \in DOMAIN chain[i].applied THEN chain[i].applied[t] ELSE 0,
                DOMAIN chain)

\* The coins of t for all of its interval up to "time".
Earned(t, time) ==
  LET a == Action[t]
      whole == a.finish - a.start
  IN  (a.amount \div whole) * (Min({time, a.finish}) - a.start)
        + IF time >= a.finish THEN a.amount % whole ELSE 0

\* No item that came before the first view begins before the first item.
InOrder ==
  \A u \in Unit : \A i \in DOMAIN stores.items[u] :
    stores.items[u][i].before = 1 => Start(stores.items[u][i]) >= stores.used[u][1]

\* A block in which a unit was viewed settles the past, when its items began in order:
\* each item that was not cancelled has given all coins for the time up to the block,
\* in however many views and blocks.
ServedUpToNow ==
  LET time == TimeOf(Len(chain) - 1)
  IN  InOrder =>
        \A u \in Last(chain).viewed : \A i \in DOMAIN stores.items[u] :
          LET item == stores.items[u][i]
          IN  item.tx \in OnChain(chain) /\ ~ item.cancelled /\ Start(item) < time =>
                Applied(item.tx) = Earned(item.tx, time)

\* A sponsor's coins are neither lost nor multiplied: given out and returned they are no
\* more than was set aside, and all of it when every item has expired or was cancelled
\* ("if sponsored items expired without service or have been cancelled reward the coins
\* back to sponsor").
Over(t) ==
  \/ stores.expiring[t].block < Len(chain)
  \/ \E c \in OnChain(chain) : Action[c].type = "Cancel" /\ Action[c].of = t
CoinsComeBack ==
  \A s \in Sponsor :
    LET own    == {t \in OnChain(chain) \intersect Sponsorings : Action[t].sponsor = s}
        aside  == MapThenSumSet(LAMBDA t : Action[t].amount, own)
        spread == MapThenSumSet(Applied, own)
                    + MapThenSumSet(LAMBDA i : chain[i].rewards.returned[s], DOMAIN chain)
    IN  /\ spread <= aside
        /\ (\A t \in own : Over(t)) => spread = aside

\* ... which holds when the items of every unit begin in order.
OrderedCoinsComeBack == InOrder => CoinsComeBack
=============================================================================
