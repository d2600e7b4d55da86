----------------------------- MODULE Catalogue -----------------------------
(***************************************************************************)
(* What the chain says of channels, storages, files, units and of who      *)
(* signs for whom, and what a block pays for the service that channels and *)
(* storages report.                                                        *)
(*                                                                         *)
(* Each of these stores is kept like the accounts of Ledger: an action     *)
(* changes it when a transaction is applied, another one undoes that, and  *)
(* nothing computes it anew.  An action here depends on others: a content  *)
(* on its units and on the role of its channel, a unit on its files, a     *)
(* report on all of them, everything on the authorities.                   *)
(*                                                                         *)
(* Handlers work on a record "w" of the stores; "ok" becomes FALSE where   *)
(* the code throws or gives up, and the handler is then discarded.  Fees,  *)
(* lifetimes and the cache are in Ledger, sponsored items in Sponsoring.   *)
(***************************************************************************)
EXTENDS Authority, Integers, Sequences, SequencesExt

CONSTANTS
  Tx, Action, Signers, Creation,  \* transactions: their action, who signed, when
  Settings,        \* the nodes and first blocks to begin with, see Init
  FirstBalance,    \* FirstBalance[a]: the coins of a after the genesis block
  Rank,            \* Rank[a]: the order of the accounts' names
  Miner,           \* accounts that mine the blocks of peers
  Threshold,       \* Threshold[kind]: the coins a role asks for
  Emission,        \* the coins of a block
  Fresh,           \* what the node id service may know: fresh addresses with their ip
  BlockMax,        \* BLOCK_MAX_TRANSACTIONS
  BlockMineDelay,
  MaxSync, MaxBlocks  \* bounds: blocks that arrive at once, blocks above genesis

ActionType ==
  {"Transfer", "File", "ContentUnit", "Content", "Role", "StorageUpdate",
   "AuthorizationUpdate", "ServiceStatistics"}

ASSUME CatalogueAssumption ==
  /\ IsFiniteSet(Tx)
  /\ \A t \in Tx : /\ Action[t].type \in ActionType \intersect Kind
                   /\ Signers[t] \in Seq(Address) \ {<<>>}
                   /\ Action[t].type = "AuthorizationUpdate" =>
                        /\ Action[t].status \in {"store", "remove"}
                        /\ Action[t].owner \in Address /\ Action[t].actor \in Address
                        /\ Action[t].kinds \in SUBSET Kind
  /\ \A s \in Settings : s.offered \in SUBSET Tx /\ s.first \in Seq(Tx)
  /\ Creation \in [Tx -> Int]
  /\ FirstBalance \in [Address -> Nat]
  /\ \A a, b \in Address : a # b => Rank[a] # Rank[b]
  /\ Emission \in Nat /\ BlockMax \in Nat /\ BlockMineDelay \in Nat \ {0}
  /\ MaxSync \in Nat /\ MaxBlocks \in Nat

\* What messages are made of: accounts, amounts and counts that are not below zero;
\* a report is a set of items.  Names of accounts have an order.
ASSUME MessageAssumption ==
  /\ IsFiniteSet(Address) /\ Miner \subseteq Address
  /\ Rank \in [Address -> Int]
  /\ \A s \in Settings : s.address \in Address
  /\ \A t \in Tx :
       LET a == Action[t]
       IN  /\ a.type = "Transfer" =>
                a.from \in Address /\ a.to \in Address /\ a.amount \in Nat
           /\ a.type = "Role" => a.node \in Address
           /\ a.type = "File" => a.authors \in Seq(Address)
           /\ a.type = "ContentUnit" => a.channel \in Address
           /\ a.type = "StorageUpdate" => a.status \in {"store", "remove"}
           /\ a.type = "ServiceStatistics" =>
                /\ IsFiniteSet(a.items)
                /\ \A i \in a.items : i.count \in Nat

VARIABLES
  setting,  \* this node: [address, kind, first, offered]; never changes
  stores,   \* see TypeOK
  chain     \* sequence of blocks [miner, txs, rewards]

vars == <<setting, stores, chain>>

TimeOf(number) == number * BlockMineDelay
None == "none"

\* action_owners
Owners(t) ==
  LET a == Action[t]
  IN  CASE a.type \in {"File", "ContentUnit"} -> a.authors
        [] a.type = "Transfer" -> <<a.from>>
        [] a.type = "Role" -> <<a.node>>
        [] a.type = "Content" -> <<a.channel>>
        [] a.type = "StorageUpdate" -> <<a.storage>>
        [] a.type = "AuthorizationUpdate" -> <<a.owner>>
        [] a.type = "ServiceStatistics" -> <<a.server>>

-----------------------------------------------------------------------------
(* What an action must be by itself *)

OneSigner(t) == Len(Signers[t]) = 1
AuthorsSign(t) ==
  /\ Action[t].authors # <<>> /\ IsInjective(Action[t].authors)
  /\ Len(Signers[t]) = Len(Action[t].authors)

FileIsValid(t) == AuthorsSign(t)
UnitIsValid(t) == AuthorsSign(t) /\ Action[t].files # <<>>
ContentIsValid(t) == OneSigner(t) /\ Action[t].units # <<>>
RoleIsValid(t) == OneSigner(t) /\ Action[t].kind \in {"channel", "storage"}
TransferIsValid(t) == OneSigner(t) /\ Action[t].from # Action[t].to /\ Action[t].amount > 0
ReportIsValid(t) ==
  OneSigner(t) /\ Action[t].items # {} /\ \A i \in Action[t].items : i.count > 0
StorageUpdateIsValid(t) == OneSigner(t)

\* action_validate
IsValid(t) ==
  CASE Action[t].type = "File" -> FileIsValid(t)
    [] Action[t].type = "ContentUnit" -> UnitIsValid(t)
    [] Action[t].type = "Content" -> ContentIsValid(t)
    [] Action[t].type = "Role" -> RoleIsValid(t)
    [] Action[t].type = "Transfer" -> TransferIsValid(t)
    [] Action[t].type = "ServiceStatistics" -> ReportIsValid(t)
    [] Action[t].type = "StorageUpdate" -> StorageUpdateIsValid(t)
    [] Action[t].type = "AuthorizationUpdate" -> UpdateIsValid(Signers[t], Action[t])

-----------------------------------------------------------------------------
(* Applying and undoing an action *)

RoleOf(w, node) == IF node \in DOMAIN w.roles THEN w.roles[node] ELSE "none"

Authorised(w, t) ==
  \A n \in DOMAIN Signers[t] : MaySign(w.auth, Owners(t)[n], Signers[t][n], Action[t].type)

RoleFits(w, a) ==
  /\ a.node \notin DOMAIN w.roles
  /\ a.node = setting.address => a.kind = setting.kind
  /\ w.balance[a.node] >= Threshold[a.kind]

\* Fault: the files need not be there.
UnitFitsWithoutFiles(w, a) == IsInjective(a.files) /\ a.uri \notin DOMAIN w.units

UnitFits(w, a) ==
  /\ IsInjective(a.files)
  /\ a.uri \notin DOMAIN w.units
  /\ ToSet(a.files) \subseteq DOMAIN w.files

ContentFits(w, a) ==
  \A u \in ToSet(a.units) :
    u \in DOMAIN w.units /\ w.units[u].channel = a.channel /\ w.units[u].content = a.content

StorageUpdateFits(w, a) ==
  /\ RoleOf(w, a.storage) = "storage"
  /\ a.uri \in DOMAIN w.files
  /\ (<<a.uri, a.storage>> \in w.holders) = (a.status = "remove")

\* What a channel reports is a file of a unit, what a storage reports a file; the peer
\* is of the other kind.
ItemFits(w, kind, i) ==
  /\ i.file \in DOMAIN w.files
  /\ IF kind = "storage" THEN i.unit = None
     ELSE i.unit \in DOMAIN w.units /\ i.file \in ToSet(w.units[i.unit].files)
  /\ RoleOf(w, i.peer) \notin {"none", kind}

\* The pool takes a report only when the addresses of all that it names were checked
\* lately and differ; "fresh" gives their ip addresses.
PeersKnown(a, fresh) ==
  LET peers  == {i.peer : i \in a.items} \ {setting.address}
      ips    == {fresh[p] : p \in (peers \ {a.server}) \intersect DOMAIN fresh}
      server == IF a.server \in DOMAIN fresh THEN fresh[a.server]
                ELSE IF a.server = setting.address THEN a.server ELSE None
  IN  server # None /\ Cardinality(ips) = Cardinality(peers) /\ server \notin ips

StatisticsFit(w, a, layer, fresh) ==
  LET kind == RoleOf(w, a.server)
  IN  /\ kind # "none" /\ w.balance[a.server] >= Threshold[kind]
      /\ IF layer = "chain" THEN a.block = w.length - 1 ELSE PeersKnown(a, fresh)
      /\ \A i \in a.items : ItemFits(w, kind, i)

\* action_can_apply returns true; an update is signed for one owner.
CanApply(w, t, layer, fresh) ==
  LET a == Action[t]
  IN  /\ Authorised(w, t)
      /\ CASE a.type = "AuthorizationUpdate" -> UpdateFits(w.auth, a)
           [] a.type = "Transfer" -> w.balance[a.from] >= a.amount
           [] a.type = "Role" -> RoleFits(w, a)
           [] a.type = "File" -> a.uri \notin DOMAIN w.files
           [] a.type = "ContentUnit" -> UnitFits(w, a)
           [] a.type = "Content" -> RoleOf(w, a.channel) = "channel" /\ ContentFits(w, a)
           [] a.type = "StorageUpdate" -> StorageUpdateFits(w, a)
           [] a.type = "ServiceStatistics" -> StatisticsFit(w, a, layer, fresh)

\* action_can_apply throws instead of returning false for one kind of action only:
\* "the content owner is not a channel".
Throws(w, t) ==
  Action[t].type = "Content" /\ Authorised(w, t) /\ RoleOf(w, Action[t].channel) # "channel"

\* storage_update
Holding(holders, a, status) ==
  IF status = "store" THEN holders \union {<<a.uri, a.storage>>}
  ELSE holders \ {<<a.uri, a.storage>>}

\* A storage without a manager asks the channel for all files of what it approves.
Requested(w, a) ==
  [f \in UNION {ToSet(w.units[u].files) : u \in ToSet(a.units)} |-> a.channel]

\* action_apply, after action_can_apply has allowed it
Transferred(w, a) ==
  [w EXCEPT !.balance[a.to] = @ + a.amount, !.balance[a.from] = @ - a.amount]
RoleApply(w, a) == [w EXCEPT !.roles = With(@, a.node, a.kind)]
FileApply(w, a) == [w EXCEPT !.files = With(@, a.uri, a.authors)]
UnitApply(w, a) == [w EXCEPT !.units = With(@, a.uri, a)]
ContentApply(w, a, layer) ==
  IF setting.kind = "storage" /\ layer = "chain"
  THEN [w EXCEPT !.requests = @ @@ Requested(w, a)] ELSE w
StorageUpdateApply(w, a) == [w EXCEPT !.holders = Holding(@, a, a.status)]
ReportApply(w, a) == w

ActionApply(w, t, layer) ==
  LET a == Action[t]
  IN  CASE a.type = "AuthorizationUpdate" -> [w EXCEPT !.auth = Updated(@, a)]
        [] a.type = "Transfer" -> Transferred(w, a)
        [] a.type = "Role" -> RoleApply(w, a)
        [] a.type = "File" -> FileApply(w, a)
        [] a.type = "ContentUnit" -> UnitApply(w, a)
        [] a.type = "Content" -> ContentApply(w, a, layer)
        [] a.type = "StorageUpdate" -> StorageUpdateApply(w, a)
        [] a.type = "ServiceStatistics" -> ReportApply(w, a)

\* action_revert
TransferRevert(w, a) ==
  LET undone == [w EXCEPT !.balance[a.to] = @ - a.amount, !.balance[a.from] = @ + a.amount]
  IN  [undone EXCEPT !.ok = undone.balance[a.to] >= 0]
RoleRevert(w, a) == [w EXCEPT !.roles = Without(@, a.node)]
FileRevert(w, a) == [w EXCEPT !.files = Without(@, a.uri)]
UnitRevert(w, a) == [w EXCEPT !.units = Without(@, a.uri)]
ContentRevert(w, a) == w
ReportRevert(w, a) == w
UpdateRevert(w, a) == [w EXCEPT !.ok = CanUndo(w.auth, a), !.auth = Undone(@, a)]

\* Fault: a removed storage is not put back.
StorageUpdateRevertForgets(w, a) == [w EXCEPT !.holders = Holding(@, a, "remove")]

StorageUpdateRevert(w, a) == [w EXCEPT !.holders = Holding(@, a, Opposite(a.status))]

\* All but the revert of an authorization update look at the authorities again after
\* they have undone the action.
ActionRevert(w, t) ==
  LET a == Action[t]
      undone ==
        CASE a.type = "AuthorizationUpdate" -> UpdateRevert(w, a)
          [] a.type = "Transfer" -> TransferRevert(w, a)
          [] a.type = "Role" -> RoleRevert(w, a)
          [] a.type = "File" -> FileRevert(w, a)
          [] a.type = "ContentUnit" -> UnitRevert(w, a)
          [] a.type = "Content" -> ContentRevert(w, a)
          [] a.type = "StorageUpdate" -> StorageUpdateRevert(w, a)
          [] a.type = "ServiceStatistics" -> ReportRevert(w, a)
  IN  IF a.type = "AuthorizationUpdate" \/ Authorised(w, t)
      THEN undone ELSE [undone EXCEPT !.ok = FALSE]

-----------------------------------------------------------------------------
(* What a block pays *)

\* The last report of each server of a kind.
Reports(w, txs, kind) ==
  LET reports == {n \in DOMAIN txs : Action[txs[n]].type = "ServiceStatistics"}
      By(s) == {n \in reports : Action[txs[n]].server = s}
      servers == {s \in {Action[txs[n]].server : n \in reports} : RoleOf(w, s) = kind}
  IN  [s \in servers |-> Action[txs[Max(By(s))]].items]

\* stat_mismatch, STAT_ERROR_LIMIT
Agree(m, n) == 100 * Max({m, n}) <= 120 * Min({m, n})

Sum(views) == SumFunction([v \in views |-> v.count])

View(c, i) ==
  [channel |-> c, unit |-> i.unit, file |-> i.file, peer |-> i.peer, count |-> i.count]

\* The views that a channel and a storage report alike.
VerifiedViews(channels, storages) ==
  LET Reported(c, f, s) == Sum({i \in channels[c] : i.file = f /\ i.peer = s})
      Confirmed(c, i) ==
        /\ i.peer \in DOMAIN storages
        /\ \E j \in storages[i.peer] :
             j.peer = c /\ j.file = i.file /\ Agree(Reported(c, i.file, i.peer), j.count)
  IN  UNION {{View(c, i) : i \in {j \in channels[c] : Confirmed(c, j)}} : c \in DOMAIN channels}

\* A share is [to, num, den, item]: num / den of what is given out, "item" tells
\* shares of one account apart.
StorageShares(views) ==
  {[to |-> s, num |-> Sum({v \in views : v.peer = s}), den |-> Sum(views), item |-> s] :
     s \in {v.peer : v \in views}}

\* The views of a unit are the average over its files; the authors of each file share.
AuthorShares(w, views) ==
  LET FilesOf(u) == {v.file : v \in {x \in views : x.unit = u}}
      Used(u) == Sum({v \in views : v.unit = u}) \div Cardinality(FilesOf(u))
      units == {v.unit : v \in views}
      Share(u, f, n) ==
        [to   |-> w.files[f][n],
         num  |-> Used(u),
         den  |-> Cardinality(FilesOf(u)) * Len(w.files[f]) * SumFunction([x \in units |-> Used(x)]),
         item |-> <<u, f, n>>]
  IN  UNION {UNION {{Share(u, f, n) : n \in DOMAIN w.files[f]} : f \in FilesOf(u)} : u \in units}

\* counts_per_channel_views: of each content the most viewed file counts.
ChannelCount(w, views) ==
  LET OfContent(c) ==
        Max({Sum({v \in views : v.unit = x.unit /\ v.file = x.file}) :
               x \in {y \in views : w.units[y.unit].content = c}})
  IN  SumFunction([c \in {w.units[v.unit].content : v \in views} |-> OfContent(c)])

\* The channel that serves and the one whose unit it is share by halves; a channel that
\* serves its own has one share, the whole.
ChannelShares(w, views) ==
  LET Owner(v) == w.units[v.unit].channel
      pairs == {<<v.channel, Owner(v)>> : v \in views}
      Count(p) == ChannelCount(w, {v \in views : v.channel = p[1] /\ Owner(v) = p[2]})
      total == SumFunction([p \in pairs |-> Count(p)])
      Places(p) == IF p[1] = p[2] THEN {1} ELSE {1, 2}
      Share(p, n) == [to |-> p[n], num |-> IF p[1] = p[2] THEN 2 * Count(p) ELSE Count(p),
                      den |-> 2 * total, item |-> <<p, n>>]
  IN  UNION {{Share(p, n) : n \in Places(p)} : p \in pairs}

\* Fault: what rounding leaves is not paid.
DistributeRounding(shares, amount) ==
  LET Of(a) == SumFunction([s \in {x \in shares : x.to = a} |-> (amount * s.num) \div s.den])
  IN  IF amount = 0 THEN <<>> ELSE [a \in {s.to : s \in shares} |-> Of(a)]

\* distribute_rewards: who gets what; the last account in the order of names gets what
\* rounding leaves.
Distribute(shares, amount) ==
  LET Of(a) == SumFunction([s \in {x \in shares : x.to = a} |-> (amount * s.num) \div s.den])
      paid  == {s.to : s \in shares}
      rest  == amount - SumFunction([a \in paid |-> Of(a)])
  IN  IF amount = 0 THEN <<>>
      ELSE [a \in paid |-> Of(a) + IF \A b \in paid : Rank[b] <= Rank[a] THEN rest ELSE 0]

\* grant_rewards: a part that nobody has a share of goes to the miner.
Rewards(w, txs, miner) ==
  LET views    == VerifiedViews(Reports(w, txs, "channel"), Reports(w, txs, "storage"))
      author   == (Emission * 40) \div 100
      channel  == (Emission * 30) \div 100
      ofMiner  == (Emission * 10) \div 100
      storage  == Emission - author - channel - ofMiner
  IN  IF views = {} THEN [miner |-> [a \in {miner} |-> Emission]]
      ELSE [author  |-> Distribute(AuthorShares(w, views), author),
            channel |-> Distribute(ChannelShares(w, views), channel),
            storage |-> Distribute(StorageShares(views), storage),
            miner   |-> IF ofMiner = 0 THEN <<>> ELSE [a \in {miner} |-> ofMiner]]

Paid(rewards, a) ==
  SumFunction([r \in DOMAIN rewards |-> IF a \in DOMAIN rewards[r] THEN rewards[r][a] ELSE 0])
Pay(w, rewards, sign) ==
  [w EXCEPT !.balance = [a \in Address |-> @[a] + sign * Paid(rewards, a)]]

-----------------------------------------------------------------------------
(* Handlers *)

OnChain(c) == UNION {ToSet(c[i].txs) : i \in DOMAIN c}

\* apply_transaction for the pool: what does not fit is dropped.
PutBack(w, t, fresh) ==
  IF ~ w.ok THEN w
  ELSE IF Throws(w, t) THEN [w EXCEPT !.ok = FALSE]
  ELSE IF CanApply(w, t, "pool", fresh)
  THEN [ActionApply(w, t, "pool") EXCEPT !.pool = Append(@, t)]
  ELSE w

\* All but those that were taken over are put back.
PutAllBack(w, txs, taken, fresh) ==
  FoldLeft(LAMBDA v, t : IF t \in taken THEN v ELSE PutBack(v, t, fresh), w, txs)

Undo(t, w) == IF w.ok THEN ActionRevert(w, t) ELSE w
RevertPool(w) == [FoldRight(Undo, w.pool, w) EXCEPT !.pool = <<>>]

\* A block ends with its rewards.
CloseBlock(w, miner, txs) ==
  LET rewards == Rewards(w, txs, miner)
  IN  [w     |-> [Pay(w, rewards, 1) EXCEPT !.length = @ + 1],
       block |-> [miner |-> miner, txs |-> txs, rewards |-> rewards]]

\* The transactions of a block are tried in order; r is [w, txs, failed].
TryTransaction(r, t) ==
  IF ~ r.w.ok THEN r
  ELSE IF Throws(r.w, t) THEN [r EXCEPT !.w.ok = FALSE]
  ELSE IF CanApply(r.w, t, "chain", <<>>)
  THEN [r EXCEPT !.w = ActionApply(@, t, "chain"), !.txs = Append(@, t)]
  ELSE [r EXCEPT !.failed = @ \union {t}]
TryAll(w, txs) == FoldLeft(TryTransaction, [w |-> w, txs |-> <<>>, failed |-> {}], txs)

\* The orders by creation; std::sort leaves open that of equal times.
Sorted(S) ==
  LET Places(q, t) == {n \in 1..(Len(q) + 1) :
                         /\ \A m \in 1..(n - 1) : Creation[q[m]] <= Creation[t]
                         /\ \A m \in n..Len(q) : Creation[t] <= Creation[q[m]]}
      Extend(t, orders) == UNION {{InsertAt(q, n, t) : n \in Places(q, t)} : q \in orders}
  IN  FoldSet(Extend, {<<>>}, S)

\* The reports of a kind for the time before block "number".
ReportsFor(w, S, number, kind) ==
  {t \in S : /\ Action[t].type = "ServiceStatistics" /\ Action[t].block = number - 1
             /\ RoleOf(w, Action[t].server) = kind}

\* action_process_on_chain_t
Receive(t) ==
  /\ t \in setting.offered \ (OnChain(chain) \union ToSet(stores.pool))
  /\ \E fresh \in Fresh :
       /\ IsValid(t)
       /\ stores' = PutBack(stores, t, fresh)
       /\ stores'.ok /\ t \in ToSet(stores'.pool)
  /\ UNCHANGED <<setting, chain>>

\* reserve_statistics: half of the reports of a kind, rounded up, have a place.
Reserved(S, room) == Min({(Cardinality(S) + 2) \div 2, Cardinality(S), room})

\* What mine_block picks besides is ranked by fees, which are left open.
Picks(w, candidates, number) ==
  LET channel == ReportsFor(w, candidates, number, "channel")
      storage == ReportsFor(w, candidates, number, "storage")
      first   == Reserved(channel, BlockMax)
  IN  {S \in SUBSET candidates :
         /\ Cardinality(S) = Min({BlockMax, Cardinality(candidates)})
         /\ Cardinality(S \intersect channel) >= first
         /\ Cardinality(S \intersect storage) >= Reserved(storage, BlockMax - first)}

\* What mining may come to: the stores and the block.
Mined(fresh) ==
  LET w      == RevertPool(stores)
      number == Len(chain)
      pool   == ToSet(stores.pool)
      ready  == {t \in pool : /\ Creation[t] < TimeOf(number)
                              /\ Action[t].type = "ServiceStatistics" =>
                                   Action[t].block = number - 1}
      Result(order, picked) ==
        LET tried  == TryAll(w, order)
            closed == CloseBlock(tried.w, setting.address, tried.txs)
        IN  {[w |-> PutAllBack(closed.w, back, {}, fresh), block |-> closed.block] :
               back \in Sorted((pool \ picked) \union tried.failed)}
  IN  UNION {UNION {Result(order, picked) : order \in Sorted(picked)} :
               picked \in Picks(w, ready, number)}

\* Fault: coins that are only in the pool count.
IsMinerByPool ==
  setting.kind = "blockchain" /\ stores.balance[setting.address] >= Threshold["miner"]

IsMiner ==
  setting.kind = "blockchain" /\ RevertPool(stores).balance[setting.address] >= Threshold["miner"]

MineBlock ==
  /\ Len(chain) <= MaxBlocks /\ IsMiner
  /\ \E fresh \in Fresh : \E mined \in Mined(fresh) :
       /\ mined.w.ok
       /\ stores' = mined.w
       /\ chain' = Append(chain, mined.block)
  /\ UNCHANGED setting

\* Fault: the actions are undone in the order they were applied in.
RevertBlockForward(w, block) ==
  LET unpaid == [Pay(w, block.rewards, -1) EXCEPT !.length = @ - 1]
  IN  IF Rewards(w, block.txs, block.miner) # block.rewards THEN [w EXCEPT !.ok = FALSE]
      ELSE FoldLeft(LAMBDA v, t : Undo(t, v), unpaid, block.txs)

\* A block is taken off: its rewards are computed again and must be those it holds.
RevertBlock(w, block) ==
  LET unpaid == [Pay(w, block.rewards, -1) EXCEPT !.length = @ - 1]
  IN  IF Rewards(w, block.txs, block.miner) # block.rewards THEN [w EXCEPT !.ok = FALSE]
      ELSE FoldRight(Undo, block.txs, unpaid)
Unblock(block, w) == IF w.ok THEN RevertBlock(w, block) ELSE w
RevertBlocks(w, lcb) == FoldRight(Unblock, SubSeq(chain, lcb + 2, Len(chain)), w)

\* A block of a peer is checked and applied; what a peer sends holds the rewards that
\* its miner computed.
VerifyBlock(r, b) ==
  LET tried  == TryAll(r.w, b.txs)
      closed == CloseBlock(tried.w, b.miner, b.txs)
  IN  IF /\ r.w.ok /\ tried.w.ok /\ tried.failed = {} /\ \A t \in ToSet(b.txs) : IsValid(t)
         /\ r.w.balance[b.miner] >= Threshold["miner"]
         /\ RoleOf(r.w, b.miner) = "none"
      THEN [w |-> closed.w, blocks |-> Append(r.blocks, closed.block)]
      ELSE [r EXCEPT !.w.ok = FALSE]

\* check_service_statistics, for a single block: it holds half of the reports known.
EnoughReports(w, txs, known, number) ==
  \A kind \in {"channel", "storage"} :
    2 * Cardinality(ReportsFor(w, ToSet(txs), number, kind))
      >= Cardinality(ReportsFor(w, known, number, kind))

\* session_action_block: the blocks of a peer replace everything above lcb.  The pool
\* is given up when the peer has more to send.
SyncBlocks(lcb) ==
  LET below   == SubSeq(chain, 1, lcb + 1)
      removed == FlattenSeq([n \in 1..(Len(chain) - lcb - 1) |-> chain[n + lcb + 1].txs])
      offered == setting.offered \ OnChain(below)
  IN
  \E bare \in {RevertBlocks(RevertPool(stores), lcb)} :
  \E n \in 1..Min({MaxSync, MaxBlocks - lcb}) :
  \E sent \in [1..n -> [miner : Miner \ {setting.address},
                        txs : UNION {Sorted(S) : S \in SUBSET offered}]] :
    /\ bare.ok
    /\ \A i, j \in 1..n : i # j => ToSet(sent[i].txs) \intersect ToSet(sent[j].txs) = {}
    /\ n = 1 => EnoughReports(bare, sent[1].txs, ToSet(removed \o stores.pool), lcb + 1)
    /\ \E verified \in {FoldLeft(VerifyBlock, [w |-> bare, blocks |-> <<>>], sent)} :
       \E more \in BOOLEAN, fresh \in Fresh :
         /\ stores' = PutAllBack(verified.w, removed \o (IF more THEN <<>> ELSE stores.pool),
                                 UNION {ToSet(sent[i].txs) : i \in 1..n}, fresh)
         /\ stores'.ok
         /\ chain' = below \o verified.blocks
    /\ UNCHANGED setting

\* The option that reverts the last block at start: the pool is lost.
RevertLastBlock ==
  /\ Len(chain) > 1
  /\ stores' = RevertBlock(RevertPool(stores), Last(chain))
  /\ stores'.ok
  /\ chain' = Front(chain)
  /\ UNCHANGED setting

FirstStores ==
  [balance |-> FirstBalance, auth |-> <<>>, roles |-> <<>>, files |-> <<>>, units |-> <<>>,
   holders |-> {}, requests |-> <<>>, pool |-> <<>>, length |-> 1, ok |-> TRUE]
GenesisBlock == [miner |-> None, txs |-> <<>>, rewards |-> <<>>]

\* A node that has taken over the block "first" of a peer.
Init ==
  /\ setting \in Settings
  /\ \E miner \in Miner \ {setting.address} :
     \E verified \in {VerifyBlock([w |-> FirstStores, blocks |-> <<GenesisBlock>>],
                                  [miner |-> miner, txs |-> setting.first])} :
       /\ stores = verified.w
       /\ stores.ok
       /\ chain = verified.blocks

Next ==
  \/ \E t \in setting.offered : Receive(t)
  \/ MineBlock
  \/ \E lcb \in 0..(Len(chain) - 1) : SyncBlocks(lcb)
  \/ RevertLastBlock

Spec == Init /\ [][Next]_vars
-----------------------------------------------------------------------------
(* Properties *)

\* No account is overdrawn, and what a document names is there: the files of a unit, the
\* file and the storage of a holding.
TypeOK ==
  /\ stores.balance \in [Address -> Nat]
  /\ IsAuthorityStore(stores.auth)
  /\ DOMAIN stores.roles \subseteq Address
  /\ \A u \in DOMAIN stores.units : ToSet(stores.units[u].files) \subseteq DOMAIN stores.files
  /\ stores.holders \subseteq (DOMAIN stores.files) \X {a \in Address : RoleOf(stores, a) = "storage"}
  /\ stores.pool \in Seq(Tx) /\ stores.length = Len(chain) /\ stores.ok

\* Whatever was mined, received, taken off and put back: roles, documents, holders,
\* authorities and accounts are those of the chain applied from the genesis block and
\* then the pool.
ReplayTx(w, t) == ActionApply(w, t, "pool")
ReplayBlock(w, block) ==
  Pay([FoldLeft(ReplayTx, w, block.txs) EXCEPT !.length = @ + 1], block.rewards, 1)
Replay == FoldLeft(ReplayTx, FoldLeft(ReplayBlock, FirstStores, Tail(chain)), stores.pool)
StoresAreReplay ==
  [stores EXCEPT !.requests = <<>>, !.pool = <<>>] = Replay

\* The last block can be taken off: the rewards computed then are those it holds
\* ("verify block rewards before reverting"), and no action_revert finds the stores in
\* a state that it throws for.  A node at which this fails is left behind for good.
HeadCanBeTakenOff ==
  Len(chain) > 1 => RevertBlock(RevertPool(stores), Last(chain)).ok

\* A block pays its emission, whatever is reported, how shares are rounded, and who is
\* a member of several of them.
EmissionIsPaid ==
  \A n \in 2..Len(chain) :
    SumFunction([a \in Address |-> Paid(chain[n].rewards, a)]) = Emission

\* An account is never without somebody who may change its authorizations, whoever was
\* given and took away what; and get_record finds the owner in every entry.
SomebodyDecides ==
  \A owner \in Address :
    /\ HasRecord(stores.auth, owner, owner)
    /\ \E a \in Address : MaySign(stores.auth, owner, a, "AuthorizationUpdate")

\* What this node mines a peer takes over that begins with the same stores and has no
\* reports of its own.  The peer is evaluated with this node's setting: a block with a role
\* of the peer itself, which must then be of the peer's own kind, is not told apart.
MinedIsAcceptable ==
  [][Len(chain') = Len(chain) + 1 /\ chain'[Len(chain')].miner = setting.address =>
       VerifyBlock([w |-> RevertPool(stores), blocks |-> chain], Last(chain')).blocks = chain']_vars

\* mine_block: "either transaction time corresponds to a future block or it couldn't be
\* applied because of the order or it will not even be possible to apply at all" - such
\* a transaction goes back to the pool, and the block is mined without it.
MiningGoesOn ==
  IsMiner => \A fresh \in Fresh : \A mined \in Mined(fresh) : mined.w.ok
=============================================================================
